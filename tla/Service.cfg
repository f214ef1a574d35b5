SPECIFICATION Spec
CONSTANTS
  Clients = {"driver", "monitor"}
  Scripts <- AllScripts
  RingCap = 2
INVARIANTS CancelsOnce NoEventMissed
PROPERTY CallsEnd
CHECK_DEADLOCK FALSE
