SPECIFICATION Spec
CONSTANTS
  Fleets <- AllFleets
INVARIANTS SumsRight AttachmentBarrier
PROPERTY StreamsDrain
CHECK_DEADLOCK FALSE
