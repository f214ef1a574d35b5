----------------------------- MODULE Roundtrip -----------------------------
(***************************************************************************)
(* The roundtrip_planner policy (dataflow_sim/policies/roundtrip_planner.py)*)
(* works on projected pool sizes and two timelines of transfer slots: round *)
(* trips out of memory, where they relieve an overfull boundary, then the   *)
(* prefetch every backing object needs before its first use.                *)
(***************************************************************************)
EXTENDS PolicyCommon

(* Task 1's inputs, and then by first use whatever fits beside its outputs   *)
(* and the room the widest task may need on top of task 1.                   *)
PlannerPlacement(c) ==
  LET must == (c.tasks[1].inputs \cap c.backing) \ c.fast
      wide(i) == Bytes(c, c.tasks[i].inputs) + NextReservation(c, i - 1)
      slack == Max({0, Max({wide(i) : i \in DOMAIN c.tasks}) - wide(1)})
      more == {o \in c.backing \ must : Uses(c, o) # {}}
      add(placed, o) ==
        IF Bytes(c, c.fast) + Bytes(c, placed) + c.size[o] + NextReservation(c, 0)
             <= c.capacity - slack
        THEN placed \cup {o} ELSE placed
  IN FoldLeft(add, must, SortedBy(more, LAMBDA o : <<IdealStart(c, Min(Uses(c, o))), o>>))

PlannerPlacementFits(c) == Bytes(c, c.fast \cup (c.tasks[1].inputs \cap c.backing)) <= c.capacity

(* bps: the pool after every task when nothing moves and an object goes with *)
(* its last use.                                                             *)
InitialBps(c, placed) ==
  LET held[i \in 0 .. TaskCount(c)] ==
        IF i = 0 THEN c.fast \cup placed
        ELSE {o \in held[i - 1] \cup OutputsAt(c, c.tasks[i], "fast") : LastUse(c, o) > i}
  IN [i \in 1 .. TaskCount(c) |-> Bytes(c, held[i])]

OutboundTime(c, o) == TransferTime(c.size[o], c.outbound)

(* Gaps between production or a use and the next use that are long enough to *)
(* send the object out and back, the most valuable first.                    *)
RoundTrips(c) ==
  LET events(o) == Uses(c, o) \cup {p \in 1 .. TaskCount(c) : o \in OutputsAt(c, c.tasks[p], "fast")}
      gap(o, prev) ==
        LET next == Min({u \in Uses(c, o) : u > prev})
        IN [object |-> o, prev |-> prev, next |-> next,
            length |-> IdealStart(c, next) - IdealEnd(c, prev)]
      all == UNION {{gap(o, e) : e \in {x \in events(o) : \E u \in Uses(c, o) : u > x}} :
                      o \in {x \in Objects(c) : Uses(c, x) # {}}}
      wide == {t \in all : t.length >= OutboundTime(c, t.object) + InboundTime(c, t.object)}
  IN SortedBy(wide, LAMBDA t : <<-(c.size[t.object] * t.length), t.prev - t.next, t.prev,
                                 Min(Uses(c, t.object)), t.object>>)

(* The earliest free stretch of a stream's timeline, -1 if there is none. *)
FindSlot(slots, earliest, deadline, time) ==
  LET free(x) == \A s \in slots : s.end <= x \/ x + time <= s.start
      starts == {x \in {earliest} \cup {s.end : s \in slots} :
                   earliest <= x /\ x + time <= deadline /\ free(x)}
  IN IF starts = {} THEN -1 ELSE Min(starts)

Slot(x, time) == [start |-> x, end |-> x + time]

ColdObjects(c, placed) == {o \in c.backing \ (c.fast \cup placed) : Uses(c, o) # {}}

(* The latest task from which a prefetch would arrive before the first use. *)
LatestInTime(c, o) ==
  LET first == Min(Uses(c, o))
  IN Max({1} \cup {k \in 1 .. first - 1 :
                     IdealEnd(c, k) + InboundTime(c, o) <= IdealStart(c, first)})

OverflowsAt(c, placed, bps, k) ==
  LET coming == {o \in ColdObjects(c, placed) : LatestInTime(c, o) <= k /\ k <= LastUse(c, o)}
  IN bps[k] + Bytes(c, coming) + NextReservation(c, k) > c.capacity

(* Backing objects are believed unchanged: their trip out is a release. *)
ReleasedInstead(c, o) == o \in c.backing

TripWith(c, acc, t, k, free, out, gone, in) ==
  LET o == t.object
      covers == t.prev + 1 .. k
  IN IF in = -1 THEN acc
     ELSE [notes |-> LET left == IF free THEN [acc.notes EXCEPT ![t.prev].release = Append(@, o)]
                                 ELSE [acc.notes EXCEPT ![t.prev].offload = Append(@, o)]
                     IN [left EXCEPT ![k].prefetch = Append(@, o)],
           out |-> IF free THEN acc.out ELSE acc.out \cup {Slot(out, OutboundTime(c, o))},
           in |-> acc.in \cup {Slot(in, InboundTime(c, o))},
           bps |-> [b \in DOMAIN acc.bps |->
                      acc.bps[b] - (IF b \in covers /\ gone <= IdealEnd(c, b) /\ IdealEnd(c, b) < in
                                    THEN c.size[o] ELSE 0)]]

TripOut(c, acc, t, k, out) ==
  LET o == t.object
      free == ReleasedInstead(c, o)
      gone == IF free THEN out ELSE out + OutboundTime(c, o)
  IN IF out = -1 THEN acc
     ELSE TripWith(c, acc, t, k, free, out, gone,
                   FindSlot(acc.in, Max({gone, IdealEnd(c, k)}), IdealStart(c, t.next),
                            InboundTime(c, o)))

CommitTrip(c, placed, acc, t) ==
  LET o == t.object
      returns == {k \in t.prev + 1 .. t.next - 1 :
                    IdealEnd(c, k) + InboundTime(c, o) <= IdealStart(c, t.next)}
  IN IF returns = {} THEN acc
     ELSE IF ~\E b \in t.prev + 1 .. Max(returns) : OverflowsAt(c, placed, acc.bps, b) THEN acc
     ELSE TripOut(c, acc, t, Max(returns),
                  IF ReleasedInstead(c, o) THEN IdealEnd(c, t.prev)
                  ELSE FindSlot(acc.out, IdealEnd(c, t.prev),
                                IdealStart(c, t.next) - InboundTime(c, o), OutboundTime(c, o)))

(* As late as it arrives in time within the capacity; failing that, as late  *)
(* as it arrives in time; failing that, from task 1, behind everything.      *)
FetchedFrom(c, acc, o, k, in) ==
  [acc EXCEPT !.notes[k].prefetch = Append(@, o),
              !.in = @ \cup {Slot(in, InboundTime(c, o))},
              !.bps = [b \in DOMAIN @ |->
                         @[b] + (IF k <= b /\ b <= LastUse(c, o) THEN c.size[o] ELSE 0)]]

CommitFirstUse(c, acc, o) ==
  LET first == Min(Uses(c, o))
      slot(k) == FindSlot(acc.in, IdealEnd(c, k), IdealStart(c, first), InboundTime(c, o))
      timely == {k \in 1 .. first - 1 : slot(k) # -1}
      roomy == {k \in timely : \A b \in k .. LastUse(c, o) :
                                 acc.bps[b] + NextReservation(c, b) + c.size[o] <= c.capacity}
      k == Max(IF roomy # {} THEN roomy ELSE timely)
  IN IF timely # {} THEN FetchedFrom(c, acc, o, k, slot(k))
     ELSE FetchedFrom(c, acc, o, 1, Max({0} \cup {s.end : s \in acc.in}))

Trips(c, placed) ==
  FoldLeft(LAMBDA acc, t : CommitTrip(c, placed, acc, t),
           [notes |-> NoNotes(c), out |-> {}, in |-> {}, bps |-> InitialBps(c, placed)],
           RoundTrips(c))

PackedTrips(c, placed) ==
  FoldLeft(LAMBDA acc, o : CommitFirstUse(c, acc, o), Trips(c, placed),
           SortedBy(ColdObjects(c, placed), LAMBDA o : <<Min(Uses(c, o)), o>>)).notes

(* What was ever in fast memory is released after its last use. *)
EndReleased(c, placed, notes) ==
  LET fetched == UNION {ToSet(notes[i].prefetch) : i \in DOMAIN notes}
      made == UNION {OutputsAt(c, c.tasks[i], "fast") : i \in DOMAIN c.tasks}
      ends(i) == Ascending({o \in c.fast \cup placed \cup made \cup fetched : LastUse(c, o) = i})
  IN [i \in DOMAIN notes |-> [notes[i] EXCEPT !.release = @ \o ends(i)]]

PlacedTrips(c, placed) ==
  AddGradientWritebacks(ApplyAnnotations(c, placed, EndReleased(c, placed, PackedTrips(c, placed))))

RoundtripChain(c) == PlacedTrips(c, PlannerPlacement(c))
=============================================================================
