---------------------------- MODULE PolicyCommon ----------------------------
(***************************************************************************)
(* What the belady_reactive and roundtrip_planner policies share            *)
(* (dataflow_sim/policies/_common.py). Both believe that no task rewrites   *)
(* an object in place, and both let the simulator have the last word.       *)
(***************************************************************************)
EXTENDS Residency, Simulator

(* The earliest ideal start, at t or later, of a task that reads o. *)
NextUseAfter(c, o, t) ==
  Min({INF} \cup {x \in {IdealStart(c, u) : u \in Uses(c, o)} : x >= t})

LastUse(c, o) == Max({0} \cup Uses(c, o))

NoNotes(c) == [i \in 1 .. TaskCount(c) |-> [release |-> <<>>, offload |-> <<>>, prefetch |-> <<>>]]

Once(seq) ==
  LET first == {k \in DOMAIN seq : \A j \in 1 .. k - 1 : seq[j] # seq[k]}
      kept == Ascending(first)
  IN [k \in DOMAIN kept |-> seq[kept[k]]]

(* The annotated chain is built anew and loses the tasks' workspaces. *)
ApplyAnnotations(c, placed, notes) ==
  LET bare == [c EXCEPT !.tasks = [i \in DOMAIN c.tasks |-> [c.tasks[i] EXCEPT !.workspace = 0]]]
  IN WithTriggers(bare, placed, LAMBDA i : Once(notes[i].release),
                  LAMBDA i : Once(notes[i].offload), LAMBDA i : Once(notes[i].prefetch))

(* An object that must end in backing is written back after its last use or  *)
(* production; its other triggers from there on are dropped.                 *)
AddGradientWritebacks(c) ==
  LET anchor(o) == Max({LastUse(c, o), Producer(c, o)})
      kept == {o \in FinalAt(c, "backing") : anchor(o) > 0}
      over(i) == {o \in kept : i >= anchor(o)}
      without(seq, i) == SelectSeq(seq, LAMBDA o : o \notin over(i))
      back(i) == Ascending({o \in kept : anchor(o) = i})
  IN WithTriggers(c, {}, LAMBDA i : without(c.tasks[i].releases, i),
                  LAMBDA i : without(c.tasks[i].offloads, i) \o back(i),
                  LAMBDA i : without(c.tasks[i].prefetches, i))

(* _verify_and_refine: one replay. Its two repairs look for messages that    *)
(* the simulator does not give: a prefetch never runs out of memory, it      *)
(* waits; and an input still being offloaded without a prefetch behind it is *)
(* already refused by the static prepass.                                    *)
Verified(c) == Replay(c).pc = "done"
=============================================================================
