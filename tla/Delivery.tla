------------------------------ MODULE Delivery ------------------------------
(***************************************************************************)
(* What a peer send promises its caller, with no wire, no store and no     *)
(* timers: the bytes are committed to the remote catalog at most once, and *)
(* a send is reported done only after that.  A send reported as failed may *)
(* or may not have been committed, or may still be, once.                  *)
(***************************************************************************)
EXTENDS Naturals

CONSTANT Sends

VARIABLES outcome,  \* what the caller's ticket says of each send
          commits   \* how often its bytes entered the remote catalog

dvars == <<outcome, commits>>

Init ==
    /\ outcome = [s \in Sends |-> "idle"]
    /\ commits = [s \in Sends |-> 0]

Begin(s) ==
    /\ outcome[s] = "idle"
    /\ outcome' = [outcome EXCEPT ![s] = "pending"]
    /\ UNCHANGED commits

Commit(s) ==
    /\ outcome[s] # "idle"
    /\ commits[s] = 0
    /\ commits' = [commits EXCEPT ![s] = 1]
    /\ UNCHANGED outcome

Succeed(s) ==
    /\ outcome[s] = "pending"
    /\ commits[s] = 1
    /\ outcome' = [outcome EXCEPT ![s] = "done"]
    /\ UNCHANGED commits

\* A link that goes down fails every pending send at once.
Fail(S) ==
    /\ \A s \in S : outcome[s] = "pending"
    /\ outcome' = [s \in Sends |-> IF s \in S THEN "error" ELSE outcome[s]]
    /\ UNCHANGED commits

Next ==
    \/ \E s \in Sends : Begin(s) \/ Commit(s) \/ Succeed(s)
    \/ \E S \in SUBSET Sends : Fail(S)

Spec == Init /\ [][Next]_dvars
=============================================================================
