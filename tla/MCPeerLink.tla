----------------------------- MODULE MCPeerLink -----------------------------
(* Scripts for PeerLink.                                                   *)
EXTENDS PeerLink

Send(d, e, o) == [dest |-> d, eager |-> e, overwrite |-> o]

\* An eager send that competes for the quota with three sends to another
\* destination, of which the last may not overwrite.
Mixed == <<Send("y", TRUE, FALSE), Send("x", FALSE, TRUE),
           Send("x", FALSE, TRUE), Send("x", FALSE, FALSE)>>

\* The object of x is overwritten, then a payload of another size is refused.
Resized == <<Send("x", FALSE, TRUE), Send("x", FALSE, TRUE), Send("x", TRUE, TRUE)>>

\* Two destinations, one payload eager.
TwoDests == <<Send("x", FALSE, FALSE), Send("y", TRUE, TRUE)>>

One == <<Send("x", FALSE, FALSE)>>

\* No queue pair, one that both sides have connected, and one whose RDMA_INFO
\* frames are still under way.
Socket == [writer |-> FALSE, qp |-> "none"]
Connected == [writer |-> TRUE, qp |-> "ready"]
Fresh == [writer |-> FALSE, qp |-> "fresh"]

Link(script, chunks, extents, quota) ==
    [script |-> script, chunks |-> chunks, extents |-> extents, quota |-> quota,
     queued |-> TRUE, lanes |-> {Socket}, timely |-> TRUE, faults |-> 0, drops |-> 0,
     leases |-> 0, demotions |-> 0]

\* Eager and chunked sends over a reliable link, in frames or by one-sided
\* writes, with commits that queue behind the dispatcher and are parked by leases.
Steady == [Link(Mixed, 2, {1, 2, 3}, 1) EXCEPT !.lanes = {Socket, Connected}, !.leases = 2]

\* Frames are dropped, duplicated and corrupted, and any timer may fire.
Lossy == [Link(TwoDests, 2, {1, 2}, 2) EXCEPT !.queued = FALSE, !.timely = FALSE, !.faults = 2]

\* The link goes down twice and is made again.
Churning == [Link(Resized, 1, {1, 2}, 2) EXCEPT !.lanes = {Socket, Connected}, !.drops = 2, !.leases = 1]

\* The queue pair comes up while sends are under way, and is demoted.
Demoted == [Link(TwoDests, 2, {1, 2}, 2) EXCEPT !.lanes = {Fresh}, !.demotions = 1]

AllLinks == {Steady, Lossy, Churning, Demoted}

\* One send whose timers run while its commit is queued.
Resending == {[Link(One, 1, {1}, 1) EXCEPT !.timely = FALSE]}
=============================================================================
