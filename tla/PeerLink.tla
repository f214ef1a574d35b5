------------------------------ MODULE PeerLink ------------------------------
(***************************************************************************)
(* One direction of a peer link: the sends of daemon A (sender machines of *)
(* A's PeerCore), the transfers B serves for them (receiver machines), the *)
(* two ordered streams between them, and what B's receiver environment     *)
(* does to B's store: reservations, commits queued through the dispatcher, *)
(* leases that park a commit.  Link death and reconnection are included.   *)
(*                                                                         *)
(* A payload is the number of the send it belongs to; an extent holds, per *)
(* chunk, the send that wrote it last (0: nobody's bytes).  Time is left   *)
(* out: a timer may fire whenever its condition, the clock apart, holds.   *)
(***************************************************************************)
EXTENDS Naturals, Sequences, FiniteSets

CONSTANTS
    Links,      \* the links to look at, each a record of what is chosen below
    Tries,      \* NACK_BACKOFF_TRIES
    RingSize    \* DEDUP_RING_SIZE

Sends == UNION {DOMAIN l.script : l \in Links}
Ids == Sends
Dests == UNION {{l.script[s].dest : s \in DOMAIN l.script} : l \in Links}
Nobody == 0

\* What may be known of the queue pair of a link: whether A has the peer's
\* RDMA_INFO, and with it a writer; at B, none, one that waits for RDMA_INFO,
\* one that is ready, and one that a bandwidth probe has demoted.
Lanes == [writer : BOOLEAN, qp : {"none", "fresh", "ready", "demoted"}]

LinkRecord(l) ==
    /\ l.chunks \in Nat \ {0} /\ l.extents \subseteq Nat \ {0}
    /\ {l.quota, l.faults, l.drops, l.leases, l.demotions} \subseteq Nat
    /\ {l.queued, l.timely} \subseteq BOOLEAN /\ l.lanes \subseteq Lanes
    /\ DOMAIN l.script = 1 .. Len(l.script)
    /\ \A s \in DOMAIN l.script : {l.script[s].eager, l.script[s].overwrite} \subseteq BOOLEAN

ASSUME LinkConstants ==
    /\ {Tries, RingSize} \subseteq Nat
    /\ \A l \in Links : LinkRecord(l)

VARIABLES
    a,      \* A's core: tickets and machines, dest_queues, its stream to B
    b,      \* B's core and store, its stream to A
    up,     \* the sides that have not dropped the link
    core,   \* the link's PeerCores: which of the successive ones, and the RDMA lane
    left,   \* faults, drops, leases and demotions still to come
    link    \* which of Links this is

moving == <<a, b, up, core, left>>
vars == <<a, b, up, core, left, link>>

Script == link.script    \* the sends A is asked for, in order: dest, eager, overwrite
Chunks == link.chunks    \* CHUNK frames of a payload that is not eager
Slots == 1 .. Chunks
Extents == link.extents  \* B's slab, in extents of one payload each
Quota == link.quota      \* inflight_quota, in payloads
Queued == link.queued    \* commits go through the dispatcher, or happen at once
StartLanes == link.lanes \* how a PeerCore may find its queue pair
Timely == link.timely    \* nothing a timer watches outlasts INACTIVITY_TIMEOUT_S

NoMachine == [send |-> Nobody, ext |-> 0, addr |-> FALSE, next |-> 0, committing |-> FALSE]
NoCommit == [id |-> 0, send |-> Nobody, ext |-> 0]
NoObject == [send |-> Nobody, ext |-> 0]

-----------------------------------------------------------------------------
(* The sender side of PeerCore.                                            *)

ToB(m, kind, s, seq) ==
    [m EXCEPT !.wire = Append(@, [kind |-> kind, id |-> m.tx[s].id,
                                  send |-> s, seq |-> seq, intact |-> TRUE])]

\* open_send: an eager payload rides in the RTS, which its ack answers.
OpenSend(m, s) ==
    ToB([m EXCEPT !.tx[s].waiting = @ \/ Script[s].eager], "RTS", s, 0)

\* finish_sender, called by a thread of A.  The next send of the destination
\* is looked up in `senders': KeyError, and the end of the thread, if it is
\* not there any more.
FinishSender(m, s, state, thread) ==
    LET d == Script[s].dest
        q == m.queue[d]
        closed == [m EXCEPT !.tx[s].state = state, !.senders = @ \ {s}]
        popped == [closed EXCEPT !.queue[d] = Tail(q)]
    IN  IF q = <<>> \/ s # Head(q) THEN closed
        ELSE IF Len(q) = 1 THEN popped
        ELSE IF q[2] \in closed.senders THEN OpenSend(popped, q[2])
        ELSE [popped EXCEPT !.dead = @ \cup {thread}]

\* handle_clearance: every chunk, then DONE.
HandleClearance(m, s) ==
    LET F[i \in 0 .. Chunks] ==
            IF i = 0 THEN [m EXCEPT !.tx[s].cleared = TRUE]
                     ELSE ToB(F[i - 1], "CHUNK", s, i)
    IN  [ToB(F[Chunks], "DONE", s, 0) EXCEPT !.tx[s].state = "committing",
                                             !.tx[s].waiting = TRUE]

\* handle_nack: COLLISION never retries, the others back off.
HandleNack(m, s, code) ==
    LET tried == [m EXCEPT !.tx[s].tries = @ + 1]
    IN  IF code = "COLLISION" THEN FinishSender(m, s, "error", "reader")
        ELSE IF tried.tx[s].tries >= Tries THEN FinishSender(tried, s, "error", "reader")
        ELSE [tried EXCEPT !.tx[s].retry = TRUE]

\* The machine `senders' has under a wire id, if any.
SenderOf(id) == {s \in a.senders : a.tx[s].id = id}

-----------------------------------------------------------------------------
(* The receiver side of PeerCore, its environment and the store.           *)

ToA(m, kind, id, code, ext) ==
    [m EXCEPT !.wire = Append(@, [kind |-> kind, id |-> id,
                                  code |-> code, ext |-> ext])]

Resident(m, d) == m.objects[d].send # Nobody

Free(m) == {e \in Extents : m.free[e] > 0}

\* try_reserve and reserve_inbound: the quota, then the checks made under the
\* catalog lock, then the allocator.
ReserveCode(m, s) ==
    LET d == Script[s].dest
        old == m.objects[d].send
    IN  IF m.quota >= Quota THEN "CAPACITY"
        ELSE IF Resident(m, d) /\ d \in m.leased THEN "BUSY"
        ELSE IF Resident(m, d) /\ ~Script[s].overwrite THEN "COLLISION"
        ELSE IF Resident(m, d) /\ Script[old].eager # Script[s].eager THEN "COLLISION"
        ELSE IF Free(m) = {} THEN "CAPACITY" ELSE "OK"

\* First fit.
Alloc(m) == CHOOSE e \in Free(m) : \A f \in Free(m) : e <= f

WriteBytes(m, e, S, s) ==
    [m EXCEPT !.bytes[e] = [i \in Slots |-> IF i \in S THEN s ELSE @[i]]]

GiveBack(m) == [m EXCEPT !.quota = IF @ > 0 THEN @ - 1 ELSE 0]

\* abort_receiver, with the environment's release.
AbortReceiver(m, id) ==
    GiveBack([m EXCEPT !.free[m.rx[id].ext] = @ + 1, !.rx[id] = NoMachine])

\* adopt_inbound: bind the destination to the extent, release the old one.
AdoptInbound(m, s, e) ==
    LET d == Script[s].dest
        old == m.objects[d]
        freed == IF old.send = Nobody THEN m ELSE [m EXCEPT !.free[old.ext] = @ + 1]
    IN  [freed EXCEPT !.objects[d] = [send |-> s, ext |-> e],
                      !.commits[s] = @ + 1]

\* remember_completed: the ring drops its oldest member.
RememberCompleted(ring, id) ==
    LET r == Append(ring, id)
    IN  IF Len(r) > RingSize THEN Tail(r) ELSE r

\* commit_done: the ack goes out now.
CommitDone(m, id) ==
    IF m.rx[id] = NoMachine THEN m
    ELSE ToA([m EXCEPT !.rx[id] = NoMachine,
                       !.ring = RememberCompleted(@, id)], "DONE_ACK", id, "", 0)

\* Fault seeded for DeliversOnce: the ack goes out when the commit is queued.
FinishCommitAcksEarly(m, id) ==
    LET c == [id |-> id, send |-> m.rx[id].send, ext |-> m.rx[id].ext]
    IN  ToA([m EXCEPT !.rx[id].committing = TRUE, !.fifo = Append(@, c)],
            "DONE_ACK", id, "", 0)

\* finish_commit: queued through the dispatcher, or done at once.
FinishCommit(m, id) ==
    LET mc == m.rx[id]
        c == [id |-> id, send |-> mc.send, ext |-> mc.ext]
        marked == [m EXCEPT !.rx[id].committing = TRUE]
    IN  IF Queued THEN [marked EXCEPT !.fifo = Append(@, c)]
        ELSE CommitDone(GiveBack(AdoptInbound(marked, mc.send, mc.ext)), id)

Completed(m) == {m.ring[i] : i \in 1 .. Len(m.ring)}

\* handle_rts has reserved an extent: the transfer's machine, with an address
\* for a one-sided landing if the queue pair is ready.
OpenReceiver(m, id, s) ==
    LET e == Alloc(m)
    IN  [m EXCEPT !.free[e] = @ - 1, !.quota = @ + 1,
                  !.rx[id] = [NoMachine EXCEPT !.send = s, !.ext = e,
                                               !.addr = core.qp = "ready"]]

\* The checksum in DONE is that of the payload the send has.
ChecksumMatches(m, f) ==
    \A i \in Slots : m.bytes[m.rx[f.id].ext][i] = f.send

-----------------------------------------------------------------------------
(* Frames that reach B, one action per way a handler can end.              *)

Take(m) == [m EXCEPT !.wire = Tail(@)]

BReceives(kinds) ==
    /\ "B" \in up /\ a.wire # <<>> /\ Head(a.wire).kind \in kinds
    /\ a' = Take(a)
    /\ UNCHANGED <<up, core, left>>

\* handle_rts, handle_done: a completed send is acknowledged again.
ReAck ==
    /\ BReceives({"RTS", "DONE"})
    /\ LET f == Head(a.wire)
       IN  f.id \in Completed(b) /\ b' = ToA(b, "DONE_ACK", f.id, "", 0)

\* A duplicate RTS, or a frame of an aborted transfer.
IgnoreFrame ==
    /\ BReceives({"RTS", "CHUNK", "DONE"})
    /\ LET f == Head(a.wire)
       IN  /\ f.kind # "CHUNK" => f.id \notin Completed(b)
           /\ (f.kind = "RTS") = (b.rx[f.id] # NoMachine)
    /\ UNCHANGED b

NewRTS ==
    /\ BReceives({"RTS"})
    /\ LET f == Head(a.wire)
       IN  f.id \notin Completed(b) /\ b.rx[f.id] = NoMachine

RefuseRTS ==
    /\ NewRTS
    /\ LET f == Head(a.wire)
       IN  /\ ReserveCode(b, f.send) # "OK"
           /\ b' = ToA(b, "NACK", f.id, ReserveCode(b, f.send), 0)

AcceptEager ==
    /\ NewRTS
    /\ LET f == Head(a.wire)
       IN  /\ ReserveCode(b, f.send) = "OK" /\ Script[f.send].eager
           /\ b' = FinishCommit(WriteBytes(OpenReceiver(b, f.id, f.send),
                                           Alloc(b), Slots, f.send), f.id)

AcceptRTS ==
    /\ NewRTS
    /\ LET f == Head(a.wire)
       IN  /\ ReserveCode(b, f.send) = "OK" /\ ~Script[f.send].eager
           /\ b' = ToA(OpenReceiver(b, f.id, f.send),
                       IF core.qp = "ready" THEN "ADDR" ELSE "CTS", f.id, "", Alloc(b))

\* handle_chunk: chunks are taken strictly in order.
LandChunk ==
    /\ BReceives({"CHUNK"})
    /\ LET f == Head(a.wire)
           mc == b.rx[f.id]
       IN  /\ mc # NoMachine /\ f.seq = mc.next + 1
           /\ b' = WriteBytes([b EXCEPT !.rx[f.id].next = f.seq], mc.ext, {f.seq},
                              IF f.intact THEN f.send ELSE Nobody)

ChunkOutOfOrder ==
    /\ BReceives({"CHUNK"})
    /\ LET f == Head(a.wire)
       IN  /\ b.rx[f.id] # NoMachine /\ f.seq # b.rx[f.id].next + 1
           /\ b' = AbortReceiver(b, f.id)

\* handle_done: a one-sided landing is not checked.
Complete(m, f) == m.rx[f.id].addr \/ (m.rx[f.id].next = Chunks /\ ChecksumMatches(m, f))

NewDone ==
    /\ BReceives({"DONE"})
    /\ LET f == Head(a.wire)
       IN  f.id \notin Completed(b) /\ b.rx[f.id] # NoMachine

DoneCommits ==
    /\ NewDone
    /\ Complete(b, Head(a.wire))
    /\ b' = FinishCommit(b, Head(a.wire).id)

DoneAborts ==
    /\ NewDone
    /\ ~Complete(b, Head(a.wire))
    /\ b' = AbortReceiver(b, Head(a.wire).id)

-----------------------------------------------------------------------------
(* Frames that reach A.                                                    *)

AReceives(kinds) ==
    /\ "A" \in up /\ "reader" \notin a.dead
    /\ b.wire # <<>> /\ Head(b.wire).kind \in kinds
    /\ b' = Take(b)
    /\ UNCHANGED <<up, core, left>>

\* Nobody's frame, or a second clearance.
IgnoreAnswer ==
    /\ AReceives({"CTS", "ADDR", "NACK", "DONE_ACK"})
    /\ \A s \in SenderOf(Head(b.wire).id) :
          Head(b.wire).kind \in {"CTS", "ADDR"} /\ a.tx[s].cleared
    /\ UNCHANGED a

\* CTS, or ADDR when A has no writer yet: the payload goes in frames.
Clearance ==
    /\ AReceives({"CTS", "ADDR"})
    /\ Head(b.wire).kind = "ADDR" => ~core.writer
    /\ \E s \in SenderOf(Head(b.wire).id) : ~a.tx[s].cleared /\ a' = HandleClearance(a, s)

\* Fault seeded for NothingTorn: DONE leaves before the write has landed.
RdmaClearanceEarlyDone ==
    /\ AReceives({"ADDR"}) /\ core.writer
    /\ \E s \in SenderOf(Head(b.wire).id) :
          /\ ~a.tx[s].cleared
          /\ a' = ToB([a EXCEPT !.tx[s].cleared = TRUE, !.writing[s] = Head(b.wire).ext],
                      "DONE", s, 0)

\* ADDR starts the writer thread.
RdmaClearance ==
    /\ AReceives({"ADDR"}) /\ core.writer
    /\ \E s \in SenderOf(Head(b.wire).id) :
          /\ ~a.tx[s].cleared
          /\ a' = [a EXCEPT !.tx[s].cleared = TRUE, !.tx[s].state = "moving",
                            !.writing[s] = Head(b.wire).ext]

Nack ==
    /\ AReceives({"NACK"})
    /\ \E s \in SenderOf(Head(b.wire).id) : a' = HandleNack(a, s, Head(b.wire).code)

DoneAck ==
    /\ AReceives({"DONE_ACK"})
    /\ \E s \in SenderOf(Head(b.wire).id) : a' = FinishSender(a, s, "done", "reader")

-----------------------------------------------------------------------------
(* Sends, timers and the RDMA writer of A; timers of B.                    *)

\* Fault seeded for OverwritesInOrder: a send does not wait for the sends to
\* its destination that are under way.
StartSendAtOnce ==
    /\ "A" \in up
    /\ \E s \in DOMAIN Script :
          /\ a.tx[s].state = "idle" /\ \A r \in 1 .. s - 1 : a.tx[r].state # "idle"
          /\ a' = OpenSend([a EXCEPT !.tx[s] = [@ EXCEPT !.state = "negotiating",
                                                         !.core = core.nth, !.id = a.seq + 1],
                                     !.seq = @ + 1, !.senders = @ \cup {s},
                                     !.queue[Script[s].dest] = Append(@, s)], s)
    /\ UNCHANGED <<b, up, core, left>>

\* start_send: ids start again with every PeerCore.
StartSend ==
    /\ "A" \in up
    /\ \E s \in DOMAIN Script :
          LET d == Script[s].dest
              m == [a EXCEPT !.tx[s] = [@ EXCEPT !.state = "negotiating", !.core = core.nth,
                                                 !.id = a.seq + 1],
                             !.seq = @ + 1, !.senders = @ \cup {s},
                             !.queue[d] = Append(@, s)]
          IN  /\ a.tx[s].state = "idle" /\ \A r \in 1 .. s - 1 : a.tx[r].state # "idle"
              /\ a' = IF Len(m.queue[d]) = 1 THEN OpenSend(m, s) ELSE m
    /\ UNCHANGED <<b, up, core, left>>

OnWire(w, id) == \E i \in 1 .. Len(w) : w[i].id = id

CommitPending(id) ==
    \E c \in {b.fifo[i] : i \in 1 .. Len(b.fifo)}
             \cup {b.parked[i] : i \in 1 .. Len(b.parked)} \cup {b.landing} : c.id = id

\* With Timely, a timer finds nothing of the transfer still under way.
Stalled(id) ==
    Timely => ~OnWire(a.wire, id) /\ ~OnWire(b.wire, id) /\ ~CommitPending(id)

Ticks(s) ==
    /\ "A" \in up /\ "ticker" \notin a.dead
    /\ s \in a.senders
    /\ UNCHANGED <<b, up, core, left>>

\* tick: a backed-off RTS is due.
RetryRTS(s) ==
    /\ Ticks(s)
    /\ a.tx[s].retry /\ ~a.tx[s].cleared
    /\ a' = OpenSend([a EXCEPT !.tx[s].retry = FALSE], s)

\* tick: no clearance, or no ack of an eager send, for a whole window.  The
\* window of a queued send runs from start_send.
Inactive(s) == a.tx[s].state = "negotiating" /\ ~a.tx[s].retry

\* Fault seeded for EverySendEnds: the window runs only once the peer has answered.
NegotiationTimeoutOnceRefused(s) ==
    /\ Ticks(s)
    /\ Inactive(s) /\ a.tx[s].tries > 0
    /\ Stalled(a.tx[s].id) /\ (Timely => s = Head(a.queue[Script[s].dest]))
    /\ a' = FinishSender(a, s, "error", "ticker")

NegotiationTimeout(s) ==
    /\ Ticks(s)
    /\ Inactive(s)
    /\ Stalled(a.tx[s].id) /\ (Timely => s = Head(a.queue[Script[s].dest]))
    /\ a' = FinishSender(a, s, "error", "ticker")

\* tick: no DONE_ACK for a window; DONE is resent once.
AckTimeout(s) ==
    /\ Ticks(s)
    /\ a.tx[s].state = "committing" /\ a.tx[s].waiting
    /\ Stalled(a.tx[s].id)
    /\ a' = IF a.tx[s].resends >= 1 THEN FinishSender(a, s, "error", "ticker")
            ELSE ToB([a EXCEPT !.tx[s].resends = @ + 1], "DONE", s, 0)

\* The writer thread: the bytes land in B's slab whatever B's core thinks of
\* the transfer by now, then rdma_write_finished.
RdmaWrite(s) ==
    /\ a.writing[s] # 0
    /\ b' = WriteBytes(b, a.writing[s], Slots, s)
    /\ LET m == [a EXCEPT !.writing[s] = 0, !.tx[s].state = "committing",
                          !.tx[s].waiting = TRUE]
       IN  a' = IF "A" \in up /\ a.tx[s].core = core.nth THEN ToB(m, "DONE", s, 0) ELSE m
    /\ UNCHANGED <<up, core, left>>

\* tick: a transfer without progress, unless its commit is queued.
ReceiverTimeout(id) ==
    /\ "B" \in up
    /\ b.rx[id] # NoMachine /\ ~b.rx[id].committing
    /\ Stalled(id) /\ (Timely => a.writing[b.rx[id].send] = 0)
    /\ b' = AbortReceiver(b, id)
    /\ UNCHANGED <<a, up, core, left>>

-----------------------------------------------------------------------------
(* B's dispatcher and the threads that hold read leases.                   *)

\* peer_commit_inbound: parked while the destination is leased.
DispatchCommit ==
    /\ b.fifo # <<>> /\ b.landing = NoCommit
    /\ LET c == Head(b.fifo)
           d == Script[c.send].dest
           m == [b EXCEPT !.fifo = Tail(@)]
       IN  b' = IF Resident(b, d) /\ d \in b.leased THEN [m EXCEPT !.parked = Append(@, c)]
                ELSE [AdoptInbound(m, c.send, c.ext) EXCEPT !.landing = c]
    /\ UNCHANGED <<a, up, core, left>>

\* Fault seeded for CommittedOnce: with the link down the commit is queued
\* again, to be acknowledged later.
CommitLandedRetries ==
    /\ b.landing # NoCommit
    /\ LET m == [b EXCEPT !.landing = NoCommit]
       IN  b' = IF "B" \in up THEN CommitDone(GiveBack(m), b.landing.id)
                ELSE [m EXCEPT !.fifo = Append(@, b.landing)]
    /\ UNCHANGED <<a, up, core, left>>

\* commit_landed: the core of the link the peer has now, if it has one.
CommitLanded ==
    /\ b.landing # NoCommit
    /\ LET m == GiveBack([b EXCEPT !.landing = NoCommit])
       IN  b' = IF "B" \in up THEN CommitDone(m, b.landing.id) ELSE m
    /\ UNCHANGED <<a, up, core, left>>

AcquireLease(d) ==
    /\ b.landing = NoCommit
    /\ left.leases > 0 /\ Resident(b, d) /\ d \notin b.leased
    /\ b' = [b EXCEPT !.leased = @ \cup {d}]
    /\ left' = [left EXCEPT !.leases = @ - 1]
    /\ UNCHANGED <<a, up, core>>

\* release_leases, and the dispatcher's unpark_all it calls.
ReleaseLease(d) ==
    /\ d \in b.leased
    /\ b' = [b EXCEPT !.leased = @ \ {d}, !.fifo = @ \o b.parked, !.parked = <<>>]
    /\ UNCHANGED <<a, up, core, left>>

-----------------------------------------------------------------------------
(* The transport and the life of the link.                                 *)

\* What FaultPlan can do to the next frame of a stream.
Faulty(w) ==
    {Tail(w), <<Head(w)>> \o w}
        \cup (IF Head(w).kind = "CHUNK" THEN {[w EXCEPT ![1].intact = FALSE]} ELSE {})

Fault ==
    /\ left.faults > 0
    /\ left' = [left EXCEPT !.faults = @ - 1]
    /\ \/ /\ a.wire # <<>>
          /\ \E w \in Faulty(a.wire) : a' = [a EXCEPT !.wire = w]
          /\ UNCHANGED b
       \/ /\ b.wire # <<>>
          /\ \E w \in Faulty(b.wire) : b' = [b EXCEPT !.wire = w]
          /\ UNCHANGED a
    /\ UNCHANGED <<up, core>>

\* A side drops the link on its own account, or because the other has.
Drops(side) ==
    /\ side \in up
    /\ \/ up = {"A", "B"} /\ left.drops > 0 /\ left' = [left EXCEPT !.drops = @ - 1]
       \/ up = {side} /\ UNCHANGED left
    /\ up' = up \ {side}
    /\ UNCHANGED core

\* drop_link at A: every sender ends, in the order they started; the socket is
\* closed afterwards.
FinishSenders(m, thread) ==
    LET F[s \in 0 .. Len(Script)] ==
            IF s = 0 THEN m
            ELSE IF s \in F[s - 1].senders /\ F[s - 1].dead = m.dead
                 THEN FinishSender(F[s - 1], s, "error", thread)
                 ELSE F[s - 1]
    IN  F[Len(Script)]

DropLinkA ==
    /\ Drops("A")
    /\ \E thread \in {"reader", "ticker"} \ a.dead : a' = FinishSenders(a, thread)
    /\ UNCHANGED b

\* The writer thread fails with part of the payload landed: the send ends, and
\* the link with it, unless finish_sender raises first.
RdmaWriteFails(s) ==
    /\ a.writing[s] # 0
    /\ \E n \in 0 .. Chunks : b' = WriteBytes(b, a.writing[s], 1 .. n, s)
    /\ LET m == [a EXCEPT !.writing[s] = 0]
           ended == FinishSender(m, s, "error", "writer")
           gone(x) == a' = [x EXCEPT !.dead = @ \ {"writer"}]
       IN  IF "A" \notin up \/ a.tx[s].core # core.nth
           THEN a' = [m EXCEPT !.tx[s].state = "error"] /\ UNCHANGED <<up, core, left>>
           ELSE IF "writer" \in ended.dead THEN gone(ended) /\ UNCHANGED <<up, core, left>>
           ELSE Drops("A") /\ gone(FinishSenders(ended, "writer"))

\* drop_link at B: every receiver aborts.
DropLinkB ==
    /\ Drops("B")
    /\ LET F[id \in 0 .. Len(Script)] ==
               IF id = 0 THEN b
               ELSE IF b.rx[id] = NoMachine THEN F[id - 1]
               ELSE AbortReceiver(F[id - 1], id)
       IN  b' = F[Len(Script)]
    /\ UNCHANGED a

\* connect, adopt_link: a new PeerCore on both sides.
Reconnect ==
    /\ up = {}
    /\ up' = {"A", "B"}
    /\ \E l \in StartLanes : core' = [nth |-> core.nth + 1, writer |-> l.writer, qp |-> l.qp]
    /\ a' = [a EXCEPT !.wire = <<>>, !.seq = 0, !.senders = {}, !.dead = @ \ {"reader"},
                      !.queue = [d \in Dests |-> <<>>]]
    /\ b' = [b EXCEPT !.wire = <<>>, !.ring = <<>>, !.rx = [id \in Ids |-> NoMachine]]
    /\ UNCHANGED left

\* RDMA_INFO reaches A: ADDR finds a writer from now on, whatever becomes of
\* the queue pair.
RdmaInfoAtA ==
    /\ "A" \in up /\ "reader" \notin a.dead
    /\ core.qp # "none" /\ ~core.writer
    /\ core' = [core EXCEPT !.writer = TRUE]
    /\ UNCHANGED <<a, b, up, left>>

\* RDMA_INFO reaches B, and the queue pair is ready.
RdmaInfoAtB ==
    /\ "B" \in up /\ core.qp = "fresh"
    /\ core' = [core EXCEPT !.qp = "ready"]
    /\ UNCHANGED <<a, b, up, left>>

\* The bandwidth probe failed, at B or as A reports: transfers that have their
\* address keep it, later ones go in frames.
DemoteLane ==
    /\ "B" \in up /\ core.qp = "ready" /\ left.demotions > 0
    /\ core' = [core EXCEPT !.qp = "demoted"]
    /\ left' = [left EXCEPT !.demotions = @ - 1]
    /\ UNCHANGED <<a, b, up>>

-----------------------------------------------------------------------------
Init ==
    /\ link \in Links
    /\ a = [tx |-> [s \in Sends |->
                      [state |-> "idle", id |-> 0, core |-> 0, tries |-> 0, retry |-> FALSE,
                       waiting |-> FALSE, cleared |-> FALSE, resends |-> 0]],
            senders |-> {}, queue |-> [d \in Dests |-> <<>>], seq |-> 0,
            writing |-> [s \in Sends |-> 0], wire |-> <<>>, dead |-> {}]
    /\ b = [rx |-> [id \in Ids |-> NoMachine], ring |-> <<>>, wire |-> <<>>,
            objects |-> [d \in Dests |-> NoObject], free |-> [e \in Extents |-> 1],
            bytes |-> [e \in Extents |-> [i \in Slots |-> Nobody]], quota |-> 0,
            fifo |-> <<>>, parked |-> <<>>, landing |-> NoCommit, leased |-> {},
            commits |-> [s \in Sends |-> 0]]
    /\ up = {"A", "B"}
    /\ \E l \in StartLanes : core = [nth |-> 1, writer |-> l.writer, qp |-> l.qp]
    /\ left = [faults |-> link.faults, drops |-> link.drops, leases |-> link.leases,
               demotions |-> link.demotions]

BHandles ==
    \/ ReAck \/ IgnoreFrame \/ RefuseRTS \/ AcceptEager \/ AcceptRTS
    \/ LandChunk \/ ChunkOutOfOrder \/ DoneCommits \/ DoneAborts

AHandles == IgnoreAnswer \/ Clearance \/ RdmaClearance \/ Nack \/ DoneAck

ATicks(s) == RetryRTS(s) \/ NegotiationTimeout(s) \/ AckTimeout(s)

Step ==
    \/ StartSend \/ BHandles \/ AHandles
    \/ \E s \in Sends : ATicks(s) \/ RdmaWrite(s) \/ RdmaWriteFails(s)
    \/ \E id \in Ids : ReceiverTimeout(id)
    \/ DispatchCommit \/ CommitLanded
    \/ \E d \in Dests : AcquireLease(d) \/ ReleaseLease(d)
    \/ RdmaInfoAtA \/ RdmaInfoAtB \/ DemoteLane
    \/ Fault \/ DropLinkA \/ DropLinkB \/ Reconnect

Next == Step /\ UNCHANGED link

Spec == Init /\ [][Next]_vars

\* The readers read, the housekeeping thread of either side ticks, the writer
\* and the dispatcher run, a lease is held for a finite time, and a side whose
\* peer has dropped the link notices (end of stream, heartbeat timeout).
Fairness ==
    /\ WF_moving(BHandles) /\ WF_moving(AHandles)
    /\ \A s \in Sends : WF_moving(ATicks(s)) /\ WF_moving(RdmaWrite(s) \/ RdmaWriteFails(s))
    /\ \A id \in Ids : WF_moving(ReceiverTimeout(id))
    /\ WF_moving(DispatchCommit) /\ WF_moving(CommitLanded)
    /\ \A d \in Dests : WF_moving(ReleaseLease(d))
    /\ WF_moving(up = {"A"} /\ DropLinkA) /\ WF_moving(up = {"B"} /\ DropLinkB)

FairSpec == Spec /\ Fairness

-----------------------------------------------------------------------------
(* Properties.                                                             *)

Outcome(s) ==
    CASE a.tx[s].state = "idle" -> "idle"
      [] a.tx[s].state \in {"negotiating", "moving", "committing"} -> "pending"
      [] OTHER -> a.tx[s].state

\* The link is never remade.
Lasting == link.drops = 0

D == INSTANCE Delivery WITH
        outcome <- [s \in Sends |-> IF Lasting THEN Outcome(s) ELSE "idle"],
        commits <- [s \in Sends |-> IF Lasting THEN b.commits[s] ELSE 0]

\* A lasting link implements the promise of Delivery: a send is committed at
\* most once whatever is resent, and its ticket says done only after the commit
\* (core.py handle_rts, handle_done, commit_done and finish_sender).
DeliversOnce == D!Spec

\* "Completed send_ids live in a dedup ring so retransmitted RTS/DONE are
\* re-acked idempotently, never re-committed" (core.py:22): nothing a sender
\* resends puts the same payload into the catalog a second time.
CommittedOnce == \A s \in Sends : b.commits[s] <= 1

\* Who holds an extent of B's slab: a catalogued object, or a transfer whose
\* commit has not reached the catalog yet.
Holders(e) ==
    {<<"object", d>> : d \in {d \in Dests : Resident(b, d) /\ b.objects[d].ext = e}}
      \cup {<<"transfer", id>> : id \in {id \in Ids :
                  b.rx[id] # NoMachine /\ b.rx[id].ext = e /\ b.landing.id # id}}

\* The free list, one object or one transfer
OneOwner(e) == b.free[e] + Cardinality(Holders(e)) = 1

\* "two-phase: nothing torn" (core.py:21): on a lasting link the bytes of a
\* catalogued object are those of one send, the one that was committed, from the first chunk to
\* the last, and stay so while later transfers land in the slab; every extent
\* has one owner, so nothing leaks when a transfer is refused, aborted, timed
\* out or committed over an old object, and nothing is handed out twice
\* (store.py reserve_inbound, release_inbound, adopt_inbound).
NothingTorn ==
    Lasting =>
        /\ \A e \in Extents : OneOwner(e)
        /\ \A d \in Dests : Resident(b, d) =>
             \A i \in Slots : b.bytes[b.objects[d].ext][i] = b.objects[d].send

\* The sends to one destination of a lasting link take effect in the order asked:
\* no commit replaces the payload of a later send by that of an earlier one
\* (core.py dest_queues, the dispatcher's FIFO and its parked commits).
OverwritesInOrder ==
    [][Lasting => \A d \in Dests : b'.objects[d].send >= b.objects[d].send]_vars

\* Every send ends: its ticket says done or error at last, whatever the
\* transport loses (core.py tick, nm.py drop_link).
EverySendEnds ==
    \A s \in Sends : a.tx[s].state = "negotiating" ~> a.tx[s].state \in {"done", "error"}
=============================================================================
