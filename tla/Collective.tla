----------------------------- MODULE Collective -----------------------------
(***************************************************************************)
(* The hostmem backend of a peer group (dataflow/service/peer/comm.py): the *)
(* pairwise collectives staged through two slab regions. On each rank the   *)
(* caller enqueues, a GPU stream stages, parks on the flag and copies back, *)
(* and a worker thread exchanges with the peer over the socket or by RDMA.  *)
(*                                                                         *)
(* A tensor is its two halves, and a half is what it is the sum of: the     *)
(* operation, which half, and the ranks that contributed.                   *)
(***************************************************************************)
EXTENDS Naturals, Sequences, FiniteSets

VARIABLES
  boot,     \* world, fake (no device), parks (cuStreamWaitValue works), rdma, the faults
  prog,     \* the collectives both ranks run: [verb, root]
  qp,       \* each rank's queue pair is ready
  wire,     \* each member's link to the coordinator is physically up
  alive,    \* rank to rank: the link object is alive at the first
  chan,     \* rank to rank: frames in flight
  comm,     \* the comm of each rank
  stream,   \* work enqueued on each rank's group stream
  fired,    \* ready events that have fired
  caller,   \* "idle", "spin" (no stream wait: blocked on the flag), "failed"
  result    \* what each operation left in its target

commVars == <<qp, comm, stream, fired, caller, result>>
linkVars == <<wire, alive, chan>>

Ranks == 0..(boot.world - 1)

Other(r) == 1 - r

Link(i) == IF i = 0 THEN 1 ELSE i     \* the member at the far end of a pairwise link

Released == 99                        \* the flag value that releases every parked stream

Part(k, half, who) == [k |-> k, half |-> half, who |-> who]

Junk == Part(0, 2, {})

Region(k, who) == <<Part(k, 1, who), Part(k, 2, who)>>

(* A sum is right when its terms are the same half of the same operation,   *)
(* each rank's once.                                                        *)
Plus(a, b) ==
  IF a.k = b.k /\ a.half = b.half /\ a.who \cap b.who = {}
  THEN [a EXCEPT !.who = @ \cup b.who] ELSE Junk

PlusBoth(a, b) == <<Plus(a[1], b[1]), Plus(a[2], b[2])>>

Half(r) == r + 1                      \* the half a rank owns

NoComm == [lane |-> "none"]

NewComm(lane) ==
  [lane |-> lane, seq |-> 0, dead |-> FALSE, flag |-> 0,
   out |-> <<Junk, Junk>>, land |-> <<Junk, Junk>>, inbox |-> {}, jobs |-> <<>>,
   pc |-> "idle", k |-> 0]

HasComm(r) == comm[r].lane # "none"

(* What an operation must leave in its target on a rank. *)
Expected(r, k) ==
  LET op == prog[k]
  IN CASE op.verb \in {"allreduce", "reduce"} -> Region(k, Ranks)
       [] op.verb = "broadcast" -> Region(k, {op.root})
       [] op.verb = "reduce_scatter" -> <<Part(k, Half(r), Ranks)>>
       [] op.verb = "all_gather" -> <<Part(k, 1, {0}), Part(k, 2, {1})>>

-----------------------------------------------------------------------------
(* The caller. *)

Stages(r, op) == op.verb # "broadcast" \/ r = op.root

CopiesBack(r, op) == op.verb # "reduce" \/ r = op.root

Item(do, k) == [do |-> do, k |-> k]

CopyBack(r, k) == IF CopiesBack(r, prog[k]) THEN <<Item("recv", k)>> ELSE <<>>

(* enqueue, enqueue_scatter, enqueue_gather: the stage copy and the event,   *)
(* the parked wait and the copy back behind it, then the job. A dead group   *)
(* refuses.                                                                  *)
Enqueue(r) ==
  /\ HasComm(r) /\ caller[r] = "idle" /\ comm[r].seq < Len(prog)
  /\ LET k == comm[r].seq + 1
         staged == IF Stages(r, prog[k]) THEN <<Item("stage", k)>> ELSE <<>>
         parked == IF boot.parks THEN <<Item("wait", k)>> \o CopyBack(r, k) ELSE <<>>
     IN IF comm[r].dead
        THEN /\ caller' = [caller EXCEPT ![r] = "failed"]
             /\ UNCHANGED <<comm, stream>>
        ELSE /\ comm' = [comm EXCEPT ![r].seq = k, ![r].jobs = Append(@, k)]
             /\ stream' = [stream EXCEPT ![r] = @ \o staged \o <<Item("event", k)>> \o parked]
             /\ caller' = [caller EXCEPT ![r] = IF boot.parks THEN "idle" ELSE "spin"]
  /\ UNCHANGED <<boot, prog, linkVars, qp, fired, result>>

(* The fallback: the caller blocks on the flag, then enqueues the copy back. *)
Spin(r) ==
  /\ caller[r] = "spin"
  /\ IF comm[r].flag >= comm[r].seq
     THEN /\ stream' = [stream EXCEPT ![r] = @ \o CopyBack(r, comm[r].seq)]
          /\ caller' = [caller EXCEPT ![r] = "idle"]
     ELSE /\ comm[r].dead
          /\ caller' = [caller EXCEPT ![r] = "failed"]
          /\ UNCHANGED stream
  /\ UNCHANGED <<boot, prog, linkVars, qp, comm, fired, result>>

-----------------------------------------------------------------------------
(* The group stream. *)

(* By RDMA the peer's bytes are added, on the device, to the caller's own    *)
(* tensor; otherwise the stage holds the outcome.                            *)
Received(r, k) ==
  CASE prog[k].verb = "allreduce" /\ comm[r].lane = "rdma" ->
         PlusBoth(Region(k, {r}), comm[r].land)
    [] prog[k].verb = "reduce_scatter" -> <<comm[r].out[1]>>
    [] OTHER -> comm[r].out

Staged(r, k) ==
  IF prog[k].verb = "all_gather"
  THEN [comm[r].out EXCEPT ![Half(r)] = Part(k, Half(r), {r})]
  ELSE Region(k, {r})

StreamStep(r) ==
  /\ stream[r] # <<>>
  /\ LET item == Head(stream[r])
     IN \/ /\ item.do = "stage"
           /\ comm' = [comm EXCEPT ![r].out = Staged(r, item.k)]
           /\ UNCHANGED <<fired, result>>
        \/ /\ item.do = "event"
           /\ fired' = [fired EXCEPT ![r] = @ \cup {item.k}]
           /\ UNCHANGED <<comm, result>>
        \/ /\ item.do = "wait" /\ comm[r].flag >= item.k
           /\ UNCHANGED <<comm, fired, result>>
        \/ /\ item.do = "recv"
           /\ result' = [result EXCEPT ![r][item.k] = Received(r, item.k)]
           /\ UNCHANGED <<comm, fired>>
  /\ stream' = [stream EXCEPT ![r] = Tail(@)]
  /\ UNCHANGED <<boot, prog, linkVars, qp, caller>>

-----------------------------------------------------------------------------
(* The worker. *)

Coll(k, op, data) == [kind |-> "coll", k |-> k, op |-> op, data |-> data]

(* A frame sent on a broken wire is lost. *)
Sent(from, to, frame) ==
  IF wire[Link(from + to)] THEN [chan EXCEPT ![<<from, to>>] = Append(@, frame)] ELSE chan

CanSend(r) == alive[<<r, Other(r)>>]

At(r, pc) == HasComm(r) /\ comm[r].pc = pc

Entry(r, op) == {e \in comm[r].inbox : e.k = comm[r].k /\ e.op = op}

Take(r) ==
  /\ At(r, "idle") /\ comm[r].jobs # <<>>
  /\ comm' = [comm EXCEPT ![r].pc = "sync", ![r].k = Head(comm[r].jobs), ![r].jobs = Tail(@)]
  /\ UNCHANGED <<boot, prog, linkVars, qp, stream, fired, caller, result>>

(* What the rank sends of its stage, and whether it then waits for data. *)
Outgoing(r, op) ==
  CASE op.verb = "reduce_scatter" -> <<comm[r].out[Half(Other(r))]>>
    [] op.verb = "all_gather" -> <<comm[r].out[Half(r)]>>
    [] OTHER -> comm[r].out

Sends(r, op) ==
  \/ op.verb \in {"reduce_scatter", "all_gather"}
  \/ (op.verb = "broadcast" /\ r = op.root)
  \/ (op.verb = "reduce" /\ r # op.root)

Waits(r, op) ==
  \/ op.verb \in {"reduce_scatter", "all_gather"}
  \/ op.verb = "broadcast" /\ r # op.root
  \/ op.verb = "reduce" /\ r = op.root

\* Fault seeded for SumsRight: the stage is exchanged before its copy has landed.
StartUnsynced(r) ==
  /\ At(r, "sync")
  /\ LET k == comm[r].k
         op == prog[k]
     IN \/ /\ op.verb = "allreduce"
           /\ comm[r].lane = "rdma" => qp[r]
           /\ comm' = [comm EXCEPT ![r].pc = "exchange"]
           /\ UNCHANGED chan
        \/ /\ op.verb # "allreduce"
           /\ Sends(r, op) => CanSend(r)
           /\ chan' = IF Sends(r, op)
                      THEN Sent(r, Other(r), Coll(k, "data", Outgoing(r, op))) ELSE chan
           /\ comm' = [comm EXCEPT ![r].pc = IF Waits(r, op) THEN "data" ELSE "idle",
                                   ![r].flag = IF Waits(r, op) THEN @ ELSE k]
  /\ UNCHANGED <<boot, prog, wire, alive, qp, stream, fired, caller, result>>

(* run_job up to the first wait on the peer; all-reduce goes to exchange. A  *)
(* job that only sends is done when it has sent.                             *)
Start(r) ==
  /\ At(r, "sync") /\ comm[r].k \in fired[r]
  /\ LET k == comm[r].k
         op == prog[k]
     IN \/ /\ op.verb = "allreduce"
           /\ comm[r].lane = "rdma" => qp[r]
           /\ comm' = [comm EXCEPT ![r].pc = "exchange"]
           /\ UNCHANGED chan
        \/ /\ op.verb # "allreduce"
           /\ Sends(r, op) => CanSend(r)
           /\ chan' = IF Sends(r, op)
                      THEN Sent(r, Other(r), Coll(k, "data", Outgoing(r, op))) ELSE chan
           /\ comm' = [comm EXCEPT ![r].pc = IF Waits(r, op) THEN "data" ELSE "idle",
                                   ![r].flag = IF Waits(r, op) THEN @ ELSE k]
  /\ UNCHANGED <<boot, prog, wire, alive, qp, stream, fired, caller, result>>

(* exchange looks at the queue pair again, whatever the lane. *)
Exchange(r) ==
  /\ At(r, "exchange") /\ CanSend(r)
  /\ LET k == comm[r].k
     IN /\ chan' = Sent(r, Other(r), IF qp[r] THEN Coll(k, "rdy", <<>>)
                                     ELSE Coll(k, "data", comm[r].out))
        /\ comm' = [comm EXCEPT ![r].pc = IF qp[r] THEN "rdy" ELSE "data"]
  /\ UNCHANGED <<boot, prog, wire, alive, qp, stream, fired, caller, result>>

PeerReady(r) ==
  /\ At(r, "rdy") /\ Entry(r, "rdy") # {}
  /\ comm' = [comm EXCEPT ![r].pc = "write", ![r].inbox = @ \ Entry(r, "rdy")]
  /\ UNCHANGED <<boot, prog, linkVars, qp, stream, fired, caller, result>>

(* The one-sided write into the peer's landing region, half by half, and     *)
(* DONE behind its completion.                                               *)
Write(r) ==
  /\ At(r, "write") /\ wire[1] /\ HasComm(Other(r))
  /\ comm' = [comm EXCEPT ![r].pc = "rest", ![Other(r)].land[1] = comm[r].out[1]]
  /\ UNCHANGED <<boot, prog, linkVars, qp, stream, fired, caller, result>>

WriteRest(r) ==
  /\ At(r, "rest") /\ wire[1] /\ CanSend(r)
  /\ comm' = [comm EXCEPT ![r].pc = "done", ![Other(r)].land[2] = comm[r].out[2]]
  /\ chan' = Sent(r, Other(r), Coll(comm[r].k, "done", <<>>))
  /\ UNCHANGED <<boot, prog, wire, alive, qp, stream, fired, caller, result>>

(* What the bytes received do to the stage; by RDMA the reduction is the     *)
(* stream's.                                                                 *)
Reduced(r, data) ==
  LET op == prog[comm[r].k]
      out == comm[r].out
  IN CASE op.verb = "allreduce" -> IF comm[r].lane = "rdma" THEN out ELSE PlusBoth(out, data)
       [] op.verb = "reduce" -> PlusBoth(out, data)
       [] op.verb = "broadcast" -> data
       [] op.verb = "reduce_scatter" ->
            [out EXCEPT ![1] = IF r = 0 THEN Plus(@, data[1]) ELSE Plus(out[2], data[1]),
                        ![2] = IF r = 0 THEN @ ELSE Plus(@, data[1])]
       [] op.verb = "all_gather" -> [out EXCEPT ![Half(Other(r))] = data[1]]

Finishes(r, data, used) ==
  comm' = [comm EXCEPT ![r].out = Reduced(r, data), ![r].inbox = @ \ used,
                       ![r].flag = comm[r].k, ![r].pc = "idle"]

PeerDone(r) ==
  /\ At(r, "done") /\ Entry(r, "done") # {}
  /\ Finishes(r, comm[r].land, Entry(r, "done"))
  /\ UNCHANGED <<boot, prog, linkVars, qp, stream, fired, caller, result>>

PeerData(r) ==
  /\ At(r, "data")
  /\ \E e \in Entry(r, "data") : Finishes(r, e.data, {e})
  /\ UNCHANGED <<boot, prog, linkVars, qp, stream, fired, caller, result>>

(* What makes a job raise: the lane or the link gone, a failed write, or the *)
(* peer's answer not in time.                                                *)
JobRaises(r) ==
  \/ /\ At(r, "sync") /\ comm[r].k \in fired[r]
     /\ LET op == prog[comm[r].k]
        IN IF op.verb = "allreduce" THEN comm[r].lane = "rdma" /\ ~qp[r]
           ELSE Sends(r, op) /\ ~CanSend(r)
  \/ At(r, "exchange") /\ ~CanSend(r)
  \/ (At(r, "write") \/ At(r, "rest")) /\ (~wire[1] \/ ~CanSend(r))
  \/ \E op \in {"rdy", "done", "data"} : At(r, op) /\ Entry(r, op) = {}

\* Fault seeded for StreamsDrain: a stream parked on the flag is not let go.
KilledParked(c) == [c EXCEPT !.dead = TRUE]

(* fail, or a group error: the comm is dead and the stream is let go. *)
Killed(c) == [c EXCEPT !.dead = TRUE, !.flag = Released]

WorkerStep(r) ==
  \/ Take(r) \/ Start(r) \/ Exchange(r) \/ PeerReady(r) \/ Write(r) \/ WriteRest(r)
  \/ PeerDone(r) \/ PeerData(r)
=============================================================================
