----------------------------- MODULE PeerGroup -----------------------------
(***************************************************************************)
(* A peer group from its creation to its end (dataflow/service/peer: nm and *)
(* groups) over the star of links its coordinator, rank 0, holds: RDMA      *)
(* bring-up and its probe, the join barrier, the comm builders, the reader  *)
(* of each link, a group's death and its fan-out. The collectives that run  *)
(* in between are module Collective's.                                      *)
(***************************************************************************)
EXTENDS Collective

CONSTANTS
  Fleets    \* each a boot (world, fake, parks, rdma, the faults) and its collectives

(* A group has a coordinator. *)
ASSUME FleetsAssumption == \A f \in Fleets : f.boot.world \in Nat \ {0}

VARIABLES
  remote,   \* remote_rdma_up of each end of a link
  probe,    \* the dialer's RDMA probe has still to run
  create,   \* the create_peer_group verb on the coordinator
  rec,      \* each rank's group record
  builder   \* its comm builder

groupVars == <<remote, probe, create, rec, builder>>
vars == <<boot, prog, linkVars, commVars, groupVars>>

Members == Ranks \ {0}

Ends == {<<0, m>> : m \in Members} \cup {<<m, 0>> : m \in Members}

Coordinator(r) == r = 0

-----------------------------------------------------------------------------
(* group_error: the record, the comm if it is attached and still alive, and  *)
(* the frames: the coordinator's to every member but the one it heard from,  *)
(* a member's to the coordinator when the failure is its own.                *)

Self == 9       \* no rank: the failure is the caller's own

Errored(r, cause) == [rec EXCEPT ![r].error = cause]

CommKilled(r) ==
  IF HasComm(r) /\ ~comm[r].dead THEN [comm EXCEPT ![r] = Killed(@)] ELSE comm

Tells(r, from, p) ==
  /\ p[1] = r /\ alive[p] /\ wire[Link(p[1] + p[2])]
  /\ IF Coordinator(r) THEN p[2] # from ELSE from = Self

Told(r, from) ==
  [p \in DOMAIN chan |-> IF Tells(r, from, p) THEN Append(chan[p], [kind |-> "error"])
                         ELSE chan[p]]

(* A job raised: the worker ends the comm and reports. *)
WorkerFails(r) ==
  /\ JobRaises(r)
  /\ comm' = [comm EXCEPT ![r] = [Killed(@) EXCEPT !.pc = "gone"]]
  /\ rec' = Errored(r, "failed")
  /\ chan' = Told(r, Self)
  /\ UNCHANGED <<boot, prog, wire, alive, qp, stream, fired, caller, result, remote, probe,
                 create, builder>>

-----------------------------------------------------------------------------
(* RDMA bring-up. *)

(* The dialer's probe: without the peer's RDMA_UP in time, or with a failed  *)
(* write, it demotes its own queue pair and tells the peer to.               *)
ProbeOk ==
  /\ probe /\ remote[0] /\ qp[0]
  /\ probe' = FALSE
  /\ UNCHANGED <<boot, prog, linkVars, commVars, remote, create, rec, builder>>

ProbeFails ==
  /\ probe /\ qp[0] /\ boot.demotes
  /\ probe' = FALSE
  /\ qp' = [qp EXCEPT ![0] = FALSE]
  /\ chan' = IF wire[1] THEN [chan EXCEPT ![<<0, 1>>] = Append(@, [kind |-> "demote"])]
             ELSE chan
  /\ UNCHANGED <<boot, prog, wire, alive, comm, stream, fired, caller, result, remote,
                 create, rec, builder>>

-----------------------------------------------------------------------------
(* The verb and the builders. *)

NewRecord(ready) ==
  [known |-> TRUE, ready |-> ready, error |-> "", built |-> FALSE, attached |-> FALSE,
   pending |-> <<>>, acks |-> {}]

(* create_group: refused without the star, else the record and the joins. *)
Create ==
  /\ create = "idle"
  /\ IF \A m \in Members : alive[<<0, m>>]
     THEN /\ create' = "barrier"
          /\ rec' = [rec EXCEPT ![0] = NewRecord(FALSE)]
          /\ chan' = [p \in DOMAIN chan |->
                        IF p[1] = 0 /\ wire[p[2]] THEN Append(chan[p], [kind |-> "join"])
                        ELSE chan[p]]
     ELSE create' = "failed" /\ UNCHANGED <<rec, chan>>
  /\ UNCHANGED <<boot, prog, wire, alive, commVars, remote, probe, builder>>

BarrierFull ==
  /\ create = "barrier" /\ rec[0].ready
  /\ create' = "attach"
  /\ builder' = [builder EXCEPT ![0] = "build"]
  /\ UNCHANGED <<boot, prog, linkVars, commVars, remote, probe, rec>>

BarrierTimeout ==
  /\ create = "barrier" /\ ~rec[0].ready
  /\ create' = "failed"
  /\ rec' = Errored(0, "barrier")
  /\ UNCHANGED <<boot, prog, linkVars, commVars, remote, probe, builder>>

(* The lane: RDMA when both ends are seen up, the socket once the wait for   *)
(* that has run out.                                                         *)
LaneSeen(r) == IF qp[r] /\ remote[r] THEN "rdma" ELSE "socket"

AfterBuild(r) == [builder EXCEPT ![r] = IF Coordinator(r) THEN "end" ELSE "ack"]

VerbReturns(r) == create' = IF Coordinator(r) THEN "created" ELSE create

(* The backend attached, what the reader parked drained into it. A fake boot *)
(* attaches a handle without a comm.                                         *)
Attach(r) ==
  /\ builder[r] = "build"
  /\ boot.fake \/ boot.world = 2
  /\ LET parked == {rec[r].pending[j] : j \in DOMAIN rec[r].pending}
     IN comm' = IF boot.fake THEN comm
                ELSE [comm EXCEPT ![r] = [NewComm(LaneSeen(r)) EXCEPT !.inbox = parked]]
  /\ rec' = [rec EXCEPT ![r].attached = TRUE, ![r].built = TRUE, ![r].pending = <<>>]
  /\ builder' = AfterBuild(r)
  /\ VerbReturns(r)
  /\ UNCHANGED <<boot, prog, linkVars, qp, stream, fired, caller, result, remote, probe>>

(* It fails: no scratch in the slab, or a world hostmem does not do. The     *)
(* member's ack is withheld.                                                 *)
AttachFails(r) ==
  /\ builder[r] = "build"
  /\ r \in boot.unattachable \/ (~boot.fake /\ boot.world # 2)
  /\ rec' = [rec EXCEPT ![r].error = "attach", ![r].built = TRUE, ![r].pending = <<>>]
  /\ builder' = [builder EXCEPT ![r] = "end"]
  /\ VerbReturns(r)
  /\ UNCHANGED <<boot, prog, linkVars, commVars, remote, probe>>

Ack(m) ==
  /\ builder[m] = "ack"
  /\ chan' = IF wire[m] THEN [chan EXCEPT ![<<m, 0>>] = Append(@, [kind |-> "ack"])] ELSE chan
  /\ builder' = [builder EXCEPT ![m] = "end"]
  /\ UNCHANGED <<boot, prog, wire, alive, commVars, remote, probe, create, rec>>

BuildStep(r) == Attach(r) \/ AttachFails(r) \/ Ack(r)

CreateStep == Create \/ BarrierFull \/ BarrierTimeout

-----------------------------------------------------------------------------
(* The readers: rank s's, of the link from rank r. *)

Reads(r, s, kind) ==
  /\ alive[<<s, r>>] /\ chan[<<r, s>>] # <<>>
  /\ Head(chan[<<r, s>>]).kind = kind

Popped(r, s) == [chan EXCEPT ![<<r, s>>] = Tail(@)]

ReadInfo(r, s) ==
  /\ Reads(r, s, "info")
  /\ qp' = [qp EXCEPT ![s] = TRUE]
  /\ chan' = IF wire[Link(r + s)]
             THEN [Popped(r, s) EXCEPT ![<<s, r>>] = Append(@, [kind |-> "up"])]
             ELSE Popped(r, s)
  /\ probe' = (probe \/ Coordinator(s))
  /\ UNCHANGED <<boot, prog, wire, alive, comm, stream, fired, caller, result, remote,
                 create, rec, builder>>

ReadUp(r, s) ==
  /\ Reads(r, s, "up")
  /\ remote' = [remote EXCEPT ![s] = TRUE]
  /\ chan' = Popped(r, s)
  /\ UNCHANGED <<boot, prog, wire, alive, commVars, probe, create, rec, builder>>

ReadDemote(r, s) ==
  /\ Reads(r, s, "demote")
  /\ qp' = [qp EXCEPT ![s] = FALSE]
  /\ chan' = Popped(r, s)
  /\ UNCHANGED <<boot, prog, wire, alive, comm, stream, fired, caller, result, remote, probe,
                 create, rec, builder>>

\* Fault seeded for AttachmentBarrier: a member acknowledges before it attaches.
JoinAndAck(r, s) ==
  /\ Reads(r, s, "join")
  /\ rec' = [rec EXCEPT ![s] = NewRecord(TRUE)]
  /\ builder' = [builder EXCEPT ![s] = "build"]
  /\ chan' = [Popped(r, s) EXCEPT ![<<s, r>>] = Append(@, [kind |-> "ack"])]
  /\ UNCHANGED <<boot, prog, wire, alive, commVars, remote, probe, create>>

ReadJoin(r, s) ==
  /\ Reads(r, s, "join")
  /\ rec' = [rec EXCEPT ![s] = NewRecord(TRUE)]
  /\ builder' = [builder EXCEPT ![s] = "build"]
  /\ chan' = Popped(r, s)
  /\ UNCHANGED <<boot, prog, wire, alive, commVars, remote, probe, create>>

ReadAck(r, s) ==
  /\ Reads(r, s, "ack")
  /\ rec' = [rec EXCEPT ![s].acks = @ \cup {r}, ![s].ready = @ \/ rec[s].acks \cup {r} = Members]
  /\ chan' = Popped(r, s)
  /\ UNCHANGED <<boot, prog, wire, alive, commVars, remote, probe, create, builder>>

ReadError(r, s) ==
  /\ Reads(r, s, "error")
  /\ rec' = IF rec[s].known THEN Errored(s, "told") ELSE rec
  /\ comm' = CommKilled(s)
  /\ chan' = [p \in DOMAIN chan |->
                IF p = <<r, s>> THEN Tail(chan[p])
                ELSE IF rec[s].known THEN Told(s, r)[p] ELSE chan[p]]
  /\ UNCHANGED <<boot, prog, wire, alive, qp, stream, fired, caller, result, remote, probe,
                 create, builder>>

(* deliver_coll: parked until the comm is built, dropped once the group is   *)
(* in error.                                                                 *)
ReadColl(r, s) ==
  /\ Reads(r, s, "coll")
  /\ LET f == Head(chan[<<r, s>>])
         wanted == rec[s].known /\ rec[s].error = ""
     IN /\ rec' = IF wanted /\ ~rec[s].built THEN [rec EXCEPT ![s].pending = Append(@, f)]
                  ELSE rec
        /\ comm' = IF wanted /\ rec[s].built /\ HasComm(s)
                   THEN [comm EXCEPT ![s].inbox = @ \cup {f}] ELSE comm
  /\ chan' = Popped(r, s)
  /\ UNCHANGED <<boot, prog, wire, alive, qp, stream, fired, caller, result, remote, probe,
                 create, builder>>

(* The wire breaks; each end finds out, drops the link, and takes a ready    *)
(* group with it.                                                            *)
Break(m) ==
  /\ m \in boot.breakable /\ wire[m]
  /\ wire' = [wire EXCEPT ![m] = FALSE]
  /\ chan' = [chan EXCEPT ![<<0, m>>] = <<>>, ![<<m, 0>>] = <<>>]
  /\ UNCHANGED <<boot, prog, alive, commVars, groupVars>>

DropLink(r, s) ==
  /\ alive[<<s, r>>] /\ ~wire[Link(r + s)]
  /\ alive' = [alive EXCEPT ![<<s, r>>] = FALSE]
  /\ IF rec[s].known /\ rec[s].ready /\ rec[s].error = ""
     THEN rec' = Errored(s, "down") /\ comm' = CommKilled(s) /\ chan' = Told(s, r)
     ELSE UNCHANGED <<rec, comm, chan>>
  /\ UNCHANGED <<boot, prog, wire, qp, stream, fired, caller, result, remote, probe, create,
                 builder>>

ReadStep(r, s) ==
  \/ ReadInfo(r, s) \/ ReadUp(r, s) \/ ReadDemote(r, s)
  \/ ReadJoin(r, s) \/ ReadAck(r, s) \/ ReadError(r, s) \/ ReadColl(r, s)
  \/ DropLink(r, s)

-----------------------------------------------------------------------------
(* A connected star, RDMA "up" on its links, or "coming": each end has sent  *)
(* its RDMA_INFO.                                                            *)
Init ==
  /\ \E f \in Fleets : boot = f.boot /\ prog = f.prog
  /\ qp = [r \in Ranks |-> boot.rdma = "up"]
  /\ wire = [m \in Members |-> TRUE]
  /\ alive = [p \in Ends |-> TRUE]
  /\ chan = [p \in Ends |-> IF boot.rdma = "coming" THEN <<[kind |-> "info"]>> ELSE <<>>]
  /\ comm = [r \in Ranks |-> NoComm]
  /\ stream = [r \in Ranks |-> <<>>]
  /\ fired = [r \in Ranks |-> {}]
  /\ caller = [r \in Ranks |-> "idle"]
  /\ result = [r \in Ranks |-> [k \in DOMAIN prog |-> <<>>]]
  /\ remote = [r \in Ranks |-> boot.rdma = "up"]
  /\ probe = FALSE
  /\ create = "idle"
  /\ rec = [r \in Ranks |-> [NewRecord(FALSE) EXCEPT !.known = FALSE]]
  /\ builder = [r \in Ranks |-> "none"]

(* Runs start when the verb has returned; a record in error is not handed    *)
(* out to a new one, and a run is one here.                                  *)
Running(r) == create = "created" /\ (rec[r].error = "" \/ (HasComm(r) /\ comm[r].seq > 0))

CallerStep(r) == (Running(r) /\ Enqueue(r)) \/ Spin(r)

Next ==
  \/ \E r \in Ranks :
       \/ (CallerStep(r) \/ StreamStep(r) \/ WorkerStep(r)) /\ UNCHANGED groupVars
       \/ WorkerFails(r)
       \/ BuildStep(r)
  \/ \E p \in Ends : ReadStep(p[1], p[2])
  \/ CreateStep
  \/ ProbeOk \/ ProbeFails
  \/ \E m \in Members : Break(m)

(* Threads are scheduled and the device makes progress; a wait that cannot   *)
(* end times out. Nothing makes a fault happen.                              *)
Spec ==
  /\ Init /\ [][Next]_vars
  /\ \A r \in 0..1 :
       /\ WF_vars(StreamStep(r) /\ UNCHANGED groupVars)
       /\ WF_vars(CallerStep(r) /\ UNCHANGED groupVars)
       /\ WF_vars((WorkerStep(r) /\ UNCHANGED groupVars) \/ WorkerFails(r))
  /\ \A r \in 0..2 : WF_vars(r \in Ranks /\ BuildStep(r))
  /\ \A m \in 1..2 : /\ WF_vars(m \in Ranks /\ ReadStep(0, m))
                     /\ WF_vars(m \in Ranks /\ ReadStep(m, 0))
  /\ WF_vars(CreateStep)

-----------------------------------------------------------------------------
(* While its group lives and keeps its lane, every collective leaves on      *)
(* every rank exactly the sum, copy or slice it promises: no stage or        *)
(* landing region is overwritten while the peer, the stream or the reduction *)
(* still needs it, however the two ranks' callers, streams and workers       *)
(* interleave (comm.py enqueue, exchange, run_job, worker_loop). A lane      *)
(* demoted between run_job's look at it and exchange's, on both ranks, sends *)
(* the bytes by socket to a stream that adds the landing region.             *)
SumsRight ==
  \A r \in Ranks : \A k \in DOMAIN prog :
    \/ result[r][k] \in {<<>>, Expected(r, k)}
    \/ comm[r].dead
    \/ comm[r].lane = "rdma" /\ ~qp[r] /\ prog[k].verb = "allreduce"

(* A full join barrier means every member has attached its backend (nm.py    *)
(* start_comm_build and CommBuild: the ack comes after the attachment).      *)
AttachmentBarrier ==
  rec[0].ready => \A m \in Members : rec[m].attached

(* No stream stays parked and no caller blocked, whatever dies (comm.py      *)
(* worker_loop, fail, spin_until; nm.py group_error).                        *)
StreamsDrain ==
  <>[](\A r \in Ranks : stream[r] = <<>> /\ caller[r] # "spin")
=============================================================================
