------------------------------- MODULE Store -------------------------------
(***************************************************************************)
(* The resident object store of the daemon behind its dispatcher: queued   *)
(* calls run one at a time, a call that meets a read lease is parked, the  *)
(* payload thread copies snapshots out and restores in, peer sends hold    *)
(* leases of their own, and every release of leases unparks.               *)
(*                                                                         *)
(* The bytes of an object are the number of the call that wrote them.  An  *)
(* extent holds one object: sizes are left out, so a refusal that compares *)
(* them may come whenever it is reached.  A handler is one step, but for   *)
(* the gap between the LEASED it raises and the parking of the call.       *)
(***************************************************************************)
EXTENDS Naturals, Sequences, FiniteSets

CONSTANTS
    Scripts,   \* sequences of calls [op, ids, out, fails], out at most one object
    NumCalls,  \* their length
    Objects,   \* object ids, in sorted order: a set of naturals
    Extents    \* the slab

Calls == 1 .. NumCalls
NoExtent == 0
Unwritten == 0
Uncopied == NumCalls + 1
Nowhere == [call |-> 0, phase |-> "idle", todo |-> {}]

\* A call as the wire protocol has it: most name one object, a run may capture one.
CallRecord(call) ==
    /\ call.ids \cup call.out \subseteq Objects /\ call.fails \in BOOLEAN
    /\ call.op \in {"put", "create", "duplicate", "release", "protect", "send"} =>
          \E o \in Objects : call.ids = {o}
    /\ call.op = "duplicate" => call.out # {}
    /\ \A o, p \in call.out : o = p

ASSUME StoreConstants ==
    /\ Objects \subseteq Nat /\ Extents \subseteq Nat \ {NoExtent} /\ NumCalls \in Nat
    /\ IsFiniteSet(Objects) /\ IsFiniteSet(Extents)
    /\ \A s \in Scripts : DOMAIN s = Calls /\ \A c \in Calls : CallRecord(s[c])

VARIABLES
    script,  \* what clients ask for; fails: reading its file, its run or its job may fail
    cat,     \* the catalog: extent, lease_refs and protected of each object
    free,    \* extents of the free list
    data,    \* the bytes of each extent
    fifo,    \* the dispatcher's queue
    hand,    \* the call the dispatcher has taken
    parked,  \* the calls that met a lease
    answer,  \* what each caller has been told
    lease,   \* the leases a call took: on which extents, which it created
    jobs,    \* the payload thread's queue
    job,     \* the job it is at
    image,   \* the bytes each snapshot has copied
    want,    \* history: the bytes each object has once the calls before are done
    due      \* history: want, at the admission of each snapshot

queues == <<fifo, parked, jobs>>
store == <<cat, free, data>>
vars == <<script, cat, free, data, fifo, hand, parked, answer, lease, jobs, job, image, want, due>>

-----------------------------------------------------------------------------
Present(o) == cat[o].ext # NoExtent
Absent == [ext |-> NoExtent, refs |-> 0, protected |-> FALSE]
IsLeased(o) == cat[o].refs > 0

\* First fit: the k-th object of S takes the k-th free extent.
Carve(S) ==
    LET Rank(T, x) == Cardinality({y \in T : y < x})
    IN  [o \in S |-> CHOOSE e \in free : Rank(free, e) = Rank(S, o)]

\* The catalog and the free list with fresh records for S.
Create(S) ==
    LET at == Carve(S)
    IN  /\ cat' = [o \in Objects |-> IF o \in S THEN [Absent EXCEPT !.ext = at[o]] ELSE cat[o]]
        /\ free' = free \ {at[o] : o \in S}

\* ... and without the records of S.
Drop(S) ==
    /\ cat' = [o \in Objects |-> IF o \in S THEN Absent ELSE cat[o]]
    /\ free' = free \cup {cat[o].ext : o \in {p \in S : Present(p)}}

Handles(c, op) == hand.call = c /\ hand.phase = "run" /\ script[c].op = op

Replies(c, r) ==
    /\ answer' = [answer EXCEPT ![c] = r]
    /\ hand' = Nowhere

\* The handler raises LEASED; the call is not parked yet.
RaisesLeased(c) ==
    /\ hand' = [hand EXCEPT !.phase = "leased"]
    /\ UNCHANGED answer

Only(o) == CHOOSE x \in o : TRUE

-----------------------------------------------------------------------------
(* The dispatcher thread.                                                  *)

Submit(c) ==
    /\ answer[c] = "unsent"
    /\ answer' = [answer EXCEPT ![c] = "none"]
    /\ fifo' = Append(fifo, c)
    /\ UNCHANGED <<store, hand, parked, lease, jobs, job, image, want, due>>

TakeCall ==
    /\ hand = Nowhere /\ fifo # <<>>
    /\ hand' = [Nowhere EXCEPT !.call = Head(fifo), !.phase = "run"]
    /\ fifo' = Tail(fifo)
    /\ UNCHANGED <<store, parked, answer, lease, jobs, job, image, want, due>>

Park ==
    /\ hand.phase = "leased"
    /\ parked' = Append(parked, hand.call)
    /\ hand' = Nowhere
    /\ UNCHANGED <<store, fifo, answer, lease, jobs, job, image, want, due>>

\* put_object and materialize_object write bytes; create_object leaves those
\* of the extent.  The third disjunct is BINDING_MISMATCH; a file that turns
\* out short is an error after the record was made and its bytes touched.
Put(c) ==
    LET o == Only(script[c].ids)
        bytes(e) == IF script[c].op = "put" THEN c ELSE data[e]
        Fills(e) == /\ data' = [data EXCEPT ![e] = bytes(e)]
                    /\ want' = [want EXCEPT ![o] = bytes(e)]
                    /\ \/ Replies(c, "ok")
                       \/ script[c].fails /\ Replies(c, "error")
    IN  /\ Handles(c, "put") \/ Handles(c, "create")
        /\ \/ /\ Present(o) /\ IsLeased(o)
              /\ RaisesLeased(c) /\ UNCHANGED <<store, want>>
           \/ /\ ~Present(o) /\ free = {}
              /\ Replies(c, "error") /\ UNCHANGED <<store, want>>
           \/ /\ Present(o) /\ ~IsLeased(o)
              /\ Replies(c, "error") /\ UNCHANGED <<store, want>>
           \/ /\ Present(o) /\ ~IsLeased(o)
              /\ Fills(cat[o].ext) /\ UNCHANGED <<cat, free>>
           \/ /\ ~Present(o) /\ free # {}
              /\ Create({o}) /\ Fills(Carve({o})[o])
        /\ UNCHANGED <<queues, lease, job, image, due>>

\* duplicate_object, whatever leases the source has.
Duplicate(c) ==
    LET src == Only(script[c].ids)
        dst == Only(script[c].out)
    IN  /\ Handles(c, "duplicate")
        /\ \/ /\ ~Present(src) \/ Present(dst) \/ free = {}
              /\ Replies(c, "error") /\ UNCHANGED <<store, want>>
           \/ /\ Present(src) /\ ~Present(dst) /\ free # {}
              /\ Create({dst})
              /\ data' = [data EXCEPT ![Carve({dst})[dst]] = data[cat[src].ext]]
              /\ want' = [want EXCEPT ![dst] = data[cat[src].ext]]
              /\ Replies(c, "ok")
        /\ UNCHANGED <<queues, lease, job, image, due>>

\* Fault seeded for SnapshotExact: no lease pre-pass.
RunWithoutPrePass(c) ==
    /\ Handles(c, "run")
    /\ \A o \in script[c].ids : Present(o)
    /\ data' = [e \in Extents |-> IF e \in {cat[o].ext : o \in script[c].ids} THEN c ELSE data[e]]
    /\ want' = [o \in Objects |-> IF o \in script[c].ids THEN c ELSE want[o]]
    /\ Replies(c, "ok")
    /\ UNCHANGED <<cat, free, queues, lease, job, image, due>>

\* run: the lease pre-pass over the objects the program binds, the run, which
\* may write all of them, and the capture of a final object it has produced,
\* which is a put and raises what put raises.  The third disjunct is a run that
\* fails or is cancelled with some of its writes made, or with none
\* (BINDING_MISMATCH): nothing is captured.
Run(c) ==
    LET ids == script[c].ids
        out == script[c].out
        bound == {cat[o].ext : o \in ids}
        Writes(exts, objs) ==
            /\ data' = [e \in Extents |-> IF e \in exts THEN c ELSE data[e]]
            /\ want' = [o \in Objects |-> IF o \in objs THEN c ELSE want[o]]
    IN  /\ Handles(c, "run")
        /\ \/ /\ \E o \in ids : Present(o) /\ IsLeased(o)
              /\ RaisesLeased(c) /\ UNCHANGED <<store, want>>
           \/ /\ \A o \in ids : Present(o) => ~IsLeased(o)
              /\ \E o \in ids : ~Present(o)
              /\ Replies(c, "error") /\ UNCHANGED <<store, want>>
           \/ /\ \A o \in ids : Present(o) /\ ~IsLeased(o)
              /\ script[c].fails
              /\ \E W \in SUBSET ids : Writes({cat[o].ext : o \in W}, W)
              /\ Replies(c, "error") /\ UNCHANGED <<cat, free>>
           \/ /\ \A o \in ids : Present(o) /\ ~IsLeased(o)
              /\ \/ /\ \E o \in out : IsLeased(o)
                    /\ Writes(bound, ids) /\ RaisesLeased(c) /\ UNCHANGED <<cat, free>>
                 \/ /\ \E o \in out : ~Present(o) /\ free = {}
                    /\ Writes(bound, ids) /\ Replies(c, "error") /\ UNCHANGED <<cat, free>>
                 \/ /\ \A o \in out : Present(o) /\ ~IsLeased(o)
                    /\ Writes(bound \cup {cat[o].ext : o \in out}, ids \cup out)
                    /\ Replies(c, "ok") /\ UNCHANGED <<cat, free>>
                 \/ /\ \E o \in out : ~Present(o) /\ free # {}
                    /\ Create(out) /\ Writes(bound \cup {Carve(out)[Only(out)]}, ids \cup out)
                    /\ Replies(c, "ok")
        /\ UNCHANGED <<queues, lease, job, image, due>>

\* force, the caller's choice, overrides protection.
Release(c) ==
    LET o == Only(script[c].ids)
    IN  /\ Handles(c, "release")
        /\ \/ ~Present(o) /\ Replies(c, "ok") /\ UNCHANGED <<cat, free>>
           \/ cat[o].protected /\ Replies(c, "error") /\ UNCHANGED <<cat, free>>
           \/ /\ Present(o) /\ IsLeased(o)
              /\ RaisesLeased(c) /\ UNCHANGED <<cat, free>>
           \/ /\ Present(o) /\ ~IsLeased(o)
              /\ Drop({o}) /\ Replies(c, "ok")
        /\ UNCHANGED <<data, queues, lease, job, image, want, due>>

\* protect_object and unprotect_object.
Protect(c) ==
    LET o == Only(script[c].ids)
    IN  /\ Handles(c, "protect")
        /\ \/ ~Present(o) /\ Replies(c, "error") /\ UNCHANGED cat
           \/ /\ Present(o)
              /\ \E value \in BOOLEAN : cat' = [cat EXCEPT ![o].protected = value]
              /\ Replies(c, "ok")
        /\ UNCHANGED <<free, data, queues, lease, job, image, want, due>>

\* Fault seeded for LeasedStable: wipe does not look at leases.
WipeIgnoresLeases(c) ==
    /\ Handles(c, "wipe")
    /\ Drop({o \in Objects : Present(o) /\ ~cat[o].protected})
    /\ Replies(c, "ok")
    /\ UNCHANGED <<data, queues, lease, job, image, want, due>>

\* wipe goes through the ids in order and stops at the first leased one.
Wipe(c) ==
    /\ Handles(c, "wipe")
    /\ \E force \in BOOLEAN :
        LET able == {o \in Objects : Present(o) /\ (force \/ ~cat[o].protected)}
            stops == {o \in able : IsLeased(o)}
        IN  /\ Drop({o \in able : \A p \in stops : o < p})
            /\ IF stops = {} THEN Replies(c, "ok") ELSE RaisesLeased(c)
    /\ UNCHANGED <<data, queues, lease, job, image, want, due>>

-----------------------------------------------------------------------------
(* Leases: taken by queued calls, released by other threads.               *)

NoLease == [state |-> "none", at |-> [o \in {} |-> NoExtent], made |-> {}]

\* acquire_leases: one more reference on each record.
Acquire(c, records, made) ==
    /\ cat' = [o \in Objects |-> IF o \in script[c].ids
                                 THEN [records[o] EXCEPT !.refs = @ + 1] ELSE records[o]]
    /\ lease' = [lease EXCEPT ![c] = [state |-> "held", made |-> made,
                                      at |-> [o \in script[c].ids |-> records[o].ext]]]

\* snapshot: admission only, the copy is the payload thread's.
Snapshot(c) ==
    /\ Handles(c, "snapshot")
    /\ \/ /\ \E o \in script[c].ids : ~Present(o)
          /\ Replies(c, "error") /\ UNCHANGED <<cat, lease, jobs, due>>
       \/ /\ \A o \in script[c].ids : Present(o)
          /\ Acquire(c, cat, {})
          /\ jobs' = Append(jobs, c)
          /\ due' = [due EXCEPT ![c] = want]
          /\ Replies(c, "ok")
    /\ UNCHANGED <<free, data, fifo, parked, job, image, want>>

\* send_object: the lease lasts until the transfer has ended.  With the peer
\* out of reach the lease is taken and released at once.
Send(c) ==
    LET o == Only(script[c].ids)
    IN  /\ Handles(c, "send")
        /\ \/ /\ ~Present(o)
              /\ Replies(c, "error") /\ UNCHANGED <<cat, lease, fifo, parked>>
           \/ /\ Present(o)
              /\ Acquire(c, cat, {})
              /\ Replies(c, "ok") /\ UNCHANGED <<fifo, parked>>
           \/ /\ Present(o)
              /\ fifo' = fifo \o parked /\ parked' = <<>>
              /\ Replies(c, "error") /\ UNCHANGED <<cat, lease>>
        /\ UNCHANGED <<free, data, jobs, job, image, want, due>>

\* restore_snapshot: validate, create the absent targets one after the other,
\* lease them all.  If the slab is exhausted on the way, put raises.  The first
\* disjunct is a refusal by validation: no snapshot there, a size that differs.
Restore(c) ==
    LET ids == script[c].ids
        missing == {o \in ids : ~Present(o)}
        room == Cardinality(free)
        first == {o \in missing : Cardinality({p \in missing : p < o}) < room}
        at == Carve(first)
        made == [o \in Objects |-> IF o \in first THEN [Absent EXCEPT !.ext = at[o]]
                                                  ELSE cat[o]]
    IN  /\ Handles(c, "restore")
        /\ \/ Replies(c, "error") /\ UNCHANGED <<cat, free, lease, jobs, want>>
           \/ /\ \E o \in ids : Present(o) /\ IsLeased(o)
              /\ RaisesLeased(c) /\ UNCHANGED <<cat, free, lease, jobs, want>>
           \/ /\ \A o \in ids : Present(o) => ~IsLeased(o)
              /\ Cardinality(missing) > room
              /\ Create(first)
              /\ want' = [o \in Objects |-> IF o \in first THEN data[at[o]] ELSE want[o]]
              /\ Replies(c, "error") /\ UNCHANGED <<lease, jobs>>
           \/ /\ \A o \in ids : Present(o) => ~IsLeased(o)
              /\ Cardinality(missing) <= room
              /\ Acquire(c, made, missing)
              /\ free' = free \ {at[o] : o \in missing}
              /\ jobs' = Append(jobs, c)
              /\ want' = [o \in Objects |-> IF o \in ids THEN c ELSE want[o]]
              /\ Replies(c, "ok")
        /\ UNCHANGED <<data, fifo, parked, job, image, due>>

\* Admitted, but the event that announces the job raises: the except clauses
\* of both handlers release the leases, which retries the parked calls, and
\* restore's takes back the targets it made.
AdmissionRaises(c) ==
    LET ids == script[c].ids
    IN  /\ \/ Handles(c, "snapshot") /\ \A o \in ids : Present(o)
           \/ /\ Handles(c, "restore") /\ \A o \in ids : Present(o) => ~IsLeased(o)
              /\ Cardinality({o \in ids : ~Present(o)}) <= Cardinality(free)
        /\ fifo' = fifo \o parked /\ parked' = <<>>
        /\ Replies(c, "error")
        /\ UNCHANGED <<store, lease, jobs, job, image, want, due>>

-----------------------------------------------------------------------------
(* The payload thread, and the threads that end sends.                     *)

TakeJob ==
    /\ job = Nowhere /\ jobs # <<>>
    /\ job' = [call |-> Head(jobs), phase |-> "work", todo |-> script[Head(jobs)].ids]
    /\ jobs' = Tail(jobs)
    /\ UNCHANGED <<store, fifo, hand, parked, answer, lease, image, want, due>>

Works(op) == job.phase = "work" /\ script[job.call].op = op

NextTodo == CHOOSE o \in job.todo : \A p \in job.todo : o <= p

\* snapshot_job: one object after the other, found by its id.
CopyObject ==
    /\ Works("snapshot") /\ job.todo # {} /\ Present(NextTodo)
    /\ image' = [image EXCEPT ![job.call][NextTodo] = data[cat[NextTodo].ext]]
    /\ job' = [job EXCEPT !.todo = @ \ {NextTodo}]
    /\ UNCHANGED <<store, queues, hand, answer, lease, want, due>>

\* restore_job, after its verification.
PlaceObject ==
    /\ Works("restore") /\ job.todo # {} /\ Present(NextTodo)
    /\ data' = [data EXCEPT ![cat[NextTodo].ext] = job.call]
    /\ job' = [job EXCEPT !.todo = @ \ {NextTodo}]
    /\ UNCHANGED <<cat, free, queues, hand, answer, lease, image, want, due>>

\* A restore that is over gives its targets the protection they were saved with.
FinishJob ==
    /\ job.phase = "work" /\ job.todo = {}
    /\ \/ /\ Works("snapshot") /\ UNCHANGED cat
       \/ /\ Works("restore")
          /\ \E saved \in SUBSET script[job.call].ids :
                cat' = [o \in Objects |-> IF o \in script[job.call].ids
                                          THEN [cat[o] EXCEPT !.protected = (o \in saved)]
                                          ELSE cat[o]]
    /\ job' = [job EXCEPT !.phase = "release"]
    /\ UNCHANGED <<free, data, queues, hand, answer, lease, image, want, due>>

\* Fault seeded for LeasesEnd: the failure skips the release.
FailJobReturns ==
    /\ job.phase = "work" /\ script[job.call].fails
    /\ Drop(lease[job.call].made)
    /\ lease' = [lease EXCEPT ![job.call].at =
                    [o \in script[job.call].ids \ lease[job.call].made |-> @[o]]]
    /\ job' = Nowhere
    /\ UNCHANGED <<data, queues, hand, answer, image, want, due>>

\* Fault seeded for ExtentsOwned: the rollback forgets the extents.
FailJobLeaks ==
    /\ job.phase = "work" /\ script[job.call].fails
    /\ cat' = [o \in Objects |-> IF o \in lease[job.call].made THEN Absent ELSE cat[o]]
    /\ job' = [job EXCEPT !.phase = "release"]
    /\ UNCHANGED <<free, data, queues, hand, answer, lease, image, want, due>>

\* A job fails; what a restore created is rolled back.
FailJob ==
    /\ job.phase = "work"
    /\ script[job.call].fails \/ (job.todo # {} /\ ~Present(NextTodo))
    /\ Drop(lease[job.call].made)
    /\ lease' = [lease EXCEPT ![job.call].at =
                    [o \in script[job.call].ids \ lease[job.call].made |-> @[o]]]
    /\ job' = [job EXCEPT !.phase = "release"]
    /\ UNCHANGED <<data, queues, hand, answer, image, want, due>>

\* release_leases, before its hook: on the records the ids have now.
ReleaseLeases(c) ==
    /\ lease[c].state = "held"
    /\ script[c].op = "send" \/ (job.call = c /\ job.phase = "release")
    /\ cat' = [o \in Objects |-> IF o \in script[c].ids /\ IsLeased(o)
                                 THEN [cat[o] EXCEPT !.refs = @ - 1] ELSE cat[o]]
    /\ lease' = [lease EXCEPT ![c].state = "released"]
    /\ UNCHANGED <<free, data, queues, hand, answer, job, image, want, due>>

\* The hook: unpark_all.
UnparkAll(c) ==
    /\ lease[c].state = "released"
    /\ lease' = [lease EXCEPT ![c].state = "done"]
    /\ fifo' = fifo \o parked
    /\ parked' = <<>>
    /\ job' = IF job.call = c THEN Nowhere ELSE job
    /\ UNCHANGED <<store, jobs, hand, answer, image, want, due>>

-----------------------------------------------------------------------------
Init ==
    /\ script \in Scripts
    /\ cat = [o \in Objects |-> Absent]
    /\ free = Extents
    /\ data = [e \in Extents |-> Unwritten]
    /\ fifo = <<>> /\ hand = Nowhere /\ parked = <<>>
    /\ answer = [c \in Calls |-> "unsent"]
    /\ lease = [c \in Calls |-> NoLease]
    /\ jobs = <<>> /\ job = Nowhere
    /\ image = [c \in Calls |-> [o \in Objects |-> Uncopied]]
    /\ want = [o \in Objects |-> Unwritten]
    /\ due = [c \in Calls |-> want]

Handler(c) ==
    \/ Put(c) \/ Duplicate(c) \/ Run(c) \/ Release(c) \/ Protect(c) \/ Wipe(c)
    \/ Snapshot(c) \/ Send(c) \/ Restore(c) \/ AdmissionRaises(c)

Dispatcher == TakeCall \/ Park \/ \E c \in Calls : Handler(c)

Payload == TakeJob \/ CopyObject \/ PlaceObject \/ FinishJob \/ FailJob

Next ==
    /\ \/ Dispatcher \/ Payload
       \/ \E c \in Calls : Submit(c) \/ ReleaseLeases(c) \/ UnparkAll(c)
    /\ UNCHANGED script

Spec == Init /\ [][Next]_vars

\* The dispatcher and the payload thread run, a transfer ends, and a release
\* of leases goes on to its hook.
FairSpec ==
    /\ Spec
    /\ WF_vars(Dispatcher /\ UNCHANGED script) /\ WF_vars(Payload /\ UNCHANGED script)
    /\ \A c \in Calls : /\ WF_vars(ReleaseLeases(c) /\ UNCHANGED script)
                        /\ WF_vars(UnparkAll(c) /\ UNCHANGED script)

-----------------------------------------------------------------------------
(* Properties.                                                             *)

Takers == {"snapshot", "send", "restore"}

\* No other call leases the targets of a restore that may fail: its rollback
\* takes the records away whoever has leased them (rollback_created).  The two
\* properties of leases below need it.
LeasesApart ==
    \A s \in Scripts : \A c, r \in Calls :
        s[r].op = "restore" /\ s[r].fails /\ s[c].op \in Takers /\ c # r =>
            s[c].ids \cap s[r].ids = {}

\* An extent is on the free list or belongs to one object, whatever is
\* created, released, wiped, restored and rolled back (store.py put, release,
\* wipe, rollback_created).
ExtentsOwned ==
    \A e \in Extents :
        Cardinality({o \in Objects : cat[o].ext = e}) = IF e \in free THEN 0 ELSE 1

\* lease_refs counts the calls whose leases are out on the object: neither a
\* release of one holder nor a refused call frees an object another holder
\* still reads (store.py acquire_leases, release_leases).
LeasesCounted ==
    \A o \in Objects :
        cat[o].refs = Cardinality({c \in Calls : lease[c].state = "held" /\ o \in DOMAIN lease[c].at})

\* "extents are stable while leased" (handlers_snapshot.py:16): what a
\* snapshot, a restore or a send has leased stays where it was until the lease
\* is released, or until the restore takes back what it created itself.
LeasedStable ==
    \A c \in Calls : lease[c].state = "held" =>
        \A o \in DOMAIN lease[c].at : cat[o].ext = lease[c].at[o]

\* "snapshots see a stable image" (checkpointing.md:498): a snapshot holds, of
\* every object, the bytes left by the calls admitted before it and none of a
\* later one, although it is copied in the background while calls go on.
SnapshotExact ==
    \A c \in Calls : \A o \in Objects : image[c][o] \in {Uncopied, due[c][o]}

\* Leases end: whatever fails on the payload thread, it releases them, so that
\* no later write is parked for ever by a leaked lease (handlers_snapshot.py
\* snapshot_job, restore_job).
LeasesEnd == \A c \in Calls : lease[c].state = "held" ~> lease[c].state = "done"

\* "LEASED calls park here (no error reply) and retry on lease release"
\* (server.py:166): a call is answered at last, once the leases it met are gone.
CallsAnswered == \A c \in Calls : answer[c] = "none" ~> answer[c] \in {"ok", "error"}
=============================================================================
