--------------------------- MODULE StoreSnapshots ---------------------------
(***************************************************************************)
(* What is leased stays put, and a snapshot copied behind later calls      *)
(* holds the bytes it was asked for, for every slab, every number of calls *)
(* and every script in which nothing else leases what a restore that may   *)
(* fail is to write: the rollback takes the records away whoever has them. *)
(***************************************************************************)
EXTENDS StoreProofs

USE ZenonT(40)

Pending(o) == \E r \in Calls : script[r].op = "restore" /\ o \in Todo(r)
Tainted(o) == \E r \in Calls : script[r].op = "restore" /\ script[r].fails /\ o \in script[r].ids

\* What is leased stays where it is; only a restore that may fail takes back.
StableInv ==
    /\ LeasedStable /\ LeasesCounted
    /\ \A c \in Calls : lease[c].state = "held" /\ ~Whole(c) =>
          script[c].op = "restore" /\ script[c].fails

ContentInv ==
    /\ SnapshotExact
    /\ \A c \in Calls : lease[c].state = "none" => image[c] = [o \in Objects |-> Uncopied]
    /\ \A o \in Objects : Present(o) /\ ~Pending(o) /\ ~Tainted(o) => data[cat[o].ext] = want[o]
    /\ \A c \in Calls : \A o \in Todo(c) :
          want[o] = IF script[c].op = "restore" THEN c ELSE due[c][o]
    /\ \A r \in Elems(jobs) : script[r].op = "restore" =>
          Todo(job.call) \cap script[r].ids = {}
    /\ \A i, j \in 1 .. Len(jobs) : i < j /\ script[jobs[j]].op = "restore" =>
          script[jobs[i]].ids \cap script[jobs[j]].ids = {}

StoreInv == BaseInv /\ StableInv /\ ContentInv

-----------------------------------------------------------------------------
(***************************************************************************)
(* Steps that leave leases and jobs alone, and admissions.                 *)
(***************************************************************************)
\* A step that leaves the leases alone moves nothing that is leased.
LEMMA PlainStable ==
    ASSUME BaseInv, StableInv, Plain
    PROVE  StableInv'
<1>1. UNCHANGED <<script, lease>> /\ RefsKept
    BY DEF Plain
<1>2. LeasedStable'
  <2>1. ASSUME NEW c \in Calls, lease[c].state = "held", NEW o \in DOMAIN lease[c].at
        PROVE  cat'[o].ext = lease[c].at[o]
    <3>1. o \in Objects /\ cat[o].ext = lease[c].at[o] /\ IsLeased(o)
        BY <2>1, HeldFacts DEF StableInv
    <3> QED
        BY <1>1, <3>1 DEF RefsKept
  <2> QED
      BY <1>1, <2>1 DEF LeasedStable
<1>3. LeasesCounted'
    BY <1>1 DEF RefsKept, StableInv, LeasesCounted
<1> QED
    BY <1>1, <1>2, <1>3 DEF StableInv, Whole

\* It writes only what is not leased, and says so to the readers to come.
LEMMA PlainContent ==
    ASSUME StoreInv, Plain
    PROVE  ContentInv'
<1>1. BaseInv /\ LeasedStable /\ LeasesCounted /\ ContentInv
    BY DEF StoreInv, StableInv
<1>2. UNCHANGED <<script, lease, jobs, job, image, due>> /\ RefsKept /\ Kept
    BY DEF Plain
<1>3. SnapshotExact' /\ \A c \in Calls : lease'[c].state = "none" => image'[c] = [o \in Objects |-> Uncopied]
    BY <1>1, <1>2 DEF ContentInv, SnapshotExact
<1>4. /\ \A c : Todo(c)' = Todo(c)
      /\ \A o : Pending(o)' = Pending(o) /\ Tainted(o)' = Tainted(o)
    BY <1>2 DEF Todo, Pending, Tainted
<1>5. ASSUME NEW o \in Objects, cat'[o].ext # NoExtent, ~Pending(o), ~Tainted(o)
      PROVE  data'[cat'[o].ext] = want'[o]
  <2>1. CASE data'[cat'[o].ext] = want'[o]
      BY <2>1
  <2>2. CASE /\ cat'[o].ext = cat[o].ext /\ want'[o] = want[o]
             /\ data'[cat'[o].ext] = data[cat[o].ext]
    <3>1. data[cat[o].ext] = want[o]
        BY <1>1, <1>5, <2>2 DEF ContentInv, Present
    <3> QED
        BY <2>2, <3>1
  <2> QED
      BY <1>2, <1>5, <2>1, <2>2 DEF Kept
<1>6. ASSUME NEW c \in Calls, NEW o \in Todo(c)
      PROVE  want'[o] = IF script[c].op = "restore" THEN c ELSE due[c][o]
  <2>1. o \in Objects /\ cat[o].ext # NoExtent /\ IsLeased(o)
      BY <1>1, TodoLeased DEF Present
  <2>2. want'[o] = want[o]
      BY <1>2, <2>1 DEF RefsKept, Kept
  <2> QED
      BY <1>1, <2>2 DEF ContentInv
<1>7. \A r \in Elems(jobs') : script'[r].op = "restore" => Todo(job.call)' \cap script'[r].ids = {}
    BY <1>1, <1>2, <1>4 DEF ContentInv
<1>8. \A i, j \in 1 .. Len(jobs') : i < j /\ script'[jobs'[j]].op = "restore" =>
          script'[jobs'[i]].ids \cap script'[jobs'[j]].ids = {}
    BY <1>1, <1>2 DEF ContentInv
<1>9. \A o \in Objects : Present(o)' /\ ~Pending(o)' /\ ~Tainted(o)' => data'[cat'[o].ext] = want'[o]
    BY <1>4, <1>5 DEF Present
<1>10. \A c \in Calls : \A o \in Todo(c)' :
          want'[o] = IF script'[c].op = "restore" THEN c ELSE due'[c][o]
    BY <1>2, <1>4, <1>6
<1> QED
    BY <1>3, <1>7, <1>8, <1>9, <1>10 DEF ContentInv

\* An admission counts one more holder, and takes the places as they are.
LEMMA AdmitStable ==
    ASSUME BaseInv, StableInv, NEW c \in Calls, NEW ct, NEW made, Admits(c, ct, made)
    PROVE  StableInv'
<1>1. /\ \A d \in Calls \ {c} : lease'[d] = lease[d]
      /\ lease'[c].state = "held" /\ DOMAIN lease'[c].at = script[c].ids /\ lease[c].state = "none"
      /\ \A o \in script[c].ids : lease'[c].at[o] = ct[o].ext
      /\ \A o \in Objects : /\ cat'[o].ext = ct[o].ext
                            /\ o \in script[c].ids => cat'[o].refs = cat[o].refs + 1
                            /\ o \notin script[c].ids => cat'[o] = cat[o]
      /\ script' = script
    BY AdmitEffect, SMT DEF Whole, Admits
<1>2. script[c].ids \subseteq Objects
    BY CallFacts DEF BaseInv, SlabInv
<1>3. LeasedStable'
  <2>1. ASSUME NEW d \in Calls, lease'[d].state = "held", NEW o \in DOMAIN lease'[d].at
        PROVE  cat'[o].ext = lease'[d].at[o]
    <3>1. CASE d = c
        BY <1>1, <1>2, <3>1
    <3>2. CASE d # c
      <4>1. o \in Objects /\ cat[o].ext = lease[d].at[o] /\ Present(o)
          BY <1>1, <2>1, <3>2, HeldFacts, SMTT(30) DEF StableInv
      <4>2. ct[o] = cat[o]
          BY <4>1 DEF Admits
      <4> QED
          BY <1>1, <3>2, <4>1, <4>2
    <3> QED
        BY <3>1, <3>2
  <2> QED
      BY <2>1 DEF LeasedStable
<1>4. LeasesCounted'
  <2>1. ASSUME NEW o \in Objects PROVE cat'[o].refs = Cardinality(Holders(o)')
    <3>1. cat[o].refs = Cardinality(Holders(o))
        BY DEF StableInv, LeasesCounted, Holders
    <3>2. CASE o \in script[c].ids
      <4>1. Holders(o)' = Holders(o) \cup {c} /\ c \notin Holders(o)
        <5>1. \A d \in Calls : d \in Holders(o)' <=> d \in Holders(o) \/ d = c
            BY <1>1, <3>2 DEF Holders
        <5>2. Holders(o)' \subseteq Calls /\ Holders(o) \subseteq Calls /\ c \notin Holders(o)
            BY <1>1 DEF Holders
        <5> QED
            BY <5>1, <5>2
      <4>2. Cardinality(Holders(o) \cup {c}) = Cardinality(Holders(o)) + 1
          BY <4>1, HoldersFinite, FS_AddElement
      <4> QED
          BY <1>1, <3>1, <3>2, <4>1, <4>2
    <3>3. CASE o \notin script[c].ids
      <4>1. \A d \in Calls : d \in Holders(o)' <=> d \in Holders(o)
          BY <1>1, <3>3 DEF Holders
      <4>2. Holders(o)' = Holders(o)
          BY <4>1 DEF Holders
      <4> QED
          BY <1>1, <3>1, <3>3, <4>2
    <3> QED
        BY <3>2, <3>3
  <2> QED
      BY <2>1 DEF LeasesCounted, Holders
<1>5. ASSUME NEW d \in Calls, lease'[d].state = "held", DOMAIN lease'[d].at # script[d].ids
      PROVE  script[d].op = "restore" /\ script[d].fails
    BY <1>1, <1>5 DEF StableInv, Whole
<1> QED
    BY <1>1, <1>3, <1>4, <1>5 DEF StableInv, Whole

\* An admission records the bytes a snapshot is to hold.
LEMMA AdmitContent ==
    ASSUME StoreInv, NEW c \in Calls, NEW ct, NEW made, Admits(c, ct, made)
    PROVE  ContentInv'
<1>1. BaseInv /\ LeasedStable /\ LeasesCounted /\ ContentInv
    BY DEF StoreInv, StableInv
<1>2. UNCHANGED <<script, data, job, image>> /\ script[c].op \in Takers /\ hand.call = c
    BY DEF Admits
<1>3. /\ \A d \in Calls \cup {0} : d # c => Todo(d)' = Todo(d)
      /\ Todo(c) = {} /\ Todo(c)' = IF script[c].op = "send" THEN {} ELSE script[c].ids
      /\ Elems(jobs') \subseteq Elems(jobs) \cup {c} /\ c # job.call /\ c \notin Elems(jobs)
    BY <1>1, AdmitTodo
<1>4. /\ \A d \in Calls \ {c} : lease'[d] = lease[d]
      /\ lease'[c].state = "held" /\ lease[c].state = "none"
      /\ \A o \in Objects : /\ cat'[o].ext = ct[o].ext
                            /\ o \notin script[c].ids => cat'[o] = cat[o]
    BY <1>1, AdmitEffect, SMTT(30) DEF Whole
<1>5. image[c] = [o \in Objects |-> Uncopied]
    BY <1>1, <1>4 DEF ContentInv
<1>6. \A d \in Calls \ {c} : due'[d] = due[d]
    BY <1>1 DEF Admits, BaseInv, BytesInv
<1>7. SnapshotExact'
  <2>1. ASSUME NEW d \in Calls, NEW o \in Objects PROVE image[d][o] \in {Uncopied, due'[d][o]}
    <3>1. CASE d = c
        BY <1>5, <3>1
    <3>2. CASE d # c
        BY <1>1, <1>6, <3>2 DEF ContentInv, SnapshotExact
    <3> QED
        BY <3>1, <3>2
  <2> QED
      BY <1>2, <2>1 DEF SnapshotExact
<1>8. \A d \in Calls : lease'[d].state = "none" => image'[d] = [o \in Objects |-> Uncopied]
    BY <1>1, <1>2, <1>4 DEF ContentInv
<1>9. ASSUME script[c].op = "restore" PROVE \A d \in Calls : \A o \in Todo(d) : o \notin script[c].ids
    BY <1>1, <1>9, TodoLeased DEF Admits
<1>10. ASSUME NEW o \in Objects, Present(o)', ~Pending(o)', ~Tainted(o)'
       PROVE  data'[cat'[o].ext] = want'[o]
  <2>1. ~Pending(o) /\ ~Tainted(o)
      BY <1>2, <1>3, <1>10 DEF Pending, Tainted
  <2>2. CASE script[c].op = "restore"
    <3>1. o \notin script[c].ids
        BY <1>2, <1>3, <1>10, <2>2 DEF Pending
    <3>2. want'[o] = want[o] /\ cat'[o] = cat[o]
        BY <1>4, <2>2, <3>1 DEF Admits
    <3> QED
        BY <1>1, <1>2, <1>10, <2>1, <3>2 DEF ContentInv, Present
  <2>3. CASE script[c].op # "restore"
    <3>1. want' = want /\ made = {}
        BY <2>3 DEF Admits
    <3>2. cat'[o].ext = cat[o].ext
        BY <1>4, <3>1 DEF Admits
    <3> QED
        BY <1>1, <1>2, <1>10, <2>1, <3>1, <3>2 DEF ContentInv, Present
  <2> QED
      BY <2>2, <2>3
<1>11. ASSUME NEW d \in Calls, NEW o \in Todo(d)'
       PROVE  want'[o] = IF script[d].op = "restore" THEN d ELSE due'[d][o]
  <2>1. CASE d = c
    <3>1. o \in script[c].ids /\ o \in Objects /\ script[c].op \in {"snapshot", "restore"}
        BY <1>1, <1>2, <1>3, <1>11, <2>1, CallFacts DEF Takers, BaseInv, SlabInv
    <3>2. CASE script[c].op = "restore"
        BY <2>1, <3>1, <3>2 DEF Admits
    <3>3. CASE script[c].op = "snapshot"
      <4>1. want' = want /\ due'[c] = want
          BY <1>1, <3>3 DEF Admits, BaseInv, BytesInv
      <4> QED
          BY <2>1, <3>3, <4>1
    <3> QED
        BY <3>1, <3>2, <3>3
  <2>2. CASE d # c
    <3>1. o \in Todo(d)
        BY <1>3, <1>11, <2>2
    <3>2. o \in Objects
        BY <1>1, <3>1, TodoLeased
    <3>3. want'[o] = want[o]
        BY <1>9, <3>1, <3>2 DEF Admits
    <3> QED
        BY <1>1, <1>6, <2>2, <3>1, <3>3, SMTT(30) DEF ContentInv
  <2> QED
      BY <2>1, <2>2
<1>12. job.call \in Calls \cup {0} /\ jobs \in Seq(Calls) /\ Todo(0) = {}
  <2>1. job.call \in Calls \cup {0} /\ jobs \in Seq(Calls)
      BY <1>1 DEF BaseInv, JobInv
  <2>2. 0 \notin Elems(jobs)
      BY <2>1, ElemsCalls
  <2> QED
      BY <1>1, <2>1, <2>2 DEF Todo, BaseInv, JobInv
<1>13. ASSUME NEW r \in Elems(jobs'), script[r].op = "restore" PROVE Todo(job.call) \cap script[r].ids = {}
  <2>1. CASE r \in Elems(jobs)
      BY <1>1, <1>13, <2>1 DEF ContentInv
  <2>2. CASE r = c
      BY <1>9, <1>12, <1>13, <2>2
  <2> QED
      BY <1>3, <2>1, <2>2
<1>14. ASSUME NEW i \in 1 .. Len(jobs'), NEW j \in 1 .. Len(jobs'), i < j, script[jobs'[j]].op = "restore"
       PROVE  script[jobs'[i]].ids \cap script[jobs'[j]].ids = {}
  <2>1. CASE UNCHANGED jobs
      BY <1>1, <1>14, <2>1 DEF ContentInv
  <2>2. CASE jobs' = Append(jobs, c)
    <3>1. /\ Len(jobs) \in Nat /\ Len(jobs') = Len(jobs) + 1 /\ jobs'[Len(jobs) + 1] = c
          /\ \A k \in 1 .. Len(jobs) : jobs'[k] = jobs[k]
        BY <1>12, <2>2, SMTT(30)
    <3>2. i \in 1 .. Len(jobs) /\ (j \in 1 .. Len(jobs) \/ j = Len(jobs) + 1)
        BY <1>14, <3>1, SMTT(30)
    <3>3. CASE j \in 1 .. Len(jobs)
        BY <1>1, <1>14, <3>1, <3>2, <3>3, SMTT(30) DEF ContentInv
    <3>4. CASE j = Len(jobs) + 1
      <4>1. jobs'[j] = c /\ jobs'[i] = jobs[i] /\ jobs[i] \in Elems(jobs) /\ jobs[i] \in Calls
          BY <1>12, <3>1, <3>2, <3>4, SMTT(30) DEF Elems
      <4>2. Todo(jobs[i]) = script[jobs[i]].ids
          BY <1>1, <4>1 DEF Todo, BaseInv, JobInv
      <4> QED
          BY <1>9, <1>14, <4>1, <4>2
    <3> QED
        BY <3>2, <3>3, <3>4
  <2> QED
      BY <2>1, <2>2 DEF Admits
<1>15. Todo(job.call)' = Todo(job.call)
    BY <1>2, <1>3, <1>12
<1> QED
    BY <1>2, <1>7, <1>8, <1>10, <1>11, <1>13, <1>14, <1>15 DEF ContentInv

-----------------------------------------------------------------------------
(***************************************************************************)
(* What is leased stays where it is.                                       *)
(***************************************************************************)
\* A step after which the leases, the references and the places of the
\* records are what they were.
LEMMA LeasesSame ==
    ASSUME StableInv, UNCHANGED <<script, lease>>,
           \A c \in Calls : lease[c].state = "held" => DOMAIN lease[c].at \subseteq Objects,
           \A o \in Objects : cat'[o].ext = cat[o].ext /\ cat'[o].refs = cat[o].refs
    PROVE  StableInv'
<1>1. LeasedStable'
    BY DEF StableInv, LeasedStable
<1>2. LeasesCounted'
    BY DEF StableInv, LeasesCounted
<1> QED
    BY <1>1, <1>2 DEF StableInv, Whole

\* Leases are on objects.
LEMMA LeasedObjects ==
    ASSUME BaseInv
    PROVE  \A c \in Calls : lease[c].state = "held" => DOMAIN lease[c].at \subseteq Objects
<1>1. ASSUME NEW c \in Calls, lease[c].state = "held" PROVE DOMAIN lease[c].at \subseteq script[c].ids
    BY <1>1 DEF BaseInv, LeaseInv, Whole
<1>2. \A c \in Calls : script[c].ids \subseteq Objects
    BY CallFacts DEF BaseInv, SlabInv
<1> QED
    BY <1>1, <1>2

\* The restore whose job fails may fail, and nobody else leases what it made.
LEMMA FailsAlone ==
    ASSUME BaseInv, StableInv, LeasesApart, FailJob
    PROVE  /\ script[job.call].fails
           /\ lease[job.call].made # {} => script[job.call].op = "restore"
           /\ \A d \in Calls \ {job.call} : lease[d].state = "held" =>
                 DOMAIN lease[d].at \cap lease[job.call].made = {}
<1>1. /\ job.phase = "work" /\ job.call \in Calls /\ lease[job.call].made \subseteq script[job.call].ids
      /\ lease[job.call].made # {} => script[job.call].op = "restore"
    BY FailEffect
<1>2. script[job.call].fails
  <2>1. ASSUME job.todo # {} PROVE Present(NextTodo)
    <3>1. NextTodo \in Todo(job.call)
        BY <1>1, <2>1, JobFacts
    <3> QED
        BY <1>1, <3>1, TodoLeased DEF StableInv
  <2> QED
      BY <2>1 DEF FailJob
<1>3. ASSUME NEW d \in Calls \ {job.call}, lease[d].state = "held"
      PROVE  DOMAIN lease[d].at \cap lease[job.call].made = {}
  <2>1. script[d].op \in Takers /\ DOMAIN lease[d].at \subseteq script[d].ids
      BY <1>3 DEF BaseInv, LeaseInv, Whole
  <2>2. ASSUME lease[job.call].made # {} PROVE script[d].ids \cap script[job.call].ids = {}
      BY <1>1, <1>2, <2>1, <2>2 DEF LeasesApart, BaseInv, SlabInv
  <2> QED
      BY <1>1, <2>1, <2>2
<1> QED
    BY <1>1, <1>2, <1>3

\* A job fails.
LEMMA FailJobStable ==
    ASSUME BaseInv, StableInv, LeasesApart, FailJob, UNCHANGED script
    PROVE  StableInv'
<1> DEFINE c == job.call
           made == lease[c].made
<1>1. /\ c \in Calls /\ made \subseteq script[c].ids /\ made \subseteq Objects
      /\ \A o \in made : cat'[o].ext = NoExtent /\ cat'[o].refs = 0
      /\ \A o \in Objects \ made : cat'[o] = cat[o]
      /\ \A d \in Calls \ {c} : lease'[d] = lease[d]
      /\ lease'[c].state = "held" /\ DOMAIN lease'[c].at = script[c].ids \ made
      /\ \A o \in script[c].ids \ made : lease'[c].at[o] = lease[c].at[o]
    BY FailEffect
<1>2. /\ script[c].fails /\ (made # {} => script[c].op = "restore")
      /\ \A d \in Calls \ {c} : lease[d].state = "held" => DOMAIN lease[d].at \cap made = {}
    BY FailsAlone
<1>3. lease[c].state = "held" /\ DOMAIN lease[c].at = script[c].ids /\ script[c].ids \subseteq Objects
    BY <1>1, JobFacts, CallFacts DEF FailJob, Whole, BaseInv, SlabInv
<1> HIDE DEF c, made
<1>4. LeasedStable'
  <2>1. ASSUME NEW d \in Calls, lease'[d].state = "held", NEW o \in DOMAIN lease'[d].at
        PROVE  cat'[o].ext = lease'[d].at[o]
    <3>1. CASE d = c
      <4>1. o \in script[c].ids \ made /\ o \in DOMAIN lease[c].at /\ o \in Objects
          BY <1>1, <1>3, <2>1, <3>1
      <4>2. cat[o].ext = lease[c].at[o]
          BY <1>1, <1>3, <4>1 DEF StableInv, LeasedStable
      <4> QED
          BY <1>1, <3>1, <4>1, <4>2
    <3>2. CASE d # c
      <4>1. lease'[d] = lease[d] /\ lease[d].state = "held" /\ o \in DOMAIN lease[d].at
          BY <1>1, <2>1, <3>2
      <4>2. o \in Objects \ made
          BY <1>2, <3>2, <4>1, LeasedObjects
      <4> QED
          BY <1>1, <4>1, <4>2, SMT DEF StableInv, LeasedStable
    <3> QED
        BY <3>1, <3>2
  <2> QED
      BY <2>1 DEF LeasedStable
<1>5. LeasesCounted'
  <2>1. ASSUME NEW o \in Objects PROVE cat'[o].refs = Cardinality(Holders(o)')
    <3>1. CASE o \in made
      <4>1. ASSUME NEW d \in Calls PROVE d \notin Holders(o)'
          BY <1>1, <1>2, <3>1 DEF Holders
      <4>2. Holders(o)' = {}
          BY <4>1 DEF Holders
      <4> QED
          BY <1>1, <3>1, <4>2, FS_EmptySet
    <3>2. CASE o \notin made
      <4>1. \A d \in Calls : d \in Holders(o)' <=> d \in Holders(o)
          BY <1>1, <1>3, <3>2 DEF Holders
      <4>2. Holders(o)' = Holders(o)
          BY <4>1 DEF Holders
      <4>3. cat[o].refs = Cardinality(Holders(o))
          BY DEF StableInv, LeasesCounted, Holders
      <4> QED
          BY <1>1, <3>2, <4>2, <4>3
    <3> QED
        BY <3>1, <3>2
  <2> QED
      BY <2>1 DEF LeasesCounted, Holders
<1>6. ASSUME NEW d \in Calls, lease'[d].state = "held", DOMAIN lease'[d].at # script[d].ids
      PROVE  script[d].op = "restore" /\ script[d].fails
    BY <1>1, <1>2, <1>6 DEF StableInv, Whole
<1> QED
    BY <1>4, <1>5, <1>6 DEF StableInv, Whole

\* release_leases goes by the ids of the call: those whose records its failure
\* has taken away have no references left to take.
LEMMA ReleaseLeasesStable ==
    ASSUME BaseInv, StableInv, LeasesApart, NEW c \in Calls, ReleaseLeases(c), UNCHANGED script
    PROVE  StableInv'
<1>1. /\ lease[c].state = "held"
      /\ \A d \in Calls \ {c} : lease'[d] = lease[d]
      /\ lease'[c].state = "released"
      /\ \A o \in Objects :
            /\ cat'[o].ext = cat[o].ext
            /\ cat'[o].refs = IF o \in script[c].ids /\ cat[o].refs > 0
                              THEN cat[o].refs - 1 ELSE cat[o].refs
    BY ReleaseEffect
<1>2. \A d \in Calls : lease'[d].state = "held" => lease'[d] = lease[d]
    BY <1>1
<1>3. LeasedStable'
    BY <1>1, <1>2, LeasedObjects, SMTT(30) DEF StableInv, LeasedStable
<1>4. LeasesCounted'
  <2>1. ASSUME NEW o \in Objects PROVE cat'[o].refs = Cardinality(Holders(o)')
    <3>1. cat[o].refs = Cardinality(Holders(o)) /\ IsFiniteSet(Holders(o)) /\ Cardinality(Holders(o)) \in Nat
        BY HoldersFinite DEF StableInv, LeasesCounted, Holders
    <3>2. Holders(o)' = Holders(o) \ {c}
      <4>1. \A d \in Calls : d \in Holders(o)' <=> d \in Holders(o) /\ d # c
          BY <1>1 DEF Holders
      <4> QED
          BY <4>1 DEF Holders
    <3>3. CASE c \in Holders(o)
      <4>1. Cardinality(Holders(o) \ {c}) = Cardinality(Holders(o)) - 1
          BY <3>1, <3>3, FS_RemoveElement
      <4>2. o \in script[c].ids /\ cat[o].refs > 0
          BY <3>3, HeldFacts DEF StableInv, Holders, IsLeased
      <4> QED
          BY <1>1, <3>1, <3>2, <4>1, <4>2
    <3>4. CASE c \notin Holders(o)
      <4>1. Holders(o)' = Holders(o)
          BY <3>2, <3>4
      <4>2. ASSUME o \in script[c].ids PROVE Holders(o) = {}
        <5>1. o \notin DOMAIN lease[c].at
            BY <1>1, <3>4 DEF Holders
        <5>2. script[c].op = "restore" /\ script[c].fails
            BY <1>1, <4>2, <5>1 DEF StableInv, Whole
        <5>3. ASSUME NEW d \in Holders(o) PROVE FALSE
          <6>1. d \in Calls /\ d # c /\ lease[d].state = "held" /\ o \in DOMAIN lease[d].at
              BY <3>4, <5>3 DEF Holders
          <6>2. script[d].op \in Takers /\ o \in script[d].ids
              BY <6>1 DEF BaseInv, LeaseInv, Whole
          <6> QED
              BY <4>2, <5>2, <6>1, <6>2 DEF LeasesApart, BaseInv, SlabInv
        <5> QED
            BY <5>3
      <4>3. o \in script[c].ids => cat[o].refs = 0
          BY <3>1, <4>2, FS_EmptySet
      <4> QED
          BY <1>1, <3>1, <4>1, <4>3, SMTT(30)
    <3> QED
        BY <3>3, <3>4
  <2> QED
      BY <2>1 DEF LeasesCounted, Holders
<1> QED
    BY <1>2, <1>3, <1>4 DEF StableInv, Whole

\* The leases are kept by every step.
LEMMA StableNext ==
    ASSUME BaseInv, StableInv, LeasesApart, [Next]_vars
    PROVE  StableInv'
<1>1. ASSUME UNCHANGED <<script, lease, cat>> PROVE StableInv'
    BY <1>1, LeasesSame, LeasedObjects
<1>2. ASSUME Payload, script' = script PROVE StableInv'
  <2>1. CASE TakeJob \/ CopyObject \/ PlaceObject
      BY <1>1, <1>2, <2>1 DEF TakeJob, CopyObject, PlaceObject, store
  <2>2. CASE FinishJob
    <3>1. lease' = lease
        BY <2>2 DEF FinishJob
    <3> QED
        BY <1>2, <2>2, <3>1, FinishEffect, LeasesSame, LeasedObjects
  <2>3. CASE FailJob
      BY <1>2, <2>3, FailJobStable
  <2> QED
      BY <1>2, <2>1, <2>2, <2>3 DEF Payload
<1>3. ASSUME NEW c \in Calls, UnparkAll(c), script' = script PROVE StableInv'
  <2>1. /\ lease[c].state = "released" /\ lease'[c].state = "done" /\ cat' = cat
        /\ \A d \in Calls \ {c} : lease'[d] = lease[d]
      BY <1>3, UnparkEffect DEF UnparkAll, store
  <2>2. \A d \in Calls : lease'[d].state = "held" => lease'[d] = lease[d]
      BY <2>1
  <2>3. LeasedStable'
      BY <2>1, <2>2, SMTT(30) DEF StableInv, LeasedStable
  <2>4. LeasesCounted'
    <3>1. ASSUME NEW o \in Objects PROVE Holders(o)' = Holders(o)
      <4>1. \A d \in Calls : d \in Holders(o)' <=> d \in Holders(o)
          BY <2>1 DEF Holders
      <4> QED
          BY <4>1 DEF Holders
    <3> QED
        BY <2>1, <3>1 DEF StableInv, LeasesCounted, Holders
  <2> QED
      BY <1>3, <2>2, <2>3, <2>4 DEF StableInv, Whole
<1>4. ASSUME NEW c \in Calls, ReleaseLeases(c), script' = script PROVE StableInv'
    BY <1>4, ReleaseLeasesStable
<1>5. CASE Next
  <2>1. CASE Plain
      BY <2>1, PlainStable
  <2>2. ASSUME NEW c \in Calls, NEW ct, NEW made, Admits(c, ct, made) PROVE StableInv'
      BY <2>2, AdmitStable
  <2> QED
      BY <1>2, <1>3, <1>4, <1>5, <2>1, <2>2, Steps
<1>6. CASE UNCHANGED vars
    BY <1>1, <1>6 DEF vars
<1> QED
    BY <1>5, <1>6

\* At first nothing is leased.
LEMMA StableInit ==
    ASSUME Init
    PROVE  StableInv
<1>1. \A c \in Calls : lease[c].state = "none"
    BY DEF Init, NoLease
<1>2. \A o \in Objects : cat[o].refs = 0
    BY DEF Init, Absent
<1>3. ASSUME NEW o \in Objects PROVE Cardinality(Holders(o)) = 0
  <2>1. Holders(o) = {}
      BY <1>1 DEF Holders
  <2> QED
      BY <2>1, FS_EmptySet
<1> QED
    BY <1>1, <1>2, <1>3 DEF StableInv, LeasedStable, LeasesCounted, Holders

\* "extents are stable while leased" (handlers_snapshot.py:16), if nothing
\* else leases what a restore that may fail is to write.
THEOREM LeasesHold ==
    ASSUME LeasesApart
    PROVE  Spec => []LeasedStable
<1>1. Init => BaseInv /\ StableInv
    BY BaseInit, StableInit
<1>2. BaseInv /\ StableInv /\ [Next]_vars => (BaseInv /\ StableInv)'
    BY BaseNext, StableNext
<1>3. StableInv => LeasedStable
    BY DEF StableInv
<1> QED
    BY <1>1, <1>2, <1>3, PTL DEF Spec

-----------------------------------------------------------------------------
(***************************************************************************)
(* Snapshots hold the bytes they were asked for.                           *)
(***************************************************************************)
\* A step of the payload thread, or of a release, after which no job has more
\* to do than before.
LEMMA QuietContent ==
    ASSUME StoreInv, UNCHANGED <<script, jobs, want, due>>, SnapshotExact',
           \A c \in Calls : lease'[c].state = "none" => image'[c] = [o \in Objects |-> Uncopied],
           \A c \in Calls : Todo(c)' \subseteq Todo(c), Todo(job.call)' \subseteq Todo(job.call),
           \A o \in Objects : Present(o)' /\ ~Pending(o)' /\ ~Tainted(o) => data'[cat'[o].ext] = want[o]
    PROVE  ContentInv'
<1>1. ContentInv
    BY DEF StoreInv
<1>2. \A o : Tainted(o)' = Tainted(o)
    BY DEF Tainted
<1>3. \A c \in Calls : \A o \in Todo(c)' :
          want'[o] = IF script'[c].op = "restore" THEN c ELSE due'[c][o]
    BY <1>1 DEF ContentInv
<1>4. \A r \in Elems(jobs') : script'[r].op = "restore" => Todo(job.call)' \cap script'[r].ids = {}
    BY <1>1 DEF ContentInv
<1>5. \A i, j \in 1 .. Len(jobs') : i < j /\ script'[jobs'[j]].op = "restore" =>
          script'[jobs'[i]].ids \cap script'[jobs'[j]].ids = {}
    BY <1>1 DEF ContentInv
<1> QED
    BY <1>2, <1>3, <1>4, <1>5 DEF ContentInv

\* ... where the bytes of what is there are those of before.
LEMMA BytesSame ==
    ASSUME StoreInv, UNCHANGED data,
           NEW o \in Objects, Present(o)', ~Tainted(o), cat'[o].ext = cat[o].ext, ~Pending(o)
    PROVE  data'[cat'[o].ext] = want[o]
BY DEF StoreInv, ContentInv, Present

\* An object is copied: no restore of it is under way or queued before.
LEMMA CopyObjectContent ==
    ASSUME StoreInv, LeasesApart, CopyObject, UNCHANGED script
    PROVE  ContentInv'
<1> DEFINE c == job.call
           n == NextTodo
<1>1. /\ job.phase = "work" /\ job.todo # {} /\ Present(n) /\ script[c].op = "snapshot"
      /\ image' = [image EXCEPT ![c][n] = data[cat[n].ext]]
      /\ UNCHANGED <<script, cat, data, lease, jobs, want, due>>
    BY DEF CopyObject, Works, store, queues
<1>2. BaseInv /\ LeasedStable /\ LeasesCounted /\ ContentInv
    BY DEF StoreInv, StableInv
<1>3. /\ c \in Calls /\ Whole(c) /\ Todo(c) = job.todo /\ n \in job.todo /\ n \in Objects
      /\ n \in script[c].ids /\ c \notin Elems(jobs)
    BY <1>1, <1>2, JobFacts
<1>4. job'.call = c /\ job'.phase = "work" /\ job'.todo = job.todo \ {n}
    BY <1>1, <1>2 DEF CopyObject, BaseInv, JobInv
<1>5. data[cat[n].ext] = due[c][n]
  <2>1. want[n] = due[c][n]
      BY <1>1, <1>2, <1>3, SMTT(30) DEF ContentInv
  <2>2. ~Pending(n)
    <3>1. ASSUME NEW r \in Calls, script[r].op = "restore", n \in Todo(r) PROVE FALSE
      <4>1. r # c
          BY <1>1, <3>1
      <4>2. r \in Elems(jobs) /\ n \in script[r].ids
          BY <3>1, <4>1 DEF Todo
      <4> QED
          BY <1>2, <1>3, <3>1, <4>2 DEF ContentInv
    <3> QED
        BY <3>1 DEF Pending
  <2>3. ~Tainted(n)
    <3>1. script \in Scripts
        BY <1>2 DEF BaseInv, SlabInv
    <3>2. ASSUME NEW r \in Calls, script[r].op = "restore", script[r].fails, n \in script[r].ids PROVE FALSE
        BY <1>1, <1>3, <3>1, <3>2 DEF LeasesApart, Takers
    <3> QED
        BY <3>2 DEF Tainted
  <2> QED
      BY <1>1, <1>2, <1>3, <2>1, <2>2, <2>3 DEF ContentInv
<1>6. image \in [Calls -> [Objects -> Nat]]
    BY <1>2 DEF BaseInv, BytesInv
<1> HIDE DEF c, n
<1>7. /\ image'[c][n] = due[c][n] /\ \A o \in Objects \ {n} : image'[c][o] = image[c][o]
      /\ \A d \in Calls \ {c} : image'[d] = image[d]
    BY <1>1, <1>3, <1>5, <1>6
<1>8. SnapshotExact'
    BY <1>1, <1>2, <1>3, <1>7, SMTT(30) DEF ContentInv, SnapshotExact
<1>9. \A d \in Calls : lease'[d].state = "none" => image'[d] = [o \in Objects |-> Uncopied]
    BY <1>1, <1>2, <1>3, <1>7, SMTT(30) DEF ContentInv, Whole
<1>10. Todo(c)' = job.todo \ {n} /\ \A d \in Calls \ {c} : Todo(d)' = Todo(d)
    BY <1>1, <1>4 DEF Todo, c
<1>11. Todo(job.call)' \subseteq Todo(job.call)
    BY <1>3, <1>4, <1>10 DEF c
<1>12. ASSUME NEW o \in Objects, Present(o)', ~Pending(o)', ~Tainted(o) PROVE data'[cat'[o].ext] = want[o]
  <2>1. ~Pending(o)
      BY <1>1, <1>10, <1>12 DEF Pending
  <2> QED
      BY <1>1, <1>12, <2>1, BytesSame
<1>13. ASSUME NEW d \in Calls PROVE Todo(d)' \subseteq Todo(d)
  <2>1. CASE d = c
      BY <1>1, <1>4, <2>1 DEF Todo, c
  <2>2. CASE d # c
      BY <1>10, <2>2
  <2> QED
      BY <2>1, <2>2
<1> QED
    BY <1>1, <1>8, <1>9, <1>11, <1>12, <1>13, QuietContent

\* An object is placed: it has then the bytes it is wanted to have.
LEMMA PlaceObjectContent ==
    ASSUME StoreInv, PlaceObject, UNCHANGED script
    PROVE  ContentInv'
<1> DEFINE c == job.call
           n == NextTodo
<1>1. /\ job.phase = "work" /\ job.todo # {} /\ Present(n) /\ script[c].op = "restore"
      /\ data' = [data EXCEPT ![cat[n].ext] = c]
      /\ UNCHANGED <<script, cat, image, lease, jobs, want, due>>
    BY DEF PlaceObject, Works, queues
<1>2. BaseInv /\ LeasedStable /\ LeasesCounted /\ ContentInv /\ Divides(cat, free)
    BY DEF StoreInv, StableInv, BaseInv, SlabInv
<1>3. /\ c \in Calls /\ Todo(c) = job.todo /\ n \in job.todo /\ n \in Objects
    BY <1>1, <1>2, JobFacts
<1>4. job'.call = c /\ job'.phase = "work" /\ job'.todo = job.todo \ {n}
    BY <1>1, <1>2 DEF PlaceObject, BaseInv, JobInv
<1>5. want[n] = c
    BY <1>1, <1>2, <1>3, SMTT(30) DEF ContentInv
<1>6. data \in [Extents -> Nat] /\ cat[n].ext \in Extents
    BY <1>1, <1>2, <1>3, LeasedPresent DEF BaseInv, BytesInv, Present
<1> HIDE DEF c, n
<1>7. data'[cat[n].ext] = c /\ \A e \in Extents \ {cat[n].ext} : data'[e] = data[e]
    BY <1>1, <1>6
<1>8. SnapshotExact' /\ \A d \in Calls : lease'[d].state = "none" => image'[d] = [o \in Objects |-> Uncopied]
    BY <1>1, <1>2 DEF ContentInv, SnapshotExact
<1>9. Todo(c)' = job.todo \ {n} /\ \A d \in Calls \ {c} : Todo(d)' = Todo(d)
    BY <1>1, <1>4 DEF Todo, c
<1>10. Todo(job.call)' \subseteq Todo(job.call) /\ \A d \in Calls : Todo(d)' \subseteq Todo(d)
    BY <1>3, <1>4, <1>9 DEF c
<1>11. ASSUME NEW o \in Objects, Present(o)', ~Pending(o)', ~Tainted(o) PROVE data'[cat'[o].ext] = want[o]
  <2>1. CASE o = n
      BY <1>1, <1>5, <1>7, <2>1
  <2>2. CASE o # n
    <3>1. ~Pending(o)
      <4>1. ASSUME NEW r \in Calls, o \in Todo(r) PROVE o \in Todo(r)'
        <5>1. CASE r = c
            BY <1>1, <1>4, <2>2, <4>1, <5>1 DEF Todo, c
        <5>2. CASE r # c
            BY <1>9, <4>1, <5>2
        <5> QED
            BY <5>1, <5>2
      <4> QED
          BY <1>1, <1>11, <4>1 DEF Pending
    <3>2. cat[o].ext # cat[n].ext /\ cat[o].ext \in Extents
        BY <1>1, <1>2, <1>3, <1>11, <2>2, LeasedPresent DEF Divides, Present
    <3>3. data[cat[o].ext] = want[o]
        BY <1>1, <1>2, <1>11, <3>1 DEF ContentInv, Present
    <3> QED
        BY <1>1, <1>7, <3>2, <3>3
  <2> QED
      BY <2>1, <2>2
<1> QED
    BY <1>1, <1>8, <1>10, <1>11, QuietContent

\* A job is over, or has failed: a restore that fails taints its objects.
LEMMA JobEndContent ==
    ASSUME StoreInv, LeasesApart, FinishJob \/ FailJob, UNCHANGED script
    PROVE  ContentInv'
<1> DEFINE c == job.call
<1>1. /\ job.phase = "work" /\ UNCHANGED <<script, data, image, jobs, want, due>>
    BY DEF FinishJob, FailJob, queues
<1>2. BaseInv /\ StableInv /\ LeasedStable /\ LeasesCounted /\ ContentInv /\ Divides(cat, free)
    BY DEF StoreInv, StableInv, BaseInv, SlabInv
<1>3. /\ c \in Calls /\ Todo(c) = job.todo /\ Whole(c) /\ job.todo \subseteq script[c].ids
    BY <1>1, <1>2, JobFacts
<1>4. job'.call = c /\ job'.phase = "release"
    BY <1>1, <1>2 DEF FinishJob, FailJob, BaseInv, JobInv
<1>5. /\ \A d \in Calls : lease'[d].state = lease[d].state
      /\ \A o \in Objects : cat'[o].ext \in {cat[o].ext, NoExtent}
      /\ job.todo = {} \/ script[c].fails
  <2>1. CASE FinishJob
      BY <1>2, <2>1, FinishEffect DEF FinishJob
  <2>2. CASE FailJob
    <3>1. /\ \A d \in Calls : lease'[d].state = lease[d].state
          /\ \A o \in Objects : cat'[o].ext \in {cat[o].ext, NoExtent}
        BY <1>2, <1>3, <2>2, FailEffect, SMTT(30) DEF Whole
    <3> QED
        BY <1>2, <2>2, <3>1, FailsAlone
  <2> QED
      BY <2>1, <2>2
<1> HIDE DEF c
<1>6. SnapshotExact' /\ \A d \in Calls : lease'[d].state = "none" => image'[d] = [o \in Objects |-> Uncopied]
    BY <1>1, <1>2, <1>5 DEF ContentInv, SnapshotExact
<1>7. Todo(c)' = {} /\ \A d \in Calls \ {c} : Todo(d)' = Todo(d)
    BY <1>1, <1>4 DEF Todo, c
<1>8. Todo(job.call)' \subseteq Todo(job.call) /\ \A d \in Calls : Todo(d)' \subseteq Todo(d)
    BY <1>3, <1>4, <1>7 DEF c
<1>9. ASSUME NEW o \in Objects, Present(o)', ~Pending(o)', ~Tainted(o) PROVE data'[cat'[o].ext] = want[o]
  <2>1. ~Pending(o)
    <3>1. ASSUME NEW r \in Calls, script[r].op = "restore", o \in Todo(r) PROVE FALSE
      <4>1. CASE r = c
          BY <1>3, <1>5, <1>9, <3>1, <4>1 DEF Tainted
      <4>2. CASE r # c
          BY <1>1, <1>7, <1>9, <3>1, <4>2 DEF Pending
      <4> QED
          BY <4>1, <4>2
    <3> QED
        BY <3>1 DEF Pending
  <2>2. cat'[o].ext = cat[o].ext
      BY <1>5, <1>9 DEF Present
  <2> QED
      BY <1>1, <1>9, <2>1, <2>2, BytesSame
<1> QED
    BY <1>1, <1>6, <1>8, <1>9, QuietContent

\* Leases are released, or parked calls queued again.
LEMMA ReleaseContent ==
    ASSUME StoreInv, NEW c \in Calls, ReleaseLeases(c) \/ UnparkAll(c), UNCHANGED script
    PROVE  ContentInv'
<1>1. UNCHANGED <<script, data, image, jobs, want, due>>
    BY DEF ReleaseLeases, UnparkAll, queues, store
<1>2. BaseInv /\ ContentInv
    BY DEF StoreInv
<1>3. /\ \A d \in Calls : lease'[d].state = "none" => lease[d].state = "none"
      /\ \A o \in Objects : cat'[o].ext = cat[o].ext
      /\ job' = job \/ (job' = Nowhere /\ c = job.call /\ job.phase = "release" /\ c \notin Elems(jobs))
  <2>1. CASE ReleaseLeases(c)
      BY <1>2, <2>1, ReleaseEffect DEF ReleaseLeases
  <2>2. CASE UnparkAll(c)
      BY <1>2, <2>2, UnparkEffect DEF UnparkAll, store
  <2> QED
      BY <2>1, <2>2
<1>4. SnapshotExact' /\ \A d \in Calls : lease'[d].state = "none" => image'[d] = [o \in Objects |-> Uncopied]
    BY <1>1, <1>2, <1>3 DEF ContentInv, SnapshotExact
<1>5. (\A d \in Calls : Todo(d)' = Todo(d)) /\ Todo(job.call)' \subseteq Todo(job.call)
  <2>1. CASE job' = job
      BY <1>1, <2>1 DEF Todo
  <2>2. CASE job' = Nowhere /\ c = job.call /\ job.phase = "release" /\ c \notin Elems(jobs)
    <3>1. 0 \notin Calls
        BY SMT DEF Calls
    <3>2. job'.call = 0 /\ job'.phase = "idle"
        BY <2>2 DEF Nowhere
    <3>3. \A d \in Calls : Todo(d)' = Todo(d)
        BY <1>1, <2>2, <3>1, <3>2 DEF Todo
    <3>4. Todo(job.call)' = {}
        BY <3>2 DEF Todo
    <3> QED
        BY <3>3, <3>4
  <2> QED
      BY <1>3, <2>1, <2>2
<1>6. ASSUME NEW o \in Objects, Present(o)', ~Pending(o)', ~Tainted(o) PROVE data'[cat'[o].ext] = want[o]
  <2>1. ~Pending(o)
      BY <1>1, <1>5, <1>6 DEF Pending
  <2> QED
      BY <1>1, <1>3, <1>6, <2>1, BytesSame
<1>7. \A d \in Calls : Todo(d)' \subseteq Todo(d)
    BY <1>5
<1> QED
    BY <1>1, <1>4, <1>5, <1>6, <1>7, QuietContent

\* The next job is taken: what it has to do no later restore may write.
LEMMA TakeJobContent ==
    ASSUME StoreInv, TakeJob, UNCHANGED script
    PROVE  ContentInv'
<1> DEFINE h == Head(jobs)
<1>1. /\ jobs # <<>> /\ job = Nowhere /\ jobs' = Tail(jobs)
      /\ job' = [call |-> h, phase |-> "work", todo |-> script[h].ids]
      /\ UNCHANGED <<script, cat, data, lease, image, want, due>>
    BY DEF TakeJob, store
<1>2. BaseInv /\ ContentInv /\ jobs \in Seq(Calls) /\ Distinct(jobs)
    BY DEF StoreInv, BaseInv, JobInv
<1>3. /\ h \in Calls /\ h \in Elems(jobs) /\ Elems(jobs') \subseteq Elems(jobs) /\ h \notin Elems(jobs')
    BY <1>1, <1>2, TailFacts
<1>4. /\ Len(jobs) \in Nat \ {0} /\ Len(jobs') = Len(jobs) - 1 /\ jobs[1] = h
      /\ \A i \in 1 .. Len(jobs') : jobs'[i] = jobs[i + 1] /\ i + 1 \in 1 .. Len(jobs) /\ 1 < i + 1
    BY <1>1, <1>2, SMTT(30)
<1>5. job.call = 0 /\ job'.call = h /\ job'.phase = "work" /\ job'.todo = script[h].ids /\ 0 \notin Calls
    BY <1>1, SMTT(30) DEF Nowhere, Calls
<1> HIDE DEF h
<1>6. \A d \in Calls \ {h} : d \in Elems(jobs') <=> d \in Elems(jobs)
  <2>1. ASSUME NEW d \in Elems(jobs), d # h PROVE d \in Elems(jobs')
    <3>1. PICK i \in 1 .. Len(jobs) : d = jobs[i]
        BY <2>1 DEF Elems
    <3>2. i # 1 /\ i - 1 \in 1 .. Len(jobs')
        BY <1>4, <2>1, <3>1, SMTT(30)
    <3>3. jobs'[i - 1] = jobs[(i - 1) + 1] /\ (i - 1) + 1 = i
        BY <1>4, <3>1, <3>2, SMTT(30)
    <3> QED
        BY <3>1, <3>2, <3>3 DEF Elems
  <2> QED
      BY <1>3, <2>1
<1>7. ASSUME NEW d \in Calls PROVE Todo(d)' = Todo(d)
  <2>1. CASE d = h
      BY <1>1, <1>3, <1>5, <2>1 DEF Todo
  <2>2. CASE d # h
      BY <1>1, <1>5, <1>6, <2>2 DEF Todo
  <2> QED
      BY <2>1, <2>2
<1>8. \A o : Pending(o)' = Pending(o) /\ Tainted(o)' = Tainted(o)
    BY <1>1, <1>7 DEF Pending, Tainted
<1>9. /\ SnapshotExact'
      /\ \A d \in Calls : lease'[d].state = "none" => image'[d] = [o \in Objects |-> Uncopied]
    BY <1>1, <1>2 DEF ContentInv, SnapshotExact
<1>10. \A o \in Objects : Present(o)' /\ ~Pending(o)' /\ ~Tainted(o)' => data'[cat'[o].ext] = want'[o]
    BY <1>1, <1>2, <1>8 DEF ContentInv, Present
<1>11. \A d \in Calls : \A o \in Todo(d)' :
          want'[o] = IF script'[d].op = "restore" THEN d ELSE due'[d][o]
    BY <1>1, <1>2, <1>7, SMTT(30) DEF ContentInv
<1>12. \A i, j \in 1 .. Len(jobs) : i < j /\ script[jobs[j]].op = "restore" =>
          script[jobs[i]].ids \cap script[jobs[j]].ids = {}
    BY <1>2 DEF ContentInv
<1>13. ASSUME NEW r \in Elems(jobs'), script[r].op = "restore" PROVE script[h].ids \cap script[r].ids = {}
  <2>1. PICK i \in 1 .. Len(jobs') : r = jobs'[i]
      BY <1>13 DEF Elems
  <2>2. r = jobs[i + 1] /\ i + 1 \in 1 .. Len(jobs) /\ 1 < i + 1 /\ 1 \in 1 .. Len(jobs)
      BY <1>4, <2>1, SMTT(30)
  <2> QED
      BY <1>4, <1>12, <1>13, <2>2
<1>14. ASSUME NEW i \in 1 .. Len(jobs'), NEW j \in 1 .. Len(jobs'), i < j, script[jobs'[j]].op = "restore"
       PROVE  script[jobs'[i]].ids \cap script[jobs'[j]].ids = {}
  <2>1. /\ jobs'[i] = jobs[i + 1] /\ jobs'[j] = jobs[j + 1]
        /\ i + 1 \in 1 .. Len(jobs) /\ j + 1 \in 1 .. Len(jobs) /\ i + 1 < j + 1
      BY <1>4, <1>14, SMTT(30)
  <2> QED
      BY <1>12, <1>14, <2>1
<1>15. Todo(job.call)' = script[h].ids
    BY <1>5 DEF Todo
<1>16. \A r \in Elems(jobs') : script'[r].op = "restore" => Todo(job.call)' \cap script'[r].ids = {}
    BY <1>1, <1>13, <1>15
<1> QED
    BY <1>1, <1>9, <1>10, <1>11, <1>14, <1>16, SMTT(30) DEF ContentInv

\* At first nothing has been asked for.
LEMMA ContentInit ==
    ASSUME Init
    PROVE  ContentInv
<1>1. \A o \in Objects : ~Present(o)
    BY DEF Init, Absent, Present
<1>2. image = [c \in Calls |-> [o \in Objects |-> Uncopied]]
    BY DEF Init
<1>3. jobs = <<>> /\ Len(jobs) = 0 /\ Elems(jobs) = {} /\ job.phase = "idle"
    BY SMT DEF Init, Nowhere, Elems
<1>4. \A c : Todo(c) = {}
    BY <1>3 DEF Todo
<1>5. SnapshotExact
    BY <1>2 DEF SnapshotExact
<1> QED
    BY <1>1, <1>2, <1>3, <1>4, <1>5, SMTT(30) DEF ContentInv

\* The bytes are kept by every step.
LEMMA ContentNext ==
    ASSUME StoreInv, LeasesApart, [Next]_vars
    PROVE  ContentInv'
<1>1. BaseInv
    BY DEF StoreInv
<1>2. CASE Next
  <2>1. CASE Plain
      BY <2>1, PlainContent
  <2>2. ASSUME NEW c \in Calls, NEW ct, NEW made, Admits(c, ct, made) PROVE ContentInv'
      BY <2>2, AdmitContent
  <2>3. ASSUME Payload, script' = script PROVE ContentInv'
      BY <2>3, TakeJobContent, CopyObjectContent, PlaceObjectContent, JobEndContent DEF Payload
  <2>4. ASSUME NEW c \in Calls, ReleaseLeases(c) \/ UnparkAll(c), script' = script PROVE ContentInv'
      BY <2>4, ReleaseContent
  <2> QED
      BY <1>1, <1>2, <2>1, <2>2, <2>3, <2>4, Steps
<1>3. CASE UNCHANGED vars
  <2>1. UNCHANGED <<script, cat, data, lease, jobs, job, image, want, due>>
      BY <1>3 DEF vars
  <2>2. (\A c : Todo(c)' = Todo(c)) /\ Todo(job.call)' = Todo(job.call)
      BY <2>1 DEF Todo
  <2>3. \A o : Pending(o)' = Pending(o) /\ Tainted(o)' = Tainted(o)
      BY <2>1, <2>2 DEF Pending, Tainted
  <2> QED
      BY <2>1, <2>2, <2>3 DEF StoreInv, ContentInv, SnapshotExact, Present
<1> QED
    BY <1>2, <1>3

\* "snapshots see a stable image" (checkpointing.md:498), if nothing else
\* leases what a restore that may fail is to write: the payload thread copies,
\* of every object, the bytes left by the calls admitted before the snapshot,
\* however many calls, restores and releases go on meanwhile.
THEOREM SnapshotsAreExact ==
    ASSUME LeasesApart
    PROVE  Spec => []SnapshotExact
<1>1. Init => StoreInv
    BY BaseInit, StableInit, ContentInit DEF StoreInv
<1>2. StoreInv /\ [Next]_vars => StoreInv'
    BY BaseNext, StableNext, ContentNext DEF StoreInv
<1>3. StoreInv => SnapshotExact
    BY DEF StoreInv, ContentInv
<1> QED
    BY <1>1, <1>2, <1>3, PTL DEF Spec
=============================================================================
