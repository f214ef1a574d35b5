---------------------------- MODULE GroupProofs ----------------------------
(***************************************************************************)
(* For every fleet, of any number of ranks: a full join barrier means that *)
(* every member has attached its backend.                                  *)
(*                                                                         *)
(* The barrier counts acks, and an ack says nothing of the member's record *)
(* when it is counted: the invariant follows the one join each member is   *)
(* sent, from its link to the builder, the ack and the count, and says     *)
(* what the member's record is at each stage.                              *)
(***************************************************************************)
EXTENDS PeerGroup, SequenceTheorems, TLAPS

-----------------------------------------------------------------------------
(* Links as sequences, and the frames on them that the barrier is about.    *)

IsSeq(s) == Len(s) \in Nat /\ s = [i \in 1..Len(s) |-> s[i]]

Carries(s, kind) == \E i \in 1..Len(s) : s[i].kind = kind

Once(s) == \A i, j \in 1..Len(s) : s[i].kind = "join" /\ s[j].kind = "join" => i = j

\* The link s becomes t without a join or an ack being added.
Quiet(s, t) ==
  /\ IsSeq(t)
  /\ \A kind \in {"join", "ack"} : Carries(t, kind) => Carries(s, kind)
  /\ Once(s) => Once(t)

\* What Append does to a link.
LEMMA AppendLink ==
  ASSUME NEW s, IsSeq(s), NEW x
  PROVE  /\ IsSeq(Append(s, x)) /\ Len(s) \in Nat /\ Len(Append(s, x)) = Len(s) + 1
         /\ \A i \in 1..Len(s) : Append(s, x)[i] = s[i]
         /\ Append(s, x)[Len(s) + 1] = x
<1> DEFINE S == {s[i] : i \in 1..Len(s)} \cup {x}
<1>1. s \in Seq(S)
  BY SeqDef DEF IsSeq
<1>2. x \in S
  BY Zenon
<1>3. /\ Append(s, x) \in Seq(S) /\ Len(Append(s, x)) = Len(s) + 1
      /\ \A i \in 1..Len(s) : Append(s, x)[i] = s[i]
      /\ Append(s, x)[Len(s) + 1] = x
  BY <1>1, <1>2, AppendProperties
<1> HIDE DEF S
<1>4. \A t \in Seq(S) : IsSeq(t)
  BY DEF IsSeq
<1> QED BY Zenon, <1>1, <1>3, <1>4 DEF IsSeq

\* What Head and Tail are of a link.
LEMMA TailLink ==
  ASSUME NEW s, IsSeq(s), s # <<>>
  PROVE  /\ IsSeq(Tail(s)) /\ Len(s) > 0 /\ Len(Tail(s)) = Len(s) - 1
         /\ \A i \in 1..Len(Tail(s)) : Tail(s)[i] = s[i + 1]
         /\ Head(s) = s[1]
<1> DEFINE S == {s[i] : i \in 1..Len(s)}
<1>1. s \in Seq(S)
  BY SeqDef DEF IsSeq
<1> HIDE DEF S
<1>2. \A t \in Seq(S) : IsSeq(t)
  BY DEF IsSeq
<1>3. /\ Tail(s) \in Seq(S) /\ Len(s) > 0 /\ Len(Tail(s)) = Len(s) - 1
      /\ \A i \in 1..Len(Tail(s)) : Tail(s)[i] = s[i + 1]
  BY <1>1, HeadTailProperties, EmptySeq
<1>4. Head(s) = s[1]
  BY <1>1
<1> QED BY Zenon, <1>2, <1>3, <1>4

\* Leaving a link alone is quiet.
LEMMA SameQuiet ==
  ASSUME NEW s, IsSeq(s)
  PROVE  Quiet(s, s)
BY Zenon DEF Quiet

\* Sending a frame that is no join and no ack is quiet.
LEMMA AppendQuiet ==
  ASSUME NEW s, IsSeq(s), NEW x, x.kind \notin {"join", "ack"}
  PROVE  Quiet(s, Append(s, x))
<1>1. /\ IsSeq(Append(s, x)) /\ Len(Append(s, x)) = Len(s) + 1 /\ Len(s) \in Nat
      /\ \A i \in 1..Len(s) : Append(s, x)[i] = s[i]
      /\ Append(s, x)[Len(s) + 1] = x
  BY AppendLink DEF IsSeq
<1> DEFINE t == Append(s, x)
<1> HIDE DEF t
<1>2. \A i \in 1..Len(t) : t[i].kind \in {"join", "ack"} => i \in 1..Len(s) /\ t[i] = s[i]
  BY <1>1 DEF t
<1>3. \A kind \in {"join", "ack"} : Carries(t, kind) => Carries(s, kind)
  BY Zenon, <1>2 DEF Carries
<1>4. Once(s) => Once(t)
  BY Zenon, <1>2 DEF Once
<1> QED BY Zenon, <1>1, <1>3, <1>4 DEF Quiet, t

\* Reading a frame is quiet.
LEMMA TailQuiet ==
  ASSUME NEW s, IsSeq(s), s # <<>>
  PROVE  Quiet(s, Tail(s))
<1>1. /\ IsSeq(Tail(s)) /\ Len(s) > 0 /\ Len(Tail(s)) = Len(s) - 1 /\ Len(s) \in Nat
      /\ \A i \in 1..Len(Tail(s)) : Tail(s)[i] = s[i + 1]
  BY Zenon, TailLink DEF IsSeq
<1> DEFINE t == Tail(s)
<1> HIDE DEF t
<1>2. \A i \in 1..Len(t) : i + 1 \in 1..Len(s) /\ t[i] = s[i + 1]
  BY <1>1 DEF t
<1>3. \A kind \in {"join", "ack"} : Carries(t, kind) => Carries(s, kind)
  BY Zenon, <1>2 DEF Carries
<1>4. Once(s) => Once(t)
  <2> SUFFICES ASSUME Once(s), NEW i \in 1..Len(t), NEW j \in 1..Len(t),
                      t[i].kind = "join", t[j].kind = "join"
               PROVE  i = j
    BY Zenon DEF Once
  <2>1. i + 1 = j + 1
    BY Zenon, <1>2 DEF Once
  <2> QED BY <2>1
<1> QED BY Zenon, <1>1, <1>3, <1>4 DEF Quiet, t

\* A link that carries one join carries none once it has been read.
LEMMA JoinRead ==
  ASSUME NEW s, IsSeq(s), s # <<>>, Once(s), Head(s).kind = "join"
  PROVE  ~Carries(Tail(s), "join")
<1>1. /\ Len(s) > 0 /\ Len(Tail(s)) = Len(s) - 1 /\ Len(s) \in Nat
      /\ \A i \in 1..Len(Tail(s)) : Tail(s)[i] = s[i + 1]
      /\ s[1].kind = "join"
  BY Zenon, TailLink DEF IsSeq
<1> SUFFICES ASSUME NEW i \in 1..Len(Tail(s)), Tail(s)[i].kind = "join"
             PROVE  FALSE
  BY Zenon DEF Carries
<1>2. i + 1 \in 1..Len(s) /\ 1 \in 1..Len(s) /\ s[i + 1].kind = "join"
  BY <1>1
<1>3. i + 1 = 1
  BY Zenon, <1>1, <1>2 DEF Once
<1> QED BY <1>3

-----------------------------------------------------------------------------
(* The inductive invariant. *)

\* A group record; its error and what is parked in it are not of interest here.
IsRecord(x) ==
  x \in [known : BOOLEAN, ready : BOOLEAN, error : {x.error}, built : BOOLEAN,
         attached : BOOLEAN, pending : {x.pending}, acks : SUBSET Ranks]

\* What the records, the builders and the links are.
GroupTypes ==
  /\ boot.world \in Nat \ {0}
  /\ DOMAIN chan = Ends /\ \A p \in Ends : IsSeq(chan[p])
  /\ DOMAIN builder = Ranks
  /\ DOMAIN rec = Ranks
  /\ \A r \in Ranks : IsRecord(rec[r])

\* Member m has attached by the time its ack is due, on its link or counted; the
\* one join that would clear its record comes before all of that.
Joined(m) ==
  /\ Once(chan[<<0, m>>]) /\ ~Carries(chan[<<m, 0>>], "join")
  /\ Carries(chan[<<0, m>>], "join") =>
       builder[m] = "none" /\ ~Carries(chan[<<m, 0>>], "ack") /\ m \notin rec[0].acks
  /\ builder[m] = "ack" \/ Carries(chan[<<m, 0>>], "ack") \/ m \in rec[0].acks =>
       rec[m].attached
  /\ create = "idle" =>
       /\ ~Carries(chan[<<0, m>>], "join") /\ ~Carries(chan[<<m, 0>>], "ack")
       /\ builder[m] = "none"

GroupInv ==
  /\ GroupTypes
  /\ \A m \in Members : Joined(m)
  /\ rec[0].ready => Members \subseteq rec[0].acks

\* The ends of member m's link.
LEMMA EndsOf ==
  ASSUME boot.world \in Nat \ {0}
  PROVE  /\ 0 \in Ranks
         /\ \A m \in Members : /\ m \in Ranks /\ m # 0 /\ m \in Nat
                               /\ <<0, m>> \in Ends /\ <<m, 0>> \in Ends
         /\ \A p \in Ends : \/ \E m \in Members : p = <<0, m>>
                            \/ \E m \in Members : p = <<m, 0>>
<1>1. 0 \in Ranks /\ \A m \in Ranks : m \in Nat
  BY DEF Ranks
<1> QED BY Zenon, <1>1 DEF Members, Ends

\* A step that adds no join and no ack, keeps what is counted and who has
\* attached, and starts no builder keeps the invariant.
LEMMA QuietStep ==
  ASSUME GroupInv, boot' = boot,
         DOMAIN chan' = Ends, \A p \in Ends : Quiet(chan[p], chan'[p]),
         DOMAIN rec' = Ranks, DOMAIN builder' = Ranks,
         \A r \in Ranks :
           /\ IsRecord(rec'[r])
           /\ rec'[r].acks = rec[r].acks /\ rec'[r].ready = rec[r].ready
           /\ rec[r].attached => rec'[r].attached,
         \A m \in Members :
           /\ builder[m] = "none" => builder'[m] = "none"
           /\ builder'[m] = "ack" => builder[m] = "ack" \/ rec'[m].attached,
         create' = "idle" => create = "idle"
  PROVE  GroupInv'
<1>0. Ranks' = Ranks /\ Members' = Members /\ Ends' = Ends
  BY Zenon DEF Ranks, Members, Ends
<1>1. GroupTypes'
  BY Zenon, <1>0 DEF GroupInv, GroupTypes, Quiet, IsRecord
<1>2. ASSUME NEW m \in Members
      PROVE  Joined(m)'
  <2>1. m \in Ranks /\ 0 \in Ranks /\ <<0, m>> \in Ends /\ <<m, 0>> \in Ends
    BY Zenon, EndsOf DEF GroupInv, GroupTypes
  <2>2. Joined(m)
    BY Zenon DEF GroupInv
  <2>3. /\ Once(chan'[<<0, m>>])
        /\ Carries(chan'[<<0, m>>], "join") => Carries(chan[<<0, m>>], "join")
        /\ Carries(chan'[<<m, 0>>], "join") => Carries(chan[<<m, 0>>], "join")
        /\ Carries(chan'[<<m, 0>>], "ack") => Carries(chan[<<m, 0>>], "ack")
    BY Zenon, <2>1, <2>2 DEF Quiet, Joined
  <2> QED BY Zenon, <2>1, <2>2, <2>3 DEF Joined
<1>3. rec'[0].ready => Members \subseteq rec'[0].acks
  BY Zenon, EndsOf DEF GroupInv, GroupTypes
<1> QED BY Zenon, <1>0, <1>1, <1>2, <1>3 DEF GroupInv

\* Sent adds no join and no ack unless that is what it sends.
LEMMA SentQuiet ==
  ASSUME GroupTypes, NEW from, NEW to, NEW frame, frame.kind \notin {"join", "ack"}
  PROVE  /\ DOMAIN Sent(from, to, frame) = Ends
         /\ \A p \in Ends : Quiet(chan[p], Sent(from, to, frame)[p])
BY Zenon, SameQuiet, AppendQuiet DEF GroupTypes, Sent

\* The fan-out of an error adds no join and no ack.
LEMMA ToldQuiet ==
  ASSUME GroupTypes, NEW r, NEW from
  PROVE  /\ DOMAIN Told(r, from) = Ends
         /\ \A p \in Ends : Quiet(chan[p], Told(r, from)[p])
BY Zenon, SameQuiet, AppendQuiet DEF GroupTypes, Told

\* Taking the first frame off a link adds none.
LEMMA PoppedQuiet ==
  ASSUME GroupTypes, NEW r, NEW s, <<r, s>> \in Ends, chan[<<r, s>>] # <<>>
  PROVE  /\ DOMAIN Popped(r, s) = Ends
         /\ \A p \in Ends : Quiet(chan[p], Popped(r, s)[p])
BY Zenon, SameQuiet, TailQuiet DEF GroupTypes, Popped

\* A record with its error set.
LEMMA ErroredRecords ==
  ASSUME GroupTypes, NEW s, NEW cause
  PROVE  /\ DOMAIN Errored(s, cause) = Ranks
         /\ \A r \in Ranks :
              /\ IsRecord(Errored(s, cause)[r])
              /\ Errored(s, cause)[r].acks = rec[r].acks
              /\ Errored(s, cause)[r].ready = rec[r].ready
              /\ Errored(s, cause)[r].attached = rec[r].attached
<1> DEFINE E == Errored(s, cause)
<1>1. DOMAIN E = Ranks
  BY Zenon DEF GroupTypes, Errored
<1>2. ASSUME NEW r \in Ranks
      PROVE  /\ IsRecord(E[r])
             /\ E[r].acks = rec[r].acks /\ E[r].ready = rec[r].ready
             /\ E[r].attached = rec[r].attached
  <2>1. E[r] = rec[r] \/ E[r] = [rec[r] EXCEPT !.error = cause]
    BY Zenon DEF GroupTypes, Errored
  <2>2. IsRecord(rec[r])
    BY Zenon DEF GroupTypes
  <2> HIDE DEF E
  <2> QED BY Zenon, <2>1, <2>2 DEF IsRecord
<1> QED BY Zenon, <1>1, <1>2

\* Every link left alone is quiet.
LEMMA LinksQuiet ==
  ASSUME GroupTypes
  PROVE  \A p \in Ends : Quiet(chan[p], chan[p])
BY Zenon, SameQuiet DEF GroupTypes

\* A step that is quiet on the links and leaves the group's state alone.
LEMMA QuietLinks ==
  ASSUME GroupInv, boot' = boot, rec' = rec, builder' = builder, create' = create,
         DOMAIN chan' = Ends, \A p \in Ends : Quiet(chan[p], chan'[p])
  PROVE  GroupInv'
<1>1. DOMAIN rec' = Ranks /\ DOMAIN builder' = Ranks
  BY Zenon DEF GroupInv, GroupTypes
<1>2. \A r \in Ranks :
        /\ IsRecord(rec'[r])
        /\ rec'[r].acks = rec[r].acks /\ rec'[r].ready = rec[r].ready
        /\ rec[r].attached => rec'[r].attached
  BY Zenon DEF GroupInv, GroupTypes
<1>3. \A m \in Members : /\ builder[m] = "none" => builder'[m] = "none"
                         /\ builder'[m] = "ack" => builder[m] = "ack" \/ rec'[m].attached
  BY Zenon
<1> QED BY Zenon, <1>1, <1>2, <1>3, QuietStep

\* A step that is quiet on the links and sets the error of a record.
LEMMA ErrorStep ==
  ASSUME GroupInv, boot' = boot, NEW s, NEW cause, rec' = Errored(s, cause),
         builder' = builder, create' = "idle" => create = "idle",
         DOMAIN chan' = Ends, \A p \in Ends : Quiet(chan[p], chan'[p])
  PROVE  GroupInv'
<1>0. GroupTypes
  BY Zenon DEF GroupInv
<1>1. DOMAIN rec' = Ranks /\ DOMAIN builder' = Ranks
  BY Zenon, <1>0, ErroredRecords DEF GroupTypes
<1>2. \A r \in Ranks :
        /\ IsRecord(rec'[r])
        /\ rec'[r].acks = rec[r].acks /\ rec'[r].ready = rec[r].ready
        /\ rec[r].attached => rec'[r].attached
  BY <1>0, ErroredRecords
<1>3. \A m \in Members : /\ builder[m] = "none" => builder'[m] = "none"
                         /\ builder'[m] = "ack" => builder[m] = "ack" \/ rec'[m].attached
  BY Zenon
<1> QED BY Zenon, <1>1, <1>2, <1>3, QuietStep

-----------------------------------------------------------------------------
(* One lemma per group of actions. *)

\* The collectives, their streams and their workers.
LEMMA CollectiveKeeps ==
  ASSUME GroupInv, NEW r \in Ranks,
         (CallerStep(r) \/ StreamStep(r) \/ WorkerStep(r)) /\ UNCHANGED groupVars
  PROVE  GroupInv'
<1>1. GroupTypes /\ boot' = boot /\ rec' = rec /\ builder' = builder /\ create' = create
  BY Zenon DEF GroupInv, groupVars, CallerStep, Enqueue, Spin, StreamStep, WorkerStep, Take, Start,
         Exchange, PeerReady, Write, WriteRest, PeerDone, PeerData
<1>2. \/ chan' = chan
      \/ \E k, op, data : chan' = Sent(r, Other(r), Coll(k, op, data))
  <2>1. CASE CallerStep(r)
    BY Zenon, <2>1 DEF CallerStep, Enqueue, Spin, linkVars
  <2>2. CASE StreamStep(r)
    BY Zenon, <2>2 DEF StreamStep, linkVars
  <2>3. CASE Take(r) \/ PeerReady(r) \/ Write(r) \/ PeerDone(r) \/ PeerData(r)
    BY Zenon, <2>3 DEF Take, PeerReady, Write, PeerDone, PeerData, linkVars
  <2>4. CASE Start(r)
    BY Zenon, <2>4 DEF Start
  <2>5. CASE Exchange(r)
    BY Zenon, <2>5 DEF Exchange
  <2>6. CASE WriteRest(r)
    BY Zenon, <2>6 DEF WriteRest
  <2> QED BY Zenon, <2>1, <2>2, <2>3, <2>4, <2>5, <2>6 DEF WorkerStep
<1>3. DOMAIN chan' = Ends /\ \A p \in Ends : Quiet(chan[p], chan'[p])
  <2>1. CASE chan' = chan
    BY Zenon, <1>1, <2>1, LinksQuiet DEF GroupTypes
  <2>2. ASSUME NEW k, NEW op, NEW data, chan' = Sent(r, Other(r), Coll(k, op, data))
        PROVE  DOMAIN chan' = Ends /\ \A p \in Ends : Quiet(chan[p], chan'[p])
    <3>1. Coll(k, op, data).kind \notin {"join", "ack"}
      BY Zenon DEF Coll
    <3> QED BY Zenon, <1>1, <2>2, <3>1, SentQuiet
  <2> QED BY Zenon, <1>2, <2>1, <2>2
<1> QED BY Zenon, <1>1, <1>3, QuietLinks

\* A worker's failure and its report.
LEMMA FailureKeeps ==
  ASSUME GroupInv, NEW r \in Ranks, WorkerFails(r)
  PROVE  GroupInv'
<1>1. /\ GroupTypes /\ boot' = boot /\ builder' = builder /\ create' = create
      /\ rec' = Errored(r, "failed") /\ chan' = Told(r, Self)
  BY Zenon DEF GroupInv, WorkerFails
<1>2. DOMAIN chan' = Ends /\ \A p \in Ends : Quiet(chan[p], chan'[p])
  BY Zenon, <1>1, ToldQuiet
<1> QED BY Zenon, <1>1, <1>2, ErrorStep

\* The RDMA probe.
LEMMA ProbeKeeps ==
  ASSUME GroupInv, ProbeOk \/ ProbeFails
  PROVE  GroupInv'
<1>1. GroupTypes /\ boot' = boot /\ builder' = builder /\ create' = create /\ rec' = rec
  BY Zenon DEF GroupInv, ProbeOk, ProbeFails
<1>2. \A p \in Ends : IsSeq(chan[p])
  BY Zenon, <1>1 DEF GroupTypes
<1>3. DOMAIN chan' = Ends /\ \A p \in Ends : chan'[p] = chan[p] \/ chan'[p] = Append(chan[p], [kind |-> "demote"])
  BY Zenon, <1>1 DEF ProbeOk, ProbeFails, linkVars, GroupTypes
<1>4. \A p \in Ends : Quiet(chan[p], chan'[p])
  BY Zenon, <1>2, <1>3, SameQuiet, AppendQuiet
<1> QED BY Zenon, <1>1, <1>3, <1>4, QuietLinks

\* A link that breaks loses its frames.
LEMMA BreakKeeps ==
  ASSUME GroupInv, NEW m \in Members, Break(m)
  PROVE  GroupInv'
<1>1. GroupTypes /\ boot' = boot /\ builder' = builder /\ create' = create /\ rec' = rec
  BY Zenon DEF GroupInv, Break, groupVars
<1>2. \A p \in Ends : IsSeq(chan[p])
  BY Zenon, <1>1 DEF GroupTypes
<1>3. DOMAIN chan' = Ends /\ \A p \in Ends : chan'[p] = chan[p] \/ chan'[p] = <<>>
  BY Zenon, <1>1 DEF Break, GroupTypes
<1>4. \A s : Quiet(s, <<>>)
  BY DEF Quiet, IsSeq, Carries, Once
<1>5. \A p \in Ends : Quiet(chan[p], chan'[p])
  BY Zenon, <1>2, <1>3, <1>4, SameQuiet
<1> QED BY Zenon, <1>1, <1>3, <1>5, QuietLinks

\* The verb once its joins are sent.
LEMMA BarrierKeeps ==
  ASSUME GroupInv, BarrierFull \/ BarrierTimeout
  PROVE  GroupInv'
<1>1. GroupTypes /\ boot' = boot /\ chan' = chan /\ create' # "idle"
  BY Zenon DEF GroupInv, BarrierFull, BarrierTimeout, linkVars
<1>2. \A m \in Members : m \in Ranks /\ m # 0
  BY Zenon DEF Members
<1>3. CASE BarrierFull
  <2>1. rec' = rec /\ DOMAIN builder' = Ranks /\ \A m \in Members : builder'[m] = builder[m]
    BY Zenon, <1>1, <1>2, <1>3 DEF BarrierFull, GroupTypes
  <2> QED BY Zenon, <1>1, <2>1, LinksQuiet, QuietStep DEF GroupTypes
<1>4. CASE BarrierTimeout
  <2>1. rec' = Errored(0, "barrier") /\ builder' = builder
    BY Zenon, <1>4 DEF BarrierTimeout
  <2>2. DOMAIN chan' = Ends /\ \A p \in Ends : Quiet(chan[p], chan'[p])
    BY Zenon, <1>1, LinksQuiet DEF GroupTypes
  <2> QED BY Zenon, <1>1, <2>1, <2>2, ErrorStep
<1> QED BY Zenon, <1>3, <1>4

\* The builders: a member that will acknowledge has attached.
LEMMA AttachKeeps ==
  ASSUME GroupInv, NEW r \in Ranks, Attach(r) \/ AttachFails(r)
  PROVE  GroupInv'
<1>1. /\ GroupTypes /\ boot' = boot /\ chan' = chan /\ builder[r] = "build"
      /\ create' = "idle" => create = "idle"
  BY Zenon DEF GroupInv, Attach, AttachFails, linkVars, VerbReturns
<1>2. DOMAIN chan' = Ends /\ \A p \in Ends : Quiet(chan[p], chan'[p])
  BY Zenon, <1>1, LinksQuiet DEF GroupTypes
<1>3. /\ DOMAIN rec' = Ranks /\ DOMAIN builder' = Ranks
      /\ \A s \in Ranks \ {r} : rec'[s] = rec[s] /\ builder'[s] = builder[s]
      /\ \/ /\ rec'[r] = [rec[r] EXCEPT !.attached = TRUE, !.built = TRUE, !.pending = <<>>]
            /\ builder'[r] \in {"end", "ack"}
         \/ /\ rec'[r] = [rec[r] EXCEPT !.error = "attach", !.built = TRUE, !.pending = <<>>]
            /\ builder'[r] = "end"
  BY Zenon, <1>1 DEF Attach, AttachFails, AfterBuild, GroupTypes
<1>4. IsRecord(rec[r])
  BY Zenon, <1>1 DEF GroupTypes
<1>5. /\ IsRecord(rec'[r])
      /\ rec'[r].acks = rec[r].acks /\ rec'[r].ready = rec[r].ready
      /\ rec[r].attached => rec'[r].attached
      /\ builder'[r] = "ack" => rec'[r].attached
  BY Zenon, <1>3, <1>4 DEF IsRecord
<1>6. \A s \in Ranks :
        /\ IsRecord(rec'[s])
        /\ rec'[s].acks = rec[s].acks /\ rec'[s].ready = rec[s].ready
        /\ rec[s].attached => rec'[s].attached
  BY Zenon, <1>1, <1>3, <1>5 DEF GroupTypes
<1>7. \A m \in Members : /\ builder[m] = "none" => builder'[m] = "none"
                         /\ builder'[m] = "ack" => builder[m] = "ack" \/ rec'[m].attached
  BY Zenon, <1>1, <1>3, <1>5 DEF Members
<1> QED BY Zenon, <1>1, <1>2, <1>3, <1>6, <1>7, QuietStep

\* The reader's frames that are neither a join nor an ack.
LEMMA ReadOtherKeeps ==
  ASSUME GroupInv, NEW r, NEW s, <<r, s>> \in Ends, <<s, r>> \in Ends, s \in Ranks,
         \/ ReadInfo(r, s) \/ ReadUp(r, s) \/ ReadDemote(r, s) \/ ReadError(r, s)
         \/ ReadColl(r, s) \/ DropLink(r, s)
  PROVE  GroupInv'
<1>1. /\ GroupTypes /\ boot' = boot /\ builder' = builder /\ create' = create
      /\ \A p \in Ends : IsSeq(chan[p])
  BY Zenon DEF GroupInv, GroupTypes, ReadInfo, ReadUp, ReadDemote, ReadError, ReadColl, DropLink
<1>2. CASE ReadUp(r, s) \/ ReadDemote(r, s)
  <2>1. rec' = rec /\ chan' = Popped(r, s) /\ chan[<<r, s>>] # <<>>
    BY Zenon, <1>2 DEF ReadUp, ReadDemote, Reads
  <2>2. DOMAIN chan' = Ends /\ \A p \in Ends : Quiet(chan[p], chan'[p])
    BY Zenon, <1>1, <2>1, PoppedQuiet
  <2> QED BY Zenon, <1>1, <2>1, <2>2, QuietLinks
<1>3. CASE ReadInfo(r, s)
  <2>1. rec' = rec /\ chan[<<r, s>>] # <<>> /\ <<r, s>> # <<s, r>>
    BY Zenon, <1>3, EndsOf, <1>1 DEF ReadInfo, Reads, GroupTypes
  <2>2. /\ DOMAIN chan' = Ends
        /\ \A p \in Ends : \/ chan'[p] = chan[p] \/ chan'[p] = Append(chan[p], [kind |-> "up"])
                           \/ chan[p] # <<>> /\ chan'[p] = Tail(chan[p])
    BY Zenon, <1>1, <1>3, <2>1 DEF ReadInfo, Popped, GroupTypes
  <2>3. \A p \in Ends : Quiet(chan[p], chan'[p])
    BY Zenon, <1>1, <2>2, SameQuiet, AppendQuiet, TailQuiet
  <2> QED BY Zenon, <1>1, <2>1, <2>2, <2>3, QuietLinks
<1>4. CASE ReadError(r, s)
  <2>1. /\ chan[<<r, s>>] # <<>> /\ DOMAIN chan' = Ends
        /\ \A p \in Ends : \/ chan'[p] = chan[p] \/ chan'[p] = Told(s, r)[p]
                           \/ chan[p] # <<>> /\ chan'[p] = Tail(chan[p])
    BY Zenon, <1>1, <1>4 DEF ReadError, Reads, GroupTypes
  <2>2. \A p \in Ends : Quiet(chan[p], chan'[p])
    BY ZenonT(40), <1>1, <2>1, SameQuiet, ToldQuiet, TailQuiet
  <2>3. rec' = rec \/ rec' = Errored(s, "told")
    BY Zenon, <1>4 DEF ReadError
  <2> QED BY Zenon, <1>1, <2>1, <2>2, <2>3, QuietLinks, ErrorStep
<1>5. CASE DropLink(r, s)
  <2>1. (rec' = rec /\ chan' = chan) \/ (rec' = Errored(s, "down") /\ chan' = Told(s, r))
    BY Zenon, <1>5 DEF DropLink
  <2>2. DOMAIN chan' = Ends /\ \A p \in Ends : Quiet(chan[p], chan'[p])
    BY Zenon, <1>1, <2>1, ToldQuiet, LinksQuiet DEF GroupTypes
  <2> QED BY Zenon, <1>1, <2>1, <2>2, QuietLinks, ErrorStep
<1>6. CASE ReadColl(r, s)
  <2>1. /\ chan' = Popped(r, s) /\ chan[<<r, s>>] # <<>>
        /\ rec' = rec \/ \E f : rec' = [rec EXCEPT ![s].pending = f]
    BY Zenon, <1>6 DEF ReadColl, Reads
  <2>2. DOMAIN chan' = Ends /\ \A p \in Ends : Quiet(chan[p], chan'[p])
    BY Zenon, <1>1, <2>1, PoppedQuiet
  <2>3. CASE rec' = rec
    BY Zenon, <1>1, <2>2, <2>3, QuietLinks
  <2>4. ASSUME NEW f, rec' = [rec EXCEPT ![s].pending = f]
        PROVE  GroupInv'
    <3>1. DOMAIN rec' = Ranks /\ DOMAIN builder' = Ranks
      BY Zenon, <1>1, <2>4 DEF GroupTypes
    <3>2. ASSUME NEW q \in Ranks
          PROVE  /\ IsRecord(rec'[q])
                 /\ rec'[q].acks = rec[q].acks /\ rec'[q].ready = rec[q].ready
                 /\ rec[q].attached => rec'[q].attached
      <4>1. IsRecord(rec[q])
        BY Zenon, <1>1 DEF GroupTypes
      <4>2. rec'[q] = rec[q] \/ rec'[q] = [rec[q] EXCEPT !.pending = f]
        BY Zenon, <1>1, <2>4 DEF GroupTypes
      <4> QED BY Zenon, <4>1, <4>2 DEF IsRecord
    <3> QED BY Zenon, <1>1, <2>2, <3>1, <3>2, QuietStep
  <2> QED BY Zenon, <2>1, <2>3, <2>4
<1> QED BY Zenon, <1>2, <1>3, <1>4, <1>5, <1>6

\* The verb's joins: the first, and only one, on each link.
LEMMA CreateKeeps ==
  ASSUME GroupInv, Create
  PROVE  GroupInv'
<1>0. /\ GroupTypes /\ boot' = boot /\ builder' = builder /\ create = "idle" /\ create' # "idle"
      /\ Ranks' = Ranks /\ Members' = Members /\ Ends' = Ends
  BY Zenon DEF GroupInv, Create, Ranks, Members, Ends
<1>1. CASE UNCHANGED <<rec, chan>>
  <2>1. DOMAIN chan' = Ends /\ \A p \in Ends : Quiet(chan[p], chan'[p])
    BY Zenon, <1>0, <1>1, LinksQuiet DEF GroupTypes
  <2>2. /\ DOMAIN rec' = Ranks /\ DOMAIN builder' = Ranks
        /\ \A r \in Ranks : IsRecord(rec'[r]) /\ rec'[r] = rec[r]
    BY Zenon, <1>0, <1>1 DEF GroupTypes
  <2> QED BY Zenon, <1>0, <2>1, <2>2, QuietStep
<1>2. CASE /\ rec' = [rec EXCEPT ![0] = NewRecord(FALSE)]
           /\ chan' = [p \in DOMAIN chan |->
                         IF p[1] = 0 /\ wire[p[2]] THEN Append(chan[p], [kind |-> "join"])
                         ELSE chan[p]]
  <2>1. /\ 0 \in Ranks /\ \A r \in Ranks : rec'[r] = IF r = 0 THEN NewRecord(FALSE) ELSE rec[r]
        /\ DOMAIN rec' = Ranks
    BY Zenon, <1>0, <1>2, EndsOf DEF GroupTypes
  <2>2. /\ DOMAIN chan' = Ends
        /\ \A p \in Ends : \/ chan'[p] = chan[p]
                           \/ p[1] = 0 /\ chan'[p] = Append(chan[p], [kind |-> "join"])
    <3>1. chan' = [p \in Ends |->
                     IF p[1] = 0 /\ wire[p[2]] THEN Append(chan[p], [kind |-> "join"])
                     ELSE chan[p]]
      BY Zenon, <1>0, <1>2 DEF GroupTypes
    <3> QED BY Zenon, <3>1
  <2>3. /\ IsRecord(NewRecord(FALSE))
        /\ NewRecord(FALSE).ready = FALSE /\ NewRecord(FALSE).acks = {}
    BY Zenon DEF IsRecord, NewRecord
  <2>4. \A p \in Ends : IsSeq(chan'[p])
    <3>1. \A p \in Ends : IsSeq(chan[p])
      BY Zenon, <1>0 DEF GroupTypes
    <3>2. \A p \in Ends : IsSeq(Append(chan[p], [kind |-> "join"]))
      BY Zenon, <3>1, AppendLink
    <3> QED BY Zenon, <2>2, <3>1, <3>2
  <2>5. GroupTypes'
    BY Zenon, <1>0, <2>1, <2>2, <2>3, <2>4 DEF GroupTypes, IsRecord
  <2>6. ASSUME NEW m \in Members
        PROVE  Joined(m)'
    <3>1. /\ m \in Ranks /\ m # 0 /\ <<0, m>> \in Ends /\ <<m, 0>> \in Ends
          /\ IsSeq(chan[<<0, m>>])
      BY Zenon, <1>0, EndsOf DEF GroupTypes
    <3>2. /\ ~Carries(chan[<<0, m>>], "join") /\ ~Carries(chan[<<m, 0>>], "ack")
          /\ ~Carries(chan[<<m, 0>>], "join") /\ builder[m] = "none"
          /\ Once(chan[<<0, m>>])
      BY Zenon, <1>0 DEF GroupInv, Joined
    <3>3. chan'[<<m, 0>>] = chan[<<m, 0>>]
      BY Zenon, <2>2, <3>1
    <3>4. Once(chan'[<<0, m>>])
      <4> DEFINE c == chan[<<0, m>>]
                 d == Append(c, [kind |-> "join"])
      <4>1. CASE chan'[<<0, m>>] = c
        BY Zenon, <3>2, <4>1
      <4>2. CASE chan'[<<0, m>>] = d
        <5>1. /\ Len(d) = Len(c) + 1 /\ Len(c) \in Nat
              /\ \A i \in 1..Len(c) : d[i] = c[i] /\ c[i].kind # "join"
          <6>1. \A i \in 1..Len(c) : c[i].kind # "join"
            BY Zenon, <3>2 DEF Carries
          <6> QED BY <3>1, <6>1, AppendLink
        <5> HIDE DEF c, d
        <5>2. \A i \in 1..Len(d) : d[i].kind = "join" => i = Len(d)
          BY <5>1
        <5>3. Once(d)
          BY Zenon, <5>2 DEF Once
        <5> QED BY Zenon, <4>2, <5>3
      <4> QED BY Zenon, <2>2, <3>1, <4>1, <4>2
    <3>5. rec'[0].acks = {} /\ builder'[m] = "none"
      BY Zenon, <1>0, <2>1, <2>3, <3>2
    <3> QED BY Zenon, <1>0, <3>2, <3>3, <3>4, <3>5 DEF Joined
  <2>7. ~rec'[0].ready
    BY Zenon, <2>1, <2>3
  <2> QED BY Zenon, <1>0, <2>5, <2>6, <2>7 DEF GroupInv
<1> QED BY Zenon, <1>1, <1>2 DEF Create

\* A member acknowledges: it has attached, and its join has been read.
LEMMA AckKeeps ==
  ASSUME GroupInv, NEW r \in Ranks, Ack(r)
  PROVE  GroupInv'
<1>0. /\ GroupTypes /\ boot' = boot /\ rec' = rec /\ create' = create /\ builder[r] = "ack"
      /\ Ranks' = Ranks /\ Members' = Members /\ Ends' = Ends
  BY Zenon DEF GroupInv, Ack, Ranks, Members, Ends
<1>1. /\ DOMAIN chan' = Ends /\ DOMAIN builder' = Ranks
      /\ \A s \in Ranks : builder'[s] = IF s = r THEN "end" ELSE builder[s]
      /\ \A p \in Ends : \/ chan'[p] = chan[p]
                         \/ p = <<r, 0>> /\ chan'[p] = Append(chan[p], [kind |-> "ack"])
  BY Zenon, <1>0 DEF GroupTypes, Ack
<1>2. \A p \in Ends : IsSeq(chan'[p])
  <2>1. \A p \in Ends : IsSeq(chan[p])
    BY Zenon, <1>0 DEF GroupTypes
  <2>2. \A p \in Ends : IsSeq(Append(chan[p], [kind |-> "ack"]))
    BY Zenon, <2>1, AppendLink
  <2> QED BY Zenon, <1>1, <2>1, <2>2
<1>3. GroupTypes'
  BY Zenon, <1>0, <1>1, <1>2 DEF GroupTypes, IsRecord
<1>4. ASSUME NEW m \in Members
      PROVE  Joined(m)'
  <2>1. /\ m \in Ranks /\ m # 0 /\ <<0, m>> \in Ends /\ <<m, 0>> \in Ends
        /\ IsSeq(chan[<<m, 0>>]) /\ Joined(m)
    BY Zenon, <1>0, EndsOf DEF GroupTypes, GroupInv
  <2>2. chan'[<<0, m>>] = chan[<<0, m>>]
    BY Zenon, <1>1, <2>1
  <2>3. CASE m # r
    <3>1. chan'[<<m, 0>>] = chan[<<m, 0>>] /\ builder'[m] = builder[m]
      BY Zenon, <1>1, <2>1, <2>3
    <3> QED BY Zenon, <1>0, <2>1, <2>2, <3>1 DEF Joined
  <2>4. CASE m = r
    <3>1. rec[m].attached /\ ~Carries(chan[<<0, m>>], "join") /\ create # "idle"
      BY Zenon, <1>0, <2>1, <2>4 DEF Joined
    <3>2. ~Carries(chan'[<<m, 0>>], "join")
      <4> DEFINE c == chan[<<m, 0>>]
                 d == Append(c, [kind |-> "ack"])
      <4>1. /\ Len(d) = Len(c) + 1 /\ Len(c) \in Nat /\ d[Len(c) + 1].kind = "ack"
            /\ \A i \in 1..Len(c) : d[i] = c[i] /\ c[i].kind # "join"
        <5>1. \A i \in 1..Len(c) : c[i].kind # "join"
          BY Zenon, <2>1 DEF Carries, Joined
        <5> QED BY SMTT(30), <2>1, <5>1, AppendLink
      <4>2. chan'[<<m, 0>>] = c \/ chan'[<<m, 0>>] = d
        BY Zenon, <1>1, <2>1
      <4>3. ~Carries(c, "join")
        BY Zenon, <2>1 DEF Joined
      <4> HIDE DEF c, d
      <4>4. ~Carries(d, "join")
        BY <4>1 DEF Carries
      <4> QED BY Zenon, <4>2, <4>3, <4>4
    <3> QED BY Zenon, <1>0, <1>1, <2>1, <2>2, <3>1, <3>2 DEF Joined
  <2> QED BY Zenon, <2>3, <2>4
<1> QED BY Zenon, <1>0, <1>3, <1>4 DEF GroupInv

\* A member reads its join: no ack of its own is due, on the link or counted.
LEMMA ReadJoinKeeps ==
  ASSUME GroupInv, NEW r, NEW s, <<r, s>> \in Ends, s \in Ranks, ReadJoin(r, s)
  PROVE  GroupInv'
<1>0. /\ GroupTypes /\ boot' = boot /\ create' = create
      /\ Ranks' = Ranks /\ Members' = Members /\ Ends' = Ends
      /\ chan[<<r, s>>] # <<>> /\ Head(chan[<<r, s>>]).kind = "join" /\ IsSeq(chan[<<r, s>>])
  BY Zenon DEF GroupInv, GroupTypes, ReadJoin, Reads, Ranks, Members, Ends
<1>1. Carries(chan[<<r, s>>], "join")
  <2> DEFINE c == chan[<<r, s>>]
  <2>1. Len(c) > 0 /\ Len(c) \in Nat /\ c[1].kind = "join"
    BY Zenon, <1>0, TailLink DEF IsSeq
  <2> HIDE DEF c
  <2>2. Carries(c, "join")
    BY SMTT(30), <2>1 DEF Carries
  <2> QED BY Zenon, <2>2 DEF c
<1>2. s \in Members /\ r = 0
  BY Zenon, <1>0, <1>1, EndsOf DEF GroupInv, GroupTypes, Joined
<1>3. /\ Joined(s) /\ ~Carries(chan[<<s, 0>>], "ack") /\ s \notin rec[0].acks /\ create # "idle"
  BY Zenon, <1>1, <1>2 DEF GroupInv, Joined
<1>4. /\ DOMAIN chan' = Ends /\ \A p \in Ends : Quiet(chan[p], chan'[p])
      /\ chan'[<<r, s>>] = Tail(chan[<<r, s>>])
      /\ \A p \in Ends : p # <<r, s>> => chan'[p] = chan[p]
  BY Zenon, <1>0, PoppedQuiet DEF ReadJoin, Popped, GroupTypes
<1>5. ~Carries(chan'[<<0, s>>], "join") /\ Once(chan'[<<0, s>>])
  BY Zenon, <1>0, <1>2, <1>3, <1>4, JoinRead DEF Joined, Quiet
<1>6. /\ DOMAIN rec' = Ranks /\ DOMAIN builder' = Ranks
      /\ rec'[s] = NewRecord(TRUE) /\ builder'[s] = "build"
      /\ \A q \in Ranks \ {s} : rec'[q] = rec[q] /\ builder'[q] = builder[q]
  BY Zenon, <1>0 DEF ReadJoin, GroupTypes
<1>7. IsRecord(NewRecord(TRUE))
  BY Zenon DEF IsRecord, NewRecord
<1>8. GroupTypes'
  BY ZenonT(40), <1>0, <1>4, <1>6, <1>7 DEF GroupTypes, Quiet, IsRecord
<1>9. 0 \in Ranks /\ rec'[0] = rec[0] /\ s # 0
  BY Zenon, <1>0, <1>2, <1>6, EndsOf DEF GroupTypes
<1>10. ASSUME NEW m \in Members
       PROVE  Joined(m)'
  <2>1. /\ m \in Ranks /\ m # 0 /\ <<0, m>> \in Ends /\ <<m, 0>> \in Ends /\ Joined(m)
    BY Zenon, <1>0, EndsOf DEF GroupTypes, GroupInv
  <2>2. chan'[<<m, 0>>] = chan[<<m, 0>>]
    BY Zenon, <1>2, <1>4, <2>1
  <2>3. CASE m = s
    BY Zenon, <1>0, <1>3, <1>5, <1>6, <1>9, <2>1, <2>2, <2>3 DEF Joined
  <2>4. CASE m # s
    <3>1. chan'[<<0, m>>] = chan[<<0, m>>]
      BY Zenon, <1>2, <1>4, <2>1, <2>4
    <3> QED BY Zenon, <1>0, <1>6, <1>9, <2>1, <2>2, <2>4, <3>1 DEF Joined
  <2> QED BY Zenon, <2>3, <2>4
<1> QED BY Zenon, <1>0, <1>8, <1>9, <1>10 DEF GroupInv

\* An ack is counted: the member it comes from has attached. Only the
\* coordinator's count matters, and it is full when it holds every member.
LEMMA ReadAckKeeps ==
  ASSUME GroupInv, NEW r, NEW s, <<r, s>> \in Ends, s \in Ranks, r \in Ranks, ReadAck(r, s)
  PROVE  GroupInv'
<1>0. /\ GroupTypes /\ boot' = boot /\ create' = create /\ builder' = builder
      /\ Ranks' = Ranks /\ Members' = Members /\ Ends' = Ends
      /\ chan[<<r, s>>] # <<>> /\ Head(chan[<<r, s>>]).kind = "ack" /\ IsSeq(chan[<<r, s>>])
  BY Zenon DEF GroupInv, GroupTypes, ReadAck, Reads, Ranks, Members, Ends
<1>1. Carries(chan[<<r, s>>], "ack")
  <2> DEFINE c == chan[<<r, s>>]
  <2>1. Len(c) > 0 /\ Len(c) \in Nat /\ c[1].kind = "ack"
    BY Zenon, <1>0, TailLink DEF IsSeq
  <2> HIDE DEF c
  <2>2. Carries(c, "ack")
    BY <2>1 DEF Carries
  <2> QED BY Zenon, <2>2 DEF c
<1>2. DOMAIN chan' = Ends /\ \A p \in Ends : Quiet(chan[p], chan'[p])
  BY Zenon, <1>0, PoppedQuiet DEF ReadAck
<1>3. /\ DOMAIN rec' = Ranks /\ \A q \in Ranks \ {s} : rec'[q] = rec[q]
      /\ rec'[s] = [rec[s] EXCEPT !.acks = @ \cup {r},
                                  !.ready = @ \/ rec[s].acks \cup {r} = Members]
  BY Zenon, <1>0 DEF ReadAck, GroupTypes
<1>4. IsRecord(rec[s])
  BY Zenon, <1>0 DEF GroupTypes
<1>5. /\ IsRecord(rec'[s]) /\ rec'[s].attached = rec[s].attached
      /\ rec'[s].acks = rec[s].acks \cup {r}
      /\ rec'[s].ready => rec[s].ready \/ rec[s].acks \cup {r} = Members
  <2> DEFINE a == rec[s].acks \cup {r}
             b == rec[s].ready \/ a = Members
  <2>1. a \in SUBSET Ranks /\ b \in BOOLEAN
    BY Zenon, <1>4 DEF IsRecord
  <2>2. rec'[s] = [rec[s] EXCEPT !.acks = a, !.ready = b]
    BY Zenon, <1>3
  <2> HIDE DEF a, b
  <2>3. IsRecord(rec'[s]) /\ rec'[s].attached = rec[s].attached /\ rec'[s].acks = a /\ rec'[s].ready = b
    BY Zenon, <1>4, <2>1, <2>2 DEF IsRecord
  <2> QED BY Zenon, <2>3 DEF a, b
<1>6. GroupTypes'
  BY Zenon, <1>0, <1>2, <1>3, <1>5 DEF GroupTypes, Quiet, IsRecord
<1>7. 0 \in Ranks /\ \A q \in Ranks : rec'[q].attached = rec[q].attached
  BY Zenon, <1>0, <1>3, <1>5, EndsOf DEF GroupTypes
<1>8. \A m \in Members : m \in rec'[0].acks => m \in rec[0].acks \/ (s = 0 /\ m = r)
  BY ZenonT(40), <1>3, <1>5, <1>7
<1>9. ASSUME NEW m \in Members
      PROVE  Joined(m)'
  <2>1. /\ m \in Ranks /\ m # 0 /\ <<0, m>> \in Ends /\ <<m, 0>> \in Ends /\ Joined(m)
    BY Zenon, <1>0, EndsOf DEF GroupTypes, GroupInv
  <2>2. /\ Once(chan'[<<0, m>>])
        /\ Carries(chan'[<<0, m>>], "join") => Carries(chan[<<0, m>>], "join")
        /\ Carries(chan'[<<m, 0>>], "join") => Carries(chan[<<m, 0>>], "join")
        /\ Carries(chan'[<<m, 0>>], "ack") => Carries(chan[<<m, 0>>], "ack")
    BY Zenon, <1>2, <2>1 DEF Quiet, Joined
  <2>3. CASE s = 0 /\ m = r
    <3>1. rec[m].attached /\ ~Carries(chan[<<0, m>>], "join") /\ create # "idle"
      BY Zenon, <1>1, <2>1, <2>3 DEF Joined
    <3> QED BY Zenon, <1>0, <1>7, <2>1, <2>2, <3>1 DEF Joined
  <2>4. CASE ~(s = 0 /\ m = r)
    <3>1. m \in rec'[0].acks => m \in rec[0].acks
      BY Zenon, <1>8, <2>4
    <3> QED BY Zenon, <1>0, <1>7, <2>1, <2>2, <3>1 DEF Joined
  <2> QED BY Zenon, <2>3, <2>4
<1>10. rec'[0].ready => Members \subseteq rec'[0].acks
  <2>1. rec[0].ready => Members \subseteq rec[0].acks
    BY Zenon DEF GroupInv
  <2>2. CASE s = 0
    BY Zenon, <1>5, <2>1, <2>2
  <2>3. CASE s # 0
    BY Zenon, <1>3, <1>7, <2>1, <2>3
  <2> QED BY Zenon, <2>2, <2>3
<1> QED BY Zenon, <1>0, <1>6, <1>9, <1>10 DEF GroupInv

-----------------------------------------------------------------------------
(* The theorem. *)

\* A connected star starts in the invariant.
LEMMA GroupInit == Init => GroupInv
<1> SUFFICES ASSUME Init PROVE GroupInv
  BY Zenon
<1>1. boot.world \in Nat \ {0}
  BY Zenon, FleetsAssumption DEF Init
<1>2. /\ DOMAIN chan = Ends
      /\ \A p \in Ends : chan[p] = <<>> \/ chan[p] = <<[kind |-> "info"]>>
  BY Zenon DEF Init
<1> DEFINE info == [kind |-> "info"]
<1>3. /\ IsSeq(<<>>) /\ Once(<<>>) /\ ~Carries(<<>>, "join") /\ ~Carries(<<>>, "ack")
      /\ IsSeq(<<info>>) /\ Once(<<info>>)
      /\ ~Carries(<<info>>, "join") /\ ~Carries(<<info>>, "ack")
  <2>1. info.kind \notin {"join", "ack"}
    BY Zenon
  <2> HIDE DEF info
  <2>2. Len(<<info>>) = 1 /\ <<info>>[1] = info /\ IsSeq(<<info>>)
    BY DEF IsSeq
  <2>3. Once(<<info>>) /\ ~Carries(<<info>>, "join") /\ ~Carries(<<info>>, "ack")
    BY <2>1, <2>2 DEF Once, Carries
  <2>4. IsSeq(<<>>) /\ Once(<<>>) /\ ~Carries(<<>>, "join") /\ ~Carries(<<>>, "ack")
    BY DEF IsSeq, Once, Carries
  <2> QED BY Zenon, <2>2, <2>3, <2>4
<1>4. \A p \in Ends :
        IsSeq(chan[p]) /\ Once(chan[p]) /\ ~Carries(chan[p], "join") /\ ~Carries(chan[p], "ack")
  BY Zenon, <1>2, <1>3
<1>5. /\ DOMAIN rec = Ranks /\ DOMAIN builder = Ranks
      /\ \A r \in Ranks : /\ builder[r] = "none" /\ rec[r] = [NewRecord(FALSE) EXCEPT !.known = FALSE]
  BY Zenon DEF Init
<1>6. \A r \in Ranks : IsRecord(rec[r]) /\ ~rec[r].ready /\ rec[r].acks = {}
  BY ZenonT(40), <1>5 DEF IsRecord, NewRecord
<1>7. GroupTypes
  BY Zenon, <1>1, <1>2, <1>4, <1>5, <1>6 DEF GroupTypes
<1>8. \A m \in Members : Joined(m)
  BY Zenon, <1>1, <1>4, <1>5, <1>6, EndsOf DEF Joined
<1> QED BY Zenon, <1>1, <1>6, <1>7, <1>8, EndsOf DEF GroupInv

\* Every step keeps it.
LEMMA GroupNext == GroupInv /\ [Next]_vars => GroupInv'
<1> SUFFICES ASSUME GroupInv, [Next]_vars PROVE GroupInv'
  BY Zenon
<1>1. ASSUME NEW r \in Ranks, (CallerStep(r) \/ StreamStep(r) \/ WorkerStep(r)) /\ UNCHANGED groupVars
      PROVE  GroupInv'
  BY Zenon, <1>1, CollectiveKeeps
<1>2. ASSUME NEW r \in Ranks, WorkerFails(r)
      PROVE  GroupInv'
  BY Zenon, <1>2, FailureKeeps
<1>3. ASSUME NEW r \in Ranks, BuildStep(r)
      PROVE  GroupInv'
  BY Zenon, <1>3, AttachKeeps, AckKeeps DEF BuildStep
<1>4. ASSUME NEW p \in Ends, ReadStep(p[1], p[2])
      PROVE  GroupInv'
  <2>1. <<p[1], p[2]>> \in Ends /\ <<p[2], p[1]>> \in Ends /\ p[1] \in Ranks /\ p[2] \in Ranks
    BY EndsOf DEF GroupInv, GroupTypes
  <2> QED BY Zenon, <1>4, <2>1, ReadOtherKeeps, ReadJoinKeeps, ReadAckKeeps DEF ReadStep
<1>5. CASE CreateStep
  BY Zenon, <1>5, CreateKeeps, BarrierKeeps DEF CreateStep
<1>6. CASE ProbeOk \/ ProbeFails
  BY Zenon, <1>6, ProbeKeeps
<1>7. ASSUME NEW m \in Members, Break(m)
      PROVE  GroupInv'
  BY Zenon, <1>7, BreakKeeps
<1>8. CASE UNCHANGED vars
  <2>1. /\ boot' = boot /\ rec' = rec /\ builder' = builder /\ create' = create /\ chan' = chan
        /\ GroupTypes
    BY Zenon, <1>8 DEF vars, linkVars, groupVars, GroupInv
  <2>2. DOMAIN chan' = Ends /\ \A p \in Ends : Quiet(chan[p], chan'[p])
    BY Zenon, <2>1, LinksQuiet DEF GroupTypes
  <2> QED BY Zenon, <2>1, <2>2, QuietLinks
<1> QED BY Zenon, <1>1, <1>2, <1>3, <1>4, <1>5, <1>6, <1>7, <1>8 DEF Next

\* For every fleet, whatever fails, breaks or is late: when the coordinator's
\* barrier is full every member has attached its backend (nm.py CommBuild sends
\* the ack after the attachment, and the barrier counts each member once).
THEOREM BarrierMeansAttached == Spec => []AttachmentBarrier
<1>1. GroupInv => AttachmentBarrier
  BY Zenon DEF GroupInv, AttachmentBarrier, Joined
<1> QED BY <1>1, GroupInit, GroupNext, PTL DEF Spec
=============================================================================
