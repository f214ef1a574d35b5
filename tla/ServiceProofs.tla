--------------------------- MODULE ServiceProofs ---------------------------
(***************************************************************************)
(* For every set of clients and scripts: a subscriber misses no event,     *)
(* though an emission, a subscription and its backlog are critical         *)
(* sections of their own and the pushes happen outside all of them.        *)
(*                                                                         *)
(* The invariant follows an event from the list a thread has still to push *)
(* to the socket and to the client's queue, and says that the ring holds   *)
(* the latest events without a gap.                                        *)
(***************************************************************************)
EXTENDS Service, Integers, SequenceTheorems, TLAPS

-----------------------------------------------------------------------------
(* Sequences by their elements. *)

IsSeq(s) == Len(s) \in Nat /\ s = [i \in 1..Len(s) |-> s[i]]

Elems(s) == {s[i] : i \in 1..Len(s)}

\* The empty sequence has no elements.
LEMMA EmptyElems == IsSeq(<<>>) /\ Elems(<<>>) = {} /\ Len(<<>>) = 0
BY DEF IsSeq, Elems

\* What Append does.
LEMMA AppendElems ==
  ASSUME NEW s, IsSeq(s), NEW x
  PROVE  /\ IsSeq(Append(s, x)) /\ Elems(Append(s, x)) = Elems(s) \cup {x}
         /\ Len(Append(s, x)) = Len(s) + 1
         /\ \A i \in 1..Len(s) : Append(s, x)[i] = s[i]
         /\ Append(s, x)[Len(s) + 1] = x
         /\ Append(s, x) # <<>>
<1> DEFINE S == Elems(s) \cup {x}
<1>1. s \in Seq(S)
  BY SeqDef DEF IsSeq, Elems
<1>2. x \in S
  BY Zenon
<1>3. /\ Append(s, x) \in Seq(S) /\ Len(Append(s, x)) = Len(s) + 1
      /\ \A i \in 1..Len(s) : Append(s, x)[i] = s[i]
      /\ Append(s, x)[Len(s) + 1] = x
  BY <1>1, <1>2, AppendProperties
<1> HIDE DEF S
<1>4. \A t \in Seq(S) : IsSeq(t)
  BY DEF IsSeq
<1>5. Elems(Append(s, x)) = Elems(s) \cup {x}
  <2>1. 1..(Len(s) + 1) = (1..Len(s)) \cup {Len(s) + 1}
    BY DEF IsSeq
  <2>2. \A y : y \in Elems(Append(s, x)) <=> y \in Elems(s) \/ y = x
    BY Zenon, <1>3, <2>1 DEF Elems
  <2> QED BY Zenon, <2>2
<1>6. Append(s, x) # <<>>
  BY <1>3 DEF IsSeq
<1> QED BY Zenon, <1>3, <1>4, <1>5, <1>6

\* What Head and Tail are.
LEMMA TailElems ==
  ASSUME NEW s, IsSeq(s), s # <<>>
  PROVE  /\ IsSeq(Tail(s)) /\ Elems(s) = Elems(Tail(s)) \cup {Head(s)}
         /\ Len(s) > 0 /\ Len(Tail(s)) = Len(s) - 1
         /\ \A i \in 1..Len(Tail(s)) : Tail(s)[i] = s[i + 1]
         /\ Head(s) = s[1]
<1> DEFINE S == Elems(s)
<1>1. s \in Seq(S)
  BY SeqDef DEF IsSeq, Elems
<1> HIDE DEF S
<1>2. \A t \in Seq(S) : IsSeq(t)
  BY DEF IsSeq
<1>3. /\ Tail(s) \in Seq(S) /\ Len(s) > 0 /\ Len(Tail(s)) = Len(s) - 1
      /\ \A i \in 1..Len(Tail(s)) : Tail(s)[i] = s[i + 1]
  BY <1>1, HeadTailProperties, EmptySeq
<1>4. Head(s) = s[1]
  BY <1>1
<1>5. Elems(s) = Elems(Tail(s)) \cup {Head(s)}
  <2>1. Len(s) \in Nat
    BY Zenon DEF IsSeq
  <2>2. \A i \in 1..Len(s) : i = 1 \/ (i - 1 \in 1..Len(Tail(s)) /\ (i - 1) + 1 = i)
    BY <2>1, <1>3
  <2>3. \A y \in Elems(s) : y \in Elems(Tail(s)) \cup {Head(s)}
    <3> SUFFICES ASSUME NEW i \in 1..Len(s) PROVE s[i] \in Elems(Tail(s)) \cup {Head(s)}
      BY Zenon DEF Elems
    <3>1. CASE i = 1
      BY Zenon, <3>1, <1>4
    <3>2. CASE i # 1
      <4>1. i - 1 \in 1..Len(Tail(s)) /\ Tail(s)[i - 1] = s[i]
        BY Zenon, <3>2, <2>2, <1>3
      <4> QED BY Zenon, <4>1 DEF Elems
    <3> QED BY Zenon, <3>1, <3>2
  <2>4. \A i \in 1..Len(Tail(s)) : i + 1 \in 1..Len(s)
    BY <2>1, <1>3
  <2>5. \A y \in Elems(Tail(s)) \cup {Head(s)} : y \in Elems(s)
    BY <2>1, <2>4, <1>3, <1>4 DEF Elems
  <2> QED BY Zenon, <2>3, <2>5
<1> QED BY Zenon, <1>2, <1>3, <1>4, <1>5

-----------------------------------------------------------------------------
(* The inductive invariant. *)

Kinds == {"result", "ticket", "call_done", "event"}

\* A client library; its queues of replies and tickets are not of interest here.
IsLib(x) ==
  /\ x = [closed |-> x.closed, swept |-> x.swept, replies |-> x.replies,
          tickets |-> x.tickets, orphans |-> x.orphans, events |-> x.events]
  /\ IsSeq(x.events)

\* What the clients have still to ask for, and what is on its way to the daemon.
ClientTypes ==
  /\ DOMAIN caller = Clients /\ DOMAIN script = Clients /\ DOMAIN up = Clients
  /\ \A c \in Clients :
       /\ IsSeq(script[c]) /\ \A q \in Elems(script[c]) : Proper(q)
       /\ caller[c] # "idle" => script[c] # <<>>
       /\ IsSeq(up[c])
       /\ \A f \in Elems(up[c]) : Proper(f.req) \/ f.req.op = "eof"

\* What is on its way to the clients.
DownTypes ==
  /\ down = [c \in Clients |-> down[c]] /\ DOMAIN lib = Clients
  /\ DOMAIN pushes = Threads
  /\ \A c \in Clients : /\ IsSeq(down[c]) /\ \A f \in Elems(down[c]) : f.kind \in Kinds
                        /\ IsLib(lib[c])

\* The connections and their subscriptions.
ConnTypes ==
  /\ DOMAIN live = Clients /\ DOMAIN conn = Clients /\ DOMAIN since = Clients
  /\ subscribers \subseteq Clients
  /\ \A c \in Clients :
       /\ conn[c] = [pc |-> conn[c].pc, id |-> conn[c].id, req |-> conn[c].req]
       /\ conn[c].pc \in {"subscribe", "backlog"} => conn[c].req.arg \in Nat
       /\ since[c] \in [replayed : BOOLEAN, from : Nat]
       /\ live[c] /\ (conn[c].pc = "backlog" \/ since[c].replayed) => c \in subscribers

\* The ring holds the latest events, without a gap.
RingInv ==
  /\ seq \in Nat /\ ring \in Seq(Nat) /\ Len(ring) \in 1..seq
  /\ \A i \in 1..Len(ring) : ring[i] + Len(ring) = seq + i

\* An event has reached client c or is on its way: Reaches, by elements.
Reached(c, e) ==
  \/ e \in Elems(lib[c].events)
  \/ \E f \in Elems(down[c]) : f.kind = "event" /\ f.seq = e
  \/ \E t \in Threads : <<c, e>> \in pushes[t]

Hears(c) == since[c].replayed /\ live[c] /\ ~lib[c].closed

Delivered == \A c \in Clients : Hears(c) => \A e \in (since[c].from + 1)..seq : Reached(c, e)

EventInv == ClientTypes /\ DownTypes /\ ConnTypes /\ RingInv /\ Delivered

-----------------------------------------------------------------------------
(* What keeps the parts of the invariant. *)

\* A library that keeps its events, and stays closed if it is.
LibKept ==
  /\ DOMAIN lib' = Clients
  /\ \A c \in Clients : /\ IsLib(lib'[c]) /\ lib'[c].events = lib[c].events
                        /\ lib[c].closed => lib'[c].closed

\* A step that lets what has reached a client reach it still.
LEMMA StillDelivered ==
  ASSUME Delivered, since' = since, seq' = seq,
         \A c \in Clients : (live'[c] => live[c]) /\ (lib[c].closed => lib'[c].closed),
         \A c \in Clients : \A e : Hears(c)' /\ Reached(c, e) => Reached(c, e)'
  PROVE  Delivered'
BY Zenon DEF Delivered, Hears

\* Connections and ring, left alone.
LEMMA ConnSame ==
  ASSUME ConnTypes, conn' = conn, since' = since, subscribers' = subscribers, live' = live
  PROVE  ConnTypes'
BY Zenon DEF ConnTypes

\* The ring, left alone.
LEMMA RingSame ==
  ASSUME RingInv, ring' = ring, seq' = seq
  PROVE  RingInv'
BY Zenon DEF RingInv

\* The clients' side, left alone.
LEMMA ClientSame ==
  ASSUME ClientTypes, caller' = caller, script' = script, up' = up
  PROVE  ClientTypes'
BY Zenon DEF ClientTypes

\* A step of a client's threads that moves no event.
LEMMA ClientSide ==
  ASSUME EventInv, ClientTypes', LibKept, down' = down, pushes' = pushes, live' = live,
         UNCHANGED server
  PROVE  EventInv'
<1>1. ConnTypes' /\ RingInv'
  BY Zenon, ConnSame, RingSame DEF EventInv, server
<1>2. DownTypes'
  BY Zenon DEF EventInv, DownTypes, LibKept
<1>3. Delivered'
  <2>1. \A c \in Clients : \A e : Reached(c, e) => Reached(c, e)'
    BY Zenon DEF Reached, LibKept
  <2> QED BY Zenon, <2>1, StillDelivered DEF EventInv, server, LibKept
<1> QED BY Zenon, <1>1, <1>2, <1>3 DEF EventInv

\* The end of a call takes the request off the script.
LEMMA EndsKeeps ==
  ASSUME ClientTypes, NEW c \in Clients, script[c] # <<>>, NEW outcome, Ends(c, outcome), up' = up
  PROVE  ClientTypes'
<1>1. IsSeq(Tail(script[c])) /\ Elems(Tail(script[c])) \subseteq Elems(script[c])
  BY Zenon, TailElems DEF ClientTypes
<1>2. /\ script' = [script EXCEPT ![c] = Tail(script[c])]
      /\ caller' = [caller EXCEPT ![c] = "idle"]
  BY Zenon DEF Ends
<1> QED BY Zenon, <1>1, <1>2 DEF ClientTypes

\* A library with another reply, ticket or orphan, or one that is swept or closed.
LEMMA LibChange ==
  ASSUME DownTypes, NEW c \in Clients, NEW v,
         \/ lib' = lib
         \/ lib' = [lib EXCEPT ![c].replies = v]
         \/ lib' = [lib EXCEPT ![c].tickets = v]
         \/ lib' = [lib EXCEPT ![c].orphans = v]
         \/ lib' = [lib EXCEPT ![c].swept = TRUE]
         \/ lib' = [lib EXCEPT ![c].closed = TRUE]
         \/ lib' = [lib EXCEPT ![c].closed = TRUE, ![c].swept = TRUE]
  PROVE  LibKept
BY SMTT(30) DEF DownTypes, LibKept, IsLib

\* The calling thread.
LEMMA CallerKeeps ==
  ASSUME EventInv, NEW c \in Clients, CallerStep(c)
  PROVE  EventInv'
<1>0. /\ ClientTypes /\ DownTypes
      /\ down' = down /\ pushes' = pushes /\ live' = live /\ UNCHANGED server
  BY Zenon DEF EventInv, CallerStep, Begin, AwaitReply, Send, TakeReply, RegisterTicket, WaitTicket
<1>1. CASE Begin(c)
  <2>1. lib' = lib /\ up' = up /\ script[c] # <<>>
    BY Zenon, <1>1 DEF Begin
  <2>2. CASE lib[c].closed
    BY Zenon, <1>0, <1>1, <2>1, <2>2, EndsKeeps, LibChange, ClientSide DEF Begin
  <2>3. CASE ~lib[c].closed
    <3>1. ClientTypes'
      BY Zenon, <1>0, <1>1, <2>1, <2>3 DEF Begin, ClientTypes
    <3> QED BY Zenon, <1>0, <2>1, <3>1, LibChange, ClientSide
  <2> QED BY Zenon, <2>2, <2>3
<1>2. CASE AwaitReply(c)
  <2>1. ClientTypes'
    BY Zenon, <1>0, <1>2 DEF AwaitReply, ClientTypes
  <2>2. LibKept
    BY Zenon, <1>0, <1>2, LibChange DEF AwaitReply
  <2> QED BY Zenon, <1>0, <2>1, <2>2, ClientSide
<1>3. CASE Send(c)
  <2>1. lib' = lib /\ caller[c] = "send" /\ script[c] # <<>>
    BY Zenon, <1>0, <1>3 DEF Send, ClientTypes
  <2>2. CASE live[c]
    <3> DEFINE frame == [id |-> Len(answers[c]), req |-> Request(c)]
    <3>1. Proper(Request(c))
      BY Zenon, <1>0, <2>1, TailElems DEF Request, ClientTypes
    <3>2. /\ up' = [up EXCEPT ![c] = Append(up[c], frame)]
          /\ caller' = [caller EXCEPT ![c] = "reply"] /\ script' = script
      BY Zenon, <1>3, <2>2 DEF Send
    <3>3. IsSeq(Append(up[c], frame)) /\ Elems(Append(up[c], frame)) = Elems(up[c]) \cup {frame}
      BY Zenon, <1>0, AppendElems DEF ClientTypes
    <3>4. Proper(frame.req)
      BY Zenon, <3>1
    <3> HIDE DEF frame
    <3>5. ClientTypes'
      BY Zenon, <1>0, <2>1, <3>2, <3>3, <3>4 DEF ClientTypes
    <3> QED BY Zenon, <1>0, <2>1, <3>5, LibChange, ClientSide
  <2>3. CASE ~live[c]
    BY Zenon, <1>0, <1>3, <2>1, <2>3, EndsKeeps, LibChange, ClientSide DEF Send
  <2> QED BY Zenon, <2>2, <2>3
<1>4. CASE TakeReply(c)
  <2>1. lib' = lib /\ up' = up /\ caller[c] = "reply" /\ script[c] # <<>>
    BY Zenon, <1>0, <1>4 DEF TakeReply, ClientTypes
  <2>2. CASE \E outcome : Ends(c, outcome)
    BY Zenon, <1>0, <2>1, <2>2, EndsKeeps, LibChange, ClientSide
  <2>3. CASE caller' = [caller EXCEPT ![c] = "ticket"] /\ script' = script
    <3>1. ClientTypes'
      BY Zenon, <1>0, <2>1, <2>3 DEF ClientTypes
    <3> QED BY Zenon, <1>0, <2>1, <3>1, LibChange, ClientSide
  <2> QED BY Zenon, <1>4, <2>2, <2>3 DEF TakeReply
<1>5. CASE RegisterTicket(c)
  <2>1. ClientTypes'
    BY Zenon, <1>0, <1>5 DEF RegisterTicket, ClientTypes
  <2>2. LibKept
    BY Zenon, <1>0, <1>5, LibChange DEF RegisterTicket
  <2> QED BY Zenon, <1>0, <2>1, <2>2, ClientSide
<1>6. CASE WaitTicket(c)
  <2>1. lib' = lib /\ up' = up /\ caller[c] = "wait" /\ script[c] # <<>>
    BY Zenon, <1>0, <1>6 DEF WaitTicket, ClientTypes
  <2> QED BY Zenon, <1>0, <1>6, <2>1, EndsKeeps, LibChange, ClientSide DEF WaitTicket
<1> QED BY Zenon, <1>1, <1>2, <1>3, <1>4, <1>5, <1>6 DEF CallerStep

\* The reader, which moves events from the socket to the client's queue, and the end of a client.
LEMMA ReaderKeeps ==
  ASSUME EventInv, NEW c \in Clients, ReaderStep(c) \/ Disconnect(c)
  PROVE  EventInv'
<1>0. /\ ClientTypes /\ DownTypes /\ ConnTypes /\ RingInv /\ Delivered
      /\ script' = script /\ caller' = caller /\ live' = live /\ pushes' = pushes
      /\ UNCHANGED server
  BY Zenon DEF EventInv, ReaderStep, ReadFrame, ReadEnd, Sweep, Disconnect
<1>1. CASE ReadFrame(c)
  <2> DEFINE f == Head(down[c])
  <2>1. /\ down[c] # <<>> /\ down' = [down EXCEPT ![c] = Tail(down[c])] /\ up' = up
    BY Zenon, <1>1 DEF ReadFrame
  <2>2. /\ IsSeq(Tail(down[c])) /\ Elems(down[c]) = Elems(Tail(down[c])) \cup {f}
        /\ f.kind \in Kinds
    <3>1. IsSeq(Tail(down[c])) /\ Elems(down[c]) = Elems(Tail(down[c])) \cup {f}
      BY Zenon, <1>0, <2>1, TailElems DEF DownTypes
    <3> QED BY Zenon, <1>0, <3>1 DEF DownTypes
  <2>3. CASE f.kind # "event"
    <3>1. LibKept
      <4>1. CASE f.kind \in {"result", "ticket"}
        BY Zenon, <1>0, <1>1, <4>1, LibChange DEF ReadFrame
      <4>2. CASE f.kind = "call_done"
        <5>1. \/ lib' = [lib EXCEPT ![c].tickets = lib[c].tickets \ {f.ticket}]
              \/ lib' = [lib EXCEPT ![c].orphans =
                           With(lib[c].orphans, f.ticket, [ok |-> f.ok, of |-> f.of])]
          BY Zenon, <1>1, <4>2 DEF ReadFrame
        <5> QED BY Zenon, <1>0, <5>1, LibChange
      <4> QED BY Zenon, <2>2, <2>3, <4>1, <4>2 DEF Kinds
    <3>2. DownTypes'
      BY Zenon, <1>0, <2>1, <2>2, <3>1 DEF DownTypes, LibKept
    <3>3. \A d \in Clients : \A e : Reached(d, e) => Reached(d, e)'
      <4> SUFFICES ASSUME NEW d \in Clients, NEW e, Reached(d, e) PROVE Reached(d, e)'
        BY Zenon
      <4>1. CASE \E g \in Elems(down[d]) : g.kind = "event" /\ g.seq = e
        <5>1. PICK g \in Elems(down[d]) : g.kind = "event" /\ g.seq = e
          BY Zenon, <4>1
        <5>2. g \in Elems(down'[d])
          BY Zenon, <1>0, <2>1, <2>2, <2>3, <5>1 DEF DownTypes
        <5> QED BY Zenon, <5>1, <5>2 DEF Reached
      <4> QED BY Zenon, <1>0, <3>1, <4>1 DEF Reached, LibKept
    <3>4. Delivered'
      BY Zenon, <1>0, <3>1, <3>3, StillDelivered DEF LibKept, server
    <3> QED BY Zenon, <1>0, <2>1, <3>2, <3>4, ConnSame, RingSame, ClientSame DEF EventInv, server
  <2>4. CASE f.kind = "event"
    <3>1. lib' = [lib EXCEPT ![c].events = Append(lib[c].events, f.seq)]
      BY Zenon, <1>1, <2>4 DEF ReadFrame
    <3>2. /\ IsSeq(Append(lib[c].events, f.seq))
          /\ Elems(Append(lib[c].events, f.seq)) = Elems(lib[c].events) \cup {f.seq}
      BY Zenon, <1>0, AppendElems DEF DownTypes, IsLib
    <3>3. /\ DOMAIN lib' = Clients
          /\ \A d \in Clients : IsLib(lib'[d]) /\ lib'[d].closed = lib[d].closed
          /\ \A d \in Clients : d # c => lib'[d] = lib[d]
          /\ lib'[c].events = Append(lib[c].events, f.seq)
      <4> DEFINE x == lib[c]
      <4>1. /\ x = [closed |-> x.closed, swept |-> x.swept, replies |-> x.replies,
                    tickets |-> x.tickets, orphans |-> x.orphans, events |-> x.events]
            /\ DOMAIN lib = Clients
        BY Zenon, <1>0 DEF DownTypes, IsLib
      <4>2. lib'[c] = [closed |-> x.closed, swept |-> x.swept, replies |-> x.replies,
                       tickets |-> x.tickets, orphans |-> x.orphans,
                       events |-> Append(x.events, f.seq)]
        BY Zenon, <3>1, <4>1
      <4>3. DOMAIN lib' = Clients /\ \A d \in Clients : d # c => lib'[d] = lib[d]
        BY Zenon, <3>1, <4>1
      <4>4. \A d \in Clients : IsLib(lib[d])
        BY Zenon, <1>0 DEF DownTypes
      <4> HIDE DEF f
      <4>5. IsLib(lib'[c]) /\ lib'[c].closed = lib[c].closed /\ lib'[c].events = Append(x.events, f.seq)
        BY <3>2, <4>2 DEF IsLib
      <4> QED BY Zenon, <4>3, <4>4, <4>5
    <3>4. DownTypes'
      BY Zenon, <1>0, <2>1, <2>2, <3>3 DEF DownTypes
    <3>5. \A d \in Clients : \A e : Reached(d, e) => Reached(d, e)'
      <4> SUFFICES ASSUME NEW d \in Clients, NEW e, Reached(d, e) PROVE Reached(d, e)'
        BY Zenon
      <4>1. CASE d # c
        <5>1. lib'[d] = lib[d] /\ down'[d] = down[d] /\ pushes' = pushes
          BY Zenon, <1>0, <2>1, <3>3, <4>1 DEF DownTypes
        <5> QED BY Zenon, <5>1 DEF Reached
      <4>2. CASE d = c
        <5>1. CASE e \in Elems(lib[c].events)
          BY Zenon, <3>2, <3>3, <4>2, <5>1 DEF Reached
        <5>2. CASE \E g \in Elems(down[c]) : g.kind = "event" /\ g.seq = e
          <6>1. PICK g \in Elems(down[c]) : g.kind = "event" /\ g.seq = e
            BY Zenon, <5>2
          <6>2. CASE g = f
            BY Zenon, <3>2, <3>3, <4>2, <6>1, <6>2 DEF Reached
          <6>3. CASE g # f
            <7>1. g \in Elems(down'[c])
              BY Zenon, <1>0, <2>1, <2>2, <6>1, <6>3 DEF DownTypes
            <7> QED BY Zenon, <4>2, <6>1, <7>1 DEF Reached
          <6> QED BY Zenon, <6>2, <6>3
        <5>3. CASE \E t \in Threads : <<c, e>> \in pushes[t]
          BY Zenon, <1>0, <4>2, <5>3 DEF Reached
        <5> QED BY Zenon, <4>2, <5>1, <5>2, <5>3 DEF Reached
      <4> QED BY Zenon, <4>1, <4>2
    <3>6. Delivered'
      BY Zenon, <1>0, <3>3, <3>5, StillDelivered DEF server
    <3> QED BY Zenon, <1>0, <2>1, <3>4, <3>6, ConnSame, RingSame, ClientSame DEF EventInv, server
  <2> QED BY Zenon, <2>3, <2>4
<1>2. CASE ReadEnd(c) \/ Sweep(c)
  <2>1. LibKept /\ ClientTypes' /\ down' = down
    BY Zenon, <1>0, <1>2, LibChange, ClientSame DEF ReadEnd, Sweep
  <2> QED BY Zenon, <1>0, <2>1, ClientSide
<1>3. CASE Disconnect(c)
  <2> DEFINE frame == [id |-> 0, req |-> [op |-> "eof", arg |-> 0]]
  <2>1. /\ up' = [up EXCEPT ![c] = Append(up[c], frame)] /\ down' = down
        /\ LibKept
    BY Zenon, <1>0, <1>3, LibChange DEF Disconnect
  <2>2. IsSeq(Append(up[c], frame)) /\ Elems(Append(up[c], frame)) = Elems(up[c]) \cup {frame}
    BY Zenon, <1>0, AppendElems DEF ClientTypes
  <2>3. frame.req.op = "eof"
    BY Zenon
  <2> HIDE DEF frame
  <2>4. ClientTypes'
    BY Zenon, <1>0, <2>1, <2>2, <2>3 DEF ClientTypes
  <2> QED BY Zenon, <1>0, <2>1, <2>4, ClientSide
<1> QED BY Zenon, <1>1, <1>2, <1>3 DEF ReaderStep

-----------------------------------------------------------------------------
(* Pushes and events. *)

\* A push adds a frame, to a client that is there.
LEMMA PushAdds ==
  ASSUME DownTypes, NEW c, NEW frame, frame.kind \in Kinds, Push(c, frame)
  PROVE  /\ down' = [d \in Clients |-> down'[d]]
         /\ \A d \in Clients : /\ IsSeq(down'[d]) /\ \A f \in Elems(down'[d]) : f.kind \in Kinds
                               /\ Elems(down[d]) \subseteq Elems(down'[d])
         /\ c \in Clients /\ live[c] /\ ~lib[c].closed => frame \in Elems(down'[c])
<1>1. CASE live[c] /\ ~lib[c].closed /\ c \in Clients
  <2>1. down' = [down EXCEPT ![c] = Append(down[c], frame)]
    BY Zenon, <1>1 DEF Push
  <2>2. /\ IsSeq(Append(down[c], frame))
        /\ Elems(Append(down[c], frame)) = Elems(down[c]) \cup {frame}
    BY Zenon, <1>1, AppendElems DEF DownTypes
  <2> QED BY Zenon, <2>1, <2>2 DEF DownTypes
<1>2. CASE ~(live[c] /\ ~lib[c].closed /\ c \in Clients)
  <2>1. down' = down
    <3>1. CASE c \in Clients
      BY Zenon, <1>2, <3>1 DEF Push
    <3>2. CASE c \notin Clients
      <4>1. down' = down \/ down' = [down EXCEPT ![c] = Append(down[c], frame)]
        BY Zenon DEF Push
      <4>2. down = [d \in Clients |-> down[d]]
        BY Zenon DEF DownTypes
      <4> QED BY Zenon, <3>2, <4>1, <4>2
    <3> QED BY Zenon, <3>1, <3>2
  <2> QED BY Zenon, <1>2, <2>1 DEF DownTypes
<1> QED BY Zenon, <1>1, <1>2

\* A step that pushes at most an answer and emits nothing.
LEMMA AnswerStep ==
  ASSUME EventInv, NEW c, NEW frame, frame.kind \in Kinds, Push(c, frame) \/ down' = down,
         caller' = caller, script' = script, lib' = lib, pushes' = pushes,
         ClientTypes', ConnTypes', ring' = ring, seq' = seq, since' = since,
         \A d \in Clients : live'[d] => live[d]
  PROVE  EventInv'
<1>0. DownTypes /\ Delivered /\ RingInv
  BY Zenon DEF EventInv
<1>1. /\ down' = [d \in Clients |-> down'[d]]
      /\ \A d \in Clients : /\ IsSeq(down'[d]) /\ \A f \in Elems(down'[d]) : f.kind \in Kinds
                            /\ Elems(down[d]) \subseteq Elems(down'[d])
  BY Zenon, <1>0, PushAdds DEF DownTypes
<1>2. DownTypes'
  BY Zenon, <1>0, <1>1 DEF DownTypes
<1>3. \A d \in Clients : \A e : Reached(d, e) => Reached(d, e)'
  BY Zenon, <1>1 DEF Reached
<1>4. Delivered'
  BY Zenon, <1>0, <1>3, StillDelivered
<1> QED BY Zenon, <1>0, <1>2, <1>4, RingSame DEF EventInv

\* Pushing an event takes it off the list and puts it on the socket.
LEMMA PushEventKeeps ==
  ASSUME EventInv, NEW t \in Threads, PushEvent(t)
  PROVE  EventInv'
<1>0. /\ ClientTypes /\ DownTypes /\ ConnTypes /\ RingInv /\ Delivered
      /\ script' = script /\ UNCHANGED client /\ up' = up /\ live' = live /\ UNCHANGED server
  BY Zenon DEF EventInv, PushEvent
<1>1. PICK p \in pushes[t] : /\ Push(p[1], [kind |-> "event", seq |-> p[2]])
                              /\ pushes' = [pushes EXCEPT ![t] = pushes[t] \ {p}]
  BY Zenon DEF PushEvent
<1> DEFINE frame == [kind |-> "event", seq |-> p[2]]
<1>2. Push(p[1], frame)
  BY Zenon, <1>1
<1>3. frame.kind = "event" /\ frame.seq = p[2] /\ frame.kind \in Kinds
  BY Zenon DEF Kinds
<1> HIDE DEF frame
<1>4. /\ down' = [d \in Clients |-> down'[d]]
      /\ \A d \in Clients : /\ IsSeq(down'[d]) /\ \A f \in Elems(down'[d]) : f.kind \in Kinds
                            /\ Elems(down[d]) \subseteq Elems(down'[d])
      /\ p[1] \in Clients /\ live[p[1]] /\ ~lib[p[1]].closed => frame \in Elems(down'[p[1]])
  BY Zenon, <1>0, <1>2, <1>3, PushAdds
<1>5. DownTypes'
  BY Zenon, <1>0, <1>1, <1>4 DEF DownTypes, client
<1>6. \A d \in Clients : \A e : Hears(d)' /\ Reached(d, e) => Reached(d, e)'
  <2> SUFFICES ASSUME NEW d \in Clients, NEW e, Hears(d)', Reached(d, e) PROVE Reached(d, e)'
    BY Zenon
  <2>1. CASE \E u \in Threads : <<d, e>> \in pushes[u]
    <3>1. PICK u \in Threads : <<d, e>> \in pushes[u]
      BY Zenon, <2>1
    <3>2. CASE <<d, e>> \in pushes'[u]
      BY Zenon, <3>2 DEF Reached
    <3>3. CASE <<d, e>> \notin pushes'[u]
      <4>1. <<d, e>> = p
        BY Zenon, <1>0, <1>1, <3>1, <3>3 DEF DownTypes
      <4>2. p[1] = d /\ p[2] = e
        BY Zenon, <4>1
      <4>3. frame \in Elems(down'[d])
        BY Zenon, <1>0, <1>4, <4>2 DEF Hears, client
      <4> QED BY Zenon, <1>3, <4>2, <4>3 DEF Reached
    <3> QED BY Zenon, <3>2, <3>3
  <2> QED BY Zenon, <1>0, <1>4, <2>1 DEF Reached, client
<1>7. Delivered'
  BY Zenon, <1>0, <1>6, StillDelivered DEF client, server
<1> QED BY Zenon, <1>0, <1>5, <1>7, ClientSame, ConnSame, RingSame DEF EventInv, client, server

\* Emitting an event extends the ring and lists a push for every subscriber.
LEMMA EmitKeeps ==
  ASSUME EventInv, NEW t \in Threads, pushes[t] = {}, Emit(t),
         UNCHANGED <<script, caller, lib, up, down, live, since, subscribers>>, ConnTypes'
  PROVE  EventInv'
<1>0. ClientTypes /\ DownTypes /\ ConnTypes /\ RingInv /\ Delivered
  BY Zenon DEF EventInv
<1> DEFINE longer == Append(ring, seq + 1)
           S == {<<c, seq + 1>> : c \in subscribers}
<1>1. /\ seq' = seq + 1 /\ ring' = IF Len(longer) > RingCap THEN Tail(longer) ELSE longer
      /\ pushes' = [pushes EXCEPT ![t] = S]
  BY Zenon DEF Emit
<1>2. RingInv'
  <2>1. /\ seq \in Nat /\ ring \in Seq(Nat) /\ Len(ring) \in 1..seq /\ IsSeq(ring)
        /\ \A i \in 1..Len(ring) : ring[i] + Len(ring) = seq + i
    BY SMTT(30), <1>0 DEF RingInv, IsSeq
  <2>2. /\ IsSeq(longer) /\ Len(longer) = Len(ring) + 1 /\ longer # <<>>
        /\ \A i \in 1..Len(ring) : longer[i] = ring[i]
        /\ longer[Len(ring) + 1] = seq + 1
    BY SMTT(30), <2>1, AppendElems
  <2>3. longer \in Seq(Nat)
    BY <2>1
  <2> HIDE DEF longer
  <2>4. \A i \in 1..Len(longer) : longer[i] + Len(longer) = (seq + 1) + i
    <3> SUFFICES ASSUME NEW i \in 1..Len(longer) PROVE longer[i] + Len(longer) = (seq + 1) + i
      BY Zenon
    <3>1. CASE i \in 1..Len(ring)
      <4>1. longer[i] = ring[i] /\ ring[i] + Len(ring) = seq + i /\ ring[i] \in Nat
        BY SMTT(30), <2>1, <2>2, <3>1
      <4>2. /\ i \in Nat /\ seq \in Nat /\ Len(ring) \in Nat /\ ring[i] \in Nat
            /\ Len(longer) = Len(ring) + 1
        BY <2>1, <2>2, <3>1, <4>1
      <4>3. longer[i] + Len(longer) = ring[i] + (Len(ring) + 1)
        BY Zenon, <4>1, <4>2
      <4>4. ring[i] + (Len(ring) + 1) = (ring[i] + Len(ring)) + 1
        BY SMTT(30), <4>2
      <4>5. (seq + i) + 1 = (seq + 1) + i
        BY <4>2
      <4> QED BY Zenon, <4>1, <4>3, <4>4, <4>5
    <3>2. CASE i = Len(ring) + 1
      BY Zenon, <2>1, <2>2, <3>2
    <3> QED BY <2>1, <2>2, <3>1, <3>2
  <2>5. CASE ring' = longer
    <3>1. seq + 1 \in Nat /\ Len(longer) \in 1..(seq + 1)
      BY <2>1, <2>2
    <3> QED BY Zenon, <1>1, <2>3, <2>4, <2>5, <3>1 DEF RingInv
  <2>6. CASE ring' = Tail(longer)
    <3>1. /\ Tail(longer) \in Seq(Nat) /\ Len(Tail(longer)) = Len(longer) - 1
          /\ \A i \in 1..Len(Tail(longer)) : Tail(longer)[i] = longer[i + 1]
      BY <2>2, <2>3, TailElems
    <3>2. ASSUME NEW i \in 1..Len(Tail(longer))
          PROVE  Tail(longer)[i] + Len(Tail(longer)) = (seq + 1) + i
      <4>1. i + 1 \in 1..Len(longer) /\ Tail(longer)[i] = longer[i + 1]
        BY <2>1, <2>2, <3>1
      <4>2. longer[i + 1] + Len(longer) = (seq + 1) + (i + 1) /\ longer[i + 1] \in Nat
        BY <2>3, <2>4, <4>1
      <4>3. /\ i \in Nat /\ seq \in Nat /\ Len(longer) \in Nat /\ longer[i + 1] \in Nat
            /\ Len(Tail(longer)) = Len(longer) - 1
        BY <2>1, <2>2, <3>1, <4>1, <4>2
      <4>4. longer[i + 1] + (Len(longer) - 1) = (seq + 1) + i
        BY <4>2, <4>3
      <4> QED BY Zenon, <4>1, <4>3, <4>4
    <3> QED BY SMTT(30), <1>1, <2>1, <2>2, <2>6, <3>1, <3>2 DEF RingInv
  <2> QED BY Zenon, <1>1, <2>5, <2>6
<1>4. DownTypes'
  <2> HIDE DEF S
  <2> QED BY Zenon, <1>0, <1>1 DEF DownTypes
<1>5. Delivered'
  <2> SUFFICES ASSUME NEW c \in Clients, Hears(c)', NEW e \in (since[c].from + 1)..(seq + 1)
               PROVE  Reached(c, e)'
    BY Zenon, <1>1 DEF Delivered
  <2>1. Hears(c) /\ c \in subscribers
    BY Zenon, <1>0 DEF Hears, ConnTypes
  <2>2. DOMAIN pushes = Threads
    BY Zenon, <1>0 DEF DownTypes
  <2>3. CASE e = seq + 1
    <3>1. <<c, e>> \in pushes'[t]
      BY Zenon, <1>1, <2>1, <2>2, <2>3
    <3> QED BY Zenon, <3>1 DEF Reached
  <2>4. CASE e # seq + 1
    <3>1. e \in (since[c].from + 1)..seq
      BY SMTT(30), <1>0, <2>4 DEF RingInv, ConnTypes
    <3>2. Reached(c, e)
      BY Zenon, <1>0, <2>1, <3>1 DEF Delivered
    <3>3. ASSUME NEW u \in Threads, <<c, e>> \in pushes[u] PROVE Reached(c, e)'
      <4>1. u # t
        BY Zenon, <3>3
      <4>2. pushes'[u] = pushes[u]
        BY Zenon, <1>1, <2>2, <4>1
      <4> QED BY Zenon, <3>3, <4>2 DEF Reached
    <3> QED BY Zenon, <3>2, <3>3 DEF Reached
  <2> QED BY Zenon, <2>3, <2>4
<1> QED BY Zenon, <1>0, <1>2, <1>4, <1>5, ClientSame DEF EventInv

\* The backlog lists what the ring still holds of what the subscriber asked for.
LEMMA BacklogKeeps ==
  ASSUME EventInv, NEW c \in Clients, Backlog(c)
  PROVE  EventInv'
<1>0. /\ ClientTypes /\ DownTypes /\ ConnTypes /\ RingInv /\ Delivered
      /\ script' = script /\ UNCHANGED client /\ up' = up /\ down' = down /\ live' = live
      /\ ring' = ring /\ seq' = seq /\ subscribers' = subscribers
  BY Zenon DEF EventInv, Backlog
<1> DEFINE from == conn[c].req.arg
           lost == IF ring = <<>> THEN 0 ELSE Head(ring) - 1
           after == IF lost > from THEN lost ELSE from
           list == {<<c, e>> : e \in events_since(from)}
<1>1. /\ conn[c].pc = "backlog" /\ pushes[c] = {}
      /\ pushes' = [pushes EXCEPT ![c] = list]
      /\ since' = [since EXCEPT ![c] = [replayed |-> TRUE, from |-> after]]
      /\ conn' = [conn EXCEPT ![c].pc = "replay"]
  BY Zenon DEF Backlog, At, GoesTo
<1>2. from \in Nat /\ c \in Threads /\ (live[c] => c \in subscribers)
  BY Zenon, <1>0, <1>1 DEF ConnTypes, Threads
<1>3. /\ seq \in Nat /\ ring \in Seq(Nat) /\ Len(ring) \in 1..seq
      /\ \A i \in 1..Len(ring) : ring[i] + Len(ring) = seq + i
  BY Zenon, <1>0 DEF RingInv
<1>4. lost = seq - Len(ring) /\ lost \in Nat
  <2>1. ring # <<>> /\ Head(ring) = ring[1] /\ 1 \in 1..Len(ring) /\ ring[1] \in Nat
    BY <1>3
  <2>2. ring[1] + Len(ring) = seq + 1
    BY Zenon, <1>3, <2>1
  <2>3. seq \in Nat /\ Len(ring) \in Nat /\ Len(ring) <= seq /\ lost = ring[1] - 1
    BY SMTT(30), <1>3, <2>1
  <2> HIDE DEF lost
  <2> QED BY <2>1, <2>2, <2>3
<1>5. after \in Nat /\ after >= lost /\ after >= from
  BY <1>2, <1>4
<1>6. \A i \in 1..Len(ring) : ring[i] > from => <<c, ring[i]>> \in list
  BY <1>3 DEF events_since
<1> HIDE DEF list, after, lost, from
<1>8. DownTypes'
  BY Zenon, <1>0, <1>1, <1>2 DEF DownTypes, client
<1>9. ConnTypes'
  <2>1. /\ DOMAIN since = Clients /\ DOMAIN conn = Clients /\ DOMAIN live = Clients
        /\ conn[c] = [pc |-> conn[c].pc, id |-> conn[c].id, req |-> conn[c].req]
    BY Zenon, <1>0 DEF ConnTypes
  <2>2. /\ since'[c] = [replayed |-> TRUE, from |-> after] /\ DOMAIN since' = Clients
        /\ conn'[c] = [pc |-> "replay", id |-> conn[c].id, req |-> conn[c].req]
        /\ DOMAIN conn' = Clients
        /\ \A d \in Clients : d # c => since'[d] = since[d] /\ conn'[d] = conn[d]
    BY Zenon, <1>1, <2>1
  <2>3. since'[c] \in [replayed : BOOLEAN, from : Nat]
    BY SMTT(30), <1>5, <2>2
  <2>4. ASSUME NEW d \in Clients
        PROVE  /\ conn'[d] = [pc |-> conn'[d].pc, id |-> conn'[d].id, req |-> conn'[d].req]
               /\ conn'[d].pc \in {"subscribe", "backlog"} => conn'[d].req.arg \in Nat
               /\ since'[d] \in [replayed : BOOLEAN, from : Nat]
               /\ live[d] /\ (conn'[d].pc = "backlog" \/ since'[d].replayed) => d \in subscribers
    <3>1. CASE d = c
      <4>1. conn'[c] = [pc |-> conn'[c].pc, id |-> conn'[c].id, req |-> conn'[c].req]
        BY Zenon, <2>2
      <4>2. conn'[c].pc = "replay"
        BY SMTT(30), <2>2
      <4> QED BY Zenon, <1>2, <2>3, <3>1, <4>1, <4>2
    <3>2. CASE d # c
      BY Zenon, <1>0, <2>2, <3>2 DEF ConnTypes
    <3> QED BY Zenon, <3>1, <3>2
  <2> QED BY ZenonT(20), <1>0, <2>1, <2>2, <2>4 DEF ConnTypes
<1>10. Delivered'
  <2> SUFFICES ASSUME NEW d \in Clients, Hears(d)', NEW e \in (since'[d].from + 1)..seq
               PROVE  Reached(d, e)'
    BY Zenon, <1>0 DEF Delivered
  <2>1. DOMAIN pushes = Threads /\ DOMAIN since = Clients
    BY Zenon, <1>0 DEF DownTypes, ConnTypes
  <2>2. CASE d = c
    <3>1. since'[c].from = after
      BY Zenon, <1>1, <2>1
    <3>2. e \in Int /\ e > after /\ e <= seq
      BY <1>3, <1>5, <2>2, <3>1
    <3> DEFINE i == (e + Len(ring)) - seq
    <3>3. i \in 1..Len(ring) /\ e + Len(ring) = seq + i
      BY <1>3, <1>4, <1>5, <3>2
    <3>4. ring[i] = e
      <4>1. ring[i] \in Nat /\ ring[i] + Len(ring) = seq + i
        BY SMTT(30), <1>3, <3>3
      <4> HIDE DEF i
      <4> QED BY SMTT(30), <1>3, <3>2, <3>3, <4>1
    <3> HIDE DEF i
    <3>5. e > from
      BY <1>2, <1>5, <3>2
    <3>6. <<c, e>> \in pushes'[c]
      BY Zenon, <1>1, <1>2, <1>6, <2>1, <3>3, <3>4, <3>5
    <3> QED BY Zenon, <1>2, <2>2, <3>6 DEF Reached
  <2>3. CASE d # c
    <3>1. Hears(d) /\ e \in (since[d].from + 1)..seq
      BY Zenon, <1>0, <1>1, <2>1, <2>3 DEF Hears, client
    <3>2. Reached(d, e)
      BY Zenon, <1>0, <3>1 DEF Delivered
    <3>3. ASSUME NEW u \in Threads, <<d, e>> \in pushes[u] PROVE Reached(d, e)'
      <4>1. u # c
        BY Zenon, <1>1, <3>3
      <4>2. pushes'[u] = pushes[u]
        BY Zenon, <1>1, <2>1, <4>1
      <4> QED BY Zenon, <3>3, <4>2 DEF Reached
    <3> QED BY Zenon, <1>0, <3>2, <3>3 DEF Reached, client
  <2> QED BY Zenon, <2>2, <2>3
<1> QED BY Zenon, <1>0, <1>8, <1>9, <1>10, ClientSame, RingSame DEF EventInv, client

-----------------------------------------------------------------------------
(* The connection threads. *)

\* A thread that goes on, anywhere but into a subscription.
LEMMA ConnMoves ==
  ASSUME ConnTypes, NEW c \in Clients, NEW pc, pc \notin {"subscribe", "backlog"}, NEW id,
         conn' = [conn EXCEPT ![c] = [pc |-> pc, id |-> id, req |-> conn[c].req]],
         since' = since, subscribers' = subscribers, live' = live
  PROVE  ConnTypes'
<1>1. /\ DOMAIN conn' = Clients /\ conn'[c] = [pc |-> pc, id |-> id, req |-> conn[c].req]
      /\ \A d \in Clients : d # c => conn'[d] = conn[d]
  BY Zenon DEF ConnTypes
<1>2. ASSUME NEW d \in Clients
      PROVE  /\ conn'[d] = [pc |-> conn'[d].pc, id |-> conn'[d].id, req |-> conn'[d].req]
             /\ conn'[d].pc \in {"subscribe", "backlog"} => conn'[d].req.arg \in Nat
             /\ live[d] /\ (conn'[d].pc = "backlog" \/ since[d].replayed) => d \in subscribers
  <2>1. CASE d = c
    BY Zenon, <1>1, <2>1 DEF ConnTypes
  <2>2. CASE d # c
    BY Zenon, <1>1, <2>2 DEF ConnTypes
  <2> QED BY Zenon, <2>1, <2>2
<1> QED BY Zenon, <1>1, <1>2 DEF ConnTypes

\* The same, for a thread that only moves its pc.
LEMMA ConnGoes ==
  ASSUME ConnTypes, NEW c \in Clients, NEW pc, pc \notin {"subscribe", "backlog"},
         GoesTo(c, pc), since' = since, subscribers' = subscribers, live' = live
  PROVE  ConnTypes'
<1>1. conn' = [conn EXCEPT ![c] = [pc |-> pc, id |-> conn[c].id, req |-> conn[c].req]]
  <2>1. /\ c \in DOMAIN conn
        /\ conn[c] = [pc |-> conn[c].pc, id |-> conn[c].id, req |-> conn[c].req]
    BY Zenon DEF ConnTypes
  <2>2. [conn[c] EXCEPT !.pc = pc] = [pc |-> pc, id |-> conn[c].id, req |-> conn[c].req]
    BY SMTT(30), <2>1
  <2> QED BY Zenon, <2>1, <2>2 DEF GoesTo
<1> QED BY Zenon, <1>1, ConnMoves

\* A connection that ends is no subscriber.
LEMMA ConnEnds ==
  ASSUME ConnTypes, NEW c \in Clients, GoesTo(c, "ended"), since' = since,
         live' = [live EXCEPT ![c] = FALSE], subscribers' = subscribers \ {c}
  PROVE  ConnTypes'
<1>1. /\ DOMAIN conn' = Clients /\ DOMAIN live' = Clients /\ ~live'[c]
      /\ conn'[c] = [pc |-> "ended", id |-> conn[c].id, req |-> conn[c].req]
      /\ \A d \in Clients : d # c => conn'[d] = conn[d] /\ live'[d] = live[d]
  BY SMTT(30) DEF ConnTypes, GoesTo
<1>2. ASSUME NEW d \in Clients
      PROVE  /\ conn'[d] = [pc |-> conn'[d].pc, id |-> conn'[d].id, req |-> conn'[d].req]
             /\ conn'[d].pc \in {"subscribe", "backlog"} => conn'[d].req.arg \in Nat
             /\ live'[d] /\ (conn'[d].pc = "backlog" \/ since[d].replayed) => d \in subscribers'
  <2>1. CASE d = c
    BY SMTT(30), <1>1, <2>1 DEF ConnTypes
  <2>2. CASE d # c
    BY Zenon, <1>1, <2>2 DEF ConnTypes
  <2> QED BY Zenon, <2>1, <2>2
<1> QED BY Zenon, <1>1, <1>2 DEF ConnTypes

\* The steps of a connection thread that answer, or pass a call on.
LEMMA ConnAnswers ==
  ASSUME EventInv, NEW c \in Clients,
         \/ Status(c) \/ Replayed(c) \/ CancelCheck(c) \/ CancelSet(c)
         \/ Stop(c) \/ GiveTicket(c) \/ Submit(c)
  PROVE  EventInv'
<1>0. ClientTypes /\ ConnTypes
  BY Zenon DEF EventInv
<1>1. /\ script' = script /\ caller' = caller /\ lib' = lib /\ up' = up /\ live' = live
      /\ pushes' = pushes /\ since' = since /\ ring' = ring /\ seq' = seq
      /\ subscribers' = subscribers
  BY Zenon DEF Status, Replayed, CancelCheck, CancelSet, Stop, GiveTicket, Submit, client
<1>2. \/ GoesTo(c, "loop") \/ GoesTo(c, "cancelling")
      \/ conn' = [conn EXCEPT ![c] = [pc |-> "submit", id |-> tickets + 1,
                                      req |-> conn[c].req]]
  <2>1. CASE GiveTicket(c)
    BY Zenon, <1>0, <2>1 DEF GiveTicket, ConnTypes
  <2>2. CASE Status(c) \/ Replayed(c) \/ CancelCheck(c) \/ CancelSet(c) \/ Stop(c) \/ Submit(c)
    BY Zenon, <2>2 DEF Status, Replayed, CancelCheck, CancelSet, Stop, Submit, Answers
  <2> QED BY Zenon, <2>1, <2>2
<1>3. ConnTypes'
  BY <1>0, <1>1, <1>2, ConnGoes, ConnMoves
<1>4. ClientTypes'
  BY Zenon, <1>0, <1>1, ClientSame
<1>5. \E frame : frame.kind \in Kinds /\ (Push(c, frame) \/ down' = down)
  <2>1. \A id, ok, of : Result(id, ok, of).kind \in Kinds
    BY Zenon DEF Result, Kinds
  <2>2. [kind |-> "ticket", id |-> conn[c].id, ticket |-> tickets + 1].kind \in Kinds
    BY Zenon DEF Kinds
  <2>3. CASE Status(c) \/ Replayed(c) \/ CancelCheck(c) \/ CancelSet(c) \/ Stop(c)
    BY Zenon, <2>1, <2>3 DEF Status, Replayed, CancelCheck, CancelSet, Stop, Answers
  <2>4. CASE GiveTicket(c)
    BY Zenon, <2>2, <2>4 DEF GiveTicket
  <2>5. CASE Submit(c)
    BY Zenon, <2>2, <2>5 DEF Submit
  <2> QED BY Zenon, <2>3, <2>4, <2>5
<1>6. PICK frame : frame.kind \in Kinds /\ (Push(c, frame) \/ down' = down)
  BY Zenon, <1>5
<1> QED BY Zenon, <1>1, <1>3, <1>4, <1>6, AnswerStep

\* Receiving a request, subscribing, ending: the socket to the client is left alone.
LEMMA ConnTurns ==
  ASSUME EventInv, NEW c \in Clients,
         Loop(c) \/ Receive(c) \/ HangUp(c) \/ Subscribe(c)
  PROVE  EventInv'
<1>0. ClientTypes /\ ConnTypes
  BY ZenonT(20) DEF EventInv
<1>1. /\ script' = script /\ caller' = caller /\ lib' = lib /\ down' = down
      /\ pushes' = pushes /\ since' = since /\ ring' = ring /\ seq' = seq
  BY Zenon DEF Loop, Receive, HangUp, Subscribe, client
<1>2. ClientTypes' /\ ConnTypes' /\ \A d \in Clients : live'[d] => live[d]
  <2>1. CASE Loop(c)
    <3>1. ClientTypes'
      BY Zenon, <1>0, <1>1, <2>1, ClientSame DEF Loop
    <3>2. CASE phase = "up"
      <4>1. GoesTo(c, "recv") /\ live' = live /\ subscribers' = subscribers
        BY ZenonT(20), <2>1, <3>2 DEF Loop
      <4> QED BY Zenon, <1>0, <1>1, <3>1, <4>1, ConnGoes
    <3>3. CASE phase # "up"
      <4>1. /\ GoesTo(c, "ended") /\ live' = [live EXCEPT ![c] = FALSE]
            /\ subscribers' = subscribers \ {c}
        BY Zenon, <2>1, <3>3 DEF Loop
      <4>2. ConnTypes'
        BY Zenon, <1>0, <1>1, <4>1, ConnEnds
      <4> QED BY Zenon, <1>0, <3>1, <4>1, <4>2 DEF ConnTypes
    <3> QED BY Zenon, <3>2, <3>3
  <2>2. CASE HangUp(c)
    <3>1. ClientTypes'
      BY Zenon, <1>0, <1>1, <2>2, ClientSame DEF HangUp
    <3>2. /\ GoesTo(c, "ended") /\ live' = [live EXCEPT ![c] = FALSE]
          /\ subscribers' = subscribers \ {c}
      BY Zenon, <2>2 DEF HangUp
    <3>3. ConnTypes'
      BY Zenon, <1>0, <1>1, <3>2, ConnEnds
    <3> QED BY Zenon, <1>0, <3>1, <3>2, <3>3 DEF ConnTypes
  <2>3. CASE Subscribe(c)
    <3>1. ClientTypes' /\ live' = live
      BY ZenonT(20), <1>0, <1>1, <2>3, ClientSame DEF Subscribe
    <3>2. /\ conn[c].pc = "subscribe" /\ GoesTo(c, "backlog")
          /\ subscribers' = subscribers \cup {c}
      BY Zenon, <2>3 DEF Subscribe, At
    <3>3. /\ DOMAIN conn' = Clients
          /\ conn'[c] = [pc |-> "backlog", id |-> conn[c].id, req |-> conn[c].req]
          /\ \A d \in Clients : d # c => conn'[d] = conn[d]
      BY SMTT(30), <1>0, <3>2 DEF ConnTypes, GoesTo
    <3>4. ASSUME NEW d \in Clients
          PROVE  /\ conn'[d] = [pc |-> conn'[d].pc, id |-> conn'[d].id, req |-> conn'[d].req]
                 /\ conn'[d].pc \in {"subscribe", "backlog"} => conn'[d].req.arg \in Nat
                 /\ live[d] /\ (conn'[d].pc = "backlog" \/ since[d].replayed)
                      => d \in subscribers'
      <4>1. CASE d = c
        <5>1. /\ conn'[d] = [pc |-> "backlog", id |-> conn[c].id, req |-> conn[c].req]
              /\ conn'[d].pc = "backlog" /\ conn'[d].id = conn[c].id
              /\ conn'[d].req = conn[c].req
          BY SMTT(30), <3>3, <4>1
        <5>2. conn[c].req.arg \in Nat /\ d \in subscribers'
          BY ZenonT(20), <1>0, <3>2, <4>1 DEF ConnTypes
        <5> QED BY ZenonT(20), <5>1, <5>2
      <4>2. CASE d # c
        BY Zenon, <1>0, <3>2, <3>3, <4>2 DEF ConnTypes
      <4> QED BY ZenonT(20), <4>1, <4>2
    <3>5. ConnTypes'
      BY Zenon, <1>0, <1>1, <3>1, <3>2, <3>3, <3>4 DEF ConnTypes
    <3> QED BY Zenon, <3>1, <3>5
  <2>4. CASE Receive(c)
    <3> DEFINE f == Head(up[c])
    <3>1. /\ up[c] # <<>> /\ up' = [up EXCEPT ![c] = Tail(up[c])]
          /\ conn' = [conn EXCEPT ![c] = [pc |-> f.req.op, id |-> f.id, req |-> f.req]]
          /\ live' = live /\ subscribers' = subscribers
      BY Zenon, <2>4 DEF Receive
    <3>2. IsSeq(Tail(up[c])) /\ Elems(up[c]) = Elems(Tail(up[c])) \cup {f}
      BY ZenonT(40), <1>0, <3>1, TailElems DEF ClientTypes
    <3> HIDE DEF f
    <3>3. ClientTypes'
      BY ZenonT(40), <1>0, <1>1, <3>1, <3>2 DEF ClientTypes
    <3>4. f.req.op # "backlog" /\ (f.req.op = "subscribe" => f.req.arg \in Nat)
      BY Zenon, <1>0, <3>2 DEF ClientTypes, Proper, Ops
    <3>5. /\ DOMAIN conn' = Clients
          /\ conn'[c] = [pc |-> f.req.op, id |-> f.id, req |-> f.req]
          /\ \A d \in Clients : d # c => conn'[d] = conn[d]
      BY Zenon, <1>0, <3>1 DEF ConnTypes
    <3>6. ASSUME NEW d \in Clients
          PROVE  /\ conn'[d] = [pc |-> conn'[d].pc, id |-> conn'[d].id, req |-> conn'[d].req]
                 /\ conn'[d].pc \in {"subscribe", "backlog"} => conn'[d].req.arg \in Nat
                 /\ live[d] /\ (conn'[d].pc = "backlog" \/ since[d].replayed)
                      => d \in subscribers
      <4>1. CASE d = c
        <5>1. /\ conn'[d] = [pc |-> f.req.op, id |-> f.id, req |-> f.req]
              /\ conn'[d].pc = f.req.op /\ conn'[d].id = f.id /\ conn'[d].req = f.req
          BY SMTT(30), <3>5, <4>1
        <5>2. live[d] /\ since[d].replayed => d \in subscribers
          BY Zenon, <1>0 DEF ConnTypes
        <5> QED BY ZenonT(20), <3>4, <5>1, <5>2
      <4>2. CASE d # c
        BY Zenon, <1>0, <3>5, <4>2 DEF ConnTypes
      <4> QED BY ZenonT(20), <4>1, <4>2
    <3>7. ConnTypes'
      BY Zenon, <1>0, <1>1, <3>1, <3>5, <3>6 DEF ConnTypes
    <3> QED BY ZenonT(20), <3>1, <3>3, <3>7
  <2> QED BY Zenon, <2>1, <2>2, <2>3, <2>4
<1>3. [kind |-> "event"].kind \in Kinds
  BY Zenon DEF Kinds
<1> QED BY Zenon, <1>1, <1>2, <1>3, AnswerStep

\* The steps of a connection thread.
LEMMA ConnKeeps ==
  ASSUME EventInv, NEW c \in Clients, ConnStep(c)
  PROVE  EventInv'
<1>0. c \in Threads /\ ConnTypes
  BY Zenon DEF Threads, EventInv
<1>1. CASE PushEvent(c)
  BY Zenon, <1>0, <1>1, PushEventKeeps
<1>2. CASE Shutdown(c)
  <2>1. /\ pushes[c] = {} /\ Emit(c) /\ GoesTo(c, "stop")
        /\ UNCHANGED <<script, caller, lib, up, down, live, since, subscribers>>
    BY ZenonT(20), <1>2 DEF Shutdown, At, client
  <2>2. ConnTypes'
    BY Zenon, <1>0, <2>1, ConnGoes
  <2> QED BY ZenonT(20), <1>0, <2>1, <2>2, EmitKeeps
<1>3. CASE Backlog(c)
  BY Zenon, <1>3, BacklogKeeps
<1> QED BY Zenon, <1>1, <1>2, <1>3, ConnAnswers, ConnTurns DEF ConnStep

-----------------------------------------------------------------------------
(* The dispatcher, and the end of the daemon. *)

\* The steps of the dispatcher.
LEMMA DispKeeps ==
  ASSUME EventInv, DispStep
  PROVE  EventInv'
<1>0. ClientTypes /\ ConnTypes /\ "dispatcher" \in Threads
  BY Zenon DEF Threads, EventInv
<1>1. CASE PushEvent("dispatcher")
  BY Zenon, <1>0, <1>1, PushEventKeeps
<1>2. CASE RunAnnounce \/ RunSettle
  <2>1. /\ pushes["dispatcher"] = {} /\ Emit("dispatcher") /\ conn' = conn
        /\ UNCHANGED <<script, caller, lib, up, down, live, since, subscribers>>
    BY Zenon, <1>2 DEF RunAnnounce, RunSettle, DispAt, client
  <2>2. ConnTypes'
    BY Zenon, <1>0, <2>1, ConnSame
  <2> QED BY Zenon, <1>0, <2>1, <2>2, EmitKeeps
<1>3. CASE \/ Take \/ Hold \/ RunBind \/ RunMark \/ RunClear \/ RunTask
           \/ RunBadFetch \/ RunAnswer
  <2> DEFINE frame(ok) == Done(disp.ticket, ok, Handling.req.op)
  <2>1. \A ok : frame(ok).kind \in Kinds
    BY Zenon DEF Done, Kinds
  <2>2. /\ script' = script /\ caller' = caller /\ lib' = lib /\ up' = up /\ live' = live
        /\ pushes' = pushes /\ since' = since /\ ring' = ring /\ seq' = seq
        /\ subscribers' = subscribers /\ conn' = conn
    BY Zenon, <1>3 DEF Take, Hold, RunBind, RunMark, RunClear, RunTask, RunBadFetch, RunAnswer, client
  <2>3. \E ok : Push(Handling.client, frame(ok)) \/ down' = down
    BY Zenon, <1>3 DEF Take, Hold, RunBind, RunMark, RunClear, RunTask, RunBadFetch, RunAnswer,
                Completes
  <2>4. PICK ok : Push(Handling.client, frame(ok)) \/ down' = down
    BY Zenon, <2>3
  <2>5. ClientTypes' /\ ConnTypes'
    BY Zenon, <1>0, <2>2, ClientSame, ConnSame
  <2> HIDE DEF frame
  <2> QED BY Zenon, <2>1, <2>2, <2>4, <2>5, AnswerStep
<1> QED BY Zenon, <1>1, <1>2, <1>3 DEF DispStep

\* The end of the daemon: nobody is there to hear.
LEMMA ServeKeeps ==
  ASSUME EventInv, ServeStep
  PROVE  EventInv'
<1>0. ClientTypes /\ DownTypes /\ ConnTypes /\ RingInv /\ Delivered
  BY Zenon DEF EventInv
<1>1. CASE Join \/ FreeSlab
  <2>1. /\ script' = script /\ caller' = caller /\ lib' = lib /\ up' = up /\ live' = live
        /\ pushes' = pushes /\ since' = since /\ ring' = ring /\ seq' = seq
        /\ subscribers' = subscribers /\ conn' = conn /\ down' = down
    BY Zenon, <1>1 DEF Join, FreeSlab, client
  <2>2. [kind |-> "event"].kind \in Kinds
    BY Zenon DEF Kinds
  <2>3. ClientTypes' /\ ConnTypes'
    BY Zenon, <1>0, <2>1, ClientSame, ConnSame
  <2> QED BY Zenon, <2>1, <2>2, <2>3, AnswerStep
<1>2. CASE Exit
  <2>1. /\ script' = script /\ caller' = caller /\ lib' = lib /\ up' = up /\ down' = down
        /\ since' = since /\ ring' = ring /\ seq' = seq /\ subscribers' = subscribers
        /\ live' = [c \in Clients |-> FALSE] /\ pushes' = [t \in Threads |-> {}]
        /\ conn' = [c \in Clients |-> [conn[c] EXCEPT !.pc = "ended"]]
    BY Zenon, <1>2 DEF Exit, client
  <2>2. ClientTypes' /\ RingInv'
    BY Zenon, <1>0, <2>1, ClientSame, RingSame
  <2>3. DownTypes'
    BY Zenon, <1>0, <2>1, EmptyElems DEF DownTypes
  <2>4. \A c \in Clients :
          conn'[c] = [pc |-> "ended", id |-> conn[c].id, req |-> conn[c].req]
    BY <1>0, <2>1 DEF ConnTypes
  <2>5. ConnTypes'
    BY ZenonT(40), <1>0, <2>1, <2>4 DEF ConnTypes
  <2>6. Delivered'
    BY Zenon, <2>1 DEF Delivered, Hears
  <2> QED BY Zenon, <2>2, <2>3, <2>5, <2>6 DEF EventInv
<1> QED BY Zenon, <1>1, <1>2 DEF ServeStep

-----------------------------------------------------------------------------
(* The theorem. *)

\* The invariant holds at the start.
LEMMA EventInit == Init => EventInv
<1> SUFFICES ASSUME Init PROVE EventInv
  BY Zenon
<1>1. ClientTypes
  <2>1. script \in Scripts /\ DOMAIN script = Clients
    BY Zenon, ScriptsAssumption DEF Init
  <2>2. ASSUME NEW c \in Clients PROVE IsSeq(script[c]) /\ \A q \in Elems(script[c]) : Proper(q)
    <3>1. script[c] \in Seq(Range(script[c])) /\ \A q \in Range(script[c]) : Proper(q)
      BY Zenon, <2>1, ScriptsAssumption
    <3> DEFINE R == Range(script[c])
    <3> HIDE DEF R
    <3>2. script[c] \in Seq(R) /\ \A q \in R : Proper(q)
      BY Zenon, <3>1 DEF R
    <3>3. IsSeq(script[c])
      BY <3>2 DEF IsSeq
    <3>4. \A i \in 1..Len(script[c]) : script[c][i] \in R
      BY SMTT(30), <3>2
    <3> QED BY Zenon, <3>2, <3>3, <3>4 DEF Elems
  <2>3. \A c \in Clients : up[c] = <<>> /\ caller[c] = "idle"
    BY ZenonT(40) DEF Init
  <2> QED BY Zenon, <2>1, <2>2, <2>3, EmptyElems DEF ClientTypes, Init
<1>2. DownTypes
  <2>1. \A c \in Clients : IsLib(lib[c])
    BY ZenonT(40), EmptyElems DEF Init, IsLib
  <2> QED BY ZenonT(40), <2>1, EmptyElems DEF Init, DownTypes
<1>3. ConnTypes
  BY Zenon DEF Init, ConnTypes
<1>4. RingInv
  <2>1. ring = <<1>> /\ seq = 1
    BY Zenon DEF Init
  <2>2. ring \in Seq(Nat) /\ Len(ring) = 1 /\ ring[1] = 1
    BY SMTT(30), <2>1
  <2> QED BY SMTT(30), <2>1, <2>2 DEF RingInv
<1>5. Delivered
  <2>1. \A c \in Clients : ~ since[c].replayed
    BY Zenon DEF Init
  <2> QED BY Zenon, <2>1 DEF Delivered, Hears
<1> QED BY Zenon, <1>1, <1>2, <1>3, <1>4, <1>5 DEF EventInv

\* Every step keeps it.
LEMMA EventNext == EventInv /\ [Next]_vars => EventInv'
<1> SUFFICES ASSUME EventInv, [Next]_vars PROVE EventInv'
  BY Zenon
<1>1. CASE Next
  <2>1. CASE \E c \in Clients :
               CallerStep(c) \/ ReaderStep(c) \/ Disconnect(c) \/ ConnStep(c)
    BY Zenon, <2>1, CallerKeeps, ReaderKeeps, ConnKeeps
  <2> QED BY Zenon, <1>1, <2>1, DispKeeps, ServeKeeps DEF Next
<1>2. CASE vars' = vars
  <2>1. /\ script' = script /\ caller' = caller /\ lib' = lib /\ up' = up /\ live' = live
        /\ pushes' = pushes /\ since' = since /\ ring' = ring /\ seq' = seq
        /\ subscribers' = subscribers /\ conn' = conn /\ down' = down
    BY Zenon, <1>2 DEF vars, client, server
  <2>2. [kind |-> "event"].kind \in Kinds
    BY Zenon DEF Kinds
  <2>3. ClientTypes' /\ ConnTypes'
    BY Zenon, <2>1, ClientSame, ConnSame DEF EventInv
  <2> QED BY Zenon, <2>1, <2>2, <2>3, AnswerStep
<1> QED BY Zenon, <1>1, <1>2

\* The property follows from the invariant.
LEMMA EventSafe == EventInv => NoEventMissed
<1> SUFFICES ASSUME EventInv, NEW c \in Clients,
                    since[c].replayed /\ live[c] /\ ~lib[c].closed,
                    NEW e \in (since[c].from + 1)..seq
             PROVE  Reaches(c, e)
  BY Zenon DEF NoEventMissed
<1>1. Reached(c, e)
  BY Zenon DEF EventInv, Delivered, Hears
<1>2. DownTypes
  BY Zenon DEF EventInv
<1>3. \A s : IsSeq(s) => DOMAIN s = 1..Len(s)
  BY Zenon DEF IsSeq
<1>4. CASE e \in Elems(lib[c].events)
  BY Zenon, <1>2, <1>3, <1>4 DEF Reaches, DownTypes, IsLib, Elems
<1>5. CASE \E f \in Elems(down[c]) : f.kind = "event" /\ f.seq = e
  BY Zenon, <1>2, <1>3, <1>5 DEF Reaches, DownTypes, Elems
<1>6. CASE \E t \in Threads : <<c, e>> \in pushes[t]
  BY Zenon, <1>6 DEF Reaches
<1> QED BY Zenon, <1>1, <1>4, <1>5, <1>6 DEF Reached

\* A subscriber misses no event, whatever the clients ask for and in whatever
\* order the connection threads, the dispatcher and the clients take their
\* critical sections: NoEventMissed (server.py emit, subscribe_events).
THEOREM SubscribersMissNothing == Spec => []NoEventMissed
BY EventInit, EventNext, EventSafe, PTL DEF Spec
=============================================================================
