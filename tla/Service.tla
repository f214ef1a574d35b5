------------------------------ MODULE Service ------------------------------
(***************************************************************************)
(* The engine service (dataflow/service: client, wire, server,              *)
(* handlers_runs, execution): client libraries with a calling thread and a  *)
(* reader thread, one connection thread per socket, one dispatcher thread   *)
(* that runs the queued calls, service events, runs and their cancellation, *)
(* and shutdown.                                                            *)
(*                                                                         *)
(* A step is what happens under one lock, or one push on a socket. A queued *)
(* call other than a run is "hold" (its effect on the store, and parking,   *)
(* are module Store's); a status query is "status". Every request waits for *)
(* its answer, as the drivers in this repository do, one thread a client.   *)
(***************************************************************************)
EXTENDS Naturals, Sequences, Functions

CONSTANTS
  Clients,     \* the connected clients
  Scripts,     \* functions from clients to sequences of requests
  RingCap      \* EVENT_RING_CAP

(* A request has op in Ops and arg: the sequence number after which to       *)
(* replay, the run to cancel, or how a run of two tasks ends.                *)
Ops == {"hold", "run", "status", "cancel", "subscribe", "shutdown"}

Proper(req) == req.op \in Ops /\ (req.op = "subscribe" => req.arg \in Nat)

(* Clients that make proper requests, and a ring that holds something.       *)
ASSUME ScriptsAssumption ==
  \A s \in Scripts :
    /\ DOMAIN s = Clients
    /\ \A c \in Clients : s[c] \in Seq(Range(s[c])) /\ \A q \in Range(s[c]) : Proper(q)

ASSUME RingAssumption == RingCap \in Nat \ {0}

VARIABLES
  script,      \* what each client has still to ask for, the current one first
  caller,      \* pc of the calling thread
  mail,        \* the reply queue of the current request
  held,        \* the ticket the caller holds, and its outcome once settled
  answers,     \* history: request and answer of every finished call
  lib,         \* closed, replies, tickets, orphans, events of each client
  up,          \* frames from each client, and
  down,        \* to it
  live,        \* the daemon's end of each connection is open
  conn,        \* what each connection thread is in the middle of
  pushes,      \* events each thread has still to push: a set of <<client, event>>
  since,       \* of each subscriber: the last event it did not ask for or cannot have
  ring,        \* the event ring: sequence numbers
  seq,         \* event_seq
  subscribers, \* clients subscribed
  tickets,     \* tickets given
  fifo,        \* the dispatcher's queue; 0 is the stop mark
  call,        \* calls by ticket: client and request
  disp,        \* what the dispatcher is in the middle of
  runs,        \* state of each run, in order of run id
  current,     \* current_run, 0 for none
  cancel,      \* active_cancel
  phase        \* of serve_forever

client == <<caller, mail, held, answers, lib>>
server == <<conn, since, ring, seq, subscribers, tickets, fifo, call, disp, runs, current,
            cancel, phase>>
vars == <<script, client, up, down, live, pushes, server>>

Threads == Clients \cup {"dispatcher"}

Request(c) == Head(script[c])

Without(f, k) == [x \in DOMAIN f \ {k} |-> f[x]]

With(f, k, v) == [x \in DOMAIN f \cup {k} |-> IF x = k THEN v ELSE f[x]]

Nothing == [x \in {} |-> 0]

-----------------------------------------------------------------------------
(* The client library. *)

(* The call is over, with an answer or an exception. *)
Ends(c, outcome) ==
  /\ answers' = [answers EXCEPT ![c] = Append(@, [asked |-> Request(c), got |-> outcome])]
  /\ script' = [script EXCEPT ![c] = Tail(@)]
  /\ caller' = [caller EXCEPT ![c] = "idle"]
  /\ mail' = [mail EXCEPT ![c] = <<>>]
  /\ held' = [held EXCEPT ![c] = [ticket |-> 0, done |-> FALSE, outcome |-> <<>>]]

Raised(why) == [ok |-> FALSE, of |-> why]

(* _call: the closed check, then the reply queue under the lock. *)
Begin(c) ==
  /\ caller[c] = "idle" /\ script[c] # <<>>
  /\ IF lib[c].closed
     THEN Ends(c, Raised("closed"))
     ELSE /\ caller' = [caller EXCEPT ![c] = "open"]
          /\ UNCHANGED <<script, mail, held, answers>>
  /\ UNCHANGED <<lib, up, down, live, pushes, server>>

AwaitReply(c) ==
  /\ caller[c] = "open"
  /\ lib' = [lib EXCEPT ![c].replies = @ \cup {Len(answers[c])}]
  /\ caller' = [caller EXCEPT ![c] = "send"]
  /\ UNCHANGED <<script, mail, held, answers, up, down, live, pushes, server>>

(* Sending to a closed daemon raises. *)
Send(c) ==
  /\ caller[c] = "send"
  /\ IF live[c]
     THEN /\ up' = [up EXCEPT ![c] = Append(@, [id |-> Len(answers[c]), req |-> Request(c)])]
          /\ caller' = [caller EXCEPT ![c] = "reply"]
          /\ UNCHANGED <<script, mail, held, answers>>
     ELSE Ends(c, Raised("pipe")) /\ UNCHANGED up
  /\ UNCHANGED <<lib, down, live, pushes, server>>

TakeReply(c) ==
  /\ caller[c] = "reply" /\ mail[c] # <<>>
  /\ LET got == Head(mail[c])
     IN IF got.kind = "eof" THEN Ends(c, Raised("eof"))
        ELSE IF got.kind = "result" THEN Ends(c, [ok |-> got.ok, of |-> got.of])
        ELSE /\ held' = [held EXCEPT ![c].ticket = got.ticket]
             /\ caller' = [caller EXCEPT ![c] = "ticket"]
             /\ UNCHANGED <<script, mail, answers>>
  /\ UNCHANGED <<lib, up, down, live, pushes, server>>

\* Fault seeded for CallsEnd: an early completion is not looked for.
RegisterOnly(c) ==
  /\ caller[c] = "ticket"
  /\ lib' = [lib EXCEPT ![c].tickets = @ \cup {held[c].ticket}]
  /\ caller' = [caller EXCEPT ![c] = "wait"]
  /\ UNCHANGED <<script, mail, held, answers, up, down, live, pushes, server>>

(* Registering the ticket, unless its completion is already here. *)
RegisterTicket(c) ==
  /\ caller[c] = "ticket"
  /\ LET t == held[c].ticket
     IN IF t \in DOMAIN lib[c].orphans
        THEN /\ held' = [held EXCEPT ![c].done = TRUE, ![c].outcome = lib[c].orphans[t]]
             /\ lib' = [lib EXCEPT ![c].orphans = Without(@, t)]
        ELSE /\ lib' = [lib EXCEPT ![c].tickets = @ \cup {t}]
             /\ UNCHANGED held
  /\ caller' = [caller EXCEPT ![c] = "wait"]
  /\ UNCHANGED <<script, mail, answers, up, down, live, pushes, server>>

WaitTicket(c) ==
  /\ caller[c] = "wait" /\ held[c].done
  /\ Ends(c, held[c].outcome)
  /\ UNCHANGED <<lib, up, down, live, pushes, server>>

(* The reader routes replies by request id, completions by ticket (one that  *)
(* comes before its ticket is kept), and events to the subscription queue.   *)
ReadFrame(c) ==
  /\ down[c] # <<>> /\ ~lib[c].closed
  /\ LET f == Head(down[c])
     IN CASE f.kind \in {"result", "ticket"} ->
               /\ lib' = [lib EXCEPT ![c].replies = @ \ {f.id}]
               /\ mail' = IF f.id \in lib[c].replies
                          THEN [mail EXCEPT ![c] = Append(@, f)] ELSE mail
               /\ UNCHANGED held
          [] f.kind = "call_done" ->
               /\ IF f.ticket \in lib[c].tickets
                  THEN /\ lib' = [lib EXCEPT ![c].tickets = @ \ {f.ticket}]
                       /\ held' = [held EXCEPT ![c].done = TRUE,
                                               ![c].outcome = [ok |-> f.ok, of |-> f.of]]
                  ELSE /\ lib' = [lib EXCEPT ![c].orphans =
                                    With(@, f.ticket, [ok |-> f.ok, of |-> f.of])]
                       /\ UNCHANGED held
               /\ UNCHANGED mail
          [] f.kind = "event" ->
               /\ lib' = [lib EXCEPT ![c].events = Append(@, f.seq)]
               /\ UNCHANGED <<mail, held>>
  /\ down' = [down EXCEPT ![c] = Tail(@)]
  /\ UNCHANGED <<script, caller, answers, up, live, pushes, server>>

(* End of file: the client is closed, and everyone known is unblocked. *)
ReadEnd(c) ==
  /\ down[c] = <<>> /\ ~live[c] /\ ~lib[c].closed
  /\ lib' = [lib EXCEPT ![c].closed = TRUE]
  /\ UNCHANGED <<script, caller, mail, held, answers, up, down, live, pushes, server>>

Sweep(c) ==
  /\ lib[c].closed /\ ~lib[c].swept
  /\ lib' = [lib EXCEPT ![c].swept = TRUE]
  /\ mail' = IF lib[c].replies = {} THEN mail
             ELSE [mail EXCEPT ![c] = Append(@, [kind |-> "eof"])]
  /\ held' = IF held[c].ticket \notin lib[c].tickets \/ held[c].done THEN held
             ELSE [held EXCEPT ![c].done = TRUE, ![c].outcome = Raised("eof")]
  /\ UNCHANGED <<script, caller, answers, up, down, live, pushes, server>>

(* close(): the daemon sees the end of the stream after the frames sent. *)
Disconnect(c) ==
  /\ caller[c] = "idle" /\ script[c] = <<>> /\ ~lib[c].closed
  /\ lib' = [lib EXCEPT ![c].closed = TRUE, ![c].swept = TRUE]
  /\ up' = [up EXCEPT ![c] = Append(@, [id |-> 0, req |-> [op |-> "eof", arg |-> 0]])]
  /\ UNCHANGED <<script, caller, mail, held, answers, down, live, pushes, server>>

CallerStep(c) ==
  Begin(c) \/ AwaitReply(c) \/ Send(c) \/ TakeReply(c) \/ RegisterTicket(c) \/ WaitTicket(c)

ReaderStep(c) == ReadFrame(c) \/ ReadEnd(c) \/ Sweep(c)

-----------------------------------------------------------------------------
(* Pushes and events. *)

(* A push to a client that has gone is swallowed. *)
Push(c, frame) ==
  down' = IF live[c] /\ ~lib[c].closed THEN [down EXCEPT ![c] = Append(@, frame)] ELSE down

Result(id, ok, of) == [kind |-> "result", id |-> id, ok |-> ok, of |-> of]

Done(t, ok, of) == [kind |-> "call_done", ticket |-> t, ok |-> ok, of |-> of]

\* Fault seeded for NoEventMissed: a subscriber still replaying is passed over.
EmitToReplayed(thread) ==
  /\ seq' = seq + 1
  /\ ring' = LET longer == Append(ring, seq + 1)
             IN IF Len(longer) > RingCap THEN Tail(longer) ELSE longer
  /\ pushes' = [pushes EXCEPT ![thread] =
                  {<<c, seq + 1>> : c \in {d \in subscribers : conn[d].pc # "replay"}}]

(* emit: the ring and the list of subscribers under the lock, the pushes     *)
(* after it.                                                                 *)
Emit(thread) ==
  /\ seq' = seq + 1
  /\ ring' = LET longer == Append(ring, seq + 1)
             IN IF Len(longer) > RingCap THEN Tail(longer) ELSE longer
  /\ pushes' = [pushes EXCEPT ![thread] =
                  {<<c, seq + 1>> : c \in subscribers}]

(* A backlog in the order of the ring, one event to its subscribers in any.  *)
PushEvent(thread) ==
  /\ \E p \in pushes[thread] :
       /\ \A q \in pushes[thread] : p[2] <= q[2]
       /\ Push(p[1], [kind |-> "event", seq |-> p[2]])
       /\ pushes' = [pushes EXCEPT ![thread] = @ \ {p}]
  /\ UNCHANGED <<script, client, up, live, server>>

-----------------------------------------------------------------------------
(* A connection thread. *)

At(c, pc) == conn[c].pc = pc /\ pushes[c] = {}

GoesTo(c, pc) == conn' = [conn EXCEPT ![c].pc = pc]

(* Answering inline, and back to the loop. *)
Answers(c, ok, of) ==
  /\ Push(c, Result(conn[c].id, ok, of))
  /\ GoesTo(c, "loop")

(* Shutdown is looked at between frames only. *)
Loop(c) ==
  /\ At(c, "loop")
  /\ IF phase = "up" THEN GoesTo(c, "recv") /\ UNCHANGED <<live, subscribers>>
     ELSE /\ GoesTo(c, "ended")
          /\ live' = [live EXCEPT ![c] = FALSE]
          /\ subscribers' = subscribers \ {c}
  /\ UNCHANGED <<script, client, up, down, pushes, since, ring, seq, tickets, fifo, call,
                 disp, runs, current, cancel, phase>>

Receive(c) ==
  /\ At(c, "recv") /\ up[c] # <<>>
  /\ LET f == Head(up[c])
     IN conn' = [conn EXCEPT ![c] = [pc |-> f.req.op, id |-> f.id, req |-> f.req]]
  /\ up' = [up EXCEPT ![c] = Tail(@)]
  /\ UNCHANGED <<script, client, down, live, pushes, since, ring, seq, subscribers, tickets,
                 fifo, call, disp, runs, current, cancel, phase>>

HangUp(c) ==
  /\ At(c, "eof")
  /\ GoesTo(c, "ended")
  /\ live' = [live EXCEPT ![c] = FALSE]
  /\ subscribers' = subscribers \ {c}
  /\ UNCHANGED <<script, client, up, down, pushes, since, ring, seq, tickets, fifo, call,
                 disp, runs, current, cancel, phase>>

Status(c) ==
  /\ At(c, "status")
  /\ Answers(c, TRUE, "status")
  /\ UNCHANGED <<script, client, up, live, pushes, since, ring, seq, subscribers, tickets,
                 fifo, call, disp, runs, current, cancel, phase>>

(* subscribe_events: a subscriber first, the backlog in a second critical    *)
(* section, its pushes and the answer outside both.                          *)
Subscribe(c) ==
  /\ At(c, "subscribe")
  /\ subscribers' = subscribers \cup {c}
  /\ GoesTo(c, "backlog")
  /\ UNCHANGED <<script, client, up, down, live, pushes, since, ring, seq, tickets, fifo,
                 call, disp, runs, current, cancel, phase>>

(* events_since: the events of the ring after one. *)
events_since(since_seq) == {ring[i] : i \in {j \in DOMAIN ring : ring[j] > since_seq}}

Backlog(c) ==
  /\ At(c, "backlog")
  /\ LET from == conn[c].req.arg
         lost == IF ring = <<>> THEN 0 ELSE Head(ring) - 1
     IN /\ pushes' = [pushes EXCEPT ![c] = {<<c, e>> : e \in events_since(from)}]
        /\ since' = [since EXCEPT ![c] = [replayed |-> TRUE,
                                          from |-> IF lost > from THEN lost ELSE from]]
  /\ GoesTo(c, "replay")
  /\ UNCHANGED <<script, client, up, down, live, ring, seq, subscribers, tickets, fifo, call,
                 disp, runs, current, cancel, phase>>

Replayed(c) ==
  /\ At(c, "replay")
  /\ Answers(c, TRUE, "subscribe")
  /\ UNCHANGED <<script, client, up, live, pushes, since, ring, seq, subscribers, tickets,
                 fifo, call, disp, runs, current, cancel, phase>>

(* cancel_run: the state of the named run is read, then THE cancel flag set. *)
CancelCheck(c) ==
  /\ At(c, "cancel")
  /\ LET r == conn[c].req.arg
     IN IF r \in DOMAIN runs /\ runs[r] = "running"
        THEN GoesTo(c, "cancelling") /\ UNCHANGED down
        ELSE Answers(c, r \in DOMAIN runs, "cancel")
  /\ UNCHANGED <<script, client, up, live, pushes, since, ring, seq, subscribers, tickets,
                 fifo, call, disp, runs, current, cancel, phase>>

CancelSet(c) ==
  /\ At(c, "cancelling")
  /\ cancel' = TRUE
  /\ Answers(c, TRUE, "cancel")
  /\ UNCHANGED <<script, client, up, live, pushes, since, ring, seq, subscribers, tickets,
                 fifo, call, disp, runs, current, phase>>

(* shutdown: the event, the request, the stop mark behind what is queued. *)
Shutdown(c) ==
  /\ At(c, "shutdown")
  /\ Emit(c)
  /\ GoesTo(c, "stop")
  /\ UNCHANGED <<script, client, up, down, live, since, subscribers, tickets, fifo, call,
                 disp, runs, current, cancel, phase>>

Stop(c) ==
  /\ At(c, "stop")
  /\ phase' = IF phase = "up" THEN "stopping" ELSE phase
  /\ fifo' = Append(fifo, 0)
  /\ Answers(c, TRUE, "shutdown")
  /\ UNCHANGED <<script, client, up, live, pushes, since, ring, seq, subscribers, tickets,
                 call, disp, runs, current, cancel>>

(* A queued call: its ticket is announced before it is submitted. *)
GiveTicket(c) ==
  /\ At(c, "hold") \/ At(c, "run")
  /\ tickets' = tickets + 1
  /\ call' = Append(call, [client |-> c, req |-> conn[c].req])
  /\ Push(c, [kind |-> "ticket", id |-> conn[c].id, ticket |-> tickets + 1])
  /\ conn' = [conn EXCEPT ![c] = [pc |-> "submit", id |-> tickets + 1, req |-> @.req]]
  /\ UNCHANGED <<script, client, up, live, pushes, since, ring, seq, subscribers, fifo,
                 disp, runs, current, cancel, phase>>

Submit(c) ==
  /\ At(c, "submit")
  /\ fifo' = Append(fifo, conn[c].id)
  /\ GoesTo(c, "loop")
  /\ UNCHANGED <<script, client, up, down, live, pushes, since, ring, seq, subscribers,
                 tickets, call, disp, runs, current, cancel, phase>>

ConnStep(c) ==
  \/ PushEvent(c)
  \/ Loop(c) \/ Receive(c) \/ HangUp(c) \/ Status(c)
  \/ Subscribe(c) \/ Backlog(c) \/ Replayed(c)
  \/ CancelCheck(c) \/ CancelSet(c)
  \/ Shutdown(c) \/ Stop(c)
  \/ GiveTicket(c) \/ Submit(c)

-----------------------------------------------------------------------------
(* The dispatcher. *)

DispAt(pc) == disp.pc = pc /\ pushes["dispatcher"] = {}

Handling == call[disp.ticket]

Becomes(pc) == disp' = [disp EXCEPT !.pc = pc]

Run == Len(runs)      \* the run the dispatcher is executing

(* call_done to the connection the call came from, and the next call. *)
Completes(ok) ==
  /\ Push(Handling.client, Done(disp.ticket, ok, Handling.req.op))
  /\ Becomes("idle")

Take ==
  /\ DispAt("idle") /\ fifo # <<>>
  /\ fifo' = Tail(fifo)
  /\ disp' = IF Head(fifo) = 0 THEN [disp EXCEPT !.pc = "stopped"]
             ELSE [pc |-> "handle", ticket |-> Head(fifo), task |-> 1]
  /\ UNCHANGED <<script, client, up, down, live, pushes, conn, since, ring, seq, subscribers,
                 tickets, call, runs, current, cancel, phase>>

Hold ==
  /\ DispAt("handle") /\ Handling.req.op = "hold"
  /\ Completes(TRUE)
  /\ UNCHANGED <<script, client, up, live, pushes, conn, since, ring, seq, subscribers,
                 tickets, fifo, call, runs, current, cancel, phase>>

(* The record of the run; binding its inputs marks it on failure, placing it *)
(* (an internal error) does not.                                             *)
RunBind ==
  /\ DispAt("handle") /\ Handling.req.op = "run"
  /\ runs' = Append(runs, IF Handling.req.arg = "unbound" THEN "error" ELSE "queued")
  /\ IF Handling.req.arg \in {"unbound", "unplaced"} THEN Completes(FALSE)
     ELSE Becomes("bound") /\ UNCHANGED down
  /\ UNCHANGED <<script, client, up, live, pushes, conn, since, ring, seq, subscribers,
                 tickets, fifo, call, current, cancel, phase>>

RunMark ==
  /\ DispAt("bound")
  /\ runs' = [runs EXCEPT ![Run] = "running"]
  /\ Becomes("marked")
  /\ UNCHANGED <<script, client, up, down, live, pushes, conn, since, ring, seq, subscribers,
                 tickets, fifo, call, current, cancel, phase>>

\* Fault seeded for CancelsOnce: the flag of an earlier run is kept.
RunKeepFlag ==
  /\ DispAt("marked")
  /\ Becomes("cleared")
  /\ UNCHANGED <<script, client, up, down, live, pushes, conn, since, ring, seq, subscribers,
                 tickets, fifo, call, runs, current, cancel, phase>>

(* active_cancel.clear() *)
RunClear ==
  /\ DispAt("marked")
  /\ cancel' = FALSE
  /\ Becomes("cleared")
  /\ UNCHANGED <<script, client, up, down, live, pushes, conn, since, ring, seq, subscribers,
                 tickets, fifo, call, runs, current, phase>>

RunAnnounce ==
  /\ DispAt("cleared")
  /\ current' = Run
  /\ Emit("dispatcher")
  /\ Becomes("tasks")
  /\ UNCHANGED <<script, client, up, down, live, conn, since, subscribers, tickets, fifo,
                 call, runs, cancel, phase>>

(* The flag is looked at before each of the run's two tasks; one that fails  *)
(* does so in the second.                                                    *)
RunTask ==
  /\ DispAt("tasks")
  /\ LET fails == disp.task = 2 /\ Handling.req.arg = "fails"
     IN disp' = IF disp.task > 2 THEN [disp EXCEPT !.pc = "done"]
                ELSE IF cancel THEN [disp EXCEPT !.pc = "cancelled"]
                ELSE IF fails THEN [disp EXCEPT !.pc = "error"]
                ELSE [disp EXCEPT !.task = @ + 1]
  /\ UNCHANGED <<script, client, up, down, live, pushes, conn, since, ring, seq, subscribers,
                 tickets, fifo, call, runs, current, cancel, phase>>

(* An object too large to fetch inline is refused after the run, before its  *)
(* state is set.                                                             *)
RunBadFetch ==
  /\ DispAt("done") /\ Handling.req.arg = "badfetch"
  /\ Completes(FALSE)
  /\ UNCHANGED <<script, client, up, live, pushes, conn, since, ring, seq, subscribers,
                 tickets, fifo, call, runs, current, cancel, phase>>

RunSettle ==
  /\ DispAt("done") \/ DispAt("cancelled") \/ DispAt("error")
  /\ disp.pc = "done" => Handling.req.arg # "badfetch"
  /\ runs' = [runs EXCEPT ![Run] = disp.pc]
  /\ current' = 0
  /\ Emit("dispatcher")
  /\ Becomes("settled")
  /\ UNCHANGED <<script, client, up, down, live, conn, since, subscribers, tickets, fifo,
                 call, cancel, phase>>

RunAnswer ==
  /\ DispAt("settled")
  /\ Completes(runs[Run] = "done")
  /\ UNCHANGED <<script, client, up, live, pushes, conn, since, ring, seq, subscribers,
                 tickets, fifo, call, runs, current, cancel, phase>>

DispStep ==
  \/ PushEvent("dispatcher")
  \/ Take \/ Hold
  \/ RunBind \/ RunMark \/ RunClear \/ RunAnnounce \/ RunTask
  \/ RunBadFetch \/ RunSettle \/ RunAnswer

-----------------------------------------------------------------------------
(* serve_forever after the shutdown request. *)

(* The dispatcher is waited for, but not for more than thirty seconds. *)
Join ==
  /\ phase = "stopping"
  /\ phase' = "joined"
  /\ UNCHANGED <<script, client, up, down, live, pushes, conn, since, ring, seq, subscribers,
                 tickets, fifo, call, disp, runs, current, cancel>>

FreeSlab ==
  /\ phase = "joined"
  /\ phase' = "freed"
  /\ UNCHANGED <<script, client, up, down, live, pushes, conn, since, ring, seq, subscribers,
                 tickets, fifo, call, disp, runs, current, cancel>>

(* Every other thread is a daemon thread: it ends with the process. *)
Exit ==
  /\ phase = "freed"
  /\ phase' = "exited"
  /\ live' = [c \in Clients |-> FALSE]
  /\ conn' = [c \in Clients |-> [conn[c] EXCEPT !.pc = "ended"]]
  /\ pushes' = [t \in Threads |-> {}]
  /\ disp' = [disp EXCEPT !.pc = "stopped"]
  /\ UNCHANGED <<script, client, up, down, since, ring, seq, subscribers, tickets, fifo,
                 call, runs, current, cancel>>

ServeStep == Join \/ FreeSlab \/ Exit

-----------------------------------------------------------------------------
(* Connected clients, engine_started emitted. *)
Init ==
  /\ script \in Scripts
  /\ caller = [c \in Clients |-> "idle"]
  /\ mail = [c \in Clients |-> <<>>]
  /\ held = [c \in Clients |-> [ticket |-> 0, done |-> FALSE, outcome |-> <<>>]]
  /\ answers = [c \in Clients |-> <<>>]
  /\ lib = [c \in Clients |-> [closed |-> FALSE, swept |-> FALSE, replies |-> {},
                               tickets |-> {}, orphans |-> Nothing, events |-> <<>>]]
  /\ up = [c \in Clients |-> <<>>]
  /\ down = [c \in Clients |-> <<>>]
  /\ live = [c \in Clients |-> TRUE]
  /\ conn = [c \in Clients |-> [pc |-> "loop", id |-> 0,
                                req |-> [op |-> "hello", arg |-> 0]]]
  /\ pushes = [t \in Threads |-> {}]
  /\ since = [c \in Clients |-> [replayed |-> FALSE, from |-> 0]]
  /\ ring = <<1>> /\ seq = 1
  /\ subscribers = {}
  /\ tickets = 0 /\ fifo = <<>> /\ call = <<>>
  /\ disp = [pc |-> "idle", ticket |-> 0, task |-> 1]
  /\ runs = <<>> /\ current = 0 /\ cancel = FALSE
  /\ phase = "up"

Next ==
  \/ \E c \in Clients :
       CallerStep(c) \/ ReaderStep(c) \/ Disconnect(c) \/ ConnStep(c)
  \/ DispStep
  \/ ServeStep

(* Every thread is scheduled: the operating system's promise to a blocked    *)
(* thread whose condition has come true. Nobody has to disconnect.           *)
Spec ==
  /\ Init /\ [][Next]_vars
  /\ \A c \in Clients : /\ WF_vars(CallerStep(c))
                        /\ WF_vars(ReaderStep(c))
                        /\ WF_vars(ConnStep(c))
  /\ WF_vars(DispStep)
  /\ WF_vars(ServeStep)

-----------------------------------------------------------------------------
(* The cancel requests client c has issued. *)
CancelsOf(c) ==
  Len(SelectSeq(answers[c], LAMBDA a : a.asked.op = "cancel"))
  + (IF caller[c] # "idle" /\ Request(c).op = "cancel" THEN 1 ELSE 0)

(* One cancel_run stops at most one run: the flag a cancel leaves set does   *)
(* not stop the runs that come after it (handlers_runs.py run,               *)
(* active_cancel.clear()).                                                   *)
CancelsOnce ==
  Len(SelectSeq(runs, LAMBDA s : s = "cancelled"))
    <= FoldFunctionOnSet(+, 0, [c \in Clients |-> CancelsOf(c)], Clients)

(* What is on its way to subscriber c, or already there. *)
Reaches(c, e) ==
  \/ \E k \in DOMAIN lib[c].events : lib[c].events[k] = e
  \/ \E k \in DOMAIN down[c] : down[c][k].kind = "event" /\ down[c][k].seq = e
  \/ \E t \in Threads : <<c, e>> \in pushes[t]

(* A subscriber misses no event: whatever is emitted, by any thread, while    *)
(* it subscribes or after, and whatever the ring still held, reaches it       *)
(* (server.py emit and subscribe_events: the two critical sections of a       *)
(* subscription against the one of an emission).                              *)
NoEventMissed ==
  \A c \in Clients :
    since[c].replayed /\ live[c] /\ ~lib[c].closed =>
      \A e \in (since[c].from + 1)..seq : Reaches(c, e)

(* Every call ends, unless the daemon is told to shut down or its client goes *)
(* (client.py _call: the ticket registered after the reply, the completion    *)
(* routed by another thread, perhaps before it).                              *)
CallsEnd ==
  \A c \in Clients : caller[c] # "idle" ~> (caller[c] = "idle" \/ phase # "up")
=============================================================================
