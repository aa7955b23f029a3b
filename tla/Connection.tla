------------------------------ MODULE Connection ------------------------------
(***************************************************************************)
(* lib/websockets/asyncio: Connection (connection.py) over the Sans-I/O    *)
(* protocol of WsProtocol, and its Assembler of messages (messages.py),    *)
(* after the opening handshake, without compression.                       *)
(*                                                                         *)
(* asyncio switches between tasks only at an await: an action is the code  *)
(* between two awaits of one task, or one callback of the event loop.      *)
(* ctx[t] is what task t does in send_context(), the context manager that  *)
(* every write goes through.  The peer, the network and the application    *)
(* do what they like, within cfg.load.  Timeouts are actions that may be   *)
(* taken whenever the code waits under them; close_timeout, ping_interval  *)
(* and ping_timeout are not None.                                          *)
(***************************************************************************)
EXTENDS PeerStream

CONSTANTS
  Configs,    \* the scenarios: records with the fields below
  Senders,    \* tasks that call send() once
  Closers,    \* tasks that call close() once
  MaxPings,   \* bound: keepalive pings
  MaxLoad     \* bound: the load of every scenario

(* A scenario: side, canEof (the transport can half-close, no TLS), high    *)
(* and low (the water marks of the queue), chunk (frames in one read), ops  *)
(* (what the peer sends), pieces[s] (fragments of s's message, 0 for a      *)
(* plain one), calls (the tasks that run, keepalive among them, and         *)
(* "broadcast"), mayPause (whether the write buffer ever fills), cancels    *)
(* (whether the application cancels its calls) and load, the number of      *)
(* things the environment does.                                             *)

NoTask == "none"
Reader == "recv"
Keeper == "keepalive"
Tasks  == {Reader, Keeper} \cup Senders \cup Closers

(* Assembler() refuses water marks that are negative or in the wrong order. *)
ASSUME ScenarioAssumption ==
  /\ MaxPings \in Nat /\ MaxLoad \in Nat
  /\ Senders \cap Closers = {} /\ {Reader, Keeper, NoTask} \cap (Senders \cup Closers) = {}
  /\ \A c \in Configs :
       /\ c.side \in {"client", "server"} /\ c.ops \subseteq PeerOps /\ c.pieces \in [Senders -> Nat]
       /\ c.low \in Nat /\ c.high \in Nat /\ c.low <= c.high /\ c.chunk \in Nat
       /\ c.load \in 0..MaxLoad /\ c.cancels \in BOOLEAN

VARIABLES
  cfg,
  p,          \* self.protocol
  inbox,      \* what the peer sent and the transport has not read
  transport,  \* "open", "closing" or "aborted"
  lost,       \* connection_lost_waiter is done
  full,       \* self.paused: the write buffer is over its high-water mark
  ctx,        \* per task: where it is in send_context()
  pc,         \* per task: where it is outside of it
  deadline,   \* self.close_deadline is not None
  sip,        \* owner of self.send_in_progress
  left,       \* per sender: fragments still to send
  pongs,      \* per ping: the future of its pong
  queue,      \* recv_messages.frames
  paused,     \* recv_messages.paused
  waiter,     \* recv_messages.frames.get_waiter
  parts,      \* frames of the message get() is fetching
  cancelled,  \* recv() has been cancelled and has not run since
  taken,      \* history: messages recv() was given
  torn,       \* history: a fragmented send() was abandoned
  load        \* what the environment did so far

ioVars    == <<transport, full>>
ctxVars   == <<ctx, pc, sip, deadline>>
queueVars == <<queue, paused, waiter, parts, cancelled, taken>>
vars == <<cfg, p, inbox, lost, left, pongs, torn, load, ioVars, ctxVars, queueVars>>

InContext(at, wait, raise) == [at |-> at, wait |-> wait, raise |-> raise]
Returned == InContext("ok", FALSE, FALSE)
Raised   == InContext("raise", FALSE, FALSE)

Init ==
  /\ cfg \in Configs
  /\ p = [InitProtocol(cfg.side) EXCEPT !.state = "OPEN", !.parser = "frames"]
  /\ inbox = <<>> /\ transport = "open" /\ lost = FALSE /\ full = FALSE
  /\ ctx = [t \in Tasks |-> Returned]
  /\ pc = [t \in Tasks |-> IF t # Keeper THEN "idle" ELSE IF Keeper \in cfg.calls THEN "sleep" ELSE "done"]
  /\ deadline = FALSE /\ sip = NoTask /\ left = cfg.pieces
  /\ pongs = [i \in 1..MaxPings |-> "unsent"]
  /\ queue = <<>> /\ paused = FALSE /\ waiter = "none" /\ parts = <<>>
  /\ cancelled = FALSE /\ taken = <<>> /\ torn = FALSE /\ load = 0

\* The environment does one thing more.
Asks == load < cfg.load /\ load' = load + 1

--------------------------------------------------------------------------------
(* send_context() and send_data(). *)

\* send_data(): transport.write may fill the buffer, which calls
\* pause_writing(); without half-close, EOF closes the transport.
SendOut(q) ==
  /\ p' = Written(q)
  /\ full' \in IF HasFrame(q) /\ cfg.mayPause /\ transport = "open"
               THEN {full, TRUE} ELSE {full}
  /\ transport' = IF HasEof(q) /\ ~cfg.canEof /\ transport = "open"
                  THEN "closing" ELSE transport

\* What a task does when its context has ended.
After(t, at, how) ==
  CASE t = Reader -> "closed"
    [] t = Keeper -> IF at = "ping" /\ how = "ok" THEN "pong" ELSE "done"
    [] t \in Closers -> "done"
    [] t \in Senders -> IF at = "fail" THEN "failed"
                        ELSE IF how = "raise" THEN "closed"
                        ELSE IF at = "write" THEN "next" ELSE "done"

\* Task t is at c in its context, which it entered at `at'; held is the
\* owner of send_in_progress while it is there.
Proceed(t, at, c, held) ==
  LET over == c.at \in {"ok", "raise"}
      goes == IF over THEN After(t, at, c.at) ELSE at
  IN  /\ ctx' = [ctx EXCEPT ![t] = c]
      /\ pc' = [pc EXCEPT ![t] = goes]
      /\ sip' = IF held = t /\ goes \in {"failed", "closed", "done"} THEN NoTask ELSE held

\* After drain(): wait for the connection to close when that is expected.
Drained(c) ==
  IF ~c.wait THEN Returned
  ELSE IF lost THEN IF c.raise THEN Raised ELSE Returned
  ELSE [c EXCEPT !.at = "wait"]

\* send_context() of task t when the protocol is open: q is the protocol
\* after its body.
Enter(t, q, at, held) ==
  LET expected == CloseExpected(q) IN
  /\ SendOut(IF expected THEN Asserted(q, ~deadline) ELSE q)
  /\ deadline' = (deadline \/ expected)
  /\ \E c \in {InContext("yield", expected, FALSE), InContext("drain", expected, FALSE),
               Drained(InContext("ok", expected, FALSE))} :
       /\ (c.at = "yield") = (transport' # "open")
       /\ (c.at = "drain") = (transport' = "open" /\ full')
       /\ Proceed(t, at, c, held)

\* send_context() when it is not: wait for the end and raise.
EnterClosed(t, at, held) ==
  /\ deadline' = TRUE
  /\ Proceed(t, at, Drained(InContext("wait", TRUE, TRUE)), held)
  /\ UNCHANGED <<p, ioVars>>

Context(t, q, at, held) ==
  IF p.state = "OPEN" THEN Enter(t, q, at, held) ELSE EnterClosed(t, at, held)

CtxRest == <<cfg, p, inbox, lost, left, pongs, torn, load, queueVars, full, deadline>>

\* drain() after its sleep(0).
CtxYielded(t) ==
  /\ ctx[t].at = "yield"
  /\ Proceed(t, pc[t], IF full THEN [ctx[t] EXCEPT !.at = "drain"] ELSE Drained(ctx[t]), sip)
  /\ UNCHANGED <<transport, CtxRest>>

\* The drain waiter of t is done, with an exception or without.
CtxDrained(t) ==
  \/ /\ ctx[t].at = "drained"
     /\ Proceed(t, pc[t], Drained(ctx[t]), sip)
     /\ UNCHANGED <<transport, CtxRest>>
  \/ /\ ctx[t].at = "error"
     /\ transport' = "aborted"
     /\ Proceed(t, pc[t], IF lost THEN Raised ELSE InContext("abort", FALSE, TRUE), sip)
     /\ UNCHANGED CtxRest

\* connection_lost_waiter is done.
CtxClosed(t) ==
  /\ ctx[t].at \in {"wait", "abort"} /\ lost
  /\ Proceed(t, pc[t], IF ctx[t].raise THEN Raised ELSE Returned, sip)
  /\ UNCHANGED <<transport, CtxRest>>

\* Mutated: a context that times out leaves the transport alone.
CtxTimeoutLeaves(t) ==
  /\ ctx[t].at = "wait" /\ deadline
  /\ Proceed(t, pc[t], IF lost THEN Raised ELSE InContext("abort", FALSE, TRUE), sip)
  /\ UNCHANGED <<transport, CtxRest>>

\* The close deadline passes.
CtxTimeout(t) ==
  /\ ctx[t].at = "wait" /\ deadline
  /\ transport' = "aborted"
  /\ Proceed(t, pc[t], IF lost THEN Raised ELSE InContext("abort", FALSE, TRUE), sip)
  /\ UNCHANGED CtxRest

--------------------------------------------------------------------------------
(* The Assembler and recv(). *)

\* maybe_resume() after the frames before rest were popped.
Resumed(rest) == paused /\ ~(Len(rest) <= cfg.low)

\* get() fetches frames until the message is complete or the queue empty; it
\* asserts that the first of them starts a message.
Fetch ==
  IF parts = <<>> /\ queue # <<>> /\ ~queue[1].starts
  THEN /\ queue' = Tail(queue) /\ waiter' = "none" /\ paused' = Resumed(queue')
       /\ pc' = [pc EXCEPT ![Reader] = "assert"]
       /\ UNCHANGED <<parts, taken, p, ioVars, ctx, sip, deadline>>
  ELSE IF Fins(queue) # {}
  THEN \E i \in Fins(queue) :
         /\ \A j \in Fins(queue) : i <= j
         /\ queue' = SubSeq(queue, i + 1, Len(queue))
         /\ parts' = <<>> /\ waiter' = "none"
         /\ taken' = Append(taken, (parts \o queue)[1].n)
         /\ paused' = Resumed(queue')
         /\ IF queue[i].utf8
            THEN /\ pc' = [pc EXCEPT ![Reader] = "idle"]
                 /\ UNCHANGED <<p, ioVars, ctx, sip, deadline>>
            ELSE Context(Reader, Fail(p, 1007), "fail", sip)
  ELSE /\ queue' = <<>> /\ paused' = Resumed(<<>>)
       /\ parts' = IF lost THEN <<>> ELSE parts \o queue
       /\ waiter' = IF lost THEN "none" ELSE "pending"
       /\ pc' = [pc EXCEPT ![Reader] = IF lost THEN "closed" ELSE "wait"]
       /\ UNCHANGED <<taken, p, ioVars, ctx, sip, deadline>>

RecvRest == <<cfg, inbox, lost, left, pongs, torn>>

\* recv() is called, for the first time or again.
RecvCall ==
  /\ Asks /\ Reader \in cfg.calls /\ pc[Reader] \in {"idle", "assert"}
  /\ Fetch
  /\ UNCHANGED <<cancelled, RecvRest>>

\* The getter was woken by put() or by abort(), which raises EOFError.
RecvWake ==
  /\ pc[Reader] = "wait" /\ ~cancelled
  /\ \/ waiter = "set" /\ Fetch
     \/ /\ waiter = "eof"
        /\ pc' = [pc EXCEPT ![Reader] = "closed"]
        /\ waiter' = "none" /\ parts' = <<>>
        /\ UNCHANGED <<queue, paused, taken, p, ioVars, ctx, sip, deadline>>
  /\ UNCHANGED <<cancelled, load, RecvRest>>

\* task.cancel() of the task that runs recv(): it takes effect when the
\* task runs next.
RecvCancel ==
  /\ cfg.cancels /\ pc[Reader] = "wait" /\ ~cancelled /\ waiter # "eof"
  /\ cancelled' = TRUE
  /\ UNCHANGED <<p, load, ioVars, ctxVars, queue, paused, waiter, parts, taken, RecvRest>>

\* The cancelled recv() runs: get() puts the frames it fetched back into the
\* queue, which asserts that it is empty; when it is not, they are dropped.
RecvCancelled ==
  /\ cancelled /\ cancelled' = FALSE
  /\ waiter' = "none" /\ parts' = <<>>
  /\ IF parts # <<>> /\ queue # <<>>
     THEN pc' = [pc EXCEPT ![Reader] = "assert"] /\ UNCHANGED queue
     ELSE pc' = [pc EXCEPT ![Reader] = "idle"] /\ queue' = parts \o queue
  /\ UNCHANGED <<paused, taken, p, load, ioVars, ctx, sip, deadline, RecvRest>>

--------------------------------------------------------------------------------
(* The callbacks of the event loop. *)

\* The peer sends a frame or ends its stream; a pong answers a ping that was
\* sent.  Frames are numbered.
PeerSends(op) ==
  /\ Asks /\ op \in cfg.ops
  /\ \A i \in DOMAIN inbox : inbox[i].op # "eof"
  /\ IF op = "pong"
     THEN \E i \in DOMAIN pongs : pongs[i] # "unsent" /\ inbox' = Append(inbox, Item(op, i))
     ELSE inbox' = Append(inbox, Item(op, load'))
  /\ UNCHANGED <<cfg, p, lost, left, pongs, torn, ioVars, ctxVars, queueVars>>

\* Mutated: a frame is queued without a look at the waiting getter.
NotifiedNot(data) == waiter

\* SimpleQueue.put of the frames of data.
Notified(data) == IF data # <<>> /\ waiter = "pending" /\ ~cancelled THEN "set" ELSE waiter

\* data_received() of n frames.
DataReceived(n) ==
  /\ transport = "open" /\ ~paused
  /\ n <= Len(inbox) /\ \A i \in 1..n : inbox[i].op # "eof"
  /\ \E r \in {Fed(p, SubSeq(inbox, 1, n))} :
       /\ SendOut(r.p)
       /\ deadline' = (deadline \/ CloseExpected(r.p))
       /\ queue' = queue \o r.data
       /\ paused' = (r.data # <<>> /\ Len(queue') > cfg.high)
       /\ waiter' = Notified(r.data)
       /\ pongs' = Acknowledge(pongs, {r.events[i].n : i \in {j \in DOMAIN r.events : r.events[j].op = "pong"}})
  /\ inbox' = SubSeq(inbox, n + 1, Len(inbox))
  /\ UNCHANGED <<cfg, lost, left, torn, load, ctx, pc, sip, parts, cancelled, taken>>

\* eof_received() returns None: asyncio closes the transport.
EofReceived ==
  /\ transport = "open" /\ ~paused
  /\ inbox # <<>> /\ inbox[1].op = "eof"
  /\ p' = Written(ReceiveEof(p))
  /\ transport' = "closing" /\ inbox' = <<>>
  /\ UNCHANGED <<cfg, lost, left, pongs, torn, load, full, ctxVars, queueVars>>

\* terminate_pending_pings()
Settled == [i \in DOMAIN pongs |-> IF pongs[i] = "pending" THEN "failed" ELSE pongs[i]]

\* The drain waiters are done, keepalive is cancelled.
Woken(exc) ==
  [t \in Tasks |-> IF t = Keeper THEN Returned
                   ELSE IF ctx[t].at # "drain" THEN ctx[t]
                   ELSE [ctx[t] EXCEPT !.at = IF exc THEN "error" ELSE "drained"]]

\* SimpleQueue.abort()
Aborted == IF waiter = "pending" /\ ~cancelled THEN "eof" ELSE waiter

\* Mutated: the messages that wait are thrown away.
ConnectionLostClears(exc) ==
  /\ ~lost /\ lost' = TRUE
  /\ IF exc THEN Asks
     ELSE /\ transport = "aborted" \/ (transport = "closing" /\ ~full)
          /\ UNCHANGED load
  /\ p' = Written(EofOnce(p))
  /\ transport' = "aborted" /\ full' = FALSE
  /\ waiter' = Aborted
  /\ pongs' = Settled
  /\ ctx' = Woken(exc)
  /\ pc' = [pc EXCEPT ![Keeper] = "done"]
  /\ inbox' = <<>> /\ queue' = <<>>
  /\ UNCHANGED <<cfg, left, torn, sip, deadline, paused, parts, cancelled, taken>>

\* connection_lost(): with an exception when the network fails; a transport
\* that is closing first empties its buffer.
ConnectionLost(exc) ==
  /\ ~lost /\ lost' = TRUE
  /\ IF exc THEN Asks
     ELSE /\ transport = "aborted" \/ (transport = "closing" /\ ~full)
          /\ UNCHANGED load
  /\ p' = Written(EofOnce(p))
  /\ transport' = "aborted" /\ full' = FALSE
  /\ waiter' = Aborted
  /\ pongs' = Settled
  /\ ctx' = Woken(exc)
  /\ pc' = [pc EXCEPT ![Keeper] = "done"]
  /\ inbox' = <<>>
  /\ UNCHANGED <<cfg, left, torn, sip, deadline, queue, paused, parts, cancelled, taken>>

\* The peer read: resume_writing().
ResumeWriting ==
  /\ full /\ transport # "aborted" /\ full' = FALSE
  /\ ctx' = [t \in Tasks |-> IF ctx[t].at = "drain" THEN [ctx[t] EXCEPT !.at = "drained"] ELSE ctx[t]]
  /\ UNCHANGED <<cfg, p, inbox, transport, lost, left, pongs, torn, load, pc, sip, deadline, queueVars>>

--------------------------------------------------------------------------------
(* keepalive() *)

KeepRest == <<cfg, inbox, lost, left, torn, queueVars>>

\* ping()
KeepPing ==
  /\ pc[Keeper] = "sleep"
  /\ \/ /\ p.state = "OPEN"
        /\ \E i \in DOMAIN pongs :
             /\ pongs[i] = "unsent" /\ \A j \in 1..(i - 1) : pongs[j] # "unsent"
             /\ pongs' = [pongs EXCEPT ![i] = "pending"]
        /\ Enter(Keeper, SendPing(p, 0), "ping", sip)
     \/ /\ p.state # "OPEN"
        /\ EnterClosed(Keeper, "ping", sip) /\ UNCHANGED pongs
  /\ UNCHANGED <<load, KeepRest>>

KeepPong ==
  /\ pc[Keeper] = "pong" /\ \A i \in DOMAIN pongs : pongs[i] # "pending"
  /\ pc' = [pc EXCEPT ![Keeper] = "sleep"]
  /\ UNCHANGED <<p, pongs, ioVars, ctx, sip, deadline, load, KeepRest>>

\* No pong within ping_timeout.
KeepTimeout ==
  /\ pc[Keeper] = "pong" /\ \E i \in DOMAIN pongs : pongs[i] = "pending"
  /\ Context(Keeper, Fail(p, 1011), "fail", sip)
  /\ UNCHANGED <<pongs, load, KeepRest>>

--------------------------------------------------------------------------------
(* send(), close(), broadcast(). *)

AppRest == <<cfg, inbox, lost, pongs, queueVars>>
Goes(t, at) == pc' = [pc EXCEPT ![t] = at]
Fragmented(s) == cfg.pieces[s] > 0

\* A plain message, or the wait for the first fragment of the iterator.
Begin(s) ==
  IF Fragmented(s)
  THEN Goes(s, "first") /\ UNCHANGED <<p, ioVars, ctx, sip, deadline>>
  ELSE IF p.state = "OPEN" /\ p.expectCont
  THEN Goes(s, "protocol error") /\ UNCHANGED <<p, ioVars, ctx, sip, deadline>>
  ELSE Context(s, SendData(p, TRUE, TRUE, 0), "final", sip)

SendCall(s) ==
  /\ Asks /\ s \in cfg.calls /\ pc[s] = "idle"
  /\ IF sip = NoTask THEN Begin(s)
     ELSE Goes(s, "turn") /\ UNCHANGED <<p, ioVars, ctx, sip, deadline>>
  /\ UNCHANGED <<left, torn, AppRest>>

\* The future of send_in_progress is done.
SendTurn(s) ==
  /\ pc[s] = "turn" /\ sip = NoTask
  /\ Begin(s)
  /\ UNCHANGED <<left, torn, load, AppRest>>

\* The first fragment; a message that was abandoned before fails it.
SendFirst(s) ==
  /\ pc[s] = "first"
  /\ IF sip # NoTask
     THEN Goes(s, "assert") /\ UNCHANGED <<left, p, ioVars, ctx, sip, deadline>>
     ELSE IF p.state = "OPEN" /\ p.expectCont
     THEN Context(s, Fail(p, 1011), "fail", s) /\ UNCHANGED left
     ELSE /\ Context(s, SendData(p, TRUE, FALSE, 0), "write", s)
          /\ left' = [left EXCEPT ![s] = @ - 1]
  /\ UNCHANGED <<torn, load, AppRest>>

\* The iterator yields a fragment, or ends: the final fragment is empty.
SendNext(s) ==
  /\ pc[s] = "next"
  /\ IF left[s] > 0
     THEN /\ Context(s, SendData(p, FALSE, FALSE, 0), "write", sip)
          /\ left' = [left EXCEPT ![s] = @ - 1]
     ELSE Context(s, SendData(p, FALSE, TRUE, 0), "final", sip) /\ UNCHANGED left
  /\ UNCHANGED <<torn, load, AppRest>>

\* The iterator raises, or yields something else than a fragment.
SendFails(s) ==
  /\ Asks /\ pc[s] = "next"
  /\ Context(s, Fail(p, 1011), "fail", sip)
  /\ torn' = TRUE
  /\ UNCHANGED <<left, AppRest>>

\* The task is cancelled in send(): nothing but send_in_progress is put right.
SendCancel(s) ==
  /\ Asks /\ cfg.cancels
  /\ pc[s] \in {"turn", "first", "next", "write", "final"}
  /\ Goes(s, "cancelled") /\ ctx' = [ctx EXCEPT ![s] = Returned]
  /\ sip' = IF sip = s THEN NoTask ELSE sip
  /\ torn' = (torn \/ sip = s)
  /\ UNCHANGED <<left, p, ioVars, deadline, AppRest>>

CloseCall(c) ==
  /\ Asks /\ c \in cfg.calls /\ pc[c] = "idle"
  /\ Context(c, IF sip # NoTask THEN Fail(p, 1011) ELSE SendClose(p, 1000), "close", sip)
  /\ UNCHANGED <<left, torn, AppRest>>

\* broadcast() skips a connection that is not open, that is sending a
\* fragmented message, or that does not take its message.
Broadcast ==
  /\ Asks /\ "broadcast" \in cfg.calls /\ p.state = "OPEN" /\ sip = NoTask /\ ~p.expectCont
  /\ SendOut(SendData(p, TRUE, TRUE, 0))
  /\ UNCHANGED <<left, torn, ctxVars, AppRest>>

--------------------------------------------------------------------------------
InCtx(t) == CtxYielded(t) \/ CtxDrained(t) \/ CtxClosed(t) \/ CtxTimeout(t)
Keepalive == KeepPing \/ KeepPong \/ KeepTimeout
Send(s) == SendTurn(s) \/ SendFirst(s) \/ SendNext(s)

\* What the event loop owes: tasks that can run, timers, callbacks.
Loop ==
  \/ \E t \in Tasks : InCtx(t)
  \/ Keepalive \/ RecvWake \/ RecvCancelled
  \/ ConnectionLost(FALSE) \/ EofReceived
  \/ \E n \in 1..cfg.chunk : DataReceived(n)

Environment ==
  \/ \E op \in cfg.ops : PeerSends(op)
  \/ ConnectionLost(TRUE) \/ ResumeWriting
  \/ RecvCall \/ RecvCancel \/ Broadcast
  \/ \E s \in Senders : SendCall(s) \/ Send(s) \/ SendFails(s) \/ SendCancel(s)
  \/ \E c \in Closers : CloseCall(c)

Next == Loop \/ Environment

(* The event loop runs every task that can run and fires every timer.       *)
(* Nothing is assumed of the peer, the network or the application.          *)
Spec == Init /\ [][Next]_vars /\ WF_vars(Loop)

--------------------------------------------------------------------------------
(* Properties. *)

TypeOK ==
  /\ cfg \in Configs
  /\ p.state \in {"OPEN", "CLOSING", "CLOSED"} /\ p.parser \in {"frames", "discard"}
  /\ transport \in {"open", "closing", "aborted"}
  /\ lost \in BOOLEAN /\ full \in BOOLEAN /\ deadline \in BOOLEAN /\ paused \in BOOLEAN
  /\ ctx \in [Tasks -> [at: {"ok", "raise", "yield", "drain", "drained", "error", "wait", "abort"},
                        wait: BOOLEAN, raise: BOOLEAN]]
  /\ sip \in Senders \cup {NoTask} /\ left \in [Senders -> Nat]
  /\ pongs \in [1..MaxPings -> {"unsent", "pending", "done", "failed"}]
  /\ waiter \in {"none", "pending", "set", "eof"} /\ cancelled \in BOOLEAN /\ torn \in BOOLEAN
  /\ \A i \in DOMAIN parts : ~parts[i].fin

(* No assertion of protocol.py fails, nor the one in send_context() on      *)
(* close_deadline; every task that waits for the end waits under a deadline.*)
DeadlineKept ==
  /\ ~p.broken
  /\ deadline => p.state # "OPEN"
  /\ \A t \in Tasks : ctx[t].at = "wait" => deadline

(* Nobody sleeps beside work: a getter that waits has nothing to fetch and  *)
(* no end to be told of, a task that drains finds a full buffer, a sender   *)
(* waits for its turn only while another one sends.                         *)
NoLostWakeup ==
  /\ pc[Reader] = "wait" /\ waiter = "pending" /\ ~cancelled => queue = <<>> /\ ~lost
  /\ \A t \in Tasks : ctx[t].at = "drain" => full /\ ~lost

(* Reading is paused only while more than low frames wait, so that the next *)
(* recv() will resume it.                                                   *)
PausedMeansQueued == paused => Len(queue) > cfg.low

(* When the connection is lost no caller of ping() is left waiting, and     *)
(* pings are acknowledged in order.                                         *)
PingsSettled ==
  /\ lost => \A i \in DOMAIN pongs : pongs[i] # "pending"
  /\ \A i, j \in DOMAIN pongs : i < j /\ pongs[i] = "pending" => pongs[j] # "done"

(* send() raises ProtocolError, and a connection is left within a message,  *)
(* only when a fragmented send() was abandoned: otherwise the one that      *)
(* sends fragments keeps the others out.                                    *)
SendersTakeTurns ==
  /\ \A s \in Senders : pc[s] = "protocol error" => torn
  /\ p.state = "OPEN" /\ p.expectCont => torn \/ sip # NoTask

(* close() returns, and recv() and send() raise ConnectionClosed, only when *)
(* the connection is closed and close_exc can be read.                      *)
ClosedMeansClosed ==
  /\ \A c \in Closers : pc[c] = "done" => lost
  /\ \A t \in Senders \cup {Reader} : pc[t] = "closed" => lost
  /\ lost => p.state = "CLOSED"

(* The 1000 that begins the closing handshake on this side is sent between  *)
(* messages, unless the application cancelled or broke off a fragmented     *)
(* send(): close() asks who sends, never what the protocol expects next.    *)
CloseBetweenMessages ==
  [][p.closeSent = NoCode /\ p'.closeSent = 1000 /\ p'.closeRcvd = NoCode
       => ~p.expectCont \/ torn]_vars

(* recv() implements the abstract stream of messages; it fails when the     *)
(* assertion of get() raises instead of CancelledError, or at a frame whose *)
(* message lost its first frames in that way.                               *)
Arrived == Range(taken) \cup Messages(parts \o queue)
Stream == INSTANCE FallibleStream WITH Msgs <- 1..MaxLoad, arrived <- Arrived, ended <- lost,
                                       failed <- pc[Reader] = "assert"
DeliversStream == Stream!FallibleSpec

\* A task waits for the peer to read, which no timeout bounds.
Clogged == full /\ \E t \in Tasks : ctx[t].at = "drain"

(* A closing handshake that began ends with the TCP connection, whatever    *)
(* the peer does, when somebody waits for it: close(), or keepalive with    *)
(* its next ping.                                                           *)
Watched == Keeper \in cfg.calls \/ \E c \in Closers : ctx[c].at = "wait"
ClosingEnds == (p.state = "CLOSING" /\ Watched) ~> (lost \/ Clogged)

(* A recv() that waits is released when the connection is lost.             *)
RecvReleased == (pc[Reader] = "wait" /\ lost) ~> pc[Reader] # "wait"

(* Every keepalive ping is answered or the connection goes down.            *)
SilentPeerDetected == pc[Keeper] = "pong" ~> (pc[Keeper] = "sleep" \/ lost \/ Clogged)

(* Tasks that wait for one another, and what they find when they wake.      *)
TasksInStep ==
  /\ TypeOK /\ DeadlineKept /\ NoLostWakeup /\ PausedMeansQueued /\ PingsSettled
  /\ SendersTakeTurns /\ ClosedMeansClosed

(* The stream in both directions: whole messages, then the close.           *)
StreamKept == DeliversStream /\ CloseBetweenMessages

(* Every wait ends, as far as the peer reads.                               *)
WaitsEnd == ClosingEnds /\ RecvReleased /\ SilentPeerDetected
================================================================================
