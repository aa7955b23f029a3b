---------------------------- MODULE SyncConnection ----------------------------
(***************************************************************************)
(* lib/websockets/sync: Connection (connection.py) over the Sans-I/O       *)
(* protocol of WsProtocol, and its Assembler of messages (messages.py),    *)
(* after the opening handshake, without compression.                       *)
(*                                                                         *)
(* Here threads run at the same time: recv_events(), keepalive() and the   *)
(* threads of the application.  An action is a section under               *)
(* protocol_mutex or under the mutex of the Assembler, a step between two  *)
(* of them, or the end of a blocking call.  Only sendall() may block while *)
(* protocol_mutex is held: `holder' is the thread it happens to.  Timeouts *)
(* may pass whenever the code waits under them; close_timeout,             *)
(* ping_interval and ping_timeout are not None.                            *)
(***************************************************************************)
EXTENDS PeerStream

CONSTANTS
  Configs,    \* the scenarios: records with the fields below
  Senders,    \* threads that call send() once
  Closers,    \* threads that call close() once
  MaxPings,   \* bound: keepalive pings
  MaxLoad     \* bound: the load of every scenario

(* A scenario: side, high and low (the water marks of the queue), chunk     *)
(* (frames in one read), ops (what the peer and the network do), pieces[s]  *)
(* (fragments of s's message, 0 for a plain one), calls (the threads that   *)
(* run), reads (what the reader calls: "recv", "timed" for recv(timeout),   *)
(* "iter" for recv_streaming), clogs (whether sendall() may block) and      *)
(* load, the number of things the environment does.                         *)

NoThread == "none"
Reader == "recv"
Keeper == "keepalive"
Events == "recv_events"
Users  == {Reader, Keeper} \cup Senders \cup Closers

(* Assembler() refuses water marks that are negative or in the wrong order. *)
ASSUME ScenarioAssumption ==
  /\ MaxPings \in Nat /\ MaxLoad \in Nat
  /\ Senders \cap Closers = {} /\ {Reader, Keeper, Events, NoThread} \cap (Senders \cup Closers) = {}
  /\ \A c \in Configs :
       /\ c.side \in {"client", "server"} /\ c.ops \subseteq PeerOps \cup {"reset"} /\ c.pieces \in [Senders -> Nat]
       /\ c.low \in Nat /\ c.high \in Nat /\ c.low <= c.high /\ c.chunk \in Nat
       /\ c.load \in 0..MaxLoad

VARIABLES
  cfg,
  p,         \* self.protocol
  inbox,     \* what the peer sent and the socket has not been read of
  sock,      \* close_socket() has not shut the socket down
  holder,    \* the thread that blocks in sendall(), holding protocol_mutex
  deadline,  \* self.close_deadline is not None
  exc,       \* self.recv_exc
  ev,        \* recv_events_thread
  ctx,       \* per thread: where it is in send_context()
  pc,        \* per thread: where it is outside of it
  sip,       \* self.send_in_progress
  left,      \* per sender: fragments still to send
  pings,     \* per ping: the event of its pong
  queue,     \* recv_messages.frames
  paused,    \* recv_messages.paused: recv_flow_control is held
  ended,     \* recv_messages.closed
  getting,   \* recv_messages.get_in_progress
  parts,     \* frames of the message that is being fetched
  streams,   \* the reader is in recv_streaming()
  taken,     \* history: messages the reader was given
  broken,    \* history: recv_events() ended in its safety net
  shut,      \* history: a thread other than recv_events() closed the socket
  load       \* what the environment did so far

sockVars  == <<sock, holder, deadline>>
appVars   == <<ctx, pc, sip, left>>
queueVars == <<queue, paused, ended>>
readVars  == <<getting, parts, streams, taken>>
histVars  == <<broken, shut>>
vars == <<cfg, p, inbox, exc, ev, pings, load, sockVars, appVars, queueVars, readVars, histVars>>

\* In its context a thread goes on to `at'; raise: ConnectionClosed follows.
InContext(at, raise) == [at |-> at, raise |-> raise]
Returned == InContext("ok", FALSE)
Thread(at, data) == [at |-> at, data |-> data, timed |-> FALSE]

\* None in the queue of frames.
EndMark == [n |-> 0, starts |-> FALSE, fin |-> FALSE, utf8 |-> TRUE]

Init ==
  /\ cfg \in Configs
  /\ p = [InitProtocol(cfg.side) EXCEPT !.state = "OPEN", !.parser = "frames"]
  /\ inbox = <<>> /\ sock = TRUE /\ holder = NoThread /\ deadline = FALSE /\ exc = "none"
  /\ ev = Thread("flow", <<>>)
  /\ ctx = [t \in Users |-> Returned]
  /\ pc = [t \in Users |-> IF t # Keeper THEN "idle" ELSE IF Keeper \in cfg.calls THEN "sleep" ELSE "done"]
  /\ sip = FALSE /\ left = cfg.pieces
  /\ pings = [i \in 1..MaxPings |-> "unsent"]
  /\ queue = <<>> /\ paused = FALSE /\ ended = FALSE
  /\ getting = FALSE /\ parts = <<>> /\ streams = FALSE /\ taken = <<>>
  /\ broken = FALSE /\ shut = FALSE /\ load = 0

Asks == load < cfg.load /\ load' = load + 1
Free == holder = NoThread
Over == ev.at = "done"
Goes(t, at) == pc' = [pc EXCEPT ![t] = at]

--------------------------------------------------------------------------------
(* send_context() *)

\* The network may fail under a socket that is open.
Resets == "reset" \in cfg.ops

\* send_data(): what sendall() may do.
Sent(q) ==
  IF ~HasFrame(q) THEN {"ok"}
  ELSE IF ~sock THEN {"error"}
  ELSE {"ok"} \cup (IF cfg.clogs THEN {"blocked"} ELSE {}) \cup (IF Resets THEN {"error"} ELSE {})

\* What a thread does when its context has ended.
After(t, at, raised) ==
  CASE t = Reader -> "eof"
    [] t = Keeper -> IF at = "ping" /\ ~raised THEN "pong" ELSE "done"
    [] t \in Closers -> "done"
    [] t \in Senders -> IF raised THEN "closed" ELSE IF at = "fail" THEN "failed"
                        ELSE IF at = "write" THEN "next" ELSE "done"

Proceed(t, at, c) ==
  /\ ctx' = [ctx EXCEPT ![t] = c]
  /\ Goes(t, IF c.at \in {"ok", "raise"} THEN After(t, at, c.at = "raise") ELSE at)

\* The protocol is open: q is the protocol after the body.
Enter(t, q, at) ==
  /\ p' = Written(IF CloseExpected(q) THEN Asserted(q, ~deadline) ELSE q)
  /\ deadline' = (deadline \/ CloseExpected(q))
  /\ \E how \in Sent(q) :
       /\ holder' = IF how = "blocked" THEN t ELSE NoThread
       /\ Proceed(t, at, CASE how = "error" -> InContext("socket", TRUE)
                           [] how = "blocked" -> InContext("sendall", FALSE)
                           [] how = "ok" -> IF CloseExpected(q) THEN InContext("join", FALSE)
                                            ELSE Returned)

\* It is not: wait for the end and raise.
EnterClosed(t, at) ==
  /\ deadline' = TRUE
  /\ Proceed(t, at, InContext("join", TRUE))
  /\ UNCHANGED <<p, holder>>

Context(t, q, at) ==
  /\ Free
  /\ IF p.state = "OPEN" THEN Enter(t, q, at) ELSE EnterClosed(t, at)

CtxRest == <<cfg, inbox, sip, left, parts, getting, streams, taken, broken, load>>

\* sendall() of t ends: the peer reads, the network fails, the socket is shut
\* down, or the deadline passes that was set before it began.
CtxSent(t, how) ==
  /\ ctx[t].at = "sendall" /\ holder' = NoThread
  /\ how = "error" => ~sock \/ p.state = "CLOSING"
  /\ how = "reset" => Resets
  /\ Proceed(t, pc[t], IF how # "ok" THEN InContext("socket", TRUE)
                       ELSE IF CloseExpected(p) THEN InContext("join", FALSE) ELSE Returned)
  /\ UNCHANGED <<p, sock, deadline, exc, ev, pings, queueVars, shut, CtxRest>>

\* recv_events_thread.join() returns, because the thread ended or because
\* the deadline passed.
CtxJoined(t) ==
  /\ ctx[t].at = "join" /\ Over
  /\ Proceed(t, pc[t], IF ctx[t].raise THEN InContext("socket", TRUE) ELSE Returned)
  /\ UNCHANGED <<p, sockVars, exc, ev, pings, queueVars, shut, CtxRest>>

\* Mutated: the thread waits for recv_events() with no regard to the time.
CtxLateNever(t) ==
  /\ ctx[t].at = "join" /\ deadline /\ ~Over /\ ~sock
  /\ Proceed(t, pc[t], InContext("late", TRUE))
  /\ UNCHANGED <<p, sockVars, exc, ev, pings, queueVars, shut, CtxRest>>

CtxLate(t) ==
  /\ ctx[t].at = "join" /\ deadline /\ ~Over
  /\ Proceed(t, pc[t], InContext("late", TRUE))
  /\ UNCHANGED <<p, sockVars, exc, ev, pings, queueVars, shut, CtxRest>>

CtxLateSet(t) ==
  /\ ctx[t].at = "late" /\ Free
  /\ exc' = IF exc = "none" THEN "timeout" ELSE exc
  /\ Proceed(t, pc[t], InContext("socket", TRUE))
  /\ UNCHANGED <<p, sockVars, ev, pings, queueVars, shut, CtxRest>>

\* close_socket(), without the mutex and with it.
CtxShutdown(t) ==
  /\ ctx[t].at = "socket"
  /\ sock' = FALSE /\ shut' = TRUE
  /\ Proceed(t, pc[t], InContext("assembler", TRUE))
  /\ UNCHANGED <<p, holder, deadline, exc, ev, pings, queueVars, CtxRest>>

\* Assembler.close()
AssemblerClose ==
  /\ ended' = TRUE /\ paused' = FALSE
  /\ queue' = IF getting /\ ~ended THEN Append(queue, EndMark) ELSE queue

\* terminate_pending_pings(): keepalive asks for an acknowledgement.
Settled == [i \in DOMAIN pings |-> IF pings[i] = "pending" THEN "done" ELSE pings[i]]

CloseAssembler ==
  /\ Free
  /\ p' = Written(EofOnce(p))
  /\ AssemblerClose
  /\ pings' = Settled

CtxAssembler(t) ==
  /\ ctx[t].at = "assembler" /\ CloseAssembler
  /\ Proceed(t, pc[t], InContext("last", TRUE))
  /\ UNCHANGED <<sockVars, exc, ev, shut, CtxRest>>

\* join() without a timeout.
CtxLast(t) ==
  /\ ctx[t].at = "last" /\ Over
  /\ Proceed(t, pc[t], InContext("raise", FALSE))
  /\ UNCHANGED <<p, sockVars, exc, ev, pings, queueVars, shut, CtxRest>>

--------------------------------------------------------------------------------
(* recv_events() *)

EvRest == <<cfg, appVars, readVars, shut>>
EvGoes(at) == ev' = Thread(at, <<>>)

\* recv_flow_control is free; the socket has a timeout from now on if there
\* is a deadline.
EvFlow ==
  /\ ev.at = "flow" /\ ~paused
  /\ ev' = [Thread("read", <<>>) EXCEPT !.timed = deadline]
  /\ UNCHANGED <<p, inbox, sockVars, exc, pings, queueVars, broken, load, EvRest>>

\* socket.recv() returns n frames, ends, fails, or times out.
EvRead(n) ==
  /\ ev.at = "read" /\ sock
  /\ n <= Len(inbox) /\ \A i \in 1..n : inbox[i].op # "eof"
  /\ ev' = Thread("data", SubSeq(inbox, 1, n))
  /\ inbox' = SubSeq(inbox, n + 1, Len(inbox))
  /\ UNCHANGED <<p, sockVars, exc, pings, queueVars, broken, load, EvRest>>

EvReadEnds ==
  /\ ev.at = "read"
  /\ \/ /\ sock /\ inbox # <<>> /\ inbox[1].op = "eof" /\ EvGoes("eof")
     \/ /\ ~sock /\ (EvGoes("eof") \/ EvGoes("error"))
     \/ /\ ev.timed /\ EvGoes("timeout")
  /\ UNCHANGED <<p, inbox, sockVars, exc, pings, queueVars, broken, load, EvRest>>

\* The network fails.
EvReset ==
  /\ ev.at = "read" /\ Asks /\ Resets /\ EvGoes("error")
  /\ UNCHANGED <<p, inbox, sockVars, exc, pings, queueVars, broken, EvRest>>

\* set_recv_exc() of an exception of socket.recv().
EvFailed ==
  /\ ev.at \in {"error", "timeout"} /\ Free
  /\ exc' = IF exc = "none" THEN ev.at ELSE exc
  /\ EvGoes("eof")
  /\ UNCHANGED <<p, inbox, sockVars, pings, queueVars, broken, load, EvRest>>

\* The except branch at the end: "a safety net in case of bugs".
SafetyNet ==
  /\ broken' = TRUE
  /\ exc' = IF exc = "none" THEN "internal" ELSE exc
  /\ EvGoes("socket")

\* The section under protocol_mutex: data are fed, and answered.  A protocol
\* that was closed meanwhile does not take them.
EvData ==
  /\ ev.at = "data" /\ Free
  /\ IF p.state = "CLOSED"
     THEN SafetyNet /\ UNCHANGED <<p, deadline, holder>>
     ELSE \E r \in {Fed(p, ev.data)} : \E how \in Sent(r.p) :
            /\ p' = Written(r.p)
            /\ holder' = IF how = "blocked" THEN Events ELSE NoThread
            /\ ev' = CASE how = "error" -> Thread("eof", <<>>)
                       [] how = "blocked" -> Thread("sendall", r.events)
                       [] how = "ok" -> Thread("events", r.events)
            /\ exc' = IF how = "error" /\ exc = "none" THEN "error" ELSE exc
            /\ deadline' = (deadline \/ (how = "ok" /\ CloseExpected(r.p)))
            /\ UNCHANGED broken
  /\ UNCHANGED <<inbox, sock, pings, queueVars, load, EvRest>>

EvSent(how) ==
  /\ ev.at = "sendall" /\ holder' = NoThread
  /\ how = "error" => ~sock \/ deadline
  /\ how = "reset" => Resets
  /\ IF how # "ok"
     THEN EvGoes("eof") /\ exc' = (IF exc = "none" THEN "error" ELSE exc) /\ UNCHANGED deadline
     ELSE /\ ev' = [ev EXCEPT !.at = "events"]
          /\ deadline' = (deadline \/ CloseExpected(p))
          /\ UNCHANGED exc
  /\ UNCHANGED <<p, inbox, sock, pings, queueVars, broken, load, EvRest>>

\* maybe_pause()
Pauses(q) == paused \/ Len(q) > cfg.high

\* Assembler.put()
Put(item) ==
  IF ended THEN SafetyNet /\ UNCHANGED queueVars
  ELSE /\ queue' = Append(queue, Queued(item)) /\ paused' = Pauses(queue')
       /\ ev' = [ev EXCEPT !.data = Tail(@)]
       /\ UNCHANGED <<ended, exc, broken>>

\* process_event()
EvEvent ==
  /\ ev.at = "events"
  /\ IF ev.data = <<>> THEN EvGoes("flow") /\ UNCHANGED <<queueVars, exc, broken, pings>>
     ELSE \E item \in {ev.data[1]} :
            IF IsData(item) THEN (ended => Free) /\ Put(item) /\ UNCHANGED pings
            ELSE /\ item.op = "pong" => Free
                 /\ pings' = IF item.op = "pong" THEN Acknowledge(pings, {item.n}) ELSE pings
                 /\ ev' = [ev EXCEPT !.data = Tail(@)]
                 /\ UNCHANGED <<queueVars, exc, broken>>
  /\ UNCHANGED <<p, inbox, sockVars, load, EvRest>>

\* After the loop: receive_eof().
EvEof ==
  /\ ev.at = "eof" /\ Free
  /\ p' = Written(EofOnce(p))
  /\ EvGoes("socket")
  /\ UNCHANGED <<inbox, sockVars, exc, pings, queueVars, broken, load, EvRest>>

\* close_socket(), without the mutex and with it.
EvShutdown ==
  /\ ev.at = "socket" /\ EvGoes("assembler")
  /\ sock' = FALSE /\ inbox' = <<>>
  /\ UNCHANGED <<p, holder, deadline, exc, pings, queueVars, broken, load, EvRest>>

EvAssembler ==
  /\ ev.at = "assembler" /\ CloseAssembler /\ EvGoes("done")
  /\ UNCHANGED <<inbox, sockVars, exc, broken, load, EvRest>>

--------------------------------------------------------------------------------
(* recv() and recv_streaming(): get() and get_iter() of the Assembler. *)

RecvRest == <<cfg, inbox, sock, exc, ev, pings, ended, sip, left, histVars>>
RecvOnly == <<p, holder, deadline, ctx>>

\* A call; after a recv_streaming() that was not consumed it raises
\* ConcurrencyError.
RecvCall ==
  /\ Asks /\ Reader \in cfg.calls /\ pc[Reader] = "idle"
  /\ IF getting THEN Goes(Reader, "unusable") /\ UNCHANGED <<getting, streams>>
     ELSE /\ Goes(Reader, "next") /\ getting' = TRUE
          /\ \E kind \in cfg.reads : streams' = (kind = "iter")
  /\ UNCHANGED <<queue, paused, parts, taken, RecvOnly, RecvRest>>

\* A frame was fetched, or None; the iterator keeps the one it gave last.
Popped ==
  /\ queue # <<>> /\ queue' = Tail(queue)
  /\ IF queue[1] = EndMark
     THEN Goes(Reader, "eof") /\ getting' = streams /\ parts' = <<>>
     ELSE Goes(Reader, "popped") /\ parts' = Append(parts, queue[1]) /\ UNCHANGED getting

\* get_next_frame() looks at closed, and then fetches with or without
\* blocking.
RecvNext ==
  /\ pc[Reader] = "next"
  /\ IF ~ended THEN Goes(Reader, "block") /\ UNCHANGED <<queue, getting, parts>>
     ELSE IF queue # <<>> THEN Popped
     ELSE Goes(Reader, "eof") /\ getting' = streams /\ parts' = <<>> /\ UNCHANGED queue
  /\ UNCHANGED <<paused, streams, taken, load, RecvOnly, RecvRest>>

RecvPop ==
  /\ pc[Reader] = "block" /\ Popped
  /\ UNCHANGED <<paused, streams, taken, load, RecvOnly, RecvRest>>

\* The timeout passes, before the first frame or after it.
RecvTimeout ==
  /\ pc[Reader] = "block" /\ queue = <<>> /\ ~streams /\ "timed" \in cfg.reads
  /\ IF parts = <<>> THEN Goes(Reader, "idle") /\ getting' = FALSE
     ELSE Goes(Reader, "reset") /\ UNCHANGED getting
  /\ UNCHANGED <<queue, paused, parts, streams, taken, load, RecvOnly, RecvRest>>

\* Mutated: frames are put back behind those that arrived meanwhile.
ResetBehind == queue \o parts

\* reset_queue(): frames that arrived meanwhile go behind.
Reset == parts \o queue

RecvReset ==
  /\ pc[Reader] = "reset"
  /\ queue' = Reset /\ parts' = <<>>
  /\ Goes(Reader, "idle") /\ getting' = FALSE
  /\ UNCHANGED <<paused, streams, taken, load, RecvOnly, RecvRest>>

\* Mutated: the low-water mark must be passed, not reached.
ResumesBelow == paused /\ ~(Len(queue) < cfg.low)

\* maybe_resume()
Resumes == paused /\ ~(Len(queue) <= cfg.low)

\* maybe_resume(), then the frame that was fetched: it must start a message,
\* and it may end one.  An error in the text leaves get_iter() in progress.
RecvFrame ==
  /\ pc[Reader] = "popped" /\ paused' = Resumes
  /\ LET last == parts[Len(parts)] IN
     IF ~parts[1].starts
     THEN Goes(Reader, "assert") /\ UNCHANGED <<getting, parts, taken, RecvOnly>>
     ELSE IF ~last.fin
     THEN /\ Goes(Reader, IF streams THEN "yielded" ELSE "next")
          /\ UNCHANGED <<getting, parts, taken, RecvOnly>>
     ELSE /\ taken' = Append(taken, parts[1].n) /\ parts' = <<>>
          /\ getting' = (streams /\ ~last.utf8)
          /\ IF last.utf8 THEN Goes(Reader, "idle") /\ UNCHANGED RecvOnly
             ELSE Goes(Reader, "invalid") /\ UNCHANGED RecvOnly
  /\ UNCHANGED <<queue, streams, load, RecvRest>>

\* The application asks the iterator for the next frame, or abandons it.
RecvYielded ==
  /\ pc[Reader] = "yielded" /\ Asks
  /\ Goes(Reader, "next") \/ Goes(Reader, "idle")
  /\ UNCHANGED <<queue, paused, getting, parts, streams, taken, RecvOnly, RecvRest>>

\* fail() after UnicodeDecodeError
RecvInvalid ==
  /\ pc[Reader] = "invalid"
  /\ Context(Reader, Fail(p, 1007), "fail")
  /\ UNCHANGED <<queue, paused, getting, parts, streams, taken, load, RecvRest>>

\* join() without a timeout, then ConnectionClosed.
RecvEof ==
  /\ pc[Reader] = "eof" /\ Over
  /\ Goes(Reader, "closed")
  /\ UNCHANGED <<queue, paused, getting, parts, streams, taken, load, RecvOnly, RecvRest>>

--------------------------------------------------------------------------------
(* keepalive() *)

KeepRest == <<cfg, inbox, sock, exc, ev, sip, left, queueVars, readVars, histVars>>

\* join() for ping_interval, and ping().
KeepPing ==
  /\ pc[Keeper] = "sleep"
  /\ IF Over
     THEN Goes(Keeper, "done") /\ UNCHANGED <<p, holder, deadline, ctx, pings>>
     ELSE /\ Context(Keeper, SendPing(p, 0), "ping")
          /\ IF p.state # "OPEN" THEN UNCHANGED pings
             ELSE \E i \in DOMAIN pings :
                    /\ pings[i] = "unsent" /\ \A j \in 1..(i - 1) : pings[j] # "unsent"
                    /\ pings' = [pings EXCEPT ![i] = "pending"]
  /\ UNCHANGED <<load, KeepRest>>

Waiting == \E i \in DOMAIN pings : pings[i] = "pending"

KeepPong ==
  /\ pc[Keeper] = "pong" /\ ~Waiting
  /\ Goes(Keeper, "sleep")
  /\ UNCHANGED <<p, holder, deadline, ctx, pings, load, KeepRest>>

\* No pong within ping_timeout.
KeepTimeout ==
  /\ pc[Keeper] = "pong" /\ Waiting
  /\ Context(Keeper, Fail(p, 1011), "fail")
  /\ UNCHANGED <<pings, load, KeepRest>>

--------------------------------------------------------------------------------
(* send() and close() *)

AppRest == <<cfg, inbox, sock, exc, ev, pings, queueVars, readVars, histVars>>

\* send_in_progress raises ConcurrencyError in the context of an open
\* connection.
Refused(t) ==
  /\ p.state = "OPEN" /\ sip /\ Free
  /\ Goes(t, "refused") /\ UNCHANGED <<p, holder, deadline, ctx, sip, left>>

SendPlain(s) ==
  /\ cfg.pieces[s] = 0
  /\ \/ Refused(s)
     \/ /\ ~(p.state = "OPEN" /\ sip)
        /\ Context(s, SendData(p, TRUE, TRUE, 0), "final") /\ UNCHANGED <<sip, left>>

SendFirst(s) ==
  /\ cfg.pieces[s] > 0
  /\ \/ Refused(s)
     \/ /\ ~(p.state = "OPEN" /\ sip)
        /\ Context(s, SendData(p, TRUE, FALSE, 0), "write")
        /\ sip' = (sip \/ p.state = "OPEN") /\ left' = [left EXCEPT ![s] = @ - 1]

SendCall(s) ==
  /\ Asks /\ s \in cfg.calls /\ pc[s] = "idle"
  /\ SendPlain(s) \/ SendFirst(s)
  /\ UNCHANGED AppRest

\* The iterator yields a fragment, or ends: the final fragment is empty.
SendNext(s) ==
  /\ pc[s] = "next"
  /\ IF left[s] > 0
     THEN /\ Context(s, SendData(p, FALSE, FALSE, 0), "write")
          /\ left' = [left EXCEPT ![s] = @ - 1] /\ UNCHANGED sip
     ELSE /\ Context(s, SendData(p, FALSE, TRUE, 0), "final")
          /\ sip' = (sip /\ p.state # "OPEN") /\ UNCHANGED left
  /\ UNCHANGED <<load, AppRest>>

\* The iterator raises, or yields something else than a fragment.
SendFails(s) ==
  /\ Asks /\ pc[s] = "next"
  /\ Context(s, Fail(p, 1011), "fail")
  /\ UNCHANGED <<sip, left, AppRest>>

CloseCall(c) ==
  /\ Asks /\ c \in cfg.calls /\ pc[c] = "idle"
  /\ Context(c, IF sip THEN Fail(p, 1011) ELSE SendClose(p, 1000), "close")
  /\ UNCHANGED <<sip, left, AppRest>>

--------------------------------------------------------------------------------
\* The peer sends a frame or ends its stream; a pong answers a ping that was
\* sent.
PeerSends(op) ==
  /\ Asks /\ op \in cfg.ops \ {"reset"} /\ sock
  /\ \A i \in DOMAIN inbox : inbox[i].op # "eof"
  /\ IF op = "pong"
     THEN \E i \in DOMAIN pings : pings[i] # "unsent" /\ inbox' = Append(inbox, Item(op, i))
     ELSE inbox' = Append(inbox, Item(op, load'))
  /\ UNCHANGED <<cfg, p, exc, ev, pings, sockVars, appVars, queueVars, readVars, histVars>>

InCtx(t) ==
  \/ CtxSent(t, "error") \/ CtxJoined(t) \/ CtxLate(t) \/ CtxLateSet(t)
  \/ CtxShutdown(t) \/ CtxAssembler(t) \/ CtxLast(t)

EventsThread ==
  \/ EvFlow \/ EvReadEnds \/ EvFailed \/ EvData \/ EvSent("error") \/ EvEvent
  \/ EvEof \/ EvShutdown \/ EvAssembler \/ \E n \in 1..cfg.chunk : EvRead(n)

ReaderThread ==
  RecvNext \/ RecvPop \/ RecvTimeout \/ RecvReset \/ RecvFrame \/ RecvInvalid \/ RecvEof

\* What the threads that can run do.
Loop ==
  \/ \E t \in Users : InCtx(t)
  \/ EventsThread \/ ReaderThread \/ KeepPing \/ KeepPong \/ KeepTimeout

Environment ==
  \/ \E op \in cfg.ops : PeerSends(op)
  \/ EvReset \/ \E how \in {"ok", "reset"} : EvSent(how) \/ \E t \in Users : CtxSent(t, how)
  \/ RecvCall \/ RecvYielded
  \/ \E s \in Senders : SendCall(s) \/ SendNext(s) \/ SendFails(s)
  \/ \E c \in Closers : CloseCall(c)

Next == Loop \/ Environment

(* Threads that can run do run, timers fire.  Nothing is assumed of the     *)
(* peer, the network or the application.                                    *)
Spec == Init /\ [][Next]_vars /\ WF_vars(Loop)

--------------------------------------------------------------------------------
(* Properties. *)

TypeOK ==
  /\ cfg \in Configs
  /\ p.state \in {"OPEN", "CLOSING", "CLOSED"} /\ p.parser \in {"frames", "discard"}
  /\ sock \in BOOLEAN /\ holder \in Users \cup {Events, NoThread} /\ deadline \in BOOLEAN
  /\ exc \in {"none", "error", "timeout", "internal"}
  /\ ev.at \in {"flow", "read", "data", "sendall", "events", "error", "timeout", "eof",
                "socket", "assembler", "done"}
  /\ ctx \in [Users -> [at: {"ok", "raise", "sendall", "join", "late", "socket", "assembler", "last"},
                        raise: BOOLEAN]]
  /\ left \in [Senders -> Nat] /\ sip \in BOOLEAN
  /\ pings \in [1..MaxPings -> {"unsent", "pending", "done"}]
  /\ paused \in BOOLEAN /\ ended \in BOOLEAN /\ getting \in BOOLEAN /\ streams \in BOOLEAN
  /\ broken \in BOOLEAN /\ shut \in BOOLEAN
  /\ \A i \in 1..(Len(parts) - 1) : ~parts[i].fin

(* No assertion fails, in protocol.py or in send_context() on               *)
(* close_deadline; every thread that joins recv_events() in a context does  *)
(* so under a deadline; every one in recv() finds the start of a message.   *)
DeadlineKept ==
  /\ ~p.broken
  /\ deadline => p.state # "OPEN"
  /\ \A t \in Users : ctx[t].at = "join" => deadline
  /\ pc[Reader] # "assert"

(* Nobody sleeps beside work, though frames are fetched without the mutex:  *)
(* a reader blocks only when there is nothing to fetch and no end, and      *)
(* recv_events() is held up only while enough frames wait for the reader to *)
(* let it go on, or the reader is about to.                                 *)
NoLostWakeup ==
  /\ pc[Reader] = "block" /\ ended => queue # <<>>
  /\ paused => ~ended /\ (Len(queue) > cfg.low \/ pc[Reader] = "popped")

(* "This branch should never run": it does, but only when a thread that     *)
(* gave up waiting, or could not write, has closed the connection under     *)
(* recv_events().                                                           *)
SafetyNetOnlyAfterClose == broken => shut

(* A connection is within a fragmented message only while send_in_progress  *)
(* keeps the other threads out.                                             *)
SendersTakeTurns == p.state = "OPEN" => (p.expectCont <=> sip)

(* recv(), send() and close() end with ConnectionClosed, or return, only    *)
(* when recv_events() has ended and close_exc can be read; by then no ping  *)
(* is pending and the socket is closed.                                     *)
ClosedMeansClosed ==
  /\ \A t \in Closers : pc[t] = "done" => Over
  /\ \A t \in Senders \cup {Reader} : pc[t] = "closed" => Over
  /\ Over => p.state = "CLOSED" /\ ~sock /\ ended /\ ~Waiting

(* The reader implements the abstract stream of messages.                   *)
Stream == INSTANCE MessageStream WITH
  Msgs <- 1..MaxLoad, arrived <- Range(taken) \cup Messages(parts \o queue)
DeliversStream == Stream!Spec

\* A thread blocks in sendall() without a deadline, and the others at the
\* mutex.
Clogged == holder # NoThread

(* A closing handshake that somebody waits for ends, whatever the peer does *)
(* and though nobody reads the messages.                                    *)
ClosingEnds ==
  (\E t \in Users : ctx[t].at \in {"join", "late", "socket", "assembler", "last"})
    ~> (Over \/ Clogged)

(* A recv() that waits ends with the stream of frames.                      *)
RecvReleased == (pc[Reader] = "block" /\ ended) ~> pc[Reader] # "block"

(* Every keepalive ping is answered or the connection goes down.            *)
SilentPeerDetected == pc[Keeper] = "pong" ~> (pc[Keeper] = "sleep" \/ Over \/ Clogged)

(* Threads that wait for one another, and what they find when they wake.    *)
ThreadsInStep ==
  /\ TypeOK /\ DeadlineKept /\ NoLostWakeup /\ SafetyNetOnlyAfterClose
  /\ SendersTakeTurns /\ ClosedMeansClosed

(* Every wait ends, as far as the peer reads.                               *)
WaitsEnd == ClosingEnds /\ RecvReleased /\ SilentPeerDetected
================================================================================
