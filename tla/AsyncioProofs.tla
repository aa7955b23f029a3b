----------------------------- MODULE AsyncioProofs -----------------------------
(***************************************************************************)
(* lib/websockets/asyncio: what is proved of one connection (Connection),  *)
(* and of a server and the clients that reconnect to it (AsyncSession).    *)
(* The two share no definition.                                            *)
(***************************************************************************)
EXTENDS Connection, AsyncSession, PeerStreamProofs

(* One connection.                                                         *)

Places == {"idle", "sleep", "done", "closed", "pong", "failed", "next", "assert", "wait", "first", "turn",
           "write", "final", "fail", "close", "ping", "protocol error", "cancelled"}
Ctxs == [at: {"ok", "raise", "yield", "drain", "drained", "error", "wait", "abort"}, wait: BOOLEAN,
         raise: BOOLEAN]

BaseTypes ==
  /\ cfg \in Configs /\ Running(p) /\ transport \in {"open", "closing", "aborted"}
  /\ lost \in BOOLEAN /\ full \in BOOLEAN /\ deadline \in BOOLEAN /\ torn \in BOOLEAN
  /\ ctx \in [Tasks -> Ctxs] /\ pc \in [Tasks -> Places]
  /\ sip \in Senders \cup {NoTask} /\ left \in [Senders -> Nat]
Ends ==
  /\ p.state = "CLOSED" => transport # "open"
  /\ lost => p.state = "CLOSED" /\ transport = "aborted" /\ ~full
  /\ deadline => p.state # "OPEN"
Contexts ==
  \A t \in Tasks :
    /\ ctx[t].wait => deadline
    /\ ctx[t].at = "wait" => ctx[t].wait
    /\ ctx[t].at = "drain" => full /\ ~lost
    /\ t \in Closers \cup {Reader} /\ ctx[t].at \in {"yield", "drain", "drained"} => ctx[t].wait
    /\ t \notin Senders /\ ctx[t].at \notin {"ok", "raise"} => pc[t] \in {"close", "ping", "fail"}
Within == p.state = "OPEN" /\ p.expectCont
Sending ==
  /\ \A s \in Senders :
       /\ pc[s] \in {"next", "write"} => sip = s
       /\ ctx[s].at \notin {"ok", "raise"} => pc[s] \in {"write", "final", "fail"}
       /\ sip = s /\ pc[s] = "final" => ~Within
       /\ pc[s] = "fail" => p.state # "OPEN"
       /\ pc[s] \in {"idle", "turn"} => left[s] = cfg.pieces[s]
       /\ pc[s] = "first" => left[s] > 0
  /\ SendersTakeTurns
Base == BaseTypes /\ Ends /\ Contexts /\ Sending /\ ClosedMeansClosed

QueueInv ==
  /\ inbox \in Seq(PeerItems) /\ queue \in Seq(QueueFrames) /\ parts \in Seq(QueueFrames)
  /\ paused \in BOOLEAN /\ cancelled \in BOOLEAN /\ waiter \in {"none", "pending", "set", "eof"}
  /\ load \in Nat
  /\ \A i \in DOMAIN parts : ~parts[i].fin
  /\ pc[Reader] = "wait" /\ waiter = "pending" /\ ~cancelled => queue = <<>> /\ ~lost
  /\ PausedMeansQueued
  /\ waiter = "eof" => lost
  /\ cancelled => pc[Reader] = "wait"
PingInv ==
  /\ pongs \in [1..MaxPings -> {"unsent", "pending", "done", "failed"}]
  /\ PingsSettled
  /\ \A i, j \in DOMAIN pongs : i < j /\ pongs[i] = "unsent" => pongs[j] = "unsent"

IInv == Base /\ QueueInv /\ PingInv

--------------------------------------------------------------------------------
(* Moves of a task.                                                        *)

LEMMA TasksDiffer ==
  /\ Reader \in Tasks /\ Keeper \in Tasks /\ Senders \subseteq Tasks /\ Closers \subseteq Tasks
  /\ Reader \notin Senders /\ Reader \notin Closers /\ Keeper \notin Senders /\ Keeper \notin Closers
  /\ Reader # Keeper /\ NoTask \notin Senders /\ \A s \in Senders : s \notin Closers
BY ScenarioAssumption DEF Tasks, Reader, Keeper, NoTask

\* What no step takes back, but the end of the connection.
Onwards ==
  /\ Running(p') /\ transport' \in {"open", "closing", "aborted"} /\ full' \in BOOLEAN /\ deadline' \in BOOLEAN
  /\ cfg' = cfg /\ lost' = lost
  /\ (p.state = "CLOSED" <=> p'.state = "CLOSED") /\ (p'.state = "OPEN" => p.state = "OPEN")
  /\ (transport # "open" => transport' # "open") /\ (transport = "aborted" => transport' = "aborted")
  /\ (full => full') /\ (transport # "open" => full' = full) /\ (deadline => deadline') /\ (deadline' => p'.state # "OPEN")

\* Where send_context() leaves task t.
Fits(t, c) ==
  /\ c \in Ctxs /\ (c.wait => deadline') /\ (c.at = "wait" => c.wait) /\ (c.at = "drain" => full' /\ ~lost)
  /\ (c.at = "raise" => lost)
  /\ t \in Closers \cup {Reader} =>
       (c.at \in {"yield", "drain", "drained"} => c.wait) /\ (c.at = "ok" => lost)

LEMMA ProceedKeeps ==
  ASSUME Base, Onwards, NEW t \in Tasks, NEW at \in Places, NEW c, Fits(t, c), NEW held,
         Proceed(t, at, c, held),
         held = sip \/ (sip = NoTask /\ held = t /\ t \in Senders),
         t \in Senders => at \in {"write", "final", "fail"} /\ (at = "write" => held = t)
                          /\ (at = "fail" => p'.state # "OPEN"),
         t \notin Senders => at \in {"close", "ping", "fail"},
         at = "final" /\ held = t => ~Within',
         Within' => Within \/ (held = t /\ at = "write"),
         torn' \in BOOLEAN, torn => torn', left' \in [Senders -> Nat], \A s \in Senders \ {t} : left'[s] = left[s]
  PROVE  Base' /\ (t = Reader => pc'[Reader] \notin {"wait", "assert"}) /\ (t # Reader => pc'[Reader] = pc[Reader])
<1> DEFINE over == c.at \in {"ok", "raise"}
<1> DEFINE goes == IF over THEN After(t, at, c.at) ELSE at
<1>1. /\ ctx' = [ctx EXCEPT ![t] = c] /\ pc' = [pc EXCEPT ![t] = goes]
      /\ sip' = IF held = t /\ goes \in {"failed", "closed", "done"} THEN NoTask ELSE held
  BY DEF Proceed
<1>2. t \in Senders \/ t \in Closers \/ t = Reader \/ t = Keeper
  BY DEF Tasks
<1>3. /\ t \in Senders /\ over => goes = IF at = "fail" THEN "failed"
                                         ELSE IF c.at = "raise" THEN "closed"
                                         ELSE IF at = "write" THEN "next" ELSE "done"
      /\ t \in Closers /\ over => goes = "done"
      /\ t = Reader /\ over => goes = "closed"
      /\ t = Keeper /\ over => goes \in {"pong", "done"}
      /\ ~over => goes = at
  BY TasksDiffer DEF After
<1>4. goes \in Places /\ c.at \in {"ok", "raise", "yield", "drain", "drained", "error", "wait", "abort"}
  BY <1>2, <1>3 DEF Places, Fits, Ctxs
<1> HIDE DEF goes, over
<1>5. /\ ctx'[t] = c /\ pc'[t] = goes /\ \A u \in Tasks \ {t} : ctx'[u] = ctx[u] /\ pc'[u] = pc[u]
      /\ ctx' \in [Tasks -> Ctxs] /\ pc' \in [Tasks -> Places]
  BY <1>1, <1>4 DEF Base, BaseTypes, Fits
<1>6. held \in Senders \cup {NoTask} /\ sip' \in Senders \cup {NoTask}
  BY <1>1 DEF Base, BaseTypes
<1>7. BaseTypes'
  BY <1>5, <1>6 DEF Base, BaseTypes, Onwards
<1>8. Ends'
  BY DEF Base, Ends, Onwards
<1>9. Contexts'
  <2> SUFFICES ASSUME NEW u \in Tasks
               PROVE  /\ ctx'[u].wait => deadline'
                      /\ ctx'[u].at = "wait" => ctx'[u].wait
                      /\ ctx'[u].at = "drain" => full' /\ ~lost'
                      /\ u \in Closers \cup {Reader} /\ ctx'[u].at \in {"yield", "drain", "drained"} => ctx'[u].wait
                      /\ u \notin Senders /\ ctx'[u].at \notin {"ok", "raise"} => pc'[u] \in {"close", "ping", "fail"}
    BY DEF Contexts
  <2>1. CASE u = t
    <3>1. u \notin Senders /\ c.at \notin {"ok", "raise"} => goes \in {"close", "ping", "fail"}
      BY <1>3, <2>1 DEF over
    <3> QED
      BY <1>5, <2>1, <3>1 DEF Fits, Onwards
  <2>2. CASE u # t
    BY <1>5, <2>2 DEF Base, Contexts, Onwards
  <2> QED
    BY <2>1, <2>2
<1>10. ClosedMeansClosed'
  <2>1. \A u \in Closers : pc'[u] = "done" => lost'
    <3> SUFFICES ASSUME NEW u \in Closers, pc'[u] = "done" PROVE lost
      BY DEF Onwards
    <3>1. CASE u = t
      BY <1>3, <1>5, <3>1, TasksDiffer DEF Fits, over
    <3>2. CASE u # t
      BY <1>5, <3>2, TasksDiffer DEF Base, ClosedMeansClosed
    <3> QED
      BY <3>1, <3>2
  <2>2. \A u \in Senders \cup {Reader} : pc'[u] = "closed" => lost'
    <3> SUFFICES ASSUME NEW u \in Senders \cup {Reader}, pc'[u] = "closed" PROVE lost
      BY DEF Onwards
    <3>1. CASE u = t
      BY <1>3, <1>5, <3>1, TasksDiffer DEF Fits, over
    <3>2. CASE u # t
      BY <1>5, <3>2, TasksDiffer DEF Base, ClosedMeansClosed
    <3> QED
      BY <3>1, <3>2
  <2>3. lost' => p'.state = "CLOSED"
    BY DEF Onwards, Base, Ends
  <2> QED
    BY <2>1, <2>2, <2>3 DEF ClosedMeansClosed
<1>11. t \in Senders /\ held = t /\ goes \in {"failed", "closed", "done"} => ~Within'
  <2>1. CASE goes = "closed"
    BY <1>3, <2>1 DEF Fits, over, Within, Onwards, Base, Ends
  <2>2. CASE goes # "closed"
    BY <1>3, <2>2 DEF Within
  <2> QED
    BY <2>1, <2>2
<1>12. \A s \in Senders :
         /\ pc'[s] \in {"next", "write"} => sip' = s
         /\ ctx'[s].at \notin {"ok", "raise"} => pc'[s] \in {"write", "final", "fail"}
         /\ sip' = s /\ pc'[s] = "final" => ~Within'
         /\ pc'[s] = "fail" => p'.state # "OPEN"
         /\ pc'[s] \in {"idle", "turn"} => left'[s] = cfg'.pieces[s]
         /\ pc'[s] = "first" => left'[s] > 0
  <2> SUFFICES ASSUME NEW s \in Senders
               PROVE  /\ pc'[s] \in {"next", "write"} => sip' = s
                      /\ ctx'[s].at \notin {"ok", "raise"} => pc'[s] \in {"write", "final", "fail"}
                      /\ sip' = s /\ pc'[s] = "final" => ~Within'
                      /\ pc'[s] = "fail" => p'.state # "OPEN"
                      /\ pc'[s] \in {"idle", "turn"} => left'[s] = cfg'.pieces[s]
                      /\ pc'[s] = "first" => left'[s] > 0
    OBVIOUS
  <2>1. CASE s = t
    <3>1. /\ (over /\ goes \in {"failed", "closed", "next", "done"}) \/ (~over /\ goes \in {"write", "final", "fail"} /\ goes = at)
          /\ goes \in {"next", "write"} => at = "write"
      BY <1>3, <2>1 DEF over
    <3>2. goes \in {"next", "write"} => sip' = s
      BY <1>1, <2>1, <3>1
    <3>3. sip' = s => held = t
      BY <1>1, <2>1, TasksDiffer
    <3>4. ctx'[s] = c /\ pc'[s] = goes
      BY <1>5, <2>1
    <3>5. c.at \notin {"ok", "raise"} => goes \in {"write", "final", "fail"}
      BY <3>1 DEF over
    <3>6. goes = "fail" => p'.state # "OPEN"
      BY <2>1, <3>1
    <3>7. sip' = s /\ goes = "final" => ~Within'
      BY <2>1, <3>1, <3>3
    <3> QED
      BY <3>1, <3>2, <3>4, <3>5, <3>6, <3>7
  <2>2. CASE s # t
    <3>1. /\ pc'[s] = pc[s] /\ ctx'[s] = ctx[s] /\ left'[s] = left[s] /\ cfg' = cfg
          /\ (p'.state = "OPEN" => p.state = "OPEN")
      BY <1>5, <2>2, TasksDiffer DEF Onwards
    <3>2. pc[s] \in {"next", "write"} => sip' = s
      <4> HAVE pc[s] \in {"next", "write"}
      <4>1. sip = s /\ s # NoTask
        BY TasksDiffer DEF Base, Sending
      <4> QED
        BY <1>1, <2>2, <4>1
    <3>3. sip' = s => sip = s /\ held # t
      BY <1>1, <2>2, TasksDiffer
    <3>4. /\ ctx[s].at \notin {"ok", "raise"} => pc[s] \in {"write", "final", "fail"}
          /\ sip = s /\ pc[s] = "final" => ~Within
          /\ pc[s] = "fail" => p.state # "OPEN"
          /\ pc[s] \in {"idle", "turn"} => left[s] = cfg.pieces[s]
          /\ pc[s] = "first" => left[s] > 0
      BY DEF Base, Sending
    <3>5. sip' = s /\ pc'[s] = "final" => ~Within'
      BY <3>1, <3>3, <3>4
    <3>6. pc'[s] = "fail" => p'.state # "OPEN"
      BY <3>1, <3>4
    <3> QED
      BY <3>1, <3>2, <3>4, <3>5, <3>6
  <2> QED
    BY <2>1, <2>2
<1>13. SendersTakeTurns'
  <2>1. \A s \in Senders : pc'[s] = "protocol error" => torn'
    <3> SUFFICES ASSUME NEW s \in Senders, pc'[s] = "protocol error" PROVE torn'
      OBVIOUS
    <3>1. s # t
      BY <1>3, <1>5
    <3> QED
      BY <1>5, <3>1, TasksDiffer DEF Base, Sending, SendersTakeTurns
  <2>2. Within' => torn' \/ sip' # NoTask
    <3> SUFFICES ASSUME Within', sip' = NoTask PROVE torn'
      OBVIOUS
    <3>1. ~(t \in Senders /\ held = t /\ goes \in {"failed", "closed", "done"})
      BY <1>11
    <3>2. held = NoTask
      <4>1. CASE held = t
        BY <1>1, <1>6, <3>1, <4>1, TasksDiffer
      <4>2. CASE held # t
        BY <1>1, <4>2
      <4> QED
        BY <4>1, <4>2
    <3>3. sip = NoTask /\ Within
      BY <3>2, TasksDiffer
    <3> QED
      BY <3>3 DEF Base, Sending, SendersTakeTurns, Within
  <2> QED
    BY <2>1, <2>2 DEF SendersTakeTurns, Within
<1>14. (t = Reader => pc'[Reader] \notin {"wait", "assert"}) /\ (t # Reader => pc'[Reader] = pc[Reader])
  BY <1>3, <1>5, TasksDiffer
<1> QED
  BY <1>7, <1>8, <1>9, <1>10, <1>12, <1>13, <1>14 DEF Base, Sending

\* A task moves on in its context.
LEMMA MoveKeeps ==
  ASSUME Base, Onwards, NEW t \in Tasks, NEW c, Fits(t, c), ctx[t].at \notin {"ok", "raise"},
         Proceed(t, pc[t], c, sip), p' = p, torn' = torn, left' = left
  PROVE  Base' /\ (t = Reader => pc'[Reader] \notin {"wait", "assert"}) /\ (t # Reader => pc'[Reader] = pc[Reader])
<1>1. pc[t] \in Places /\ left' \in [Senders -> Nat] /\ torn' \in BOOLEAN /\ (Within' <=> Within)
  BY DEF Base, BaseTypes, Within
<1>2. t \in Senders => /\ pc[t] \in {"write", "final", "fail"} /\ (pc[t] = "write" => sip = t)
                        /\ (pc[t] = "fail" => p'.state # "OPEN") /\ (pc[t] = "final" /\ sip = t => ~Within')
  BY <1>1 DEF Base, Sending
<1>3. t \notin Senders => pc[t] \in {"close", "ping", "fail"}
  BY DEF Base, Contexts
<1> QED
  BY <1>1, <1>2, <1>3, ProceedKeeps

\* A context that goes on without the protocol.
LEMMA InCtxKeeps ==
  ASSUME Base, NEW t \in Tasks, InCtx(t)
  PROVE  Base' /\ pc' = [pc EXCEPT ![t] = pc'[t]] /\ (t = Reader => pc'[Reader] \notin {"wait", "assert"})
<1>1. /\ p' = p /\ torn' = torn /\ left' = left /\ cfg' = cfg /\ lost' = lost /\ full' = full /\ deadline' = deadline
      /\ transport' \in {transport, "aborted"}
  BY DEF InCtx, CtxYielded, CtxDrained, CtxClosed, CtxTimeout, CtxRest
<1>2. Onwards
  BY <1>1 DEF Base, BaseTypes, Ends, Onwards
<1>3. /\ ctx[t] \in Ctxs /\ (ctx[t].wait => deadline') /\ (ctx[t].at = "wait" => ctx[t].wait)
      /\ (t \in Closers \cup {Reader} /\ ctx[t].at \in {"yield", "drain", "drained"} => ctx[t].wait)
  BY <1>1 DEF Base, BaseTypes, Contexts
<1>4. Returned \in Ctxs /\ Raised \in Ctxs /\ InContext("abort", FALSE, TRUE) \in Ctxs
  BY DEF Returned, Raised, InContext, Ctxs
<1>5. Fits(t, Raised) <=> lost
  BY <1>4 DEF Fits, Raised, InContext
<1>6. Fits(t, InContext("abort", FALSE, TRUE))
  BY <1>4 DEF Fits, InContext
<1>7. lost => Fits(t, Returned)
  BY <1>4 DEF Fits, Returned, InContext
<1>8. ctx[t].at \in {"yield", "drained"} => Fits(t, Drained(ctx[t]))
  <2> SUFFICES ASSUME ctx[t].at \in {"yield", "drained"} PROVE Fits(t, Drained(ctx[t]))
    OBVIOUS
  <2>1. CASE ~ctx[t].wait
    <3>1. t \notin Closers \cup {Reader} /\ Drained(ctx[t]) = Returned
      BY <1>3, <2>1 DEF Drained
    <3> QED
      BY <1>4, <3>1 DEF Fits, Returned, InContext
  <2>2. CASE ctx[t].wait /\ lost
    BY <1>5, <1>7, <2>2 DEF Drained
  <2>3. CASE ctx[t].wait /\ ~lost
    <3>1. Drained(ctx[t]) = [ctx[t] EXCEPT !.at = "wait"]
      BY <2>3 DEF Drained
    <3>2. [ctx[t] EXCEPT !.at = "wait"] \in Ctxs
      BY <1>3 DEF Ctxs
    <3>3. [ctx[t] EXCEPT !.at = "wait"].at = "wait" /\ [ctx[t] EXCEPT !.at = "wait"].wait
      BY <1>3, <2>3 DEF Ctxs
    <3> QED
      BY <1>3, <2>3, <3>1, <3>2, <3>3 DEF Fits
  <2> QED
    BY <2>1, <2>2, <2>3
<1>9. PICK c : Proceed(t, pc[t], c, sip) /\ Fits(t, c) /\ ctx[t].at \notin {"ok", "raise"}
  <2>1. CASE CtxYielded(t)
    <3>1. CASE full
      <4> DEFINE c == [ctx[t] EXCEPT !.at = "drain"]
      <4>1. c \in Ctxs /\ c.at = "drain" /\ c.wait = ctx[t].wait
        BY <1>3 DEF Ctxs
      <4>2. ~lost /\ full'
        BY <1>1, <3>1 DEF Base, Ends
      <4>3. ctx[t].at = "yield" /\ Proceed(t, pc[t], c, sip)
        BY <2>1, <3>1 DEF CtxYielded
      <4> HIDE DEF c
      <4>4. Fits(t, c)
        BY <1>3, <4>1, <4>2, <4>3 DEF Fits
      <4> QED
        BY <4>3, <4>4
    <3>2. CASE ~full
      BY <1>8, <2>1, <3>2 DEF CtxYielded
    <3> QED
      BY <3>1, <3>2
  <2>2. CASE CtxDrained(t)
    BY <1>5, <1>6, <1>8, <2>2 DEF CtxDrained
  <2>3. CASE CtxClosed(t)
    BY <1>5, <1>7, <2>3 DEF CtxClosed
  <2>4. CASE CtxTimeout(t)
    BY <1>5, <1>6, <2>4 DEF CtxTimeout
  <2> QED
    BY <2>1, <2>2, <2>3, <2>4 DEF InCtx
<1>10. pc' = [pc EXCEPT ![t] = pc'[t]]
  BY <1>9 DEF Proceed, Base, BaseTypes
<1> QED
  BY <1>1, <1>2, <1>9, <1>10, MoveKeeps

LEMMA InContextIs ==
  ASSUME NEW at \in {"ok", "raise", "yield", "drain", "wait", "abort"}, NEW wait \in BOOLEAN, NEW raise \in BOOLEAN
  PROVE  LET c == InContext(at, wait, raise)
         IN  c \in Ctxs /\ c.at = at /\ (c.wait <=> wait) /\ (c.raise <=> raise)
BY DEF InContext, Ctxs

\* The context of a write.
LEMMA ContextKeeps ==
  ASSUME Base, NEW t \in Tasks, NEW q, NEW at \in Places, NEW held, Context(t, q, at, held),
         cfg' = cfg, lost' = lost,
         p.state = "OPEN" =>
           /\ Running(q) /\ q.state # "CLOSED"
           /\ t \in Closers \cup {Reader} \/ at = "fail" => q.state = "CLOSING"
           /\ q.state = "OPEN" /\ q.expectCont => at # "final" /\ (Within \/ (held = t /\ at = "write")),
         held = sip \/ (sip = NoTask /\ held = t /\ t \in Senders),
         t \in Senders => at \in {"write", "final", "fail"} /\ (at = "write" => held = t),
         t \notin Senders => at \in {"close", "ping", "fail"},
         torn' \in BOOLEAN, torn => torn', left' \in [Senders -> Nat], \A s \in Senders \ {t} : left'[s] = left[s]
  PROVE  /\ Base' /\ (t = Reader => pc'[Reader] \notin {"wait", "assert"}) /\ (t # Reader => pc'[Reader] = pc[Reader])
         /\ p.state # "OPEN" => p' = p
         /\ p.state = "OPEN" => Alike(q, p')
<1>1. Returned \in Ctxs /\ Raised \in Ctxs
  BY DEF Returned, Raised, InContext, Ctxs
<1>2. CASE p.state = "OPEN"
  <2>1. Enter(t, q, at, held)
    BY <1>2 DEF Context
  <2>2. /\ Running(q) /\ q.state \in {"OPEN", "CLOSING"}
        /\ t \in Closers \cup {Reader} \/ at = "fail" => q.state = "CLOSING"
        /\ q.state = "OPEN" /\ q.expectCont => at # "final" /\ (Within \/ (held = t /\ at = "write"))
    BY <1>2 DEF Running
  <2>3. CloseExpected(q) \in BOOLEAN /\ (CloseExpected(q) <=> q.state = "CLOSING")
    BY <2>2 DEF CloseExpected
  <2>4. ~deadline /\ ~lost
    BY <1>2 DEF Base, Ends
  <2> DEFINE r == IF CloseExpected(q) THEN Asserted(q, ~deadline) ELSE q
  <2>5. Running(r) /\ Alike(q, r) /\ r.expectCont = q.expectCont
    <3>1. CASE CloseExpected(q)
      <4>1. r = Asserted(q, ~deadline)
        BY <3>1
      <4> QED
        BY <2>2, <2>4, <4>1, AssertedIs
    <3>2. CASE ~CloseExpected(q)
      BY <2>2, <3>2 DEF Alike
    <3> QED
      BY <3>1, <3>2
  <2>6. SendOut(r) /\ deadline' = (deadline \/ CloseExpected(q))
    BY <2>1 DEF Enter
  <2>7. PICK c \in {InContext("yield", CloseExpected(q), FALSE), InContext("drain", CloseExpected(q), FALSE),
                    Drained(InContext("ok", CloseExpected(q), FALSE))} :
          /\ (c.at = "yield") = (transport' # "open")
          /\ (c.at = "drain") = (transport' = "open" /\ full')
          /\ Proceed(t, at, c, held)
    BY <2>1 DEF Enter
  <2> HIDE DEF r
  <2>8. Running(p') /\ Alike(q, p') /\ p'.expectCont = q.expectCont
    BY <2>5, <2>6, WrittenIs DEF SendOut, Alike
  <2>9. Onwards
    <3>1. /\ transport' \in {"open", "closing", "aborted"} /\ full' \in BOOLEAN /\ (full => full')
          /\ (transport # "open" => transport' = transport /\ full' = full)
      BY <2>6 DEF SendOut, Base, BaseTypes
    <3>2. p'.state = q.state /\ (deadline' <=> q.state = "CLOSING") /\ deadline' \in BOOLEAN
      BY <2>3, <2>4, <2>6, <2>8 DEF Alike
    <3> QED
      BY <1>2, <2>2, <2>4, <2>8, <3>1, <3>2 DEF Onwards
  <2>10. /\ c \in Ctxs /\ ~c.raise /\ c.at \in {"yield", "drain", "wait", "ok"}
         /\ c.wait => CloseExpected(q)
         /\ c.at # "ok" => (c.wait <=> CloseExpected(q))
         /\ c.at = "wait" => CloseExpected(q)
         /\ c.at = "ok" => ~CloseExpected(q)
    <3>1. CASE c \in {InContext("yield", CloseExpected(q), FALSE), InContext("drain", CloseExpected(q), FALSE)}
      <4>1. PICK m \in {"yield", "drain"} : c = InContext(m, CloseExpected(q), FALSE)
        BY <3>1
      <4>2. PICK e \in BOOLEAN : e = CloseExpected(q)
        BY <2>3
      <4>3. c \in Ctxs /\ c.at = m /\ (c.wait <=> e) /\ (c.raise <=> FALSE)
        <5>1. c = InContext(m, e, FALSE)
          BY <4>1, <4>2
        <5> QED
          BY <5>1 DEF InContext, Ctxs
      <4> QED
        BY <4>2, <4>3
    <3>2. CASE c = Drained(InContext("ok", CloseExpected(q), FALSE))
      <4>1. CASE CloseExpected(q)
        <5>1. c = InContext("wait", CloseExpected(q), FALSE)
          BY <2>4, <3>2, <4>1 DEF Drained, InContext
        <5> QED
          BY <2>3, <4>1, <5>1, InContextIs
      <4>2. CASE ~CloseExpected(q)
        <5>1. c = Returned
          BY <3>2, <4>2 DEF Drained, InContext
        <5> QED
          BY <1>1, <4>2, <5>1 DEF Returned, InContext
      <4> QED
        BY <4>1, <4>2
    <3> QED
      BY <2>7, <3>1, <3>2
  <2>11. Fits(t, c)
    <3>1. (c.wait => deadline') /\ (c.at = "wait" => c.wait)
      BY <2>6, <2>10
    <3>2. c.at = "drain" => full' /\ ~lost
      BY <2>4, <2>7
    <3>3. t \in Closers \cup {Reader} =>
            (c.at \in {"yield", "drain", "drained"} => c.wait) /\ (c.at = "ok" => lost)
      BY <2>2, <2>3, <2>10
    <3> QED
      BY <2>10, <3>1, <3>2, <3>3 DEF Fits
  <2>12. /\ at = "fail" => p'.state # "OPEN"
         /\ Within' => at # "final" /\ (Within \/ (held = t /\ at = "write"))
    BY <2>2, <2>8 DEF Alike, Within
  <2>13. Base' /\ (t = Reader => pc'[Reader] \notin {"wait", "assert"}) /\ (t # Reader => pc'[Reader] = pc[Reader])
    BY <2>7, <2>9, <2>11, <2>12, ProceedKeeps
  <2> QED
    BY <1>2, <2>8, <2>13
<1>3. CASE p.state # "OPEN"
  <2> DEFINE c == Drained(InContext("wait", TRUE, TRUE))
  <2>1. deadline' /\ p' = p /\ transport' = transport /\ full' = full /\ Proceed(t, at, c, held)
    BY <1>3 DEF Context, EnterClosed, ioVars
  <2>2. c \in Ctxs /\ (c.at = "wait" => c.wait) /\ c.at \in {"wait", "raise"} /\ (c.at = "raise" => lost)
    <3>1. CASE lost
      BY <1>1, <3>1 DEF Drained, InContext, Raised
    <3>2. CASE ~lost
      <4>1. c = InContext("wait", TRUE, TRUE)
        BY <3>2 DEF Drained, InContext
      <4> HIDE DEF c
      <4> QED
        BY <4>1, InContextIs
    <3> QED
      BY <3>1, <3>2
  <2> HIDE DEF c
  <2>3. Fits(t, c)
    BY <2>1, <2>2 DEF Fits
  <2>4. deadline' = TRUE
    BY <1>3 DEF Context, EnterClosed
  <2>5. Onwards
    BY <1>3, <2>1, <2>4 DEF Onwards, Base, BaseTypes
  <2>6. ~Within'
    BY <1>3, <2>1 DEF Within
  <2>7. Base' /\ (t = Reader => pc'[Reader] \notin {"wait", "assert"}) /\ (t # Reader => pc'[Reader] = pc[Reader])
    BY <1>3, <2>1, <2>3, <2>5, <2>6, ProceedKeeps
  <2> QED
    BY <1>3, <2>1, <2>7
<1> QED
  BY <1>2, <1>3

\* A task moves on outside of its context.
LEMMA GoesKeeps ==
  ASSUME Base, NEW t \in Tasks, NEW at \in Places, Goes(t, at),
         UNCHANGED <<cfg, p, ioVars, ctx, sip, deadline, lost, left, torn>>,
         ctx[t].at \in {"ok", "raise"}, at \notin {"next", "write", "final", "fail"},
         t \in Senders => /\ at \in {"idle", "turn"} => left[t] = cfg.pieces[t]
                          /\ at = "first" => left[t] > 0
                          /\ at = "protocol error" => torn,
         at = "closed" => lost, at = "done" => t \notin Closers
  PROVE  Base' /\ (t # Reader => pc'[Reader] = pc[Reader]) /\ pc'[t] = at
<1>1. pc' \in [Tasks -> Places] /\ pc'[t] = at /\ \A u \in Tasks \ {t} : pc'[u] = pc[u]
  BY DEF Base, BaseTypes, Goes
<1>2. /\ cfg' = cfg /\ p' = p /\ transport' = transport /\ ctx' = ctx /\ sip' = sip /\ left' = left
      /\ (full' <=> full) /\ (deadline' <=> deadline) /\ (lost' <=> lost) /\ (torn' <=> torn)
  BY DEF ioVars
<1>3. BaseTypes' /\ Ends'
  <2>1. BaseTypes'
    BY <1>1 DEF Base, BaseTypes, ioVars
  <2>2. Ends'
    BY <1>2 DEF Base, Ends
  <2> QED
    BY <2>1, <2>2
<1>4. Contexts'
  <2> SUFFICES ASSUME NEW u \in Tasks
               PROVE  /\ ctx[u].wait => deadline
                      /\ ctx[u].at = "wait" => ctx[u].wait
                      /\ ctx[u].at = "drain" => full /\ ~lost
                      /\ u \in Closers \cup {Reader} /\ ctx[u].at \in {"yield", "drain", "drained"} => ctx[u].wait
                      /\ u \notin Senders /\ ctx[u].at \notin {"ok", "raise"} => pc'[u] \in {"close", "ping", "fail"}
    BY <1>2 DEF Contexts
  <2>1. u # t => pc'[u] = pc[u]
    BY <1>1
  <2> QED
    BY <2>1 DEF Base, Contexts
<1>5. ASSUME NEW s \in Senders
      PROVE  /\ pc'[s] \in {"next", "write"} => sip' = s
             /\ ctx'[s].at \notin {"ok", "raise"} => pc'[s] \in {"write", "final", "fail"}
             /\ sip' = s /\ pc'[s] = "final" => ~Within'
             /\ pc'[s] = "fail" => p'.state # "OPEN"
             /\ pc'[s] \in {"idle", "turn"} => left'[s] = cfg'.pieces[s]
             /\ pc'[s] = "first" => left'[s] > 0
             /\ pc'[s] = "protocol error" => torn'
  <2>1. CASE s = t
    BY <1>1, <1>2, <2>1
  <2>2. CASE s # t
    <3>1. pc'[s] = pc[s] /\ (Within' <=> Within)
      BY <1>1, <1>2, <2>2, TasksDiffer DEF Within
    <3> QED
      BY <1>2, <3>1 DEF Base, Sending, SendersTakeTurns
  <2> QED
    BY <2>1, <2>2
<1>6. Sending'
  BY <1>2, <1>5 DEF Base, Sending, SendersTakeTurns
<1>7. ClosedMeansClosed'
  BY <1>1, <1>2, TasksDiffer DEF Base, ClosedMeansClosed
<1> QED
  BY <1>1, <1>3, <1>4, <1>6, <1>7, TasksDiffer DEF Base

\* The event loop calls the connection.
LEMMA CallbackKeeps ==
  ASSUME Base, UNCHANGED <<cfg, left, torn, sip>>,
         Running(p'), transport' \in {"open", "closing", "aborted"}, full' \in BOOLEAN, deadline' \in BOOLEAN,
         lost' \in BOOLEAN, lost => lost', lost' => p'.state = "CLOSED" /\ transport' = "aborted" /\ ~full',
         p'.state = "CLOSED" => transport' # "open", deadline => deadline', deadline' => p'.state # "OPEN",
         p'.state = "OPEN" => p.state = "OPEN", Within' => Within,
         ctx' \in [Tasks -> Ctxs], pc' \in [Tasks -> Places], \A t \in Tasks \ {Keeper} : pc'[t] = pc[t],
         ctx'[Keeper].at \in {"ok", "raise"} \/ pc'[Keeper] = pc[Keeper],
         \A t \in Tasks : \/ ctx'[t] = ctx[t] /\ (ctx[t].at = "drain" => full' /\ ~lost')
                          \/ ctx[t].at = "drain" /\ ctx'[t].at \in {"drained", "error"} /\ (ctx'[t].wait => ctx[t].wait)
                             /\ (ctx[t].wait => ctx'[t].wait)
                          \/ t = Keeper /\ ctx'[t] = Returned
  PROVE  Base'
<1>1. BaseTypes' /\ Ends'
  BY DEF Base, BaseTypes, Ends
<1>2. ~Returned.wait /\ Returned.at = "ok"
  BY DEF Returned, InContext
<1>3. Contexts'
  <2> SUFFICES ASSUME NEW u \in Tasks
               PROVE  /\ ctx'[u].wait => deadline'
                      /\ ctx'[u].at = "wait" => ctx'[u].wait
                      /\ ctx'[u].at = "drain" => full' /\ ~lost'
                      /\ u \in Closers \cup {Reader} /\ ctx'[u].at \in {"yield", "drain", "drained"} => ctx'[u].wait
                      /\ u \notin Senders /\ ctx'[u].at \notin {"ok", "raise"} => pc'[u] \in {"close", "ping", "fail"}
    BY DEF Contexts
  <2>1. CASE u = Keeper /\ ctx'[u] = Returned
    BY <1>2, <2>1, TasksDiffer
  <2>2. CASE ~(u = Keeper /\ ctx'[u] = Returned)
    <3>1. /\ ctx[u].wait => deadline
          /\ ctx[u].at = "wait" => ctx[u].wait
          /\ u \in Closers \cup {Reader} /\ ctx[u].at \in {"yield", "drain", "drained"} => ctx[u].wait
          /\ u \notin Senders /\ ctx[u].at \notin {"ok", "raise"} => pc[u] \in {"close", "ping", "fail"}
      BY DEF Base, Contexts
    <3>2. ctx'[u].at \notin {"ok", "raise"} => pc'[u] = pc[u]
      BY <2>2
    <3>3. CASE ctx'[u] = ctx[u] /\ (ctx[u].at = "drain" => full' /\ ~lost')
      BY <3>1, <3>2, <3>3
    <3>4. CASE /\ ctx[u].at = "drain" /\ ctx'[u].at \in {"drained", "error"} /\ (ctx'[u].wait => ctx[u].wait)
               /\ (ctx[u].wait => ctx'[u].wait)
      BY <3>1, <3>2, <3>4
    <3> QED
      BY <2>2, <3>3, <3>4
  <2> QED
    BY <2>1, <2>2
<1>4. Sending'
  <2>1. ASSUME NEW s \in Senders
        PROVE  /\ pc'[s] \in {"next", "write"} => sip' = s
               /\ ctx'[s].at \notin {"ok", "raise"} => pc'[s] \in {"write", "final", "fail"}
               /\ sip' = s /\ pc'[s] = "final" => ~Within'
               /\ pc'[s] = "fail" => p'.state # "OPEN"
               /\ pc'[s] \in {"idle", "turn"} => left'[s] = cfg'.pieces[s]
               /\ pc'[s] = "first" => left'[s] > 0
               /\ pc'[s] = "protocol error" => torn'
    <3>1. pc'[s] = pc[s] /\ (ctx'[s].at \notin {"ok", "raise"} => ctx[s].at \notin {"ok", "raise"})
      BY TasksDiffer
    <3> QED
      BY <3>1 DEF Base, Sending, SendersTakeTurns
  <2>2. Within' => torn' \/ sip' # NoTask
    BY DEF Base, Sending, SendersTakeTurns, Within
  <2> QED
    BY <2>1, <2>2 DEF Sending, SendersTakeTurns, Within
<1>5. ClosedMeansClosed'
  BY TasksDiffer DEF Base, ClosedMeansClosed
<1> QED
  BY <1>1, <1>3, <1>4, <1>5 DEF Base

--------------------------------------------------------------------------------
(* The steps.                                                              *)

\* What the tasks write.
LEMMA Bodies ==
  ASSUME Base, p.state = "OPEN"
  PROVE  /\ \A code \in {1007, 1011} : Running(Fail(p, code)) /\ Fail(p, code).state = "CLOSING"
         /\ Running(SendClose(p, 1000)) /\ SendClose(p, 1000).state = "CLOSING"
         /\ Running(SendPing(p, 0)) /\ SendPing(p, 0).state = "OPEN"
         /\ SendPing(p, 0).expectCont = p.expectCont
         /\ \A first, fin \in BOOLEAN : /\ Running(SendData(p, first, fin, 0))
                                        /\ SendData(p, first, fin, 0).state = "OPEN"
                                        /\ (SendData(p, first, fin, 0).expectCont <=> ~fin)
<1>1. Running(p)
  BY DEF Base, BaseTypes
<1>2. ASSUME NEW code \in {1007, 1011} PROVE Running(Fail(p, code)) /\ Fail(p, code).state = "CLOSING"
  BY <1>1, FailIs DEF EofError
<1>3. Running(SendClose(p, 1000)) /\ SendClose(p, 1000).state = "CLOSING"
  BY <1>1, SendCloseIs
<1>4. /\ Running(SendPing(p, 0)) /\ SendPing(p, 0).state = "OPEN"
      /\ SendPing(p, 0).expectCont = p.expectCont
  BY <1>1, SendPingIs DEF Alike
<1>5. ASSUME NEW first \in BOOLEAN, NEW fin \in BOOLEAN
      PROVE  /\ Running(SendData(p, first, fin, 0)) /\ SendData(p, first, fin, 0).state = "OPEN"
             /\ (SendData(p, first, fin, 0).expectCont <=> ~fin)
  <2>1. LET r == SendData(p, first, fin, 0) IN Running(r) /\ Alike(p, r) /\ r.expectCont = ~fin
    BY <1>1, SendDataIs
  <2> QED
    BY <2>1 DEF Alike
<1> QED
  BY <1>2, <1>3, <1>4, <1>5

LEMMA FailKeeps ==
  ASSUME Base, NEW t \in Tasks, NEW code \in {1007, 1011}, NEW held, Context(t, Fail(p, code), "fail", held),
         cfg' = cfg, lost' = lost, held = sip \/ (sip = NoTask /\ held = t /\ t \in Senders),
         torn' \in BOOLEAN, torn => torn', left' = left
  PROVE  Base' /\ (t = Reader => pc'[Reader] \notin {"wait", "assert"}) /\ (t # Reader => pc'[Reader] = pc[Reader])
<1> DEFINE q == Fail(p, code)
<1>1. p.state = "OPEN" => Running(q) /\ q.state = "CLOSING"
  BY Bodies
<1>2. "fail" \in Places /\ left' \in [Senders -> Nat] /\ \A s \in Senders \ {t} : left'[s] = left[s]
  <2>1. left \in [Senders -> Nat]
    BY DEF Base, BaseTypes
  <2>2. "fail" \in Places
    BY ONLY DEF Places
  <2> QED
    BY ONLY <2>1, <2>2, left' = left
<1>3. Context(t, q, "fail", held)
  OBVIOUS
<1> HIDE DEF q
<1>4. p.state = "OPEN" =>
        /\ Running(q) /\ q.state # "CLOSED"
        /\ t \in Closers \cup {Reader} \/ "fail" = "fail" => q.state = "CLOSING"
        /\ q.state = "OPEN" /\ q.expectCont => "fail" # "final" /\ (Within \/ (held = t /\ "fail" = "write"))
  BY <1>1
<1> QED
  BY <1>2, <1>3, <1>4, ContextKeeps

LEMMA DataKeeps ==
  ASSUME Base, NEW s \in Senders, NEW first \in BOOLEAN, NEW fin \in BOOLEAN, NEW at, NEW held,
         Context(s, SendData(p, first, fin, 0), at, held), at = (IF fin THEN "final" ELSE "write"), fin \/ held = s,
         cfg' = cfg, lost' = lost, held = sip \/ (sip = NoTask /\ held = s),
         torn' = torn, left' \in [Senders -> Nat], \A u \in Senders \ {s} : left'[u] = left[u]
  PROVE  Base' /\ pc'[Reader] = pc[Reader]
<1> DEFINE q == SendData(p, first, fin, 0)
<1>1. p.state = "OPEN" => Running(q) /\ q.state = "OPEN" /\ (q.expectCont <=> ~fin)
  BY Bodies
<1>2. at \in Places /\ torn' \in BOOLEAN /\ at \in {"final", "write"} /\ (at = "write" <=> ~fin)
  BY DEF Places, Base, BaseTypes
<1>3. s \in Tasks /\ s # Reader /\ s \notin Closers
  BY TasksDiffer
<1>4. Context(s, q, at, held)
  OBVIOUS
<1> HIDE DEF q
<1>5. p.state = "OPEN" =>
        /\ Running(q) /\ q.state # "CLOSED"
        /\ s \in Closers \cup {Reader} \/ at = "fail" => q.state = "CLOSING"
        /\ q.state = "OPEN" /\ q.expectCont => at # "final" /\ (Within \/ (held = s /\ at = "write"))
  BY <1>1, <1>2, <1>3
<1> QED
  BY <1>2, <1>3, <1>4, <1>5, ContextKeeps

LEMMA BeginKeeps ==
  ASSUME Base, NEW s \in Senders, pc[s] \in {"idle", "turn"}, sip = NoTask, Begin(s), UNCHANGED <<cfg, lost, left, torn>>
  PROVE  Base' /\ pc'[Reader] = pc[Reader]
<1>1. s \in Tasks /\ s # Reader /\ left[s] = cfg.pieces[s] /\ ctx[s].at \in {"ok", "raise"}
  BY TasksDiffer DEF Base, Sending
<1>2. {"first", "final", "protocol error"} \subseteq Places
  BY DEF Places
<1>3. CASE Fragmented(s)
  <2>1. Goes(s, "first") /\ UNCHANGED <<p, ioVars, ctx, sip, deadline>>
    BY <1>3 DEF Begin
  <2>2. left[s] > 0
    BY <1>1, <1>3 DEF Fragmented
  <2> QED
    BY <1>1, <1>2, <2>1, <2>2, GoesKeeps
<1>4. CASE ~Fragmented(s) /\ Within
  <2>1. Goes(s, "protocol error") /\ UNCHANGED <<p, ioVars, ctx, sip, deadline>>
    BY <1>4 DEF Begin, Within
  <2>2. torn
    BY <1>4 DEF Base, Sending, SendersTakeTurns, Within
  <2> QED
    BY <1>1, <1>2, <2>1, <2>2, GoesKeeps
<1>5. CASE ~Fragmented(s) /\ ~Within
  <2>1. Context(s, SendData(p, TRUE, TRUE, 0), "final", sip)
    BY <1>5 DEF Begin, Within
  <2>2. torn' \in BOOLEAN /\ (torn => torn') /\ left' \in [Senders -> Nat] /\ left' = left
    BY DEF Base, BaseTypes
  <2> QED
    BY <1>1, <1>2, <2>1, <2>2, DataKeeps
<1> QED
  BY <1>3, <1>4, <1>5

LEMMA SendersKeep ==
  ASSUME Base, NEW s \in Senders, SendCall(s) \/ Send(s) \/ SendFails(s) \/ SendCancel(s)
  PROVE  Base' /\ pc'[Reader] = pc[Reader]
<1>1. s \in Tasks /\ s # Reader /\ s \notin Closers
  BY TasksDiffer
<1>2. {"first", "final", "turn", "assert", "fail", "write", "cancelled"} \subseteq Places
  BY DEF Places
<1>3. cfg' = cfg /\ lost' = lost
  BY DEF SendCall, Send, SendTurn, SendFirst, SendNext, SendFails, SendCancel, AppRest
<1>4. CASE SendCall(s)
  <2>1. CASE sip = NoTask
    BY <1>3, <1>4, <2>1, BeginKeeps DEF SendCall
  <2>2. CASE sip # NoTask
    <3>1. Goes(s, "turn") /\ UNCHANGED <<p, ioVars, ctx, sip, deadline, left, torn>> /\ pc[s] = "idle"
      BY <1>4, <2>2 DEF SendCall
    <3>2. left[s] = cfg.pieces[s] /\ ctx[s].at \in {"ok", "raise"}
      BY <3>1 DEF Base, Sending
    <3> QED
      BY <1>1, <1>2, <1>3, <3>1, <3>2, GoesKeeps
  <2> QED
    BY <2>1, <2>2
<1>5. CASE SendTurn(s)
  BY <1>3, <1>5, BeginKeeps DEF SendTurn
<1>6. CASE SendFirst(s)
  <2>1. pc[s] = "first" /\ left[s] > 0 /\ ctx[s].at \in {"ok", "raise"} /\ torn' = torn /\ torn \in BOOLEAN
        /\ left \in [Senders -> Nat]
    BY <1>6 DEF Base, BaseTypes, Sending, SendFirst
  <2>2. CASE sip # NoTask
    <3>1. Goes(s, "assert") /\ UNCHANGED <<p, ioVars, ctx, sip, deadline, left>>
      BY <1>6, <2>2 DEF SendFirst
    <3> QED
      BY <1>1, <1>2, <1>3, <2>1, <3>1, GoesKeeps
  <2>3. CASE sip = NoTask /\ Within
    <3>1. Context(s, Fail(p, 1011), "fail", s) /\ left' = left
      BY <1>6, <2>3 DEF SendFirst, Within
    <3> QED
      BY <1>1, <1>3, <2>1, <2>3, <3>1, FailKeeps
  <2>4. CASE sip = NoTask /\ ~Within
    <3>1. Context(s, SendData(p, TRUE, FALSE, 0), "write", s) /\ left' = [left EXCEPT ![s] = @ - 1]
      BY <1>6, <2>4 DEF SendFirst, Within
    <3>2. left' \in [Senders -> Nat] /\ \A u \in Senders \ {s} : left'[u] = left[u]
      BY <2>1, <3>1
    <3> QED
      BY <1>1, <1>3, <2>1, <2>4, <3>1, <3>2, DataKeeps
  <2> QED
    BY <2>2, <2>3, <2>4
<1>7. CASE SendNext(s)
  <2>1. pc[s] = "next" /\ sip = s /\ torn' = torn /\ torn \in BOOLEAN /\ left \in [Senders -> Nat]
    BY <1>7 DEF Base, BaseTypes, Sending, SendNext
  <2>2. CASE left[s] > 0
    <3>1. Context(s, SendData(p, FALSE, FALSE, 0), "write", sip) /\ left' = [left EXCEPT ![s] = @ - 1]
      BY <1>7, <2>2 DEF SendNext
    <3>2. left' \in [Senders -> Nat] /\ \A u \in Senders \ {s} : left'[u] = left[u]
      BY <2>1, <2>2, <3>1
    <3> QED
      BY <1>1, <1>3, <2>1, <3>1, <3>2, DataKeeps
  <2>3. CASE ~(left[s] > 0)
    <3>1. Context(s, SendData(p, FALSE, TRUE, 0), "final", sip) /\ left' = left
      BY <1>7, <2>3 DEF SendNext
    <3> QED
      BY <1>1, <1>3, <2>1, <3>1, DataKeeps
  <2> QED
    BY <2>2, <2>3
<1>8. CASE SendFails(s)
  <2>1. Context(s, Fail(p, 1011), "fail", sip) /\ torn' = TRUE /\ left' = left /\ left \in [Senders -> Nat]
    BY <1>8 DEF Base, BaseTypes, SendFails
  <2> QED
    BY <1>1, <1>3, <2>1, FailKeeps
<1>9. CASE SendCancel(s)
  <2>1. /\ Goes(s, "cancelled") /\ ctx' = [ctx EXCEPT ![s] = Returned] /\ sip' = IF sip = s THEN NoTask ELSE sip
        /\ torn' = (torn \/ sip = s) /\ left' = left /\ p' = p /\ transport' = transport
        /\ (full' <=> full) /\ (deadline' <=> deadline) /\ (lost' <=> lost)
    BY <1>9 DEF SendCancel, AppRest, ioVars
  <2>2. Returned \in Ctxs /\ ~Returned.wait /\ Returned.at = "ok"
    BY DEF Returned, InContext, Ctxs
  <2>3. /\ pc' \in [Tasks -> Places] /\ pc'[s] = "cancelled" /\ \A u \in Tasks \ {s} : pc'[u] = pc[u]
        /\ ctx' \in [Tasks -> Ctxs] /\ ctx'[s] = Returned /\ \A u \in Tasks \ {s} : ctx'[u] = ctx[u]
    BY <1>1, <1>2, <2>1, <2>2 DEF Base, BaseTypes, Goes
  <2>4. full' = full /\ deadline' = deadline
    BY <1>9 DEF SendCancel, AppRest, ioVars
  <2>5. BaseTypes'
    BY <1>3, <2>1, <2>3, <2>4 DEF Base, BaseTypes
  <2>6. Ends'
    BY <2>1 DEF Base, Ends
  <2>7. Contexts'
    <3> SUFFICES ASSUME NEW u \in Tasks
                 PROVE  /\ ctx'[u].wait => deadline
                        /\ ctx'[u].at = "wait" => ctx'[u].wait
                        /\ ctx'[u].at = "drain" => full /\ ~lost
                        /\ u \in Closers \cup {Reader} /\ ctx'[u].at \in {"yield", "drain", "drained"} => ctx'[u].wait
                        /\ u \notin Senders /\ ctx'[u].at \notin {"ok", "raise"} => pc'[u] \in {"close", "ping", "fail"}
      BY <2>1 DEF Contexts
    <3> QED
      BY <2>2, <2>3 DEF Base, Contexts
  <2>8. Sending'
    <3>1. ASSUME NEW u \in Senders
          PROVE  /\ pc'[u] \in {"next", "write"} => sip' = u
                 /\ ctx'[u].at \notin {"ok", "raise"} => pc'[u] \in {"write", "final", "fail"}
                 /\ sip' = u /\ pc'[u] = "final" => ~Within'
                 /\ pc'[u] = "fail" => p'.state # "OPEN"
                 /\ pc'[u] \in {"idle", "turn"} => left'[u] = cfg'.pieces[u]
                 /\ pc'[u] = "first" => left'[u] > 0
                 /\ pc'[u] = "protocol error" => torn'
      <4>1. CASE u = s
        BY <2>2, <2>3, <4>1
      <4>2. CASE u # s
        <5>1. /\ pc'[u] = pc[u] /\ ctx'[u] = ctx[u] /\ (Within' <=> Within)
              /\ (sip' = u <=> sip = u)
          BY <2>1, <2>3, <4>2, TasksDiffer DEF Within
        <5> QED
          BY <1>3, <2>1, <5>1 DEF Base, Sending, SendersTakeTurns
      <4> QED
        BY <4>1, <4>2
    <3>2. Within' => torn' \/ sip' # NoTask
      BY <2>1 DEF Base, Sending, SendersTakeTurns, Within
    <3> QED
      BY <3>1, <3>2 DEF Sending, SendersTakeTurns, Within
  <2>9. ClosedMeansClosed'
    BY <1>1, <2>1, <2>3, TasksDiffer DEF Base, ClosedMeansClosed
  <2> QED
    BY <1>1, <2>3, <2>5, <2>6, <2>7, <2>8, <2>9, TasksDiffer DEF Base
<1> QED
  BY <1>4, <1>5, <1>6, <1>7, <1>8, <1>9 DEF Send

LEMMA ClosersKeep ==
  ASSUME Base, NEW c \in Closers, CloseCall(c)
  PROVE  Base' /\ pc'[Reader] = pc[Reader]
<1> DEFINE q == IF sip # NoTask THEN Fail(p, 1011) ELSE SendClose(p, 1000)
<1>1. /\ Context(c, q, "close", sip) /\ cfg' = cfg /\ lost' = lost /\ torn' = torn /\ left' = left
      /\ torn' \in BOOLEAN /\ left' \in [Senders -> Nat]
  BY DEF CloseCall, AppRest, Base, BaseTypes
<1>2. c \in Tasks /\ c # Reader /\ c \notin Senders /\ "close" \in Places
  BY TasksDiffer DEF Places
<1>3. p.state = "OPEN" => Running(q) /\ q.state = "CLOSING"
  BY Bodies
<1> HIDE DEF q
<1>4. p.state = "OPEN" =>
        /\ Running(q) /\ q.state # "CLOSED"
        /\ c \in Closers \cup {Reader} \/ "close" = "fail" => q.state = "CLOSING"
        /\ q.state = "OPEN" /\ q.expectCont => "close" # "final" /\ (Within \/ (sip = c /\ "close" = "write"))
  BY <1>3
<1> QED
  BY <1>1, <1>2, <1>4, ContextKeeps

LEMMA KeeperKeeps ==
  ASSUME Base, Keepalive
  PROVE  Base' /\ pc'[Reader] = pc[Reader]
<1>1. Keeper \in Tasks /\ Keeper # Reader /\ Keeper \notin Senders /\ Keeper \notin Closers
  BY TasksDiffer
<1>2. /\ cfg' = cfg /\ lost' = lost /\ torn' = torn /\ left' = left
      /\ torn' \in BOOLEAN /\ left' \in [Senders -> Nat]
  BY DEF Keepalive, KeepPing, KeepPong, KeepTimeout, KeepRest, Base, BaseTypes
<1>3. CASE KeepPing
  <2> DEFINE q == SendPing(p, 0)
  <2>1. Context(Keeper, q, "ping", sip)
    BY <1>3 DEF KeepPing, Context
  <2>2. p.state = "OPEN" => Running(q) /\ q.state = "OPEN" /\ q.expectCont = p.expectCont
    BY Bodies
  <2>3. "ping" \in Places
    BY DEF Places
  <2> HIDE DEF q
  <2>4. p.state = "OPEN" =>
          /\ Running(q) /\ q.state # "CLOSED"
          /\ Keeper \in Closers \cup {Reader} \/ "ping" = "fail" => q.state = "CLOSING"
          /\ q.state = "OPEN" /\ q.expectCont => "ping" # "final" /\ (Within \/ (sip = Keeper /\ "ping" = "write"))
    BY <1>1, <2>2 DEF Within
  <2> QED
    BY <1>1, <1>2, <2>1, <2>3, <2>4, ContextKeeps
<1>4. CASE KeepPong
  <2>1. Goes(Keeper, "sleep") /\ UNCHANGED <<p, ioVars, ctx, sip, deadline>> /\ pc[Keeper] = "pong" /\ "sleep" \in Places
    BY <1>4 DEF KeepPong, Goes, Places
  <2>2. ctx[Keeper].at \in {"ok", "raise"}
    BY <1>1, <2>1 DEF Base, Contexts
  <2> QED
    BY <1>1, <1>2, <2>1, <2>2, GoesKeeps
<1>5. CASE KeepTimeout
  <2>1. Context(Keeper, Fail(p, 1011), "fail", sip)
    BY <1>5 DEF KeepTimeout
  <2> QED
    BY <1>1, <1>2, <2>1, FailKeeps
<1> QED
  BY <1>3, <1>4, <1>5 DEF Keepalive

LEMMA SameKeeps ==
  ASSUME Base, UNCHANGED <<cfg, p, ioVars, ctxVars, lost, left, torn>>
  PROVE  Base' /\ pc'[Reader] = pc[Reader]
<1>1. /\ cfg' = cfg /\ p' = p /\ transport' = transport /\ ctx' = ctx /\ sip' = sip /\ left' = left /\ pc' = pc
      /\ (full' <=> full) /\ (deadline' <=> deadline) /\ (lost' <=> lost) /\ (torn' <=> torn)
  BY DEF ioVars, ctxVars
<1>2. BaseTypes'
  BY DEF Base, BaseTypes, ioVars, ctxVars
<1>3. Ends'
  BY <1>1 DEF Base, Ends
<1>4. Contexts'
  BY <1>1 DEF Base, Contexts
<1>5. Sending' /\ ClosedMeansClosed'
  BY <1>1 DEF Base, Sending, SendersTakeTurns, ClosedMeansClosed, Within
<1> QED
  BY <1>1, <1>2, <1>3, <1>4, <1>5 DEF Base

LEMMA FetchKeeps ==
  ASSUME Base, Fetch, pc[Reader] \in {"idle", "assert", "wait"}, UNCHANGED <<cfg, lost, left, torn>>
  PROVE  Base' /\ (pc'[Reader] = "wait" => queue' = <<>> /\ ~lost)
<1>1. Reader \in Tasks /\ Reader \notin Senders /\ Reader \notin Closers /\ {"assert", "idle", "closed", "wait"} \subseteq Places
  BY TasksDiffer DEF Places
<1>2. ctx[Reader].at \in {"ok", "raise"}
  BY <1>1 DEF Base, Contexts
<1>3. ASSUME NEW at \in {"assert", "idle", "closed", "wait"}, pc' = [pc EXCEPT ![Reader] = at],
             UNCHANGED <<p, ioVars, ctx, sip, deadline>>, at = "closed" => lost
      PROVE  Base' /\ pc'[Reader] = at
  BY <1>1, <1>2, <1>3, GoesKeeps DEF Goes
<1>4. CASE parts = <<>> /\ queue # <<>> /\ ~queue[1].starts
  <2>1. pc' = [pc EXCEPT ![Reader] = "assert"] /\ UNCHANGED <<p, ioVars, ctx, sip, deadline>>
    BY <1>4 DEF Fetch
  <2> QED
    BY <1>3, <2>1
<1>5. CASE ~(parts = <<>> /\ queue # <<>> /\ ~queue[1].starts) /\ Fins(queue) # {}
  <2>1. PICK i \in Fins(queue) :
          IF queue[i].utf8
          THEN pc' = [pc EXCEPT ![Reader] = "idle"] /\ UNCHANGED <<p, ioVars, ctx, sip, deadline>>
          ELSE Context(Reader, Fail(p, 1007), "fail", sip)
    BY <1>5 DEF Fetch
  <2>2. CASE queue[i].utf8
    BY <1>3, <2>1, <2>2
  <2>3. CASE ~queue[i].utf8
    <3>1. torn' \in BOOLEAN /\ (torn => torn') /\ left' = left
      BY DEF Base, BaseTypes
    <3> QED
      BY <1>1, <2>1, <2>3, <3>1, FailKeeps
  <2> QED
    BY <2>2, <2>3
<1>6. CASE ~(parts = <<>> /\ queue # <<>> /\ ~queue[1].starts) /\ ~(Fins(queue) # {})
  <2>1. /\ pc' = [pc EXCEPT ![Reader] = IF lost THEN "closed" ELSE "wait"] /\ UNCHANGED <<p, ioVars, ctx, sip, deadline>>
        /\ queue' = <<>>
    BY <1>6 DEF Fetch
  <2>2. CASE lost
    <3>1. pc' = [pc EXCEPT ![Reader] = "closed"]
      BY <2>1, <2>2
    <3> QED
      BY <1>3, <2>1, <2>2, <3>1
  <2>3. CASE ~lost
    <3>1. pc' = [pc EXCEPT ![Reader] = "wait"]
      BY <2>1, <2>3
    <3> QED
      BY <1>3, <2>1, <2>3, <3>1
  <2> QED
    BY <2>2, <2>3
<1> QED
  BY <1>4, <1>5, <1>6

\* The queue after a get().
LEMMA FetchQueue ==
  ASSUME Base, QueueInv, Fetch, pc[Reader] \in {"idle", "assert", "wait"}, ~cancelled,
         UNCHANGED <<cfg, lost, left, torn, inbox, cancelled>>, load' \in Nat
  PROVE  QueueInv'
<1>1. /\ queue \in Seq(QueueFrames) /\ parts \in Seq(QueueFrames) /\ paused \in BOOLEAN
      /\ \A i \in DOMAIN parts : ~parts[i].fin
  BY DEF QueueInv
<1>2. cfg.low \in Nat
  BY ScenarioAssumption DEF Base, BaseTypes
<1>3. ASSUME NEW rest \in Seq(QueueFrames)
      PROVE  Resumed(rest) \in BOOLEAN /\ (Resumed(rest) => Len(rest) > cfg.low)
  BY <1>1, <1>2 DEF Resumed
<1>4. /\ queue' \in Seq(QueueFrames) /\ parts' \in Seq(QueueFrames) /\ (\A i \in DOMAIN parts' : ~parts'[i].fin)
      /\ paused' = Resumed(queue') /\ waiter' \in {"none", "pending"}
  <2>1. CASE parts = <<>> /\ queue # <<>> /\ ~queue[1].starts
    BY <1>1, <2>1 DEF Fetch
  <2>2. CASE ~(parts = <<>> /\ queue # <<>> /\ ~queue[1].starts) /\ Fins(queue) # {}
    <3>1. PICK i \in Fins(queue) :
            queue' = SubSeq(queue, i + 1, Len(queue)) /\ parts' = <<>> /\ waiter' = "none" /\ paused' = Resumed(queue')
      BY <2>2 DEF Fetch
    <3>2. i \in Nat /\ i <= Len(queue)
      BY <1>1 DEF Fins
    <3>3. SubSeq(queue, i + 1, Len(queue)) \in Seq(QueueFrames)
      BY <1>1, <3>2
    <3> QED
      BY <3>1, <3>3
  <2>3. CASE ~(parts = <<>> /\ queue # <<>> /\ ~queue[1].starts) /\ ~(Fins(queue) # {})
    <3>1. /\ queue' = <<>> /\ paused' = Resumed(<<>>) /\ parts' = (IF lost THEN <<>> ELSE parts \o queue)
          /\ waiter' = (IF lost THEN "none" ELSE "pending")
      BY <2>3 DEF Fetch
    <3>2. parts \o queue \in Seq(QueueFrames) /\ \A i \in DOMAIN (parts \o queue) : ~(parts \o queue)[i].fin
      BY <1>1, <2>3 DEF Fins
    <3>3. <<>> \in Seq(QueueFrames) /\ DOMAIN <<>> = {}
      OBVIOUS
    <3> QED
      BY <3>1, <3>2, <3>3
  <2> QED
    BY <2>1, <2>2, <2>3
<1>5. paused' \in BOOLEAN /\ PausedMeansQueued'
  BY <1>3, <1>4 DEF PausedMeansQueued
<1>6. pc'[Reader] = "wait" => queue' = <<>> /\ ~lost'
  BY FetchKeeps
<1>7. ~cancelled' /\ cancelled' \in BOOLEAN /\ inbox' \in Seq(PeerItems)
  BY DEF QueueInv
<1> QED
  BY <1>4, <1>5, <1>6, <1>7 DEF QueueInv

LEMMA ReaderKeeps ==
  ASSUME Base, QueueInv, RecvCall \/ RecvWake \/ RecvCancel \/ RecvCancelled
  PROVE  Base' /\ QueueInv'
<1>1. CASE RecvCall
  <2>1. Fetch /\ pc[Reader] \in {"idle", "assert"} /\ UNCHANGED <<cfg, lost, left, torn, inbox, cancelled>> /\ load' = load + 1
    BY <1>1 DEF RecvCall, RecvRest, Asks
  <2>2. ~cancelled /\ load' \in Nat
    BY <2>1 DEF QueueInv
  <2> QED
    BY <2>1, <2>2, FetchKeeps, FetchQueue
<1>2. CASE RecvWake
  <2>1. pc[Reader] = "wait" /\ ~cancelled /\ UNCHANGED <<cfg, lost, left, torn, inbox, cancelled>> /\ load' = load
        /\ load' \in Nat
    BY <1>2 DEF RecvWake, RecvRest, QueueInv
  <2>2. CASE waiter = "set" /\ Fetch
    BY <2>1, <2>2, FetchKeeps, FetchQueue
  <2>3. CASE ~(waiter = "set" /\ Fetch)
    <3>1. /\ waiter = "eof" /\ Goes(Reader, "closed") /\ waiter' = "none" /\ parts' = <<>>
          /\ UNCHANGED <<queue, paused, p, ioVars, ctx, sip, deadline>>
      BY <1>2, <2>3 DEF RecvWake, Goes
    <3>2. lost /\ ctx[Reader].at \in {"ok", "raise"} /\ "closed" \in Places
      BY <2>1, <3>1, TasksDiffer DEF QueueInv, Base, Contexts, Places
    <3>3. Base' /\ pc'[Reader] = "closed"
      BY <2>1, <3>1, <3>2, TasksDiffer, GoesKeeps
    <3>4. parts' \in Seq(QueueFrames) /\ DOMAIN parts' = {}
      BY <3>1
    <3> QED
      BY <2>1, <3>1, <3>3, <3>4 DEF QueueInv, PausedMeansQueued
  <2> QED
    BY <2>2, <2>3
<1>3. CASE RecvCancel
  <2>1. Base' /\ pc'[Reader] = pc[Reader]
    BY <1>3, SameKeeps DEF RecvCancel, RecvRest
  <2>2. /\ pc[Reader] = "wait" /\ cancelled' = TRUE /\ queue' = queue /\ paused' = paused /\ waiter' = waiter
        /\ parts' = parts /\ inbox' = inbox /\ load' = load /\ cfg' = cfg /\ lost' = lost
    BY <1>3 DEF RecvCancel, RecvRest
  <2> QED
    BY <2>1, <2>2 DEF QueueInv, PausedMeansQueued
<1>4. CASE RecvCancelled
  <2>1. /\ cancelled /\ cancelled' = FALSE /\ waiter' = "none" /\ parts' = <<>> /\ paused' = paused /\ inbox' = inbox
        /\ load' = load /\ cfg' = cfg
        /\ UNCHANGED <<cfg, lost, left, torn, p, ioVars, ctx, sip, deadline>>
    BY <1>4 DEF RecvCancelled, RecvRest
  <2>2. PICK at \in {"assert", "idle"} : Goes(Reader, at) /\ queue' \in {queue, parts \o queue}
    BY <1>4 DEF RecvCancelled, Goes
  <2>3. pc[Reader] = "wait" /\ ctx[Reader].at \in {"ok", "raise"} /\ at \in Places
    BY <2>1, TasksDiffer DEF QueueInv, Base, Contexts, Places
  <2>4. Base' /\ pc'[Reader] = at
    BY <2>1, <2>2, <2>3, TasksDiffer, GoesKeeps
  <2>5. queue' \in Seq(QueueFrames) /\ Len(queue') >= Len(queue)
    <3>1. queue \in Seq(QueueFrames) /\ parts \in Seq(QueueFrames)
      BY DEF QueueInv
    <3>2. parts \o queue \in Seq(QueueFrames) /\ Len(parts \o queue) >= Len(queue) /\ Len(queue) \in Nat
      BY <3>1
    <3> DEFINE whole == parts \o queue
    <3>3. whole \in Seq(QueueFrames) /\ Len(whole) >= Len(queue)
      BY <3>2
    <3>4. queue' = queue \/ queue' = whole
      BY <2>2
    <3> HIDE DEF whole
    <3>5. CASE queue' = queue
      BY <3>1, <3>2, <3>5
    <3>6. CASE queue' = whole
      BY <3>3, <3>6
    <3> QED
      BY <3>4, <3>5, <3>6
  <2>6. paused' => Len(queue') > cfg'.low
    <3>1. paused => Len(queue) > cfg.low
      BY DEF QueueInv, PausedMeansQueued
    <3>2. cfg.low \in Nat /\ Len(queue) \in Nat /\ Len(queue') \in Nat
      BY <2>5, ScenarioAssumption DEF Base, BaseTypes, QueueInv
    <3> QED
      BY <2>1, <2>5, <3>1, <3>2
  <2>7. parts' \in Seq(QueueFrames) /\ DOMAIN parts' = {}
    BY <2>1
  <2> QED
    BY <2>1, <2>2, <2>4, <2>5, <2>6, <2>7 DEF QueueInv, PausedMeansQueued
<1> QED
  BY <1>1, <1>2, <1>3, <1>4

LEMMA DataKeep ==
  ASSUME Base, QueueInv, NEW n \in Nat, DataReceived(n)
  PROVE  Base' /\ QueueInv'
<1> DEFINE r == Fed(p, SubSeq(inbox, 1, n))
<1>1. /\ transport = "open" /\ n <= Len(inbox) /\ SendOut(r.p) /\ queue' = queue \o r.data
      /\ (deadline' <=> (deadline \/ CloseExpected(r.p))) /\ deadline' = (deadline \/ CloseExpected(r.p))
      /\ (paused' <=> (r.data # <<>> /\ Len(queue') > cfg.high)) /\ paused' \in BOOLEAN
      /\ waiter' = Notified(r.data) /\ inbox' = SubSeq(inbox, n + 1, Len(inbox))
  BY DEF DataReceived
<1>2. UNCHANGED <<cfg, lost, left, torn, load, ctx, pc, sip, parts, cancelled>>
  BY DEF DataReceived
<1>3. inbox \in Seq(PeerItems) /\ SubSeq(inbox, 1, n) \in Seq(PeerItems) /\ inbox' \in Seq(PeerItems)
  BY <1>1 DEF QueueInv
<1>4. Fine(p, r)
  BY <1>3, FedKeeps DEF Base, BaseTypes
<1> HIDE DEF r
<1>5. /\ Running(r.p) /\ (r.p.state = "CLOSED" <=> p.state = "CLOSED") /\ (r.p.state = "OPEN" => p.state = "OPEN")
      /\ r.p.expectCont = p.expectCont /\ r.data \in Seq(QueueFrames)
  BY <1>4 DEF Fine
<1>6. /\ Running(p') /\ p'.state = r.p.state /\ p'.expectCont = r.p.expectCont
  BY <1>1, <1>5, WrittenIs DEF SendOut, Alike
<1>7. p.state # "CLOSED" /\ ~lost
  BY <1>1 DEF Base, Ends
<1>8. transport' \in {"open", "closing"} /\ full' \in BOOLEAN /\ (full => full')
  BY <1>1 DEF SendOut, Base, BaseTypes
<1>9. deadline' \in BOOLEAN /\ (deadline => deadline') /\ (deadline' => p'.state # "OPEN")
  <2>1. CloseExpected(r.p) \in BOOLEAN /\ (CloseExpected(r.p) => r.p.state # "OPEN")
    BY <1>5 DEF CloseExpected
  <2> QED
    BY <1>1, <1>5, <1>6, <2>1 DEF Base, BaseTypes, Ends
<1>10. Within' => Within
  BY <1>5, <1>6 DEF Within
<1>11. ctx' = ctx /\ pc' = pc /\ \A t \in Tasks : ctx[t].at = "drain" => full' /\ ~lost'
  BY <1>2, <1>7, <1>8 DEF Base, Contexts
<1>12. Base'
  <2>1. ctx' \in [Tasks -> Ctxs] /\ pc' \in [Tasks -> Places] /\ lost' \in BOOLEAN /\ ~lost'
    BY <1>2, <1>7 DEF Base, BaseTypes
  <2>2. p'.state = "OPEN" => p.state = "OPEN"
    BY <1>5, <1>6
  <2>3. p'.state # "CLOSED"
    BY <1>5, <1>6, <1>7
  <2> QED
    BY <1>2, <1>6, <1>7, <1>8, <1>9, <1>10, <1>11, <2>1, <2>2, <2>3, TasksDiffer, CallbackKeeps
<1>13. queue' \in Seq(QueueFrames) /\ (r.data = <<>> => queue' = queue)
  BY <1>1, <1>5 DEF QueueInv
<1>14. paused' => Len(queue') > cfg.low
  <2>1. cfg.low \in Nat /\ cfg.high \in Nat /\ cfg.low <= cfg.high
    BY ScenarioAssumption DEF Base, BaseTypes
  <2> QED
    BY <1>1, <1>13, <2>1
<1>15. /\ waiter' \in {"none", "pending", "set", "eof"}
       /\ waiter' = "pending" /\ ~cancelled => r.data = <<>> /\ waiter = "pending"
       /\ waiter' = "eof" => waiter = "eof"
  BY <1>1 DEF Notified, QueueInv
<1> QED
  BY <1>1, <1>2, <1>3, <1>12, <1>13, <1>14, <1>15 DEF QueueInv, PausedMeansQueued

LEMMA EventsKeep ==
  ASSUME Base, QueueInv, PingInv,
         (\E op \in cfg.ops : PeerSends(op)) \/ EofReceived \/ (\E exc \in BOOLEAN : ConnectionLost(exc))
           \/ ResumeWriting \/ Broadcast
  PROVE  Base' /\ QueueInv'
<1>1. /\ Running(p) /\ lost \in BOOLEAN /\ full \in BOOLEAN /\ deadline \in BOOLEAN
      /\ ctx \in [Tasks -> Ctxs] /\ pc \in [Tasks -> Places]
  BY DEF Base, BaseTypes
<1>2. \A t \in Tasks : ctx[t].at = "drain" => full /\ ~lost
  BY DEF Base, Contexts
<1>3. <<>> \in Seq(PeerItems)
  OBVIOUS
<1>4. ASSUME NEW op \in cfg.ops, PeerSends(op) PROVE Base' /\ QueueInv'
  <2>1. Base' /\ pc'[Reader] = pc[Reader]
    BY <1>4, SameKeeps DEF PeerSends
  <2>2. load' = load + 1 /\ UNCHANGED <<cfg, lost, queue, parts, paused, cancelled, waiter>>
    BY <1>4 DEF PeerSends, Asks, queueVars
  <2>3. op \in PeerOps /\ load' \in Nat /\ DOMAIN pongs \subseteq Nat
    BY <2>2, ScenarioAssumption DEF Base, BaseTypes, QueueInv, PingInv
  <2>4. PICK m \in Nat : inbox' = Append(inbox, Item(op, m))
    BY <1>4, <2>3 DEF PeerSends
  <2>5. inbox' \in Seq(PeerItems)
    <3>1. Item(op, m) \in PeerItems
      BY <2>3 DEF PeerItems
    <3>2. inbox \in Seq(PeerItems)
      BY DEF QueueInv
    <3> QED
      BY <2>4, <3>1, <3>2
  <2>6. PausedMeansQueued'
    BY <2>2 DEF QueueInv, PausedMeansQueued
  <2> QED
    BY SMTT(30), <2>1, <2>2, <2>3, <2>5, <2>6 DEF QueueInv
<1>5. CASE EofReceived
  <2>1. /\ transport = "open" /\ p' = Written(ReceiveEof(p)) /\ transport' = "closing" /\ inbox' = <<>>
        /\ UNCHANGED <<cfg, lost, left, torn, load, full, ctxVars, queueVars>>
    BY <1>5 DEF EofReceived
  <2>2. UNCHANGED <<ctx, pc, sip, deadline, queue, parts, paused, cancelled, waiter>>
    BY <2>1 DEF ctxVars, queueVars
  <2>3. p.state # "CLOSED" /\ ~lost
    BY <2>1 DEF Base, Ends
  <2>4. Running(p') /\ p'.state = "CLOSED"
    BY <1>1, <2>1, <2>3, ReceiveEofIs, WrittenIs DEF Alike
  <2>5. Base'
    BY <1>1, <1>2, <2>1, <2>2, <2>3, <2>4, TasksDiffer, CallbackKeeps DEF Within
  <2> QED
    BY <1>3, <2>1, <2>2, <2>5 DEF QueueInv, PausedMeansQueued
<1>6. ASSUME NEW exc \in BOOLEAN, ConnectionLost(exc) PROVE Base' /\ QueueInv'
  <2>1. /\ ~lost /\ lost' /\ lost' \in BOOLEAN /\ p' = Written(EofOnce(p)) /\ transport' = "aborted" /\ ~full'
        /\ full' = FALSE /\ waiter' = Aborted
        /\ ctx' = Woken(exc) /\ pc' = [pc EXCEPT ![Keeper] = "done"] /\ inbox' = <<>>
        /\ UNCHANGED <<cfg, left, torn, sip, deadline, queue, paused, parts, cancelled>>
    BY <1>6 DEF ConnectionLost
  <2>2. load' \in Nat
    BY <1>6 DEF ConnectionLost, Asks, QueueInv
  <2>3. Running(p') /\ p'.state = "CLOSED"
    BY <1>1, <2>1, EofOnceIs, WrittenIs DEF Alike
  <2>4. Returned \in Ctxs /\ Returned.at = "ok"
    BY DEF Returned, InContext, Ctxs
  <2>5. ASSUME NEW t \in Tasks, t # Keeper, ctx[t].at = "drain"
        PROVE  /\ ctx'[t] \in Ctxs /\ ctx'[t].at \in {"drained", "error"} /\ (ctx'[t].wait <=> ctx[t].wait)
    <3>1. PICK at \in {"drained", "error"} : ctx'[t] = [ctx[t] EXCEPT !.at = at]
      BY <2>1, <2>5 DEF Woken
    <3>2. ctx[t] \in Ctxs
      BY <1>1
    <3> QED
      BY <3>1, <3>2 DEF Ctxs
  <2>6. ASSUME NEW t \in Tasks, t # Keeper, ctx[t].at # "drain" PROVE ctx'[t] = ctx[t]
    BY <2>1, <2>6 DEF Woken
  <2>7. ctx'[Keeper] = Returned /\ ctx' \in [Tasks -> Ctxs]
    <3>1. \A t \in Tasks : ctx'[t] \in Ctxs
      BY <1>1, <2>1, <2>4, <2>5, <2>6, TasksDiffer DEF Woken
    <3>2. ctx' = [t \in Tasks |-> ctx'[t]]
      BY <2>1 DEF Woken
    <3>3. ctx'[Keeper] = Returned
      BY <2>1, TasksDiffer DEF Woken
    <3> QED
      BY <3>1, <3>2, <3>3
  <2>8. pc' \in [Tasks -> Places] /\ \A t \in Tasks \ {Keeper} : pc'[t] = pc[t]
    BY <1>1, <2>1 DEF Places
  <2>9. Base'
    <3>1. \A t \in Tasks : \/ ctx'[t] = ctx[t] /\ (ctx[t].at = "drain" => full' /\ ~lost')
                           \/ ctx[t].at = "drain" /\ ctx'[t].at \in {"drained", "error"} /\ (ctx'[t].wait => ctx[t].wait)
                              /\ (ctx[t].wait => ctx'[t].wait)
                           \/ t = Keeper /\ ctx'[t] = Returned
      BY <2>5, <2>6, <2>7
    <3>2. /\ deadline' \in BOOLEAN /\ full' \in BOOLEAN /\ (deadline => deadline') /\ ~Within'
          /\ ctx'[Keeper].at \in {"ok", "raise"}
      BY <1>1, <2>1, <2>3, <2>4, <2>7 DEF Within
    <3> QED
      BY <2>1, <2>3, <2>7, <2>8, <3>1, <3>2, CallbackKeeps
  <2>10. /\ waiter' \in {"none", "pending", "set", "eof"}
         /\ waiter' = "pending" => cancelled
         /\ pc'[Reader] = pc[Reader]
    BY <2>1, <2>8, TasksDiffer DEF Aborted, QueueInv
  <2> QED
    BY <1>3, <2>1, <2>2, <2>9, <2>10 DEF QueueInv, PausedMeansQueued
<1>7. CASE ResumeWriting
  <2>1. /\ full /\ ~full' /\ full' = FALSE /\ UNCHANGED <<cfg, p, inbox, transport, lost, left, torn, load, pc, sip, deadline>>
        /\ ctx' = [t \in Tasks |-> IF ctx[t].at = "drain" THEN [ctx[t] EXCEPT !.at = "drained"] ELSE ctx[t]]
        /\ UNCHANGED <<queue, parts, paused, cancelled, waiter>>
    BY <1>7 DEF ResumeWriting, queueVars
  <2>2. ASSUME NEW t \in Tasks, ctx[t].at = "drain"
        PROVE  /\ ctx'[t] \in Ctxs /\ ctx'[t].at = "drained" /\ (ctx'[t].wait <=> ctx[t].wait)
    <3>1. ctx[t] \in Ctxs
      BY <1>1
    <3>2. ctx'[t] = [ctx[t] EXCEPT !.at = "drained"]
      BY <2>1, <2>2
    <3> QED
      BY <3>1, <3>2 DEF Ctxs
  <2>3. ASSUME NEW t \in Tasks, ctx[t].at # "drain" PROVE ctx'[t] = ctx[t]
    BY <2>1, <2>3
  <2>4. ctx' \in [Tasks -> Ctxs]
    <3>1. \A t \in Tasks : ctx'[t] \in Ctxs
      BY <1>1, <2>2, <2>3
    <3>2. ctx' = [t \in Tasks |-> ctx'[t]]
      BY <2>1
    <3> QED
      BY <3>1, <3>2
  <2>5. ~lost
    BY <2>1 DEF Base, Ends
  <2>6. Base'
    <3>1. \A t \in Tasks : \/ ctx'[t] = ctx[t] /\ (ctx[t].at = "drain" => full' /\ ~lost')
                           \/ ctx[t].at = "drain" /\ ctx'[t].at \in {"drained", "error"} /\ (ctx'[t].wait => ctx[t].wait)
                              /\ (ctx[t].wait => ctx'[t].wait)
      BY <2>2, <2>3
    <3>2. /\ Running(p') /\ transport' \in {"open", "closing", "aborted"} /\ deadline' \in BOOLEAN /\ full' \in BOOLEAN
          /\ (deadline => deadline') /\ (deadline' => p'.state # "OPEN") /\ (p'.state = "CLOSED" => transport' # "open")
          /\ (Within' => Within) /\ (lost' <=> lost) /\ lost' \in BOOLEAN
      BY <1>1, <2>1 DEF Base, BaseTypes, Ends, Within
    <3>3. pc' \in [Tasks -> Places] /\ \A t \in Tasks : pc'[t] = pc[t]
      BY <1>1, <2>1
    <3>4. p' = p
      BY <2>1
    <3> QED
      BY <2>1, <2>4, <2>5, <3>1, <3>2, <3>3, <3>4, TasksDiffer, CallbackKeeps
  <2> QED
    BY <2>1, <2>6 DEF QueueInv, PausedMeansQueued
<1>8. CASE Broadcast
  <2> DEFINE q == SendData(p, TRUE, TRUE, 0)
  <2>1. /\ p.state = "OPEN" /\ SendOut(q) /\ load' = load + 1
        /\ UNCHANGED <<cfg, inbox, lost, left, torn, ctx, pc, sip, deadline, queue, parts, paused, cancelled, waiter>>
    BY <1>8 DEF Broadcast, AppRest, Asks, ctxVars, queueVars
  <2>2. Running(q) /\ q.state = "OPEN" /\ ~q.expectCont
    BY <2>1 DEF Base, BaseTypes, Running, Shaped, SendData, NoExt, Write
  <2> HIDE DEF q
  <2>3. Running(p') /\ p'.state = "OPEN" /\ p'.expectCont = q.expectCont
    BY <2>1, <2>2, WrittenIs DEF SendOut, Alike
  <2>4. ~lost /\ ~deadline
    BY <2>1 DEF Base, Ends
  <2>5. transport' \in {"open", "closing", "aborted"} /\ full' \in BOOLEAN /\ (full => full')
    BY <2>1 DEF SendOut, Base, BaseTypes
  <2>6. Base'
    <3>1. ~lost' /\ ~deadline' /\ ~Within' /\ lost' \in BOOLEAN /\ deadline' \in BOOLEAN
      BY <1>1, <2>1, <2>2, <2>3, <2>4 DEF Within
    <3>2. ctx' \in [Tasks -> Ctxs] /\ pc' \in [Tasks -> Places] /\ pc' = pc
      BY <1>1, <2>1
    <3>3. \A t \in Tasks : ctx'[t] = ctx[t] /\ (ctx[t].at = "drain" => full' /\ ~lost')
      BY <1>2, <2>1, <2>5, <3>1
    <3> QED
      BY <2>1, <2>3, <2>4, <2>5, <3>1, <3>2, <3>3, TasksDiffer, CallbackKeeps
  <2> QED
    BY <2>1, <2>6 DEF QueueInv, PausedMeansQueued
<1> QED
  BY <1>4, <1>5, <1>6, <1>7, <1>8

LEMMA Steps ==
  ASSUME Base, Next
  PROVE  \/ \E t \in Tasks : InCtx(t)
         \/ Keepalive
         \/ RecvCall \/ RecvWake \/ RecvCancel \/ RecvCancelled
         \/ \E n \in Nat : DataReceived(n)
         \/ (\E op \in cfg.ops : PeerSends(op)) \/ EofReceived \/ (\E exc \in BOOLEAN : ConnectionLost(exc))
              \/ ResumeWriting \/ Broadcast
         \/ \E s \in Senders : SendCall(s) \/ Send(s) \/ SendFails(s) \/ SendCancel(s)
         \/ \E c \in Closers : CloseCall(c)
<1>1. cfg.chunk \in Nat
  BY ScenarioAssumption DEF Base, BaseTypes
<1>2. (\E n \in 1..cfg.chunk : DataReceived(n)) => \E n \in Nat : DataReceived(n)
  BY <1>1
<1>3. ConnectionLost(FALSE) \/ ConnectionLost(TRUE) => \E exc \in BOOLEAN : ConnectionLost(exc)
  BY Zenon
<1> QED
  BY <1>2, <1>3 DEF Next, Loop, Environment

--------------------------------------------------------------------------------
(* The pings.                                                              *)

LEMMA AcknowledgeKeeps ==
  ASSUME PingInv, ~lost, ~lost', NEW ids \in SUBSET Nat, pongs' = Acknowledge(pongs, ids)
  PROVE  PingInv'
<1>1. /\ pongs \in [1..MaxPings -> {"unsent", "pending", "done", "failed"}] /\ MaxPings \in Nat
      /\ \A i, j \in 1..MaxPings : i < j /\ pongs[i] = "pending" => pongs[j] # "done"
      /\ \A i, j \in 1..MaxPings : i < j /\ pongs[i] = "unsent" => pongs[j] = "unsent"
  BY ScenarioAssumption DEF PingInv, PingsSettled
<1> DEFINE Acked(i) == pongs[i] = "pending" /\ \E j \in ids : pongs[j] = "pending" /\ j >= i
<1>2. pongs' = [i \in 1..MaxPings |-> IF Acked(i) THEN "done" ELSE pongs[i]]
  BY <1>1 DEF Acknowledge
<1>3. ASSUME NEW i \in 1..MaxPings, NEW j \in 1..MaxPings, i < j, Acked(j) PROVE pongs[i] = "pending" => Acked(i)
  BY <1>3
<1>4. \A i \in 1..MaxPings : /\ Acked(i) => pongs[i] = "pending" /\ pongs'[i] = "done"
                             /\ ~Acked(i) => pongs'[i] = pongs[i]
  BY <1>2
<1>5. pongs' \in [1..MaxPings -> {"unsent", "pending", "done", "failed"}]
  BY <1>1, <1>2
<1> HIDE DEF Acked
<1>6. ASSUME NEW i \in 1..MaxPings, NEW j \in 1..MaxPings, i < j
      PROVE  /\ pongs'[i] = "pending" => pongs'[j] # "done"
             /\ pongs'[i] = "unsent" => pongs'[j] = "unsent"
  <2>1. CASE Acked(j)
    BY <1>1, <1>3, <1>4, <1>6, <2>1
  <2>2. CASE ~Acked(j)
    BY <1>1, <1>4, <1>6, <2>2
  <2> QED
    BY <2>1, <2>2
<1> QED
  BY <1>5, <1>6 DEF PingInv, PingsSettled

LEMMA PingsKeep ==
  ASSUME Base, QueueInv, PingInv, Next
  PROVE  PingInv'
<1>1. /\ pongs \in [1..MaxPings -> {"unsent", "pending", "done", "failed"}] /\ MaxPings \in Nat
      /\ \A i, j \in 1..MaxPings : i < j /\ pongs[i] = "pending" => pongs[j] # "done"
      /\ \A i, j \in 1..MaxPings : i < j /\ pongs[i] = "unsent" => pongs[j] = "unsent"
  BY ScenarioAssumption DEF PingInv, PingsSettled
<1>2. ASSUME pongs' = pongs, lost' = lost PROVE PingInv'
  <2>1. pongs' = pongs /\ (lost' <=> lost)
    BY <1>2
  <2> QED
    BY <2>1 DEF PingInv, PingsSettled
<1>3. CASE KeepPing
  <2>1. CASE p.state = "OPEN"
    <3>1. PICK i \in DOMAIN pongs : /\ pongs[i] = "unsent" /\ \A j \in 1..(i - 1) : pongs[j] # "unsent"
                                    /\ pongs' = [pongs EXCEPT ![i] = "pending"]
      BY <1>3, <2>1 DEF KeepPing
    <3>2. ~lost'
      <4>1. (lost' <=> lost) /\ ~lost
        BY <1>3, <2>1 DEF KeepPing, KeepRest, Base, Ends
      <4> QED
        BY <4>1
    <3>3. i \in 1..MaxPings
      BY <1>1, <3>1
    <3>4. /\ pongs' \in [1..MaxPings -> {"unsent", "pending", "done", "failed"}]
          /\ pongs'[i] = "pending" /\ \A j \in 1..MaxPings : j # i => pongs'[j] = pongs[j]
      BY <1>1, <3>1, <3>3
    <3>5. ASSUME NEW a \in 1..MaxPings, NEW b \in 1..MaxPings, a < b
          PROVE  /\ pongs'[a] = "pending" => pongs'[b] # "done"
                 /\ pongs'[a] = "unsent" => pongs'[b] = "unsent"
      <4>1. CASE b = i
        <5>1. pongs[a] # "unsent" /\ a # i
          BY <1>1, <3>1, <3>3, <3>5, <4>1
        <5> QED
          BY <3>4, <4>1, <5>1
      <4>2. CASE b # i
        BY <1>1, <3>1, <3>3, <3>4, <3>5, <4>2
      <4> QED
        BY <4>1, <4>2
    <3> QED
      BY <3>2, <3>4, <3>5 DEF PingInv, PingsSettled
  <2>2. CASE p.state # "OPEN"
    BY <1>2, <1>3, <2>2 DEF KeepPing, KeepRest
  <2> QED
    BY <2>1, <2>2
<1>4. ASSUME NEW n \in Nat, DataReceived(n) PROVE PingInv'
  <2> DEFINE r == Fed(p, SubSeq(inbox, 1, n))
  <2> DEFINE ids == {r.events[i].n : i \in {j \in DOMAIN r.events : r.events[j].op = "pong"}}
  <2>1. pongs' = Acknowledge(pongs, ids) /\ lost' = lost /\ transport = "open" /\ n <= Len(inbox)
    BY <1>4 DEF DataReceived
  <2>2. SubSeq(inbox, 1, n) \in Seq(PeerItems)
    BY <2>1 DEF QueueInv
  <2>3. Fine(p, r)
    BY <2>2, FedKeeps DEF Base, BaseTypes
  <2> HIDE DEF r
  <2>4. ids \in SUBSET Nat
    <3> SUFFICES ASSUME NEW i \in DOMAIN r.events PROVE r.events[i].n \in Nat
      OBVIOUS
    <3>1. r.events[i] \in PeerItems
      BY <2>3 DEF Fine
    <3> QED
      BY <3>1, ItemIs DEF PeerItems
  <2>5. ~lost /\ ~lost'
    BY <2>1 DEF Base, Ends
  <2> HIDE DEF ids
  <2> QED
    BY <2>1, <2>4, <2>5, AcknowledgeKeeps
<1>5. ASSUME NEW exc \in BOOLEAN, ConnectionLost(exc) PROVE PingInv'
  <2>1. pongs' = [i \in 1..MaxPings |-> IF pongs[i] = "pending" THEN "failed" ELSE pongs[i]]
    BY <1>1, <1>5 DEF ConnectionLost, Settled
  <2>2. pongs' \in [1..MaxPings -> {"unsent", "pending", "done", "failed"}]
    BY <1>1, <2>1
  <2>3. \A i \in 1..MaxPings : pongs'[i] # "pending" /\ (pongs'[i] = "unsent" <=> pongs[i] = "unsent")
    BY <1>1, <2>1
  <2>4. \A i, j \in 1..MaxPings : i < j /\ pongs'[i] = "unsent" => pongs'[j] = "unsent"
    BY <1>1, <2>3
  <2> QED
    BY <2>2, <2>3, <2>4 DEF PingInv, PingsSettled
<1>6. CASE \E t \in Tasks : InCtx(t)
  BY <1>2, <1>6 DEF InCtx, CtxYielded, CtxDrained, CtxClosed, CtxTimeout, CtxRest
<1>7. CASE KeepPong \/ KeepTimeout
  BY <1>2, <1>7 DEF KeepPong, KeepTimeout, KeepRest
<1>8. CASE RecvCall \/ RecvWake \/ RecvCancel \/ RecvCancelled
  BY <1>2, <1>8 DEF RecvCall, RecvWake, RecvCancel, RecvCancelled, RecvRest
<1>9. CASE (\E op \in cfg.ops : PeerSends(op)) \/ EofReceived \/ ResumeWriting \/ Broadcast
  BY <1>2, <1>9 DEF PeerSends, EofReceived, ResumeWriting, Broadcast, AppRest
<1>10. CASE \E s \in Senders : SendCall(s) \/ Send(s) \/ SendFails(s) \/ SendCancel(s)
  <2>1. ASSUME NEW s \in Senders, SendCall(s) PROVE pongs' = pongs /\ lost' = lost
    BY <2>1 DEF SendCall, AppRest
  <2>2. ASSUME NEW s \in Senders, Send(s) PROVE pongs' = pongs /\ lost' = lost
    BY <2>2 DEF Send, SendTurn, SendFirst, SendNext, AppRest
  <2>3. ASSUME NEW s \in Senders, SendFails(s) \/ SendCancel(s) PROVE pongs' = pongs /\ lost' = lost
    BY <2>3 DEF SendFails, SendCancel, AppRest
  <2> QED
    BY <1>2, <1>10, <2>1, <2>2, <2>3
<1>11. CASE \E c \in Closers : CloseCall(c)
  BY <1>2, <1>11 DEF CloseCall, AppRest
<1> QED
  BY <1>3, <1>4, <1>5, <1>6, <1>7, <1>8, <1>9, <1>10, <1>11, Steps DEF Keepalive

--------------------------------------------------------------------------------
(* The invariant.                                                          *)

\* The queue of a step that leaves it alone.
LEMMA QueueSame ==
  ASSUME QueueInv, UNCHANGED <<cfg, inbox, lost, queueVars>>, load' \in Nat,
         pc'[Reader] = pc[Reader] \/ (~cancelled /\ pc'[Reader] # "wait")
  PROVE  QueueInv'
<1>1. /\ cfg' = cfg /\ inbox' = inbox /\ queue' = queue /\ parts' = parts /\ waiter' = waiter
      /\ (lost' <=> lost) /\ (paused' <=> paused) /\ (cancelled' <=> cancelled)
      /\ paused' = paused /\ cancelled' = cancelled
  BY DEF queueVars
<1> QED
  BY <1>1 DEF QueueInv, PausedMeansQueued

LEMMA StepKeeps ==
  ASSUME IInv, Next
  PROVE  IInv'
<1>1. Base /\ QueueInv /\ PingInv
  BY DEF IInv
<1>2. load \in Nat /\ load + 1 \in Nat
  BY <1>1 DEF QueueInv
<1>3. PingInv'
  BY <1>1, PingsKeep
<1>4. ASSUME NEW t \in Tasks, InCtx(t) PROVE Base' /\ QueueInv'
  <2>1. Base' /\ pc' = [pc EXCEPT ![t] = pc'[t]] /\ (t = Reader => pc'[Reader] \notin {"wait", "assert"})
    BY <1>1, <1>4, InCtxKeeps
  <2>2. t # Reader => pc'[Reader] = pc[Reader]
    BY <1>1, <2>1, TasksDiffer DEF Base, BaseTypes
  <2>3. t = Reader => ~cancelled
    <3> HAVE t = Reader
    <3>1. ctx[Reader].at \notin {"ok", "raise"}
      BY <1>4 DEF InCtx, CtxYielded, CtxDrained, CtxClosed, CtxTimeout
    <3>2. pc[Reader] \in {"close", "ping", "fail"}
      BY <1>1, <3>1, TasksDiffer DEF Base, Contexts
    <3> QED
      BY <1>1, <3>2 DEF QueueInv
  <2>4. UNCHANGED <<cfg, inbox, lost, queueVars, load>>
    BY <1>4 DEF InCtx, CtxYielded, CtxDrained, CtxClosed, CtxTimeout, CtxRest
  <2> QED
    BY <1>1, <1>2, <2>1, <2>2, <2>3, <2>4, QueueSame
<1>5. ASSUME Keepalive PROVE Base' /\ QueueInv'
  <2>1. UNCHANGED <<cfg, inbox, lost, queueVars, load>>
    BY <1>5 DEF Keepalive, KeepPing, KeepPong, KeepTimeout, KeepRest
  <2> QED
    BY <1>1, <1>2, <1>5, <2>1, KeeperKeeps, QueueSame
<1>6. ASSUME NEW s \in Senders, SendCall(s) \/ Send(s) \/ SendFails(s) \/ SendCancel(s) PROVE Base' /\ QueueInv'
  <2>1. UNCHANGED <<cfg, inbox, lost, queueVars>> /\ load' \in {load, load + 1}
    BY <1>6 DEF SendCall, Send, SendTurn, SendFirst, SendNext, SendFails, SendCancel, AppRest, Asks
  <2> QED
    BY <1>1, <1>2, <1>6, <2>1, SendersKeep, QueueSame
<1>7. ASSUME NEW c \in Closers, CloseCall(c) PROVE Base' /\ QueueInv'
  <2>1. UNCHANGED <<cfg, inbox, lost, queueVars>> /\ load' \in {load, load + 1}
    BY <1>7 DEF CloseCall, AppRest, Asks
  <2> QED
    BY <1>1, <1>2, <1>7, <2>1, ClosersKeep, QueueSame
<1> QED
  BY <1>1, <1>3, <1>4, <1>5, <1>6, <1>7, Steps, ReaderKeeps, DataKeep, EventsKeep DEF IInv

LEMMA InitHolds == ASSUME Init PROVE IInv
<1>1. /\ cfg \in Configs /\ inbox = <<>> /\ transport = "open" /\ ~lost /\ ~full /\ ~deadline /\ ~torn /\ ~paused
      /\ ~cancelled /\ sip = NoTask /\ left = cfg.pieces /\ queue = <<>> /\ parts = <<>> /\ waiter = "none" /\ load = 0
      /\ pongs = [i \in 1..MaxPings |-> "unsent"] /\ ctx = [t \in Tasks |-> Returned]
      /\ lost = FALSE /\ full = FALSE /\ deadline = FALSE /\ torn = FALSE /\ paused = FALSE /\ cancelled = FALSE
  BY DEF Init
<1>2. cfg.side \in {"client", "server"} /\ cfg.pieces \in [Senders -> Nat] /\ cfg.low \in Nat
  BY <1>1, ScenarioAssumption
<1>3. Running(p) /\ p.state = "OPEN" /\ ~p.expectCont
  BY <1>2, RunningInit DEF Init
<1>4. Returned \in Ctxs /\ Returned.at = "ok" /\ ~Returned.wait
  BY DEF Returned, InContext, Ctxs
<1>5. pc \in [Tasks -> Places] /\ \A t \in Tasks : pc[t] \in {"idle", "sleep", "done"}
  BY DEF Init, Places
<1>6. \A t \in Tasks : t # Keeper => pc[t] = "idle"
  BY DEF Init
<1>7. ctx \in [Tasks -> Ctxs] /\ \A t \in Tasks : ctx[t].at = "ok" /\ ~ctx[t].wait
  BY <1>1, <1>4
<1>8. BaseTypes
  BY <1>1, <1>2, <1>3, <1>5, <1>7 DEF BaseTypes
<1>9. Ends /\ Contexts
  BY <1>1, <1>3, <1>7 DEF Ends, Contexts
<1>10. Sending /\ ClosedMeansClosed
  BY <1>1, <1>3, <1>6, <1>7, TasksDiffer DEF Sending, SendersTakeTurns, ClosedMeansClosed, Within
<1>11. QueueInv
  <2>1. pc[Reader] = "idle"
    BY <1>6, TasksDiffer
  <2>2. <<>> \in Seq(PeerItems) /\ <<>> \in Seq(QueueFrames) /\ DOMAIN <<>> = {}
    OBVIOUS
  <2> QED
    BY <1>1, <2>1, <2>2 DEF QueueInv, PausedMeansQueued
<1>12. PingInv
  BY <1>1 DEF PingInv, PingsSettled
<1> QED
  BY <1>8, <1>9, <1>10, <1>11, <1>12 DEF IInv, Base

LEMMA StutterKeeps == ASSUME IInv, UNCHANGED vars PROVE IInv'
<1>1. UNCHANGED <<cfg, p, ioVars, ctxVars, lost, left, torn>> /\ UNCHANGED <<cfg, inbox, lost, queueVars>>
      /\ load' = load /\ pongs' = pongs
  BY DEF vars
<1>2. Base' /\ pc'[Reader] = pc[Reader]
  BY <1>1, SameKeeps DEF IInv
<1>3. QueueInv'
  BY <1>1, <1>2, QueueSame DEF IInv, QueueInv
<1>4. PingInv'
  <2>1. pongs' = pongs /\ (lost' <=> lost)
    BY <1>1
  <2> QED
    BY <2>1 DEF IInv, PingInv, PingsSettled
<1> QED
  BY <1>2, <1>3, <1>4 DEF IInv

THEOREM IInvHolds == Spec => []IInv
<1>1. Init => IInv
  BY InitHolds
<1>2. IInv /\ [Next]_vars => IInv'
  BY StepKeeps, StutterKeeps
<1> QED
  BY <1>1, <1>2, PTL DEF Spec

\* Asserts hold, tasks that wait have something to wait for, reading resumes,
\* pings are settled, senders take turns and ConnectionClosed tells the truth:
\* messages.py and connection.py keep all of it whatever is cancelled, recv()
\* at a moment at which it fails included.
THEOREM TasksStayInStep == Spec => []TasksInStep
<1>1. ASSUME IInv PROVE TasksInStep
  <2>1. Base /\ QueueInv /\ PingInv
    BY <1>1 DEF IInv
  <2>2. DeadlineKept
    BY <2>1 DEF Base, BaseTypes, Ends, Contexts, Running, DeadlineKept
  <2>3. NoLostWakeup
    BY <2>1 DEF Base, Contexts, QueueInv, NoLostWakeup
  <2>4. PausedMeansQueued /\ PingsSettled /\ SendersTakeTurns /\ ClosedMeansClosed
    BY <2>1 DEF Base, Sending, QueueInv, PingInv
  <2>5. TypeOK
    BY <2>1 DEF Base, BaseTypes, QueueInv, PingInv, Running, Ctxs, TypeOK
  <2> QED
    BY <2>2, <2>3, <2>4, <2>5 DEF TasksInStep
<1> QED
  BY <1>1, IInvHolds, PTL

--------------------------------------------------------------------------------
(* What the steps do to the protocol.                                      *)

LEMMA ContextBody ==
  ASSUME Base, NEW t, NEW q, NEW at, NEW held, Context(t, q, at, held), p.state = "OPEN" => Running(q)
  PROVE  (p.state # "OPEN" /\ p' = p) \/ (p.state = "OPEN" /\ Alike(q, p'))
<1>1. CASE p.state = "OPEN"
  <2> DEFINE r == IF CloseExpected(q) THEN Asserted(q, ~deadline) ELSE q
  <2>1. p' = Written(r) /\ ~deadline
    BY <1>1 DEF Context, Enter, SendOut, Base, Ends
  <2>2. Running(r) /\ Alike(q, r)
    <3>1. CASE CloseExpected(q)
      <4>1. r = Asserted(q, ~deadline)
        BY <3>1
      <4> QED
        BY <1>1, <2>1, <4>1, AssertedIs
    <3>2. CASE ~CloseExpected(q)
      BY <1>1, <3>2 DEF Alike
    <3> QED
      BY <3>1, <3>2
  <2> HIDE DEF r
  <2> QED
    BY <1>1, <2>1, <2>2, WrittenIs DEF Alike
<1>2. CASE p.state # "OPEN"
  BY <1>2 DEF Context, EnterClosed
<1> QED
  BY <1>1, <1>2

LEMMA FailBody ==
  ASSUME Base, NEW t, NEW code \in {1007, 1011}, NEW held, Context(t, Fail(p, code), "fail", held)
  PROVE  Calm(p, p') /\ NotByItself(p, p')
<1> DEFINE q == Fail(p, code)
<1>1. p.state = "OPEN" => Running(q) /\ q.parser = "discard" /\ q.closeSent = code
  BY FailIs DEF Base, BaseTypes, EofError
<1> HIDE DEF q
<1>2. (p.state # "OPEN" /\ p' = p) \/ (p.state = "OPEN" /\ Alike(q, p'))
  BY <1>1, ContextBody DEF q
<1> QED
  BY <1>1, <1>2 DEF Calm, NotByItself, Alike

LEMMA DataBody ==
  ASSUME Base, NEW t, NEW first \in BOOLEAN, NEW fin \in BOOLEAN, NEW at, NEW held,
         Context(t, SendData(p, first, fin, 0), at, held)
  PROVE  Calm(p, p') /\ NotByItself(p, p')
<1> DEFINE q == SendData(p, first, fin, 0)
<1>1. p.state = "OPEN" => Running(q) /\ Alike(p, q)
  BY SendDataIs DEF Base, BaseTypes
<1> HIDE DEF q
<1>2. (p.state # "OPEN" /\ p' = p) \/ (p.state = "OPEN" /\ Alike(q, p'))
  BY <1>1, ContextBody DEF q
<1> QED
  BY <1>1, <1>2 DEF Calm, NotByItself, Alike

LEMMA Bodily ==
  ASSUME Base, QueueInv, Next
  PROVE  /\ NotByItself(p, p') \/ (sip = NoTask /\ p.state = "OPEN")
         /\ Calm(p, p') \/ \E n \in Nat : DataReceived(n)
<1>1. Running(p)
  BY DEF Base, BaseTypes
<1>2. ASSUME p' = p PROVE Calm(p, p') /\ NotByItself(p, p')
  BY <1>2 DEF Calm, NotByItself
<1>3. CASE \E t \in Tasks : InCtx(t)
  BY <1>2, <1>3 DEF InCtx, CtxYielded, CtxDrained, CtxClosed, CtxTimeout, CtxRest
<1>4. CASE Keepalive
  <2>1. CASE KeepPing
    <3>1. Context(Keeper, SendPing(p, 0), "ping", sip)
      BY <2>1 DEF KeepPing, Context
    <3>2. Running(SendPing(p, 0)) /\ Alike(p, SendPing(p, 0))
      BY <1>1, SendPingIs
    <3>3. Alike(p, p')
      BY <3>1, <3>2, ContextBody DEF Alike
    <3> QED
      BY <3>3, CalmAlike
  <2>2. CASE KeepPong
    BY <1>2, <2>2 DEF KeepPong
  <2>3. CASE KeepTimeout
    BY <2>3, FailBody DEF KeepTimeout
  <2> QED
    BY <1>4, <2>1, <2>2, <2>3 DEF Keepalive
<1>5. ASSUME Fetch PROVE Calm(p, p') /\ NotByItself(p, p')
  <2>1. p' = p \/ Context(Reader, Fail(p, 1007), "fail", sip)
    BY <1>5 DEF Fetch
  <2> QED
    BY <1>2, <2>1, FailBody
<1>6. CASE RecvCall \/ RecvWake \/ RecvCancel \/ RecvCancelled
  BY <1>2, <1>5, <1>6 DEF RecvCall, RecvWake, RecvCancel, RecvCancelled
<1>7. ASSUME NEW n \in Nat, DataReceived(n) PROVE NotByItself(p, p')
  <2> DEFINE r == Fed(p, SubSeq(inbox, 1, n))
  <2>1. SubSeq(inbox, 1, n) \in Seq(PeerItems) /\ p' = Written(r.p)
    BY <1>7 DEF DataReceived, SendOut, QueueInv
  <2>2. Running(r.p) /\ NotByItself(p, r.p)
    BY <1>1, <2>1, FedKeeps DEF Fine
  <2> HIDE DEF r
  <2> QED
    BY <2>1, <2>2, WrittenIs DEF Alike, NotByItself
<1>8. CASE \E op \in cfg.ops : PeerSends(op)
  BY <1>2, <1>8 DEF PeerSends
<1>9. CASE EofReceived
  <2>1. p' = Written(ReceiveEof(p)) /\ p.state # "CLOSED"
    BY <1>9 DEF EofReceived, Base, Ends
  <2>2. Running(ReceiveEof(p)) /\ ReceiveEof(p).state = "CLOSED" /\ ReceiveEof(p).closeSent = p.closeSent
    BY <1>1, <2>1, ReceiveEofIs
  <2>3. ReceiveEof(p).parser = "discard"
    BY <2>2 DEF Running
  <2> QED
    BY <2>1, <2>2, <2>3, WrittenIs DEF Alike, Calm, NotByItself
<1>10. ASSUME NEW exc \in BOOLEAN, ConnectionLost(exc) PROVE Calm(p, p') /\ NotByItself(p, p')
  <2>1. p' = Written(EofOnce(p))
    BY <1>10 DEF ConnectionLost
  <2>2. Running(EofOnce(p)) /\ EofOnce(p).state = "CLOSED" /\ EofOnce(p).closeSent = p.closeSent
    BY <1>1, EofOnceIs
  <2>3. EofOnce(p).parser = "discard"
    BY <2>2 DEF Running
  <2> QED
    BY <2>1, <2>2, <2>3, WrittenIs DEF Alike, Calm, NotByItself
<1>11. CASE ResumeWriting
  BY <1>2, <1>11 DEF ResumeWriting
<1>12. CASE Broadcast
  <2> DEFINE q == SendData(p, TRUE, TRUE, 0)
  <2>1. p' = Written(q)
    BY <1>12 DEF Broadcast, SendOut
  <2>2. Running(q) /\ Alike(p, q)
    BY <1>1 DEF Running, Shaped, SendData, NoExt, Write, Alike
  <2> HIDE DEF q
  <2>3. Alike(p, p')
    BY <2>1, <2>2, WrittenIs DEF Alike
  <2> QED
    BY <2>3, CalmAlike
<1>13. ASSUME NEW s \in Senders, SendCall(s) \/ Send(s) \/ SendFails(s) \/ SendCancel(s)
       PROVE  Calm(p, p') /\ NotByItself(p, p')
  <2>1. ASSUME Begin(s) PROVE Calm(p, p') /\ NotByItself(p, p')
    BY <1>2, <2>1, DataBody DEF Begin
  <2>2. CASE SendCall(s)
    BY <1>2, <2>1, <2>2 DEF SendCall
  <2>3. CASE SendTurn(s)
    BY <2>1, <2>3 DEF SendTurn
  <2>4. CASE SendFirst(s)
    <3>1. CASE p' = p
      BY <1>2, <3>1
    <3>2. CASE Context(s, Fail(p, 1011), "fail", s)
      BY <3>2, FailBody
    <3>3. CASE Context(s, SendData(p, TRUE, FALSE, 0), "write", s)
      BY <3>3, DataBody
    <3> QED
      BY <2>4, <3>1, <3>2, <3>3 DEF SendFirst
  <2>5. CASE SendNext(s)
    BY <2>5, DataBody DEF SendNext
  <2>6. CASE SendFails(s)
    BY <2>6, FailBody DEF SendFails
  <2>7. CASE SendCancel(s)
    BY <1>2, <2>7 DEF SendCancel
  <2> QED
    BY <1>13, <2>2, <2>3, <2>4, <2>5, <2>6, <2>7 DEF Send
<1>14. ASSUME NEW c \in Closers, CloseCall(c)
       PROVE  Calm(p, p') /\ (NotByItself(p, p') \/ (sip = NoTask /\ p.state = "OPEN"))
  <2> DEFINE q == IF sip # NoTask THEN Fail(p, 1011) ELSE SendClose(p, 1000)
  <2>1. Context(c, q, "close", sip)
    BY <1>14 DEF CloseCall
  <2>2. p.state = "OPEN" =>
          /\ Running(q)
          /\ sip = NoTask => q.parser = p.parser /\ q.current = p.current
          /\ sip # NoTask => q.parser = "discard" /\ q.closeSent = 1011
    <3> HAVE p.state = "OPEN"
    <3>1. LET r == SendClose(p, 1000) IN Running(r) /\ r.parser = p.parser /\ r.current = p.current
      BY <1>1, SendCloseIs
    <3>2. LET r == Fail(p, 1011) IN Running(r) /\ r.parser = "discard" /\ r.closeSent = 1011
      BY <1>1, FailIs DEF EofError
    <3> QED
      BY <3>1, <3>2
  <2> HIDE DEF q
  <2>3. (p.state # "OPEN" /\ p' = p) \/ (p.state = "OPEN" /\ Alike(q, p'))
    BY <2>1, <2>2, ContextBody
  <2> QED
    BY <1>2, <2>2, <2>3 DEF Calm, NotByItself, Alike
<1> QED
  BY <1>3, <1>4, <1>6, <1>7, <1>8, <1>9, <1>10, <1>11, <1>12, <1>13, <1>14, Steps

\* The 1000 with which close() begins the closing handshake is the end of a
\* message stream that is whole, or whose last message the application left
\* unfinished: while a fragmented send() is in progress close() fails the
\* connection instead, and whatever else sends leaves no message open.
THEOREM ClosesBetweenMessages == Spec => CloseBetweenMessages
<1> DEFINE Begins == p.closeSent = NoCode /\ p'.closeSent = 1000 /\ p'.closeRcvd = NoCode
<1>1. IInv /\ [Next]_vars => [Begins => ~p.expectCont \/ torn]_vars
  <2> SUFFICES ASSUME IInv, Next, Begins PROVE ~p.expectCont \/ torn
    OBVIOUS
  <2>1. NotByItself(p, p') \/ (sip = NoTask /\ p.state = "OPEN")
    BY Bodily DEF IInv
  <2>2. sip = NoTask /\ p.state = "OPEN"
    BY <2>1 DEF NotByItself, NoCode
  <2> QED
    BY <2>2 DEF IInv, Base, Sending, SendersTakeTurns
<1> QED
  BY <1>1, IInvHolds, PTL DEF Spec, CloseBetweenMessages

--------------------------------------------------------------------------------
(* The stream of messages.                                                 *)

(* What is left of a line of frames when its first ones are taken away:    *)
(* frames in order; one starts a message if and only if it follows the end *)
(* of one.                                                                 *)
Flow(q, s) ==
  /\ s \in Seq(QueueFrames)
  /\ \A i, j \in DOMAIN s : i < j => s[i].n < s[j].n
  /\ \A i \in 1..(Len(s) - 1) : s[i + 1].starts <=> s[i].fin
  /\ q.parser = "frames" /\ s # <<>> => (q.current = NoSize <=> s[Len(s)].fin)

Whole == parts \o queue
StreamInv ==
  /\ Flow(p, Whole) /\ load <= MaxLoad
  /\ parts # <<>> => parts[1].starts
  /\ taken \in Seq(1..load) /\ Numbers(Whole) \subseteq 1..load
  /\ \A i \in DOMAIN inbox : IsData(inbox[i]) => inbox[i].n \in 1..load
  /\ Numbered(inbox, Range(taken) \cup Numbers(Whole))
  /\ \A x \in Range(taken), y \in Numbers(Whole) : x < y
  /\ waiter # "none" => pc[Reader] = "wait"
  /\ waiter = "eof" => queue = <<>>

SInv == IInv /\ StreamInv

LEMMA FlowCalm ==
  ASSUME NEW q, NEW r, NEW s, Flow(q, s), Calm(q, r)
  PROVE  Flow(r, s)
BY DEF Flow, Calm

LEMMA FlowLine ==
  ASSUME NEW q, NEW s
  PROVE  /\ Line(q, s) => Flow(q, s)
         /\ Flow(q, s) /\ s # <<>> /\ s[1].starts => Line(q, s)
BY DEF Flow, Line

\* Frames are taken away from the front.
LEMMA FlowRest ==
  ASSUME NEW q, NEW a \in Seq(QueueFrames), NEW b \in Seq(QueueFrames), Flow(q, a \o b)
  PROVE  Flow(q, b)
<1> DEFINE l == a \o b
<1> DEFINE m == Len(a)
<1> DEFINE n == Len(b)
<1>1. /\ m \in Nat /\ n \in Nat /\ Len(l) = m + n /\ DOMAIN l = 1..(m + n) /\ DOMAIN b = 1..n
      /\ \A i \in 1..n : l[m + i] = b[i]
  OBVIOUS
<1>2. Flow(q, l)
  OBVIOUS
<1> HIDE DEF l, m, n
<1>3. \A i, j \in DOMAIN b : i < j => b[i].n < b[j].n
  <2> SUFFICES ASSUME NEW i \in 1..n, NEW j \in 1..n, i < j PROVE b[i].n < b[j].n
    BY <1>1
  <2>1. m + i \in DOMAIN l /\ m + j \in DOMAIN l /\ m + i < m + j
    BY <1>1
  <2> QED
    BY <1>1, <1>2, <2>1 DEF Flow
<1>4. \A i \in 1..(n - 1) : b[i + 1].starts <=> b[i].fin
  <2> SUFFICES ASSUME NEW i \in 1..(n - 1) PROVE b[i + 1].starts <=> b[i].fin
    OBVIOUS
  <2>1. m + i \in 1..(Len(l) - 1) /\ (m + i) + 1 = m + (i + 1) /\ i \in 1..n /\ i + 1 \in 1..n
    BY <1>1
  <2> QED
    BY <1>1, <1>2, <2>1 DEF Flow
<1>5. b # <<>> => l # <<>> /\ l[Len(l)] = b[n]
  <2> SUFFICES ASSUME b # <<>> PROVE l # <<>> /\ l[Len(l)] = b[n]
    OBVIOUS
  <2>1. n \in 1..n
    BY <1>1
  <2> QED
    BY <1>1, <2>1
<1> QED
  BY <1>2, <1>3, <1>4, <1>5 DEF Flow, n

\* The messages among a and b that end in b start in a or are messages of b.
LEMMA RestMessages ==
  ASSUME NEW a \in Seq(QueueFrames), NEW b \in Seq(QueueFrames)
  PROVE  /\ Numbers(b) \subseteq Numbers(a \o b) /\ Messages(b) \subseteq Messages(a \o b)
         /\ Messages(a \o b) \subseteq {a[i].n : i \in {k \in DOMAIN a : a[k].starts}} \cup Messages(b)
<1> DEFINE l == a \o b
<1> DEFINE m == Len(a)
<1> DEFINE n == Len(b)
<1>1. /\ m \in Nat /\ n \in Nat /\ DOMAIN l = 1..(m + n) /\ DOMAIN b = 1..n /\ DOMAIN a = 1..m
      /\ (\A i \in 1..n : l[m + i] = b[i]) /\ \A i \in 1..m : l[i] = a[i]
  OBVIOUS
<1> HIDE DEF l, m, n
<1>2. \A i \in 1..n : m + i \in DOMAIN l /\ l[m + i] = b[i]
  BY <1>1
<1>3. ASSUME NEW i \in 1..(m + n), ~(i \in 1..m) PROVE i - m \in 1..n /\ m + (i - m) = i /\ l[i] = b[i - m]
  <2>1. i - m \in 1..n /\ m + (i - m) = i
    BY <1>1, <1>3
  <2> QED
    BY <1>1, <2>1
<1>4. Numbers(b) \subseteq Numbers(l)
  BY <1>1, <1>2 DEF Numbers
<1>5. Messages(b) \subseteq Messages(l)
  <2> SUFFICES ASSUME NEW x \in Messages(b) PROVE x \in Messages(l)
    OBVIOUS
  <2>1. PICK k \in 1..n, j \in Fins(b) : x = b[k].n /\ b[k].starts /\ j >= k
    BY <1>1 DEF Messages
  <2>2. j \in 1..n /\ b[j].fin
    BY <1>1 DEF Fins
  <2>3. m + j >= m + k /\ m + j \in Fins(l) /\ m + k \in DOMAIN l /\ l[m + k] = b[k]
    BY <1>1, <1>2, <2>1, <2>2 DEF Fins
  <2> QED
    BY <2>1, <2>3 DEF Messages
<1>6. ASSUME NEW x \in Messages(l) PROVE x \in {a[i].n : i \in {k \in DOMAIN a : a[k].starts}} \cup Messages(b)
  <2>1. PICK k \in 1..(m + n), j \in Fins(l) : x = l[k].n /\ l[k].starts /\ j >= k
    BY <1>1 DEF Messages
  <2>2. CASE k \in 1..m
    BY <1>1, <2>1, <2>2
  <2>3. CASE ~(k \in 1..m)
    <3>1. j \in 1..(m + n) /\ l[j].fin /\ ~(j \in 1..m)
      BY <1>1, <2>1, <2>3 DEF Fins
    <3>2. k - m \in 1..n /\ l[k] = b[k - m] /\ j - m \in 1..n /\ l[j] = b[j - m] /\ j - m >= k - m
      BY <1>1, <1>3, <2>1, <2>3, <3>1
    <3> QED
      BY <1>1, <2>1, <3>1, <3>2 DEF Messages, Fins
  <2> QED
    BY <2>2, <2>3
<1> QED
  BY <1>4, <1>5, <1>6 DEF l

LEMMA Concatenated ==
  ASSUME NEW S, NEW a \in Seq(S), NEW b \in Seq(S)
  PROVE  /\ a \o b \in Seq(S) /\ Len(a \o b) = Len(a) + Len(b) /\ Len(b) \in Nat
         /\ DOMAIN (a \o b) = 1..(Len(a) + Len(b)) /\ DOMAIN b = 1..Len(b)
         /\ \A i \in 1..Len(a) : (a \o b)[i] = a[i]
         /\ \A i \in 1..Len(b) : (a \o b)[Len(a) + i] = b[i]
OBVIOUS

LEMMA Prepended ==
  ASSUME NEW S, NEW c, c \in Seq(S), Len(c) = 1, NEW s, s \in Seq(S)
  PROVE  LET l == c \o s
         IN  /\ l \in Seq(S) /\ Len(l) = Len(s) + 1 /\ Len(s) \in Nat
             /\ DOMAIN l = 1..(Len(s) + 1) /\ DOMAIN s = 1..Len(s) /\ l[1] = c[1]
             /\ \A i \in 1..Len(s) : l[i + 1] = s[i]
<1> DEFINE l == c \o s
<1>1. c \in Seq(S) /\ s \in Seq(S)
  OBVIOUS
<1>2. /\ l \in Seq(S) /\ Len(l) = Len(c) + Len(s) /\ Len(s) \in Nat
      /\ DOMAIN l = 1..(Len(c) + Len(s)) /\ DOMAIN s = 1..Len(s)
      /\ \A i \in 1..Len(c) : l[i] = c[i]
      /\ \A i \in 1..Len(s) : l[Len(c) + i] = s[i]
  BY ONLY <1>1, Concatenated
<1> HIDE DEF l
<1>3. Len(c) + Len(s) = Len(s) + 1 /\ (\A i \in 1..Len(s) : Len(c) + i = i + 1) /\ 1 \in 1..Len(c)
  BY <1>2
<1> QED
  BY <1>1, <1>2, <1>3 DEF l

\* Frames arrive: to a flow that lost its beginning they do what they do to
\* the line that begins with the frame that was lost.
LEMMA FlowFed ==
  ASSUME NEW q, Running(q), NEW s, Flow(q, s), NEW items \in Seq(PeerItems), NEW t \in SUBSET Nat,
         Numbered(items, t), \A x \in Numbers(s) : x \in t /\ 0 < x,
         \A i \in DOMAIN items : IsData(items[i]) => 0 < items[i].n
  PROVE  LET r == Fed(q, items)
         IN  /\ Flow(r.p, s \o r.data)
             /\ \A i \in DOMAIN r.data : \E j \in DOMAIN items : IsData(items[j]) /\ r.data[i].n = items[j].n
<1> DEFINE r == Fed(q, items)
<1>1. s \in Seq(QueueFrames) /\ r.data \in Seq(QueueFrames)
  BY FedKeeps DEF Flow, Fine
<1>2. CASE Line(q, s)
  BY <1>2, FedLine, FlowLine
<1>3. CASE ~Line(q, s)
  <2> DEFINE f == [n |-> 0, starts |-> TRUE, fin |-> FALSE, utf8 |-> TRUE]
  <2> DEFINE c == <<f>>
  <2> DEFINE l == c \o s
  <2> DEFINE u == t \cup {0}
  <2>1. /\ f \in QueueFrames /\ f.n = 0 /\ f.starts = TRUE /\ f.fin = FALSE
    BY DEF QueueFrames
  <2> HIDE DEF f
  <2>2. /\ c \in Seq(QueueFrames) /\ l \in Seq(QueueFrames) /\ Len(l) = Len(s) + 1 /\ Len(s) \in Nat
        /\ DOMAIN l = 1..(Len(s) + 1) /\ DOMAIN s = 1..Len(s) /\ l[1] = f
        /\ \A i \in 1..Len(s) : l[i + 1] = s[i]
    <3>1. c \in Seq(QueueFrames) /\ Len(c) = 1 /\ c[1] = f
      BY <2>1
    <3> HIDE DEF c
    <3> QED
      BY ONLY <1>1, <3>1, Prepended DEF l
  <2> HIDE DEF l, c
  <2>3. s # <<>> => ~s[1].starts
    BY <1>3, FlowLine
  <2>4. ASSUME NEW i \in 2..(Len(s) + 1) PROVE i - 1 \in 1..Len(s) /\ (i - 1) + 1 = i /\ l[i] = s[i - 1]
    <3>1. i - 1 \in 1..Len(s) /\ (i - 1) + 1 = i
      BY <2>2
    <3> QED
      BY <2>2, <3>1
  <2>5. \A i, j \in DOMAIN l : i < j => l[i].n < l[j].n
    <3> SUFFICES ASSUME NEW i \in 1..(Len(s) + 1), NEW j \in 1..(Len(s) + 1), i < j PROVE l[i].n < l[j].n
      BY <2>2
    <3>1. j \in 2..(Len(s) + 1)
      BY <2>2
    <3>2. l[j] = s[j - 1] /\ j - 1 \in DOMAIN s
      BY <2>2, <2>4, <3>1
    <3>3. CASE i = 1
      BY <2>1, <2>2, <3>2, <3>3 DEF Numbers
    <3>4. CASE i # 1
      <4>1. i \in 2..(Len(s) + 1)
        BY <2>2, <3>4
      <4>2. l[i] = s[i - 1] /\ i - 1 \in DOMAIN s /\ i - 1 < j - 1
        BY <2>2, <2>4, <4>1
      <4> QED
        BY <3>2, <4>2 DEF Flow
    <3> QED
      BY <3>3, <3>4
  <2>6. \A i \in 1..(Len(l) - 1) : l[i + 1].starts <=> l[i].fin
    <3> SUFFICES ASSUME NEW i \in 1..Len(s) PROVE l[i + 1].starts <=> l[i].fin
      BY <2>2
    <3>1. l[i + 1] = s[i]
      BY <2>2
    <3>2. CASE i = 1
      <4>1. s # <<>>
        BY <2>2
      <4> QED
        BY <2>1, <2>2, <2>3, <3>1, <3>2, <4>1
    <3>3. CASE i # 1
      <4>1. i \in 2..(Len(s) + 1) /\ i - 1 \in 1..(Len(s) - 1) /\ (i - 1) + 1 = i
        BY <2>2, <3>3
      <4>2. l[i] = s[i - 1]
        BY <2>4, <4>1
      <4> QED
        BY <3>1, <4>1, <4>2 DEF Flow
    <3> QED
      BY <3>2, <3>3
  <2>7. l # <<>> /\ l[1].starts /\ (q.parser = "frames" => (q.current = NoSize <=> l[Len(l)].fin))
    <3>1. CASE s = <<>>
      <4>1. l[Len(l)] = f
        BY <2>2, <3>1
      <4>2. q.parser = "frames" => q.current # NoSize
        BY <1>1, <1>3, <3>1 DEF Line
      <4> QED
        BY <2>1, <2>2, <4>1, <4>2
    <3>2. CASE s # <<>>
      <4>1. Len(s) \in 1..Len(s)
        BY <1>1, <2>2, <3>2
      <4>2. l[Len(l)] = s[Len(s)]
        BY <2>2, <4>1
      <4> QED
        BY <2>1, <2>2, <3>2, <4>2 DEF Flow
    <3> QED
      BY <3>1, <3>2
  <2>8. Line(q, l)
    BY <2>2, <2>5, <2>6, <2>7 DEF Line
  <2>9. u \in SUBSET Nat /\ Numbered(items, u)
    BY DEF Numbered
  <2>10. \A x \in Numbers(l) : x \in u
    <3> SUFFICES ASSUME NEW i \in 1..(Len(s) + 1) PROVE l[i].n \in u
      BY <2>2 DEF Numbers
    <3>1. CASE i = 1
      BY <2>1, <2>2, <3>1
    <3>2. CASE i # 1
      <4>1. i \in 2..(Len(s) + 1)
        BY <2>2, <3>2
      <4> QED
        BY <2>2, <2>4, <4>1 DEF Numbers
    <3> QED
      BY <3>1, <3>2
  <2> HIDE DEF u
  <2>11. /\ Line(r.p, l \o r.data)
         /\ \A i \in DOMAIN r.data : \E j \in DOMAIN items : IsData(items[j]) /\ r.data[i].n = items[j].n
    BY <2>8, <2>9, <2>10, FedLine
  <2> HIDE DEF r
  <2>12. l \o r.data = c \o (s \o r.data) /\ s \o r.data \in Seq(QueueFrames)
    <3>1. c \o (s \o r.data) = (c \o s) \o r.data
      <4>1. \A a, b, d \in Seq(QueueFrames) : a \o (b \o d) = (a \o b) \o d
        BY ONLY Associates
      <4> QED
        BY ONLY <1>1, <2>2, <4>1
    <3> QED
      BY <1>1, <3>1 DEF l
  <2>13. Flow(r.p, l \o r.data)
    BY <2>11, FlowLine
  <2> QED
    BY <2>2, <2>11, <2>12, <2>13, FlowRest DEF r
<1> QED
  BY <1>2, <1>3

LEMMA SeqGrows ==
  ASSUME NEW a \in Nat, NEW b \in Nat, a <= b, NEW s \in Seq(1..a)
  PROVE  s \in Seq(1..b)
<1>1. 1..a \subseteq 1..b
  OBVIOUS
<1> QED
  BY <1>1

\* Frames may arrive or be thrown away, in the inbox alone.
LEMMA StreamSame ==
  ASSUME StreamInv, Calm(p, p'), UNCHANGED <<parts, queue, taken>>, load' \in Nat, load \in Nat, load <= load', load' <= MaxLoad,
         \A i \in DOMAIN inbox' : IsData(inbox'[i]) => inbox'[i].n \in 1..load',
         Numbered(inbox', Range(taken) \cup Numbers(Whole)),
         waiter' # "none" => pc'[Reader] = "wait", waiter' = "eof" => queue = <<>>
  PROVE  StreamInv' /\ Whole' = Whole
<1>1. parts' = parts /\ queue' = queue /\ taken' = taken /\ Whole' = Whole
  BY DEF Whole
<1>2. 1..load \subseteq 1..load'
  OBVIOUS
<1>3. Flow(p', Whole)
  BY FlowCalm DEF StreamInv
<1>4. taken \in Seq(1..load') /\ Numbers(Whole) \subseteq 1..load'
  <2>1. taken \in Seq(1..load)
    BY DEF StreamInv
  <2>2. taken \in Seq(1..load')
    BY <1>2, <2>1
  <2> QED
    BY <1>2, <2>2 DEF StreamInv
<1> QED
  BY <1>1, <1>3, <1>4 DEF StreamInv

\* A frame that ends a message is in the queue, not among the fetched ones.
LEMMA FirstFin ==
  ASSUME QueueInv, NEW i \in Fins(queue), \A j \in Fins(queue) : i <= j
  PROVE  /\ Len(parts) + i \in Fins(Whole) /\ \A j \in Fins(Whole) : Len(parts) + i <= j
         /\ SubSeq(Whole, Len(parts) + i + 1, Len(Whole)) = SubSeq(queue, i + 1, Len(queue))
<1> DEFINE m == Len(parts)
<1> DEFINE n == Len(queue)
<1>1. /\ parts \in Seq(QueueFrames) /\ queue \in Seq(QueueFrames) /\ m \in Nat /\ n \in Nat /\ i \in 1..n
      /\ DOMAIN parts = 1..m /\ DOMAIN queue = 1..n /\ \A k \in 1..m : ~parts[k].fin
  BY DEF QueueInv, Fins
<1>2. /\ Whole \in Seq(QueueFrames) /\ Len(Whole) = m + n /\ DOMAIN Whole = 1..(m + n)
      /\ (\A k \in 1..m : Whole[k] = parts[k]) /\ \A k \in 1..n : Whole[m + k] = queue[k]
  BY <1>1 DEF Whole
<1> HIDE DEF m, n
<1>3. m + i \in Fins(Whole)
  BY <1>1, <1>2 DEF Fins
<1>4. ASSUME NEW j \in Fins(Whole) PROVE m + i <= j
  <2>1. j \in 1..(m + n) /\ Whole[j].fin
    BY <1>2 DEF Fins
  <2>2. ~(j \in 1..m)
    BY <1>1, <1>2, <2>1
  <2>3. j - m \in 1..n /\ j = m + (j - m)
    BY <1>1, <2>1, <2>2
  <2>4. j - m \in Fins(queue)
    BY <1>1, <1>2, <2>1, <2>3 DEF Fins
  <2> QED
    BY <1>1, <2>3, <2>4
<1>5. SubSeq(Whole, m + i + 1, m + n) = SubSeq(queue, i + 1, n)
  <2> DEFINE a == SubSeq(Whole, m + i + 1, m + n)
  <2> DEFINE b == SubSeq(queue, i + 1, n)
  <2>1. \A k \in (m + i + 1)..(m + n) : Whole[k] \in QueueFrames
    BY <1>1, <1>2
  <2>2. \A k \in (i + 1)..n : queue[k] \in QueueFrames
    BY <1>1
  <2>3. m + i + 1 \in Int /\ m + n \in Int /\ i + 1 \in Int /\ n \in Int
    BY <1>1
  <2>4. /\ a \in Seq(QueueFrames) /\ Len(a) = IF m + i + 1 <= m + n THEN (m + n) - (m + i + 1) + 1 ELSE 0
        /\ \A k \in 1..((m + n) - (m + i + 1) + 1) : a[k] = Whole[(m + i + 1) + k - 1]
    BY <2>1, <2>3, SubSeqProperties
  <2>5. /\ b \in Seq(QueueFrames) /\ Len(b) = IF i + 1 <= n THEN n - (i + 1) + 1 ELSE 0
        /\ \A k \in 1..(n - (i + 1) + 1) : b[k] = queue[(i + 1) + k - 1]
    BY <2>2, <2>3, SubSeqProperties
  <2> HIDE DEF a, b
  <2>6. Len(a) = n - i /\ Len(b) = n - i /\ (m + n) - (m + i + 1) + 1 = n - i /\ n - (i + 1) + 1 = n - i
    BY <1>1, <2>4, <2>5
  <2>7. ASSUME NEW k \in 1..Len(a) PROVE a[k] = b[k]
    <3>1. (m + i + 1) + k - 1 = m + (k + i) /\ (i + 1) + k - 1 = k + i /\ k + i \in 1..n
      BY <1>1, <2>6
    <3> QED
      BY <1>2, <2>4, <2>5, <2>6, <3>1
  <2> QED
    BY <2>4, <2>5, <2>6, <2>7, SeqEqual DEF a, b
<1> QED
  BY <1>2, <1>3, <1>4, <1>5 DEF m, n

\* What get() does to the stream.
LEMMA FetchStream ==
  ASSUME SInv, Fetch, pc[Reader] \in {"idle", "assert", "wait"}, ~cancelled, Calm(p, p'),
         UNCHANGED <<cfg, lost, left, torn, inbox, cancelled>>,
         load' \in Nat, load <= load', load' <= MaxLoad
  PROVE  StreamInv' /\ [Stream!FallibleNext]_(Stream!fallibleVars)
<1>1. /\ Base /\ QueueInv /\ StreamInv /\ queue \in Seq(QueueFrames) /\ parts \in Seq(QueueFrames)
      /\ load \in Nat /\ \A i \in DOMAIN parts : ~parts[i].fin
  BY DEF SInv, IInv, QueueInv
<1>2. /\ Flow(p, Whole) /\ taken \in Seq(1..load) /\ Numbers(Whole) \subseteq 1..load
      /\ Numbered(inbox, Range(taken) \cup Numbers(Whole)) /\ \A x \in Range(taken), y \in Numbers(Whole) : x < y
  BY <1>1 DEF StreamInv
<1>3. pc'[Reader] = "wait" => queue' = <<>>
  BY <1>1, FetchKeeps
<1>4. pc \in [Tasks -> Places]
  BY <1>1 DEF Base, BaseTypes
<1>5. CASE parts = <<>> /\ queue # <<>> /\ ~queue[1].starts
  <2>1. /\ queue' = Tail(queue) /\ waiter' = "none" /\ parts' = parts /\ taken' = taken /\ p' = p
        /\ pc' = [pc EXCEPT ![Reader] = "assert"]
    BY <1>5 DEF Fetch
  <2> DEFINE head == <<queue[1]>>
  <2> DEFINE rest == Tail(queue)
  <2>2. /\ Len(queue) \in Nat /\ Len(queue) >= 1 /\ queue[1] \in QueueFrames
        /\ head \in Seq(QueueFrames) /\ rest \in Seq(QueueFrames) /\ Len(head) = 1 /\ head[1] = queue[1]
        /\ Len(rest) = Len(queue) - 1 /\ \A k \in 1..(Len(queue) - 1) : rest[k] = queue[k + 1]
    BY <1>1, <1>5
  <2>3. queue = head \o rest
    <3> DEFINE l == head \o rest
    <3>1. l \in Seq(QueueFrames) /\ Len(l) = 1 + (Len(queue) - 1) /\ l[1] = queue[1]
          /\ \A k \in 1..(Len(queue) - 1) : l[1 + k] = rest[k]
      BY <2>2
    <3> HIDE DEF l, head, rest
    <3>2. ASSUME NEW k \in 1..Len(queue) PROVE l[k] = queue[k]
      <4>1. CASE k = 1
        BY <3>1, <4>1
      <4>2. CASE k # 1
        <5>1. k - 1 \in 1..(Len(queue) - 1) /\ 1 + (k - 1) = k /\ (k - 1) + 1 = k
          BY <2>2, <4>2
        <5> QED
          BY <2>2, <3>1, <5>1
      <4> QED
        BY <4>1, <4>2
    <3>3. Len(l) = Len(queue)
      BY <2>2, <3>1
    <3>4. l = queue
      BY <1>1, <3>1, <3>2, <3>3, SeqEqual
    <3> QED
      BY <3>4 DEF l
  <2>4. Whole = queue /\ Whole' = rest
    BY <1>1, <1>5, <2>1, <2>2 DEF Whole
  <2>5. {head[k].n : k \in {m \in DOMAIN head : head[m].starts}} = {}
    <3>1. \A m \in DOMAIN head : m = 1
      BY <2>2
    <3> QED
      BY <1>5, <2>2, <3>1
  <2> HIDE DEF head, rest
  <2>6. Flow(p, rest)
    BY <1>2, <2>2, <2>3, <2>4, FlowRest
  <2>7. Numbers(rest) \subseteq Numbers(Whole) /\ Messages(rest) = Messages(Whole)
    <3>1. /\ Numbers(rest) \subseteq Numbers(head \o rest) /\ Messages(rest) \subseteq Messages(head \o rest)
          /\ Messages(head \o rest)
               \subseteq {head[k].n : k \in {m \in DOMAIN head : head[m].starts}} \cup Messages(rest)
      BY <2>2, RestMessages
    <3>2. Messages(head \o rest) \subseteq Messages(rest)
      BY ONLY <2>5, <3>1
    <3> QED
      BY ONLY <2>3, <2>4, <3>1, <3>2
  <2>8. pc'[Reader] = "assert"
    BY <1>4, <2>1, TasksDiffer
  <2>9. taken' \in Seq(1..load') /\ Numbers(Whole') \subseteq 1..load'
    <3>1. 1..load \subseteq 1..load' /\ taken \in Seq(1..load')
      BY <1>1, <1>2, SeqGrows
    <3> QED
      BY <1>2, <2>1, <2>4, <2>7, <3>1
  <2>10. Numbered(inbox, Range(taken') \cup Numbers(Whole')) /\ \A x \in Range(taken'), y \in Numbers(Whole') : x < y
    BY <1>2, <2>1, <2>4, <2>7 DEF Numbered
  <2>11. StreamInv'
    <3>1. /\ inbox' = inbox /\ 1..load \subseteq 1..load' /\ waiter' = "none" /\ parts' = <<>>
          /\ \A k \in DOMAIN inbox : IsData(inbox[k]) => inbox[k].n \in 1..load
      BY <1>1, <1>5, <2>1 DEF StreamInv
    <3>2. \A k \in DOMAIN inbox' : IsData(inbox'[k]) => inbox'[k].n \in 1..load'
      BY <3>1
    <3>3. Flow(p', Whole')
      BY <2>1, <2>4, <2>6
    <3> QED
      BY <2>9, <2>10, <3>1, <3>2, <3>3 DEF StreamInv
  <2>12. Arrived' = Arrived /\ taken' = taken /\ lost' = lost
    BY <2>1, <2>4, <2>7 DEF Arrived, Whole
  <2>13. CASE pc[Reader] = "assert"
    BY <2>8, <2>11, <2>12, <2>13 DEF Stream!fallibleVars
  <2>14. CASE pc[Reader] # "assert"
    BY <2>8, <2>11, <2>12, <2>14 DEF Stream!FallibleNext, Stream!Fail
  <2> QED
    BY <2>11, <2>13, <2>14
<1>6. CASE ~(parts = <<>> /\ queue # <<>> /\ ~queue[1].starts) /\ Fins(queue) # {}
  <2>1. PICK i \in Fins(queue) :
          /\ \A j \in Fins(queue) : i <= j
          /\ queue' = SubSeq(queue, i + 1, Len(queue)) /\ parts' = <<>> /\ waiter' = "none"
          /\ taken' = Append(taken, (parts \o queue)[1].n)
    BY <1>6 DEF Fetch
  <2>2. pc'[Reader] # "assert"
    <3>1. PICK k \in Fins(queue) : IF queue[k].utf8 THEN pc' = [pc EXCEPT ![Reader] = "idle"]
                                   ELSE Context(Reader, Fail(p, 1007), "fail", sip)
      BY <1>6 DEF Fetch
    <3>2. Context(Reader, Fail(p, 1007), "fail", sip) => pc'[Reader] # "assert"
      BY <1>1, TasksDiffer, FailKeeps DEF Base, BaseTypes
    <3> QED
      BY <1>4, <3>1, <3>2, TasksDiffer
  <2> DEFINE w == Whole[1].n
  <2> DEFINE rest == SubSeq(Whole, Len(parts) + i + 1, Len(Whole))
  <2>3. /\ Len(parts) + i \in Fins(Whole) /\ \A j \in Fins(Whole) : Len(parts) + i <= j
        /\ rest = SubSeq(queue, i + 1, Len(queue))
    BY <1>1, <2>1, FirstFin
  <2>4. /\ Flow(p, rest) /\ Numbers(rest) \subseteq Numbers(Whole) /\ Messages(Whole) = {w} \cup Messages(rest)
        /\ w \in Numbers(Whole) /\ \A x \in Numbers(rest) : w < x
    <3>1. Whole # <<>> /\ Whole[1].starts
      <4>1. CASE parts = <<>>
        <5>1. queue # <<>> /\ Whole = queue
          BY <1>1, <1>6, <4>1 DEF Whole, Fins
        <5> QED
          BY <1>6, <4>1, <5>1
      <4>2. CASE parts # <<>>
        BY <1>1, <4>2 DEF Whole, StreamInv
      <4> QED
        BY <4>1, <4>2
    <3>2. Line(p, Whole)
      BY <1>2, <3>1, FlowLine
    <3> QED
      BY <2>3, <3>2, TakeKeeps, FlowLine
  <2>5. taken' = Append(taken, w)
    BY <2>1 DEF Whole
  <2>6. Whole' = rest
    <3>1. rest \in Seq(QueueFrames)
      BY <2>4 DEF Flow
    <3>2. <<>> \o rest = rest
      BY <3>1
    <3>3. parts' = <<>> /\ queue' = rest
      BY <2>1, <2>3
    <3> HIDE DEF rest
    <3> QED
      BY <3>2, <3>3 DEF Whole
  <2> HIDE DEF rest, w
  <2>7. w \in 1..load /\ taken' \in Seq(1..load) /\ Range(taken') = Range(taken) \cup {w}
    <3>1. w \in 1..load
      BY <1>2, <2>4
    <3>2. taken' \in Seq(1..load) /\ DOMAIN taken' = 1..(Len(taken) + 1) /\ DOMAIN taken = 1..Len(taken)
          /\ Len(taken) \in Nat /\ taken'[Len(taken) + 1] = w /\ \A k \in 1..Len(taken) : taken'[k] = taken[k]
      BY <1>2, <2>5, <3>1
    <3> QED
      BY <3>1, <3>2 DEF Range
  <2>8. Flow(p', Whole')
    BY <2>4, <2>6, FlowCalm
  <2>9. taken' \in Seq(1..load') /\ Numbers(Whole') \subseteq 1..load'
    <3>1. 1..load \subseteq 1..load' /\ taken' \in Seq(1..load')
      BY <1>1, <2>7, SeqGrows
    <3> QED
      BY <1>2, <2>4, <2>6, <3>1
  <2>10. Numbered(inbox, Range(taken') \cup Numbers(Whole'))
    <3>1. Range(taken') \cup Numbers(Whole') \subseteq Range(taken) \cup Numbers(Whole)
      BY <2>4, <2>6, <2>7
    <3> QED
      BY <1>2, <3>1 DEF Numbered
  <2>11. \A x \in Range(taken'), y \in Numbers(Whole') : x < y
    BY <1>2, <2>4, <2>6, <2>7
  <2>12. StreamInv'
    <3>1. /\ inbox' = inbox /\ 1..load \subseteq 1..load' /\ waiter' = "none" /\ parts' = <<>>
          /\ \A k \in DOMAIN inbox : IsData(inbox[k]) => inbox[k].n \in 1..load
      BY <1>1, <2>1 DEF StreamInv
    <3>2. \A k \in DOMAIN inbox' : IsData(inbox'[k]) => inbox'[k].n \in 1..load'
      BY <3>1
    <3> QED
      BY <2>8, <2>9, <2>10, <2>11, <3>1, <3>2 DEF StreamInv
  <2>13. Stream!Take
    <3>1. Arrived' = Arrived /\ lost' = lost
      BY <2>4, <2>6, <2>7 DEF Arrived, Whole
    <3>2. w \in Arrived /\ \A k \in DOMAIN taken : w # taken[k]
      <4>1. ASSUME NEW k \in DOMAIN taken PROVE w # taken[k]
        <5>1. taken[k] \in Range(taken)
          BY DEF Range
        <5> QED
          BY <1>2, <2>4, <2>7, <5>1
      <4> QED
        BY <2>4, <4>1 DEF Arrived, Whole
    <3>3. ASSUME NEW m \in Stream!Waiting PROVE w <= m
      <4>1. m \in Messages(Whole)
        BY DEF Stream!Waiting, Arrived, Whole, Range
      <4>2. m = w \/ m \in Numbers(rest)
        BY <2>4, <4>1, MessagesAreNumbers
      <4> QED
        BY <1>2, <2>4, <2>7, <4>2
    <3>4. w \in Stream!Waiting
      BY <3>2 DEF Stream!Waiting
    <3> QED
      BY <2>5, <3>1, <3>3, <3>4 DEF Stream!Take
  <2> QED
    BY <2>2, <2>12, <2>13 DEF Stream!FallibleNext
<1>7. CASE ~(parts = <<>> /\ queue # <<>> /\ ~queue[1].starts) /\ Fins(queue) = {}
  <2>1. /\ queue' = <<>> /\ taken' = taken /\ parts' = (IF lost THEN <<>> ELSE parts \o queue)
        /\ waiter' = (IF lost THEN "none" ELSE "pending") /\ pc' = [pc EXCEPT ![Reader] = IF lost THEN "closed" ELSE "wait"]
        /\ p' = p
    BY <1>7 DEF Fetch
  <2>2. pc'[Reader] = IF lost THEN "closed" ELSE "wait"
    BY <1>4, <2>1, TasksDiffer
  <2>3. Fins(Whole) = {}
    BY <1>1, <1>7 DEF Fins, Whole
  <2>4. Whole' = (IF lost THEN <<>> ELSE Whole)
    <3>1. <<>> \o <<>> = <<>> /\ Whole \o <<>> = Whole
      BY <1>1 DEF Whole
    <3> QED
      BY <2>1, <3>1 DEF Whole
  <2>5. Messages(<<>>) = {} /\ Messages(Whole) = {} /\ Numbers(<<>>) = {}
    BY <2>3, MessagesAreNumbers DEF Numbers
  <2>6. Flow(p', Whole')
    <3>1. CASE lost
      <4>1. p.parser = "discard"
        BY <1>1, <3>1 DEF Base, BaseTypes, Ends, Running
      <4> QED
        BY <2>1, <2>4, <3>1, <4>1 DEF Flow
    <3>2. CASE ~lost
      BY <1>2, <2>1, <2>4, <3>2
    <3> QED
      BY <3>1, <3>2
  <2>7. Numbers(Whole') \subseteq Numbers(Whole) /\ Range(taken') = Range(taken) /\ Messages(Whole') = Messages(Whole)
    BY <2>1, <2>4, <2>5
  <2>8. taken' \in Seq(1..load') /\ Numbers(Whole') \subseteq 1..load'
    <3>1. 1..load \subseteq 1..load'
      BY <1>1
    <3>2. taken \in Seq(1..load')
      BY <1>1, <1>2, SeqGrows
    <3> QED
      BY <1>2, <2>1, <2>7, <3>1, <3>2
  <2>9. Numbered(inbox, Range(taken') \cup Numbers(Whole')) /\ \A x \in Range(taken'), y \in Numbers(Whole') : x < y
    BY <1>2, <2>7 DEF Numbered
  <2>12. parts' # <<>> => parts'[1].starts
    <3> SUFFICES ASSUME parts' # <<>> PROVE parts'[1].starts
      OBVIOUS
    <3>1. parts' = Whole
      BY <2>1 DEF Whole
    <3>2. CASE parts = <<>>
      <4>1. Whole = queue
        BY <1>1, <3>2 DEF Whole
      <4> QED
        BY <1>7, <3>1, <3>2, <4>1
    <3>3. CASE parts # <<>>
      BY <1>1, <3>1, <3>3 DEF Whole, StreamInv
    <3> QED
      BY <3>2, <3>3
  <2>10. StreamInv'
    <3>1. /\ inbox' = inbox /\ 1..load \subseteq 1..load' /\ waiter' \in {"none", "pending"}
          /\ (waiter' # "none" => pc'[Reader] = "wait")
          /\ \A k \in DOMAIN inbox : IsData(inbox[k]) => inbox[k].n \in 1..load
      BY <1>1, <2>1, <2>2 DEF StreamInv
    <3>2. \A k \in DOMAIN inbox' : IsData(inbox'[k]) => inbox'[k].n \in 1..load'
      BY <3>1
    <3> QED
      BY <2>6, <2>8, <2>9, <2>12, <3>1, <3>2 DEF StreamInv
  <2>11. Arrived' = Arrived /\ taken' = taken /\ lost' = lost /\ pc'[Reader] # "assert"
    BY <2>1, <2>2, <2>7 DEF Arrived, Whole
  <2>13. CASE pc[Reader] = "assert"
    BY <2>10, <2>11, <2>13 DEF Stream!FallibleNext, Stream!Retry
  <2>14. CASE pc[Reader] # "assert"
    BY <2>10, <2>11, <2>14 DEF Stream!fallibleVars
  <2> QED
    BY <2>10, <2>13, <2>14
<1> QED
  BY <1>5, <1>6, <1>7

\* What the peer and the network do to the stream.
LEMMA ArrivalsStream ==
  ASSUME SInv, NEW n \in Nat, DataReceived(n)
  PROVE  StreamInv' /\ [Stream!FallibleNext]_(Stream!fallibleVars)
<1> DEFINE items == SubSeq(inbox, 1, n)
<1> DEFINE r == Fed(p, items)
<1> DEFINE t == Range(taken) \cup Numbers(Whole)
<1>1. /\ Base /\ QueueInv /\ StreamInv /\ queue \in Seq(QueueFrames) /\ parts \in Seq(QueueFrames)
      /\ load \in Nat /\ inbox \in Seq(PeerItems) /\ Running(p)
  BY DEF SInv, IInv, QueueInv, Base, BaseTypes
<1>2. /\ Flow(p, Whole) /\ taken \in Seq(1..load) /\ Numbers(Whole) \subseteq 1..load
      /\ Numbered(inbox, t) /\ (\A x \in Range(taken), y \in Numbers(Whole) : x < y)
      /\ \A i \in DOMAIN inbox : IsData(inbox[i]) => inbox[i].n \in 1..load
  BY <1>1 DEF StreamInv
<1>3. /\ transport = "open" /\ n <= Len(inbox) /\ SendOut(r.p) /\ queue' = queue \o r.data
      /\ waiter' = Notified(r.data) /\ inbox' = SubSeq(inbox, n + 1, Len(inbox))
      /\ parts' = parts /\ cfg' = cfg /\ lost' = lost /\ load' = load /\ pc' = pc /\ taken' = taken
  BY DEF DataReceived
<1>4. ~lost
  BY <1>1, <1>3 DEF Base, BaseTypes, Ends
<1>5. /\ items \in Seq(PeerItems) /\ Len(items) = n /\ \A i \in 1..n : items[i] = inbox[i]
      /\ inbox' \in Seq(PeerItems) /\ Len(inbox') = Len(inbox) - n
      /\ \A i \in 1..(Len(inbox) - n) : inbox'[i] = inbox[i + n]
  <2> DEFINE m == Len(inbox)
  <2>1. m \in Nat /\ n <= m /\ DOMAIN inbox = 1..m /\ \A i \in 1..m : inbox[i] \in PeerItems
    BY <1>1, <1>3
  <2>2. /\ \A i \in 1..n : inbox[i] \in PeerItems
        /\ \A i \in (n + 1)..m : inbox[i] \in PeerItems
        /\ 1 \in Int /\ n \in Int /\ n + 1 \in Int /\ m \in Int
    BY <2>1
  <2>3. /\ SubSeq(inbox, 1, n) \in Seq(PeerItems) /\ Len(SubSeq(inbox, 1, n)) = IF 1 <= n THEN n - 1 + 1 ELSE 0
        /\ \A i \in 1..(n - 1 + 1) : SubSeq(inbox, 1, n)[i] = inbox[1 + i - 1]
    BY <2>2, SubSeqProperties
  <2>4. /\ SubSeq(inbox, n + 1, m) \in Seq(PeerItems)
        /\ Len(SubSeq(inbox, n + 1, m)) = IF n + 1 <= m THEN m - (n + 1) + 1 ELSE 0
        /\ \A i \in 1..(m - (n + 1) + 1) : SubSeq(inbox, n + 1, m)[i] = inbox[(n + 1) + i - 1]
    BY <2>2, SubSeqProperties
  <2>5. inbox' = SubSeq(inbox, n + 1, m)
    BY <1>3
  <2> HIDE DEF items, m
  <2>6. items \in Seq(PeerItems) /\ Len(items) = n /\ \A i \in 1..n : items[i] = inbox[i]
    <3>1. items = SubSeq(inbox, 1, n)
      BY DEF items
    <3>2. n - 1 + 1 = n /\ \A i \in 1..n : 1 + i - 1 = i
      BY <2>1
    <3> QED
      BY <2>1, <2>3, <3>1, <3>2
  <2>7. inbox' \in Seq(PeerItems) /\ Len(inbox') = m - n /\ \A i \in 1..(m - n) : inbox'[i] = inbox[i + n]
    <3>1. m - (n + 1) + 1 = m - n /\ \A i \in 1..(m - n) : (n + 1) + i - 1 = i + n
      BY <2>1
    <3> QED
      BY <2>1, <2>4, <2>5, <3>1
  <2> QED
    BY <2>6, <2>7 DEF m
<1> DEFINE m == Len(inbox)
<1>6. /\ m \in Nat /\ n <= m /\ DOMAIN inbox = 1..m /\ DOMAIN items = 1..n /\ DOMAIN inbox' = 1..(m - n)
      /\ (\A i \in 1..n : items[i] = inbox[i]) /\ \A i \in 1..(m - n) : inbox'[i] = inbox[i + n]
  BY <1>1, <1>3, <1>5, SMTT(60)
<1>7. t \in SUBSET Nat /\ \A x \in Numbers(Whole) : x \in t
  BY <1>1, <1>2 DEF Range
<1> HIDE DEF items, t, m
<1>8. Numbered(items, t)
  <2>1. \A i \in DOMAIN items : i \in DOMAIN inbox /\ items[i] = inbox[i]
    BY <1>6
  <2> QED
    BY <1>2, <2>1 DEF Numbered
<1>9. /\ Flow(r.p, Whole \o r.data)
      /\ \A i \in DOMAIN r.data : \E j \in DOMAIN items : IsData(items[j]) /\ r.data[i].n = items[j].n
  <2>1. items \in Seq(PeerItems) /\ Running(p) /\ Flow(p, Whole)
    BY <1>1, <1>2, <1>5
  <2>2. t \in SUBSET Nat /\ Numbered(items, t) /\ \A x \in Numbers(Whole) : x \in t /\ 0 < x
    BY <1>1, <1>2, <1>7, <1>8
  <2>4. \A i \in DOMAIN items : IsData(items[i]) => 0 < items[i].n
    <3>1. \A i \in DOMAIN items : i \in DOMAIN inbox /\ items[i] = inbox[i]
      BY <1>6
    <3>2. \A k \in 1..load : 0 < k
      BY <1>1
    <3> QED
      BY <1>2, <3>1, <3>2
  <2> HIDE DEF r
  <2>3. LET z == Fed(p, items)
        IN  /\ Flow(z.p, Whole \o z.data)
            /\ \A i \in DOMAIN z.data : \E j \in DOMAIN items : IsData(items[j]) /\ z.data[i].n = items[j].n
    BY ONLY <2>1, <2>2, <2>4, FlowFed
  <2> QED
    BY <2>3 DEF r
<1>10. Running(r.p) /\ r.data \in Seq(QueueFrames)
  BY <1>1, <1>5, FedKeeps DEF Fine
<1> DEFINE data == r.data
<1> HIDE DEF r
<1>11. Whole' = Whole \o data /\ Whole \in Seq(QueueFrames) /\ data \in Seq(QueueFrames)
  <2>1. parts \in Seq(QueueFrames) /\ queue \in Seq(QueueFrames) /\ data \in Seq(QueueFrames)
    BY <1>1, <1>10
  <2> HIDE DEF data
  <2>2. (parts \o queue) \o data = parts \o (queue \o data)
    <3>1. \A a, b, c \in Seq(QueueFrames) : a \o (b \o c) = (a \o b) \o c
      BY ONLY Associates
    <3> QED
      BY ONLY <2>1, <3>1
  <2>3. Whole = parts \o queue /\ Whole' = parts' \o queue'
    BY ONLY DEF Whole
  <2>4. parts' = parts /\ queue' = queue \o data
    BY <1>3 DEF data
  <2>5. Whole \in Seq(QueueFrames)
    BY ONLY <2>1, <2>3
  <2> QED
    BY ONLY <2>1, <2>2, <2>3, <2>4, <2>5
<1>12. Flow(p', Whole')
  <2>1. Alike(r.p, p')
    BY <1>3, <1>10, WrittenIs DEF SendOut
  <2> QED
    BY <1>9, <1>11, <2>1, CalmAlike, FlowCalm
<1>13. Numbers(Whole') = Numbers(Whole) \cup Numbers(data)
  <2> DEFINE w == Len(Whole)
  <2> DEFINE k == Len(data)
  <2> DEFINE l == Whole \o data
  <2>1. /\ w \in Nat /\ k \in Nat /\ DOMAIN Whole = 1..w /\ DOMAIN data = 1..k /\ DOMAIN l = 1..(w + k)
        /\ (\A i \in 1..w : l[i] = Whole[i]) /\ \A i \in 1..k : l[w + i] = data[i]
    BY <1>11
  <2>2. Whole' = l
    BY <1>11
  <2> HIDE DEF w, k, l, data
  <2>3. ASSUME NEW i \in 1..(w + k) PROVE l[i].n \in Numbers(Whole) \cup Numbers(data)
    <3>1. CASE i <= w
      <4>1. i \in DOMAIN Whole /\ l[i] = Whole[i]
        BY ONLY <2>1, <2>3, <3>1
      <4>2. Whole[i].n \in Numbers(Whole)
        BY ONLY <4>1 DEF Numbers
      <4> QED
        BY ONLY <4>1, <4>2
    <3>2. CASE ~(i <= w)
      <4>1. i - w \in 1..k /\ l[i] = data[i - w]
        <5>1. i - w \in 1..k /\ w + (i - w) = i
          BY <2>1, <3>2
        <5> QED
          BY <2>1, <5>1
      <4> QED
        BY <2>1, <4>1 DEF Numbers
    <3> QED
      BY <3>1, <3>2
  <2>4. \A i \in 1..w : i \in DOMAIN l /\ l[i] = Whole[i]
    BY <2>1
  <2>5. \A i \in 1..k : w + i \in DOMAIN l /\ l[w + i] = data[i]
    BY <2>1
  <2>6. Numbers(l) \subseteq Numbers(Whole) \cup Numbers(data)
    BY <2>1, <2>3 DEF Numbers
  <2>7. Numbers(Whole) \subseteq Numbers(l)
    BY <2>1, <2>4 DEF Numbers
  <2>8. Numbers(data) \subseteq Numbers(l)
    BY <2>1, <2>5 DEF Numbers
  <2> QED
    BY <2>2, <2>6, <2>7, <2>8
<1>14. ASSUME NEW y \in Numbers(data)
       PROVE  /\ y \in 1..load /\ \A x \in t : x < y
              /\ \A i \in DOMAIN inbox' : IsData(inbox'[i]) => y < inbox'[i].n
  <2>1. PICK j \in DOMAIN items : IsData(items[j]) /\ y = items[j].n
    BY <1>9 DEF Numbers
  <2>2. j \in 1..n /\ j \in DOMAIN inbox /\ items[j] = inbox[j]
    BY <1>6
  <2>3. y \in 1..load /\ \A x \in t : x < y
    BY <1>2, <2>1, <2>2 DEF Numbered
  <2>4. ASSUME NEW i \in DOMAIN inbox', IsData(inbox'[i]) PROVE y < inbox'[i].n
    <3>1. i + n \in DOMAIN inbox /\ inbox'[i] = inbox[i + n] /\ j < i + n
      BY <1>6, <2>2
    <3> QED
      BY <1>2, <2>1, <2>2, <2>4, <3>1 DEF Numbered
  <2> QED
    BY <2>3, <2>4
<1>15. Range(taken') = Range(taken) /\ Numbers(Whole') \subseteq 1..load
       /\ \A x \in Range(taken), y \in Numbers(Whole') : x < y
  BY <1>2, <1>3, <1>13, <1>14 DEF t
<1>16. ASSUME NEW i \in DOMAIN inbox', IsData(inbox'[i])
       PROVE  inbox'[i].n \in 1..load /\ \A x \in Range(taken) \cup Numbers(Whole') : x < inbox'[i].n
  <2>1. i + n \in DOMAIN inbox /\ inbox'[i] = inbox[i + n]
    BY <1>6
  <2>2. inbox'[i].n \in 1..load /\ \A x \in t : x < inbox'[i].n
    BY <1>2, <1>16, <2>1 DEF Numbered
  <2> QED
    BY <1>13, <1>14, <1>16, <2>2 DEF t
<1>17. Numbered(inbox', Range(taken') \cup Numbers(Whole'))
  <2>1. ASSUME NEW i \in DOMAIN inbox', NEW j \in DOMAIN inbox', i < j, IsData(inbox'[i]), IsData(inbox'[j])
        PROVE  inbox'[i].n < inbox'[j].n
    <3>1. i + n \in DOMAIN inbox /\ inbox'[i] = inbox[i + n] /\ j + n \in DOMAIN inbox /\ inbox'[j] = inbox[j + n]
          /\ i + n < j + n
      BY <1>6, <2>1
    <3> QED
      BY <1>2, <2>1, <3>1 DEF Numbered
  <2> QED
    BY <1>15, <1>16, <2>1 DEF Numbered
<1>18. waiter' \in {waiter, "set"} /\ (waiter' = "eof" => waiter = "eof") /\ (waiter' # "none" => waiter # "none")
  BY <1>3 DEF Notified
<1>19. StreamInv'
  <2>1. ~(waiter' = "eof")
    BY <1>1, <1>4, <1>18 DEF QueueInv
  <2>2. /\ waiter' # "none" => pc'[Reader] = "wait"
        /\ load <= MaxLoad
    BY <1>1, <1>3, <1>18 DEF StreamInv
  <2>3. taken' \in Seq(1..load') /\ Numbers(Whole') \subseteq 1..load' /\ load' <= MaxLoad
    BY <1>2, <1>3, <1>15, <2>2
  <2>4. parts' # <<>> => parts'[1].starts
    BY <1>1, <1>3 DEF StreamInv
  <2>5. \A i \in DOMAIN inbox' : IsData(inbox'[i]) => inbox'[i].n \in 1..load'
    BY <1>3, <1>16
  <2> QED
    BY <1>12, <1>15, <1>17, <2>1, <2>2, <2>3, <2>4, <2>5 DEF StreamInv
<1>20. [Stream!FallibleNext]_(Stream!fallibleVars)
  <2>1. /\ Messages(Whole) \subseteq Messages(Whole')
        /\ \A a \in Messages(Whole), b \in Messages(Whole') \ Messages(Whole) : a < b
    <3>1. \A i, j \in DOMAIN (Whole \o data) : i < j => (Whole \o data)[i].n < (Whole \o data)[j].n
      BY <1>9 DEF Flow
    <3> HIDE DEF data
    <3> QED
      BY <1>11, <3>1, MessagesRise
  <2>2. Messages(Whole') \subseteq Numbers(Whole')
    BY MessagesAreNumbers
  <2>3. Arrived = Range(taken) \cup Messages(Whole) /\ Arrived' = Range(taken) \cup Messages(Whole')
    BY <1>15 DEF Arrived, Whole
  <2>4. Arrived' \in SUBSET (1..MaxLoad) /\ Arrived \subseteq Arrived'
    <3>1. Range(taken) \subseteq 1..load /\ 1..load \subseteq 1..MaxLoad
      BY <1>1, <1>2, ScenarioAssumption DEF Range, StreamInv
    <3> QED
      BY <1>15, <2>1, <2>2, <2>3, <3>1
  <2>5. ASSUME NEW b \in Arrived, NEW k \in Arrived' \ Arrived PROVE b < k
    <3>1. k \in Messages(Whole') \ Messages(Whole) /\ k \in Numbers(Whole')
      BY <2>2, <2>3
    <3> QED
      BY <1>15, <2>1, <2>3, <3>1
  <2>6. CASE Arrived = Arrived'
    BY <1>3, <2>6 DEF Stream!fallibleVars
  <2>7. CASE Arrived # Arrived'
    BY <1>3, <1>4, <2>4, <2>5, <2>7 DEF Stream!FallibleNext, Stream!Arrive
  <2> QED
    BY <2>6, <2>7
<1> QED
  BY <1>19, <1>20

\* A step that touches neither the stream nor the getter.
LEMMA QuietStream ==
  ASSUME SInv, Calm(p, p'), UNCHANGED <<inbox, lost, parts, queue, taken, waiter, cancelled>>,
         load' = load \/ (load' = load + 1 /\ load + 1 <= MaxLoad),
         waiter # "none" => pc'[Reader] = "wait", pc'[Reader] = "assert" <=> pc[Reader] = "assert"
  PROVE  StreamInv' /\ [Stream!FallibleNext]_(Stream!fallibleVars)
<1>1. StreamInv /\ load \in Nat /\ load <= MaxLoad
  BY DEF SInv, IInv, QueueInv, StreamInv
<1>2. /\ inbox' = inbox /\ queue' = queue /\ parts' = parts /\ taken' = taken /\ waiter' = waiter
      /\ (cancelled' <=> cancelled) /\ lost' = lost
  OBVIOUS
<1>3. load' \in Nat /\ load <= load' /\ load' <= MaxLoad
  BY <1>1
<1>4. Numbered(inbox', Range(taken) \cup Numbers(Whole))
  BY <1>1, <1>2 DEF StreamInv
<1>5. \A i \in DOMAIN inbox' : IsData(inbox'[i]) => inbox'[i].n \in 1..load'
  <2>1. \A i \in DOMAIN inbox : IsData(inbox[i]) => inbox[i].n \in 1..load
    BY <1>1 DEF StreamInv
  <2> QED
    BY <1>1, <1>2, <1>3, <2>1
<1>6. /\ waiter' # "none" => pc'[Reader] = "wait"
      /\ waiter' = "eof" => queue = <<>>
  BY <1>1, <1>2 DEF StreamInv
<1>7. StreamInv'
  BY <1>1, <1>2, <1>3, <1>4, <1>5, <1>6, StreamSame
<1>8. UNCHANGED Stream!fallibleVars
  BY <1>2 DEF Stream!fallibleVars, Arrived
<1> QED
  BY <1>7, <1>8

\* The environment does a thing within its load.
LEMMA AsksIs ==
  ASSUME BaseTypes, load \in Nat, Asks
  PROVE  load' = load + 1 /\ load + 1 <= MaxLoad
<1>1. cfg.load \in Nat /\ cfg.load <= MaxLoad /\ MaxLoad \in Nat
  BY ScenarioAssumption DEF BaseTypes
<1> QED
  BY <1>1 DEF Asks

\* What the other tasks do to the stream: nothing.
LEMMA TasksStream ==
  ASSUME SInv, Calm(p, p'),
         \/ \E t \in Tasks : InCtx(t)
         \/ Keepalive \/ ResumeWriting \/ Broadcast
         \/ \E s \in Senders : SendCall(s) \/ Send(s) \/ SendFails(s) \/ SendCancel(s)
         \/ \E c \in Closers : CloseCall(c)
  PROVE  StreamInv' /\ [Stream!FallibleNext]_(Stream!fallibleVars)
<1>1. /\ Base /\ BaseTypes /\ load \in Nat /\ load <= MaxLoad
      /\ (waiter # "none" => pc[Reader] = "wait")
  BY DEF SInv, IInv, Base, QueueInv, StreamInv
<1> DEFINE Rest == UNCHANGED <<inbox, lost, parts, queue, taken, waiter, cancelled>>
<1> DEFINE Loaded == load' = load \/ (load' = load + 1 /\ load + 1 <= MaxLoad)
<1>2. Rest /\ Loaded /\ pc'[Reader] = pc[Reader] => StreamInv' /\ [Stream!FallibleNext]_(Stream!fallibleVars)
  BY <1>1, QuietStream
<1>3. ASSUME NEW t \in Tasks, InCtx(t) PROVE StreamInv' /\ [Stream!FallibleNext]_(Stream!fallibleVars)
  <2>1. Rest /\ Loaded
    BY <1>3 DEF InCtx, CtxYielded, CtxDrained, CtxClosed, CtxTimeout, CtxRest, queueVars
  <2>2. pc' = [pc EXCEPT ![t] = pc'[t]] /\ (t = Reader => pc'[Reader] \notin {"wait", "assert"})
    BY <1>1, <1>3, InCtxKeeps
  <2>3. CASE t = Reader
    <3>1. ctx[Reader].at \notin {"ok", "raise"}
      BY <1>3, <2>3 DEF InCtx, CtxYielded, CtxDrained, CtxClosed, CtxTimeout
    <3>2. pc[Reader] \notin {"wait", "assert"}
      BY <1>1, <3>1, TasksDiffer DEF Base, Contexts
    <3> QED
      BY <1>1, <2>1, <2>2, <2>3, <3>2, QuietStream
  <2>4. CASE t # Reader
    <3>1. pc'[Reader] = pc[Reader]
      BY <1>1, <2>2, <2>4, TasksDiffer DEF BaseTypes
    <3> QED
      BY <1>2, <2>1, <3>1
  <2> QED
    BY <2>3, <2>4
<1>4. CASE Keepalive
  <2>1. Rest /\ Loaded
    BY <1>4 DEF Keepalive, KeepPing, KeepPong, KeepTimeout, KeepRest, queueVars
  <2> QED
    BY <1>1, <1>2, <1>4, <2>1, KeeperKeeps
<1>5. CASE ResumeWriting
  <2>1. Rest /\ Loaded /\ pc'[Reader] = pc[Reader]
    BY <1>5 DEF ResumeWriting, queueVars
  <2> QED
    BY <1>2, <2>1
<1>6. CASE Broadcast
  <2>1. Rest /\ Asks /\ pc'[Reader] = pc[Reader]
    BY <1>6 DEF Broadcast, AppRest, queueVars, ctxVars
  <2> QED
    BY <1>1, <1>2, <2>1, AsksIs
<1>7. ASSUME NEW s \in Senders, SendCall(s) \/ Send(s) \/ SendFails(s) \/ SendCancel(s)
      PROVE  StreamInv' /\ [Stream!FallibleNext]_(Stream!fallibleVars)
  <2>1. Rest /\ (load' = load \/ Asks)
    BY <1>7 DEF SendCall, Send, SendTurn, SendFirst, SendNext, SendFails, SendCancel, AppRest, queueVars
  <2> QED
    BY <1>1, <1>2, <1>7, <2>1, SendersKeep, AsksIs
<1>8. ASSUME NEW c \in Closers, CloseCall(c) PROVE StreamInv' /\ [Stream!FallibleNext]_(Stream!fallibleVars)
  <2>1. Rest /\ Asks
    BY <1>8 DEF CloseCall, AppRest, queueVars
  <2> QED
    BY <1>1, <1>2, <1>8, <2>1, ClosersKeep, AsksIs
<1> QED
  BY <1>3, <1>4, <1>5, <1>6, <1>7, <1>8

\* What the peer and the network do to it, but for the frames that arrive.
LEMMA PeerStreams ==
  ASSUME SInv, Calm(p, p'),
         (\E op \in cfg.ops : PeerSends(op)) \/ EofReceived \/ (\E exc \in BOOLEAN : ConnectionLost(exc))
  PROVE  StreamInv' /\ [Stream!FallibleNext]_(Stream!fallibleVars)
<1>1. /\ Base /\ BaseTypes /\ QueueInv /\ StreamInv /\ load \in Nat /\ load <= MaxLoad
  BY DEF SInv, IInv, Base, QueueInv, StreamInv
<1>2. ASSUME NEW op \in cfg.ops, PeerSends(op) PROVE StreamInv' /\ [Stream!FallibleNext]_(Stream!fallibleVars)
  <2>1. /\ load' = load + 1 /\ load + 1 <= MaxLoad /\ op \in PeerOps
        /\ UNCHANGED <<lost, parts, queue, taken, waiter, cancelled, pc>>
    BY <1>1, <1>2, AsksIs, ScenarioAssumption DEF PeerSends, BaseTypes, ctxVars, queueVars
  <2>2. PICK item : /\ inbox' = Append(inbox, item) /\ item \in PeerItems
                    /\ IsData(item) => item.n = load + 1
    <3>1. CASE op = "pong"
      <4>1. PICK i \in DOMAIN pongs : inbox' = Append(inbox, Item(op, i))
        BY <1>2, <3>1 DEF PeerSends
      <4>2. i \in Nat
        BY <4>1 DEF SInv, IInv, PingInv
      <4>3. ~IsData(Item(op, i))
        BY <2>1, <3>1, <4>2, ItemIs
      <4> QED
        BY <2>1, <4>1, <4>2, <4>3 DEF PeerItems
    <3>2. CASE op # "pong"
      <4>1. inbox' = Append(inbox, Item(op, load + 1))
        BY <1>2, <2>1, <3>2 DEF PeerSends
      <4>2. Item(op, load + 1) \in PeerItems /\ Item(op, load + 1).n = load + 1
        BY <1>1, <2>1 DEF PeerItems, Item
      <4> QED
        BY <4>1, <4>2
    <3> QED
      BY <3>1, <3>2
  <2> DEFINE m == Len(inbox)
  <2>3. /\ m \in Nat /\ DOMAIN inbox = 1..m /\ DOMAIN inbox' = 1..(m + 1) /\ inbox'[m + 1] = item
        /\ \A i \in 1..m : inbox'[i] = inbox[i]
    BY <1>1, <2>2 DEF QueueInv
  <2> HIDE DEF m
  <2> DEFINE t == Range(taken) \cup Numbers(Whole)
  <2>4. /\ Numbered(inbox, t) /\ t \subseteq 1..load
        /\ \A i \in DOMAIN inbox : IsData(inbox[i]) => inbox[i].n \in 1..load
    BY <1>1 DEF StreamInv, Range
  <2> HIDE DEF t
  <2>5. \A i \in DOMAIN inbox' : IsData(inbox'[i]) => inbox'[i].n \in 1..load'
    <3> SUFFICES ASSUME NEW i \in 1..(m + 1), IsData(inbox'[i]) PROVE inbox'[i].n \in 1..(load + 1)
      BY <2>1, <2>3
    <3>1. CASE i = m + 1
      BY <1>1, <2>2, <2>3, <3>1
    <3>2. CASE i # m + 1
      <4>1. i \in 1..m
        BY <2>3, <3>2
      <4>2. inbox[i].n \in 1..load
        BY <2>3, <2>4, <4>1
      <4> QED
        BY <1>1, <2>3, <4>1, <4>2
    <3> QED
      BY <3>1, <3>2
  <2>6. Numbered(inbox', t)
    <3>1. ASSUME NEW i \in 1..(m + 1), IsData(inbox'[i])
          PROVE  /\ \A x \in t : x < inbox'[i].n
                 /\ \A j \in 1..(m + 1) : j < i /\ IsData(inbox'[j]) => inbox'[j].n < inbox'[i].n
      <4>1. CASE i = m + 1
        <5>1. inbox'[i].n = load + 1
          BY <2>2, <2>3, <3>1, <4>1
        <5>2. /\ \A x \in 1..load : x < load + 1
              /\ \A x \in t : x < load + 1
          <6>1. load \in Nat
            BY <1>1
          <6>2. \A x \in 1..load : x < load + 1
            BY ONLY <6>1
          <6>3. t \subseteq 1..load
            BY <2>4
          <6> QED
            BY ONLY <6>2, <6>3
        <5>3. ASSUME NEW j \in 1..(m + 1), j < i, IsData(inbox'[j]) PROVE inbox'[j].n < load + 1
          <6>1. j \in 1..m
            BY <2>3, <4>1, <5>3
          <6>2. inbox[j].n \in 1..load
            BY <2>3, <2>4, <5>3, <6>1
          <6>3. inbox'[j].n = inbox[j].n
            BY <2>3, <6>1
          <6> QED
            BY ONLY <5>2, <6>2, <6>3
        <5> QED
          BY <5>1, <5>2, <5>3
      <4>2. CASE i # m + 1
        <5>1. i \in 1..m /\ \A j \in 1..(m + 1) : j < i => j \in 1..m
          BY <2>3, <4>2
        <5> QED
          BY <2>3, <2>4, <3>1, <5>1 DEF Numbered
      <4> QED
        BY <4>1, <4>2
    <3> QED
      BY <2>3, <3>1 DEF Numbered
  <2>7. /\ parts' = parts /\ queue' = queue /\ taken' = taken /\ pc' = pc /\ waiter' = waiter /\ (cancelled' <=> cancelled)
        /\ load' \in Nat /\ load <= load' /\ load' <= MaxLoad
        /\ (waiter # "none" => pc[Reader] = "wait") /\ (waiter = "eof" => queue = <<>>)
    BY <1>1, <2>1 DEF StreamInv
  <2>8. StreamInv'
    BY <1>1, <2>5, <2>6, <2>7, StreamSame DEF t
  <2>9. UNCHANGED Stream!fallibleVars
    BY <2>1 DEF Stream!fallibleVars, Arrived
  <2> QED
    BY <2>8, <2>9
<1>3. ASSUME EofReceived \/ \E exc \in BOOLEAN : ConnectionLost(exc) PROVE StreamInv' /\ pc'[Reader] = pc[Reader]
  <2>1. /\ inbox' = <<>> /\ parts' = parts /\ queue' = queue /\ taken' = taken /\ (cancelled' <=> cancelled)
        /\ pc'[Reader] = pc[Reader] /\ waiter' \in {waiter, Aborted} /\ (load' = load \/ Asks)
    <3>1. CASE EofReceived
      BY <3>1 DEF EofReceived, queueVars, ctxVars
    <3>2. ASSUME NEW exc \in BOOLEAN, ConnectionLost(exc) PROVE pc'[Reader] = pc[Reader] /\ (load' = load \/ Asks)
      BY <1>1, <3>2, TasksDiffer DEF ConnectionLost, BaseTypes
    <3>3. ASSUME NEW exc \in BOOLEAN, ConnectionLost(exc)
          PROVE  /\ inbox' = <<>> /\ parts' = parts /\ queue' = queue /\ taken' = taken /\ (cancelled' <=> cancelled)
                 /\ waiter' \in {waiter, Aborted}
      BY <3>3 DEF ConnectionLost
    <3> QED
      BY <1>3, <3>1, <3>2, <3>3
  <2>2. load' \in Nat /\ load <= load' /\ load' <= MaxLoad
    BY <1>1, <2>1, AsksIs
  <2>3. /\ (waiter' # "none" => pc'[Reader] = "wait") /\ (waiter' = "eof" => queue = <<>>)
    BY <1>1, <2>1 DEF StreamInv, QueueInv, Aborted
  <2>4. DOMAIN inbox' = {}
    BY <2>1
  <2>5. Numbered(inbox', Range(taken) \cup Numbers(Whole))
    BY <2>4 DEF Numbered
  <2> QED
    BY <1>1, <2>1, <2>2, <2>3, <2>4, <2>5, StreamSame
<1>4. CASE EofReceived
  <2>1. UNCHANGED Stream!fallibleVars
    BY <1>4 DEF EofReceived, Stream!fallibleVars, Arrived, queueVars, ctxVars
  <2> QED
    BY <1>3, <1>4, <2>1
<1>5. ASSUME NEW exc \in BOOLEAN, ConnectionLost(exc) PROVE StreamInv' /\ [Stream!FallibleNext]_(Stream!fallibleVars)
  <2>1. Stream!End
    BY <1>5 DEF ConnectionLost, Stream!End, Arrived
  <2> QED
    BY <1>3, <1>5, <2>1 DEF Stream!FallibleNext
<1> QED
  BY <1>2, <1>4, <1>5

\* When the fetched frames are dropped no message is lost but the first of
\* those that wait.
LEMMA CutStream ==
  ASSUME StreamInv, QueueInv, parts # <<>>, queue # <<>>
  PROVE  \/ Range(taken) \cup Messages(queue) = Arrived
         \/ \E m \in Stream!Waiting :
              Range(taken) \cup Messages(queue) = Arrived \ {m} /\ \A n \in Stream!Waiting : m <= n
<1> DEFINE w == parts[1].n
<1> DEFINE k == Len(parts)
<1>1. /\ Flow(p, Whole) /\ parts[1].starts /\ Numbers(Whole) \subseteq 1..load /\ load \in Nat
      /\ parts \in Seq(QueueFrames) /\ queue \in Seq(QueueFrames) /\ (\A i \in DOMAIN parts : ~parts[i].fin)
      /\ \A x \in Range(taken), y \in Numbers(Whole) : x < y
  BY DEF StreamInv, QueueInv
<1>2. /\ k \in Nat /\ 1 <= k /\ DOMAIN parts = 1..k /\ DOMAIN Whole = 1..(k + Len(queue)) /\ Len(queue) \in Nat
      /\ Len(Whole) = k + Len(queue) /\ DOMAIN queue = 1..Len(queue)
      /\ (\A i \in 1..k : Whole[i] = parts[i]) /\ \A i \in 1..Len(queue) : Whole[k + i] = queue[i]
  BY <1>1 DEF Whole
<1> HIDE DEF k
<1>3. \A i \in 1..k : parts[i].starts => i = 1
  <2> SUFFICES ASSUME NEW i \in 1..k, i # 1 PROVE ~parts[i].starts
    OBVIOUS
  <2>1. i - 1 \in 1..k /\ i - 1 \in 1..(Len(Whole) - 1) /\ (i - 1) + 1 = i
    BY <1>2
  <2>2. ~Whole[i - 1].fin /\ Whole[i] = parts[i]
    BY <1>1, <1>2, <2>1
  <2> QED
    BY <1>1, <2>1, <2>2 DEF Flow
<1>4. /\ Messages(queue) \subseteq Messages(Whole) /\ Messages(Whole) \subseteq {w} \cup Messages(queue)
      /\ Numbers(queue) \subseteq Numbers(Whole)
  <2>1. {parts[i].n : i \in {j \in DOMAIN parts : parts[j].starts}} \subseteq {w}
    BY <1>2, <1>3
  <2> HIDE DEF w
  <2> QED
    BY <1>1, <2>1, RestMessages DEF Whole
<1>5. w \in Numbers(Whole) /\ \A x \in Numbers(queue) : w < x
  <2>1. 1 \in DOMAIN Whole /\ Whole[1] = parts[1]
    BY <1>2
  <2>2. ASSUME NEW i \in 1..Len(queue) PROVE w < queue[i].n
    <3>1. k + i \in DOMAIN Whole /\ 1 < k + i /\ Whole[k + i] = queue[i]
      BY <1>2
    <3> QED
      BY <1>1, <2>1, <3>1 DEF Flow
  <2> QED
    BY <1>2, <2>1, <2>2 DEF Numbers
<1>6. Messages(queue) \subseteq Numbers(queue) /\ Messages(Whole) \subseteq Numbers(Whole)
  BY MessagesAreNumbers
<1>7. w \notin Range(taken) /\ w \notin Messages(queue)
  BY <1>1, <1>5, <1>6
<1>8. Arrived = Range(taken) \cup Messages(Whole)
  BY DEF Arrived, Whole
<1> HIDE DEF w
<1>9. CASE w \notin Messages(Whole)
  BY <1>4, <1>8, <1>9
<1>10. CASE w \in Messages(Whole)
  <2>1. Range(taken) \cup Messages(queue) = Arrived \ {w}
    BY <1>4, <1>7, <1>8, <1>10
  <2>2. ASSUME NEW m \in Stream!Waiting PROVE m = w \/ m \in Numbers(queue)
    <3>1. m \in Messages(Whole)
      BY <1>8 DEF Stream!Waiting, Range
    <3> QED
      BY <1>4, <1>6, <3>1
  <2>3. \A m \in Stream!Waiting : w <= m
    <3>1. w \in Nat /\ \A m \in Numbers(queue) : m \in Nat
      BY <1>1, <1>4, <1>5
    <3>2. ASSUME NEW m \in Stream!Waiting PROVE w <= m
      <4>1. m = w \/ m \in Numbers(queue)
        BY <2>2
      <4>2. CASE m = w
        BY <3>1, <4>2
      <4>3. CASE m \in Numbers(queue)
        BY <1>5, <3>1, <4>3
      <4> QED
        BY <4>1, <4>2, <4>3
    <3> QED
      BY <3>2
  <2>4. w \in Stream!Waiting
    BY <1>7, <1>8, <1>10 DEF Stream!Waiting, Range
  <2> QED
    BY <2>1, <2>3, <2>4
<1> QED
  BY <1>9, <1>10

\* What recv() does to it.
LEMMA ReaderStream ==
  ASSUME SInv, Calm(p, p'), RecvCall \/ RecvWake \/ RecvCancel \/ RecvCancelled
  PROVE  StreamInv' /\ [Stream!FallibleNext]_(Stream!fallibleVars)
<1>1. /\ Base /\ BaseTypes /\ QueueInv /\ StreamInv /\ load \in Nat /\ load <= MaxLoad
      /\ pc \in [Tasks -> Places] /\ queue \in Seq(QueueFrames) /\ parts \in Seq(QueueFrames)
      /\ (cancelled => pc[Reader] = "wait") /\ (waiter # "none" => pc[Reader] = "wait")
  BY DEF SInv, IInv, Base, BaseTypes, QueueInv, StreamInv
<1>2. /\ Numbered(inbox, Range(taken) \cup Numbers(Whole))
      /\ \A i \in DOMAIN inbox : IsData(inbox[i]) => inbox[i].n \in 1..load
  BY <1>1 DEF StreamInv
<1>3. CASE RecvCall
  <2>1. /\ Fetch /\ pc[Reader] \in {"idle", "assert"} /\ (cancelled' = cancelled)
        /\ UNCHANGED <<cfg, lost, left, torn, inbox, cancelled>>
    BY <1>3 DEF RecvCall, RecvRest
  <2>2. load' \in Nat /\ load <= load' /\ load' <= MaxLoad
    BY <1>1, <1>3, AsksIs DEF RecvCall
  <2>3. ~cancelled
    BY <1>1, <2>1
  <2> QED
    BY <2>1, <2>2, <2>3, FetchStream
<1>4. CASE RecvWake /\ waiter # "eof"
  <2>1. /\ Fetch /\ pc[Reader] = "wait" /\ ~cancelled /\ load' = load
        /\ UNCHANGED <<cfg, lost, left, torn, inbox, cancelled>>
    BY <1>4 DEF RecvWake, RecvRest
  <2>2. load' \in Nat /\ load <= load' /\ load' <= MaxLoad
    BY <1>1, <2>1
  <2> QED
    BY <2>1, <2>2, FetchStream
<1>5. CASE RecvWake /\ waiter = "eof"
  <2>1. /\ pc' = [pc EXCEPT ![Reader] = "closed"] /\ waiter' = "none" /\ parts' = <<>> /\ queue' = queue /\ taken' = taken
        /\ p' = p /\ load' = load /\ inbox' = inbox /\ lost' = lost /\ pc[Reader] = "wait"
    BY <1>5 DEF RecvWake, RecvRest
  <2>2. /\ queue = <<>> /\ lost /\ (\A i \in DOMAIN parts : ~parts[i].fin) /\ p.parser = "discard" /\ pc'[Reader] = "closed"
    <3>1. queue = <<>> /\ lost /\ \A i \in DOMAIN parts : ~parts[i].fin
      BY <1>1, <1>5 DEF StreamInv, QueueInv
    <3>2. p.parser = "discard"
      BY <1>1, <3>1 DEF Base, BaseTypes, Ends, Running
    <3>3. pc'[Reader] = "closed"
      BY <1>1, <2>1, TasksDiffer
    <3> QED
      BY <3>1, <3>2, <3>3
  <2>3. Whole = parts /\ Whole' = <<>>
    BY <1>1, <2>1, <2>2 DEF Whole
  <2>4. Messages(Whole) = {} /\ Messages(Whole') = {} /\ Numbers(Whole') = {}
    BY <2>2, <2>3, MessagesAreNumbers DEF Fins, Numbers
  <2>5. Flow(p', Whole')
    BY <2>1, <2>2, <2>3 DEF Flow
  <2>6. Numbered(inbox, Range(taken) \cup Numbers(Whole'))
    BY <1>2, <2>4 DEF Numbered
  <2>7. StreamInv'
    BY <1>1, <1>2, <2>1, <2>2, <2>4, <2>5, <2>6 DEF StreamInv
  <2>8. UNCHANGED Stream!fallibleVars
    BY <2>1, <2>2, <2>4 DEF Stream!fallibleVars, Arrived, Whole
  <2> QED
    BY <2>7, <2>8
<1>6. CASE RecvCancel
  <2>1. UNCHANGED <<p, pc, inbox, lost, parts, queue, taken, waiter, load>> /\ waiter # "eof" /\ pc[Reader] = "wait"
    BY <1>6 DEF RecvCancel, RecvRest, ctxVars
  <2>2. /\ parts' = parts /\ queue' = queue /\ taken' = taken /\ inbox' = inbox /\ load' = load /\ waiter' = waiter
        /\ pc'[Reader] = "wait"
    BY <2>1
  <2>3. \A i \in DOMAIN inbox' : IsData(inbox'[i]) => inbox'[i].n \in 1..load'
    BY <1>2, <2>2
  <2>4. Numbered(inbox', Range(taken) \cup Numbers(Whole)) /\ load' \in Nat /\ load <= load' /\ load' <= MaxLoad
    BY <1>1, <1>2, <2>2
  <2>5. StreamInv'
    BY <1>1, <2>1, <2>2, <2>3, <2>4, StreamSame
  <2>6. UNCHANGED Stream!fallibleVars
    BY <2>1 DEF Stream!fallibleVars, Arrived
  <2> QED
    BY <2>5, <2>6
<1>7. CASE RecvCancelled
  <2>1. /\ p' = p /\ inbox' = inbox /\ lost' = lost /\ taken' = taken /\ load' = load
        /\ waiter' = "none" /\ parts' = <<>> /\ pc[Reader] = "wait"
    BY <1>1, <1>7 DEF RecvCancelled, RecvRest
  <2>2. /\ Flow(p, Whole) /\ taken \in Seq(1..load) /\ Numbers(Whole) \subseteq 1..load /\ Whole \in Seq(QueueFrames)
        /\ \A x \in Range(taken), y \in Numbers(Whole) : x < y
    BY <1>1 DEF StreamInv, Flow
  <2>3. ASSUME queue' \in Seq(QueueFrames), Flow(p, queue'), Numbers(queue') \subseteq Numbers(Whole)
        PROVE  StreamInv' /\ Whole' = queue'
    <3>1. Whole' = queue'
      BY <2>1, <2>3 DEF Whole
    <3>2. Numbered(inbox', Range(taken') \cup Numbers(Whole'))
      BY <1>2, <2>1, <2>3, <3>1 DEF Numbered
    <3>3. Flow(p', Whole') /\ Numbers(Whole') \subseteq 1..load' /\ \A x \in Range(taken'), y \in Numbers(Whole') : x < y
      BY <2>1, <2>2, <2>3, <3>1
    <3> QED
      BY <1>1, <1>2, <2>1, <2>2, <3>1, <3>2, <3>3 DEF StreamInv
  <2>4. CASE ~(parts # <<>> /\ queue # <<>>)
    <3>1. pc' = [pc EXCEPT ![Reader] = "idle"] /\ queue' = Whole
      BY <1>7, <2>4 DEF RecvCancelled, Whole
    <3>2. pc'[Reader] = "idle"
      BY <1>1, <3>1, TasksDiffer
    <3>3. StreamInv' /\ Whole' = Whole
      BY <2>2, <2>3, <3>1
    <3>4. Arrived' = Arrived
      BY <2>1, <3>3 DEF Arrived, Whole
    <3>5. UNCHANGED Stream!fallibleVars
      BY <2>1, <3>2, <3>4 DEF Stream!fallibleVars
    <3> QED
      BY <3>3, <3>5
  <2>5. CASE parts # <<>> /\ queue # <<>>
    <3>1. pc' = [pc EXCEPT ![Reader] = "assert"] /\ queue' = queue
      BY <1>7, <2>5 DEF RecvCancelled
    <3>2. pc'[Reader] = "assert"
      BY <1>1, <3>1, TasksDiffer
    <3>3. Flow(p, queue) /\ Numbers(queue) \subseteq Numbers(Whole) /\ Messages(queue) \subseteq Messages(Whole)
      BY <1>1, <2>2, FlowRest, RestMessages DEF Whole
    <3>4. StreamInv' /\ Whole' = queue
      BY <1>1, <2>3, <3>1, <3>3
    <3>5. Arrived' = Range(taken) \cup Messages(queue) /\ Arrived = Range(taken) \cup Messages(Whole)
      BY <2>1, <3>4 DEF Arrived, Whole
    <3>6. Stream!Fail
      BY <1>1, <2>1, <2>2, <2>5, <3>2, <3>3, <3>5, CutStream DEF Stream!Fail
    <3> QED
      BY <3>4, <3>6 DEF Stream!FallibleNext
  <2> QED
    BY <2>4, <2>5
<1> QED
  BY <1>3, <1>4, <1>5, <1>6, <1>7

LEMMA StreamStep ==
  ASSUME SInv, Next
  PROVE  SInv' /\ [Stream!FallibleNext]_(Stream!fallibleVars)
<1>1. Base /\ QueueInv /\ IInv'
  BY StepKeeps DEF SInv, IInv
<1>2. CASE \E n \in Nat : DataReceived(n)
  BY <1>1, <1>2, ArrivalsStream DEF SInv
<1>3. CASE Calm(p, p')
  BY <1>1, <1>2, <1>3, Steps, TasksStream, PeerStreams, ReaderStream DEF SInv
<1> QED
  BY <1>1, <1>2, <1>3, Bodily

LEMMA StreamStutter ==
  ASSUME SInv, UNCHANGED vars
  PROVE  SInv' /\ [Stream!FallibleNext]_(Stream!fallibleVars)
<1>1. /\ Calm(p, p') /\ UNCHANGED <<inbox, lost, parts, queue, taken, waiter, cancelled>> /\ load' = load
      /\ pc'[Reader] = pc[Reader]
  BY DEF vars, Calm, queueVars, ctxVars
<1>2. waiter # "none" => pc[Reader] = "wait"
  BY DEF SInv, StreamInv
<1> QED
  BY <1>1, <1>2, QuietStream, StutterKeeps DEF SInv

LEMMA StreamInit ==
  ASSUME Init
  PROVE  SInv /\ Stream!FallibleInit
<1>1. /\ inbox = <<>> /\ queue = <<>> /\ parts = <<>> /\ taken = <<>> /\ load = 0 /\ waiter = "none" /\ ~cancelled /\ lost = FALSE
      /\ IInv
  BY InitHolds DEF Init
<1>2. pc[Reader] = "idle" /\ MaxLoad \in Nat
  BY TasksDiffer, ScenarioAssumption DEF Init
<1>3. Whole = <<>> /\ DOMAIN <<>> = {}
  BY <1>1 DEF Whole
<1>4. Numbers(<<>>) = {} /\ Messages(<<>>) = {} /\ Range(<<>>) = {} /\ Numbered(<<>>, {})
  BY DEF Numbers, Messages, Range, Numbered
<1>5. cfg.side \in {"client", "server"} /\ p.parser = "frames" /\ p.current = NoSize
  <2>1. cfg.side \in {"client", "server"}
    BY ScenarioAssumption DEF Init
  <2> QED
    BY <2>1, RunningInit DEF Init
<1>6. Flow(p, <<>>)
  <2>1. Line(p, <<>>)
    BY <1>5 DEF Line
  <2> QED
    BY <2>1, FlowLine
<1>7. StreamInv
  <2>1. taken \in Seq(1..load) /\ load <= MaxLoad /\ DOMAIN inbox = {}
    BY <1>1, <1>2, <1>3
  <2>2. Range(taken) \cup Numbers(Whole) = {} /\ Numbered(inbox, {}) /\ Flow(p, Whole)
    BY <1>1, <1>3, <1>4, <1>6
  <2>3. waiter = "none" /\ parts = <<>>
    BY <1>1
  <2> QED
    BY <2>1, <2>2, <2>3 DEF StreamInv
<1>8. Stream!FallibleInit
  BY <1>1, <1>2, <1>3, <1>4 DEF Stream!FallibleInit, Stream!Init, Arrived, Whole
<1> QED
  BY <1>1, <1>7, <1>8 DEF SInv

\* recv() implements the stream of messages that may fail: the complete
\* messages of the peer, each once and in order, whatever is cancelled, lost or
\* closed in between; the first of those that wait may be lost when recv()
\* raises AssertionError, and no other.  close() ends it between messages.
THEOREM StreamIsKept == Spec => StreamKept
<1>1. Init => SInv /\ Stream!FallibleInit
  BY StreamInit
<1>2. SInv /\ [Next]_vars => SInv' /\ [Stream!FallibleNext]_(Stream!fallibleVars)
  BY StreamStep, StreamStutter
<1>3. Spec => DeliversStream
  BY <1>1, <1>2, PTL DEF Spec, DeliversStream, Stream!FallibleSpec
<1> QED
  BY <1>3, ClosesBetweenMessages, PTL DEF StreamKept

--------------------------------------------------------------------------------
(* A server and its clients.  The invariant says of each TCP connection    *)
(* what its handler, the set of handlers and its client know of it.        *)

\* Client i is using slot k.
Holds(i, k) == i \in Clients /\ slot[i] = k /\ cpc[i] \in {"wait", "open", "closing"}

Wired(k, c) ==
  /\ c.cLost = TRUE => c.down = TRUE
  /\ c.sLost = TRUE => c.down = TRUE
  /\ c.down = FALSE => c.h # "none" /\ Holds(c.who, k)

Registered(k, c) ==
  /\ c.h \notin {"none", "accepted"} => k \in handlers
  /\ c.h = "accepted" => srv \in {"serving", "stopping"}
  /\ c.h = "respond" => "response" \in setup.awaits

Opened(k, c) ==
  c.ss = "open" =>
    /\ c.h = "run"
    /\ srv = "closing" /\ ~setup.keep /\ "response" \notin setup.awaits => k \in tasks

SlotFits(k, c) == Wired(k, c) /\ Registered(k, c) /\ Opened(k, c)

Inv ==
  /\ SessionTypeOK
  /\ \A k \in Slots : SlotFits(k, conn[k])
  /\ srv = "closed" => handlers = {}
  /\ SecureStaysSecure

--------------------------------------------------------------------------------
LEMMA IdleTyped == Idle \in Conns /\ \A k : SlotFits(k, Idle)
BY DEF Idle, Conns, Phases, Stages, Answers, SlotFits, Wired, Registered, Opened

LEMMA SettledFits ==
  ASSUME NEW k, NEW c \in Conns, SlotFits(k, c)
  PROVE  Vacated(c) \in Conns /\ SlotFits(k, Vacated(c))
BY IdleTyped DEF Vacated

LEMMA InitInv == SessionInit => Inv
<1> SUFFICES ASSUME SessionInit PROVE Inv
  OBVIOUS
<1>1. \A k \in Slots : SlotFits(k, conn[k])
  BY IdleTyped DEF SessionInit
<1>2. SessionTypeOK
  BY IdleTyped, SessionAssumption, ConfigAssumption DEF SessionInit, SessionTypeOK
<1>3. SecureStaysSecure
  BY DEF SessionInit, SecureStaysSecure
<1> QED
  BY <1>1, <1>2, <1>3 DEF SessionInit, Inv

\* A step of one slot that leaves the server and the clients alone keeps the
\* invariant when the connection it leaves there fits.
LEMMA OneSlot ==
  ASSUME Inv, NEW k \in Slots, NEW c \in Conns,
         UNCHANGED <<setup, srv, tasks, servers, clientVars>>, faults' \in Nat,
         conn' = [conn EXCEPT ![k] = Vacated(c)] \/ conn' = [conn EXCEPT ![k] = c],
         \/ handlers' = handlers /\ SlotFits(k, c)
         \/ /\ handlers' = handlers \ {k} /\ c.h \in {"none", "accepted"}
            /\ SlotFits(k, c)
         \/ /\ handlers' = handlers \cup {k} /\ srv # "closed"
            /\ Wired(k, c) /\ Opened(k, c) /\ c.h = "request"
  PROVE  Inv'
<1>1. conn \in [Slots -> Conns] /\ handlers \subseteq Slots
  BY DEF Inv, SessionTypeOK
<1>2. handlers' \subseteq Slots
  BY <1>1
<1>3. Vacated(c) \in Conns
  BY IdleTyped DEF Vacated
<1>4. SessionTypeOK'
  BY <1>1, <1>2, <1>3 DEF Inv, SessionTypeOK, clientVars
<1>5. ASSUME NEW j \in Slots PROVE SlotFits(j, conn[j])'
  <2>1. \A d : (Wired(j, d) <=> Wired(j, d)') /\ (Opened(j, d) <=> Opened(j, d)')
    BY DEF Wired, Holds, Opened, clientVars
  <2>2. CASE j # k
    <3>1. conn'[j] = conn[j] /\ SlotFits(j, conn[j])
      BY <2>2, <1>1 DEF Inv
    <3>2. Registered(j, conn[j])'
      BY <3>1, <2>2 DEF SlotFits, Registered
    <3> QED
      BY <3>1, <3>2, <2>1 DEF SlotFits
  <2>3. CASE j = k
    <3>1. conn'[k] \in {c, Vacated(c)}
      BY <1>1
    <3>2. SlotFits(k, c)'
      BY <2>1, <2>3 DEF SlotFits, Registered
    <3>3. Idle.h = "none" /\ Idle.ss = "closed" /\ Idle.down = TRUE
      BY DEF Idle
    <3>4. SlotFits(k, Idle)'
      BY <3>3 DEF SlotFits, Wired, Registered, Opened
    <3> QED
      BY <3>1, <3>2, <3>4, <2>3 DEF Vacated
  <2> QED
    BY <2>2, <2>3
<1>6. (srv = "closed" => handlers = {})'
  BY DEF Inv
<1>7. SecureStaysSecure'
  BY DEF Inv, SecureStaysSecure, clientVars
<1> QED
  BY <1>4, <1>5, <1>6, <1>7 DEF Inv

LEMMA NetworkInv ==
  ASSUME Inv, NEW k \in Slots, Network(k) \/ Fault(k)
  PROVE  Inv'
<1>1. conn[k] \in Conns /\ SlotFits(k, conn[k]) /\ faults \in Nat
  BY DEF Inv, SessionTypeOK
<1>2. CASE ServerLost(k)
  <2> DEFINE c == [conn[k] EXCEPT !.sLost = TRUE, !.ss = "closed"]
  <2>1. c \in Conns /\ conn[k].down = TRUE
    BY <1>1, <1>2 DEF ServerLost, Conns, Phases
  <2>2. SlotFits(k, c)
    BY <1>1, <2>1 DEF SlotFits, Wired, Registered, Opened, Conns
  <2>3. conn' = [conn EXCEPT ![k] = Vacated(c)] /\ handlers' = handlers
    BY <1>2 DEF ServerLost, serverVars
  <2> HIDE DEF c
  <2> QED
    BY <1>1, <1>2, <2>1, <2>2, <2>3, OneSlot DEF ServerLost, serverVars
<1>3. CASE ClientLost(k)
  <2> DEFINE c == [conn[k] EXCEPT !.cLost = TRUE, !.cs = "closed"]
  <2>1. c \in Conns /\ conn[k].down = TRUE
    BY <1>1, <1>3 DEF ClientLost, Conns, Phases
  <2>2. SlotFits(k, c)
    BY <1>1, <2>1 DEF SlotFits, Wired, Registered, Opened, Conns
  <2>3. conn' = [conn EXCEPT ![k] = Vacated(c)] /\ handlers' = handlers
    BY <1>3 DEF ClientLost, serverVars
  <2> HIDE DEF c
  <2> QED
    BY <1>1, <1>3, <2>1, <2>2, <2>3, OneSlot DEF ClientLost, serverVars
<1>4. CASE CloseArrives(k)
  <2>1. PICK c \in {[conn[k] EXCEPT !.cs = "closing", !.down = TRUE],
                    [conn[k] EXCEPT !.ss = "closing", !.down = TRUE],
                    [conn[k] EXCEPT !.down = TRUE]} : conn' = [conn EXCEPT ![k] = c]
    BY <1>4 DEF CloseArrives, Inv, SessionTypeOK
  <2>2. c \in Conns
    BY <1>1, <2>1, ZenonT(60) DEF Conns, Phases
  <2>3. SlotFits(k, c)
    BY <1>1, <2>1 DEF SlotFits, Wired, Registered, Opened, Conns
  <2> QED
    BY <1>1, <1>4, <2>1, <2>2, <2>3, OneSlot DEF CloseArrives, serverVars
<1>5. CASE Fault(k)
  <2>1. PICK c \in {[conn[k] EXCEPT !.down = TRUE], [conn[k] EXCEPT !.stalled = TRUE]} :
          conn' = [conn EXCEPT ![k] = c]
    BY <1>5 DEF Fault, Inv, SessionTypeOK
  <2>2. c \in Conns
    BY <1>1, <2>1 DEF Conns
  <2>3. SlotFits(k, c)
    BY <1>1, <2>1 DEF SlotFits, Wired, Registered, Opened, Conns
  <2>4. faults' \in Nat /\ UNCHANGED <<setup, serverVars, clientVars>>
    BY <1>1, <1>5 DEF Fault
  <2> QED
    BY <2>1, <2>2, <2>3, <2>4, OneSlot DEF serverVars
<1> QED
  BY <1>2, <1>3, <1>4, <1>5 DEF Network

--------------------------------------------------------------------------------
(* The handler of a connection. *)

\* What Ends() does to the invariant: the handler has left, or stays.
LEMMA EndsInv ==
  ASSUME Inv, NEW k \in Slots, NEW c \in Conns, HandlerMoves(k, c),
         UNCHANGED <<setup, srv, tasks, servers, clientVars>>, faults' \in Nat, SlotFits(k, c)
  PROVE  Inv'
<1> DEFINE d == [c EXCEPT !.answer = IF c.h = "respond" THEN @ ELSE "none"]
<1>1. d \in Conns /\ d.h = c.h
  BY DEF Conns, Answers
<1>2. SlotFits(k, d)
  BY <1>1 DEF SlotFits, Wired, Registered, Opened, Conns
<1>3. conn' = [conn EXCEPT ![k] = Vacated(d)]
  BY DEF HandlerMoves
<1>4. IF d.h = "none" THEN handlers' = handlers \ {k} ELSE handlers' = handlers
  BY <1>1 DEF HandlerMoves, Leaves
<1> HIDE DEF d
<1> QED
  BY <1>1, <1>2, <1>3, <1>4, OneSlot

\* Taking TCP down and leaving.
LEMMA DropFits ==
  ASSUME NEW k \in Slots, NEW c \in Conns, SlotFits(k, c), c.ss # "open" \/ c.h # "run"
  PROVE  /\ [Down(c) EXCEPT !.h = "none"] \in Conns
         /\ SlotFits(k, [Down(c) EXCEPT !.h = "none"])
BY DEF Down, SlotFits, Wired, Registered, Opened, Conns, Stages

LEMMA DecideTyped ==
  ASSUME NEW c \in Conns, NEW o
  PROVE  /\ Decide(c, o) \in Conns
         /\ \A f \in {"cLost", "sLost", "down", "who", "h", "ss", "cs", "stalled"} : Decide(c, o)[f] = c[f]
         /\ Decide(c, o).answer = "101" => srv = "serving"
BY DEF Decide, Conns, Answers

\* The response: the handshake of a server that is not closing, or of one
\* that may close between the decision and the response, is answered.
LEMMA RespondFits ==
  ASSUME Inv, NEW k \in Slots, NEW c \in Conns, Wired(k, c), c.ss # "open",
         k \in handlers,
         \/ srv = "serving" \/ c.answer # "101" \/ "response" \in setup.awaits
  PROVE  Respond(c) \in Conns /\ SlotFits(k, Respond(c))
<1>1. CASE c.sLost
  <2>1. Respond(c) = [Down(c) EXCEPT !.h = "none"]
    BY <1>1 DEF Respond
  <2> QED
    BY <2>1 DEF Down, SlotFits, Wired, Registered, Opened, Conns, Stages
<1>2. CASE ~c.sLost /\ c.answer = "101"
  <2> DEFINE d == [c EXCEPT !.resp = "101", !.ss = "open", !.h = "run"]
  <2>1. Respond(c) = d
    BY <1>2 DEF Respond
  <2>2. d \in Conns /\ d.h = "run" /\ d.cLost = c.cLost /\ d.sLost = c.sLost /\ d.down = c.down /\ d.who = c.who
    BY DEF Conns, Answers, Stages, Phases
  <2>3. Wired(k, d) /\ Registered(k, d) /\ Opened(k, d)
    BY <1>2, <2>2 DEF Wired, Registered, Opened
  <2> QED
    BY <2>1, <2>2, <2>3 DEF SlotFits
<1>3. CASE ~c.sLost /\ c.answer # "101" /\ c.exc
  <2>1. Respond(c) = [c EXCEPT !.resp = c.answer, !.h = "linger"]
    BY <1>3 DEF Respond
  <2> QED
    BY <2>1 DEF SlotFits, Wired, Registered, Opened, Conns, Stages
<1>4. CASE ~c.sLost /\ c.answer # "101" /\ ~c.exc
  <2>1. Respond(c) = [Down(c) EXCEPT !.resp = c.answer, !.h = "none"]
    BY <1>4 DEF Respond
  <2> QED
    BY <2>1 DEF Down, SlotFits, Wired, Registered, Opened, Conns, Stages
<1> QED
  BY <1>1, <1>2, <1>3, <1>4

LEMMA HandshakeInv ==
  ASSUME Inv, NEW k \in Slots, Handshake(k)
  PROVE  Inv'
<1> DEFINE c == conn[k]
<1>1. c \in Conns /\ SlotFits(k, c) /\ faults \in Nat
  BY DEF Inv, SessionTypeOK
<1>2. UNCHANGED <<setup, srv, tasks, servers, clientVars>>
  BY DEF Handshake
<1>3. faults' \in Nat
  <2>1. UNCHANGED faults \/ \E o : Spends(o)
    BY DEF Handshake
  <2> QED
    BY <1>1, <2>1 DEF Spends
<1>4. c.h \in {"request", "process", "respond", "linger"} => k \in handlers /\ c.ss # "open"
  BY <1>1 DEF SlotFits, Registered, Opened
<1>5. CASE c.h = "request" /\ c.sLost /\ HandlerMoves(k, [Down(c) EXCEPT !.h = "none"])
  BY <1>1, <1>2, <1>3, <1>4, <1>5, DropFits, EndsInv
<1>6. CASE /\ c.h = "request" /\ ~c.sLost /\ "request" \in setup.awaits
           /\ HandlerMoves(k, [c EXCEPT !.h = "process"])
  <2>1. [c EXCEPT !.h = "process"] \in Conns
    BY <1>1 DEF Conns, Stages
  <2>2. SlotFits(k, [c EXCEPT !.h = "process"])
    BY <1>1, <1>4, <1>6 DEF SlotFits, Wired, Registered, Opened, Conns
  <2> QED
    BY <1>2, <1>3, <1>6, <2>1, <2>2, EndsInv
<1>7. CASE /\ c.h \in {"request", "process"}
           /\ \E o \in Outcomes(c) : HandlerMoves(k, AfterRequest(c, o)) /\ Spends(o)
  <2>1. PICK o : HandlerMoves(k, AfterRequest(c, o))
    BY <1>7
  <2> DEFINE d == Decide(c, o)
  <2>2. /\ d \in Conns /\ d.h = c.h /\ d.ss = c.ss /\ d.who = c.who /\ d.cLost = c.cLost
        /\ d.sLost = c.sLost /\ d.down = c.down
        /\ d.answer = "101" => srv = "serving"
    BY <1>1, DecideTyped
  <2> HIDE DEF d
  <2>3. Wired(k, d) /\ d.ss # "open"
    BY <1>1, <1>4, <1>7, <2>2 DEF SlotFits, Wired
  <2>4. CASE "response" \in setup.awaits
    <3> DEFINE e == [d EXCEPT !.h = "respond"]
    <3>1. e \in Conns
      BY <2>2 DEF Conns, Stages
    <3>2. SlotFits(k, e)
      BY <1>4, <1>7, <2>2, <2>3, <2>4 DEF SlotFits, Wired, Registered, Opened, Conns
    <3>3. HandlerMoves(k, e)
      BY <2>1, <2>4 DEF AfterRequest, d
    <3> HIDE DEF e
    <3> QED
      BY <1>2, <1>3, <3>1, <3>2, <3>3, EndsInv
  <2>5. CASE "response" \notin setup.awaits
    <3>1. HandlerMoves(k, Respond(d))
      BY <2>1, <2>5 DEF AfterRequest, d
    <3>2. Respond(d) \in Conns /\ SlotFits(k, Respond(d))
      BY <1>4, <1>7, <2>2, <2>3, RespondFits
    <3> QED
      BY <1>2, <1>3, <3>1, <3>2, EndsInv
  <2> QED
    BY <2>4, <2>5
<1>8. CASE c.h = "respond" /\ \E raised \in BOOLEAN : HandlerMoves(k, Respond(Replaced(c, raised)))
  <2>1. PICK raised \in BOOLEAN : HandlerMoves(k, Respond(Replaced(c, raised)))
    BY <1>8
  <2> DEFINE d == Replaced(c, raised)
  <2>2. d \in Conns /\ Wired(k, d) /\ d.ss # "open"
    <3> DEFINE e == [c EXCEPT !.answer = "500", !.exc = TRUE]
    <3>1. e \in Conns /\ Wired(k, e) /\ e.ss # "open"
      BY <1>1, <1>4, <1>8 DEF SlotFits, Wired, Conns, Answers
    <3>2. Wired(k, c) /\ c.ss # "open"
      BY <1>1, <1>4, <1>8 DEF SlotFits
    <3>3. d = e \/ d = c
      BY DEF Replaced
    <3> HIDE DEF d, e
    <3> QED
      BY <1>1, <3>1, <3>2, <3>3
  <2>3. "response" \in setup.awaits
    BY <1>1, <1>8 DEF SlotFits, Registered
  <2> HIDE DEF d
  <2>4. Respond(d) \in Conns /\ SlotFits(k, Respond(d))
    BY <1>4, <1>8, <2>2, <2>3, RespondFits
  <2>5. HandlerMoves(k, Respond(d))
    BY <2>1 DEF d
  <2> QED
    BY <1>2, <1>3, <2>4, <2>5, EndsInv
<1>9. CASE c.h = "linger" /\ c.sLost /\ HandlerMoves(k, [c EXCEPT !.h = "none"])
  <2>1. [c EXCEPT !.h = "none"] \in Conns
    BY <1>1 DEF Conns, Stages
  <2>2. SlotFits(k, [c EXCEPT !.h = "none"])
    BY <1>1, <1>4, <1>9 DEF SlotFits, Wired, Registered, Opened, Conns
  <2> QED
    BY <1>2, <1>3, <1>9, <2>1, <2>2, EndsInv
<1> QED
  BY <1>5, <1>6, <1>7, <1>8, <1>9 DEF Handshake

LEMMA HandlerInv ==
  ASSUME Inv, NEW k \in Slots,
         Made(k) \/ HandlerDone(k) \/ Timeouts(k) \/ HandlerEnds(k)
  PROVE  Inv'
<1> DEFINE c == conn[k]
<1>1. c \in Conns /\ SlotFits(k, c) /\ faults \in Nat
  BY DEF Inv, SessionTypeOK
<1>2. UNCHANGED <<setup, srv, tasks, servers, clientVars>> /\ faults' \in Nat
  BY <1>1 DEF Made, HandlerDone, Timeouts, OpenTimeout, ServerCloseTimeout, HandlerEnds, HandlerRest
<1>3. CASE Made(k)
  <2> DEFINE d == [c EXCEPT !.h = "request"]
  <2>1. d \in Conns /\ conn' = [conn EXCEPT ![k] = d] /\ handlers' = handlers \cup {k}
    BY <1>1, <1>3 DEF Made, Conns, Stages, Inv, SessionTypeOK
  <2>2. Wired(k, d) /\ Opened(k, d) /\ d.h = "request" /\ srv # "closed"
    BY <1>1, <1>3 DEF Made, SlotFits, Wired, Registered, Opened, Conns
  <2> HIDE DEF d
  <2> QED
    BY <1>2, <2>1, <2>2, OneSlot
<1>4. CASE HandlerDone(k)
  <2>1. [c EXCEPT !.h = "none"] \in Conns
    BY <1>1 DEF Conns, Stages
  <2>2. SlotFits(k, [c EXCEPT !.h = "none"])
    BY <1>1, <1>4 DEF HandlerDone, SlotFits, Wired, Registered, Opened, Conns
  <2> QED
    BY <1>2, <1>4, <2>1, <2>2, EndsInv DEF HandlerDone
<1>5. CASE OpenTimeout(k)
  <2>1. c.ss # "open"
    BY <1>1, <1>5 DEF OpenTimeout, SlotFits, Opened
  <2> QED
    BY <1>1, <1>2, <1>5, <2>1, DropFits, EndsInv DEF OpenTimeout
<1>6. CASE ServerCloseTimeout(k)
  <2>1. Down(c) \in Conns /\ SlotFits(k, Down(c))
    BY <1>1 DEF Down, SlotFits, Wired, Registered, Opened, Conns
  <2>2. conn' = [conn EXCEPT ![k] = Down(c)] /\ handlers' = handlers
    BY <1>6 DEF ServerCloseTimeout
  <2> QED
    BY <1>2, <2>1, <2>2, OneSlot
<1>7. CASE HandlerEnds(k)
  <2> DEFINE d == [c EXCEPT !.h = "close", !.ss = IF c.ss = "open" THEN "closing" ELSE c.ss]
  <2>1. d \in Conns
    BY <1>1 DEF Conns, Stages, Phases
  <2>2. SlotFits(k, d)
    BY <1>1, <1>7 DEF HandlerEnds, SlotFits, Wired, Registered, Opened, Conns, Phases
  <2>3. conn' = [conn EXCEPT ![k] = d] /\ handlers' = handlers
    BY <1>7 DEF HandlerEnds, Inv, SessionTypeOK
  <2> HIDE DEF d
  <2> QED
    BY <1>2, <2>1, <2>2, <2>3, OneSlot
<1> QED
  BY <1>3, <1>4, <1>5, <1>6, <1>7 DEF Timeouts

--------------------------------------------------------------------------------
(* Server.close() and serve(). *)

LEMMA ServerInv ==
  ASSUME Inv, StopServing \/ CloseConnections \/ Closed \/ Serve
  PROVE  Inv'
<1>1. conn \in [Slots -> Conns] /\ handlers \subseteq Slots /\ tasks \subseteq Slots /\ servers \in Nat
  BY DEF Inv, SessionTypeOK
<1>2. \A k \in Slots : SlotFits(k, conn[k])
  BY DEF Inv
<1>3. UNCHANGED <<setup, clientVars, faults, handlers>>
  BY DEF StopServing, CloseConnections, Closed, Serve, ServerRest
<1>4. SecureStaysSecure'
  BY <1>3 DEF Inv, SecureStaysSecure, clientVars
<1>5. \A k, c : Wired(k, c)' <=> Wired(k, c)
  BY <1>3 DEF Wired, Holds, clientVars
<1>6. CASE StopServing \/ Closed \/ Serve
  <2>1. /\ UNCHANGED conn /\ tasks' \subseteq Slots /\ servers' \in Nat
        /\ srv' \in {"stopping", "closed", "serving"}
        /\ srv' = "closed" => srv = "closing" /\ handlers' = {}
    BY <1>1, <1>6 DEF StopServing, Closed, Serve
  <2>2. SessionTypeOK'
    BY <1>3, <2>1 DEF Inv, SessionTypeOK, clientVars
  <2>3. ASSUME NEW k \in Slots PROVE SlotFits(k, conn[k])'
    BY <1>2, <1>3, <1>5, <2>1 DEF SlotFits, Registered, Opened
  <2> QED
    BY <1>4, <2>1, <2>2, <2>3 DEF Inv
<1>7. CASE CloseConnections
  <2> DEFINE d(k) == IF k \in tasks' /\ conn[k].ss = "open"
                     THEN [conn[k] EXCEPT !.ss = "closing"] ELSE conn[k]
  <2>1. /\ conn' = [k \in Slots |-> d(k)]
        /\ srv' = "closing" /\ \A k \in Slots : conn[k].h # "accepted"
        /\ tasks' = IF setup.keep THEN {} ELSE {k \in handlers : conn[k].ss # "connecting"}
        /\ UNCHANGED servers
    BY <1>7 DEF CloseConnections
  <2>2. tasks' \subseteq Slots
    BY <1>1, <2>1
  <2>3. ASSUME NEW k \in Slots
        PROVE  /\ d(k) \in Conns /\ d(k).down = conn[k].down /\ d(k).h = conn[k].h
               /\ d(k).cLost = conn[k].cLost /\ d(k).sLost = conn[k].sLost
               /\ d(k).who = conn[k].who
               /\ d(k).ss = "open" => conn[k].ss = "open" /\ k \notin tasks'
    BY <1>1 DEF Conns, Phases
  <2> HIDE DEF d
  <2>4. SessionTypeOK'
    BY <1>3, <2>1, <2>2, <2>3 DEF Inv, SessionTypeOK, clientVars
  <2>5. ASSUME NEW k \in Slots PROVE SlotFits(k, conn[k])'
    <3>1. conn'[k] = d(k) /\ SlotFits(k, conn[k])
      BY <1>2, <2>1
    <3>2. Wired(k, conn[k])'
      BY <1>3, <2>3, <3>1 DEF SlotFits, Wired, Holds, clientVars
    <3>3. Registered(k, conn[k])'
      BY <1>3, <2>1, <2>3, <3>1 DEF SlotFits, Registered
    <3>4. conn[k].ss = "open" /\ ~setup.keep => k \in tasks'
      BY <2>1, <3>1 DEF SlotFits, Registered, Opened
    <3>5. Opened(k, conn[k])'
      BY <1>3, <2>1, <2>3, <3>1, <3>4 DEF SlotFits, Opened
    <3> QED
      BY <3>2, <3>3, <3>5 DEF SlotFits
  <2> QED
    BY <1>4, <2>1, <2>4, <2>5 DEF Inv
<1> QED
  BY <1>6, <1>7

--------------------------------------------------------------------------------
(* connect(). *)

\* A step of client i in which it stops to hold slots, or goes on to hold the
\* one it has, and changes the connection there: the invariant is kept when
\* the connection is down or still held.
LEMMA ClientStep ==
  ASSUME Inv, NEW i \in Clients, NEW c \in Conns,
         UNCHANGED <<setup, serverVars, slot>>, faults' \in Nat,
         conn' = [conn EXCEPT ![slot[i]] = c] \/ (c = conn[slot[i]] /\ UNCHANGED conn),
         NEW stage \in {"connect", "wait", "open", "closing", "sleep", "failed"},
         cpc' = [cpc EXCEPT ![i] = stage],
         NEW n \in 0..(MAX_REDIRECTS - 1), hops' = [hops EXCEPT ![i] = n] \/ UNCHANGED hops,
         UNCHANGED uri \/ \E u \in Uris : uri' = [uri EXCEPT ![i] = u] /\ (uri[i].secure => u.secure),
         c.cLost = TRUE => c.down = TRUE, c.sLost = conn[slot[i]].sLost,
         c.h = conn[slot[i]].h, c.ss = conn[slot[i]].ss, c.who = conn[slot[i]].who,
         conn[slot[i]].down = TRUE => c.down = TRUE,
         c.down = TRUE \/ stage \in {"wait", "open", "closing"}
  PROVE  Inv'
<1>1. /\ conn \in [Slots -> Conns] /\ slot \in [Clients -> Slots] /\ slot[i] \in Slots
      /\ cpc \in [Clients -> {"connect", "wait", "open", "closing", "sleep", "failed"}]
      /\ hops \in [Clients -> 0..(MAX_REDIRECTS - 1)] /\ uri \in [Clients -> Uris]
  BY DEF Inv, SessionTypeOK
<1>2. conn' = [conn EXCEPT ![slot[i]] = c]
  BY <1>1
<1>3. SessionTypeOK'
  BY <1>1, <1>2 DEF Inv, SessionTypeOK, serverVars
<1>4. ASSUME NEW k \in Slots PROVE SlotFits(k, conn[k])'
  <2>1. SlotFits(k, conn[k]) /\ SlotFits(slot[i], conn[slot[i]])
    BY <1>1 DEF Inv
  <2>2. CASE k # slot[i]
    <3>1. conn'[k] = conn[k]
      BY <1>1, <1>2, <2>2
    <3>2. Wired(k, conn[k])'
      BY <1>1, <2>1, <2>2, <3>1 DEF SlotFits, Wired, Holds
    <3> QED
      BY <2>1, <3>1, <3>2 DEF SlotFits, Registered, Opened, serverVars
  <2>3. CASE k = slot[i]
    <3>1. conn'[k] = c
      BY <1>1, <1>2, <2>3
    <3>2. c.sLost = TRUE => c.down = TRUE
      BY <2>1, <2>3 DEF SlotFits, Wired
    <3>3. ASSUME c.down = FALSE PROVE c.h # "none" /\ Holds(c.who, k)'
      <4>1. conn[k].down = FALSE
        BY <1>1, <2>3, <3>3 DEF Conns
      <4>2. c.h # "none" /\ Holds(c.who, k) /\ stage \in {"wait", "open", "closing"}
        BY <2>1, <2>3, <3>3, <4>1 DEF SlotFits, Wired
      <4> QED
        BY <1>1, <4>2 DEF Holds
    <3>4. Wired(k, conn[k])'
      BY <3>1, <3>2, <3>3 DEF Wired
    <3> QED
      BY <2>1, <2>3, <3>1, <3>4 DEF SlotFits, Registered, Opened, serverVars
  <2> QED
    BY <2>2, <2>3
<1>5. SecureStaysSecure'
  BY <1>1 DEF Inv, SecureStaysSecure
<1> QED
  BY <1>3, <1>4, <1>5 DEF Inv, serverVars

LEMMA FollowSecure ==
  ASSUME NEW from, NEW to, Follow(from, to) # NoUri
  PROVE  Follow(from, to) = to /\ (from.secure => to.secure)
BY DEF Follow

\* What Aborts(i) leaves in the slot of client i.
AbortedAt(i) ==
  IF conn[slot[i]].cLost THEN conn[slot[i]] ELSE [Down(conn[slot[i]]) EXCEPT !.cs = "closed"]

LEMMA AbortedFits ==
  ASSUME Inv, NEW i \in Clients
  PROVE  LET c == conn[slot[i]]  d == AbortedAt(i) IN
         /\ d \in Conns /\ d.down = TRUE /\ (d.cLost = TRUE => d.down = TRUE)
         /\ d.sLost = c.sLost /\ d.h = c.h /\ d.ss = c.ss /\ d.who = c.who
<1>1. conn[slot[i]] \in Conns /\ SlotFits(slot[i], conn[slot[i]])
  BY DEF Inv, SessionTypeOK
<1>2. CASE conn[slot[i]].cLost
  BY <1>1, <1>2 DEF AbortedAt, SlotFits, Wired
<1>3. CASE ~conn[slot[i]].cLost
  BY <1>1, <1>3 DEF AbortedAt, Down, Conns, Phases
<1> QED
  BY <1>2, <1>3

\* An attempt ends with the connection aborted.
LEMMA AbortsInv ==
  ASSUME Inv, NEW i \in Clients, Aborts(i),
         UNCHANGED <<setup, serverVars, slot>>, faults' \in Nat,
         NEW stage \in {"connect", "sleep", "failed"}, cpc' = [cpc EXCEPT ![i] = stage],
         NEW n \in 0..(MAX_REDIRECTS - 1), hops' = [hops EXCEPT ![i] = n],
         UNCHANGED uri \/ \E u \in Uris : uri' = [uri EXCEPT ![i] = u] /\ (uri[i].secure => u.secure)
  PROVE  Inv'
<1> DEFINE d == AbortedAt(i)
<1>1. conn' = [conn EXCEPT ![slot[i]] = d]
  BY DEF Aborts, AbortedAt, Inv, SessionTypeOK
<1>2. /\ d \in Conns /\ d.down = TRUE /\ (d.cLost = TRUE => d.down = TRUE)
      /\ d.sLost = conn[slot[i]].sLost /\ d.h = conn[slot[i]].h
      /\ d.ss = conn[slot[i]].ss /\ d.who = conn[slot[i]].who
  BY AbortedFits
<1> HIDE DEF d
<1> QED
  BY <1>1, <1>2, ClientStep

LEMMA FailsTyped ==
  ASSUME NEW i \in Clients, NEW e, Fails(i, e)
  PROVE  \E stage \in {"connect", "sleep", "failed"} : cpc' = [cpc EXCEPT ![i] = stage]
BY DEF Fails, ClientGoes

LEMMA ConnectInv ==
  ASSUME Inv, NEW i \in Clients, CreateConnection(i)
  PROVE  Inv'
<1>1. /\ conn \in [Slots -> Conns] /\ slot \in [Clients -> Slots] /\ uri \in [Clients -> Uris]
      /\ cpc \in [Clients -> {"connect", "wait", "open", "closing", "sleep", "failed"}]
      /\ hops \in [Clients -> 0..(MAX_REDIRECTS - 1)] /\ faults \in Nat
  BY DEF Inv, SessionTypeOK
<1>2. cpc[i] = "connect" /\ UNCHANGED <<uri, setup, serverVars>>
  BY DEF CreateConnection, ClientRest
<1>3. SecureStaysSecure'
  BY <1>2 DEF Inv, SecureStaysSecure
<1>4. ASSUME NEW k \in Slots, conn[k].down = FALSE PROVE conn[k].who # i
  BY <1>2, <1>4 DEF Inv, SlotFits, Wired, Holds
<1>5. CASE /\ srv = "serving" /\ ClientGoes(i, "wait") /\ UNCHANGED <<hops, faults>>
           /\ \E k \in Slots :
             /\ Free(k)
             /\ slot' = [slot EXCEPT ![i] = k]
             /\ conn' = [conn EXCEPT ![k] =
                  [Idle EXCEPT !.who = i, !.cs = "connecting", !.ss = "connecting",
                               !.cLost = FALSE, !.sLost = FALSE, !.down = FALSE, !.h = "accepted"]]
  <2>1. PICK k \in Slots :
             /\ Free(k)
             /\ slot' = [slot EXCEPT ![i] = k]
             /\ conn' = [conn EXCEPT ![k] =
                  [Idle EXCEPT !.who = i, !.cs = "connecting", !.ss = "connecting",
                               !.cLost = FALSE, !.sLost = FALSE, !.down = FALSE, !.h = "accepted"]]
    BY <1>5
  <2> DEFINE c == [Idle EXCEPT !.who = i, !.cs = "connecting", !.ss = "connecting",
                               !.cLost = FALSE, !.sLost = FALSE, !.down = FALSE, !.h = "accepted"]
  <2>2. /\ c \in Conns /\ c.who = i /\ c.ss = "connecting" /\ c.cLost = FALSE /\ c.sLost = FALSE
        /\ c.h = "accepted"
    BY DEF Idle, Conns, Phases, Stages, Answers
  <2>3. conn' = [conn EXCEPT ![k] = c]
    BY <2>1
  <2> HIDE DEF c
  <2>4. SessionTypeOK'
    BY <1>1, <1>2, <1>5, <2>1, <2>2, <2>3 DEF Inv, SessionTypeOK, ClientGoes, serverVars
  <2>5. ASSUME NEW j \in Slots PROVE SlotFits(j, conn[j])'
    <3>1. SlotFits(j, conn[j])
      BY DEF Inv
    <3>2. CASE j # k
      <4>1. conn'[j] = conn[j]
        BY <1>1, <2>3, <3>2
      <4>2. Wired(j, conn[j])'
        BY <1>1, <1>4, <1>5, <2>1, <3>1, <4>1 DEF SlotFits, Wired, Holds, ClientGoes
      <4> QED
        BY <1>2, <3>1, <4>1, <4>2 DEF SlotFits, Registered, Opened, serverVars
    <3>3. CASE j = k
      <4>1. conn'[j] = c
        BY <1>1, <2>3, <3>3
      <4>2. Holds(i, k)'
        BY <1>1, <1>5, <2>1 DEF Holds, ClientGoes
      <4> QED
        BY <1>2, <1>5, <2>2, <3>3, <4>1, <4>2 DEF SlotFits, Wired, Registered, Opened, serverVars
    <3> QED
      BY <3>2, <3>3
  <2> QED
    BY <1>2, <1>3, <2>4, <2>5 DEF Inv, serverVars
<1>6. CASE /\ Fails(i, "OSError") /\ hops' = [hops EXCEPT ![i] = 0]
           /\ faults' = (IF srv = "serving" THEN faults + 1 ELSE faults)
           /\ UNCHANGED <<conn, slot>>
  <2>1. PICK stage \in {"connect", "sleep", "failed"} : cpc' = [cpc EXCEPT ![i] = stage]
    BY <1>6, FailsTyped
  <2>2. 0 \in 0..(MAX_REDIRECTS - 1)
    BY SessionAssumption
  <2>3. SessionTypeOK'
    BY <1>1, <1>2, <1>6, <2>1, <2>2 DEF Inv, SessionTypeOK, serverVars
  <2>4. ASSUME NEW j \in Slots PROVE SlotFits(j, conn[j])'
    <3>1. SlotFits(j, conn[j]) /\ conn'[j] = conn[j]
      BY <1>6 DEF Inv
    <3>2. Wired(j, conn[j])'
      BY <1>1, <1>4, <1>6, <2>1, <3>1 DEF SlotFits, Wired, Holds
    <3> QED
      BY <1>2, <3>1, <3>2 DEF SlotFits, Registered, Opened, serverVars
  <2> QED
    BY <1>2, <1>3, <2>3, <2>4 DEF Inv, serverVars
<1> QED
  BY <1>5, <1>6 DEF CreateConnection

LEMMA AnsweredInv ==
  ASSUME Inv, NEW i \in Clients, Answered(i)
  PROVE  Inv'
<1> DEFINE c == conn[slot[i]]
           to == Follow(uri[i], setup.moved[uri[i]])
<1>1. /\ c \in Conns /\ SlotFits(slot[i], c) /\ uri[i] \in Uris /\ hops[i] \in 0..(MAX_REDIRECTS - 1)
      /\ conn \in [Slots -> Conns] /\ slot[i] \in Slots /\ faults \in Nat
      /\ setup \in Setups
  BY DEF Inv, SessionTypeOK
<1>2. UNCHANGED <<setup, serverVars, slot>> /\ faults' \in Nat
  BY <1>1 DEF Answered, ClientRest
<1>3. 0 \in 0..(MAX_REDIRECTS - 1)
  BY SessionAssumption
<1>4. CASE /\ conn' = [conn EXCEPT ![slot[i]].cs = "open", ![slot[i]].resp = "none"]
           /\ ClientGoes(i, "open") /\ hops' = [hops EXCEPT ![i] = 0] /\ UNCHANGED uri
  <2> DEFINE d == [c EXCEPT !.cs = "open", !.resp = "none"]
  <2>1. conn' = [conn EXCEPT ![slot[i]] = d]
    BY <1>1, <1>4
  <2>2. /\ d \in Conns /\ d.cLost = c.cLost /\ d.down = c.down /\ d.sLost = c.sLost
        /\ d.h = c.h /\ d.ss = c.ss /\ d.who = c.who
    BY <1>1 DEF Conns, Phases, Answers
  <2>3. d.cLost = TRUE => d.down = TRUE
    BY <1>1, <2>2 DEF SlotFits, Wired
  <2>4. cpc' = [cpc EXCEPT ![i] = "open"]
    BY <1>4 DEF ClientGoes
  <2> HIDE DEF d
  <2> QED
    BY <1>2, <1>3, <1>4, <2>1, <2>2, <2>3, <2>4, ClientStep
<1>5. CASE /\ to # NoUri /\ Aborts(i) /\ uri' = [uri EXCEPT ![i] = to]
           /\ IF hops[i] + 1 < MAX_REDIRECTS
              THEN ClientGoes(i, "connect") /\ hops' = [hops EXCEPT ![i] = @ + 1]
              ELSE Fails(i, "SecurityError") /\ hops' = [hops EXCEPT ![i] = 0]
  <2>1. to \in Uris /\ (uri[i].secure => to.secure)
    <3>1. to = setup.moved[uri[i]] /\ (uri[i].secure => to.secure)
      BY <1>5, FollowSecure
    <3>2. setup.moved[uri[i]] \in Uris \cup {NoUri}
      BY <1>1, ConfigAssumption
    <3> QED
      BY <1>5, <3>1, <3>2
  <2>2. PICK stage \in {"connect", "sleep", "failed"} : cpc' = [cpc EXCEPT ![i] = stage]
    BY <1>5, FailsTyped DEF ClientGoes
  <2>3. PICK n \in 0..(MAX_REDIRECTS - 1) : hops' = [hops EXCEPT ![i] = n]
    <3>1. CASE hops[i] + 1 < MAX_REDIRECTS
      <4>1. hops[i] + 1 \in 0..(MAX_REDIRECTS - 1)
        BY <1>1, <3>1, SessionAssumption
      <4>2. hops' = [hops EXCEPT ![i] = hops[i] + 1]
        BY <1>5, <3>1
      <4> QED
        BY <4>1, <4>2
    <3>2. CASE ~(hops[i] + 1 < MAX_REDIRECTS)
      BY <1>3, <1>5, <3>2
    <3> QED
      BY <3>1, <3>2
  <2> HIDE DEF to
  <2> QED
    BY <1>2, <1>5, <2>1, <2>2, <2>3, AbortsInv
<1>6. CASE /\ Aborts(i) /\ Fails(i, c.resp)
           /\ hops' = [hops EXCEPT ![i] = 0] /\ UNCHANGED uri
  <2>1. PICK stage \in {"connect", "sleep", "failed"} : cpc' = [cpc EXCEPT ![i] = stage]
    BY <1>6, FailsTyped
  <2> QED
    BY <1>2, <1>3, <1>6, <2>1, AbortsInv
<1> QED
  BY <1>4, <1>5, <1>6 DEF Answered

LEMMA AttemptEndsInv ==
  ASSUME Inv, NEW i \in Clients, HandshakeLost(i) \/ HandshakeTimeout(i)
  PROVE  Inv'
<1>1. UNCHANGED <<setup, serverVars, slot, uri>> /\ faults' \in Nat
  BY DEF HandshakeLost, HandshakeTimeout, ClientRest, Inv, SessionTypeOK
<1>2. PICK stage \in {"connect", "sleep", "failed"} : cpc' = [cpc EXCEPT ![i] = stage]
  BY FailsTyped DEF HandshakeLost, HandshakeTimeout
<1>3. Aborts(i) /\ hops' = [hops EXCEPT ![i] = 0] /\ 0 \in 0..(MAX_REDIRECTS - 1)
  BY SessionAssumption DEF HandshakeLost, HandshakeTimeout
<1> QED
  BY <1>1, <1>2, <1>3, AbortsInv

LEMMA LoopInv ==
  ASSUME Inv, NEW i \in Clients, Leave(i) \/ ClientCloseTimeout(i) \/ Left(i) \/ Wake(i)
  PROVE  Inv'
<1> DEFINE c == conn[slot[i]]
<1>1. /\ c \in Conns /\ SlotFits(slot[i], c) /\ hops[i] \in 0..(MAX_REDIRECTS - 1)
      /\ conn \in [Slots -> Conns] /\ slot[i] \in Slots /\ faults \in Nat
      /\ cpc \in [Clients -> {"connect", "wait", "open", "closing", "sleep", "failed"}]
  BY DEF Inv, SessionTypeOK
<1>2. UNCHANGED <<setup, serverVars, slot, hops, uri>> /\ faults' \in Nat
  BY <1>1 DEF Leave, ClientCloseTimeout, Left, Wake, ClientRest, clientVars
<1>3. c.cLost = TRUE => c.down = TRUE
  BY <1>1 DEF SlotFits, Wired
<1>4. CASE Leave(i)
  <2> DEFINE d == [c EXCEPT !.cs = IF c.cs = "open" THEN "closing" ELSE c.cs]
  <2>1. /\ d \in Conns /\ d.cLost = c.cLost /\ d.down = c.down /\ d.sLost = c.sLost
        /\ d.h = c.h /\ d.ss = c.ss /\ d.who = c.who
    BY <1>1 DEF Conns, Phases
  <2>2. conn' = [conn EXCEPT ![slot[i]] = d] /\ cpc' = [cpc EXCEPT ![i] = "closing"]
    BY <1>1, <1>4 DEF Leave, ClientGoes
  <2> HIDE DEF d
  <2> QED
    BY <1>1, <1>2, <1>3, <2>1, <2>2, ClientStep
<1>5. CASE ClientCloseTimeout(i)
  <2> DEFINE d == Down(c)
  <2>1. /\ d \in Conns /\ d.cLost = c.cLost /\ d.down = TRUE /\ d.sLost = c.sLost
        /\ d.h = c.h /\ d.ss = c.ss /\ d.who = c.who
    BY <1>1 DEF Conns, Down
  <2>2. conn' = [conn EXCEPT ![slot[i]] = d]
    BY <1>5 DEF ClientCloseTimeout
  <2>3. cpc' = [cpc EXCEPT ![i] = "closing"]
    BY <1>1, <1>5 DEF ClientCloseTimeout, clientVars
  <2> HIDE DEF d
  <2> QED
    BY <1>1, <1>2, <2>1, <2>2, <2>3, ClientStep
<1>6. CASE Left(i)
  <2>1. UNCHANGED conn /\ cpc' = [cpc EXCEPT ![i] = "connect"] /\ c.down = TRUE
    BY <1>1, <1>3, <1>6 DEF Left, ClientGoes, Conns
  <2> QED
    BY <1>1, <1>2, <1>3, <2>1, ClientStep
<1>7. CASE Wake(i)
  <2>1. UNCHANGED conn /\ cpc' = [cpc EXCEPT ![i] = "connect"] /\ cpc[i] = "sleep"
    BY <1>7 DEF Wake, ClientGoes
  <2>2. SessionTypeOK'
    BY <1>1, <1>2, <2>1 DEF Inv, SessionTypeOK, serverVars
  <2>3. ASSUME NEW k \in Slots PROVE SlotFits(k, conn[k])'
    <3>1. SlotFits(k, conn[k]) /\ conn'[k] = conn[k]
      BY <2>1 DEF Inv
    <3>2. Wired(k, conn[k])'
      BY <1>1, <1>2, <2>1, <3>1 DEF SlotFits, Wired, Holds
    <3> QED
      BY <1>2, <3>1, <3>2 DEF SlotFits, Registered, Opened, serverVars
  <2> QED
    BY <1>2, <2>2, <2>3 DEF Inv, SecureStaysSecure, serverVars
<1> QED
  BY <1>4, <1>5, <1>6, <1>7

--------------------------------------------------------------------------------
LEMMA StepInv == Inv /\ [SessionNext]_sessionVars => Inv'
<1> SUFFICES ASSUME Inv, [SessionNext]_sessionVars PROVE Inv'
  OBVIOUS
<1>1. CASE \E k \in Slots : Serving(k) \/ Network(k) \/ Timeouts(k) \/ HandlerEnds(k) \/ Fault(k)
  BY <1>1, NetworkInv, HandshakeInv, HandlerInv DEF Serving
<1>2. CASE \E i \in Clients : Looping(i) \/ ClientTimeouts(i) \/ Leave(i)
  BY <1>2, ConnectInv, AnsweredInv, AttemptEndsInv, LoopInv DEF Looping, ClientTimeouts
<1>3. CASE StopServing \/ CloseConnections \/ Closed \/ Serve
  BY <1>3, ServerInv
<1>4. CASE UNCHANGED sessionVars
  BY <1>4 DEF sessionVars, Inv, SessionTypeOK, SlotFits, Wired, Holds, Registered, Opened, SecureStaysSecure
<1> QED
  BY <1>1, <1>2, <1>3, <1>4 DEF SessionNext

\* The invariant holds in every state, for any constants.
THEOREM SessionInv == SessionSpec => []Inv
<1> QED
  BY InitInv, StepInv, PTL DEF SessionSpec

\* wait_closed() returns when every handler is done and every connection is
\* closed, and no connection opens behind close() unless process_response is
\* a coroutine.
THEOREM ServerClosesCleanly == SessionSpec => []ClosesCleanly
<1>1. Inv => ClosesCleanly
  <2> SUFFICES ASSUME Inv PROVE ClosesCleanly
    OBVIOUS
  <2>1. ClosedMeansDone
    <3> SUFFICES ASSUME srv = "closed", NEW k \in Slots
                 PROVE  conn[k].h = "none" /\ conn[k].down
      BY DEF ClosedMeansDone
    <3>1. SlotFits(k, conn[k]) /\ handlers = {} /\ conn[k] \in Conns
      BY DEF Inv, SessionTypeOK
    <3>2. conn[k].h = "none"
      BY <3>1 DEF SlotFits, Registered
    <3> QED
      BY <3>1, <3>2 DEF SlotFits, Wired, Conns
  <2>2. NoneOpensBehindClose
    BY DEF NoneOpensBehindClose, Inv, SlotFits, Opened
  <2> QED
    BY <2>1, <2>2 DEF ClosesCleanly, Inv
<1> QED
  BY <1>1, SessionInv, PTL

\* A client has one live TCP connection at most, over failed attempts,
\* redirects and reconnections, and no redirect takes it out of TLS.
THEOREM ClientKeepsOneAndSecure == SessionSpec => []KeepsOneAndSecure
<1>1. Inv => KeepsOneAndSecure
  <2> SUFFICES ASSUME Inv, NEW i \in Clients
               PROVE  Cardinality({k \in Slots : conn[k].who = i /\ ~conn[k].down}) <= 1
    BY DEF KeepsOneAndSecure, OneLiveConnection, Inv
  <2> DEFINE L == {k \in Slots : conn[k].who = i /\ ~conn[k].down}
  <2>1. L \subseteq {slot[i]}
    BY DEF Inv, SessionTypeOK, SlotFits, Wired, Holds, Conns
  <2>2. IsFiniteSet({slot[i]}) /\ Cardinality({slot[i]}) = 1
    BY FS_Singleton
  <2> HIDE DEF L
  <2>3. IsFiniteSet(L) /\ Cardinality(L) <= Cardinality({slot[i]})
    BY <2>1, <2>2, FS_Subset
  <2> QED
    BY <2>2, <2>3 DEF L
<1> QED
  BY <1>1, SessionInv, PTL
================================================================================
