------------------------- MODULE SyncConnectionProofs -------------------------
(***************************************************************************)
(* What SyncConnection promises in every state.                            *)
(***************************************************************************)
EXTENDS SyncConnection, PeerStreamProofs

Places == {"idle", "sleep", "done", "closed", "pong", "failed", "next", "block", "popped", "reset", "assert",
           "yielded", "invalid", "eof", "unusable", "refused", "write", "final", "fail", "close", "ping"}
Ctxs == [at: {"ok", "raise", "sendall", "join", "late", "socket", "assembler", "last"}, raise: BOOLEAN]
EvPlaces == {"flow", "read", "data", "sendall", "events", "error", "timeout", "eof", "socket", "assembler", "done"}

LinkTypes ==
  /\ cfg \in Configs /\ Running(p) /\ sock \in BOOLEAN /\ holder \in Users \cup {Events, NoThread}
  /\ deadline \in BOOLEAN /\ exc \in {"none", "error", "timeout", "internal"}
  /\ ev \in [at: EvPlaces, data: Seq(PeerItems), timed: BOOLEAN]
  /\ pings \in [1..MaxPings -> {"unsent", "pending", "done"}]
  /\ ended \in BOOLEAN /\ broken \in BOOLEAN /\ shut \in BOOLEAN
AppTypes ==
  /\ ctx \in [Users -> Ctxs] /\ pc \in [Users -> Places]
  /\ sip \in BOOLEAN /\ left \in [Senders -> Nat]

\* Nobody closes the connection under recv_events() but a thread that gave
\* up waiting, or could not write; recv_events() ends with everything closed.
Ends ==
  /\ deadline => p.state # "OPEN"
  /\ ended => p.state = "CLOSED" /\ (shut \/ Over)
  /\ p.state = "CLOSED" => shut \/ ev.at \in {"socket", "assembler", "done"}
  /\ broken => shut
  /\ shut => ~sock
  /\ ev.at = "assembler" => ~sock
  /\ Over => ~sock /\ ended /\ ~Waiting

\* What a thread in send_context() relies on.
Contexts ==
  /\ \A t \in Users :
       /\ ctx[t].at \in {"join", "late"} => deadline
       /\ ctx[t].at = "sendall" <=> holder = t
       /\ ctx[t].at = "sendall" /\ CloseExpected(p) => deadline
       /\ ctx[t].at \in {"assembler", "last"} => shut
       /\ ctx[t].at = "raise" => Over
       /\ t \in Closers /\ ctx[t].at = "sendall" => CloseExpected(p)
       /\ t \notin Senders /\ ctx[t].at \notin {"ok", "raise"} => pc[t] \in {"close", "ping", "fail"}
       /\ t \in Senders /\ ctx[t].at \notin {"ok", "raise"} => pc[t] \in {"write", "final", "fail"}
  /\ holder = Events <=> ev.at = "sendall"

Inside(s) == pc[s] \in {"write", "next"}
Sending ==
  /\ p.state = "OPEN" =>
       /\ p.expectCont <=> sip
       /\ \A s \in Senders : Inside(s) => sip
       /\ \A s, t \in Senders : Inside(s) /\ Inside(t) => s = t
  /\ \A s \in Senders : pc[s] = "idle" => left[s] = cfg.pieces[s]
  /\ \A c \in Closers : pc[c] = "done" => Over
  /\ \A t \in Senders \cup {Reader} : pc[t] = "closed" => Over

Base == LinkTypes /\ AppTypes /\ Ends /\ Contexts /\ Sending

QueueInv ==
  /\ inbox \in Seq(PeerItems) /\ queue \in Seq(QueueFrames) /\ parts \in Seq(QueueFrames)
  /\ paused \in BOOLEAN /\ getting \in BOOLEAN /\ streams \in BOOLEAN /\ load \in Nat
  /\ ev.at \notin {"data", "sendall", "events"} => ev.data = <<>>
  /\ \A i \in DOMAIN queue : queue[i] = EndMark => i = Len(queue) /\ ended
  /\ \A i \in DOMAIN parts : parts[i] # EndMark
  /\ \A i \in 1..(Len(parts) - 1) : ~parts[i].fin
  /\ pc[Reader] \notin {"popped", "assert"} => \A i \in DOMAIN parts : ~parts[i].fin
  /\ pc[Reader] = "popped" => parts # <<>>
  /\ pc[Reader] \in {"next", "block", "popped", "reset", "yielded"} => getting
  /\ NoLostWakeup

IInv == Base /\ QueueInv

--------------------------------------------------------------------------------
(* Moves of a thread.                                                      *)

LEMMA UsersDiffer ==
  /\ Reader \in Users /\ Keeper \in Users /\ Senders \subseteq Users /\ Closers \subseteq Users
  /\ Reader \notin Senders /\ Reader \notin Closers /\ Keeper \notin Senders /\ Keeper \notin Closers
  /\ Reader # Keeper /\ Events \notin Users /\ NoThread \notin Users /\ Events # NoThread
  /\ \A s \in Senders : s \notin Closers
BY ScenarioAssumption DEF Users, Reader, Keeper, NoThread, Events

\* What no step takes back.
Onwards ==
  /\ LinkTypes' /\ Ends' /\ cfg' = cfg
  /\ (deadline => deadline') /\ (shut => shut') /\ (Over => Over')
  /\ (p' = p \/ holder = NoThread) /\ (p'.state = "OPEN" => p.state = "OPEN")

\* Where a step leaves thread t in its context.
Fits(t, c) ==
  /\ c \in Ctxs /\ (c.at \in {"join", "late"} => deadline') /\ (c.at = "sendall" <=> holder' = t)
  /\ (c.at = "sendall" /\ CloseExpected(p') => deadline') /\ (c.at \in {"assembler", "last"} => shut')
  /\ (c.at = "raise" => Over')
  /\ t \in Closers => (c.at = "sendall" => CloseExpected(p')) /\ (c.at = "ok" => Over')

\* Thread t goes on to `at' without another thread within its message.
Turns(t, at) ==
  p'.state = "OPEN" =>
    /\ p'.expectCont <=> sip'
    /\ at = "write" => sip'
    /\ at = "write" \/ ~sip' => \A s \in Senders \ {t} : ~Inside(s)

LEMMA ProceedKeeps ==
  ASSUME Base, Onwards, NEW t \in Users, NEW at \in Places, NEW c, Fits(t, c), Proceed(t, at, c), Turns(t, at),
         holder' = holder \/ (holder \in {t, NoThread} /\ holder' \in {t, NoThread}), ev' = ev,
         t \in Senders => at \in {"write", "final", "fail"}, t \notin Senders => at \in {"close", "ping", "fail"},
         sip' \in BOOLEAN, left' \in [Senders -> Nat], \A s \in Senders \ {t} : left'[s] = left[s]
  PROVE  /\ Base' /\ pc' = [pc EXCEPT ![t] = pc'[t]] /\ (t # Reader => pc'[Reader] = pc[Reader])
         /\ t = Reader => pc'[Reader] \in {"eof", "close", "ping", "fail"}
<1> DEFINE over == c.at \in {"ok", "raise"}
<1> DEFINE goes == IF over THEN After(t, at, c.at = "raise") ELSE at
<1>1. ctx' = [ctx EXCEPT ![t] = c] /\ pc' = [pc EXCEPT ![t] = goes]
  BY DEF Proceed, Goes
<1>2. t \in Senders \/ t \in Closers \/ t = Reader \/ t = Keeper
  BY DEF Users
<1>3. /\ t \in Senders /\ over => goes = IF c.at = "raise" THEN "closed" ELSE IF at = "fail" THEN "failed"
                                         ELSE IF at = "write" THEN "next" ELSE "done"
      /\ t \in Closers /\ over => goes = "done"
      /\ t = Reader /\ over => goes = "eof"
      /\ t = Keeper /\ over => goes \in {"pong", "done"}
      /\ ~over => goes = at
  BY UsersDiffer DEF After
<1>4. goes \in Places
  BY <1>2, <1>3 DEF Places
<1> HIDE DEF goes, over
<1>5. /\ ctx'[t] = c /\ pc'[t] = goes /\ \A u \in Users \ {t} : ctx'[u] = ctx[u] /\ pc'[u] = pc[u]
      /\ ctx' \in [Users -> Ctxs] /\ pc' \in [Users -> Places]
  BY <1>1, <1>4 DEF Base, AppTypes, Fits
<1>6. LinkTypes' /\ AppTypes' /\ Ends'
  BY <1>5 DEF Onwards, AppTypes
<1>7. Contexts'
  <2>1. ASSUME NEW u \in Users
        PROVE  /\ ctx'[u].at \in {"join", "late"} => deadline'
               /\ ctx'[u].at = "sendall" <=> holder' = u
               /\ ctx'[u].at = "sendall" /\ CloseExpected(p') => deadline'
               /\ ctx'[u].at \in {"assembler", "last"} => shut'
               /\ ctx'[u].at = "raise" => Over'
               /\ u \in Closers /\ ctx'[u].at = "sendall" => CloseExpected(p')
               /\ u \notin Senders /\ ctx'[u].at \notin {"ok", "raise"} => pc'[u] \in {"close", "ping", "fail"}
               /\ u \in Senders /\ ctx'[u].at \notin {"ok", "raise"} => pc'[u] \in {"write", "final", "fail"}
    <3>1. CASE u = t
      <4>1. ~over => goes = at
        BY <1>3
      <4> QED
        BY <1>5, <3>1, <4>1 DEF Fits, over
    <3>2. CASE u # t
      <4>1. ctx'[u] = ctx[u] /\ pc'[u] = pc[u]
        BY <1>5, <3>2
      <4>2. /\ ctx[u].at \in {"join", "late"} => deadline
            /\ ctx[u].at = "sendall" <=> holder = u
            /\ ctx[u].at = "sendall" /\ CloseExpected(p) => deadline
            /\ ctx[u].at \in {"assembler", "last"} => shut
            /\ ctx[u].at = "raise" => Over
            /\ u \in Closers /\ ctx[u].at = "sendall" => CloseExpected(p)
            /\ u \notin Senders /\ ctx[u].at \notin {"ok", "raise"} => pc[u] \in {"close", "ping", "fail"}
            /\ u \in Senders /\ ctx[u].at \notin {"ok", "raise"} => pc[u] \in {"write", "final", "fail"}
        BY DEF Base, Contexts
      <4>3. holder' = u <=> holder = u
        BY <3>2, UsersDiffer
      <4>4. holder = u => p' = p
        BY UsersDiffer DEF Onwards
      <4> QED
        BY <4>1, <4>2, <4>3, <4>4 DEF Onwards
    <3> QED
      BY <3>1, <3>2
  <2>2. holder' = Events <=> ev'.at = "sendall"
    BY UsersDiffer DEF Base, Contexts
  <2> QED
    BY <2>1, <2>2 DEF Contexts
<1>8. Sending'
  <2>1. ASSUME p'.state = "OPEN"
        PROVE  /\ p'.expectCont <=> sip'
               /\ \A s \in Senders : Inside(s)' => sip'
               /\ \A s, u \in Senders : Inside(s)' /\ Inside(u)' => s = u
    <3>1. p.state = "OPEN"
      BY <2>1 DEF Onwards
    <3>2. t \in Senders /\ Inside(t)' => at = "write"
      BY <1>3, <1>5 DEF Inside, over
    <3>3. \A s \in Senders \ {t} : Inside(s)' <=> Inside(s)
      BY <1>5, UsersDiffer DEF Inside
    <3>4. \A s, u \in Senders : Inside(s) /\ Inside(u) => s = u
      BY <3>1 DEF Base, Sending
    <3>5. (p'.expectCont <=> sip') /\ (at = "write" => sip') /\ (at = "write" \/ ~sip' => \A s \in Senders \ {t} : ~Inside(s))
      BY <2>1 DEF Turns
    <3>6. ASSUME NEW s \in Senders, Inside(s)' PROVE sip'
      BY <3>2, <3>3, <3>5, <3>6
    <3>7. ASSUME NEW s \in Senders, NEW u \in Senders, Inside(s)', Inside(u)' PROVE s = u
      BY <3>2, <3>3, <3>4, <3>5, <3>7
    <3> QED
      BY <3>5, <3>6, <3>7
  <2>2. ASSUME NEW s \in Senders, pc'[s] = "idle" PROVE left'[s] = cfg'.pieces[s]
    <3>1. s # t
      BY <1>3, <1>5, <2>2 DEF over
    <3> QED
      BY <1>5, <2>2, <3>1, UsersDiffer DEF Base, Sending, Onwards
  <2>3. ASSUME NEW u \in Closers, pc'[u] = "done" PROVE Over'
    <3>1. CASE u = t
      BY <1>3, <1>5, <2>3, <3>1, UsersDiffer DEF Fits, over
    <3>2. CASE u # t
      BY <1>5, <2>3, <3>2, UsersDiffer DEF Base, Sending, Onwards
    <3> QED
      BY <3>1, <3>2
  <2>4. ASSUME NEW u \in Senders \cup {Reader}, pc'[u] = "closed" PROVE Over'
    <3>1. CASE u = t
      BY <1>3, <1>5, <2>4, <3>1, UsersDiffer DEF Fits, over
    <3>2. CASE u # t
      BY <1>5, <2>4, <3>2, UsersDiffer DEF Base, Sending, Onwards
    <3> QED
      BY <3>1, <3>2
  <2> QED
    BY <2>1, <2>2, <2>3, <2>4 DEF Sending
<1>9. t = Reader => pc'[Reader] \in {"eof", "close", "ping", "fail"}
  BY <1>3, <1>5, UsersDiffer
<1> QED
  BY <1>1, <1>5, <1>6, <1>7, <1>8, <1>9, UsersDiffer DEF Base, AppTypes

\* A thread moves on in its context.
LEMMA MoveKeeps ==
  ASSUME Base, Onwards, NEW t \in Users, NEW c, Fits(t, c), ctx[t].at \notin {"ok", "raise"},
         Proceed(t, pc[t], c), p' = p \/ p'.state = "CLOSED", ev' = ev, sip' = sip, left' = left,
         holder' = holder \/ (holder \in {t, NoThread} /\ holder' \in {t, NoThread})
  PROVE  /\ Base' /\ pc' = [pc EXCEPT ![t] = pc'[t]] /\ (t # Reader => pc'[Reader] = pc[Reader])
         /\ t = Reader => pc'[Reader] \in {"eof", "close", "ping", "fail"}
<1>1. /\ pc[t] \in Places /\ sip' \in BOOLEAN /\ left' \in [Senders -> Nat]
      /\ \A s \in Senders \ {t} : left'[s] = left[s]
  BY DEF Base, AppTypes
<1>2. /\ t \in Senders => pc[t] \in {"write", "final", "fail"}
      /\ t \notin Senders => pc[t] \in {"close", "ping", "fail"}
  BY DEF Base, Contexts
<1>3. Turns(t, pc[t])
  <2> SUFFICES ASSUME p'.state = "OPEN"
               PROVE  /\ p'.expectCont <=> sip'
                      /\ pc[t] = "write" => sip'
                      /\ pc[t] = "write" \/ ~sip' => \A s \in Senders \ {t} : ~Inside(s)
    BY DEF Turns
  <2>1. p' = p /\ (sip' <=> sip)
    OBVIOUS
  <2>2. /\ p.expectCont <=> sip
        /\ \A s \in Senders : Inside(s) => sip
        /\ \A s, u \in Senders : Inside(s) /\ Inside(u) => s = u
    BY <2>1 DEF Base, Sending
  <2>3. pc[t] = "write" => t \in Senders /\ Inside(t)
    BY <1>2 DEF Inside
  <2> QED
    BY <2>1, <2>2, <2>3
<1> QED
  BY <1>1, <1>2, <1>3, ProceedKeeps

LEMMA InContextIs ==
  ASSUME NEW at \in {"ok", "raise", "sendall", "join", "late", "socket", "assembler", "last"}, NEW raise \in BOOLEAN
  PROVE  InContext(at, raise) \in Ctxs /\ InContext(at, raise).at = at /\ (InContext(at, raise).raise <=> raise)
         /\ Returned \in Ctxs /\ Returned.at = "ok"
BY DEF InContext, Ctxs, Returned

LEMMA SettledIs ==
  ASSUME LinkTypes
  PROVE  /\ Settled \in [1..MaxPings -> {"unsent", "pending", "done"}]
         /\ \A i \in DOMAIN Settled : Settled[i] # "pending"
BY DEF LinkTypes, Settled

\* Nothing moves but the threads, and what they do to the socket.
LEMMA OnwardsKept ==
  ASSUME LinkTypes, Ends, UNCHANGED <<cfg, p, ev, pings, deadline, ended, broken>>,
         holder' \in Users \cup {Events, NoThread}, exc' \in {"none", "error", "timeout", "internal"},
         sock' \in BOOLEAN, shut' \in BOOLEAN, sock' => sock, shut => shut', shut' => ~sock'
  PROVE  Onwards
<1>1. /\ cfg' = cfg /\ p' = p /\ ev' = ev /\ pings' = pings /\ deadline' = deadline /\ ended' = ended /\ broken' = broken
      /\ (deadline' <=> deadline) /\ (ended' <=> ended) /\ (broken' <=> broken) /\ (Over' <=> Over) /\ (Waiting' <=> Waiting)
  BY DEF Waiting, Over
<1>2. LinkTypes'
  BY <1>1 DEF LinkTypes
<1>3. Ends'
  BY <1>1 DEF Ends
<1> QED
  BY <1>1, <1>2, <1>3 DEF Onwards

\* A context that goes on without the protocol.
InSection(t) == InCtx(t) \/ CtxSent(t, "ok") \/ CtxSent(t, "reset")

LEMMA InCtxKeeps ==
  ASSUME Base, NEW t \in Users, InSection(t)
  PROVE  /\ Base' /\ pc' = [pc EXCEPT ![t] = pc'[t]] /\ (t # Reader => pc'[Reader] = pc[Reader])
         /\ t = Reader => pc'[Reader] \in {"eof", "close", "ping", "fail"}
<1>1. /\ LinkTypes /\ Ends
      /\ ctx[t].at \in {"join", "late"} => deadline
      /\ ctx[t].at = "sendall" <=> holder = t
      /\ ctx[t].at = "sendall" /\ CloseExpected(p) => deadline
      /\ ctx[t].at \in {"assembler", "last"} => shut
      /\ t \in Closers /\ ctx[t].at = "sendall" => CloseExpected(p)
      /\ ctx[t] \in Ctxs /\ t # NoThread
  BY UsersDiffer DEF Base, Contexts, AppTypes
<1>2. CASE CtxSent(t, "ok") \/ CtxSent(t, "error") \/ CtxSent(t, "reset")
  <2>1. PICK how \in {"ok", "error", "reset"} : CtxSent(t, how)
    BY <1>2
  <2>2. /\ ctx[t].at = "sendall" /\ holder' = NoThread /\ holder = t
        /\ Proceed(t, pc[t], IF how # "ok" THEN InContext("socket", TRUE)
                             ELSE IF CloseExpected(p) THEN InContext("join", FALSE) ELSE Returned)
        /\ UNCHANGED <<p, sock, deadline, exc, ev, pings, ended, shut, cfg, sip, left, broken>>
    BY <1>1, <2>1 DEF CtxSent, CtxRest, queueVars
  <2>3. Onwards
    BY <1>1, <2>2, OnwardsKept DEF LinkTypes, Ends
  <2>4. PICK c : /\ c = (IF how # "ok" THEN InContext("socket", TRUE)
                         ELSE IF CloseExpected(p) THEN InContext("join", FALSE) ELSE Returned)
                 /\ Proceed(t, pc[t], c)
    BY <2>2
  <2>5. Fits(t, c)
    <3>1. c \in Ctxs /\ c.at \in {"socket", "join", "ok"} /\ (c.at = "join" => CloseExpected(p))
          /\ (c.at = "ok" => ~CloseExpected(p))
      BY <2>4, InContextIs
    <3> QED
      BY <1>1, <2>2, <3>1 DEF Fits
  <2> QED
    BY <2>2, <2>3, <2>4, <2>5, MoveKeeps
<1>3. CASE CtxJoined(t) \/ CtxLate(t) \/ CtxLast(t)
  <2>1. /\ ctx[t].at \in {"join", "last"} /\ UNCHANGED <<p, sockVars, exc, ev, pings, ended, shut, cfg, sip, left, broken>>
    BY <1>3 DEF CtxJoined, CtxLate, CtxLast, CtxRest, queueVars
  <2>2. Onwards
    BY <1>1, <2>1, OnwardsKept DEF LinkTypes, Ends, sockVars
  <2>3. PICK c : /\ Proceed(t, pc[t], c) /\ c \in Ctxs /\ c.at \in {"socket", "ok", "late", "raise"}
                 /\ c.at = "late" => deadline
                 /\ c.at \in {"ok", "raise"} => Over
    BY <1>3, InContextIs DEF CtxJoined, CtxLate, CtxLast
  <2>4. Fits(t, c)
    <3>1. (deadline' <=> deadline) /\ (Over' <=> Over) /\ holder' = holder /\ holder # t
      BY <1>1, <2>1 DEF Over, sockVars
    <3> QED
      BY <2>3, <3>1 DEF Fits
  <2> QED
    BY <2>1, <2>2, <2>3, <2>4, MoveKeeps DEF sockVars
<1>4. CASE CtxLateSet(t) \/ CtxShutdown(t)
  <2>1. PICK at \in {"socket", "assembler"} :
          /\ ctx[t].at \in {"late", "socket"} /\ Proceed(t, pc[t], InContext(at, TRUE)) /\ (at = "assembler" => shut' = TRUE)
          /\ exc' \in {exc, "timeout"} /\ UNCHANGED <<p, holder, deadline, ev, pings, ended, cfg, sip, left, broken>>
    BY <1>4 DEF CtxLateSet, CtxShutdown, CtxRest, queueVars, sockVars
  <2>2. sock' \in BOOLEAN /\ shut' \in BOOLEAN /\ (sock' => sock) /\ (shut => shut') /\ (shut' => ~sock')
    <3>1. CASE CtxLateSet(t)
      <4>1. sock' = sock /\ shut' = shut /\ (sock' <=> sock) /\ (shut' <=> shut)
        BY <3>1 DEF CtxLateSet, sockVars
      <4> QED
        BY <1>1, <4>1 DEF LinkTypes, Ends
    <3>2. CASE CtxShutdown(t)
      BY <3>2 DEF CtxShutdown
    <3> QED
      BY <1>4, <3>1, <3>2
  <2>3. Onwards
    BY <1>1, <2>1, <2>2, OnwardsKept DEF LinkTypes
  <2>4. Fits(t, InContext(at, TRUE))
    BY <1>1, <2>1, InContextIs DEF Fits
  <2> QED
    BY <2>1, <2>3, <2>4, MoveKeeps
<1>5. CASE CtxAssembler(t)
  <2>1. /\ ctx[t].at = "assembler" /\ Proceed(t, pc[t], InContext("last", TRUE)) /\ shut /\ Free /\ p' = Written(EofOnce(p))
        /\ ended' = TRUE /\ pings' = Settled /\ UNCHANGED <<sockVars, exc, ev, shut, cfg, sip, left, broken>>
    BY <1>1, <1>5 DEF CtxAssembler, CloseAssembler, AssemblerClose, CtxRest
  <2>2. Running(p') /\ p'.state = "CLOSED"
    BY <1>1, <2>1, EofOnceIs, WrittenIs DEF LinkTypes, Alike
  <2>3. Onwards
    <3>1. LinkTypes'
      BY <1>1, <2>1, <2>2, SettledIs DEF LinkTypes, sockVars
    <3>2. ~Waiting'
      BY <1>1, <2>1, SettledIs DEF Waiting
    <3>3. (deadline' <=> deadline) /\ (shut' <=> shut) /\ (Over' <=> Over) /\ (sock' <=> sock) /\ ev' = ev /\ (broken' <=> broken)
      BY <2>1 DEF Over, sockVars
    <3>4. Ends'
      BY <1>1, <2>1, <2>2, <3>2, <3>3 DEF Ends
    <3> QED
      BY <2>1, <2>2, <3>1, <3>3, <3>4 DEF Onwards, Free
  <2>4. Fits(t, InContext("last", TRUE))
    BY <1>1, <2>1, InContextIs DEF Fits, sockVars
  <2> QED
    BY <2>1, <2>2, <2>3, <2>4, MoveKeeps DEF sockVars
<1> QED
  BY <1>2, <1>3, <1>4, <1>5 DEF InSection, InCtx

\* The context of a write.
LEMMA ContextKeeps ==
  ASSUME Base, NEW t \in Users, NEW q, NEW at \in Places, Context(t, q, at),
         UNCHANGED <<cfg, sock, exc, ev, ended, broken, shut>>,
         pings' \in [1..MaxPings -> {"unsent", "pending", "done"}], p.state # "OPEN" => pings' = pings,
         p.state = "OPEN" =>
           /\ Running(q) /\ q.state # "CLOSED" /\ (t \in Closers => q.state = "CLOSING")
           /\ q.state = "OPEN" => /\ q.expectCont <=> sip'
                                  /\ at = "write" => sip'
                                  /\ at = "write" \/ ~sip' => \A s \in Senders \ {t} : ~Inside(s),
         t \in Senders => at \in {"write", "final", "fail"}, t \notin Senders => at \in {"close", "ping", "fail"},
         sip' \in BOOLEAN, left' \in [Senders -> Nat], \A s \in Senders \ {t} : left'[s] = left[s]
  PROVE  /\ Base' /\ pc' = [pc EXCEPT ![t] = pc'[t]] /\ (t # Reader => pc'[Reader] = pc[Reader])
         /\ t = Reader => pc'[Reader] \in {"eof", "close", "ping", "fail"}
         /\ p.state # "OPEN" => p' = p
         /\ p.state = "OPEN" => Alike(q, p')
<1>1. /\ LinkTypes /\ Ends /\ Free /\ holder = NoThread /\ t # NoThread
      /\ (sock' <=> sock) /\ (ended' <=> ended) /\ (broken' <=> broken) /\ (shut' <=> shut) /\ (Over' <=> Over)
      /\ sock' = sock /\ ended' = ended /\ broken' = broken /\ shut' = shut /\ ev' = ev /\ exc' = exc /\ cfg' = cfg
  BY UsersDiffer DEF Base, Context, Free, Over
<1>2. CASE p.state = "OPEN"
  <2> DEFINE r == IF CloseExpected(q) THEN Asserted(q, ~deadline) ELSE q
  <2>1. Enter(t, q, at) /\ p' = Written(r) /\ deadline' = (deadline \/ CloseExpected(q))
    BY <1>2 DEF Context, Enter
  <2>2. Running(q) /\ q.state \in {"OPEN", "CLOSING"} /\ (t \in Closers => q.state = "CLOSING") /\ ~deadline /\ ~Over
    BY <1>1, <1>2 DEF Running, Ends
  <2>3. CloseExpected(q) \in BOOLEAN /\ (CloseExpected(q) <=> q.state = "CLOSING")
    BY <2>2 DEF CloseExpected
  <2>4. Running(r) /\ Alike(q, r) /\ r.expectCont = q.expectCont
    <3>1. CASE CloseExpected(q)
      <4>1. r = Asserted(q, ~deadline)
        BY <3>1
      <4> QED
        BY <2>2, <4>1, AssertedIs
    <3>2. CASE ~CloseExpected(q)
      BY <2>2, <3>2 DEF Alike
    <3> QED
      BY <3>1, <3>2
  <2> HIDE DEF r
  <2>5. Running(p') /\ Alike(q, p') /\ p'.expectCont = q.expectCont
    BY <2>1, <2>4, WrittenIs DEF Alike
  <2>6. p'.state = q.state /\ (deadline' <=> CloseExpected(q)) /\ deadline' \in BOOLEAN /\ (CloseExpected(p') <=> CloseExpected(q))
    BY <2>1, <2>2, <2>3, <2>5 DEF Alike, CloseExpected
  <2>7. PICK how \in {"ok", "error", "blocked"} :
          /\ holder' = IF how = "blocked" THEN t ELSE NoThread
          /\ Proceed(t, at, CASE how = "error" -> InContext("socket", TRUE)
                              [] how = "blocked" -> InContext("sendall", FALSE)
                              [] how = "ok" -> IF CloseExpected(q) THEN InContext("join", FALSE) ELSE Returned)
    BY <2>1 DEF Enter, Sent
  <2>8. PICK c : /\ Proceed(t, at, c) /\ c \in Ctxs /\ c.at \in {"socket", "sendall", "join", "ok"}
                 /\ (c.at = "sendall" <=> holder' = t) /\ (c.at = "join" => CloseExpected(q)) /\ (c.at = "ok" => ~CloseExpected(q))
    BY <1>1, <2>7, InContextIs
  <2>9. Onwards
    <3>1. LinkTypes'
      BY <1>1, <2>5, <2>6, <2>7 DEF LinkTypes
    <3>2. Ends'
      BY <1>1, <2>2, <2>3, <2>6, <1>2 DEF Ends
    <3> QED
      BY <1>1, <1>2, <2>2, <3>1, <3>2 DEF Onwards
  <2>10. Fits(t, c)
    BY <2>2, <2>3, <2>6, <2>8 DEF Fits
  <2>11. Turns(t, at)
    BY <1>2, <2>5, <2>6 DEF Turns
  <2>12. holder' = holder \/ (holder \in {t, NoThread} /\ holder' \in {t, NoThread})
    BY <1>1, <2>7
  <2> QED
    BY <1>1, <1>2, <2>5, <2>8, <2>9, <2>10, <2>11, <2>12, ProceedKeeps
<1>3. CASE p.state # "OPEN"
  <2>1. deadline' = TRUE /\ Proceed(t, at, InContext("join", TRUE)) /\ p' = p /\ holder' = holder /\ pings' = pings
    BY <1>3 DEF Context, EnterClosed
  <2>2. Onwards
    <3>1. Waiting' <=> Waiting
      BY <2>1 DEF Waiting
    <3>2. LinkTypes'
      BY <1>1, <2>1 DEF LinkTypes
    <3>3. Ends'
      BY <1>1, <1>3, <2>1, <3>1 DEF Ends
    <3> QED
      BY <1>1, <1>3, <2>1, <3>2, <3>3 DEF Onwards
  <2>3. Fits(t, InContext("join", TRUE))
    BY <1>1, <2>1, InContextIs DEF Fits
  <2>4. Turns(t, at)
    BY <1>3, <2>1 DEF Turns
  <2> QED
    BY <1>1, <1>3, <2>1, <2>2, <2>3, <2>4, ProceedKeeps
<1> QED
  BY <1>2, <1>3

\* A thread moves on outside of its context.
LEMMA GoesKeeps ==
  ASSUME Base, NEW t \in Users, NEW at \in Places, Goes(t, at),
         UNCHANGED <<cfg, p, sockVars, exc, ev, pings, ended, histVars, ctx, sip, left>>,
         ctx[t].at \in {"ok", "raise"}, at # "write", at \in {"idle", "next"} => t \notin Senders,
         at = "closed" => Over, at = "done" => t \notin Closers
  PROVE  Base' /\ (t # Reader => pc'[Reader] = pc[Reader]) /\ pc'[t] = at
<1>1. pc' \in [Users -> Places] /\ pc'[t] = at /\ \A u \in Users \ {t} : pc'[u] = pc[u]
  BY DEF Base, AppTypes, Goes
<1>2. /\ cfg' = cfg /\ p' = p /\ ctx' = ctx /\ left' = left /\ ev' = ev /\ holder' = holder /\ (Over' <=> Over)
      /\ (deadline' <=> deadline) /\ (shut' <=> shut) /\ sip' = sip /\ (sip' <=> sip)
  BY DEF sockVars, histVars, Over
<1>3. Onwards
  <2>1. UNCHANGED <<cfg, p, ev, pings, deadline, ended, broken, holder, exc, sock, shut>>
    BY DEF sockVars, histVars
  <2>2. (sock' <=> sock) /\ (shut' <=> shut) /\ LinkTypes /\ Ends
    BY <2>1 DEF Base
  <2> QED
    BY <2>1, <2>2, OnwardsKept DEF LinkTypes, Ends
<1>4. AppTypes'
  BY <1>1, <1>2 DEF Base, AppTypes
<1>5. Contexts'
  <2> SUFFICES ASSUME NEW u \in Users
               PROVE  /\ ctx[u].at \in {"join", "late"} => deadline
                      /\ ctx[u].at = "sendall" <=> holder = u
                      /\ ctx[u].at = "sendall" /\ CloseExpected(p) => deadline
                      /\ ctx[u].at \in {"assembler", "last"} => shut
                      /\ ctx[u].at = "raise" => Over
                      /\ u \in Closers /\ ctx[u].at = "sendall" => CloseExpected(p)
                      /\ u \notin Senders /\ ctx[u].at \notin {"ok", "raise"} => pc'[u] \in {"close", "ping", "fail"}
                      /\ u \in Senders /\ ctx[u].at \notin {"ok", "raise"} => pc'[u] \in {"write", "final", "fail"}
    BY <1>2 DEF Base, Contexts
  <2>1. u # t => pc'[u] = pc[u]
    BY <1>1
  <2> QED
    BY <2>1 DEF Base, Contexts
<1>6. Sending'
  <2>1. \A s \in Senders : Inside(s)' => Inside(s)
    BY <1>1, UsersDiffer DEF Inside
  <2>2. \A s \in Senders : pc'[s] = "idle" => pc[s] = "idle"
    BY <1>1, UsersDiffer
  <2>3. \A c \in Closers : pc'[c] = "done" => Over
    BY <1>1, UsersDiffer DEF Base, Sending
  <2>4. \A u \in Senders \cup {Reader} : pc'[u] = "closed" => Over
    BY <1>1, UsersDiffer DEF Base, Sending
  <2> QED
    BY <1>2, <2>1, <2>2, <2>3, <2>4 DEF Base, Sending
<1> QED
  BY <1>1, <1>3, <1>4, <1>5, <1>6, UsersDiffer DEF Base, Onwards

--------------------------------------------------------------------------------
(* The steps.                                                              *)

\* What the threads write.
LEMMA Bodies ==
  ASSUME LinkTypes, p.state = "OPEN"
  PROVE  /\ \A code \in {1007, 1011} : Running(Fail(p, code)) /\ Fail(p, code).state = "CLOSING"
         /\ Running(SendClose(p, 1000)) /\ SendClose(p, 1000).state = "CLOSING"
         /\ Running(SendPing(p, 0)) /\ SendPing(p, 0).state = "OPEN"
         /\ SendPing(p, 0).expectCont = p.expectCont
         /\ \A first, fin \in BOOLEAN : /\ Running(SendData(p, first, fin, 0))
                                        /\ SendData(p, first, fin, 0).state = "OPEN"
                                        /\ (SendData(p, first, fin, 0).expectCont <=> ~fin)
<1>1. Running(p)
  BY DEF LinkTypes
<1>2. ASSUME NEW code \in {1007, 1011} PROVE Running(Fail(p, code)) /\ Fail(p, code).state = "CLOSING"
  BY <1>1, FailIs DEF EofError
<1>3. Running(SendClose(p, 1000)) /\ SendClose(p, 1000).state = "CLOSING"
  BY <1>1, SendCloseIs
<1>4. /\ Running(SendPing(p, 0)) /\ SendPing(p, 0).state = "OPEN"
      /\ SendPing(p, 0).expectCont = p.expectCont
  BY <1>1, SendPingIs DEF Alike
<1>5. ASSUME NEW first \in BOOLEAN, NEW fin \in BOOLEAN
      PROVE  /\ Running(SendData(p, first, fin, 0)) /\ SendData(p, first, fin, 0).state = "OPEN"
             /\ (SendData(p, first, fin, 0).expectCont <=> ~fin)
  <2>1. LET r == SendData(p, first, fin, 0) IN Running(r) /\ Alike(p, r) /\ r.expectCont = ~fin
    BY <1>1, SendDataIs
  <2> QED
    BY <2>1 DEF Alike
<1> QED
  BY <1>2, <1>3, <1>4, <1>5

\* What the threads leave alone.
Else == UNCHANGED <<cfg, sock, exc, ev, ended, broken, shut>>

LEMMA FailKeeps ==
  ASSUME Base, NEW t \in Users, NEW code \in {1007, 1011}, Context(t, Fail(p, code), "fail"),
         Else, UNCHANGED <<pings, sip, left>>
  PROVE  /\ Base' /\ (t # Reader => pc'[Reader] = pc[Reader])
         /\ t = Reader => pc'[Reader] \in {"eof", "close", "ping", "fail"}
<1> DEFINE q == Fail(p, code)
<1>1. p.state = "OPEN" => Running(q) /\ q.state = "CLOSING"
  BY Bodies DEF Base
<1>2. /\ "fail" \in Places /\ sip' \in BOOLEAN /\ left' \in [Senders -> Nat] /\ pings' = pings
      /\ (\A s \in Senders \ {t} : left'[s] = left[s]) /\ pings' \in [1..MaxPings -> {"unsent", "pending", "done"}]
  BY DEF Places, Base, AppTypes, LinkTypes
<1>3. Context(t, q, "fail")
  OBVIOUS
<1> HIDE DEF q
<1>4. p.state = "OPEN" =>
        /\ Running(q) /\ q.state # "CLOSED" /\ (t \in Closers => q.state = "CLOSING")
        /\ q.state = "OPEN" => /\ q.expectCont <=> sip'
                               /\ "fail" = "write" => sip'
                               /\ "fail" = "write" \/ ~sip' => \A s \in Senders \ {t} : ~Inside(s)
  BY <1>1
<1> QED
  BY <1>2, <1>3, <1>4, ContextKeeps DEF Else

LEMMA DataKeeps ==
  ASSUME Base, NEW s \in Senders, NEW first \in BOOLEAN, NEW fin \in BOOLEAN, NEW at,
         Context(s, SendData(p, first, fin, 0), at), at = (IF fin THEN "final" ELSE "write"),
         Else, pings' = pings, sip' \in BOOLEAN, left' \in [Senders -> Nat], \A u \in Senders \ {s} : left'[u] = left[u],
         p.state = "OPEN" => (sip' <=> ~fin) /\ \A u \in Senders \ {s} : ~Inside(u)
  PROVE  Base' /\ pc'[Reader] = pc[Reader]
<1> DEFINE q == SendData(p, first, fin, 0)
<1>1. p.state = "OPEN" => Running(q) /\ q.state = "OPEN" /\ (q.expectCont <=> ~fin)
  BY Bodies DEF Base
<1>2. at \in Places /\ at \in {"final", "write"} /\ (at = "write" <=> ~fin)
      /\ pings' \in [1..MaxPings -> {"unsent", "pending", "done"}]
  BY DEF Places, Base, LinkTypes
<1>3. s \in Users /\ s # Reader /\ s \notin Closers
  BY UsersDiffer
<1>4. Context(s, q, at)
  OBVIOUS
<1> HIDE DEF q
<1>5. p.state = "OPEN" =>
        /\ Running(q) /\ q.state # "CLOSED" /\ (s \in Closers => q.state = "CLOSING")
        /\ q.state = "OPEN" => /\ q.expectCont <=> sip'
                               /\ at = "write" => sip'
                               /\ at = "write" \/ ~sip' => \A u \in Senders \ {s} : ~Inside(u)
  BY <1>1, <1>2, <1>3
<1> QED
  BY <1>2, <1>3, <1>4, <1>5, ContextKeeps DEF Else

LEMMA SendersKeep ==
  ASSUME Base, NEW s \in Senders, SendCall(s) \/ SendNext(s) \/ SendFails(s)
  PROVE  Base' /\ pc'[Reader] = pc[Reader]
<1>1. /\ s \in Users /\ s # Reader /\ LinkTypes /\ Contexts /\ left \in [Senders -> Nat] /\ sip \in BOOLEAN
      /\ p.state = "OPEN" => /\ \A u \in Senders : Inside(u) => sip
                             /\ \A u \in Senders \ {s} : Inside(s) => ~Inside(u)
      /\ (pc[s] = "idle" => left[s] = cfg.pieces[s]) /\ (pc[s] \in {"idle", "next"} => ctx[s].at \in {"ok", "raise"})
  BY UsersDiffer DEF Base, AppTypes, Sending, Contexts
<1>2. Else /\ pings' = pings
  BY DEF SendCall, SendNext, SendFails, AppRest, Else, queueVars, histVars
<1>3. CASE SendCall(s) /\ SendPlain(s)
  <2>1. CASE Refused(s)
    <3>1. Goes(s, "refused") /\ UNCHANGED <<cfg, p, sockVars, exc, ev, pings, ended, histVars, ctx, sip, left>>
          /\ pc[s] = "idle" /\ "refused" \in Places
      BY <1>3, <2>1 DEF Refused, SendCall, AppRest, sockVars, queueVars, histVars, Places
    <3> QED
      BY <1>1, <3>1, GoesKeeps
  <2>2. CASE ~Refused(s)
    <3>1. Context(s, SendData(p, TRUE, TRUE, 0), "final") /\ ~(p.state = "OPEN" /\ sip) /\ UNCHANGED <<sip, left>>
      BY <1>3, <2>2 DEF SendPlain
    <3>2. p.state = "OPEN" => (sip' <=> ~TRUE) /\ \A u \in Senders \ {s} : ~Inside(u)
      BY <1>1, <3>1
    <3> QED
      BY <1>1, <1>2, <3>1, <3>2, DataKeeps
  <2> QED
    BY <2>1, <2>2
<1>4. CASE SendCall(s) /\ SendFirst(s)
  <2>1. CASE Refused(s)
    <3>1. Goes(s, "refused") /\ UNCHANGED <<cfg, p, sockVars, exc, ev, pings, ended, histVars, ctx, sip, left>>
          /\ pc[s] = "idle" /\ "refused" \in Places
      BY <1>4, <2>1 DEF Refused, SendCall, AppRest, sockVars, queueVars, histVars, Places
    <3> QED
      BY <1>1, <3>1, GoesKeeps
  <2>2. CASE ~Refused(s)
    <3>1. /\ Context(s, SendData(p, TRUE, FALSE, 0), "write") /\ ~(p.state = "OPEN" /\ sip)
          /\ sip' = (sip \/ p.state = "OPEN") /\ left' = [left EXCEPT ![s] = @ - 1] /\ left[s] > 0
      BY <1>1, <1>4, <2>2 DEF SendFirst, SendCall
    <3>2. left' \in [Senders -> Nat] /\ \A u \in Senders \ {s} : left'[u] = left[u]
      BY <1>1, <3>1
    <3>3. sip' \in BOOLEAN /\ (p.state = "OPEN" => (sip' <=> ~FALSE) /\ \A u \in Senders \ {s} : ~Inside(u))
      BY <1>1, <3>1
    <3> QED
      BY <1>2, <3>1, <3>2, <3>3, DataKeeps
  <2> QED
    BY <2>1, <2>2
<1>5. CASE SendNext(s)
  <2>1. pc[s] = "next" /\ Inside(s)
    BY <1>5 DEF SendNext, Inside
  <2>2. CASE left[s] > 0
    <3>1. Context(s, SendData(p, FALSE, FALSE, 0), "write") /\ sip' = sip /\ left' = [left EXCEPT ![s] = @ - 1]
          /\ (sip' <=> sip)
      BY <1>5, <2>2 DEF SendNext
    <3>2. left' \in [Senders -> Nat] /\ \A u \in Senders \ {s} : left'[u] = left[u]
      BY <1>1, <2>2, <3>1
    <3>3. p.state = "OPEN" => (sip' <=> ~FALSE) /\ \A u \in Senders \ {s} : ~Inside(u)
      BY <1>1, <2>1, <3>1
    <3> QED
      BY <1>1, <1>2, <3>1, <3>2, <3>3, DataKeeps
  <2>3. CASE ~(left[s] > 0)
    <3>1. Context(s, SendData(p, FALSE, TRUE, 0), "final") /\ sip' = (sip /\ p.state # "OPEN") /\ left' = left
      BY <1>5, <2>3 DEF SendNext
    <3>2. sip' \in BOOLEAN /\ (p.state = "OPEN" => (sip' <=> ~TRUE) /\ \A u \in Senders \ {s} : ~Inside(u))
      BY <1>1, <2>1, <3>1
    <3> QED
      BY <1>1, <1>2, <3>1, <3>2, DataKeeps
  <2> QED
    BY <2>2, <2>3
<1>6. CASE SendFails(s)
  BY <1>1, <1>2, <1>6, FailKeeps DEF SendFails
<1> QED
  BY <1>3, <1>4, <1>5, <1>6 DEF SendCall

LEMMA ClosersKeep ==
  ASSUME Base, NEW c \in Closers, CloseCall(c)
  PROVE  Base' /\ pc'[Reader] = pc[Reader]
<1> DEFINE q == IF sip THEN Fail(p, 1011) ELSE SendClose(p, 1000)
<1>1. c \in Users /\ c # Reader /\ c \notin Senders /\ "close" \in Places
  BY UsersDiffer DEF Places
<1>2. Else /\ pings' = pings /\ Context(c, q, "close") /\ sip' = sip /\ left' = left
  BY DEF CloseCall, AppRest, Else, queueVars, histVars
<1>3. p.state = "OPEN" => Running(q) /\ q.state = "CLOSING"
  BY Bodies DEF Base
<1>4. /\ pings' \in [1..MaxPings -> {"unsent", "pending", "done"}] /\ sip' \in BOOLEAN /\ left' \in [Senders -> Nat]
      /\ \A s \in Senders \ {c} : left'[s] = left[s]
  BY <1>2 DEF Base, LinkTypes, AppTypes
<1> HIDE DEF q
<1>5. p.state = "OPEN" =>
        /\ Running(q) /\ q.state # "CLOSED" /\ (c \in Closers => q.state = "CLOSING")
        /\ q.state = "OPEN" => /\ q.expectCont <=> sip'
                               /\ "close" = "write" => sip'
                               /\ "close" = "write" \/ ~sip' => \A s \in Senders \ {c} : ~Inside(s)
  BY <1>3
<1> QED
  BY <1>1, <1>2, <1>4, <1>5, ContextKeeps DEF Else

Keepalive == KeepPing \/ KeepPong \/ KeepTimeout

LEMMA KeeperKeeps ==
  ASSUME Base, Keepalive
  PROVE  Base' /\ pc'[Reader] = pc[Reader]
<1>1. /\ Keeper \in Users /\ Keeper # Reader /\ Keeper \notin Senders /\ Keeper \notin Closers /\ LinkTypes
      /\ (pc[Keeper] \in {"sleep", "pong"} => ctx[Keeper].at \in {"ok", "raise"}) /\ sip \in BOOLEAN /\ left \in [Senders -> Nat]
      /\ {"done", "sleep", "ping"} \subseteq Places
  BY UsersDiffer DEF Base, Contexts, AppTypes, Places
<1>2. Else /\ sip' = sip /\ left' = left /\ UNCHANGED <<ended, histVars>> /\ sock' = sock
  BY DEF Keepalive, KeepPing, KeepPong, KeepTimeout, KeepRest, Else, queueVars, histVars
<1>3. CASE KeepPing /\ Over
  <2>1. Goes(Keeper, "done") /\ pc[Keeper] = "sleep" /\ UNCHANGED <<cfg, p, sockVars, exc, ev, pings, ended, histVars, ctx, sip, left>>
    BY <1>2, <1>3 DEF KeepPing, Else, sockVars
  <2> QED
    BY <1>1, <2>1, GoesKeeps
<1>4. CASE KeepPing /\ ~Over
  <2> DEFINE q == SendPing(p, 0)
  <2>1. /\ Context(Keeper, q, "ping") /\ (p.state # "OPEN" => pings' = pings)
        /\ pings' = pings \/ \E i \in DOMAIN pings : pings' = [pings EXCEPT ![i] = "pending"]
    BY <1>4 DEF KeepPing
  <2>2. pings' \in [1..MaxPings -> {"unsent", "pending", "done"}]
    BY <1>1, <2>1 DEF LinkTypes
  <2>3. p.state = "OPEN" => Running(q) /\ q.state = "OPEN" /\ q.expectCont = p.expectCont
    BY <1>1, Bodies
  <2> HIDE DEF q
  <2>4. p.state = "OPEN" =>
          /\ Running(q) /\ q.state # "CLOSED" /\ (Keeper \in Closers => q.state = "CLOSING")
          /\ q.state = "OPEN" => /\ q.expectCont <=> sip'
                                 /\ "ping" = "write" => sip'
                                 /\ "ping" = "write" \/ ~sip' => \A s \in Senders \ {Keeper} : ~Inside(s)
    <3>1. p.state = "OPEN" => (p.expectCont <=> sip) /\ \A s \in Senders : Inside(s) => sip
      BY DEF Base, Sending
    <3>2. sip' <=> sip
      BY <1>2
    <3> QED
      BY <1>1, <2>3, <3>1, <3>2
  <2> QED
    BY <1>1, <1>2, <2>1, <2>2, <2>4, ContextKeeps DEF Else
<1>5. CASE KeepPong
  <2>1. Goes(Keeper, "sleep") /\ pc[Keeper] = "pong" /\ UNCHANGED <<cfg, p, sockVars, exc, ev, pings, ended, histVars, ctx, sip, left>>
    BY <1>2, <1>5 DEF KeepPong, Else, sockVars
  <2> QED
    BY <1>1, <2>1, GoesKeeps
<1>6. CASE KeepTimeout
  BY <1>1, <1>2, <1>6, FailKeeps DEF KeepTimeout
<1> QED
  BY <1>3, <1>4, <1>5, <1>6 DEF Keepalive

\* recv_events() or the peer moves.
LEMMA OthersKeep ==
  ASSUME Base, Onwards, UNCHANGED <<ctx, pc, sip, left>>, p'.state = "OPEN" => p'.expectCont = p.expectCont,
         holder' = holder \/ (holder \in {Events, NoThread} /\ holder' \in {Events, NoThread}),
         holder' = Events <=> ev'.at = "sendall"
  PROVE  Base'
<1>1. ctx' = ctx /\ pc' = pc /\ sip' = sip /\ left' = left /\ cfg' = cfg /\ (sip' <=> sip)
  BY DEF Onwards
<1>2. LinkTypes' /\ Ends' /\ AppTypes'
  BY <1>1 DEF Onwards, Base, AppTypes
<1>3. Contexts'
  <2>1. ASSUME NEW u \in Users
        PROVE  /\ ctx'[u].at \in {"join", "late"} => deadline'
               /\ ctx'[u].at = "sendall" <=> holder' = u
               /\ ctx'[u].at = "sendall" /\ CloseExpected(p') => deadline'
               /\ ctx'[u].at \in {"assembler", "last"} => shut'
               /\ ctx'[u].at = "raise" => Over'
               /\ u \in Closers /\ ctx'[u].at = "sendall" => CloseExpected(p')
               /\ u \notin Senders /\ ctx'[u].at \notin {"ok", "raise"} => pc'[u] \in {"close", "ping", "fail"}
               /\ u \in Senders /\ ctx'[u].at \notin {"ok", "raise"} => pc'[u] \in {"write", "final", "fail"}
    <3>1. /\ ctx[u].at \in {"join", "late"} => deadline
          /\ ctx[u].at = "sendall" <=> holder = u
          /\ ctx[u].at = "sendall" /\ CloseExpected(p) => deadline
          /\ ctx[u].at \in {"assembler", "last"} => shut
          /\ ctx[u].at = "raise" => Over
          /\ u \in Closers /\ ctx[u].at = "sendall" => CloseExpected(p)
          /\ u \notin Senders /\ ctx[u].at \notin {"ok", "raise"} => pc[u] \in {"close", "ping", "fail"}
          /\ u \in Senders /\ ctx[u].at \notin {"ok", "raise"} => pc[u] \in {"write", "final", "fail"}
      BY DEF Base, Contexts
    <3>2. (holder' = u <=> holder = u) /\ (holder = u => p' = p)
      BY UsersDiffer DEF Onwards
    <3> QED
      BY <1>1, <3>1, <3>2 DEF Onwards
  <2> QED
    BY <2>1 DEF Contexts
<1>4. Sending'
  <2>1. \A s \in Senders : Inside(s)' <=> Inside(s)
    BY <1>1 DEF Inside
  <2>2. p'.state = "OPEN" => p.state = "OPEN" /\ p'.expectCont = p.expectCont
    BY DEF Onwards
  <2>3. Over => Over'
    BY DEF Onwards
  <2> QED
    BY <1>1, <2>1, <2>2, <2>3 DEF Base, Sending
<1> QED
  BY <1>2, <1>3, <1>4 DEF Base

\* recv_events() moves, and leaves the protocol alone.
LEMMA EventsMove ==
  ASSUME Base, UNCHANGED <<cfg, p, holder, deadline, ended, shut, ctx, pc, sip, left>>,
         ev' \in [at: EvPlaces \ {"sendall", "done"}, data: Seq(PeerItems), timed: BOOLEAN],
         ev.at \notin {"sendall", "assembler", "done"},
         exc' \in {"none", "error", "timeout", "internal"}, pings' \in [1..MaxPings -> {"unsent", "pending", "done"}],
         broken' \in BOOLEAN, broken' => shut, sock' \in BOOLEAN, sock' => sock,
         ev.at = "socket" => ev'.at = "assembler", ev'.at = "assembler" => ~sock'
  PROVE  Base'
<1>1. /\ cfg' = cfg /\ p' = p /\ holder' = holder /\ deadline' = deadline /\ ended' = ended /\ shut' = shut
      /\ (deadline' <=> deadline) /\ (ended' <=> ended) /\ (shut' <=> shut) /\ ~Over /\ ~Over'
      /\ LinkTypes /\ Ends
  BY DEF Base, Over
<1>2. LinkTypes'
  BY <1>1 DEF LinkTypes
<1>3. Ends'
  BY <1>1 DEF Ends
<1>4. Onwards
  BY <1>1, <1>2, <1>3 DEF Onwards
<1>5. holder' = Events <=> ev'.at = "sendall"
  BY <1>1 DEF Base, Contexts
<1> QED
  BY <1>1, <1>4, <1>5, OthersKeep

LEMMA ThreadIs ==
  ASSUME NEW at \in EvPlaces, NEW data \in Seq(PeerItems)
  PROVE  /\ Thread(at, data) \in [at: EvPlaces, data: Seq(PeerItems), timed: BOOLEAN]
         /\ Thread(at, data).at = at /\ Thread(at, data).data = data /\ ~Thread(at, data).timed
BY DEF Thread

LEMMA SplitInbox ==
  ASSUME NEW s \in Seq(PeerItems), NEW n \in Nat, n <= Len(s)
  PROVE  LET a == SubSeq(s, 1, n)
             b == SubSeq(s, n + 1, Len(s))
         IN  a \in Seq(PeerItems) /\ b \in Seq(PeerItems) /\ a \o b = s
<1> DEFINE m == Len(s)
<1> DEFINE a == SubSeq(s, 1, n)
<1> DEFINE b == SubSeq(s, n + 1, m)
<1>1. m \in Nat /\ n <= m /\ DOMAIN s = 1..m /\ \A i \in 1..m : s[i] \in PeerItems
  OBVIOUS
<1>2. /\ \A i \in 1..n : s[i] \in PeerItems
      /\ \A i \in (n + 1)..m : s[i] \in PeerItems
      /\ 1 \in Int /\ n \in Int /\ n + 1 \in Int /\ m \in Int
  BY <1>1
<1>3. /\ a \in Seq(PeerItems) /\ Len(a) = IF 1 <= n THEN n - 1 + 1 ELSE 0
      /\ \A i \in 1..(n - 1 + 1) : a[i] = s[1 + i - 1]
  BY <1>2, SubSeqProperties
<1>4. /\ b \in Seq(PeerItems) /\ Len(b) = IF n + 1 <= m THEN m - (n + 1) + 1 ELSE 0
      /\ \A i \in 1..(m - (n + 1) + 1) : b[i] = s[(n + 1) + i - 1]
  BY <1>2, SubSeqProperties
<1> HIDE DEF a, b, m
<1>5. Len(a) = n /\ \A i \in 1..n : a[i] = s[i]
  BY <1>1, <1>3
<1>6. Len(b) = m - n /\ \A i \in 1..(m - n) : b[i] = s[n + i]
  <2>1. m - (n + 1) + 1 = m - n /\ \A i \in 1..(m - n) : (n + 1) + i - 1 = n + i
    BY <1>1
  <2> QED
    BY <1>1, <1>4, <2>1
<1>7. a \in Seq(PeerItems) /\ b \in Seq(PeerItems) /\ n \in Nat /\ m - n \in Nat /\ n + (m - n) = m
  BY <1>1, <1>3, <1>4
<1>8. /\ a \o b \in Seq(PeerItems) /\ Len(a \o b) = n + (m - n)
      /\ (\A i \in 1..n : (a \o b)[i] = a[i]) /\ \A i \in 1..(m - n) : (a \o b)[n + i] = b[i]
  <2>1. PICK k \in Nat : k = m - n
    BY <1>7
  <2>2. Len(b) = k
    BY <1>6, <2>1
  <2>3. /\ a \o b \in Seq(PeerItems) /\ Len(a \o b) = n + k
        /\ (\A i \in 1..n : (a \o b)[i] = a[i]) /\ \A i \in 1..k : (a \o b)[n + i] = b[i]
    <3>1. a \in Seq(PeerItems) /\ b \in Seq(PeerItems) /\ n \in Nat /\ k \in Nat /\ Len(a) = n /\ Len(b) = k
      BY <1>5, <1>7, <2>2
    <3> QED
      BY ONLY <3>1
  <2> QED
    BY <2>1, <2>3
<1>9. ASSUME NEW i \in 1..m PROVE (a \o b)[i] = s[i]
  <2>1. CASE i \in 1..n
    BY <1>5, <1>8, <2>1
  <2>2. CASE i \notin 1..n
    <3>1. i - n \in 1..(m - n) /\ n + (i - n) = i
      BY <1>1, <2>2
    <3>2. (a \o b)[n + (i - n)] = b[i - n] /\ b[i - n] = s[n + (i - n)]
      BY <1>6, <1>8, <3>1
    <3> QED
      BY <3>1, <3>2
  <2> QED
    BY <2>1, <2>2
<1>10. a \o b = s
  BY <1>7, <1>8, <1>9, SeqEqual DEF m
<1> QED
  BY <1>7, <1>10 DEF a, b, m

LEMMA AcknowledgeIs ==
  ASSUME LinkTypes, NEW ids
  PROVE  Acknowledge(pings, ids) \in [1..MaxPings -> {"unsent", "pending", "done"}]
BY DEF LinkTypes, Acknowledge

\* What recv_events() does, action by action.
LEMMA EventsKeep ==
  ASSUME Base, QueueInv, EventsThread \/ EvReset \/ EvSent("ok") \/ EvSent("reset")
  PROVE  Base' /\ pc'[Reader] = pc[Reader]
<1>1. /\ LinkTypes /\ Ends /\ Contexts /\ inbox \in Seq(PeerItems) /\ Running(p) /\ <<>> \in Seq(PeerItems)
      /\ ev \in [at: EvPlaces, data: Seq(PeerItems), timed: BOOLEAN]
      /\ (ev.at \notin {"data", "sendall", "events"} => ev.data = <<>>)
  BY DEF Base, QueueInv, LinkTypes
<1> DEFINE EvSet == [at: EvPlaces \ {"sendall", "done"}, data: Seq(PeerItems), timed: BOOLEAN]
<1> DEFINE Steady == UNCHANGED <<cfg, ctx, pc, sip, left, shut>>
<1>2. \A at \in EvPlaces \ {"sendall", "done"} : EvGoes(at) => ev' \in EvSet /\ ev'.at = at
  BY <1>1 DEF EvGoes, Thread
<1>3. pc'[Reader] = pc[Reader] /\ Steady
  BY DEF EventsThread, EvFlow, EvReadEnds, EvFailed, EvData, EvSent, EvEvent, EvEof, EvShutdown, EvAssembler,
     EvRead, EvReset, EvRest, appVars
<1>4. CASE EvFlow \/ EvReadEnds \/ EvReset \/ \E n \in 1..cfg.chunk : EvRead(n)
  <2>1. /\ UNCHANGED <<p, holder, deadline, ended, exc, pings, broken, sock>> /\ ev.at \in {"flow", "read"}
    BY <1>4 DEF EvFlow, EvReadEnds, EvReset, EvRead, sockVars, queueVars
  <2>2. ev' \in EvSet /\ ev'.at \notin {"assembler", "socket"}
    <3>1. CASE EvFlow
      <4>1. deadline \in BOOLEAN
        BY <1>1 DEF LinkTypes
      <4>2. PICK e \in BOOLEAN : e = deadline
        BY <4>1
      <4> QED
        BY <1>1, <3>1, <4>2 DEF EvFlow, Thread, EvPlaces
    <3>2. CASE EvReadEnds \/ EvReset
      BY <1>2, <3>2 DEF EvReadEnds, EvReset, EvPlaces
    <3>3. ASSUME NEW n \in 1..cfg.chunk, EvRead(n) PROVE ev' \in EvSet /\ ev'.at \notin {"assembler", "socket"}
      <4>1. n \in Nat /\ n <= Len(inbox) /\ ev' = Thread("data", SubSeq(inbox, 1, n))
        <5>1. cfg.chunk \in Nat
          BY <1>1, ScenarioAssumption DEF LinkTypes
        <5> QED
          BY <3>3, <5>1 DEF EvRead
      <4>2. SubSeq(inbox, 1, n) \in Seq(PeerItems)
        BY <1>1, <4>1, SplitInbox
      <4> QED
        BY <4>1, <4>2 DEF Thread, EvPlaces
    <3> QED
      BY <1>4, <3>1, <3>2, <3>3
  <2>3. /\ exc' \in {"none", "error", "timeout", "internal"} /\ pings' \in [1..MaxPings -> {"unsent", "pending", "done"}]
        /\ broken' \in BOOLEAN /\ sock' \in BOOLEAN /\ (sock' <=> sock) /\ (broken' <=> broken)
    BY <1>1, <2>1 DEF LinkTypes
  <2>4. (broken => shut) /\ ev.at \notin {"sendall", "assembler", "done", "socket"}
    BY <1>1, <2>1 DEF Ends
  <2> QED
    BY <1>3, <2>1, <2>2, <2>3, <2>4, EventsMove
<1>5. CASE EvFailed
  <2>1. /\ UNCHANGED <<p, holder, deadline, ended, pings, broken, sock>> /\ ev.at \in {"error", "timeout"} /\ EvGoes("eof")
        /\ exc' \in {exc, ev.at}
    BY <1>5 DEF EvFailed, sockVars, queueVars
  <2>2. ev' \in EvSet /\ ev'.at = "eof"
    BY <1>2, <2>1 DEF EvPlaces
  <2>3. /\ exc' \in {"none", "error", "timeout", "internal"} /\ pings' \in [1..MaxPings -> {"unsent", "pending", "done"}]
        /\ broken' \in BOOLEAN /\ sock' \in BOOLEAN /\ (sock' <=> sock) /\ (broken' <=> broken)
    BY <1>1, <2>1 DEF LinkTypes
  <2>4. (broken => shut) /\ ev.at \notin {"sendall", "assembler", "done", "socket"}
    BY <1>1, <2>1 DEF Ends
  <2> QED
    BY <1>3, <2>1, <2>2, <2>3, <2>4, EventsMove
<1>6. ASSUME SafetyNet PROVE ev' \in EvSet /\ ev'.at = "socket" /\ exc' \in {exc, "internal"} /\ broken' = TRUE
  BY <1>2, <1>6 DEF SafetyNet, EvPlaces
<1>7. CASE EvData /\ p.state = "CLOSED"
  <2>1. SafetyNet /\ ev.at = "data" /\ UNCHANGED <<p, deadline, holder, ended, pings, sock>>
    BY <1>7 DEF EvData, queueVars
  <2>2. shut
    BY <1>1, <1>7, <2>1 DEF Ends
  <2>3. /\ exc' \in {"none", "error", "timeout", "internal"} /\ pings' \in [1..MaxPings -> {"unsent", "pending", "done"}]
        /\ sock' \in BOOLEAN /\ (sock' <=> sock)
    BY <1>1, <1>6, <2>1 DEF LinkTypes
  <2> QED
    BY <1>3, <1>6, <2>1, <2>2, <2>3, EventsMove
<1>8. CASE EvData /\ p.state # "CLOSED"
  <2> DEFINE r == Fed(p, ev.data)
  <2>1. Fine(p, r)
    BY <1>1, FedKeeps
  <2> HIDE DEF r
  <2>2. PICK how \in {"ok", "error", "blocked"} :
          /\ p' = Written(r.p)
          /\ holder' = IF how = "blocked" THEN Events ELSE NoThread
          /\ ev' = CASE how = "error" -> Thread("eof", <<>>)
                     [] how = "blocked" -> Thread("sendall", r.events)
                     [] how = "ok" -> Thread("events", r.events)
          /\ exc' \in {exc, "error"}
          /\ deadline' = (deadline \/ (how = "ok" /\ CloseExpected(r.p)))
          /\ broken' = broken
    BY <1>8 DEF EvData, Sent, r
  <2>3. ev.at = "data" /\ Free /\ UNCHANGED <<sock, pings, ended>>
    BY <1>8 DEF EvData, queueVars
  <2>4. /\ Running(r.p) /\ r.p.expectCont = p.expectCont /\ r.p.state # "CLOSED" /\ (r.p.state = "OPEN" => p.state = "OPEN")
        /\ r.events \in Seq(PeerItems)
    BY <1>8, <2>1 DEF Fine
  <2>5. Running(p') /\ p'.expectCont = p.expectCont /\ p'.state # "CLOSED" /\ (p'.state = "OPEN" => p.state = "OPEN")
        /\ p'.state = r.p.state
    BY <2>2, <2>4, WrittenIs DEF Alike
  <2>6. /\ ev' \in [at: EvPlaces, data: Seq(PeerItems), timed: BOOLEAN]
        /\ ev'.at \in {"eof", "sendall", "events"} /\ (ev'.at = "sendall" <=> how = "blocked")
    <3> DEFINE E == [at: EvPlaces, data: Seq(PeerItems), timed: BOOLEAN]
    <3>1. /\ Thread("eof", <<>>) \in E /\ Thread("eof", <<>>).at = "eof"
          /\ Thread("sendall", r.events) \in E /\ Thread("sendall", r.events).at = "sendall"
          /\ Thread("events", r.events) \in E /\ Thread("events", r.events).at = "events"
      <4>1. "eof" \in EvPlaces /\ "sendall" \in EvPlaces /\ "events" \in EvPlaces
        BY DEF EvPlaces
      <4>2. <<>> \in Seq(PeerItems) /\ r.events \in Seq(PeerItems)
        BY <1>1, <2>4
      <4> QED
        BY ONLY <4>1, <4>2 DEF Thread
    <3> HIDE DEF E
    <3>2. \/ how = "error" /\ ev' = Thread("eof", <<>>)
          \/ how = "blocked" /\ ev' = Thread("sendall", r.events)
          \/ how = "ok" /\ ev' = Thread("events", r.events)
      BY <2>2
    <3>3. CASE how = "error" /\ ev' = Thread("eof", <<>>)
      BY <3>1, <3>3 DEF E
    <3>4. CASE how = "blocked" /\ ev' = Thread("sendall", r.events)
      BY <3>1, <3>4 DEF E
    <3>5. CASE how = "ok" /\ ev' = Thread("events", r.events)
      BY <3>1, <3>5 DEF E
    <3> QED
      BY <3>2, <3>3, <3>4, <3>5 DEF E
  <2>7. CloseExpected(r.p) \in BOOLEAN /\ (CloseExpected(r.p) => r.p.state # "OPEN") /\ (CloseExpected(r.p) <=> r.p.state = "CLOSING")
    BY <2>4 DEF CloseExpected, Running
  <2>8. LinkTypes'
    <3>1. deadline' \in BOOLEAN /\ broken' \in BOOLEAN
      BY <1>1, <2>2, <2>7 DEF LinkTypes
    <3> QED
      BY <1>1, <1>3, <2>2, <2>3, <2>5, <2>6, <3>1 DEF LinkTypes
  <2>9. Ends'
    <3>1. deadline' => p'.state # "OPEN"
      BY <1>1, <2>2, <2>5, <2>7 DEF Ends
    <3>2. (broken' <=> broken) /\ (shut' <=> shut) /\ (sock' <=> sock) /\ (ended' <=> ended) /\ ~Over'
      BY <1>3, <2>2, <2>3, <2>6 DEF Over
    <3> QED
      BY <1>1, <1>8, <2>3, <2>5, <2>6, <3>1, <3>2 DEF Ends
  <2>10. Onwards
    <3>1. (deadline => deadline') /\ (shut' <=> shut) /\ ~Over
      BY <1>3, <2>2, <2>3 DEF Over
    <3> QED
      BY <1>3, <2>3, <2>5, <2>8, <2>9, <3>1 DEF Onwards, Free
  <2>11. /\ holder' = holder \/ (holder \in {Events, NoThread} /\ holder' \in {Events, NoThread})
         /\ (holder' = Events <=> ev'.at = "sendall")
    BY <2>2, <2>3, <2>6, UsersDiffer DEF Free
  <2> QED
    BY <1>3, <2>5, <2>10, <2>11, OthersKeep
<1>9. CASE EvSent("ok") \/ EvSent("error") \/ EvSent("reset")
  <2>1. /\ ev.at = "sendall" /\ holder' = NoThread /\ UNCHANGED <<p, sock, pings, ended, broken>>
        /\ exc' \in {exc, "error"} /\ (deadline' = deadline \/ deadline' = (deadline \/ CloseExpected(p)))
        /\ (EvGoes("eof") \/ ev' = [ev EXCEPT !.at = "events"])
    BY <1>9 DEF EvSent, queueVars
  <2>2. ev' \in EvSet /\ ev'.at \in {"eof", "events"}
    BY <1>1, <1>2, <2>1 DEF EvPlaces
  <2>3. CloseExpected(p) \in BOOLEAN /\ (CloseExpected(p) => p.state # "OPEN")
    BY <1>1 DEF CloseExpected, Running
  <2>4. deadline' \in BOOLEAN /\ (deadline => deadline') /\ (deadline' => p.state # "OPEN")
    BY <1>1, <2>1, <2>3 DEF LinkTypes, Ends
  <2>5. (broken' <=> broken) /\ (shut' <=> shut) /\ (sock' <=> sock) /\ (ended' <=> ended) /\ ~Over' /\ ~Over /\ holder = Events
    BY <1>1, <1>3, <2>1, <2>2 DEF Over, Contexts
  <2>6. LinkTypes'
    BY <1>1, <1>3, <2>1, <2>2, <2>4 DEF LinkTypes
  <2>7. Ends'
    BY <1>1, <2>1, <2>2, <2>4, <2>5 DEF Ends
  <2>8. Onwards
    BY <1>3, <2>1, <2>4, <2>5, <2>6, <2>7 DEF Onwards
  <2>9. holder' = Events <=> ev'.at = "sendall"
    BY <2>1, <2>2, UsersDiffer
  <2> QED
    BY <1>3, <2>1, <2>5, <2>8, <2>9, OthersKeep
<1>10. CASE EvEvent
  <2>1. ev.at = "events" /\ UNCHANGED <<p, sockVars>>
    BY <1>10 DEF EvEvent
  <2>2. ev.data # <<>> /\ ev' = [ev EXCEPT !.data = Tail(@)] => ev' \in EvSet /\ ev'.at = "events"
    <3>1. ev.data # <<>> => Tail(ev.data) \in Seq(PeerItems)
      BY <1>1
    <3>2. PICK d : d = Tail(ev.data)
      OBVIOUS
    <3>3. d \in Seq(PeerItems) /\ ev' = [ev EXCEPT !.data = d] => ev' \in EvSet /\ ev'.at = "events"
      BY <1>1, <2>1
    <3> QED
      BY <3>1, <3>2, <3>3
  <2>3. /\ \/ ended /\ SafetyNet
           \/ ev' \in EvSet /\ ev'.at \in {"events", "flow"} /\ exc' = exc /\ broken' = broken
        /\ pings' = pings \/ pings' = Acknowledge(pings, {ev.data[1].n})
        /\ ended' = ended
    BY <1>2, <1>10, <2>1, <2>2 DEF EvEvent, Put, queueVars, EvPlaces
  <2>4. ended => shut
    BY <1>1, <2>1 DEF Ends, Over
  <2>5. /\ ev' \in EvSet /\ ev'.at # "assembler" /\ exc' \in {exc, "internal"} /\ (broken' = TRUE \/ broken' = broken)
        /\ (broken' => shut) /\ broken' \in BOOLEAN
    <3>1. CASE ended /\ SafetyNet
      BY <1>6, <2>4, <3>1
    <3>2. CASE ev' \in EvSet /\ ev'.at \in {"events", "flow"} /\ exc' = exc /\ broken' = broken
      BY <1>1, <3>2 DEF Ends, LinkTypes
    <3> QED
      BY <2>3, <3>1, <3>2
  <2>6. /\ exc' \in {"none", "error", "timeout", "internal"} /\ pings' \in [1..MaxPings -> {"unsent", "pending", "done"}]
        /\ sock' \in BOOLEAN /\ (sock' <=> sock)
    <3>1. exc' \in {"none", "error", "timeout", "internal"} /\ pings' \in [1..MaxPings -> {"unsent", "pending", "done"}]
      BY <1>1, <2>3, <2>5, AcknowledgeIs DEF LinkTypes
    <3>2. sock' \in BOOLEAN /\ (sock' <=> sock)
      BY <1>1, <2>1 DEF LinkTypes, sockVars
    <3> QED
      BY <3>1, <3>2
  <2> QED
    BY <1>3, <2>1, <2>3, <2>5, <2>6, EventsMove DEF sockVars
<1>11. CASE EvShutdown
  <2>1. /\ UNCHANGED <<p, holder, deadline, ended, exc, pings, broken>> /\ ev.at = "socket" /\ EvGoes("assembler") /\ sock' = FALSE
    BY <1>11 DEF EvShutdown, queueVars
  <2>2. ev' \in EvSet /\ ev'.at = "assembler"
    BY <1>2, <2>1 DEF EvPlaces
  <2>3. /\ exc' \in {"none", "error", "timeout", "internal"} /\ pings' \in [1..MaxPings -> {"unsent", "pending", "done"}]
        /\ broken' \in BOOLEAN /\ (broken' <=> broken) /\ (broken => shut)
    BY <1>1, <2>1 DEF LinkTypes, Ends
  <2> QED
    BY <1>3, <2>1, <2>2, <2>3, EventsMove
<1>12. CASE EvEof \/ EvAssembler
  <2>1. /\ ev.at \in {"eof", "assembler"} /\ Free /\ p' = Written(EofOnce(p)) /\ UNCHANGED <<sockVars, exc, broken>>
        /\ pings' \in {pings, Settled}
    BY <1>12 DEF EvEof, EvAssembler, CloseAssembler
  <2>2. Running(p') /\ p'.state = "CLOSED"
    BY <1>1, <2>1, EofOnceIs, WrittenIs DEF Alike
  <2>3. /\ ev' \in [at: EvPlaces, data: Seq(PeerItems), timed: BOOLEAN] /\ ended' \in BOOLEAN
        /\ \/ ev'.at = "socket" /\ ended' = ended
           \/ ev'.at = "done" /\ ended' = TRUE /\ pings' = Settled /\ ev.at = "assembler"
    <3>1. ended \in BOOLEAN
      BY <1>1 DEF LinkTypes
    <3>2. CASE EvEof
      <4>1. ev' = Thread("socket", <<>>) /\ ended' = ended
        BY <3>2 DEF EvEof, EvGoes, queueVars
      <4> QED
        BY <1>1, <3>1, <4>1, ThreadIs DEF EvPlaces
    <3>3. CASE EvAssembler
      <4>1. ev' = Thread("done", <<>>) /\ ended' = TRUE /\ pings' = Settled /\ ev.at = "assembler"
        BY <3>3 DEF EvAssembler, CloseAssembler, AssemblerClose, EvGoes
      <4> QED
        BY <1>1, <4>1, ThreadIs DEF EvPlaces
    <3> QED
      BY <1>12, <3>2, <3>3
  <2>4. /\ (broken' <=> broken) /\ (shut' <=> shut) /\ (sock' <=> sock) /\ (deadline' <=> deadline) /\ ~Over
        /\ (Over' <=> ev'.at = "done") /\ holder' = holder /\ holder = NoThread
    BY <1>3, <2>1 DEF Over, sockVars, Free
  <2>5. LinkTypes'
    BY <1>1, <1>3, <2>1, <2>2, <2>3, SettledIs DEF LinkTypes, sockVars
  <2>6. Over' => ~Waiting'
    BY <1>1, <2>3, <2>4, SettledIs DEF Waiting
  <2>7. Ends'
    BY <1>1, <2>2, <2>3, <2>4, <2>6 DEF Ends
  <2>8. Onwards
    BY <1>3, <2>2, <2>4, <2>5, <2>7 DEF Onwards
  <2>9. holder' = Events <=> ev'.at = "sendall"
    BY <2>3, <2>4, UsersDiffer
  <2> QED
    BY <1>3, <2>2, <2>4, <2>8, <2>9, OthersKeep
<1> QED
  BY <1>3, <1>4, <1>5, <1>7, <1>8, <1>9, <1>10, <1>11, <1>12 DEF EventsThread

--------------------------------------------------------------------------------
(* The queue, and the reader at it.                                        *)

\* Nothing of the queue moves, and the reader at most out of its context.
LEMMA QueueSame ==
  ASSUME QueueInv, UNCHANGED <<cfg, queueVars, getting, parts, streams>>,
         inbox' \in Seq(PeerItems), load' \in Nat, ev'.at \notin {"data", "sendall", "events"} => ev'.data = <<>>,
         \/ pc'[Reader] = pc[Reader]
         \/ pc[Reader] \notin {"popped", "assert"} /\ pc'[Reader] \in {"eof", "close", "ping", "fail"}
  PROVE  QueueInv'
<1>1. /\ cfg' = cfg /\ queue' = queue /\ parts' = parts /\ paused' = paused /\ (paused' <=> paused)
      /\ (ended' <=> ended) /\ (getting' <=> getting) /\ (streams' <=> streams)
  BY DEF queueVars
<1>2. /\ paused' \in BOOLEAN /\ getting' \in BOOLEAN /\ streams' \in BOOLEAN
  BY <1>1 DEF QueueInv
<1>3. NoLostWakeup'
  <2>1. pc'[Reader] = "block" => pc[Reader] = "block"
    OBVIOUS
  <2>2. pc[Reader] = "popped" => pc'[Reader] = "popped"
    OBVIOUS
  <2> QED
    BY <1>1, <2>1, <2>2 DEF QueueInv, NoLostWakeup
<1> QED
  BY <1>1, <1>2, <1>3 DEF QueueInv

\* Assembler.close() wakes the reader and lets recv_events() go.
LEMMA CloseQueue ==
  ASSUME QueueInv, AssemblerClose, UNCHANGED <<cfg, inbox, getting, parts, streams, load>>, ended \in BOOLEAN,
         ev'.at \notin {"data", "sendall", "events"} => ev'.data = <<>>,
         \/ pc'[Reader] = pc[Reader]
         \/ pc[Reader] \notin {"popped", "assert"} /\ pc'[Reader] \in {"eof", "close", "ping", "fail"}
  PROVE  QueueInv'
<1>1. /\ cfg' = cfg /\ parts' = parts /\ ended' = TRUE /\ paused' = FALSE
      /\ (getting' <=> getting) /\ (streams' <=> streams)
      /\ queue' = IF getting /\ ~ended THEN Append(queue, EndMark) ELSE queue
  BY DEF AssemblerClose
<1>2. getting' \in BOOLEAN /\ streams' \in BOOLEAN
  BY <1>1 DEF QueueInv
<1>3. queue \in Seq(QueueFrames) /\ EndMark \in QueueFrames
  BY DEF QueueInv, EndMark, QueueFrames
<1>4. queue' \in Seq(QueueFrames) /\ \A i \in DOMAIN queue' : queue'[i] = EndMark => i = Len(queue')
  <2>1. CASE getting /\ ~ended
    <3>1. queue' = Append(queue, EndMark) /\ \A i \in DOMAIN queue : queue[i] # EndMark
      BY <1>1, <2>1 DEF QueueInv
    <3> HIDE DEF EndMark
    <3> QED
      BY <1>3, <3>1
  <2>2. CASE ~(getting /\ ~ended)
    BY <1>1, <1>3, <2>2 DEF QueueInv
  <2> QED
    BY <2>1, <2>2
<1>5. pc'[Reader] = "block" => queue' # <<>>
  <2>1. pc'[Reader] = "block" => getting /\ (ended => queue # <<>>)
    BY DEF QueueInv, NoLostWakeup
  <2>2. queue # <<>> => queue' # <<>>
    BY <1>1, <1>3
  <2>3. getting /\ ~ended => queue' # <<>>
    BY <1>1, <1>3
  <2> QED
    BY <2>1, <2>2, <2>3
<1> QED
  BY <1>1, <1>2, <1>4, <1>5 DEF QueueInv, NoLostWakeup

\* Assembler.put()
LEMMA PutQueue ==
  ASSUME QueueInv, LinkTypes, NEW item \in PeerItems, IsData(item), ~ended, Put(item), ev.at = "events",
         UNCHANGED <<cfg, inbox, getting, parts, streams, load, pc>>
  PROVE  QueueInv'
<1>1. /\ queue' = Append(queue, Queued(item)) /\ paused' = Pauses(queue') /\ (ended' <=> ended)
      /\ cfg' = cfg /\ parts' = parts /\ pc' = pc /\ (getting' <=> getting) /\ (streams' <=> streams)
      /\ ev' = [ev EXCEPT !.data = Tail(@)]
  BY DEF Put
<1>2. getting' \in BOOLEAN /\ streams' \in BOOLEAN
  BY <1>1 DEF QueueInv
<1>3. queue \in Seq(QueueFrames) /\ Queued(item) \in QueueFrames /\ Len(queue) \in Nat
  BY QueuedIs DEF QueueInv
<1>4. Queued(item) # EndMark
  <2>1. PICK op \in PeerOps, n \in Nat : item = Item(op, n)
    BY DEF PeerItems
  <2>2. item.f = PeerFrame(op) /\ item.op = op
    BY <2>1 DEF Item
  <2>3. op \in {"msg", "junk", "first", "last"}
    BY <2>2, PeerFrameIs DEF IsData
  <2>4. CASE op \in {"msg", "junk"}
    <3>1. PeerFrame(op) = Frame("text", TRUE, 0, NoCode, FALSE, 0, 0)
      BY <2>4, ZenonT(30) DEF PeerFrame
    <3> QED
      BY <2>2, <3>1, QueuedIs DEF Frame, EndMark
  <2>5. CASE op = "first"
    <3>1. PeerFrame(op) = Frame("text", FALSE, 0, NoCode, FALSE, 0, 0)
      BY <2>5 DEF PeerFrame
    <3> QED
      BY <2>2, <3>1, QueuedIs DEF Frame, EndMark
  <2>6. CASE op = "last"
    <3>1. PeerFrame(op) = Frame("cont", TRUE, 0, NoCode, FALSE, 0, 0)
      BY <2>6 DEF PeerFrame
    <3> QED
      BY <2>2, <3>1, QueuedIs DEF Frame, EndMark
  <2> QED
    BY <2>3, <2>4, <2>5, <2>6
<1>5. /\ queue' \in Seq(QueueFrames) /\ Len(queue') = Len(queue) + 1 /\ queue'[Len(queue')] = Queued(item)
      /\ \A i \in DOMAIN queue' : queue'[i] # EndMark
  <2>1. PICK x \in QueueFrames : x = Queued(item)
    BY <1>3
  <2>2. \A i \in DOMAIN queue : queue[i] # EndMark
    BY DEF QueueInv
  <2> HIDE DEF EndMark
  <2> QED
    BY <1>1, <1>3, <1>4, <2>1, <2>2
<1>6. cfg.low \in Nat /\ cfg.high \in Nat /\ cfg.low <= cfg.high
  BY ScenarioAssumption DEF LinkTypes
<1>7. paused' \in BOOLEAN /\ (paused' => Len(queue') > cfg.low \/ pc[Reader] = "popped")
  <2>1. paused' <=> paused \/ Len(queue') > cfg.high
    BY <1>1, <1>5 DEF Pauses, QueueInv
  <2>2. paused => Len(queue) > cfg.low \/ pc[Reader] = "popped"
    BY DEF QueueInv, NoLostWakeup
  <2>3. paused' \in BOOLEAN
    BY <1>1, <1>3, <1>5, <1>6 DEF Pauses, QueueInv
  <2> QED
    BY <1>3, <1>5, <1>6, <2>1, <2>2, <2>3
<1>8. ev'.at = "events"
  BY <1>1 DEF LinkTypes
<1> QED
  BY <1>1, <1>2, <1>5, <1>7, <1>8 DEF QueueInv, NoLostWakeup

LEMMA EventsQueue ==
  ASSUME Base, QueueInv, EventsThread \/ EvReset \/ EvSent("ok") \/ EvSent("reset")
  PROVE  QueueInv'
<1>1. /\ inbox \in Seq(PeerItems) /\ load \in Nat /\ load + 1 \in Nat /\ <<>> \in Seq(PeerItems)
      /\ ev \in [at: EvPlaces, data: Seq(PeerItems), timed: BOOLEAN] /\ LinkTypes
      /\ (ev.at \notin {"data", "sendall", "events"} => ev.data = <<>>)
  BY DEF QueueInv, Base, LinkTypes
<1>2. UNCHANGED <<cfg, getting, parts, streams, pc>> /\ pc'[Reader] = pc[Reader]
  BY DEF EventsThread, EvFlow, EvReadEnds, EvFailed, EvData, EvSent, EvEvent, EvEof, EvShutdown, EvAssembler,
     EvRead, EvReset, EvRest, appVars, readVars
<1>3. \A at : EvGoes(at) => ev'.data = <<>>
  BY DEF EvGoes, Thread
<1>4. CASE EvFlow \/ EvReadEnds \/ EvReset \/ EvFailed \/ EvEof
  <2>1. inbox' = inbox /\ queueVars' = queueVars /\ load' \in {load, load + 1}
    BY <1>4 DEF EvFlow, EvReadEnds, EvReset, EvFailed, EvEof, Asks
  <2>2. ev'.data = <<>>
    <3>1. EvFlow => ev'.data = <<>>
      <4>1. PICK e : e = deadline
        OBVIOUS
      <4> QED
        BY <4>1 DEF EvFlow, Thread
    <3> QED
      BY <1>3, <1>4, <3>1 DEF EvReadEnds, EvReset, EvFailed, EvEof
  <2> QED
    BY <1>1, <1>2, <2>1, <2>2, QueueSame DEF queueVars
<1>5. ASSUME NEW n \in 1..cfg.chunk, EvRead(n) PROVE QueueInv'
  <2>1. n \in Nat /\ n <= Len(inbox)
    <3>1. cfg.chunk \in Nat
      BY <1>1, ScenarioAssumption DEF LinkTypes
    <3> QED
      BY <1>5, <3>1 DEF EvRead
  <2>2. /\ inbox' = SubSeq(inbox, n + 1, Len(inbox)) /\ ev' = Thread("data", SubSeq(inbox, 1, n))
        /\ queueVars' = queueVars /\ load' = load
    BY <1>5 DEF EvRead
  <2>3. inbox' \in Seq(PeerItems) /\ ev'.at = "data"
    BY <1>1, <2>1, <2>2, SplitInbox DEF Thread
  <2> QED
    BY <1>1, <1>2, <2>2, <2>3, QueueSame DEF queueVars
<1>6. CASE EvData
  <2>1. inbox' = inbox /\ queueVars' = queueVars /\ load' = load
    BY <1>6 DEF EvData
  <2>2. ev'.at \notin {"data", "sendall", "events"} => ev'.data = <<>>
    <3>1. CASE SafetyNet
      BY <1>3, <3>1 DEF SafetyNet
    <3>2. CASE p.state # "CLOSED"
      <4>1. PICK events : \/ ev' = Thread("eof", <<>>)
                          \/ ev' = Thread("sendall", events)
                          \/ ev' = Thread("events", events)
        BY <1>6, <3>2 DEF EvData, Sent
      <4> QED
        BY <4>1 DEF Thread
    <3> QED
      BY <1>6, <3>1, <3>2 DEF EvData
  <2> QED
    BY <1>1, <1>2, <2>1, <2>2, QueueSame DEF queueVars
<1>7. CASE EvSent("ok") \/ EvSent("error") \/ EvSent("reset")
  <2>1. inbox' = inbox /\ queueVars' = queueVars /\ load' = load /\ (EvGoes("eof") \/ ev' = [ev EXCEPT !.at = "events"])
    BY <1>7 DEF EvSent
  <2>2. ev'.at \notin {"data", "sendall", "events"} => ev'.data = <<>>
    BY <1>1, <1>3, <2>1
  <2> QED
    BY <1>1, <1>2, <2>1, <2>2, QueueSame DEF queueVars
<1>8. CASE EvEvent
  <2>1. inbox' = inbox /\ load' = load /\ ev.at = "events"
    BY <1>8 DEF EvEvent
  <2>2. CASE queueVars' = queueVars
    <3>1. EvGoes("flow") \/ SafetyNet \/ ev' = [ev EXCEPT !.data = Tail(@)]
      BY <1>8 DEF EvEvent, Put
    <3>2. ev'.at \notin {"data", "sendall", "events"} => ev'.data = <<>>
      BY <1>1, <1>3, <2>1, <3>1 DEF SafetyNet
    <3> QED
      BY <1>1, <1>2, <2>1, <2>2, <3>2, QueueSame DEF queueVars
  <2>3. CASE queueVars' # queueVars
    <3>1. ev.data # <<>> /\ IsData(ev.data[1]) /\ ~ended /\ Put(ev.data[1])
      BY <1>8, <2>3 DEF EvEvent, Put
    <3>2. ev.data[1] \in PeerItems
      BY <1>1, <3>1
    <3> QED
      BY <1>1, <1>2, <2>1, <3>1, <3>2, PutQueue
  <2> QED
    BY <2>2, <2>3
<1>9. CASE EvShutdown
  <2>1. inbox' = <<>> /\ queueVars' = queueVars /\ load' = load /\ ev'.data = <<>>
    BY <1>3, <1>9 DEF EvShutdown
  <2> QED
    BY <1>1, <1>2, <2>1, QueueSame DEF queueVars
<1>10. CASE EvAssembler
  <2>1. inbox' = inbox /\ AssemblerClose /\ load' = load /\ ev'.data = <<>> /\ ended \in BOOLEAN
    BY <1>1, <1>3, <1>10 DEF EvAssembler, CloseAssembler, LinkTypes
  <2> QED
    BY <1>1, <1>2, <2>1, CloseQueue
<1> QED
  BY <1>4, <1>5, <1>6, <1>7, <1>8, <1>9, <1>10 DEF EventsThread

\* What the reader does at the queue; to fail() is a context.
Reading == RecvCall \/ RecvNext \/ RecvPop \/ RecvTimeout \/ RecvReset \/ RecvFrame \/ RecvYielded \/ RecvEof

LEMMA ReadingIs ==
  ASSUME Base, Reading
  PROVE  /\ UNCHANGED <<cfg, inbox, p, sockVars, exc, ev, pings, ended, histVars, ctx, sip, left>>
         /\ \E at \in Places \ {"write", "done"} : Goes(Reader, at) /\ (at = "closed" => Over)
         /\ pc[Reader] \in {"idle", "next", "block", "reset", "popped", "yielded", "eof"}
         /\ load' \in {load, load + 1} /\ paused' \in {paused, Resumes}
<1>1. UNCHANGED <<cfg, inbox, p, sockVars, exc, ev, pings, ended, histVars, ctx, sip, left>>
  BY DEF Reading, RecvCall, RecvNext, RecvPop, RecvTimeout, RecvReset, RecvFrame, RecvYielded, RecvEof,
     RecvRest, RecvOnly, sockVars, histVars
<1>2. \E at \in Places \ {"write", "done"} : Goes(Reader, at) /\ (at = "closed" => Over)
  BY DEF Reading, RecvCall, RecvNext, RecvPop, RecvTimeout, RecvReset, RecvFrame, RecvYielded, RecvEof, Popped, Places
<1>3. pc[Reader] \in {"idle", "next", "block", "reset", "popped", "yielded", "eof"}
  BY DEF Reading, RecvCall, RecvNext, RecvPop, RecvTimeout, RecvReset, RecvFrame, RecvYielded, RecvEof
<1>4. load' \in {load, load + 1} /\ paused' \in {paused, Resumes}
  BY DEF Reading, RecvCall, RecvNext, RecvPop, RecvTimeout, RecvReset, RecvFrame, RecvYielded, RecvEof, Asks
<1> QED
  BY <1>1, <1>2, <1>3, <1>4

LEMMA ReadingKeeps == ASSUME Base, Reading PROVE Base'
<1>1. PICK at \in Places \ {"write", "done"} : Goes(Reader, at) /\ (at = "closed" => Over)
  BY ReadingIs
<1>2. ctx[Reader].at \in {"ok", "raise"}
  <2>1. pc[Reader] \notin {"close", "ping", "fail"}
    BY ReadingIs
  <2> QED
    BY <2>1, UsersDiffer DEF Base, Contexts
<1> QED
  BY <1>1, <1>2, ReadingIs, UsersDiffer, GoesKeeps

\* The frames that are left when one is fetched.
LEMMA PopIs ==
  ASSUME NEW s \in Seq(QueueFrames), s # <<>>
  PROVE  /\ s[1] \in QueueFrames /\ Tail(s) \in Seq(QueueFrames) /\ Len(Tail(s)) = Len(s) - 1
         /\ \A i \in DOMAIN Tail(s) : i + 1 \in DOMAIN s /\ Tail(s)[i] = s[i + 1]
OBVIOUS

LEMMA PoppedQueue ==
  ASSUME Base, QueueInv, pc[Reader] \in {"next", "block"}, Popped,
         UNCHANGED <<cfg, inbox, ev, ended, streams, paused, load>>
  PROVE  QueueInv'
<1>1. /\ (ended' <=> ended) /\ (streams' <=> streams) /\ (paused' <=> paused) /\ ev' = ev /\ inbox' = inbox
      /\ cfg' = cfg /\ load' = load
  OBVIOUS
<1>2. /\ queue # <<>> /\ queue' = Tail(queue) /\ queue \in Seq(QueueFrames) /\ parts \in Seq(QueueFrames)
      /\ pc \in [Users -> Places] /\ Reader \in Users
      /\ \A i \in DOMAIN queue : queue[i] = EndMark => i = Len(queue) /\ ended
      /\ \A i \in DOMAIN parts : parts[i] # EndMark /\ ~parts[i].fin
      /\ (ended => ~paused) /\ (paused => Len(queue) > cfg.low) /\ cfg.low \in Nat
  BY ScenarioAssumption, UsersDiffer DEF Popped, QueueInv, NoLostWakeup, Base, LinkTypes, AppTypes
<1>3. /\ queue' \in Seq(QueueFrames) /\ \A i \in DOMAIN queue' : queue'[i] = EndMark => i = Len(queue') /\ ended
  <2>1. ASSUME NEW i \in DOMAIN queue', queue'[i] = EndMark PROVE i = Len(queue') /\ ended
    <3>1. i \in Nat /\ i + 1 \in DOMAIN queue /\ queue[i + 1] = EndMark /\ Len(queue') = Len(queue) - 1
      BY <1>2, <2>1, PopIs
    <3> QED
      BY <1>2, <3>1
  <2> QED
    BY <1>2, <2>1, PopIs
<1>4. CASE queue[1] = EndMark
  <2>1. pc'[Reader] = "eof" /\ getting' = streams /\ (getting' <=> streams) /\ parts' = <<>>
    BY <1>2, <1>4 DEF Popped, Goes
  <2>2. ~paused
    <3>1. 1 \in DOMAIN queue
      BY <1>2
    <3> QED
      BY <1>2, <1>4, <3>1
  <2>3. parts' \in Seq(QueueFrames) /\ Len(parts') = 0 /\ DOMAIN parts' = {}
    BY <2>1
  <2> QED
    BY <1>1, <1>3, <2>1, <2>2, <2>3 DEF QueueInv, NoLostWakeup
<1>5. CASE queue[1] # EndMark
  <2>1. /\ pc'[Reader] = "popped" /\ (getting' <=> getting) /\ parts' = Append(parts, queue[1])
        /\ queue[1] \in QueueFrames
    BY <1>2, <1>5, PopIs DEF Popped, Goes
  <2>2. PICK x \in QueueFrames : x = queue[1]
    BY <2>1
  <2>3. /\ parts' \in Seq(QueueFrames) /\ parts' # <<>> /\ (\A i \in DOMAIN parts' : parts'[i] # EndMark)
        /\ \A i \in 1..(Len(parts') - 1) : ~parts'[i].fin
    <3> HIDE DEF EndMark, QueueFrames
    <3> QED
      BY <1>2, <1>5, <2>1, <2>2
  <2>4. getting
    BY DEF QueueInv
  <2> QED
    BY <1>1, <1>2, <1>3, <2>1, <2>3, <2>4 DEF QueueInv, NoLostWakeup
<1> QED
  BY <1>4, <1>5

LEMMA ReadingQueue == ASSUME Base, QueueInv, Reading PROVE QueueInv'
<1>1. /\ UNCHANGED <<cfg, inbox, ev, ended>> /\ (ended' <=> ended) /\ load' \in Nat
      /\ load \in Nat /\ pc[Reader] # "assert" /\ (pc[Reader] # "popped" => \A i \in DOMAIN parts : ~parts[i].fin)
  BY ReadingIs DEF QueueInv
<1>2. /\ queue \in Seq(QueueFrames) /\ parts \in Seq(QueueFrames) /\ pc \in [Users -> Places] /\ Reader \in Users
      /\ \A i \in DOMAIN parts : parts[i] # EndMark
      /\ getting \in BOOLEAN /\ streams \in BOOLEAN /\ paused \in BOOLEAN
      /\ Len(queue) \in Nat /\ cfg.low \in Nat /\ Len(parts) \in Nat
      /\ \A at : Goes(Reader, at) => pc'[Reader] = at
      /\ <<>> \in Seq(QueueFrames) /\ Len(<<>>) = 0 /\ DOMAIN <<>> = {}
  BY ScenarioAssumption, UsersDiffer DEF QueueInv, Base, LinkTypes, AppTypes, Goes
<1>3. \* The queue is left alone.
      ASSUME queue' = queue, parts' \in {parts, <<>>}, paused' = paused, pc[Reader] # "popped", streams' \in BOOLEAN,
             getting' \in BOOLEAN, pc'[Reader] \notin {"popped", "assert"}, pc'[Reader] = "block" => ~ended,
             pc'[Reader] \in {"next", "block", "popped", "reset", "yielded"} => getting'
      PROVE  QueueInv'
  <2>1. (paused' <=> paused) /\ (paused => ~ended /\ Len(queue) > cfg.low)
    BY <1>3 DEF QueueInv, NoLostWakeup
  <2>2. /\ parts' \in Seq(QueueFrames) /\ \A i \in DOMAIN parts' : parts'[i] # EndMark /\ ~parts'[i].fin
        /\ \A i \in 1..(Len(parts') - 1) : i \in DOMAIN parts'
    <3>1. CASE parts' = parts
      BY <1>1, <1>2, <1>3, <3>1
    <3>2. CASE parts' = <<>>
      BY <1>2, <3>2
    <3> QED
      BY <1>3, <3>1, <3>2
  <2> QED
    BY <1>1, <1>2, <1>3, <2>1, <2>2 DEF QueueInv, NoLostWakeup
<1>4. CASE RecvCall
  <2>1. PICK kind : /\ UNCHANGED <<queue, paused, parts>> /\ pc[Reader] = "idle"
                    /\ \/ pc'[Reader] = "unusable" /\ UNCHANGED <<getting, streams>>
                       \/ pc'[Reader] = "next" /\ getting' = TRUE /\ streams' = (kind = "iter")
    BY <1>2, <1>4 DEF RecvCall
  <2>2. CASE pc'[Reader] = "unusable" /\ UNCHANGED <<getting, streams>>
    BY <1>2, <1>3, <2>1, <2>2
  <2>3. CASE pc'[Reader] = "next" /\ getting' = TRUE /\ streams' = (kind = "iter")
    <3>1. PICK e \in BOOLEAN : e = (kind = "iter")
      OBVIOUS
    <3> QED
      BY <1>3, <2>1, <2>3, <3>1
  <2> QED
    BY <2>1, <2>2, <2>3
<1>5. CASE (RecvNext \/ RecvPop) /\ Popped
  <2>1. pc[Reader] \in {"next", "block"} /\ UNCHANGED <<paused, streams, load>>
    BY <1>5 DEF RecvNext, RecvPop
  <2> QED
    BY <1>1, <1>5, <2>1, PoppedQueue
<1>6. CASE RecvNext /\ ~Popped
  <2>1. /\ pc[Reader] = "next" /\ UNCHANGED <<queue, paused, streams>>
        /\ \/ ~ended /\ pc'[Reader] = "block" /\ UNCHANGED <<getting, parts>>
           \/ pc'[Reader] = "eof" /\ getting' = streams /\ parts' = <<>>
    BY <1>2, <1>6 DEF RecvNext
  <2>2. getting
    BY <2>1 DEF QueueInv
  <2> QED
    BY <1>2, <1>3, <2>1, <2>2
<1>7. CASE RecvTimeout \/ RecvYielded \/ RecvEof
  <2>1. /\ pc[Reader] \in {"block", "yielded", "eof"} /\ UNCHANGED <<queue, paused, streams, parts>>
        /\ \/ pc'[Reader] = "idle" /\ getting' \in {getting, FALSE}
           \/ pc'[Reader] \in {"reset", "next", "closed"} /\ getting' = getting
        /\ pc[Reader] = "eof" => pc'[Reader] = "closed"
    BY <1>2, <1>7 DEF RecvTimeout, RecvYielded, RecvEof
  <2>2. pc[Reader] \in {"block", "yielded"} => getting
    BY DEF QueueInv
  <2>3. streams' \in BOOLEAN /\ getting' \in BOOLEAN
    BY <1>2, <2>1
  <2>4. pc'[Reader] \in {"next", "block", "popped", "reset", "yielded"} => getting'
    <3> HAVE pc'[Reader] \in {"next", "block", "popped", "reset", "yielded"}
    <3>1. pc[Reader] \in {"block", "yielded"} /\ pc'[Reader] # "idle"
      BY <2>1
    <3>2. getting' = getting
      BY <2>1, <3>1
    <3> QED
      BY <2>2, <3>1, <3>2
  <2>5. /\ queue' = queue /\ parts' \in {parts, <<>>} /\ paused' = paused
        /\ pc[Reader] # "popped" /\ pc'[Reader] \notin {"popped", "assert", "block"}
    BY <2>1
  <2> QED
    BY <1>3, <2>3, <2>4, <2>5
<1>8. CASE RecvReset
  <2>1. /\ queue' = parts \o queue /\ parts' = <<>> /\ pc'[Reader] = "idle" /\ getting' = FALSE /\ UNCHANGED <<paused, streams>>
        /\ pc[Reader] = "reset"
    BY <1>2, <1>8 DEF RecvReset, Reset
  <2>2. PICK m \in Nat, n \in Nat : m = Len(parts) /\ n = Len(queue)
    BY <1>2
  <2>3. /\ queue' \in Seq(QueueFrames) /\ Len(queue') = m + n /\ DOMAIN queue' = 1..(m + n)
        /\ (\A i \in 1..m : queue'[i] = parts[i]) /\ \A i \in 1..n : queue'[m + i] = queue[i]
    BY <1>2, <2>1, <2>2
  <2>4. ASSUME NEW i \in DOMAIN queue', queue'[i] = EndMark PROVE i = Len(queue') /\ ended
    <3>1. CASE i \in 1..m
      BY <1>2, <2>2, <2>3, <2>4, <3>1
    <3>2. CASE i \notin 1..m
      <4>1. PICK j \in 1..n : m + j = i
        <5>1. i - m \in 1..n /\ m + (i - m) = i
          BY <2>3, <3>2
        <5> QED
          BY <5>1
      <4>2. queue[j] = EndMark /\ j \in DOMAIN queue
        BY <1>2, <2>2, <2>3, <2>4, <4>1
      <4>3. j = Len(queue) /\ ended
        BY <4>2 DEF QueueInv
      <4> QED
        BY <2>2, <2>3, <4>1, <4>3
    <3> QED
      BY <3>1, <3>2
  <2>5. (paused' <=> paused) /\ (paused => ~ended /\ Len(queue) > cfg.low)
    BY <2>1 DEF QueueInv, NoLostWakeup
  <2>6. (streams' <=> streams) /\ streams' \in BOOLEAN /\ paused' \in BOOLEAN /\ getting' \in BOOLEAN
    BY <1>2, <2>1
  <2>7. paused' => Len(queue') > cfg'.low /\ ~ended'
    BY <1>1, <1>2, <2>2, <2>3, <2>5
  <2> QED
    BY <1>1, <1>2, <2>1, <2>3, <2>4, <2>6, <2>7 DEF QueueInv, NoLostWakeup
<1>9. CASE RecvFrame
  <2>1. /\ pc[Reader] = "popped" /\ paused' = Resumes /\ UNCHANGED <<queue, streams>> /\ (streams' <=> streams)
        /\ \/ pc'[Reader] = "assert" /\ UNCHANGED <<getting, parts>>
           \/ /\ ~parts[Len(parts)].fin /\ pc'[Reader] \in {"yielded", "next"} /\ UNCHANGED <<getting, parts>>
           \/ /\ parts' = <<>> /\ pc'[Reader] \in {"idle", "invalid"}
              /\ getting' = (streams /\ ~parts[Len(parts)].utf8)
    BY <1>2, <1>9 DEF RecvFrame
  <2>2. getting' \in BOOLEAN /\ (getting /\ UNCHANGED getting => getting')
    BY <1>2, <2>1
  <2>3. getting /\ parts # <<>> /\ \A i \in 1..(Len(parts) - 1) : ~parts[i].fin
    BY <2>1 DEF QueueInv
  <2>4. /\ parts' \in Seq(QueueFrames) /\ (\A i \in DOMAIN parts' : parts'[i] # EndMark)
        /\ \A i \in 1..(Len(parts') - 1) : ~parts'[i].fin
    <3>1. CASE parts' = parts
      BY <1>2, <2>3, <3>1
    <3>2. CASE parts' = <<>>
      BY <1>2, <3>2
    <3> QED
      BY <2>1, <3>1, <3>2
  <2>5. pc'[Reader] # "assert" => \A i \in DOMAIN parts' : ~parts'[i].fin
    <3>1. CASE ~parts[Len(parts)].fin /\ parts' = parts
      <4>1. \A i \in DOMAIN parts : i = Len(parts) \/ i \in 1..(Len(parts) - 1)
        BY <1>2
      <4> QED
        BY <2>3, <3>1, <4>1
    <3>2. CASE parts' = <<>>
      BY <1>2, <3>2
    <3> QED
      BY <2>1, <3>1, <3>2
  <2>6. paused' \in BOOLEAN /\ (paused' => ~ended /\ Len(queue') > cfg'.low)
    <3>1. paused' <=> paused /\ ~(Len(queue) <= cfg.low)
      BY <1>2, <2>1 DEF Resumes
    <3>2. paused => ~ended
      BY DEF QueueInv, NoLostWakeup
    <3>3. paused' \in BOOLEAN
      BY <1>2, <2>1 DEF Resumes
    <3> QED
      BY <1>1, <1>2, <2>1, <3>1, <3>2, <3>3
  <2>7. pc'[Reader] \in {"next", "block", "popped", "reset", "yielded"} => getting'
    BY <2>1, <2>2, <2>3
  <2>8. pc'[Reader] \notin {"block", "popped"}
    BY <2>1
  <2> QED
    BY <1>1, <1>2, <2>1, <2>2, <2>4, <2>5, <2>6, <2>7, <2>8 DEF QueueInv, NoLostWakeup
<1> QED
  BY <1>4, <1>5, <1>6, <1>7, <1>8, <1>9 DEF Reading, RecvPop

--------------------------------------------------------------------------------
(* Every step.                                                             *)

LEMMA Steps ==
  ASSUME Next
  PROVE  \/ \E t \in Users : InSection(t)
         \/ EventsThread \/ EvReset \/ EvSent("ok") \/ EvSent("reset")
         \/ Reading \/ RecvInvalid \/ Keepalive
         \/ \E op \in cfg.ops : PeerSends(op)
         \/ \E s \in Senders : SendCall(s) \/ SendNext(s) \/ SendFails(s)
         \/ \E c \in Closers : CloseCall(c)
BY DEF Next, Loop, Environment, ReaderThread, Reading, Keepalive, InSection

\* Nothing of the connection moves.
LEMMA BaseSame ==
  ASSUME Base, UNCHANGED <<cfg, p, sockVars, exc, ev, pings, ended, histVars, appVars>>
  PROVE  Base'
<1>1. LinkTypes /\ Ends /\ Contexts /\ UNCHANGED <<ctx, pc, sip, left>> /\ p' = p /\ holder' = holder /\ ev' = ev
  BY DEF Base, appVars, sockVars
<1>2. Onwards
  <2>1. UNCHANGED <<cfg, p, ev, pings, deadline, ended, broken>> /\ UNCHANGED <<sock, holder, exc, shut>>
    BY DEF sockVars, histVars
  <2>2. (sock' <=> sock) /\ (shut' <=> shut)
    BY <2>1
  <2> QED
    BY <1>1, <2>1, <2>2, OnwardsKept DEF LinkTypes, Ends
<1>3. holder' = Events <=> ev'.at = "sendall"
  BY <1>1 DEF Contexts
<1> QED
  BY <1>1, <1>2, <1>3, OthersKeep

LEMMA ItemsAreItems == ASSUME NEW op \in PeerOps, NEW n \in Nat PROVE Item(op, n) \in PeerItems
BY DEF PeerItems

LEMMA SectionQueue ==
  ASSUME Base, QueueInv, NEW t \in Users, InSection(t)
  PROVE  QueueInv'
<1>1. /\ pc' = [pc EXCEPT ![t] = pc'[t]] /\ (t # Reader => pc'[Reader] = pc[Reader])
      /\ t = Reader => pc'[Reader] \in {"eof", "close", "ping", "fail"}
  BY InCtxKeeps
<1>2. t = Reader => pc[Reader] \notin {"popped", "assert"}
  <2>1. ctx[t].at \notin {"ok", "raise"}
    BY DEF InSection, InCtx, CtxSent, CtxJoined, CtxLate, CtxLateSet, CtxShutdown, CtxAssembler, CtxLast
  <2> QED
    BY <2>1, UsersDiffer DEF Base, Contexts
<1>3. UNCHANGED <<cfg, inbox, getting, parts, streams, load, ev>>
  BY DEF InSection, InCtx, CtxSent, CtxJoined, CtxLate, CtxLateSet, CtxShutdown, CtxAssembler, CtxLast, CtxRest
<1>4. AssemblerClose \/ queueVars' = queueVars
  BY DEF InSection, InCtx, CtxSent, CtxJoined, CtxLate, CtxLateSet, CtxShutdown, CtxAssembler, CtxLast, CloseAssembler
<1>5. inbox' \in Seq(PeerItems) /\ load' \in Nat /\ ended \in BOOLEAN
      /\ (ev'.at \notin {"data", "sendall", "events"} => ev'.data = <<>>)
  BY <1>3 DEF QueueInv, Base, LinkTypes
<1>6. CASE AssemblerClose
  BY <1>1, <1>2, <1>3, <1>5, <1>6, CloseQueue
<1>7. CASE queueVars' = queueVars
  BY <1>1, <1>2, <1>3, <1>5, <1>7, QueueSame DEF queueVars
<1> QED
  BY <1>4, <1>6, <1>7

LEMMA StepKeeps ==
  ASSUME IInv, Next
  PROVE  IInv'
<1>1. /\ Base /\ QueueInv /\ load \in Nat /\ load + 1 \in Nat /\ inbox \in Seq(PeerItems)
      /\ (ev.at \notin {"data", "sendall", "events"} => ev.data = <<>>)
  BY DEF IInv, QueueInv
<1>2. ASSUME UNCHANGED <<cfg, inbox, ev, queueVars, readVars>>, load' \in {load, load + 1}, Base', pc'[Reader] = pc[Reader]
      PROVE  IInv'
  <2>1. QueueInv'
    BY <1>1, <1>2, QueueSame DEF queueVars, readVars
  <2> QED
    BY <1>2, <2>1 DEF IInv
<1>3. ASSUME NEW t \in Users, InSection(t) PROVE IInv'
  BY <1>1, <1>3, InCtxKeeps, SectionQueue DEF IInv
<1>4. CASE EventsThread \/ EvReset \/ EvSent("ok") \/ EvSent("reset")
  BY <1>1, <1>4, EventsKeep, EventsQueue DEF IInv
<1>5. CASE Reading
  BY <1>1, <1>5, ReadingKeeps, ReadingQueue DEF IInv
<1>6. CASE RecvInvalid
  <2>1. /\ UNCHANGED <<cfg, inbox, ev, queueVars, getting, parts, streams, load>> /\ Else /\ UNCHANGED <<pings, sip, left>>
        /\ pc[Reader] = "invalid" /\ Context(Reader, Fail(p, 1007), "fail")
    BY <1>6 DEF RecvInvalid, RecvRest, Else, queueVars, histVars
  <2>2. Base' /\ pc'[Reader] \in {"eof", "close", "ping", "fail"}
    BY <1>1, <2>1, UsersDiffer, FailKeeps
  <2>3. QueueInv'
    BY <1>1, <2>1, <2>2, QueueSame DEF queueVars
  <2> QED
    BY <2>2, <2>3 DEF IInv
<1>7. CASE Keepalive
  <2>1. UNCHANGED <<cfg, inbox, ev, queueVars, readVars, load>>
    BY <1>7 DEF Keepalive, KeepPing, KeepPong, KeepTimeout, KeepRest
  <2> QED
    BY <1>1, <1>2, <1>7, <2>1, KeeperKeeps
<1>8. ASSUME NEW op \in cfg.ops, PeerSends(op) PROVE IInv'
  <2>1. /\ UNCHANGED <<cfg, p, exc, ev, pings, sockVars, appVars, queueVars, readVars, histVars>> /\ load' = load + 1
        /\ op \in PeerOps
    BY <1>1, <1>8, ScenarioAssumption DEF PeerSends, Asks, Base, LinkTypes
  <2>2. inbox' \in Seq(PeerItems)
    <3>1. PICK n \in Nat : inbox' = Append(inbox, Item(op, n))
      <4>1. DOMAIN pings \subseteq Nat
        BY <1>1 DEF Base, LinkTypes
      <4> QED
        BY <1>1, <1>8, <2>1, <4>1 DEF PeerSends
    <3> QED
      BY <1>1, <2>1, <3>1, ItemsAreItems
  <2>3. Base' /\ pc'[Reader] = pc[Reader]
    BY <1>1, <2>1, BaseSame DEF queueVars, appVars
  <2>4. QueueInv'
    BY <1>1, <2>1, <2>2, <2>3, QueueSame DEF queueVars, readVars
  <2> QED
    BY <2>3, <2>4 DEF IInv
<1>9. ASSUME NEW s \in Senders, SendCall(s) \/ SendNext(s) \/ SendFails(s) PROVE IInv'
  <2>1. UNCHANGED <<cfg, inbox, ev, queueVars, readVars>> /\ load' \in {load, load + 1}
    BY <1>9 DEF SendCall, SendNext, SendFails, AppRest, Asks
  <2> QED
    BY <1>1, <1>2, <1>9, <2>1, SendersKeep
<1>10. ASSUME NEW c \in Closers, CloseCall(c) PROVE IInv'
  <2>1. UNCHANGED <<cfg, inbox, ev, queueVars, readVars>> /\ load' \in {load, load + 1}
    BY <1>10 DEF CloseCall, AppRest, Asks
  <2> QED
    BY <1>1, <1>2, <1>10, <2>1, ClosersKeep
<1> QED
  BY <1>3, <1>4, <1>5, <1>6, <1>7, <1>8, <1>9, <1>10, Steps

LEMMA StutterKeeps == ASSUME IInv, UNCHANGED vars PROVE IInv'
<1>1. UNCHANGED <<cfg, p, sockVars, exc, ev, pings, ended, histVars, appVars>> /\ UNCHANGED <<inbox, queueVars, readVars, load>>
  BY DEF vars, queueVars
<1>2. Base' /\ pc'[Reader] = pc[Reader]
  BY <1>1, BaseSame DEF IInv, appVars
<1>3. inbox' \in Seq(PeerItems) /\ load' \in Nat /\ (ev'.at \notin {"data", "sendall", "events"} => ev'.data = <<>>)
  BY <1>1 DEF IInv, QueueInv
<1>4. QueueInv'
  BY <1>1, <1>2, <1>3, QueueSame DEF IInv, queueVars, readVars
<1> QED
  BY <1>2, <1>4 DEF IInv

LEMMA InitHolds == ASSUME Init PROVE IInv
<1>1. /\ cfg \in Configs /\ inbox = <<>> /\ sock = TRUE /\ holder = NoThread /\ deadline = FALSE /\ exc = "none"
      /\ ev = Thread("flow", <<>>) /\ ctx = [t \in Users |-> Returned] /\ sip = FALSE /\ left = cfg.pieces
      /\ pings = [i \in 1..MaxPings |-> "unsent"] /\ queue = <<>> /\ paused = FALSE /\ ended = FALSE
      /\ getting = FALSE /\ parts = <<>> /\ streams = FALSE /\ broken = FALSE /\ shut = FALSE /\ load = 0
  BY DEF Init
<1>2. /\ cfg.side \in {"client", "server"} /\ cfg.pieces \in [Senders -> Nat]
      /\ <<>> \in Seq(PeerItems) /\ <<>> \in Seq(QueueFrames) /\ Len(<<>>) = 0 /\ DOMAIN <<>> = {}
  BY <1>1, ScenarioAssumption
<1>3. Running(p) /\ p.state = "OPEN" /\ ~p.expectCont
  BY <1>2, RunningInit DEF Init
<1>4. Returned \in Ctxs /\ Returned.at = "ok"
  BY DEF Returned, InContext, Ctxs
<1>5. pc \in [Users -> Places] /\ \A t \in Users : pc[t] \in {"idle", "sleep", "done"} /\ (t # Keeper => pc[t] = "idle")
  BY DEF Init, Places
<1>6. ctx \in [Users -> Ctxs] /\ \A t \in Users : ctx[t].at = "ok"
  BY <1>1, <1>4
<1>7. /\ ev \in [at: EvPlaces, data: Seq(PeerItems), timed: BOOLEAN] /\ ev.at = "flow" /\ ev.data = <<>>
  BY <1>1, <1>2 DEF Thread, EvPlaces
<1>8. LinkTypes /\ AppTypes
  BY <1>1, <1>2, <1>3, <1>5, <1>6, <1>7 DEF LinkTypes, AppTypes
<1>9. Ends /\ Contexts
  BY <1>1, <1>3, <1>6, <1>7, UsersDiffer DEF Ends, Contexts, Over
<1>10. Sending
  <2>1. \A t \in Senders \cup Closers \cup {Reader} : pc[t] = "idle"
    BY <1>5, UsersDiffer
  <2> QED
    BY <1>1, <1>3, <2>1 DEF Sending, Inside
<1>11. QueueInv
  <2>1. pc[Reader] = "idle"
    BY <1>5, UsersDiffer
  <2>2. ~paused /\ ~ended /\ paused \in BOOLEAN /\ getting \in BOOLEAN /\ streams \in BOOLEAN
    BY <1>1
  <2>3. inbox = <<>> /\ queue = <<>> /\ parts = <<>> /\ load \in Nat /\ 1..(Len(parts) - 1) = {}
    BY <1>1
  <2> QED
    BY <1>2, <1>7, <2>1, <2>2, <2>3 DEF QueueInv, NoLostWakeup
<1> QED
  BY <1>8, <1>9, <1>10, <1>11 DEF IInv, Base

THEOREM IInvHolds == Spec => []IInv
<1>1. Init => IInv
  BY InitHolds
<1>2. IInv /\ [Next]_vars => IInv'
  BY StepKeeps, StutterKeeps
<1> QED
  BY <1>1, <1>2, PTL DEF Spec

\* No thread sleeps beside work, recv_events() dies only under a connection
\* that another thread closed, senders take turns, and whoever learns of the
\* end finds it: connection.py and messages.py keep all of it whatever the
\* order in which the threads run.
THEOREM ThreadsHold ==
  Spec => [](/\ NoLostWakeup /\ SafetyNetOnlyAfterClose /\ SendersTakeTurns /\ ClosedMeansClosed)
<1>1. ASSUME IInv PROVE NoLostWakeup /\ SafetyNetOnlyAfterClose /\ SendersTakeTurns /\ ClosedMeansClosed
  <2>1. Base /\ QueueInv
    BY <1>1 DEF IInv
  <2>2. ClosedMeansClosed
    BY <2>1 DEF Base, Sending, Ends, ClosedMeansClosed
  <2>3. SendersTakeTurns
    BY <2>1 DEF Base, Sending, SendersTakeTurns
  <2> QED
    BY <2>1, <2>2, <2>3 DEF Base, Ends, QueueInv, SafetyNetOnlyAfterClose
<1> QED
  BY <1>1, IInvHolds, PTL

\* The rest of it but for one place: that what the reader fetches starts a
\* message is a matter of the stream.
LEMMA TypesAndDeadlines ==
  ASSUME IInv, pc[Reader] # "assert"
  PROVE  TypeOK /\ DeadlineKept
<1>1. Base /\ QueueInv
  BY DEF IInv
<1>2. DeadlineKept
  BY <1>1 DEF Base, LinkTypes, Ends, Contexts, Running, DeadlineKept
<1>3. TypeOK
  BY <1>1 DEF Base, LinkTypes, AppTypes, QueueInv, Running, Ctxs, EvPlaces, TypeOK
<1> QED
  BY <1>2, <1>3

--------------------------------------------------------------------------------
(* The data frames of a connection: fetched, queued, among the events that *)
(* recv_events() goes through, read, and not read yet.                     *)

\* The first frame of f goes behind a.
LEMMA Shift ==
  ASSUME NEW a \in Seq(QueueFrames), NEW f \in Seq(QueueFrames), f # <<>>
  PROVE  Append(a, f[1]) \o Tail(f) = a \o f
<1>1. /\ f[1] \in QueueFrames /\ Tail(f) \in Seq(QueueFrames) /\ Len(Tail(f)) = Len(f) - 1 /\ Len(f) \in Nat /\ Len(f) >= 1
      /\ \A i \in 1..(Len(f) - 1) : Tail(f)[i] = f[i + 1]
  BY PopIs
<1>2. PICK x \in QueueFrames : x = f[1]
  BY <1>1
<1>3. PICK h \in Seq(QueueFrames) : h = Tail(f)
  BY <1>1
<1>4. Append(a, x) = a \o <<x>> /\ <<x>> \in Seq(QueueFrames)
  BY AppendIsConcat
<1>5. (a \o <<x>>) \o h = a \o (<<x>> \o h)
  <2>1. a \in Seq(QueueFrames) /\ <<x>> \in Seq(QueueFrames) /\ h \in Seq(QueueFrames)
    BY <1>4
  <2> QED
    BY ONLY <2>1, ConcatAssociative
<1>6. <<x>> \o h = f
  <2>1. PICK b \in Seq(QueueFrames) : b = <<x>>
    BY <1>4
  <2>2. Len(b) = 1 /\ b[1] = x
    BY <2>1
  <2>3. b \o h \in Seq(QueueFrames)
    OBVIOUS
  <2>4. PICK c \in Seq(QueueFrames) : c = b \o h
    BY <2>3
  <2>5. Len(c) = Len(f) /\ \A i \in 1..Len(f) : c[i] = IF i <= 1 THEN b[i] ELSE h[i - 1]
    <3>1. PICK k \in Nat : k = Len(f)
      BY <1>1
    <3>2. Len(b) = 1 /\ Len(h) = k - 1 /\ k >= 1
      BY <1>1, <1>3, <2>2, <3>1
    <3>3. /\ Len(c) = Len(b) + Len(h)
          /\ \A i \in 1..(Len(b) + Len(h)) : c[i] = IF i <= Len(b) THEN b[i] ELSE h[i - Len(b)]
      BY <2>4, ConcatProperties
    <3>4. Len(b) + Len(h) = k
      BY <3>2
    <3> QED
      BY <3>1, <3>2, <3>3, <3>4
  <2>6. ASSUME NEW i \in 1..Len(f) PROVE c[i] = f[i]
    <3>1. CASE i = 1
      BY <1>2, <2>2, <2>5, <3>1
    <3>2. CASE i # 1
      <4>1. i - 1 \in 1..(Len(f) - 1) /\ (i - 1) + 1 = i
        BY <1>1, <3>2
      <4> QED
        BY <1>1, <1>3, <2>5, <3>2, <4>1
    <3> QED
      BY <3>1, <3>2
  <2> QED
    BY <2>1, <2>4, <2>5, <2>6, SeqEqual
<1> QED
  BY <1>2, <1>3, <1>4, <1>5, <1>6

\* The queue s holds the frames f, and at most an end after them.
Held(s, f) == (s = f \/ s = Append(f, EndMark)) /\ \A i \in DOMAIN f : f[i] # EndMark

LEMMA HeldPop ==
  ASSUME NEW s, NEW f \in Seq(QueueFrames), Held(s, f), s # <<>>
  PROVE  /\ s[1] = EndMark => f = <<>> /\ s = <<EndMark>>
         /\ s[1] # EndMark => /\ f # <<>> /\ s[1] = f[1] /\ Held(Tail(s), Tail(f)) /\ f[1] \in QueueFrames
                              /\ Tail(f) \in Seq(QueueFrames) /\ \A a \in Seq(QueueFrames) : Append(a, f[1]) \o Tail(f) = a \o f
<1>1. Len(f) \in Nat /\ DOMAIN f = 1..Len(f) /\ EndMark \in QueueFrames
  BY DEF EndMark, QueueFrames
<1> USE DEF Held
<1>2. CASE s[1] = EndMark
  <2>1. f = <<>>
    <3> SUFFICES ASSUME f # <<>> PROVE FALSE
      OBVIOUS
    <3>1. 1 \in DOMAIN f
      BY <1>1
    <3>2. s[1] = f[1]
      BY <1>1, <3>1
    <3> QED
      BY <1>2, <3>1, <3>2
  <2> QED
    BY <1>2, <2>1
<1>3. CASE s[1] # EndMark
  <2>1. f # <<>>
    BY <1>3
  <2>2. 1 \in DOMAIN f /\ s[1] = f[1] /\ f[1] \in QueueFrames
    BY <1>1, <2>1
  <2>3. /\ Tail(f) \in Seq(QueueFrames) /\ Len(Tail(f)) = Len(f) - 1
        /\ \A i \in DOMAIN Tail(f) : i + 1 \in DOMAIN f /\ Tail(f)[i] = f[i + 1]
    BY <2>1, PopIs
  <2>4. Held(Tail(s), Tail(f))
    <3>1. CASE s = f
      BY <2>3, <3>1
    <3>2. CASE s = Append(f, EndMark)
      <4>1. PICK e \in QueueFrames : e = EndMark
        BY <1>1
      <4>2. Tail(Append(f, e)) = Append(Tail(f), e)
        BY <2>1, HeadTailAppend, Zenon
      <4> QED
        BY <2>3, <3>2, <4>1, <4>2
    <3> QED
      BY <3>1, <3>2
  <2>5. \A a \in Seq(QueueFrames) : Append(a, f[1]) \o Tail(f) = a \o f
    BY <2>1, Shift
  <2> QED
    BY <1>3, <2>1, <2>2, <2>3, <2>4, <2>5
<1> QED
  BY <1>2, <1>3

LEMMA HeldIs ==
  ASSUME NEW s, NEW f \in Seq(QueueFrames), Held(s, f)
  PROVE  /\ (\A i \in DOMAIN s : s[i] # EndMark) => s = f
         /\ \A x \in QueueFrames : x # EndMark => Held(Append(f, x), Append(f, x))
         /\ Held(Append(f, EndMark), f)
<1>1. PICK e \in QueueFrames : e = EndMark
  BY DEF EndMark, QueueFrames
<1>2. ASSUME \A i \in DOMAIN s : s[i] # e PROVE s = f
  <2> SUFFICES ASSUME s = Append(f, e) PROVE FALSE
    BY <1>1 DEF Held
  <2>1. Len(f) + 1 \in DOMAIN s /\ s[Len(f) + 1] = e
    OBVIOUS
  <2> QED
    BY <1>2, <2>1
<1>3. ASSUME NEW x \in QueueFrames, x # e PROVE \A i \in DOMAIN Append(f, x) : Append(f, x)[i] # e
  BY <1>1, <1>3 DEF Held
<1> QED
  BY <1>1, <1>2, <1>3 DEF Held

LEMMA HeldBehind ==
  ASSUME NEW s, NEW f \in Seq(QueueFrames), Held(s, f), NEW a \in Seq(QueueFrames), \A i \in DOMAIN a : a[i] # EndMark
  PROVE  Held(a \o s, a \o f) /\ a \o f \in Seq(QueueFrames) /\ Messages(a \o s) = Messages(a \o f)
<1>1. PICK e \in QueueFrames : e = EndMark
  BY DEF EndMark, QueueFrames
<1>2. PICK g \in Seq(QueueFrames) : g = a \o f
  <2>1. a \o f \in Seq(QueueFrames)
    OBVIOUS
  <2> QED
    BY <2>1
<1>3. \A i \in DOMAIN g : g[i] # e
  <2>1. /\ Len(g) = Len(a) + Len(f) /\ Len(a) \in Nat /\ Len(f) \in Nat
        /\ \A i \in 1..(Len(a) + Len(f)) : g[i] = IF i <= Len(a) THEN a[i] ELSE f[i - Len(a)]
    BY <1>2, ConcatProperties
  <2>2. DOMAIN g = 1..Len(g) /\ DOMAIN a = 1..Len(a) /\ DOMAIN f = 1..Len(f)
    BY <1>2
  <2>3. ASSUME NEW i \in 1..(Len(a) + Len(f)) PROVE g[i] # e
    <3>1. CASE i <= Len(a)
      BY <1>1, <2>1, <2>2, <3>1, SMTT(20)
    <3>2. CASE ~(i <= Len(a))
      <4>1. i - Len(a) \in DOMAIN f
        BY <2>1, <2>2, <3>2
      <4> QED
        BY <1>1, <2>1, <3>2, <4>1 DEF Held
    <3> QED
      BY <3>1, <3>2
  <2> QED
    BY <2>1, <2>2, <2>3
<1>4. CASE s = f
  BY <1>1, <1>2, <1>3, <1>4 DEF Held
<1>5. CASE s = Append(f, e)
  <2>1. a \o s = Append(g, e)
    <3>1. <<e>> \in Seq(QueueFrames) /\ Append(f, e) = f \o <<e>> /\ Append(g, e) = g \o <<e>>
      BY AppendIsConcat
    <3>2. a \in Seq(QueueFrames) /\ f \in Seq(QueueFrames) /\ <<e>> \in Seq(QueueFrames)
      BY <3>1
    <3>3. (a \o f) \o <<e>> = a \o (f \o <<e>>)
      BY ONLY <3>2, ConcatAssociative, SMTT(30)
    <3> QED
      BY <1>2, <1>5, <3>1, <3>3
  <2>2. Messages(Append(g, e)) = Messages(g)
    <3>1. Append(g, e) \in Seq(QueueFrames)
      OBVIOUS
    <3>2. PICK h \in Seq(QueueFrames) : h = Append(g, e)
      BY <3>1
    <3>3. /\ Len(g) \in Nat /\ DOMAIN g = 1..Len(g) /\ DOMAIN h = 1..(Len(g) + 1) /\ h[Len(g) + 1] = e
          /\ \A i \in 1..Len(g) : h[i] = g[i]
      BY <1>2, <3>2
    <3>4. ~e.fin /\ ~e.starts
      BY <1>1 DEF EndMark
    <3>5. Fins(h) = Fins(g)
      BY <3>3, <3>4 DEF Fins
    <3>6. \A k \in DOMAIN h : h[k].starts => k \in DOMAIN g
      BY <3>3, <3>4
    <3> QED
      BY <3>2, <3>3, <3>5, <3>6 DEF Messages
  <2> QED
    BY <1>1, <1>2, <1>3, <2>1, <2>2 DEF Held
<1> QED
  BY <1>1, <1>4, <1>5 DEF Held

\* d are the data frames among the events e, in order: f says where.
Embeds(f, e, d) ==
  /\ f \in [1..Len(d) -> 1..Len(e)]
  /\ \A i, j \in 1..Len(d) : i < j => f[i] < f[j]
  /\ \A i \in 1..Len(d) : IsData(e[f[i]]) /\ d[i] = Queued(e[f[i]])
  /\ \A k \in 1..Len(e) : IsData(e[k]) => \E i \in 1..Len(d) : f[i] = k
Same(e, d) == \E f : Embeds(f, e, d)

LEMMA SameEmpty ==
  /\ Same(<<>>, <<>>)
  /\ \A d \in Seq(QueueFrames) : Same(<<>>, d) => d = <<>>
<1>1. Len(<<>>) = 0 /\ 1..0 = {}
  OBVIOUS
<1>2. Same(<<>>, <<>>)
  <2> DEFINE f == [i \in 1..Len(<<>>) |-> 1]
  <2>1. Embeds(f, <<>>, <<>>)
    BY <1>1 DEF Embeds
  <2> QED
    BY <2>1 DEF Same
<1>3. ASSUME NEW d \in Seq(QueueFrames), Same(<<>>, d) PROVE d = <<>>
  <2>1. PICK f : f \in [1..Len(d) -> 1..0]
    BY <1>1, <1>3 DEF Same, Embeds
  <2>2. Len(d) \in Nat /\ \A i \in 1..Len(d) : f[i] \in {}
    BY <1>1, <2>1
  <2>3. Len(d) = 0
    <3> SUFFICES ASSUME Len(d) # 0 PROVE FALSE
      OBVIOUS
    <3>1. 1 \in 1..Len(d)
      BY <2>2
    <3> QED
      BY <2>2, <3>1
  <2> QED
    BY <2>3
<1> QED
  BY <1>2, <1>3

LEMMA SameGrows ==
  ASSUME NEW e \in Seq(PeerItems), NEW d \in Seq(QueueFrames), Same(e, d), NEW x \in PeerItems
  PROVE  Same(Append(e, x), IF IsData(x) THEN Append(d, Queued(x)) ELSE d)
<1>1. PICK f : Embeds(f, e, d)
  BY DEF Same
<1>2. PICK m \in Nat, n \in Nat : m = Len(e) /\ n = Len(d)
  OBVIOUS
<1> DEFINE u == Append(e, x)
<1>3. Len(u) = m + 1 /\ u[m + 1] = x /\ \A k \in 1..m : u[k] = e[k]
  BY <1>2
<1> HIDE DEF u
<1>4. /\ f \in [1..n -> 1..m]
      /\ \A i, j \in 1..n : i < j => f[i] < f[j]
      /\ \A i \in 1..n : IsData(e[f[i]]) /\ d[i] = Queued(e[f[i]])
      /\ \A k \in 1..m : IsData(e[k]) => \E i \in 1..n : f[i] = k
  BY <1>1, <1>2 DEF Embeds
<1>5. CASE IsData(x)
  <2>1. PICK y \in QueueFrames : y = Queued(x)
    BY QueuedIs
  <2> DEFINE w == Append(d, y)
  <2> DEFINE g == [i \in 1..(n + 1) |-> IF i = n + 1 THEN m + 1 ELSE f[i]]
  <2>2. Len(w) = n + 1 /\ w[n + 1] = y /\ \A i \in 1..n : w[i] = d[i]
    BY <1>2
  <2>3. /\ g[n + 1] = m + 1 /\ \A i \in 1..n : g[i] = f[i] /\ f[i] \in 1..m
    BY <1>4
  <2>4. g \in [1..(n + 1) -> 1..(m + 1)]
    BY <1>4
  <2> HIDE DEF w, g
  <2>5. \A i \in 1..(n + 1) : i = n + 1 \/ i \in 1..n
    OBVIOUS
  <2>6. ASSUME NEW i \in 1..(n + 1), NEW j \in 1..(n + 1), i < j PROVE g[i] < g[j]
    <3>1. i \in 1..n
      BY <2>6
    <3>2. CASE j = n + 1
      BY <2>3, <3>1, <3>2
    <3>3. CASE j \in 1..n
      BY <1>4, <2>3, <2>6, <3>1, <3>3
    <3> QED
      BY <2>5, <3>2, <3>3
  <2>7. ASSUME NEW i \in 1..(n + 1) PROVE IsData(u[g[i]]) /\ w[i] = Queued(u[g[i]])
    <3>1. CASE i = n + 1
      BY <1>3, <1>5, <2>1, <2>2, <2>3, <3>1
    <3>2. CASE i \in 1..n
      BY <1>3, <1>4, <2>2, <2>3, <3>2, SMTT(60)
    <3> QED
      BY <2>5, <3>1, <3>2
  <2>8. ASSUME NEW k \in 1..(m + 1), IsData(u[k]) PROVE \E i \in 1..(n + 1) : g[i] = k
    <3>1. CASE k = m + 1
      BY <2>3, <3>1
    <3>2. CASE k # m + 1
      <4>1. k \in 1..m
        BY <3>2
      <4>2. PICK i \in 1..n : f[i] = k
        BY <1>3, <1>4, <2>8, <4>1
      <4>3. i \in 1..(n + 1) /\ g[i] = k
        BY <2>3, <4>2
      <4> QED
        BY <4>3
    <3> QED
      BY <3>1, <3>2
  <2>9. Embeds(g, u, w)
    BY <1>3, <2>2, <2>4, <2>6, <2>7, <2>8 DEF Embeds
  <2> QED
    BY <1>5, <2>1, <2>9 DEF Same, u, w
<1>6. CASE ~IsData(x)
  <2>1. f \in [1..n -> 1..(m + 1)]
    BY <1>4
  <2>2. \A i \in 1..n : IsData(u[f[i]]) /\ d[i] = Queued(u[f[i]])
    BY <1>3, <1>4
  <2>3. ASSUME NEW k \in 1..(m + 1), IsData(u[k]) PROVE \E i \in 1..n : f[i] = k
    <3>1. k \in 1..m
      BY <1>3, <1>6, <2>3
    <3> QED
      BY <1>3, <1>4, <2>3, <3>1
  <2>4. Embeds(f, u, d)
    BY <1>2, <1>3, <1>4, <2>1, <2>2, <2>3 DEF Embeds
  <2> QED
    BY <1>6, <2>4 DEF Same, u
<1> QED
  BY <1>5, <1>6

LEMMA SameTail ==
  ASSUME NEW e \in Seq(PeerItems), NEW d \in Seq(QueueFrames), Same(e, d), e # <<>>
  PROVE  /\ IsData(e[1]) => d # <<>> /\ d[1] = Queued(e[1]) /\ Same(Tail(e), Tail(d))
         /\ ~IsData(e[1]) => Same(Tail(e), d)
<1>1. PICK f : Embeds(f, e, d)
  BY DEF Same
<1>2. PICK m \in Nat, n \in Nat : m = Len(e) /\ n = Len(d)
  OBVIOUS
<1> DEFINE u == Tail(e)
<1>3. m >= 1 /\ Len(u) = m - 1 /\ \A k \in 1..(m - 1) : u[k] = e[k + 1]
  BY <1>2
<1> HIDE DEF u
<1>4. /\ f \in [1..n -> 1..m]
      /\ \A i, j \in 1..n : i < j => f[i] < f[j]
      /\ \A i \in 1..n : IsData(e[f[i]]) /\ d[i] = Queued(e[f[i]])
      /\ \A k \in 1..m : IsData(e[k]) => \E i \in 1..n : f[i] = k
  BY <1>1, <1>2 DEF Embeds
<1>5. ASSUME IsData(e[1]) PROVE d # <<>> /\ d[1] = Queued(e[1]) /\ Same(u, Tail(d))
  <2>1. PICK o \in 1..n : f[o] = 1
    <3>1. 1 \in 1..m
      BY <1>3
    <3> QED
      BY <1>4, <1>5, <3>1
  <2>2. o = 1
    <3> SUFFICES ASSUME o # 1 PROVE FALSE
      OBVIOUS
    <3>1. 1 \in 1..n /\ 1 < o
      BY <2>1
    <3> QED
      BY <1>4, <2>1, <3>1
  <2>3. 1 \in 1..n /\ f[1] = 1 /\ d[1] = Queued(e[1]) /\ d # <<>>
    BY <1>2, <1>4, <2>1, <2>2
  <2> DEFINE w == Tail(d)
  <2> DEFINE g == [i \in 1..(n - 1) |-> f[i + 1] - 1]
  <2>4. Len(w) = n - 1 /\ \A i \in 1..(n - 1) : w[i] = d[i + 1]
    BY <1>2, <2>3
  <2>5. ASSUME NEW i \in 1..(n - 1)
        PROVE  /\ i + 1 \in 1..n /\ f[i + 1] \in 1..m /\ f[i + 1] > 1 /\ g[i] = f[i + 1] - 1
               /\ f[i + 1] - 1 \in 1..(m - 1) /\ (f[i + 1] - 1) + 1 = f[i + 1]
    <3>1. i + 1 \in 1..n /\ 1 < i + 1 /\ 1 \in 1..n
      BY <2>3
    <3>2. f[i + 1] \in 1..m /\ f[1] < f[i + 1]
      BY <1>4, <3>1
    <3> QED
      BY <2>3, <3>1, <3>2
  <2>6. g \in [1..(n - 1) -> 1..(m - 1)]
    BY <2>5
  <2> HIDE DEF w, g
  <2>7. ASSUME NEW i \in 1..(n - 1), NEW j \in 1..(n - 1), i < j PROVE g[i] < g[j]
    <3>1. i + 1 < j + 1
      BY <2>7
    <3>2. f[i + 1] < f[j + 1]
      BY <1>4, <2>5, <3>1
    <3> QED
      BY <2>5, <3>2, SMTT(20)
  <2>8. ASSUME NEW i \in 1..(n - 1) PROVE IsData(u[g[i]]) /\ w[i] = Queued(u[g[i]])
    <3>1. u[g[i]] = e[f[i + 1]]
      BY <1>3, <2>5
    <3> QED
      BY <1>4, <2>4, <2>5, <3>1
  <2>9. ASSUME NEW k \in 1..(m - 1), IsData(u[k]) PROVE \E i \in 1..(n - 1) : g[i] = k
    <3>1. k + 1 \in 1..m /\ IsData(e[k + 1])
      BY <1>3, <2>9
    <3>2. PICK j \in 1..n : f[j] = k + 1
      BY <1>4, <3>1
    <3>3. j # 1
      BY <2>3, <3>2
    <3>4. PICK i \in 1..(n - 1) : i + 1 = j
      <4>1. j - 1 \in 1..(n - 1) /\ (j - 1) + 1 = j
        BY <3>3
      <4> QED
        BY <4>1
    <3>5. g[i] = k
      BY <2>5, <3>2, <3>4
    <3> QED
      BY <3>5
  <2>10. Embeds(g, u, w)
    BY <1>3, <2>4, <2>6, <2>7, <2>8, <2>9 DEF Embeds
  <2> QED
    BY <2>3, <2>10 DEF Same, w
<1>6. ASSUME ~IsData(e[1]) PROVE Same(u, d)
  <2> DEFINE g == [i \in 1..n |-> f[i] - 1]
  <2>1. ASSUME NEW i \in 1..n
        PROVE  f[i] \in 1..m /\ f[i] > 1 /\ g[i] = f[i] - 1 /\ f[i] - 1 \in 1..(m - 1) /\ (f[i] - 1) + 1 = f[i]
    <3>1. f[i] \in 1..m /\ f[i] # 1
      BY <1>4, <1>6
    <3> QED
      BY <3>1
  <2>2. g \in [1..n -> 1..(m - 1)]
    BY <2>1
  <2> HIDE DEF g
  <2>3. \A i, j \in 1..n : i < j => g[i] < g[j]
    BY <1>4, <2>1
  <2>4. ASSUME NEW i \in 1..n PROVE IsData(u[g[i]]) /\ d[i] = Queued(u[g[i]])
    <3>1. u[g[i]] = e[f[i]]
      BY <1>3, <2>1
    <3> QED
      BY <1>4, <3>1
  <2>5. ASSUME NEW k \in 1..(m - 1), IsData(u[k]) PROVE \E i \in 1..n : g[i] = k
    <3>1. k + 1 \in 1..m /\ IsData(e[k + 1])
      BY <1>3, <2>5
    <3>2. PICK j \in 1..n : f[j] = k + 1
      BY <1>4, <3>1
    <3>3. g[j] = k
      BY <2>1, <3>2
    <3> QED
      BY <3>3
  <2>6. Embeds(g, u, d)
    BY <1>2, <1>3, <2>2, <2>3, <2>4, <2>5 DEF Embeds
  <2> QED
    BY <2>6 DEF Same
<1> QED
  BY <1>5, <1>6 DEF u

\* The protocol keeps the data frames beside the events.
LEMMA FedSame ==
  ASSUME NEW q, Running(q), NEW items \in Seq(PeerItems)
  PROVE  Same(Fed(q, items).events, Fed(q, items).data)
<1> DEFINE n == Len(items)
<1>1. PICK g : /\ g[0] = [p |-> q, events |-> <<>>, data |-> <<>>]
               /\ \A k \in 1..n : g[k] = Feed(g[k - 1], items[k])
               /\ Fed(q, items) = g[n]
  <2>1. Len(items) \in Nat
    OBVIOUS
  <2> QED
    BY <2>1, FedIs
<1> DEFINE Good == {k \in Nat : k <= n => Fine(q, g[k]) /\ Same(g[k].events, g[k].data)}
<1>2. 0 \in Good
  <2> DEFINE base == [p |-> q, events |-> <<>>, data |-> <<>>]
  <2>1. DOMAIN base = {"p", "events", "data"} /\ base.p = q /\ base.events = <<>> /\ base.data = <<>>
    OBVIOUS
  <2>2. <<>> \in Seq(PeerItems) /\ <<>> \in Seq(QueueFrames)
    OBVIOUS
  <2> HIDE DEF base
  <2>3. Fine(q, base) /\ Same(base.events, base.data)
    BY <2>1, <2>2, SameEmpty DEF Fine, NotByItself
  <2> QED
    BY <1>1, <2>3 DEF base
<1>3. ASSUME NEW k \in Good PROVE k + 1 \in Good
  <2> SUFFICES ASSUME k + 1 <= n PROVE Fine(q, g[k + 1]) /\ Same(g[k + 1].events, g[k + 1].data)
    OBVIOUS
  <2>1. k \in Nat /\ k + 1 \in 1..n /\ (k + 1) - 1 = k /\ Fine(q, g[k]) /\ Same(g[k].events, g[k].data)
    OBVIOUS
  <2>2. g[k + 1] = Feed(g[k], items[k + 1]) /\ items[k + 1] \in PeerItems
    BY <1>1, <2>1
  <2> DEFINE r == g[k]
  <2> DEFINE x == items[k + 1]
  <2>3. Fine(q, Feed(r, x))
    BY <2>1, <2>2, FeedKeeps
  <2>4. Same(Feed(r, x).events, Feed(r, x).data)
    <3>1. Fine(q, r) /\ Same(r.events, r.data) /\ x \in PeerItems
      BY <2>1, <2>2
    <3> HIDE DEF r, x
    <3>2. DOMAIN r = {"p", "events", "data"} /\ r.events \in Seq(PeerItems) /\ r.data \in Seq(QueueFrames)
      BY <3>1 DEF Fine
    <3>3. \/ Feed(r, x).events = r.events /\ Feed(r, x).data = r.data
          \/ /\ Feed(r, x).events = Append(r.events, x)
             /\ Feed(r, x).data = IF IsData(x) THEN Append(r.data, Queued(x)) ELSE r.data
      BY <3>2 DEF Feed
    <3>4. Same(Append(r.events, x), IF IsData(x) THEN Append(r.data, Queued(x)) ELSE r.data)
      BY <3>1, <3>2, SameGrows
    <3> QED
      BY <3>1, <3>3, <3>4
  <2> QED
    BY <2>2, <2>3, <2>4
<1>4. Good = Nat
  <2>1. Good \in SUBSET Nat
    OBVIOUS
  <2> HIDE DEF Good
  <2> QED
    BY <1>2, <1>3, <2>1, NatSetInduction
<1>5. n \in Nat
  OBVIOUS
<1> QED
  BY <1>1, <1>4, <1>5

--------------------------------------------------------------------------------
(* Frames that flow: w are the frames that wait, for the parser q; t are   *)
(* the messages that were taken, c what is still to be parsed, and the     *)
(* peer has numbered up to l.                                              *)

Flow(q, w, t, c, l) ==
  /\ Line(q, w) /\ t \subseteq 1..l /\ Numbers(w) \subseteq 1..l
  /\ \A x \in t, y \in Numbers(w) : x < y
  /\ \A i \in DOMAIN c : IsData(c[i]) => c[i].n \in 1..l
  /\ Numbered(c, t \cup Numbers(w))

\* A parser that is fed nothing more.
Stopped == [parser |-> "discard"]

LEMMA FlowCalm ==
  ASSUME NEW q, NEW w, NEW t, NEW c, NEW l \in Nat, Flow(q, w, t, c, l), NEW r, Calm(q, r), NEW m \in Nat, l <= m
  PROVE  Flow(r, w, t, c, m) /\ Flow(Stopped, w, t, c, m)
<1>1. 1..l \subseteq 1..m /\ Calm(q, Stopped)
  BY DEF Calm, Stopped
<1>2. Line(r, w) /\ Line(Stopped, w)
  BY <1>1, CalmLine DEF Flow
<1> QED
  BY <1>1, <1>2 DEF Flow

LEMMA NumbersConcat ==
  ASSUME NEW w \in Seq(QueueFrames), NEW d \in Seq(QueueFrames)
  PROVE  Numbers(w \o d) = Numbers(w) \cup Numbers(d)
<1> DEFINE m == Len(w)
<1> DEFINE k == Len(d)
<1> DEFINE l == w \o d
<1>1. /\ m \in Nat /\ k \in Nat /\ DOMAIN w = 1..m /\ DOMAIN d = 1..k /\ DOMAIN l = 1..(m + k)
      /\ (\A i \in 1..m : l[i] = w[i]) /\ \A i \in 1..k : l[m + i] = d[i]
  OBVIOUS
<1> HIDE DEF m, k, l
<1>2. ASSUME NEW i \in 1..(m + k) PROVE l[i].n \in Numbers(w) \cup Numbers(d)
  <2>1. CASE i <= m
    <3>1. i \in 1..m
      BY <1>1, <2>1
    <3>2. i \in DOMAIN w /\ l[i] = w[i]
      BY <1>1, <3>1
    <3> QED
      BY <3>2 DEF Numbers
  <2>2. CASE ~(i <= m)
    <3>1. i - m \in 1..k /\ m + (i - m) = i
      BY <1>1, <2>2
    <3>2. l[i] = d[i - m]
      BY <1>1, <3>1
    <3> QED
      BY <1>1, <3>1, <3>2 DEF Numbers
  <2> QED
    BY <2>1, <2>2
<1>3. (\A i \in 1..m : i \in DOMAIN l /\ l[i] = w[i]) /\ \A i \in 1..k : m + i \in DOMAIN l /\ l[m + i] = d[i]
  BY <1>1
<1>4. Numbers(l) \subseteq Numbers(w) \cup Numbers(d)
  BY <1>1, <1>2 DEF Numbers
<1>5. Numbers(w) \subseteq Numbers(l)
  BY <1>1, <1>3 DEF Numbers
<1>6. Numbers(d) \subseteq Numbers(l)
  BY <1>1, <1>3 DEF Numbers
<1> QED
  BY <1>4, <1>5, <1>6 DEF l

\* The frames at the end are thrown away, with the parser.
LEMMA FlowCut ==
  ASSUME NEW q, NEW w \in Seq(QueueFrames), NEW d \in Seq(QueueFrames), NEW t, NEW c, NEW l \in Nat,
         Flow(q, w \o d, t, c, l)
  PROVE  Flow(Stopped, w, t, c, l)
<1>1. Numbers(w) \subseteq Numbers(w \o d)
  BY NumbersConcat
<1>2. Line(Stopped, w)
  <2> DEFINE m == Len(w)
  <2> DEFINE k == Len(d)
  <2> DEFINE s == w \o d
  <2>1. /\ m \in Nat /\ k \in Nat /\ DOMAIN w = 1..m /\ DOMAIN s = 1..(m + k) /\ Len(s) = m + k
        /\ \A i \in 1..m : s[i] = w[i]
    <3>1. s \in Seq(QueueFrames) /\ Len(s) = m + k /\ \A i \in 1..(m + k) : s[i] = IF i <= m THEN w[i] ELSE d[i - m]
      BY ConcatProperties
    <3>2. m \in Nat /\ k \in Nat /\ DOMAIN w = 1..m /\ DOMAIN s = 1..Len(s)
      BY <3>1
    <3> HIDE DEF m, k, s
    <3> QED
      BY <3>1, <3>2
  <2>2. Line(q, s)
    BY DEF Flow
  <2> HIDE DEF m, k, s
  <2>3. ASSUME NEW i \in DOMAIN w, NEW j \in DOMAIN w, i < j PROVE w[i].n < w[j].n
    <3>1. i \in DOMAIN s /\ j \in DOMAIN s /\ s[i] = w[i] /\ s[j] = w[j]
      BY <2>1
    <3> QED
      BY <2>2, <2>3, <3>1 DEF Line
  <2>4. w # <<>> => w[1].starts
    <3> SUFFICES ASSUME w # <<>> PROVE w[1].starts
      OBVIOUS
    <3>1. 1 \in 1..m
      BY <2>1 DEF m
    <3>2. s # <<>> /\ s[1] = w[1]
      BY <2>1, <3>1
    <3> QED
      BY <2>2, <3>2 DEF Line
  <2>5. ASSUME NEW i \in 1..(m - 1) PROVE w[i + 1].starts <=> w[i].fin
    <3>1. i \in 1..(Len(s) - 1) /\ i \in 1..m /\ i + 1 \in 1..m
      BY <2>1
    <3>2. s[i] = w[i] /\ s[i + 1] = w[i + 1]
      BY <2>1, <3>1
    <3> QED
      BY <2>2, <3>1, <3>2 DEF Line
  <2> QED
    BY <2>3, <2>4, <2>5 DEF Line, Stopped, m
<1> QED
  BY <1>1, <1>2 DEF Flow, Numbered

\* Something is read that is not parsed.
LEMMA FlowRest ==
  ASSUME NEW q, NEW w, NEW t, NEW a \in Seq(PeerItems), NEW b \in Seq(PeerItems), NEW l \in Nat,
         Flow(q, w, t, a \o b, l)
  PROVE  Flow(q, w, t, a, l) /\ Flow(q, w, t, b, l) /\ Flow(q, w, t, <<>>, l)
<1> DEFINE m == Len(a)
<1> DEFINE n == Len(b)
<1> DEFINE c == a \o b
<1>1. /\ m \in Nat /\ n \in Nat /\ DOMAIN a = 1..m /\ DOMAIN b = 1..n /\ DOMAIN c = 1..(m + n)
      /\ (\A i \in 1..m : c[i] = a[i]) /\ \A i \in 1..n : c[m + i] = b[i]
  OBVIOUS
<1> DEFINE s == t \cup Numbers(w)
<1>2. /\ \A i \in DOMAIN c : IsData(c[i]) => c[i].n \in 1..l
      /\ Numbered(c, s)
  BY DEF Flow
<1> HIDE DEF m, n, c, s
<1>3. ASSUME NEW i \in 1..m
      PROVE  /\ IsData(a[i]) => a[i].n \in 1..l /\ \A x \in s : x < a[i].n
             /\ \A j \in 1..m : i < j /\ IsData(a[i]) /\ IsData(a[j]) => a[i].n < a[j].n
  <2>1. i \in DOMAIN c /\ c[i] = a[i] /\ \A j \in 1..m : j \in DOMAIN c /\ c[j] = a[j]
    BY <1>1
  <2> QED
    BY <1>2, <2>1 DEF Numbered
<1>4. ASSUME NEW i \in 1..n
      PROVE  /\ IsData(b[i]) => b[i].n \in 1..l /\ \A x \in s : x < b[i].n
             /\ \A j \in 1..n : i < j /\ IsData(b[i]) /\ IsData(b[j]) => b[i].n < b[j].n
  <2>1. m + i \in DOMAIN c /\ c[m + i] = b[i] /\ \A j \in 1..n : m + j \in DOMAIN c /\ c[m + j] = b[j]
    BY <1>1
  <2>2. \A j \in 1..n : i < j => m + i < m + j
    BY <1>1
  <2> QED
    BY <1>2, <2>1, <2>2 DEF Numbered
<1>5. Numbered(a, s) /\ Numbered(b, s) /\ Numbered(<<>>, s) /\ DOMAIN <<>> = {}
  BY <1>1, <1>3, <1>4 DEF Numbered
<1> QED
  BY <1>1, <1>3, <1>4, <1>5 DEF Flow, s

LEMMA FlowEmpty ==
  ASSUME NEW q, NEW w, NEW t, NEW c, NEW l, Flow(q, w, t, c, l)
  PROVE  Flow(Stopped, <<>>, t, c, l)
<1>1. DOMAIN <<>> = {} /\ <<>> \in Seq(QueueFrames) /\ Len(<<>>) = 0 /\ 1..(0 - 1) = {}
  OBVIOUS
<1>2. Line(Stopped, <<>>) /\ Numbers(<<>>) = {}
  BY <1>1 DEF Line, Stopped, Numbers
<1> QED
  BY <1>2 DEF Flow, Numbered

\* The peer sends a thing more, which has the next number if it is data.
LEMMA FlowMore ==
  ASSUME NEW q, NEW w, NEW t, NEW c \in Seq(PeerItems), NEW l \in Nat, Flow(q, w, t, c, l),
         NEW x \in PeerItems, IsData(x) => x.n = l + 1
  PROVE  Flow(q, w, t, Append(c, x), l + 1)
<1> DEFINE m == Len(c)
<1> DEFINE e == Append(c, x)
<1> DEFINE s == t \cup Numbers(w)
<1>1. /\ m \in Nat /\ DOMAIN c = 1..m /\ DOMAIN e = 1..(m + 1) /\ e[m + 1] = x /\ \A i \in 1..m : e[i] = c[i]
  OBVIOUS
<1>2. /\ Numbered(c, s) /\ s \subseteq 1..l /\ \A i \in DOMAIN c : IsData(c[i]) => c[i].n \in 1..l
  BY DEF Flow
<1> HIDE DEF m, e, s
<1>3. ASSUME NEW i \in 1..(m + 1), IsData(e[i])
      PROVE  /\ e[i].n \in 1..(l + 1) /\ \A y \in s : y < e[i].n
             /\ \A j \in 1..(m + 1) : j < i /\ IsData(e[j]) => e[j].n < e[i].n
  <2>1. ASSUME NEW j \in 1..m, IsData(e[j]) PROVE e[j] = c[j] /\ e[j].n \in 1..l
    BY <1>1, <1>2, <2>1
  <2>2. CASE i = m + 1
    <3>1. e[i].n = l + 1
      BY <1>1, <1>3, <2>2
    <3>2. \A j \in 1..(m + 1) : j < i => j \in 1..m
      BY <1>1, <2>2
    <3> QED
      BY <1>2, <2>1, <3>1, <3>2
  <2>3. CASE i # m + 1
    <3>1. i \in 1..m /\ \A j \in 1..(m + 1) : j < i => j \in 1..m
      BY <1>1, <2>3
    <3>2. e[i] = c[i] /\ e[i].n \in 1..l /\ IsData(c[i])
      BY <1>3, <2>1, <3>1
    <3>3. \A y \in s : y < c[i].n
      BY <1>1, <1>2, <3>1, <3>2 DEF Numbered
    <3>4. ASSUME NEW j \in 1..(m + 1), j < i, IsData(e[j]) PROVE e[j].n < e[i].n
      <4>1. j \in 1..m /\ e[j] = c[j]
        BY <2>1, <3>1, <3>4
      <4> QED
        BY <1>1, <1>2, <3>1, <3>2, <3>4, <4>1 DEF Numbered
    <3> QED
      BY <3>2, <3>3, <3>4
  <2> QED
    BY <2>2, <2>3
<1>4. Numbered(e, s)
  BY <1>1, <1>3 DEF Numbered
<1>5. 1..l \subseteq 1..(l + 1)
  OBVIOUS
<1>6. Line(q, w) /\ t \subseteq 1..(l + 1) /\ Numbers(w) \subseteq 1..(l + 1) /\ \A a \in t, y \in Numbers(w) : a < y
  BY <1>5 DEF Flow
<1> QED
  BY <1>1, <1>3, <1>4, <1>6 DEF Flow, e, s

\* The parser is fed the first of what is to come.
LEMMA FlowFed ==
  ASSUME NEW q, Running(q), NEW w \in Seq(QueueFrames), NEW t, NEW a \in Seq(PeerItems), NEW b \in Seq(PeerItems),
         NEW l \in Nat, Flow(q, w, t, a \o b, l)
  PROVE  LET r == Fed(q, a) IN Flow(r.p, w \o r.data, t, b, l) /\ r.data \in Seq(QueueFrames)
<1> DEFINE m == Len(a)
<1> DEFINE n == Len(b)
<1> DEFINE c == a \o b
<1> DEFINE s == t \cup Numbers(w)
<1> DEFINE r == Fed(q, a)
<1>1. /\ m \in Nat /\ n \in Nat /\ DOMAIN a = 1..m /\ DOMAIN b = 1..n /\ DOMAIN c = 1..(m + n)
      /\ (\A i \in 1..m : c[i] = a[i]) /\ \A i \in 1..n : c[m + i] = b[i]
  OBVIOUS
<1>2. /\ \A i \in DOMAIN c : IsData(c[i]) => c[i].n \in 1..l
      /\ Numbered(c, s) /\ s \subseteq 1..l /\ Line(q, w) /\ t \subseteq 1..l /\ \A x \in t, y \in Numbers(w) : x < y
  BY DEF Flow
<1>3. Flow(q, w, t, a, l) /\ Flow(q, w, t, b, l)
  BY FlowRest
<1>4. r.data \in Seq(QueueFrames)
  BY FedKeeps DEF Fine
<1>5. /\ Line(r.p, w \o r.data)
      /\ \A i \in DOMAIN r.data : \E j \in DOMAIN a : IsData(a[j]) /\ r.data[i].n = a[j].n
  <2>1. s \in SUBSET Nat /\ (\A x \in Numbers(w) : x \in s)
    BY <1>2
  <2>2. Numbered(a, s)
    BY <1>3 DEF Flow
  <2> HIDE DEF s, r
  <2>3. LET z == Fed(q, a)
        IN  /\ Line(z.p, w \o z.data)
            /\ \A i \in DOMAIN z.data : \E j \in DOMAIN a : IsData(a[j]) /\ z.data[i].n = a[j].n
    BY <1>2, <2>1, <2>2, FedLine
  <2> QED
    BY <2>3 DEF r
<1> DEFINE d == r.data
<1>6. d \in Seq(QueueFrames)
  BY <1>4
<1>7. \A i \in DOMAIN d : \E j \in DOMAIN a : IsData(a[j]) /\ d[i].n = a[j].n
  BY <1>5
<1> HIDE DEF m, n, c, s, r, d
<1>8. Numbers(w \o d) = Numbers(w) \cup Numbers(d)
  BY <1>6, NumbersConcat
<1>9. ASSUME NEW y \in Numbers(d)
      PROVE  /\ y \in 1..l /\ \A x \in s : x < y
             /\ \A i \in DOMAIN b : IsData(b[i]) => y < b[i].n
  <2>1. PICK j \in DOMAIN a : IsData(a[j]) /\ y = a[j].n
    BY <1>7 DEF Numbers
  <2>2. j \in 1..m /\ j \in DOMAIN c /\ c[j] = a[j]
    BY <1>1
  <2>3. y \in 1..l /\ \A x \in s : x < y
    BY <1>2, <2>1, <2>2 DEF Numbered
  <2>4. ASSUME NEW i \in DOMAIN b, IsData(b[i]) PROVE y < b[i].n
    <3>1. m + i \in DOMAIN c /\ c[m + i] = b[i] /\ j < m + i
      BY <1>1, <2>2
    <3> QED
      BY <1>2, <2>1, <2>2, <2>4, <3>1 DEF Numbered
  <2> QED
    BY <2>3, <2>4
<1>10. Numbers(w \o d) \subseteq 1..l /\ \A x \in t, y \in Numbers(w \o d) : x < y
  BY <1>2, <1>8, <1>9 DEF s
<1>11. Numbered(b, t \cup Numbers(w \o d))
  <2>1. Numbered(b, s)
    BY <1>3 DEF Flow, s
  <2>2. t \cup Numbers(w \o d) = s \cup Numbers(d)
    BY <1>8 DEF s
  <2> QED
    BY <1>9, <2>1, <2>2 DEF Numbered
<1>12. \A i \in DOMAIN b : IsData(b[i]) => b[i].n \in 1..l
  BY <1>3 DEF Flow
<1>13. Flow(r.p, w \o d, t, b, l)
  BY <1>2, <1>5, <1>10, <1>11, <1>12 DEF Flow, d
<1> QED
  BY <1>4, <1>13 DEF d, r

\* The first message is taken.
LEMMA FlowTake ==
  ASSUME NEW q, NEW w, NEW t, NEW c, NEW l \in Nat, Flow(q, w, t, c, l),
         NEW i \in Fins(w), \A j \in Fins(w) : i <= j
  PROVE  LET rest == SubSeq(w, i + 1, Len(w))
         IN  /\ Flow(q, rest, t \cup {w[1].n}, c, l)
             /\ Messages(w) = {w[1].n} \cup Messages(rest) /\ w[1].n \in 1..l
             /\ \A x \in t : x < w[1].n
             /\ \A x \in Numbers(rest) : w[1].n < x
<1> DEFINE rest == SubSeq(w, i + 1, Len(w))
<1> DEFINE x == w[1].n
<1>1. /\ Line(q, rest) /\ Numbers(rest) \subseteq Numbers(w) /\ Messages(w) = {x} \cup Messages(rest)
      /\ x \in Numbers(w) /\ \A y \in Numbers(rest) : x < y
  BY TakeKeeps DEF Flow
<1> HIDE DEF rest, x
<1>2. x \in 1..l /\ \A y \in t : y < x
  BY <1>1 DEF Flow
<1>3. Numbered(c, (t \cup {x}) \cup Numbers(rest))
  <2>1. (t \cup {x}) \cup Numbers(rest) \subseteq t \cup Numbers(w)
    BY <1>1
  <2> QED
    BY <2>1 DEF Flow, Numbered
<1>4. Flow(q, rest, t \cup {x}, c, l)
  BY <1>1, <1>2, <1>3 DEF Flow
<1> QED
  BY <1>1, <1>2, <1>4 DEF rest, x

\* w begins with the message m, and goes on with v.
Begins(w, m, v) == Messages(w) = {m} \cup Messages(v)

\* The first message of the line is taken, the frames of which are a.
LEMMA FlowFirst ==
  ASSUME NEW q, NEW a \in Seq(QueueFrames), NEW v \in Seq(QueueFrames), NEW w, w = a \o v, NEW t, NEW c, NEW l \in Nat,
         a # <<>>, a[Len(a)].fin, \A i \in 1..(Len(a) - 1) : ~a[i].fin, Flow(q, w, t, c, l)
  PROVE  /\ Flow(q, v, t \cup {a[1].n}, c, l)
         /\ Begins(w, a[1].n, v) /\ a[1].n \in 1..l
         /\ \A x \in t : x < a[1].n
         /\ \A x \in Numbers(v) : a[1].n < x
<1> DEFINE m == Len(a)
<1> DEFINE n == Len(v)
<1> DEFINE rest == SubSeq(w, m + 1, m + n)
<1>1. /\ m \in Nat /\ n \in Nat /\ m >= 1 /\ DOMAIN a = 1..m /\ DOMAIN v = 1..n
      /\ w \in Seq(QueueFrames) /\ Len(w) = m + n /\ DOMAIN w = 1..(m + n)
      /\ (\A i \in 1..m : w[i] = a[i]) /\ \A i \in 1..n : w[m + i] = v[i]
  OBVIOUS
<1>2. a[m].fin /\ \A i \in 1..(m - 1) : ~a[i].fin
  OBVIOUS
<1> HIDE DEF m, n, rest
<1>3. m \in Fins(w) /\ \A j \in Fins(w) : m <= j
  <2>1. m \in 1..m /\ m \in 1..(m + n)
    BY <1>1
  <2>2. m \in Fins(w)
    BY <1>1, <1>2, <2>1 DEF Fins
  <2>3. ASSUME NEW j \in Fins(w) PROVE m <= j
    <3>1. j \in 1..(m + n) /\ w[j].fin
      BY <1>1 DEF Fins
    <3>2. SUFFICES ASSUME ~(m <= j) PROVE FALSE
      OBVIOUS
    <3>3. j \in 1..(m - 1) /\ j \in 1..m
      BY <1>1, <3>1, <3>2
    <3> QED
      BY <1>1, <1>2, <3>1, <3>3
  <2> QED
    BY <2>2, <2>3
<1>4. rest = v
  <2>1. \A k \in (m + 1)..(m + n) : w[k] \in QueueFrames
    BY <1>1
  <2>2. m + 1 \in Int /\ m + n \in Int
    BY <1>1
  <2>3. /\ rest \in Seq(QueueFrames) /\ Len(rest) = IF m + 1 <= m + n THEN (m + n) - (m + 1) + 1 ELSE 0
        /\ \A k \in 1..((m + n) - (m + 1) + 1) : rest[k] = w[(m + 1) + k - 1]
    BY ONLY <2>1, <2>2, SubSeqProperties DEF rest
  <2>4. Len(rest) = n /\ (m + n) - (m + 1) + 1 = n
    BY <1>1, <2>3
  <2>5. ASSUME NEW k \in 1..n PROVE rest[k] = v[k]
    <3>1. (m + 1) + k - 1 = m + k
      BY <1>1
    <3> QED
      BY <1>1, <2>3, <2>4, <3>1, ZenonT(30)
  <2> QED
    BY <2>3, <2>4, <2>5, SeqEqual DEF n
<1>5. Flow(q, w, t, c, l) /\ SubSeq(w, m + 1, Len(w)) = v
  BY <1>1, <1>4 DEF rest
<1>6. LET z == SubSeq(w, m + 1, Len(w))
      IN  /\ Flow(q, z, t \cup {w[1].n}, c, l)
          /\ Messages(w) = {w[1].n} \cup Messages(z) /\ w[1].n \in 1..l
          /\ \A x \in t : x < w[1].n
          /\ \A x \in Numbers(z) : w[1].n < x
  BY <1>3, <1>5, FlowTake
<1>7. w[1] = a[1]
  <2>1. 1 \in 1..m
    BY <1>1
  <2> QED
    BY <1>1, <2>1
<1> QED
  BY <1>5, <1>6, <1>7 DEF Begins

--------------------------------------------------------------------------------
(* The stream of messages: what was fetched, what is queued, and what      *)
(* recv_events() goes through make one line of frames, and what it has not *)
(* parsed continues it.                                                    *)

Feeds == ev.at \in {"flow", "read", "data", "sendall", "events"}
Reads == IF Feeds THEN p ELSE Stopped
Coming == (IF ev.at = "data" THEN ev.data ELSE <<>>) \o inbox
Pends(d) == IF ev.at \in {"sendall", "events"} /\ ~ended THEN Same(ev.data, d) ELSE d = <<>>
Carried(f, d) ==
  Held(queue, f) /\ Pends(d) /\ Flow(Reads, (parts \o f) \o d, Range(taken), Coming, load)
StreamInv ==
  /\ load <= MaxLoad /\ pc[Reader] # "assert" /\ taken \in Seq(Nat)
  /\ \E f \in Seq(QueueFrames), d \in Seq(QueueFrames) : Carried(f, d)
Arrived == Range(taken) \cup Messages(parts \o queue)

SInv == IInv /\ StreamInv

LEMMA CarriedIs ==
  ASSUME SInv
  PROVE  /\ parts \in Seq(QueueFrames) /\ load \in Nat /\ inbox \in Seq(PeerItems) /\ ev.data \in Seq(PeerItems)
         /\ Coming \in Seq(PeerItems) /\ Running(p)
         /\ \A f \in Seq(QueueFrames) :
              /\ parts \o f \in Seq(QueueFrames) /\ (parts \o f) \o <<>> = parts \o f
              /\ Held(queue, f) => Messages(parts \o queue) = Messages(parts \o f)
<1>1. /\ parts \in Seq(QueueFrames) /\ load \in Nat /\ inbox \in Seq(PeerItems) /\ ev.data \in Seq(PeerItems)
      /\ Running(p) /\ \A i \in DOMAIN parts : parts[i] # EndMark
  BY DEF SInv, IInv, QueueInv, Base, LinkTypes
<1>2. Coming \in Seq(PeerItems)
  BY <1>1 DEF Coming
<1>3. ASSUME NEW f \in Seq(QueueFrames) PROVE parts \o f \in Seq(QueueFrames) /\ (parts \o f) \o <<>> = parts \o f
  <2>1. parts \o f \in Seq(QueueFrames)
    BY <1>1
  <2> QED
    BY <2>1
<1>4. ASSUME NEW f \in Seq(QueueFrames), Held(queue, f) PROVE Messages(parts \o queue) = Messages(parts \o f)
  BY <1>1, <1>4, HeldBehind
<1> QED
  BY <1>1, <1>2, <1>3, <1>4

LEMMA Stutters ==
  ASSUME UNCHANGED <<Arrived, taken, ended>>
  PROVE  [Stream!Next]_(Stream!vars)
BY DEF Stream!vars, Arrived

\* Frames move on this side of the queue.
LEMMA StreamSame ==
  ASSUME UNCHANGED <<queue, parts, taken>>, taken \in Seq(Nat), load' \in Nat, load' <= MaxLoad, pc'[Reader] # "assert",
         NEW f \in Seq(QueueFrames), Held(queue, f), NEW d \in Seq(QueueFrames), Pends(d)',
         Flow(Reads', (parts \o f) \o d, Range(taken), Coming', load')
  PROVE  StreamInv' /\ Arrived' = Arrived /\ taken' = taken
<1>1. queue' = queue /\ parts' = parts /\ taken' = taken
  OBVIOUS
<1>2. Carried(f, d)'
  BY <1>1 DEF Carried
<1> QED
  BY <1>1, <1>2 DEF StreamInv, Arrived

\* Nothing of the stream moves.
LEMMA QuietStream ==
  ASSUME SInv, Calm(p, p'), UNCHANGED <<queue, parts, taken, ended, ev, inbox>>, load' \in {load, load + 1}, load' <= MaxLoad,
         pc'[Reader] # "assert"
  PROVE  StreamInv' /\ UNCHANGED <<Arrived, taken, ended>>
<1>1. PICK f \in Seq(QueueFrames), d \in Seq(QueueFrames) : Carried(f, d)
  BY DEF SInv, StreamInv
<1>2. ev' = ev /\ inbox' = inbox /\ (ended' <=> ended) /\ taken \in Seq(Nat)
  BY DEF SInv, StreamInv
<1>3. Coming' = Coming /\ Pends(d)' /\ (Feeds' <=> Feeds)
  BY <1>1, <1>2 DEF Coming, Pends, Feeds, Carried
<1>4. Calm(Reads, Reads')
  BY <1>3 DEF Reads, Calm
<1>5. load \in Nat /\ load' \in Nat /\ load <= load'
  BY CarriedIs
<1>6. Flow(Reads', (parts \o f) \o d, Range(taken), Coming', load')
  BY <1>1, <1>3, <1>4, <1>5, FlowCalm DEF Carried
<1> QED
  BY <1>1, <1>2, <1>3, <1>5, <1>6, StreamSame DEF Carried

\* The Assembler is closed: what recv_events() still goes through is lost.
LEMMA CloseStream ==
  ASSUME SInv, AssemblerClose, p'.parser = "discard", UNCHANGED <<parts, taken, load, inbox>>, pc'[Reader] # "assert",
         ev' = ev \/ (ev.at = "assembler" /\ ev'.at = "done")
  PROVE  StreamInv' /\ [Stream!Next]_(Stream!vars)
<1>1. PICK f \in Seq(QueueFrames), d \in Seq(QueueFrames) : Carried(f, d)
  BY DEF SInv, StreamInv
<1>2. ended' /\ queue' \in {queue, Append(queue, EndMark)} /\ (ended => queue' = queue)
  BY DEF AssemblerClose
<1>3. Held(queue', f)
  <2>1. ~ended => queue = f
    <3>1. ~ended => \A i \in DOMAIN queue : queue[i] # EndMark
      BY DEF SInv, IInv, QueueInv
    <3> QED
      BY <1>1, <3>1, HeldIs DEF Carried
  <2>2. Held(Append(f, EndMark), f) /\ Held(queue, f)
    BY <1>1, HeldIs DEF Carried
  <2> QED
    BY <1>2, <2>1, <2>2
<1>4. /\ parts \o f \in Seq(QueueFrames) /\ (parts \o f) \o <<>> = parts \o f /\ load \in Nat
      /\ Messages(parts \o queue) = Messages(parts \o f)
  BY <1>1, CarriedIs DEF Carried
<1>5. Messages(parts \o queue') = Messages(parts \o f)
  <2>1. parts \in Seq(QueueFrames) /\ \A i \in DOMAIN parts : parts[i] # EndMark
    BY DEF SInv, IInv, QueueInv
  <2> QED
    BY <1>3, <2>1, HeldBehind
<1>6. Coming' = Coming /\ Pends(<<>>)'
  BY <1>2 DEF Coming, Pends
<1>7. Flow(Stopped, parts \o f, Range(taken), Coming, load)
  <2>1. Flow(Reads, (parts \o f) \o d, Range(taken), Coming, load)
    BY <1>1 DEF Carried
  <2> QED
    BY <1>4, <2>1, FlowCut
<1>8. Flow(Reads', (parts \o f) \o <<>>, Range(taken), Coming', load)
  <2>1. Calm(Stopped, Reads')
    BY DEF Calm, Reads, Stopped
  <2> QED
    BY <1>4, <1>6, <1>7, <2>1, FlowCalm
<1>9. parts' = parts /\ taken' = taken /\ load' = load /\ <<>> \in Seq(QueueFrames)
  OBVIOUS
<1>10. Carried(f, <<>>)'
  BY <1>3, <1>6, <1>8, <1>9 DEF Carried
<1>11. StreamInv' /\ Arrived' = Arrived /\ taken' = taken
  BY <1>4, <1>5, <1>9, <1>10 DEF StreamInv, SInv, Arrived
<1>12. CASE ended
  <2>1. ended' = ended
    BY <1>12 DEF AssemblerClose, SInv, IInv, Base, LinkTypes
  <2> QED
    BY <1>11, <2>1, Stutters
<1>13. CASE ~ended
  <2>1. ended' = TRUE
    BY DEF AssemblerClose
  <2>2. Stream!End
    BY <1>11, <1>13, <2>1 DEF Stream!End, Arrived
  <2> QED
    BY <1>11, <2>2 DEF Stream!Next
<1> QED
  BY <1>12, <1>13

\* What the threads do to the protocol: none of them parses.
LEMMA ContextBody ==
  ASSUME Base, NEW t, NEW q, NEW at, Context(t, q, at), p.state = "OPEN" => Running(q) /\ Calm(p, q)
  PROVE  Calm(p, p')
<1>1. CASE p.state = "OPEN"
  <2> DEFINE r == IF CloseExpected(q) THEN Asserted(q, ~deadline) ELSE q
  <2>1. p' = Written(r) /\ ~deadline
    BY <1>1 DEF Context, Enter, Base, Ends
  <2>2. Running(r) /\ Alike(q, r)
    <3>1. CASE CloseExpected(q)
      <4>1. r = Asserted(q, ~deadline)
        BY <3>1
      <4> QED
        BY <1>1, <2>1, <4>1, AssertedIs
    <3>2. CASE ~CloseExpected(q)
      BY <1>1, <3>2 DEF Alike
    <3> QED
      BY <3>1, <3>2
  <2> HIDE DEF r
  <2> QED
    BY <1>1, <2>1, <2>2, WrittenIs DEF Alike, Calm
<1>2. CASE p.state # "OPEN"
  BY <1>2 DEF Context, EnterClosed, Calm
<1> QED
  BY <1>1, <1>2

LEMMA FailBody ==
  ASSUME Base, NEW t, NEW code \in {1007, 1011}, NEW at, Context(t, Fail(p, code), at)
  PROVE  Calm(p, p')
<1> DEFINE q == Fail(p, code)
<1>1. p.state = "OPEN" => Running(q) /\ q.parser = "discard"
  BY FailIs DEF Base, LinkTypes, EofError
<1> HIDE DEF q
<1>2. p.state = "OPEN" => Running(q) /\ Calm(p, q)
  BY <1>1 DEF Calm
<1> QED
  BY <1>2, ContextBody DEF q

LEMMA DataBody ==
  ASSUME Base, NEW t, NEW first \in BOOLEAN, NEW fin \in BOOLEAN, NEW at, Context(t, SendData(p, first, fin, 0), at)
  PROVE  Calm(p, p')
<1> DEFINE q == SendData(p, first, fin, 0)
<1>1. Running(q) /\ Alike(p, q)
  BY SendDataIs DEF Base, LinkTypes
<1> HIDE DEF q
<1>2. p.state = "OPEN" => Running(q) /\ Calm(p, q)
  BY <1>1, CalmAlike
<1> QED
  BY <1>2, ContextBody DEF q

\* The connection ends: the parser discards.
LEMMA EofBody ==
  ASSUME Base, p' = Written(EofOnce(p))
  PROVE  p'.parser = "discard"
<1>1. Running(EofOnce(p)) /\ EofOnce(p).state = "CLOSED"
  BY EofOnceIs DEF Base, LinkTypes
<1>2. EofOnce(p).parser = "discard"
  BY <1>1 DEF Running
<1> QED
  BY <1>1, <1>2, WrittenIs DEF Alike

LEMMA UsersCalm ==
  ASSUME Base,
         \/ \E t \in Users : InSection(t)
         \/ RecvInvalid \/ Keepalive
         \/ \E s \in Senders : SendCall(s) \/ SendNext(s) \/ SendFails(s)
         \/ \E c \in Closers : CloseCall(c)
  PROVE  Calm(p, p')
<1>1. Running(p) /\ (p' = p => Calm(p, p'))
  BY DEF Base, LinkTypes, Calm
<1>2. ASSUME NEW t \in Users, InSection(t) PROVE Calm(p, p')
  <2>1. p' = p \/ CtxAssembler(t)
    BY <1>2 DEF InSection, InCtx, CtxSent, CtxJoined, CtxLate, CtxLateSet, CtxShutdown, CtxLast
  <2>2. CASE CtxAssembler(t)
    BY <2>2, EofBody DEF CtxAssembler, CloseAssembler, Calm
  <2> QED
    BY <1>1, <2>1, <2>2
<1>3. CASE RecvInvalid
  BY <1>3, FailBody DEF RecvInvalid
<1>4. CASE Keepalive
  <2>1. CASE Context(Keeper, SendPing(p, 0), "ping")
    <3>1. Running(SendPing(p, 0)) /\ Calm(p, SendPing(p, 0))
      BY <1>1, SendPingIs, CalmAlike
    <3> QED
      BY <2>1, <3>1, ContextBody
  <2>2. CASE Context(Keeper, Fail(p, 1011), "fail")
    BY <2>2, FailBody
  <2> QED
    BY <1>1, <1>4, <2>1, <2>2 DEF Keepalive, KeepPing, KeepPong, KeepTimeout
<1>5. ASSUME NEW s \in Senders, SendCall(s) \/ SendNext(s) \/ SendFails(s) PROVE Calm(p, p')
  <2>1. \/ p' = p \/ Context(s, Fail(p, 1011), "fail")
        \/ Context(s, SendData(p, TRUE, TRUE, 0), "final") \/ Context(s, SendData(p, TRUE, FALSE, 0), "write")
        \/ Context(s, SendData(p, FALSE, FALSE, 0), "write") \/ Context(s, SendData(p, FALSE, TRUE, 0), "final")
    BY <1>5 DEF SendCall, SendPlain, SendFirst, SendNext, SendFails, Refused
  <2>2. CASE Context(s, Fail(p, 1011), "fail")
    BY <2>2, FailBody
  <2>3. CASE Context(s, SendData(p, TRUE, TRUE, 0), "final")
    BY <2>3, DataBody
  <2>4. CASE Context(s, SendData(p, TRUE, FALSE, 0), "write")
    BY <2>4, DataBody
  <2>5. CASE Context(s, SendData(p, FALSE, FALSE, 0), "write")
    BY <2>5, DataBody
  <2>6. CASE Context(s, SendData(p, FALSE, TRUE, 0), "final")
    BY <2>6, DataBody
  <2> QED
    BY <1>1, <2>1, <2>2, <2>3, <2>4, <2>5, <2>6, ZenonT(90)
<1>6. ASSUME NEW c \in Closers, CloseCall(c) PROVE Calm(p, p')
  <2> DEFINE q == SendClose(p, 1000)
  <2>1. Context(c, Fail(p, 1011), "close") \/ Context(c, q, "close")
    BY <1>6 DEF CloseCall
  <2>2. p.state = "OPEN" => Running(q) /\ Calm(p, q)
    BY <1>1, SendCloseIs DEF Calm
  <2> HIDE DEF q
  <2>3. CASE Context(c, Fail(p, 1011), "close")
    BY <2>3, FailBody
  <2>4. CASE Context(c, q, "close")
    BY <2>2, <2>4, ContextBody
  <2> QED
    BY <2>1, <2>3, <2>4
<1> QED
  BY <1>2, <1>3, <1>4, <1>5, <1>6

\* The environment does a thing within its load.
LEMMA AsksIs ==
  ASSUME Base, load \in Nat, Asks
  PROVE  load' = load + 1 /\ load + 1 <= MaxLoad
<1>1. cfg.load \in Nat /\ cfg.load <= MaxLoad /\ MaxLoad \in Nat
  BY ScenarioAssumption DEF Base, LinkTypes
<1> QED
  BY <1>1 DEF Asks

\* What the threads of the application do to the stream: nothing, but for
\* one that closes the Assembler.
LEMMA UsersStream ==
  ASSUME SInv,
         \/ \E t \in Users : InSection(t)
         \/ RecvInvalid \/ Keepalive
         \/ \E s \in Senders : SendCall(s) \/ SendNext(s) \/ SendFails(s)
         \/ \E c \in Closers : CloseCall(c)
  PROVE  StreamInv' /\ [Stream!Next]_(Stream!vars)
<1>1. /\ Base /\ load \in Nat /\ load <= MaxLoad /\ pc[Reader] # "assert" /\ Calm(p, p') /\ Reader \in Users
  BY UsersCalm, UsersDiffer DEF SInv, IInv, QueueInv, StreamInv
<1>2. ASSUME UNCHANGED <<queue, parts, taken, ended, ev, inbox>>, load' = load \/ Asks, pc'[Reader] # "assert"
      PROVE  StreamInv' /\ [Stream!Next]_(Stream!vars)
  <2>1. load' \in {load, load + 1} /\ load' <= MaxLoad
    BY <1>1, <1>2, AsksIs
  <2>2. StreamInv' /\ UNCHANGED <<Arrived, taken, ended>>
    BY <1>1, <1>2, <2>1, QuietStream
  <2> QED
    BY <2>2, Stutters
<1>3. ASSUME NEW t \in Users, InSection(t) PROVE StreamInv' /\ [Stream!Next]_(Stream!vars)
  <2>1. pc'[Reader] # "assert"
    BY <1>1, <1>3, InCtxKeeps
  <2>2. CASE CtxAssembler(t)
    <3>1. /\ AssemblerClose /\ p' = Written(EofOnce(p)) /\ UNCHANGED <<parts, taken, load, inbox, ev>>
      BY <2>2 DEF CtxAssembler, CloseAssembler, CtxRest
    <3>2. p'.parser = "discard"
      BY <1>1, <3>1, EofBody
    <3> QED
      BY <2>1, <3>1, <3>2, CloseStream
  <2>3. CASE ~CtxAssembler(t)
    <3>1. UNCHANGED <<queue, parts, taken, ended, ev, inbox, load>>
      BY <1>3, <2>3 DEF InSection, InCtx, CtxSent, CtxJoined, CtxLate, CtxLateSet, CtxShutdown, CtxLast, CtxRest, queueVars
    <3> QED
      BY <1>2, <2>1, <3>1
  <2> QED
    BY <2>2, <2>3
<1>4. CASE RecvInvalid
  <2>1. /\ UNCHANGED <<queue, parts, taken, ended, ev, inbox, load>> /\ Else /\ UNCHANGED <<pings, sip, left>>
        /\ Context(Reader, Fail(p, 1007), "fail")
    BY <1>4 DEF RecvInvalid, RecvRest, Else, histVars
  <2>2. pc'[Reader] # "assert"
    BY <1>1, <2>1, FailKeeps
  <2> QED
    BY <1>2, <2>1, <2>2
<1>5. CASE Keepalive
  <2>1. UNCHANGED <<queue, parts, taken, ended, ev, inbox, load>>
    BY <1>5 DEF Keepalive, KeepPing, KeepPong, KeepTimeout, KeepRest, queueVars, readVars
  <2>2. pc'[Reader] # "assert"
    BY <1>1, <1>5, KeeperKeeps
  <2> QED
    BY <1>2, <2>1, <2>2
<1>6. ASSUME NEW s \in Senders, SendCall(s) \/ SendNext(s) \/ SendFails(s)
      PROVE  StreamInv' /\ [Stream!Next]_(Stream!vars)
  <2>1. UNCHANGED <<queue, parts, taken, ended, ev, inbox>> /\ (load' = load \/ Asks)
    BY <1>6 DEF SendCall, SendNext, SendFails, AppRest, queueVars, readVars
  <2>2. pc'[Reader] # "assert"
    BY <1>1, <1>6, SendersKeep
  <2> QED
    BY <1>2, <2>1, <2>2
<1>7. ASSUME NEW c \in Closers, CloseCall(c) PROVE StreamInv' /\ [Stream!Next]_(Stream!vars)
  <2>1. UNCHANGED <<queue, parts, taken, ended, ev, inbox>> /\ Asks
    BY <1>7 DEF CloseCall, AppRest, queueVars, readVars
  <2>2. pc'[Reader] # "assert"
    BY <1>1, <1>7, ClosersKeep
  <2> QED
    BY <1>2, <2>1, <2>2
<1> QED
  BY <1>3, <1>4, <1>5, <1>6, <1>7

\* The peer sends.
LEMMA PeerStreams ==
  ASSUME SInv, NEW op \in cfg.ops, PeerSends(op)
  PROVE  StreamInv' /\ [Stream!Next]_(Stream!vars)
<1>1. /\ Base /\ load \in Nat /\ load <= MaxLoad /\ pc[Reader] # "assert" /\ taken \in Seq(Nat)
      /\ Coming \in Seq(PeerItems) /\ inbox \in Seq(PeerItems) /\ ev.data \in Seq(PeerItems)
  BY CarriedIs DEF SInv, IInv, StreamInv
<1>2. /\ load' = load + 1 /\ load' <= MaxLoad /\ op \in PeerOps /\ load' \in Nat
      /\ UNCHANGED <<p, ev, pc, queue, ended, parts, taken>> /\ (ended' <=> ended)
  BY <1>1, AsksIs, ScenarioAssumption DEF PeerSends, Base, LinkTypes, queueVars, readVars, appVars
<1>3. PICK x \in PeerItems : inbox' = Append(inbox, x) /\ (IsData(x) => x.n = load + 1)
  <2>1. CASE op = "pong"
    <3>1. PICK i \in DOMAIN pings : inbox' = Append(inbox, Item(op, i))
      BY <2>1 DEF PeerSends
    <3>2. i \in Nat
      BY <1>1, <3>1 DEF Base, LinkTypes
    <3>3. ~IsData(Item(op, i))
      BY <1>2, <2>1, <3>2, ItemIs
    <3> QED
      BY <1>2, <3>1, <3>2, <3>3, ItemsAreItems
  <2>2. CASE op # "pong"
    <3>1. inbox' = Append(inbox, Item(op, load + 1))
      BY <1>2, <2>2 DEF PeerSends
    <3>2. Item(op, load + 1) \in PeerItems /\ Item(op, load + 1).n = load + 1
      BY <1>1, <1>2, ItemsAreItems, ItemIs
    <3> QED
      BY <3>1, <3>2
  <2> QED
    BY <2>1, <2>2
<1>4. Coming' = Append(Coming, x)
  <2>1. PICK a \in Seq(PeerItems) : a = IF ev.at = "data" THEN ev.data ELSE <<>>
    <3>1. <<>> \in Seq(PeerItems)
      OBVIOUS
    <3>2. CASE ev.at = "data"
      BY <1>1, <3>2
    <3>3. CASE ev.at # "data"
      BY <3>1, <3>3
    <3> QED
      BY <3>2, <3>3
  <2>2. Append(inbox, x) = inbox \o <<x>> /\ Append(a \o inbox, x) = (a \o inbox) \o <<x>> /\ <<x>> \in Seq(PeerItems)
    <3>1. x \in PeerItems /\ inbox \in Seq(PeerItems) /\ a \o inbox \in Seq(PeerItems) /\ <<x>> \in Seq(PeerItems)
      BY <1>1, <1>3
    <3> QED
      BY ONLY <3>1, AppendIsConcat
  <2>3. a \in Seq(PeerItems) /\ inbox \in Seq(PeerItems) /\ <<x>> \in Seq(PeerItems)
    BY <1>1, <2>2
  <2>4. (a \o inbox) \o <<x>> = a \o (inbox \o <<x>>)
    BY ONLY <2>3, ConcatAssociative
  <2>5. Coming = a \o inbox /\ Coming' = a \o inbox'
    BY <1>2, <2>1 DEF Coming
  <2> QED
    BY <1>3, <2>2, <2>4, <2>5
<1>5. PICK f \in Seq(QueueFrames), d \in Seq(QueueFrames) : Carried(f, d)
  BY DEF SInv, StreamInv
<1>6. Flow(Reads, (parts \o f) \o d, Range(taken), Coming', load')
  BY <1>1, <1>2, <1>3, <1>4, <1>5, FlowMore DEF Carried
<1>7. Reads' = Reads /\ Pends(d)'
  BY <1>2, <1>5 DEF Reads, Feeds, Pends, Carried
<1>8. StreamInv' /\ Arrived' = Arrived /\ taken' = taken
  BY <1>1, <1>2, <1>5, <1>6, <1>7, StreamSame DEF Carried
<1> QED
  BY <1>2, <1>8, Stutters

\* A step of recv_events() before the queue.
LEMMA LineKeeps ==
  ASSUME SInv, UNCHANGED <<queue, parts, taken, ended>>, load' \in {load, load + 1}, load' <= MaxLoad, pc'[Reader] # "assert",
         \/ Coming' \in {Coming, <<>>}
         \/ \E a \in Seq(PeerItems), b \in Seq(PeerItems) : Coming = a \o b /\ Coming' = b,
         \/ Calm(Reads, Reads') /\ \A d \in Seq(QueueFrames) : Pends(d) => Pends(d)'
         \/ Reads' = Stopped /\ Pends(<<>>)'
  PROVE  StreamInv' /\ [Stream!Next]_(Stream!vars)
<1>1. /\ load \in Nat /\ load' \in Nat /\ load <= load' /\ taken \in Seq(Nat) /\ Coming \in Seq(PeerItems)
      /\ <<>> \in Seq(PeerItems)
  BY CarriedIs DEF SInv, StreamInv
<1>2. PICK f \in Seq(QueueFrames), d \in Seq(QueueFrames) : Carried(f, d)
  BY DEF SInv, StreamInv
<1>3. parts \o f \in Seq(QueueFrames) /\ (parts \o f) \o <<>> = parts \o f
  BY CarriedIs
<1>4. Flow(Reads, (parts \o f) \o d, Range(taken), Coming', load)
  <2>1. Flow(Reads, (parts \o f) \o d, Range(taken), Coming, load)
    BY <1>2 DEF Carried
  <2>2. CASE Coming' = Coming
    BY <2>1, <2>2
  <2>3. CASE Coming' = <<>>
    <3>1. Coming \o <<>> = Coming
      BY <1>1
    <3>2. Flow(Reads, (parts \o f) \o d, Range(taken), Coming \o <<>>, load)
      BY <2>1, <3>1
    <3> QED
      BY <1>1, <2>3, <3>2, FlowRest
  <2>4. ASSUME NEW a \in Seq(PeerItems), NEW b \in Seq(PeerItems), Coming = a \o b, Coming' = b
        PROVE  Flow(Reads, (parts \o f) \o d, Range(taken), Coming', load)
    BY <1>1, <2>1, <2>4, FlowRest
  <2> QED
    BY <2>2, <2>3, <2>4
<1>5. CASE Calm(Reads, Reads') /\ \A e \in Seq(QueueFrames) : Pends(e) => Pends(e)'
  <2>1. Flow(Reads', (parts \o f) \o d, Range(taken), Coming', load')
    BY <1>1, <1>4, <1>5, FlowCalm
  <2>2. StreamInv' /\ Arrived' = Arrived /\ taken' = taken
    BY <1>1, <1>2, <1>5, <2>1, StreamSame DEF Carried
  <2> QED
    BY <2>2, Stutters
<1>6. CASE Reads' = Stopped /\ Pends(<<>>)'
  <2>1. Flow(Stopped, parts \o f, Range(taken), Coming', load)
    BY <1>1, <1>3, <1>4, FlowCut
  <2>2. Calm(Stopped, Stopped) /\ <<>> \in Seq(QueueFrames)
    BY DEF Calm
  <2>3. Flow(Reads', (parts \o f) \o <<>>, Range(taken), Coming', load')
    BY <1>1, <1>3, <1>6, <2>1, <2>2, FlowCalm
  <2>4. StreamInv' /\ Arrived' = Arrived /\ taken' = taken
    BY <1>1, <1>2, <1>6, <2>2, <2>3, StreamSame DEF Carried
  <2> QED
    BY <2>4, Stutters
<1> QED
  BY <1>5, <1>6

\* What recv_events() does to the stream up to the parser.
LEMMA ReadStream ==
  ASSUME SInv, EvFlow \/ EvReadEnds \/ EvReset \/ EvFailed \/ EvEof \/ EvShutdown \/ \E n \in 1..cfg.chunk : EvRead(n)
  PROVE  StreamInv' /\ [Stream!Next]_(Stream!vars)
<1>1. /\ Base /\ load \in Nat /\ load <= MaxLoad /\ pc[Reader] # "assert" /\ inbox \in Seq(PeerItems)
      /\ Coming \in Seq(PeerItems) /\ cfg \in Configs
  BY CarriedIs DEF SInv, IInv, StreamInv, Base, LinkTypes
<1>2. /\ UNCHANGED <<queue, parts, taken, ended, pc>> /\ (load' = load \/ Asks) /\ (ended' <=> ended)
      /\ (p' = p \/ EvEof)
  BY DEF EvFlow, EvReadEnds, EvReset, EvFailed, EvEof, EvShutdown, EvRead, EvRest, queueVars, readVars, appVars
<1>3. load' \in {load, load + 1} /\ load' <= MaxLoad /\ pc'[Reader] # "assert"
  BY <1>1, <1>2, AsksIs
<1>4. ev.at \notin {"sendall", "events"} /\ ev'.at \notin {"sendall", "events"}
  BY DEF EvFlow, EvReadEnds, EvReset, EvFailed, EvEof, EvShutdown, EvRead, EvGoes, Thread
<1>5. \A d \in Seq(QueueFrames) : Pends(d) => Pends(d)'
  BY <1>4 DEF Pends
<1>6. Calm(Reads, Reads')
  <2>1. CASE EvFlow \/ EvReadEnds \/ EvReset \/ \E n \in 1..cfg.chunk : EvRead(n)
    <3>1. p' = p /\ Feeds
      BY <2>1 DEF EvFlow, EvReadEnds, EvReset, EvRead, Feeds
    <3> QED
      BY <3>1 DEF Reads, Calm, Stopped
  <2>2. CASE EvFailed \/ EvEof \/ EvShutdown
    <3>1. ~Feeds'
      BY <2>2 DEF EvFailed, EvEof, EvShutdown, EvGoes, Thread, Feeds
    <3> QED
      BY <3>1 DEF Reads, Calm, Stopped
  <2> QED
    BY <2>1, <2>2
<1>7. Coming' \in {Coming, <<>>}
  <2>1. CASE EvFlow \/ EvReadEnds \/ EvReset \/ EvFailed \/ EvEof
    <3>1. inbox' = inbox /\ ev.at # "data" /\ ev'.at # "data"
      BY <2>1 DEF EvFlow, EvReadEnds, EvReset, EvFailed, EvEof, EvGoes, Thread
    <3> QED
      BY <3>1 DEF Coming
  <2>2. CASE EvShutdown
    <3>1. inbox' = <<>> /\ ev'.at # "data"
      BY <2>2 DEF EvShutdown, EvGoes, Thread
    <3>2. Coming' = <<>> \o <<>>
      BY <3>1 DEF Coming
    <3> QED
      BY <3>2
  <2>3. ASSUME NEW n \in 1..cfg.chunk, EvRead(n) PROVE Coming' = Coming
    <3>1. cfg.chunk \in Nat
      BY <1>1, ScenarioAssumption
    <3>2. n \in Nat /\ n <= Len(inbox) /\ ev.at # "data"
      BY <2>3, <3>1 DEF EvRead
    <3>3. SubSeq(inbox, 1, n) \o SubSeq(inbox, n + 1, Len(inbox)) = inbox
      BY <1>1, <3>2, SplitInbox
    <3>4. ev'.at = "data" /\ ev'.data = SubSeq(inbox, 1, n) /\ inbox' = SubSeq(inbox, n + 1, Len(inbox))
      BY <2>3 DEF EvRead, Thread
    <3>5. Coming' = inbox
      BY <3>3, <3>4 DEF Coming
    <3>6. Coming = <<>> \o inbox /\ <<>> \o inbox = inbox
      BY <1>1, <3>2 DEF Coming
    <3> QED
      BY <3>5, <3>6
  <2> QED
    BY <2>1, <2>2, <2>3
<1> QED
  BY <1>2, <1>3, <1>5, <1>6, <1>7, LineKeeps

\* The parser, and what it leaves on its way to the queue.
LEMMA ParseStream ==
  ASSUME SInv, EvData
  PROVE  StreamInv' /\ [Stream!Next]_(Stream!vars)
<1>1. /\ Base /\ load \in Nat /\ load <= MaxLoad /\ pc[Reader] # "assert" /\ inbox \in Seq(PeerItems)
      /\ ev.data \in Seq(PeerItems) /\ Running(p) /\ taken \in Seq(Nat)
  BY CarriedIs DEF SInv, IInv, StreamInv
<1>2. /\ UNCHANGED <<queue, parts, taken, ended, pc, load, inbox>> /\ ev.at = "data" /\ (ended' <=> ended)
  BY DEF EvData, EvRest, queueVars, readVars, appVars
<1>3. Coming = ev.data \o inbox /\ load' \in {load, load + 1} /\ load' <= MaxLoad /\ pc'[Reader] # "assert"
  BY <1>1, <1>2 DEF Coming
<1>4. ev'.at # "data" => Coming' = inbox
  <2>1. <<>> \o inbox = inbox
    BY <1>1
  <2> QED
    BY <1>2, <2>1 DEF Coming
<1>5. ASSUME ev'.at \in {"socket", "eof"} PROVE StreamInv' /\ [Stream!Next]_(Stream!vars)
  <2>1. Reads' = Stopped /\ Pends(<<>>)'
    BY <1>5 DEF Reads, Feeds, Pends
  <2> QED
    BY <1>1, <1>2, <1>3, <1>4, <1>5, <2>1, LineKeeps
<1>6. CASE p.state = "CLOSED"
  <2>1. ev'.at = "socket"
    BY <1>6 DEF EvData, SafetyNet, EvGoes, Thread
  <2> QED
    BY <1>5, <2>1
<1>7. CASE p.state # "CLOSED"
  <2> DEFINE r == Fed(p, ev.data)
  <2>1. PICK how \in {"ok", "error", "blocked"} :
          /\ p' = Written(r.p)
          /\ ev' = CASE how = "error" -> Thread("eof", <<>>)
                     [] how = "blocked" -> Thread("sendall", r.events)
                     [] how = "ok" -> Thread("events", r.events)
    BY <1>7 DEF EvData, Sent
  <2>2. ~ended
    BY <1>1, <1>7 DEF Base, Ends
  <2>3. CASE how = "error"
    <3>1. ev'.at = "eof"
      BY <2>1, <2>3 DEF Thread
    <3> QED
      BY <1>5, <3>1
  <2>4. CASE how # "error"
    <3>1. ev'.at \in {"sendall", "events"} /\ ev'.data = r.events
      <4>1. \/ how = "blocked" /\ ev' = Thread("sendall", r.events)
            \/ how = "ok" /\ ev' = Thread("events", r.events)
        BY <2>1, <2>4
      <4> HIDE DEF r
      <4> QED
        BY <4>1 DEF Thread
    <3>2. PICK f \in Seq(QueueFrames), d \in Seq(QueueFrames) : Carried(f, d)
      BY DEF SInv, StreamInv
    <3>3. d = <<>> /\ Reads = p
      BY <1>2, <3>2 DEF Carried, Pends, Reads, Feeds
    <3>4. parts \o f \in Seq(QueueFrames) /\ (parts \o f) \o <<>> = parts \o f
      BY CarriedIs
    <3>5. Flow(p, parts \o f, Range(taken), ev.data \o inbox, load)
      BY <1>3, <3>2, <3>3, <3>4 DEF Carried
    <3>6. Flow(r.p, (parts \o f) \o r.data, Range(taken), inbox, load) /\ r.data \in Seq(QueueFrames)
      BY <1>1, <3>4, <3>5, FlowFed
    <3>7. Running(r.p) /\ Same(r.events, r.data)
      BY <1>1, FedKeeps, FedSame DEF Fine
    <3> HIDE DEF r
    <3>8. Reads' = p' /\ Calm(r.p, p')
      BY <2>1, <3>1, <3>7, WrittenIs, CalmAlike DEF Reads, Feeds
    <3>9. Flow(Reads', (parts \o f) \o r.data, Range(taken), Coming', load')
      BY <1>1, <1>2, <1>4, <3>1, <3>6, <3>8, FlowCalm
    <3>10. PICK e \in Seq(QueueFrames) : e = r.data
      BY <3>6
    <3>11. Pends(e)' /\ load' \in Nat
      BY <1>1, <1>2, <2>2, <3>1, <3>7, <3>10 DEF Pends
    <3>12. StreamInv' /\ Arrived' = Arrived /\ taken' = taken
      <4>1. Flow(Reads', (parts \o f) \o e, Range(taken), Coming', load')
        BY <3>9, <3>10
      <4> QED
        BY <1>1, <1>2, <1>3, <3>2, <3>11, <4>1, StreamSame DEF Carried
    <3> QED
      BY <1>2, <3>12, Stutters
  <2> QED
    BY <2>3, <2>4
<1> QED
  BY <1>6, <1>7

LEMMA SentStream ==
  ASSUME SInv, NEW how \in {"ok", "error", "reset"}, EvSent(how)
  PROVE  StreamInv' /\ [Stream!Next]_(Stream!vars)
<1>1. load \in Nat /\ load <= MaxLoad /\ pc[Reader] # "assert" /\ ev \in [at: EvPlaces, data: Seq(PeerItems), timed: BOOLEAN]
  BY DEF SInv, IInv, StreamInv, QueueInv, Base, LinkTypes
<1>2. UNCHANGED <<queue, parts, taken, ended, pc, load, inbox, p>> /\ ev.at = "sendall" /\ (ended' <=> ended)
  BY DEF EvSent, EvRest, queueVars, readVars, appVars
<1>3. /\ how # "ok" => ev'.at = "eof"
      /\ how = "ok" => ev'.at = "events" /\ ev'.data = ev.data
  BY <1>1 DEF EvSent, EvGoes, Thread
<1>4. Coming' = Coming
  BY <1>2, <1>3 DEF Coming
<1>5. CASE how # "ok"
  <2>1. Reads' = Stopped /\ Pends(<<>>)'
    BY <1>3, <1>5 DEF Reads, Feeds, Pends
  <2> QED
    BY <1>1, <1>2, <1>4, <2>1, LineKeeps
<1>6. CASE how = "ok"
  <2>1. Calm(Reads, Reads') /\ \A d \in Seq(QueueFrames) : Pends(d) => Pends(d)'
    BY <1>2, <1>3, <1>6 DEF Reads, Feeds, Pends, Calm
  <2> QED
    BY <1>1, <1>2, <1>4, <2>1, LineKeeps
<1> QED
  BY <1>5, <1>6

\* A data frame reaches the queue.
LEMMA PutStream ==
  ASSUME SInv, EvEvent, ev.data # <<>>, IsData(ev.data[1]), ~ended
  PROVE  StreamInv' /\ [Stream!Next]_(Stream!vars)
<1>1. /\ Base /\ load \in Nat /\ load <= MaxLoad /\ pc[Reader] # "assert" /\ ev.data \in Seq(PeerItems)
      /\ ev \in [at: EvPlaces, data: Seq(PeerItems), timed: BOOLEAN] /\ parts \in Seq(QueueFrames) /\ taken \in Seq(Nat)
      /\ \A i \in DOMAIN queue : queue[i] # EndMark
  BY CarriedIs DEF SInv, IInv, StreamInv, QueueInv, Base, LinkTypes
<1>2. PICK x \in QueueFrames : x = Queued(ev.data[1])
  <2>1. ev.data[1] \in PeerItems
    BY <1>1
  <2> QED
    BY <2>1, QueuedIs
<1>3. /\ UNCHANGED <<ended, parts, taken, pc, load, inbox, p>> /\ ev.at = "events" /\ ~ended'
      /\ queue' = Append(queue, x) /\ ev' = [ev EXCEPT !.data = Tail(@)]
  BY <1>2 DEF EvEvent, EvRest, readVars, appVars, Put
<1>4. ev'.at = "events" /\ ev'.data = Tail(ev.data)
  BY <1>1, <1>3
<1>5. PICK f \in Seq(QueueFrames), d \in Seq(QueueFrames) : Carried(f, d)
  BY DEF SInv, StreamInv
<1>6. queue = f /\ Same(ev.data, d) /\ Reads = p /\ Reads' = p
  BY <1>1, <1>3, <1>4, <1>5, HeldIs DEF Carried, Pends, Reads, Feeds
<1>7. d # <<>> /\ d[1] = x /\ Same(Tail(ev.data), Tail(d))
  BY <1>2, <1>1, <1>6, SameTail
<1>8. Tail(d) \in Seq(QueueFrames) /\ d[1] \in QueueFrames
  BY <1>7, PopIs
<1>9. x \in QueueFrames /\ x # EndMark
  <2>1. ~(~x.starts /\ ~x.fin /\ x.n = 0)
    <3>1. x.n > 0
      <4>1. Flow(p, (parts \o f) \o d, Range(taken), Coming, load)
        BY <1>5, <1>6 DEF Carried
      <4>2. Numbers((parts \o f) \o d) = Numbers(parts \o f) \cup Numbers(d)
        BY CarriedIs, NumbersConcat
      <4>3. 1 \in DOMAIN d
        BY <1>7
      <4>4. x.n \in Numbers(d)
        BY <1>7, <4>3 DEF Numbers
      <4>5. x.n \in 1..load
        BY <4>1, <4>2, <4>4 DEF Flow
      <4> QED
        BY <1>1, <4>5
    <3> QED
      BY <3>1
  <2> QED
    BY <2>1 DEF EndMark
<1> DEFINE w == parts \o f
<1>10. /\ w \in Seq(QueueFrames) /\ parts \o Append(f, x) = Append(w, x) /\ Append(f, x) \in Seq(QueueFrames)
      /\ Append(w, x) \in Seq(QueueFrames)
  <2>1. f \in Seq(QueueFrames) /\ parts \in Seq(QueueFrames) /\ x \in QueueFrames
    BY <1>1, <1>9
  <2>2. w \in Seq(QueueFrames) /\ <<x>> \in Seq(QueueFrames) /\ Append(f, x) \in Seq(QueueFrames)
    BY ONLY <2>1
  <2>3. Append(f, x) = f \o <<x>>
    BY ONLY <2>1, AppendIsConcat
  <2>4. Append(w, x) = w \o <<x>> /\ Append(w, x) \in Seq(QueueFrames)
    BY ONLY <2>1, <2>2, AppendIsConcat
  <2>5. (parts \o f) \o <<x>> = parts \o (f \o <<x>>)
    BY ONLY <2>1, <2>2, ConcatAssociative, SMTT(30)
  <2> QED
    BY <2>2, <2>3, <2>4, <2>5
<1>11. Held(queue', Append(f, x))
  BY <1>3, <1>5, <1>6, <1>9, HeldIs DEF Carried
<1>12. (parts \o Append(f, x)) \o Tail(d) = w \o d
  <2>1. Append(w, d[1]) \o Tail(d) = w \o d
    BY <1>7, <1>10, Shift
  <2> QED
    BY <1>7, <1>10, <2>1
<1>13. Coming' = Coming
  BY <1>3, <1>4 DEF Coming
<1>14. Flow(p, w \o d, Range(taken), Coming, load)
  BY <1>5, <1>6 DEF Carried
<1>15. Carried(Append(f, x), Tail(d))'
  <2>1. Pends(Tail(d))'
    BY <1>3, <1>4, <1>7 DEF Pends
  <2> QED
    BY <1>3, <1>6, <1>11, <1>12, <1>13, <1>14, <2>1 DEF Carried
<1>16. StreamInv'
  BY <1>1, <1>3, <1>8, <1>10, <1>15 DEF StreamInv
<1>17. /\ Messages(parts \o queue) = Messages(w) /\ Messages(parts \o queue') = Messages(Append(w, x))
       /\ Numbers(Append(w, x)) \subseteq Numbers(w \o d)
       /\ Messages(w) \subseteq Messages(Append(w, x))
       /\ \A a \in Messages(w), m \in Messages(Append(w, x)) \ Messages(w) : a < m
  <2>1. parts \o queue = w /\ parts \o queue' = Append(w, x)
    BY <1>3, <1>6, <1>10
  <2>2. <<x>> \in Seq(QueueFrames) /\ Append(w, x) = w \o <<x>>
    BY <1>9, <1>10, AppendIsConcat
  <2>3. Flow(Stopped, Append(w, x), Range(taken), Coming, load)
    <3>1. Append(w, x) \o Tail(d) = w \o d
      BY <1>10, <1>12
    <3> QED
      BY <1>1, <1>8, <1>10, <1>14, <3>1, FlowCut
  <2>4. Line(Stopped, w \o <<x>>)
    BY <2>2, <2>3 DEF Flow
  <2>5. /\ Messages(w) \subseteq Messages(w \o <<x>>)
        /\ \A a \in Messages(w), m \in Messages(w \o <<x>>) \ Messages(w) : a < m
    BY <1>10, <2>2, <2>4, MessagesGrow
  <2>6. Numbers(Append(w, x)) \subseteq Numbers(w \o d)
    <3>1. Append(w, x) \o Tail(d) = w \o d
      BY <1>10, <1>12
    <3>2. Numbers(Append(w, x) \o Tail(d)) = Numbers(Append(w, x)) \cup Numbers(Tail(d))
      BY <1>8, <1>10, NumbersConcat
    <3> QED
      BY <3>1, <3>2
  <2> QED
    BY <2>1, <2>2, <2>5, <2>6
<1>18. [Stream!Next]_(Stream!vars)
  <2>1. /\ Arrived = Range(taken) \cup Messages(w) /\ Arrived' = Range(taken) \cup Messages(Append(w, x))
        /\ taken' = taken /\ ended' = ended
    BY <1>3, <1>17 DEF Arrived
  <2>2. Messages(Append(w, x)) \subseteq Numbers(w \o d)
    BY <1>17, MessagesAreNumbers
  <2>3. Arrived' \in SUBSET (1..MaxLoad) /\ Arrived \subseteq Arrived'
    <3>1. 1..load \subseteq 1..MaxLoad
      BY <1>1, ScenarioAssumption
    <3> QED
      BY <1>14, <1>17, <2>1, <2>2, <3>1 DEF Flow
  <2>4. ASSUME NEW a \in Arrived, NEW m \in Arrived' \ Arrived PROVE a < m
    <3>1. m \in Messages(Append(w, x)) \ Messages(w) /\ m \in Numbers(w \o d)
      BY <2>1, <2>2
    <3>2. a \in Messages(w) \/ a \in Range(taken)
      BY <2>1
    <3> QED
      BY <1>14, <1>17, <3>1, <3>2 DEF Flow
  <2>5. CASE Arrived' = Arrived
    BY <2>1, <2>5, Stutters
  <2>6. CASE Arrived' # Arrived
    <3>1. Stream!Arrive
      BY <2>1, <2>3, <2>4, <2>6 DEF Stream!Arrive, Arrived
    <3> QED
      BY <3>1 DEF Stream!Next
  <2> QED
    BY <2>5, <2>6
<1> QED
  BY <1>16, <1>18

\* process_event()
LEMMA EventStream ==
  ASSUME SInv, EvEvent
  PROVE  StreamInv' /\ [Stream!Next]_(Stream!vars)
<1>1. /\ load \in Nat /\ load <= MaxLoad /\ pc[Reader] # "assert" /\ ev.data \in Seq(PeerItems)
      /\ ev \in [at: EvPlaces, data: Seq(PeerItems), timed: BOOLEAN]
  BY CarriedIs DEF SInv, IInv, StreamInv, Base, LinkTypes
<1>2. UNCHANGED <<parts, taken, pc, load, inbox, p>> /\ ev.at = "events" /\ ev'.at # "data"
  BY <1>1 DEF EvEvent, EvRest, readVars, appVars, Put, SafetyNet, EvGoes, Thread
<1>3. Coming' = Coming /\ Reads = p
  BY <1>2 DEF Coming, Reads, Feeds
<1>4. CASE ev.data = <<>>
  <2>1. ev'.at = "flow" /\ UNCHANGED <<queue, ended>>
    BY <1>4 DEF EvEvent, EvGoes, Thread, queueVars
  <2>2. Reads' = p /\ Calm(Reads, Reads')
    BY <1>2, <1>3, <2>1 DEF Reads, Feeds, Calm
  <2>3. ASSUME NEW d \in Seq(QueueFrames), Pends(d) PROVE Pends(d)'
    <3>1. d = <<>>
      BY <1>2, <1>4, <2>3, SameEmpty DEF Pends
    <3> QED
      BY <2>1, <3>1 DEF Pends
  <2> QED
    BY <1>1, <1>2, <1>3, <2>1, <2>2, <2>3, LineKeeps
<1>5. CASE ev.data # <<>> /\ ~IsData(ev.data[1])
  <2>1. ev' = [ev EXCEPT !.data = Tail(@)] /\ UNCHANGED <<queue, ended>>
    BY <1>5 DEF EvEvent, queueVars
  <2>2. ev'.at = "events" /\ ev'.data = Tail(ev.data) /\ (ended' <=> ended)
    BY <1>1, <1>2, <2>1
  <2>3. Reads' = p /\ Calm(Reads, Reads')
    BY <1>2, <1>3, <2>2 DEF Reads, Feeds, Calm
  <2>4. ASSUME NEW d \in Seq(QueueFrames), Pends(d) PROVE Pends(d)'
    BY <1>1, <1>2, <1>5, <2>2, <2>4, SameTail DEF Pends
  <2> QED
    BY <1>1, <1>2, <1>3, <2>1, <2>3, <2>4, LineKeeps
<1>6. CASE ev.data # <<>> /\ IsData(ev.data[1]) /\ ended
  <2>1. ev'.at = "socket" /\ UNCHANGED <<queue, ended>>
    BY <1>6 DEF EvEvent, Put, SafetyNet, EvGoes, Thread, queueVars
  <2>2. Reads' = Stopped /\ Pends(<<>>)'
    BY <2>1 DEF Reads, Feeds, Pends
  <2> QED
    BY <1>1, <1>2, <1>3, <2>1, <2>2, LineKeeps
<1>7. CASE ev.data # <<>> /\ IsData(ev.data[1]) /\ ~ended
  BY <1>7, PutStream
<1> QED
  BY <1>4, <1>5, <1>6, <1>7

LEMMA EventsStream ==
  ASSUME SInv, EventsThread \/ EvReset \/ EvSent("ok") \/ EvSent("reset")
  PROVE  StreamInv' /\ [Stream!Next]_(Stream!vars)
<1>1. CASE EvAssembler
  <2>1. /\ AssemblerClose /\ p' = Written(EofOnce(p)) /\ UNCHANGED <<parts, taken, load, inbox, pc>>
        /\ ev.at = "assembler" /\ ev'.at = "done"
    BY <1>1 DEF EvAssembler, CloseAssembler, EvGoes, Thread, EvRest, readVars, appVars
  <2>2. p'.parser = "discard"
    BY <2>1, EofBody DEF SInv, IInv
  <2>3. pc'[Reader] # "assert"
    BY <2>1 DEF SInv, StreamInv
  <2> QED
    BY <2>1, <2>2, <2>3, CloseStream
<1>2. CASE EvData
  BY <1>2, ParseStream
<1>3. CASE EvEvent
  BY <1>3, EventStream
<1>4. CASE EvSent("ok") \/ EvSent("error") \/ EvSent("reset")
  BY <1>4, SentStream
<1>5. CASE EvFlow \/ EvReadEnds \/ EvReset \/ EvFailed \/ EvEof \/ EvShutdown \/ \E n \in 1..cfg.chunk : EvRead(n)
  BY <1>5, ReadStream
<1> QED
  BY <1>1, <1>2, <1>3, <1>4, <1>5 DEF EventsThread

LEMMA ReadingLoad ==
  ASSUME SInv, Reading
  PROVE  /\ UNCHANGED <<ev, inbox, ended, p>> /\ load \in Nat /\ load' \in Nat /\ load <= load' /\ load' <= MaxLoad
         /\ load' \in {load, load + 1} /\ Coming' = Coming /\ Reads' = Reads /\ \A d : Pends(d) => Pends(d)'
<1>1. Base /\ UNCHANGED <<ev, inbox, ended, p>> /\ load' \in {load, load + 1} /\ load \in Nat /\ load <= MaxLoad
  BY ReadingIs DEF SInv, IInv, QueueInv, StreamInv
<1>2. load' = load \/ Asks
  BY DEF Reading, RecvCall, RecvNext, RecvPop, RecvTimeout, RecvReset, RecvFrame, RecvYielded, RecvEof
<1>3. load' <= MaxLoad /\ load' \in Nat /\ load <= load'
  BY <1>1, <1>2, AsksIs
<1>4. Coming' = Coming /\ Reads' = Reads /\ \A d : Pends(d) => Pends(d)'
  BY <1>1 DEF Coming, Pends, Feeds, Reads
<1> QED
  BY <1>1, <1>3, <1>4

\* The reader moves frames between the queue and what it fetched.
LEMMA ReaderMoves ==
  ASSUME SInv, Reading, taken' = taken, pc'[Reader] # "assert", parts' \in Seq(QueueFrames),
         \A i \in DOMAIN parts' : parts'[i] # EndMark,
         NEW f \in Seq(QueueFrames), NEW d \in Seq(QueueFrames), Carried(f, d),
         NEW g \in Seq(QueueFrames), Held(queue', g), parts' \o g = parts \o f
  PROVE  StreamInv' /\ [Stream!Next]_(Stream!vars)
<1>1. /\ UNCHANGED <<ev, inbox, ended, p>> /\ load' \in Nat /\ load \in Nat /\ load <= load' /\ load' <= MaxLoad /\ taken \in Seq(Nat)
      /\ Coming' = Coming /\ Reads' = Reads /\ Pends(d)'
  BY ReadingLoad DEF SInv, StreamInv, Carried
<1>2. Calm(Reads, Reads)
  BY DEF Calm
<1>3. Flow(Reads', (parts \o f) \o d, Range(taken), Coming', load')
  BY <1>1, <1>2, FlowCalm DEF Carried
<1>4. Carried(g, d)'
  BY <1>1, <1>3 DEF Carried
<1>5. StreamInv'
  BY <1>1, <1>4 DEF StreamInv
<1>6. Messages(parts' \o queue') = Messages(parts \o queue)
  <2>1. Messages(parts' \o queue') = Messages(parts' \o g)
    BY HeldBehind
  <2>2. Messages(parts \o queue) = Messages(parts \o f)
    BY CarriedIs DEF Carried
  <2> QED
    BY <2>1, <2>2
<1>7. UNCHANGED <<Arrived, taken, ended>>
  BY <1>1, <1>6 DEF Arrived
<1> QED
  BY <1>5, <1>7, Stutters

\* A frame is fetched that is not the end.
LEMMA PopStream ==
  ASSUME SInv, Reading, Popped, queue[1] # EndMark, UNCHANGED taken
  PROVE  StreamInv' /\ [Stream!Next]_(Stream!vars)
<1>1. PICK f \in Seq(QueueFrames), d \in Seq(QueueFrames) : Carried(f, d)
  BY DEF SInv, StreamInv
<1>2. /\ parts \in Seq(QueueFrames) /\ (\A i \in DOMAIN parts : parts[i] # EndMark) /\ pc \in [Users -> Places] /\ Reader \in Users
      /\ Held(queue, f) /\ queue # <<>>
  BY <1>1, UsersDiffer DEF SInv, IInv, QueueInv, Base, AppTypes, Carried, Popped
<1>3. /\ queue' = Tail(queue) /\ parts' = Append(parts, queue[1]) /\ pc'[Reader] = "popped"
  BY <1>2 DEF Popped, Goes
<1>4. /\ queue[1] = f[1] /\ Held(Tail(queue), Tail(f)) /\ f[1] \in QueueFrames /\ Tail(f) \in Seq(QueueFrames)
      /\ Append(parts, f[1]) \o Tail(f) = parts \o f
  BY <1>2, HeldPop
<1>5. PICK x \in QueueFrames : x = f[1] /\ x # EndMark
  BY <1>4
<1>6. PICK g \in Seq(QueueFrames) : g = Tail(f)
  BY <1>4
<1>7. Held(queue', g) /\ parts' = Append(parts, x) /\ Append(parts, x) \o g = parts \o f
  BY <1>3, <1>4, <1>5, <1>6
<1>8. Append(parts, x) \in Seq(QueueFrames) /\ \A i \in DOMAIN Append(parts, x) : Append(parts, x)[i] # EndMark
  <2> HIDE DEF EndMark, QueueFrames
  <2> QED
    BY <1>2, <1>5
<1>9. /\ parts' \in Seq(QueueFrames) /\ (\A i \in DOMAIN parts' : parts'[i] # EndMark) /\ parts' \o g = parts \o f
      /\ pc'[Reader] # "assert"
  BY <1>3, <1>7, <1>8
<1> QED
  BY <1>1, <1>7, <1>9, ReaderMoves

\* Frames are put back.
LEMMA ResetStream ==
  ASSUME SInv, RecvReset
  PROVE  StreamInv' /\ [Stream!Next]_(Stream!vars)
<1>1. PICK f \in Seq(QueueFrames), d \in Seq(QueueFrames) : Carried(f, d)
  BY DEF SInv, StreamInv
<1>2. /\ parts \in Seq(QueueFrames) /\ (\A i \in DOMAIN parts : parts[i] # EndMark) /\ pc \in [Users -> Places] /\ Reader \in Users
      /\ Held(queue, f)
  BY <1>1, UsersDiffer DEF SInv, IInv, QueueInv, Base, AppTypes, Carried
<1>3. queue' = parts \o queue /\ parts' = <<>> /\ pc'[Reader] = "idle" /\ taken' = taken
  BY <1>2 DEF RecvReset, Reset, Goes
<1>4. PICK g \in Seq(QueueFrames) : g = parts \o f
  BY <1>1, CarriedIs
<1>5. Held(queue', g)
  BY <1>2, <1>3, <1>4, HeldBehind
<1>6. /\ <<>> \in Seq(QueueFrames) /\ DOMAIN <<>> = {} /\ <<>> \o g = g
  BY ConcatEmptySeq
<1>7. parts' \in Seq(QueueFrames) /\ (\A i \in DOMAIN parts' : parts'[i] # EndMark) /\ parts' \o g = parts \o f
  BY <1>3, <1>4, <1>6
<1> QED
  BY <1>1, <1>3, <1>5, <1>7, ReaderMoves DEF Reading

\* The reader finds the end: what it fetched of a message is dropped.
LEMMA DropStream ==
  ASSUME SInv, Reading, ended, UNCHANGED taken, pc[Reader] \notin {"popped", "assert"}, parts' = <<>>, queue' = <<>>,
         queue # <<>> => queue[1] = EndMark, pc'[Reader] # "assert"
  PROVE  StreamInv' /\ [Stream!Next]_(Stream!vars)
<1>1. PICK f \in Seq(QueueFrames), d \in Seq(QueueFrames) : Carried(f, d)
  BY DEF SInv, StreamInv
<1>2. /\ parts \in Seq(QueueFrames) /\ (\A i \in DOMAIN parts : ~parts[i].fin) /\ Held(queue, f)
      /\ Running(p) /\ p.state = "CLOSED" /\ taken \in Seq(Nat)
  BY <1>1 DEF SInv, IInv, QueueInv, Base, LinkTypes, Ends, Carried, StreamInv
<1>3. f = <<>> /\ <<>> \in Seq(QueueFrames) /\ DOMAIN <<>> = {} /\ <<>> \o <<>> = <<>>
  <2>1. queue = <<>> => f = <<>>
    <3>1. PICK e \in QueueFrames : e = EndMark
      BY DEF EndMark, QueueFrames
    <3>2. Append(f, e) # <<>>
      BY <1>1
    <3> QED
      BY <1>2, <3>1, <3>2 DEF Held
  <2>2. queue # <<>> => f = <<>>
    BY <1>1, <1>2, HeldPop
  <2> QED
    BY <2>1, <2>2
<1>4. Flow(Stopped, <<>>, Range(taken), Coming, load)
  BY <1>1, FlowEmpty DEF Carried
<1>5. Calm(Stopped, Reads)
  BY <1>2 DEF Calm, Reads, Stopped, Running
<1>6. Flow(Reads', (<<>> \o <<>>) \o <<>>, Range(taken), Coming', load')
  BY <1>3, <1>4, <1>5, ReadingLoad, FlowCalm
<1>7. Pends(<<>>)'
  BY ReadingLoad DEF Pends
<1>8. Held(<<>>, <<>>)
  BY <1>3 DEF Held
<1>9. Carried(<<>>, <<>>)'
  BY <1>6, <1>7, <1>8 DEF Carried
<1>10. StreamInv'
  BY <1>2, <1>3, <1>9, ReadingLoad DEF StreamInv
<1>11. UNCHANGED <<Arrived, taken, ended>>
  <2>1. Messages(parts \o queue) = Messages(parts)
    <3>1. parts \o f = parts
      BY <1>2, <1>3
    <3> QED
      <4>1. f \in Seq(QueueFrames)
        BY <1>1
      <4>2. Messages(parts \o queue) = Messages(parts \o f)
        BY <1>2, <4>1, CarriedIs
      <4> QED
        BY <3>1, <4>2
  <2>2. Messages(parts) = {} /\ Messages(<<>>) = {}
    BY <1>2, <1>3, MessagesAreNumbers DEF Fins
  <2>3. parts' \o queue' = <<>>
    BY <1>3
  <2> QED
    BY <2>1, <2>2, <2>3, ReadingLoad DEF Arrived
<1> QED
  BY <1>10, <1>11, Stutters

\* The reader looks at the frame that it fetched.
LEMMA FrameStream ==
  ASSUME SInv, RecvFrame
  PROVE  StreamInv' /\ [Stream!Next]_(Stream!vars)
<1>1. PICK f \in Seq(QueueFrames), d \in Seq(QueueFrames) : Carried(f, d)
  BY DEF SInv, StreamInv
<1>2. /\ parts \in Seq(QueueFrames) /\ parts # <<>> /\ pc[Reader] = "popped" /\ queue' = queue /\ Reading
      /\ (\A i \in DOMAIN parts : parts[i] # EndMark) /\ (\A i \in 1..(Len(parts) - 1) : ~parts[i].fin)
      /\ pc \in [Users -> Places] /\ Reader \in Users /\ Held(queue, f) /\ load \in Nat /\ load <= MaxLoad /\ taken \in Seq(Nat)
  BY <1>1, UsersDiffer DEF SInv, IInv, QueueInv, Base, AppTypes, Carried, StreamInv, RecvFrame, Reading
<1> DEFINE v == f \o d
<1>3. /\ v \in Seq(QueueFrames) /\ (parts \o f) \o d = parts \o v
      /\ parts \o f \in Seq(QueueFrames)
  <2>1. f \in Seq(QueueFrames) /\ d \in Seq(QueueFrames) /\ parts \in Seq(QueueFrames)
    BY <1>2
  <2>2. (parts \o f) \o d = parts \o (f \o d)
    BY ONLY <2>1, ConcatAssociative
  <2> QED
    BY <2>1, <2>2
<1>4. Flow(Reads, parts \o v, Range(taken), Coming, load)
  BY <1>1, <1>3 DEF Carried
<1>5. Flow(Stopped, parts \o f, Range(taken), Coming, load)
  BY <1>1, <1>2, <1>3, FlowCut DEF Carried
<1> HIDE DEF v
<1>6. PICK x \in Nat : x = parts[1].n
  <2>1. parts[1] \in QueueFrames
    BY <1>2
  <2>2. parts[1].n \in Nat
    BY <2>1 DEF QueueFrames
  <2> QED
    BY <2>2
<1>7. parts[1].starts
  <2>1. (parts \o f)[1] = parts[1] /\ parts \o f # <<>>
    BY <1>2
  <2> QED
    BY <1>5, <2>1 DEF Flow, Line
<1>8. CASE ~parts[Len(parts)].fin
  <2>1. parts' = parts /\ taken' = taken /\ pc'[Reader] \in {"yielded", "next"}
    BY <1>2, <1>7, <1>8 DEF RecvFrame, Goes
  <2>2. parts' \in Seq(QueueFrames) /\ (\A i \in DOMAIN parts' : parts'[i] # EndMark) /\ parts' \o f = parts \o f
        /\ Held(queue', f) /\ pc'[Reader] # "assert"
    BY <1>2, <2>1
  <2> QED
    BY <1>1, <1>2, <2>1, <2>2, ReaderMoves
<1>9. CASE parts[Len(parts)].fin
  <2>1. parts' = <<>> /\ taken' = Append(taken, x) /\ pc'[Reader] \in {"idle", "invalid"}
    BY <1>2, <1>6, <1>7, <1>9 DEF RecvFrame, Goes
  <2>2. Flow(Reads, v, Range(taken) \cup {x}, Coming, load) /\ x \in 1..load /\ \A y \in Range(taken) : y < x
    BY <1>2, <1>3, <1>4, <1>6, <1>9, FlowFirst
  <2>3. Messages(parts \o f) = {x} \cup Messages(f) /\ \A y \in Numbers(f) : x < y
    <3>1. f \in Seq(QueueFrames) /\ parts \in Seq(QueueFrames) /\ load \in Nat
      BY <1>1, <1>2
    <3>2. parts # <<>> /\ parts[Len(parts)].fin /\ \A i \in 1..(Len(parts) - 1) : ~parts[i].fin
      BY <1>2, <1>9
    <3>3. Begins(parts \o f, parts[1].n, f) /\ \A y \in Numbers(f) : parts[1].n < y
      BY <1>5, <3>1, <3>2, FlowFirst
    <3> QED
      BY <1>6, <3>3 DEF Begins
  <2>4. Range(taken') = Range(taken) \cup {x} /\ taken' \in Seq(Nat)
    <3>1. taken' \in Seq(Nat) /\ DOMAIN taken' = 1..(Len(taken) + 1) /\ DOMAIN taken = 1..Len(taken)
          /\ Len(taken) \in Nat /\ taken'[Len(taken) + 1] = x /\ \A k \in 1..Len(taken) : taken'[k] = taken[k]
      <4>1. taken \in Seq(Nat)
        BY <1>2
      <4>2. Append(taken, x) \in Seq(Nat)
        BY <4>1
      <4>3. PICK e \in Seq(Nat) : e = Append(taken, x)
        BY <4>2
      <4>4. e \in Seq(Nat) /\ DOMAIN e = 1..(Len(taken) + 1) /\ DOMAIN taken = 1..Len(taken)
            /\ Len(taken) \in Nat /\ e[Len(taken) + 1] = x /\ \A k \in 1..Len(taken) : e[k] = taken[k]
        BY <4>1, <4>3
      <4>5. taken' = e
        BY <2>1, <4>3
      <4> QED
        BY <4>4, <4>5
    <3>2. Range(taken) \cup {x} \subseteq Range(taken')
      <4>1. (\A k \in 1..Len(taken) : k \in DOMAIN taken') /\ Len(taken) + 1 \in DOMAIN taken'
        BY <3>1
      <4> QED
        BY <3>1, <4>1 DEF Range
    <3>3. ASSUME NEW k \in DOMAIN taken' PROVE taken'[k] \in Range(taken) \cup {x}
      <4>1. k \in 1..Len(taken) \/ k = Len(taken) + 1
        BY <3>1
      <4> QED
        BY <3>1, <4>1 DEF Range
    <3> QED
      BY <3>1, <3>2, <3>3 DEF Range
  <2>5. <<>> \in Seq(QueueFrames) /\ DOMAIN <<>> = {} /\ <<>> \o f = f
    BY ConcatEmptySeq
  <2>6. Messages(parts \o queue) = {x} \cup Messages(f) /\ Messages(parts' \o queue') = Messages(f)
    <3>1. Messages(parts \o queue) = Messages(parts \o f)
      BY <1>2, HeldBehind
    <3>2. Messages(<<>> \o queue) = Messages(<<>> \o f)
      BY <1>2, <2>5, HeldBehind
    <3> QED
      BY <1>2, <2>1, <2>3, <2>5, <3>1, <3>2
  <2>7. StreamInv'
    <3>1. Flow(Reads', v, Range(taken'), Coming', load')
      <4>1. Calm(Reads, Reads)
        BY DEF Calm
      <4> QED
        BY <1>2, <2>2, <2>4, <4>1, ReadingLoad, FlowCalm
    <3>2. (<<>> \o f) \o d = v
      BY <2>5 DEF v
    <3>3. Pends(d)'
      BY <1>1, <1>2, ReadingLoad DEF Carried
    <3>4. Carried(f, d)'
      BY <1>2, <2>1, <3>1, <3>2, <3>3 DEF Carried
    <3> QED
      BY <1>2, <2>1, <2>4, <3>4, ReadingLoad DEF StreamInv
  <2>8. Stream!Take
    <3>1. Arrived = Range(taken) \cup ({x} \cup Messages(f)) /\ Arrived' = Arrived /\ ended' = ended
      BY <1>2, <2>4, <2>6, ReadingLoad DEF Arrived
    <3>2. x \in Arrived /\ \A k \in DOMAIN taken : x # taken[k]
      <4>1. ASSUME NEW k \in DOMAIN taken PROVE x # taken[k]
        <5>1. taken[k] \in Range(taken)
          BY DEF Range
        <5>2. taken[k] < x
          BY <2>2, <5>1
        <5> QED
          BY <5>2
      <4> QED
        BY <3>1, <4>1
    <3>3. ASSUME NEW m \in Stream!Waiting PROVE x <= m
      <4>1. m \in {x} \cup Messages(f)
        BY <3>1 DEF Stream!Waiting, Arrived, Range
      <4>2. m = x \/ m \in Numbers(f)
        BY <4>1, MessagesAreNumbers
      <4> QED
        <5>1. Numbers(f) \subseteq Nat
          <6>1. \A i \in DOMAIN f : f[i] \in QueueFrames
            BY <1>1
          <6> QED
            BY <6>1 DEF Numbers, QueueFrames
        <5> QED
          BY <1>6, <2>3, <4>2, <5>1
    <3>4. x \in Stream!Waiting
      BY <3>2 DEF Stream!Waiting, Arrived
    <3> QED
      BY <2>1, <3>1, <3>3, <3>4 DEF Stream!Take, Arrived
  <2> QED
    BY <2>7, <2>8 DEF Stream!Next
<1> QED
  BY <1>8, <1>9

\* What the reader does to the stream.
LEMMA ReaderStream ==
  ASSUME SInv, Reading
  PROVE  StreamInv' /\ [Stream!Next]_(Stream!vars)
<1>1. /\ pc \in [Users -> Places] /\ Reader \in Users /\ \A at : Goes(Reader, at) => pc'[Reader] = at
  BY UsersDiffer DEF SInv, IInv, Base, AppTypes, Goes
<1>2. ASSUME UNCHANGED <<queue, parts, taken>>, pc'[Reader] # "assert" PROVE StreamInv' /\ [Stream!Next]_(Stream!vars)
  <2>1. Calm(p, p') /\ UNCHANGED <<ev, inbox, ended>> /\ load' \in {load, load + 1} /\ load' <= MaxLoad
    BY ReadingLoad DEF Calm
  <2>2. StreamInv' /\ UNCHANGED <<Arrived, taken, ended>>
    BY <1>2, <2>1, QuietStream
  <2> QED
    BY <2>2, Stutters
<1>3. CASE RecvCall \/ RecvTimeout \/ RecvYielded \/ RecvEof
  <2>1. UNCHANGED <<queue, parts, taken>>
    BY <1>3 DEF RecvCall, RecvTimeout, RecvYielded, RecvEof
  <2>2. pc'[Reader] # "assert"
    BY <1>1, <1>3 DEF RecvCall, RecvTimeout, RecvYielded, RecvEof
  <2> QED
    BY <1>2, <2>1, <2>2
<1>4. CASE RecvReset
  BY <1>4, ResetStream
<1>5. CASE RecvFrame
  BY <1>5, FrameStream
<1>6. CASE (RecvNext \/ RecvPop) /\ Popped
  <2>1. taken' = taken /\ pc[Reader] \notin {"popped", "assert"} /\ queue # <<>> /\ queue \in Seq(QueueFrames)
    BY <1>6 DEF RecvNext, RecvPop, Popped, SInv, IInv, QueueInv
  <2>2. CASE queue[1] # EndMark
    BY <1>6, <2>1, <2>2, PopStream
  <2>3. CASE queue[1] = EndMark
    <3>1. 1 \in DOMAIN queue
      BY <2>1
    <3>2. ended /\ Len(queue) = 1
      BY <2>3, <3>1 DEF SInv, IInv, QueueInv
    <3>3. Tail(queue) = <<>>
      <4>1. Tail(queue) \in Seq(QueueFrames) /\ Len(Tail(queue)) = 0
        BY <2>1, <3>2, PopIs
      <4> QED
        BY <4>1, EmptySeq
    <3>4. parts' = <<>> /\ queue' = <<>> /\ pc'[Reader] = "eof"
      BY <1>1, <1>6, <2>3, <3>3 DEF Popped
    <3> QED
      BY <2>1, <2>3, <3>2, <3>4, DropStream
  <2> QED
    BY <2>2, <2>3
<1>7. CASE RecvNext /\ ~Popped
  <2>1. /\ pc[Reader] = "next" /\ UNCHANGED <<queue, taken>>
        /\ \/ ~ended /\ pc'[Reader] = "block" /\ UNCHANGED parts
           \/ ended /\ queue = <<>> /\ pc'[Reader] = "eof" /\ parts' = <<>>
    BY <1>1, <1>7 DEF RecvNext
  <2>2. CASE ~ended /\ pc'[Reader] = "block" /\ UNCHANGED parts
    BY <1>2, <2>1, <2>2
  <2>3. CASE ended /\ queue = <<>> /\ pc'[Reader] = "eof" /\ parts' = <<>>
    BY <2>1, <2>3, DropStream
  <2> QED
    BY <2>1, <2>2, <2>3
<1> QED
  BY <1>3, <1>4, <1>5, <1>6, <1>7 DEF Reading, RecvPop

--------------------------------------------------------------------------------
(* Every step.                                                             *)

LEMMA StreamStep ==
  ASSUME SInv, Next
  PROVE  SInv' /\ [Stream!Next]_(Stream!vars)
<1>1. IInv'
  BY StepKeeps DEF SInv
<1>2. StreamInv' /\ [Stream!Next]_(Stream!vars)
  BY Steps, UsersStream, EventsStream, ReaderStream, PeerStreams
<1> QED
  BY <1>1, <1>2 DEF SInv

LEMMA StreamStutter ==
  ASSUME SInv, UNCHANGED vars
  PROVE  SInv' /\ [Stream!Next]_(Stream!vars)
<1>1. /\ Calm(p, p') /\ UNCHANGED <<queue, parts, taken, ended, ev, inbox>> /\ load' = load /\ pc' = pc
  BY DEF vars, Calm, queueVars, readVars, appVars
<1>2. pc'[Reader] # "assert" /\ load' \in {load, load + 1} /\ load' <= MaxLoad
  BY <1>1 DEF SInv, StreamInv
<1>3. StreamInv' /\ UNCHANGED <<Arrived, taken, ended>>
  BY <1>1, <1>2, QuietStream
<1>4. IInv'
  BY StutterKeeps DEF SInv
<1> QED
  BY <1>3, <1>4, Stutters DEF SInv

LEMMA StreamInit ==
  ASSUME Init
  PROVE  SInv /\ Stream!Init
<1>1. /\ inbox = <<>> /\ queue = <<>> /\ parts = <<>> /\ taken = <<>> /\ load = 0 /\ ended = FALSE
      /\ ev.at = "flow" /\ IInv
  BY InitHolds DEF Init, Thread
<1>2. pc[Reader] = "idle" /\ MaxLoad \in Nat
  BY UsersDiffer, ScenarioAssumption DEF Init
<1>3. /\ <<>> \in Seq(QueueFrames) /\ <<>> \o <<>> = <<>> /\ DOMAIN <<>> = {} /\ <<>> \in Seq(Nat) /\ Len(<<>>) = 0
      /\ 1..(0 - 1) = {}
  OBVIOUS
<1>4. Numbers(<<>>) = {} /\ Messages(<<>>) = {} /\ Range(<<>>) = {} /\ Numbered(<<>>, {})
  BY <1>3 DEF Numbers, Messages, Range, Numbered
<1>5. cfg.side \in {"client", "server"} /\ p.parser = "frames" /\ p.current = NoSize
  <2>1. cfg.side \in {"client", "server"}
    BY ScenarioAssumption DEF Init
  <2> QED
    BY <2>1, RunningInit DEF Init
<1>6. Line(p, <<>>)
  BY <1>3, <1>5 DEF Line
<1>7. Flow(p, <<>>, {}, <<>>, 0)
  BY <1>3, <1>4, <1>6 DEF Flow
<1>8. Coming = <<>> /\ Reads = p /\ Pends(<<>>) /\ Held(<<>>, <<>>)
  BY <1>1, <1>3 DEF Coming, Reads, Feeds, Pends, Held
<1>9. Carried(<<>>, <<>>)
  BY <1>1, <1>3, <1>4, <1>7, <1>8 DEF Carried
<1>10. StreamInv
  <2>1. \E f \in Seq(QueueFrames), d \in Seq(QueueFrames) : Carried(f, d)
    BY <1>3, <1>9
  <2>2. load <= MaxLoad /\ pc[Reader] # "assert" /\ taken \in Seq(Nat)
    BY <1>1, <1>2, <1>3
  <2> QED
    BY <2>1, <2>2 DEF StreamInv
<1>11. Stream!Init
  BY <1>1, <1>3, <1>4 DEF Stream!Init
<1> QED
  BY <1>1, <1>10, <1>11 DEF SInv

\* Threads that run at the same time stay in step: no assertion fails and
\* recv() always finds the start of a message, nobody sleeps beside work, the
\* safety net of recv_events() is only reached after another thread closed
\* the socket, one message is sent at a time, and who learns that the
\* connection is closed finds it closed.
THEOREM ThreadsStayInStep == Spec => []ThreadsInStep
<1>1. Init => SInv
  BY StreamInit
<1>2. SInv /\ [Next]_vars => SInv'
  BY StreamStep, StreamStutter
<1>3. SInv => TypeOK /\ DeadlineKept
  BY TypesAndDeadlines DEF SInv, StreamInv
<1>4. TypeOK /\ DeadlineKept /\ NoLostWakeup /\ SafetyNetOnlyAfterClose
        /\ SendersTakeTurns /\ ClosedMeansClosed => ThreadsInStep
  BY DEF ThreadsInStep
<1> QED
  BY <1>1, <1>2, <1>3, <1>4, ThreadsHold, PTL DEF Spec

\* recv() and recv_streaming() implement the stream of messages: the complete
\* messages of the peer, each once and in order, although frames are queued by
\* one thread and fetched by another without a common lock, put back after a
\* timeout, and dropped when the connection is closed under recv_events().
THEOREM StreamIsDelivered == Spec => DeliversStream
<1>1. Init => SInv /\ Stream!Init
  BY StreamInit
<1>2. SInv /\ [Next]_vars => SInv' /\ [Stream!Next]_(Stream!vars)
  BY StreamStep, StreamStutter
<1> QED
  BY <1>1, <1>2, PTL DEF Spec, DeliversStream, Stream!Spec

===============================================================================
