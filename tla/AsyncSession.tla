------------------------------ MODULE AsyncSession -----------------------------
(***************************************************************************)
(* A server of lib/websockets/asyncio/server.py and the clients that keep  *)
(* a connection to it with "async for websocket in connect(...)"           *)
(* (asyncio/client.py): how connections are opened, refused, redirected,   *)
(* retried and, when the server closes, taken down.  Connection models     *)
(* what one connection does with messages, WsPair its two handshakes; here *)
(* they are reduced to the states of the two endpoints.                    *)
(*                                                                         *)
(* A TCP connection occupies a slot.  An action is what one task or        *)
(* callback does between two awaits.                                       *)
(***************************************************************************)
EXTENDS Naturals, FiniteSets

CONSTANTS
  Clients,        \* connect() objects, each iterated by one task
  Slots,          \* bound: TCP connections at a time
  Uris,           \* records [secure, origin]
  NoUri, NoClient,
  MAX_REDIRECTS,
  Setups,        \* the scenarios
  MaxFaults, MaxServers           \* bounds, of every scenario

ASSUME SessionAssumption ==
  /\ NoUri \notin Uris /\ NoClient \notin Clients
  /\ MAX_REDIRECTS \in Nat \ {0} /\ Slots \subseteq Nat /\ Slots # {}

(* A scenario: start (the uri of connect()), moved[u] (where process_request *)
(* redirects a request for u, NoUri when it does not), awaits (which of     *)
(* process_request and process_response are coroutines), trouble (what      *)
(* else the handshake may meet: "raise", an exception of a callback,        *)
(* "refuse", a request accept() rejects), keep (close_connections=False),   *)
(* detaches (asyncio.Server.wait_closed() waits for every transport, as it  *)
(* does since Python 3.12), bound ("sock", "unix", "host" or "none": the    *)
(* connection arguments that restrict redirects), faults and servers (how   *)
(* many the environment may spend).                                         *)
ASSUME ConfigAssumption ==
  \A c \in Setups :
    /\ c.start \in Uris /\ c.moved \in [Uris -> Uris \cup {NoUri}]
    /\ c.faults \in 0..MaxFaults /\ c.servers \in 0..MaxServers

Idle == [who |-> NoClient, cs |-> "closed", ss |-> "closed", cLost |-> TRUE, sLost |-> TRUE,
         down |-> TRUE, h |-> "none", answer |-> "none", exc |-> FALSE, resp |-> "none",
         stalled |-> FALSE]

VARIABLES
  setup,
  srv,      \* the server: "serving", "stopping", "closing" or "closed"
  handlers, \* self.handlers
  tasks,    \* the connections close_tasks closes
  conn,     \* per slot: both ends of a TCP connection
  cpc,      \* per client: where its loop is
  slot,       \* per client: the slot of self.connection
  uri,      \* self.uri
  hops,     \* redirects followed in this __await_impl__()
  faults, servers

sessionVars == <<setup, srv, handlers, tasks, conn, cpc, slot, uri, hops, faults, servers>>
serverVars == <<srv, handlers, tasks, servers>>
clientVars == <<cpc, slot, uri, hops>>

SessionInit ==
  /\ setup \in Setups
  /\ srv = "serving" /\ handlers = {} /\ tasks = {} /\ conn = [k \in Slots |-> Idle]
  /\ cpc = [i \in Clients |-> "connect"] /\ slot = [i \in Clients |-> CHOOSE k \in Slots : TRUE]
  /\ uri = [i \in Clients |-> setup.start] /\ hops = [i \in Clients |-> 0]
  /\ faults = 0 /\ servers = 1

Using(i, k) == slot[i] = k /\ cpc[i] \in {"wait", "open", "closing"}
Free(k) == conn[k] = Idle /\ \A i \in Clients : ~Using(i, k)

\* A connection that both ends are done with leaves its slot.
Vacated(c) == IF c.h = "none" /\ c.cLost /\ c.sLost THEN Idle ELSE c

-----------------------------------------------------------------------------
(* TCP.  transport.abort() and a cut take the connection down; each end     *)
(* then has its connection_lost() called, which closes its protocol.        *)

Down(c) == [c EXCEPT !.down = TRUE]

ServerLost(k) ==
  /\ conn[k].down /\ ~conn[k].sLost
  /\ conn' = [conn EXCEPT ![k] = Vacated([@ EXCEPT !.sLost = TRUE, !.ss = "closed"])]
  /\ UNCHANGED <<setup, serverVars, clientVars, faults>>

ClientLost(k) ==
  /\ conn[k].down /\ ~conn[k].cLost
  /\ conn' = [conn EXCEPT ![k] = Vacated([@ EXCEPT !.cLost = TRUE, !.cs = "closed"])]
  /\ UNCHANGED <<setup, serverVars, clientVars, faults>>

(* A close frame is answered; once both are out the server closes TCP.      *)
CloseArrives(k) ==
  LET c == conn[k] IN
  /\ ~c.down
  /\ \/ /\ c.cs = "open" /\ c.ss = "closing"
        /\ conn' = [conn EXCEPT ![k].cs = "closing", ![k].down = TRUE]
     \/ /\ c.ss = "open" /\ c.cs \in {"closing", "closed"}
        /\ conn' = [conn EXCEPT ![k].ss = "closing", ![k].down = TRUE]
     \/ /\ c.ss = "closing" /\ c.cs = "closing"
        /\ conn' = [conn EXCEPT ![k].down = TRUE]
  /\ UNCHANGED <<setup, serverVars, clientVars, faults>>

(* The environment: a cut, or a peer, a callback or a network so slow that  *)
(* timeouts may fire.                                                       *)
Fault(k) ==
  /\ faults < setup.faults /\ ~conn[k].down
  /\ faults' = faults + 1
  /\ \/ conn' = [conn EXCEPT ![k].down = TRUE]
     \/ ~conn[k].stalled /\ conn' = [conn EXCEPT ![k].stalled = TRUE]
  /\ UNCHANGED <<setup, serverVars, clientVars>>

-----------------------------------------------------------------------------
(* ServerConnection.handshake() and Server.conn_handler().                  *)

(* The finally clause of conn_handler().                                    *)
Leaves(k) == handlers' = handlers \ {k}

HandlerRest == <<setup, srv, tasks, servers, clientVars, faults>>

(* Mutated: conn_handler() would register the connection when it starts.    *)
MadeLater(k) ==
  /\ conn[k].h = "accepted"
  /\ conn' = [conn EXCEPT ![k].h = "request"]
  /\ UNCHANGED <<handlers, HandlerRest>>

(* connection_made() registers the connection at once.                      *)
Made(k) ==
  /\ conn[k].h = "accepted"
  /\ conn' = [conn EXCEPT ![k].h = "request"] /\ handlers' = handlers \cup {k}
  /\ UNCHANGED HandlerRest

(* process_request() has returned: the response, from it or from accept().  *)
Decide(c, outcome) ==
  IF outcome = "moved" THEN [c EXCEPT !.answer = "302"]
  ELSE IF outcome = "raise" THEN [c EXCEPT !.answer = "500", !.exc = TRUE]
  ELSE IF srv # "serving" THEN [c EXCEPT !.answer = "503"]
  ELSE IF outcome = "refuse" THEN [c EXCEPT !.answer = "403", !.exc = TRUE]
  ELSE [c EXCEPT !.answer = "101"]

Outcomes(c) ==
  (IF setup.moved[uri[c.who]] # NoUri THEN {"moved"} ELSE {"none"}) \cup (setup.trouble \ {"raise"})
    \cup (IF faults < setup.faults THEN setup.trouble ELSE {})

(* send_response() and the end of send_context().  On a connection lost in  *)
(* the meantime it asserts, which send_context() turns into an abort; after *)
(* a failure it waits for the peer to close; any other response than 101    *)
(* makes conn_handler() abort.                                              *)
Respond(c) ==
  IF c.sLost THEN [Down(c) EXCEPT !.h = "none"]
  ELSE IF c.answer = "101" THEN [c EXCEPT !.resp = "101", !.ss = "open", !.h = "run"]
  ELSE IF c.exc THEN [c EXCEPT !.resp = c.answer, !.h = "linger"]
  ELSE [Down(c) EXCEPT !.resp = c.answer, !.h = "none"]

(* process_response() may replace the response by an exception's 500.       *)
Replaced(c, raised) == IF raised THEN [c EXCEPT !.answer = "500", !.exc = TRUE] ELSE c

HandlerMoves(k, c) ==
  /\ conn' = [conn EXCEPT ![k] = Vacated([c EXCEPT !.answer = IF c.h = "respond" THEN @ ELSE "none"])]
  /\ IF c.h = "none" THEN Leaves(k) ELSE UNCHANGED handlers

Spends(outcome) == faults' = IF outcome = "raise" THEN faults + 1 ELSE faults

(* From one await to the next: process_request() when it is a coroutine,    *)
(* then process_response() when it is one.                                  *)
AfterRequest(c, outcome) ==
  LET d == Decide(c, outcome)
  IN  IF "response" \in setup.awaits THEN [d EXCEPT !.h = "respond"] ELSE Respond(d)

Handshake(k) ==
  LET c == conn[k] IN
  /\ \/ /\ c.h = "request" /\ c.sLost       \* no request, or send_context() raises
        /\ HandlerMoves(k, [Down(c) EXCEPT !.h = "none"]) /\ UNCHANGED faults
     \/ /\ c.h = "request" /\ ~c.sLost /\ "request" \in setup.awaits
        /\ HandlerMoves(k, [c EXCEPT !.h = "process"]) /\ UNCHANGED faults
     \/ /\ c.h = "process" \/ (c.h = "request" /\ ~c.sLost /\ "request" \notin setup.awaits)
        /\ \E o \in Outcomes(c) : HandlerMoves(k, AfterRequest(c, o)) /\ Spends(o)
     \/ /\ c.h = "respond"
        /\ \E raised \in {FALSE, "raise" \in setup.trouble /\ faults < setup.faults} :
             /\ HandlerMoves(k, Respond(Replaced(c, raised)))
             /\ Spends(IF raised THEN "raise" ELSE "none")
     \/ /\ c.h = "linger" /\ c.sLost
        /\ HandlerMoves(k, [c EXCEPT !.h = "none"]) /\ UNCHANGED faults
  /\ UNCHANGED <<setup, srv, tasks, servers, clientVars>>

(* Mutated: the opening handshake has no timeout.                           *)
OpenTimeoutNever(k) ==
  /\ conn[k].h = "linger" /\ conn[k].stalled
  /\ HandlerMoves(k, [Down(conn[k]) EXCEPT !.h = "none"])
  /\ UNCHANGED HandlerRest

(* open_timeout, or close_timeout of a lingering handshake: the handler is  *)
(* cancelled wherever it awaits and aborts the connection.                  *)
OpenTimeout(k) ==
  /\ conn[k].h \in {"request", "process", "respond", "linger"} /\ conn[k].stalled
  /\ HandlerMoves(k, [Down(conn[k]) EXCEPT !.h = "none"])
  /\ UNCHANGED HandlerRest

(* The handler returns or raises: close().                                  *)
HandlerEnds(k) ==
  LET c == conn[k] IN
  /\ c.h = "run"
  /\ conn' = [conn EXCEPT ![k].h = "close", ![k].ss = IF c.ss = "open" THEN "closing" ELSE c.ss]
  /\ UNCHANGED <<handlers, HandlerRest>>

(* close() of the handler waited for connection_lost().                     *)
HandlerDone(k) ==
  /\ conn[k].h = "close" /\ conn[k].sLost
  /\ HandlerMoves(k, [conn[k] EXCEPT !.h = "none"])
  /\ UNCHANGED HandlerRest

(* close_timeout of whoever waits for this end: the handler or close_tasks. *)
ServerCloseTimeout(k) ==
  /\ conn[k].stalled /\ ~conn[k].down /\ conn[k].ss = "closing"
  /\ conn[k].h = "close" \/ k \in tasks
  /\ conn' = [conn EXCEPT ![k] = Down(@)]
  /\ UNCHANGED <<handlers, HandlerRest>>

-----------------------------------------------------------------------------
(* Server.close() and _close().                                             *)

ServerRest == <<setup, clientVars, faults>>

(* Stop accepting; sleep(0) lets the accepted connections register.         *)
StopServing ==
  /\ srv = "serving" /\ servers <= setup.servers
  /\ srv' = "stopping"
  /\ UNCHANGED <<handlers, tasks, conn, servers, ServerRest>>

(* Close the connections that are past their handshake, unless they are     *)
(* to be kept.                                                              *)
CloseConnections ==
  /\ srv = "stopping" /\ \A k \in Slots : conn[k].h # "accepted"
  /\ srv' = "closing"
  /\ tasks' = IF setup.keep THEN {} ELSE {k \in handlers : conn[k].ss # "connecting"}
  /\ conn' = [k \in Slots |-> IF k \in tasks' /\ conn[k].ss = "open"
                              THEN [conn[k] EXCEPT !.ss = "closing"] ELSE conn[k]]
  /\ UNCHANGED <<handlers, servers, ServerRest>>

(* close_tasks are done, asyncio.Server.wait_closed() returned and every    *)
(* handler is gone: closed_waiter is set.                                   *)
Closed ==
  /\ srv = "closing" /\ \A k \in tasks : conn[k].sLost
  /\ setup.detaches => \A k \in handlers : conn[k].sLost
  /\ handlers = {}
  /\ srv' = "closed"
  /\ UNCHANGED <<handlers, tasks, conn, servers, ServerRest>>

(* The application calls serve() again.                                     *)
Serve ==
  /\ srv = "closed" /\ servers < setup.servers
  /\ srv' = "serving" /\ servers' = servers + 1 /\ tasks' = {}
  /\ UNCHANGED <<handlers, conn, ServerRest>>

-----------------------------------------------------------------------------
(* connect().                                                               *)

ClientGoes(i, pc) == cpc' = [cpc EXCEPT ![i] = pc]

(* process_exception(): what makes __aiter__() try again.                   *)
Retryable(e) == e \in {"OSError", "TimeoutError", "EOFError", "500", "502", "503", "504"}

(* An exception leaves __await_impl__(): __aiter__() sleeps for the next    *)
(* delay of backoff() or raises it.                                         *)
Fails(i, e) == ClientGoes(i, IF Retryable(e) THEN "sleep" ELSE "failed")

(* Mutated: a redirect may leave TLS.                                       *)
FollowDowngrade(from, to) ==
  IF \/ setup.bound = "sock"
     \/ from # to /\ setup.bound \in {"unix", "host"}
  THEN NoUri ELSE to

(* process_redirect(): the new uri, NoUri for an exception.                 *)
Follow(from, to) ==
  IF \/ setup.bound = "sock"
     \/ from.secure /\ ~to.secure
     \/ from # to /\ setup.bound \in {"unix", "host"}
  THEN NoUri ELSE to

ClientRest == <<setup, serverVars>>

(* create_connection(), then handshake() sends the request.                 *)
CreateConnection(i) ==
  /\ cpc[i] = "connect"
  /\ \/ /\ srv = "serving"
        /\ \E k \in Slots :
             /\ Free(k) /\ \A j \in Slots : Free(j) => k <= j
             /\ slot' = [slot EXCEPT ![i] = k]
             /\ conn' = [conn EXCEPT ![k] =
                  [Idle EXCEPT !.who = i, !.cs = "connecting", !.ss = "connecting",
                               !.cLost = FALSE, !.sLost = FALSE, !.down = FALSE, !.h = "accepted"]]
        /\ ClientGoes(i, "wait") /\ UNCHANGED <<hops, faults>>
     \/ /\ srv # "serving" \/ faults < setup.faults
        /\ Fails(i, "OSError") /\ hops' = [hops EXCEPT ![i] = 0]
        /\ faults' = IF srv = "serving" THEN faults + 1 ELSE faults
        /\ UNCHANGED <<conn, slot>>
  /\ UNCHANGED <<uri, ClientRest>>

Aborts(i) ==
  conn' = [conn EXCEPT ![slot[i]] = IF @.cLost THEN @ ELSE [Down(@) EXCEPT !.cs = "closed"]]

(* The response: open, follow a redirect within the limit, or fail.         *)
Answered(i) ==
  LET c == conn[slot[i]]
      to == Follow(uri[i], setup.moved[uri[i]])
  IN
  /\ cpc[i] = "wait" /\ c.resp # "none" /\ ~c.cLost /\ c.cs = "connecting"
  /\ \/ /\ c.resp = "101"
        /\ conn' = [conn EXCEPT ![slot[i]].cs = "open", ![slot[i]].resp = "none"] /\ ClientGoes(i, "open")
        /\ hops' = [hops EXCEPT ![i] = 0] /\ UNCHANGED uri
     \/ /\ c.resp = "302" /\ to # NoUri
        /\ Aborts(i) /\ uri' = [uri EXCEPT ![i] = to]
        /\ IF hops[i] + 1 < MAX_REDIRECTS
           THEN /\ ClientGoes(i, "connect") /\ hops' = [hops EXCEPT ![i] = @ + 1]
           ELSE Fails(i, "SecurityError") /\ hops' = [hops EXCEPT ![i] = 0]
     \/ /\ c.resp \notin {"101", "302"} \/ (c.resp = "302" /\ to = NoUri)
        /\ Aborts(i) /\ Fails(i, c.resp)
        /\ hops' = [hops EXCEPT ![i] = 0] /\ UNCHANGED uri
  /\ UNCHANGED <<slot, faults, ClientRest>>

(* The connection is lost before the response.                              *)
HandshakeLost(i) ==
  /\ cpc[i] = "wait" /\ conn[slot[i]].cLost
  /\ Aborts(i) /\ Fails(i, "EOFError") /\ hops' = [hops EXCEPT ![i] = 0]
  /\ UNCHANGED <<slot, uri, faults, ClientRest>>

(* open_timeout.                                                            *)
HandshakeTimeout(i) ==
  /\ cpc[i] = "wait" /\ conn[slot[i]].stalled
  /\ Aborts(i) /\ Fails(i, "TimeoutError") /\ hops' = [hops EXCEPT ![i] = 0]
  /\ UNCHANGED <<slot, uri, faults, ClientRest>>

(* The body of the loop is done with the connection: __aexit__() closes it. *)
Leave(i) ==
  LET c == conn[slot[i]] IN
  /\ cpc[i] = "open"
  /\ ClientGoes(i, "closing")
  /\ conn' = [conn EXCEPT ![slot[i]].cs = IF c.cs = "open" THEN "closing" ELSE c.cs]
  /\ UNCHANGED <<slot, uri, hops, faults, ClientRest>>

ClientCloseTimeout(i) ==
  /\ cpc[i] = "closing" /\ conn[slot[i]].stalled /\ ~conn[slot[i]].down
  /\ conn' = [conn EXCEPT ![slot[i]] = Down(@)]
  /\ UNCHANGED <<clientVars, faults, ClientRest>>

(* close() returned: the loop connects anew, without a delay.               *)
Left(i) ==
  /\ cpc[i] = "closing" /\ conn[slot[i]].cLost
  /\ ClientGoes(i, "connect")
  /\ UNCHANGED <<conn, slot, uri, hops, faults, ClientRest>>

Wake(i) ==
  /\ cpc[i] = "sleep"
  /\ ClientGoes(i, "connect")
  /\ UNCHANGED <<conn, slot, uri, hops, faults, ClientRest>>

-----------------------------------------------------------------------------
Serving(k) == Made(k) \/ Handshake(k) \/ HandlerDone(k)
Network(k) == ServerLost(k) \/ ClientLost(k) \/ CloseArrives(k)
Timeouts(k) == OpenTimeout(k) \/ ServerCloseTimeout(k)
ClientTimeouts(i) == HandshakeTimeout(i) \/ ClientCloseTimeout(i)
Looping(i) == CreateConnection(i) \/ Answered(i) \/ HandshakeLost(i) \/ Left(i) \/ Wake(i)

SessionNext ==
  \/ \E k \in Slots : Serving(k) \/ Network(k) \/ Timeouts(k) \/ HandlerEnds(k) \/ Fault(k)
  \/ \E i \in Clients : Looping(i) \/ ClientTimeouts(i) \/ Leave(i)
  \/ StopServing \/ CloseConnections \/ Closed \/ Serve

(* The event loops run what is ready and fire the timers of what stalls; a  *)
(* stalled connection or callback is left to a timeout.  A handler and the  *)
(* body of a client's loop await the connection and end when it is lost.    *)
Fairness ==
  /\ \A k \in Slots :
       /\ WF_sessionVars(~conn[k].stalled /\ (Serving(k) \/ CloseArrives(k)))
       /\ WF_sessionVars(Serving(k) /\ conn[k].sLost /\ conn[k].h \notin {"process", "respond"})
       /\ WF_sessionVars(Timeouts(k)) /\ WF_sessionVars(ServerLost(k)) /\ WF_sessionVars(ClientLost(k))
       /\ WF_sessionVars(HandlerEnds(k) /\ conn[k].sLost)
  /\ \A i \in Clients :
       /\ WF_sessionVars(Looping(i) /\ ~(cpc[i] = "wait" /\ conn[slot[i]].stalled))
       /\ WF_sessionVars(HandshakeLost(i))
       /\ WF_sessionVars(ClientTimeouts(i)) /\ WF_sessionVars(Leave(i) /\ conn[slot[i]].cLost)
  /\ WF_sessionVars(CloseConnections) /\ WF_sessionVars(Closed)

SessionSpec == SessionInit /\ [][SessionNext]_sessionVars /\ Fairness

-----------------------------------------------------------------------------
(* Properties.                                                             *)

Phases  == {"connecting", "open", "closing", "closed"}
Stages  == {"none", "accepted", "request", "process", "respond", "linger", "run", "close"}
Answers == {"none", "101", "302", "403", "500", "503"}
Conns   == [who : Clients \cup {NoClient}, cs : Phases, ss : Phases, cLost : BOOLEAN,
            sLost : BOOLEAN, down : BOOLEAN, h : Stages, answer : Answers, exc : BOOLEAN,
            resp : Answers, stalled : BOOLEAN]

SessionTypeOK ==
  /\ setup \in Setups /\ srv \in {"serving", "stopping", "closing", "closed"}
  /\ handlers \subseteq Slots /\ tasks \subseteq Slots /\ conn \in [Slots -> Conns]
  /\ cpc \in [Clients -> {"connect", "wait", "open", "closing", "sleep", "failed"}]
  /\ slot \in [Clients -> Slots] /\ uri \in [Clients -> Uris]
  /\ hops \in [Clients -> 0..(MAX_REDIRECTS - 1)] /\ faults \in Nat /\ servers \in Nat

(* When wait_closed() returns, every connection handler has returned and    *)
(* every TCP connection is closed (its docstring).                          *)
ClosedMeansDone == srv = "closed" => \A k \in Slots : conn[k].h = "none" /\ conn[k].down

(* After close(), handshake() refuses the connections still opening with a  *)
(* 503: none is open that close() does not close.  It holds unless          *)
(* process_response is a coroutine: the server may stop between the         *)
(* decision to accept and the response.                                     *)
NoneOpensBehindClose ==
  srv = "closing" /\ ~setup.keep /\ "response" \notin setup.awaits =>
    \A k \in Slots : conn[k].ss = "open" => k \in tasks

(* What close() and wait_closed() promise of the connections.               *)
ClosesCleanly == SessionTypeOK /\ ClosedMeansDone /\ NoneOpensBehindClose

(* A client leaves nothing behind: whatever ends an attempt or a session,   *)
(* it has one live TCP connection at most.                                  *)
OneLiveConnection ==
  \A i \in Clients : Cardinality({k \in Slots : conn[k].who = i /\ ~conn[k].down}) <= 1

(* No chain of redirects takes a client from wss:// to ws://.               *)
SecureStaysSecure == \A i \in Clients : setup.start.secure => uri[i].secure

(* What a client holds on to over attempts, redirects and reconnections.    *)
KeepsOneAndSecure == OneLiveConnection /\ SecureStaysSecure

(* Every connection's handshake ends, whatever the peer and the callbacks   *)
(* do: open_timeout.                                                        *)
InHandshake(k) == conn[k].h \in {"accepted", "request", "process", "respond", "linger"}
HandshakeSettles == \A k \in Slots : InHandshake(k) ~> ~InHandshake(k)

(* close() completes, provided that no connection opens behind it and the   *)
(* handlers end with their connections.                                     *)
ServerCloses ==
  ~setup.keep /\ "response" \notin setup.awaits => (srv = "stopping" ~> srv = "closed")

(* A client whose failures are transient is connected again and again, as   *)
(* long as a server serves and lets it in.                                  *)
LetsIn == setup.trouble \subseteq {"raise"} /\ \A u \in Uris : setup.moved[u] = NoUri
Reconnects ==
  LetsIn => \A i \in Clients : []<>(cpc[i] = "open" \/ srv # "serving")

(* Whatever stalls, handshakes end, close() completes and clients reconnect.*)
EndsAndReconnects == HandshakeSettles /\ ServerCloses /\ Reconnects
================================================================================
