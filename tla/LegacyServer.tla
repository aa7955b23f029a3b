----------------------------- MODULE LegacyServer -----------------------------
(***************************************************************************)
(* WebSocketServer and WebSocketServerProtocol.handler() of the websockets *)
(* library bundled with the Blender bridge (legacy/server.py): the life of *)
(* every connection from connection_made() to unregister(), against the    *)
(* shutdown started by close().                                            *)
(*                                                                         *)
(* Several servers may exist in the life of the process (the bridge makes  *)
(* one per registration of the add-on); each runs on its own event loop.   *)
(* A connection is what the handler sees of LegacyProtocol: its state.     *)
(* ws_handler, the application, is the parameter of the module: standalone *)
(* it returns or raises at any time; Bridge replaces it by the real one.   *)
(***************************************************************************)
EXTENDS Naturals, Sequences, FiniteSets

CONSTANTS Servers, Conns

VARIABLES
  serving,     \* per server: "no", "yes" or "closed" (asyncio.Server.is_serving)
  closePc,     \* per server: its close_task
  toClose,     \* per server: connections whose close(1001) it awaits
  waitFor,     \* per server: connections whose handler_task it awaits
  websockets,  \* per server: the registered connections
  owner,       \* per connection: the server that accepted it, 0 before
  task,        \* per connection: handler()
  conn         \* per connection: protocol.state

serverVars == <<serving, closePc, toClose, waitFor, websockets, owner, task, conn>>

ServerInit ==
  /\ serving = [g \in Servers |-> "no"] /\ closePc = [g \in Servers |-> "none"]
  /\ toClose = [g \in Servers |-> {}] /\ waitFor = [g \in Servers |-> {}]
  /\ websockets = [g \in Servers |-> {}]
  /\ owner = [c \in Conns |-> 0] /\ task = [c \in Conns |-> "none"]
  /\ conn = [c \in Conns |-> "none"]

IsServing(g) == serving[g] = "yes"
SetTask(c, pc) == task' = [task EXCEPT ![c] = pc]
SetConn(c, s) == conn' = [conn EXCEPT ![c] = s]

(* close() of a connection: the closing handshake begins unless it began.   *)
Closing(c) == IF conn[c] = "OPEN" THEN [conn EXCEPT ![c] = "CLOSING"] ELSE conn

(* transport.close(): the connection goes down whatever its state.          *)
Dropping(c) == IF conn[c] = "CLOSED" THEN conn ELSE [conn EXCEPT ![c] = "CLOSING"]

Register(c) == websockets' = [websockets EXCEPT ![owner[c]] = @ \cup {c}]
Unregister(c) == websockets' = [websockets EXCEPT ![owner[c]] = @ \ {c}]

(* The finally clause of handler().                                         *)
Finish(c) == SetTask(c, "done") /\ Unregister(c)

-----------------------------------------------------------------------------
(* Serve: create_server() and wrap().                                      *)
Listen(g) ==
  /\ serving[g] = "no"
  /\ serving' = [serving EXCEPT ![g] = "yes"]
  /\ UNCHANGED <<closePc, toClose, waitFor, websockets, owner, task, conn>>

(* asyncio accepts a TCP connection and schedules connection_made().        *)
Accept(c, g) ==
  /\ task[c] = "none" /\ IsServing(g)
  /\ SetTask(c, "accepted") /\ owner' = [owner EXCEPT ![c] = g]
  /\ UNCHANGED <<serving, closePc, toClose, waitFor, websockets, conn>>

ConnectionMade(c) ==
  /\ task[c] = "accepted"
  /\ SetTask(c, "request") /\ SetConn(c, "CONNECTING") /\ Register(c)
  /\ UNCHANGED <<serving, closePc, toClose, waitFor, owner>>

(* An exception of the handshake becomes an HTTP response (400, 403, 426,   *)
(* 500 or 503); handler() then waits in close_transport().                  *)
Reject(c) ==
  /\ SetTask(c, "reject") /\ conn' = Dropping(c)
  /\ UNCHANGED <<serving, closePc, toClose, waitFor, websockets, owner>>

(* read_http_request().                                                    *)
ReadRequest(c) ==
  /\ task[c] = "request"
  /\ \/ /\ conn[c] # "CLOSED" /\ SetTask(c, "process")
        /\ UNCHANGED <<serving, closePc, toClose, waitFor, websockets, owner, conn>>
     \/ Reject(c)

(* ConnectionError and TimeoutError end handler() with transport.close().   *)
Drop(c) ==
  /\ Finish(c) /\ conn' = Dropping(c)
  /\ UNCHANGED <<serving, closePc, toClose, waitFor, owner>>

(* The connection dropped while process_request was running.                *)
HandshakeDropped(c) == task[c] = "process" /\ conn[c] = "CLOSED" /\ Drop(c)

(* The rest of handshake() fails: an early response of process_request, a   *)
(* shutdown of the server (503), or a request that check_request,           *)
(* process_origin or the negotiation refuses.                               *)
HandshakeRefused(c) == task[c] = "process" /\ conn[c] # "CLOSED" /\ Reject(c)

(* ... or succeeds: 101, connection_open(), and ws_handler starts at once.  *)
HandshakeOpen(c) ==
  /\ task[c] = "process" /\ conn[c] # "CLOSED" /\ IsServing(owner[c])
  /\ SetTask(c, "ws") /\ SetConn(c, "OPEN")
  /\ UNCHANGED <<serving, closePc, toClose, waitFor, websockets, owner>>

(* open_timeout.                                                           *)
HandshakeTimeout(c) == task[c] \in {"request", "process"} /\ Drop(c)

(* close_transport() returned.                                             *)
RejectDone(c) ==
  /\ task[c] = "reject" /\ conn[c] = "CLOSED"
  /\ Finish(c)
  /\ UNCHANGED <<serving, closePc, toClose, waitFor, owner, conn>>

(* ws_handler returned: close() and wait for it.                            *)
HandlerReturn(c) ==
  /\ task[c] = "ws"
  /\ SetTask(c, "close") /\ conn' = Closing(c)
  /\ UNCHANGED <<serving, closePc, toClose, waitFor, websockets, owner>>

(* handler_task was cancelled by the application.  `except Exception' does  *)
(* not catch CancelledError: before connection_open() nobody is left to     *)
(* close the transport, afterwards close_connection, cancelled too, does.   *)
HandlerCancelled(c) ==
  /\ task[c] \in {"request", "process", "reject", "ws", "close"}
  /\ Finish(c)
  /\ conn' = IF task[c] \in {"request", "process"} THEN conn ELSE Dropping(c)
  /\ UNCHANGED <<serving, closePc, toClose, waitFor, owner>>

(* ... or it was in close(), which takes the cancellation for one of        *)
(* transfer_data and goes on; that its own transfer_data was cancelled as   *)
(* well takes the connection down.                                          *)
CancelSwallowed(c) ==
  /\ task[c] \in {"ws", "close"} /\ conn' = Dropping(c)
  /\ UNCHANGED <<serving, closePc, toClose, waitFor, websockets, owner, task>>

CloseDone(c) ==
  /\ task[c] = "close" /\ conn[c] = "CLOSED"
  /\ Finish(c)
  /\ UNCHANGED <<serving, closePc, toClose, waitFor, owner, conn>>

(* connection_lost(): the peer, the network or a timeout of the closing     *)
(* handshake ends the connection.                                           *)
ConnectionLost(c) ==
  /\ conn[c] \notin {"none", "CLOSED"}
  /\ SetConn(c, "CLOSED")
  /\ UNCHANGED <<serving, closePc, toClose, waitFor, websockets, owner, task>>

-----------------------------------------------------------------------------
(* close() and _close().                                                   *)

SetClose(g, pc) == closePc' = [closePc EXCEPT ![g] = pc]
CloseOnly == <<websockets, owner, task>>

(* Idempotent: a second call finds close_task.                              *)
Close(g) ==
  /\ SetClose(g, IF closePc[g] = "none" THEN "start" ELSE closePc[g])
  /\ UNCHANGED <<serving, toClose, waitFor, conn, CloseOnly>>

ServerClose(g) ==
  /\ closePc[g] = "start"
  /\ serving' = [serving EXCEPT ![g] = "closed"]
  /\ SetClose(g, "sleep")
  /\ UNCHANGED <<toClose, waitFor, conn, CloseOnly>>

(* After sleep(0) every accepted connection reached connection_made().      *)
CloseConnections(g) ==
  /\ closePc[g] = "sleep"
  /\ \A c \in Conns : owner[c] = g => task[c] # "accepted"
  /\ toClose' = [toClose EXCEPT ![g] = {c \in websockets[g] : conn[c] # "CONNECTING"}]
  /\ SetClose(g, "closing")
  /\ UNCHANGED <<serving, waitFor, conn, CloseOnly>>

(* The task of one close(1001) runs.                                       *)
CloseOne(g, c) ==
  /\ closePc[g] = "closing" /\ c \in toClose[g] /\ conn[c] = "OPEN"
  /\ conn' = Closing(c)
  /\ UNCHANGED <<serving, closePc, toClose, waitFor, CloseOnly>>

AwaitHandlers(g) == waitFor' = [waitFor EXCEPT ![g] = websockets[g]] /\ SetClose(g, "handlers")

(* close() returned on every connection, or raised (the assertion of a      *)
(* drain).  asyncio.Server.wait_closed() returns at once before Python 3.12 *)
(* and waits for the TCP connections since.                                 *)
CloseTasksDone(g) ==
  /\ closePc[g] = "closing" /\ \A c \in toClose[g] : conn[c] # "OPEN"
  /\ AwaitHandlers(g) \/ (SetClose(g, "tcp") /\ UNCHANGED waitFor)
  /\ UNCHANGED <<serving, toClose, conn, CloseOnly>>

(* Every TCP connection is closed: wait for the handlers that remain.       *)
ConnectionsClosed(g) ==
  /\ closePc[g] = "tcp" /\ \A c \in Conns : owner[c] = g => conn[c] = "CLOSED"
  /\ AwaitHandlers(g)
  /\ UNCHANGED <<serving, toClose, conn, CloseOnly>>

(* Mutated: closed_waiter is set without waiting for the handlers.          *)
HandlersDoneEarly(g) ==
  /\ closePc[g] = "handlers"
  /\ SetClose(g, "done")
  /\ UNCHANGED <<serving, toClose, waitFor, conn, CloseOnly>>

(* closed_waiter is set: wait_closed() returns.                             *)
HandlersDone(g) ==
  /\ closePc[g] = "handlers" /\ \A c \in waitFor[g] : task[c] = "done"
  /\ SetClose(g, "done")
  /\ UNCHANGED <<serving, toClose, waitFor, conn, CloseOnly>>

-----------------------------------------------------------------------------
(* What the shutdown promises.                                             *)

(* A connection that is OPEN after close() took its snapshot is one that    *)
(* close() closes: none opens behind its back (the 503 rule).               *)
NoneOpensBehindClose ==
  \A c \in Conns : conn[c] = "OPEN" /\ owner[c] # 0 /\ closePc[owner[c]] \in {"closing", "tcp", "handlers", "done"}
                     => c \in toClose[owner[c]]

(* wait_closed() returns when all connection handlers have returned.        *)
ClosedMeansHandlersDone ==
  \A g \in Servers : closePc[g] = "done" => websockets[g] = {} /\ \A c \in Conns : owner[c] = g => task[c] = "done"
=============================================================================
