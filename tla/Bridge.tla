-------------------------------- MODULE Bridge --------------------------------
(***************************************************************************)
(* The Tripo bridge add-on for Blender (Tripo3d_Blender_Bridge/core): the  *)
(* WebSocket server that receives models from the browser and imports them.*)
(*                                                                         *)
(*   task.py            the add-on's registration starts and stops one     *)
(*                      Server at a time, in a thread of its own           *)
(*   ws_server.py       Server: an asyncio loop with _main, the heartbeat  *)
(*                      task and one handle() per connection               *)
(*   file_transfer.py   the sessions that collect the chunks of a file     *)
(*   model_loader.py    the import, run by a timer on Blender's main thread*)
(*   status_manager.py  the status shown in the sidebar                    *)
(*                                                                         *)
(* Actions of one server's loop interleave at its awaits; the main thread  *)
(* and the loops of two servers interleave freely.  While handle() writes  *)
(* the model's file its loop does nothing else.  LegacyServer gives the    *)
(* life of the connections around handle().                                *)
(*                                                                         *)
(* The chunks belong to one file id: the sessions of different ids have    *)
(* nothing in common but the code.                                         *)
(***************************************************************************)
EXTENDS LegacyServer

CONSTANTS
  Total,    \* chunks of the file
  Kinds,    \* kinds of message a client sends besides chunks
  MaxMsgs   \* bound: messages the clients send

ASSUME BridgeAssumption ==
  /\ IsFiniteSet(Servers) /\ Servers = 1..Cardinality(Servers) /\ IsFiniteSet(Conns)
  /\ Total \in Nat \ {0} /\ MaxMsgs \in Nat

VARIABLES
  tm,        \* TaskManager.ws_server, 0 for None
  main,      \* the main thread: "idle", "join" or "import"
  joined,    \* the server whose thread stop() joins
  abandoned, \* history: servers whose thread outlived stop()'s join
  mpc,       \* per server: its thread and _main
  stop,      \* per server: stop_event
  hb,        \* per server: _check_heartbeat
  hbList,    \* per server: the timed-out clients it still has to close
  sockets,   \* per server: _sockets, in the order of insertion
  lastPing,  \* per server and connection: _last_ping_time, or "none"
  info,      \* per server: keys of _client_info
  status,    \* TripoBridge3DStatus.state
  hpc,       \* per connection: handle()
  olds,      \* per connection: old_sockets it still has to close
  cancelled, \* connections whose handler task _main cancelled
  inbox,     \* per connection: messages of the client not yet received
  nsent,     \* messages sent by the clients
  sessions,  \* per server: the file's session in _transfer_manager, 0 for none
  chunks,    \* the sessions ever made: the indices each received
  ref,       \* per connection: the session handle() works on
  disk,      \* the temporary file: "none", "partial" or "whole"
  jobs,      \* import jobs waiting for the main thread
  torn,      \* whether the running import meets a file that is not whole
  notices    \* clients whose import_complete the main thread gave to a loop

threadVars == <<tm, main, joined, abandoned, mpc, stop>>
hbVars == <<hb, hbList>>
regVars == <<sockets, lastPing, info, status>>
peerVars == <<inbox, nsent>>
appVars == <<hpc, olds, cancelled>>
fileVars == <<sessions, chunks, ref, disk, jobs, torn, notices>>
vars == <<serverVars, threadVars, hbVars, regVars, peerVars, appVars, fileVars>>

NoSession == 0
InSeq(c, s) == \E i \in DOMAIN s : s[i] = c

(* pop() of one key of a table that has each key once.                      *)
Without(s, c) ==
  IF InSeq(c, s)
  THEN LET i == CHOOSE j \in DOMAIN s : s[j] = c
       IN SubSeq(s, 1, i - 1) \o SubSeq(s, i + 1, Len(s))
  ELSE s

(* The members of T in the order they have in s.                            *)
InOrder(s, T) ==
  {t \in [1..Cardinality(T) -> T] :
     \A i, j \in DOMAIN t :
       i < j => \E p, q \in DOMAIN s : p < q /\ s[p] = t[i] /\ s[q] = t[j]}

(* A chunk of the client carries its index; the client may get it wrong.    *)
Messages == [kind : Kinds, i : {0}] \cup [kind : {"chunk"}, i : 0..Total]

(* is_complete() counts the chunks; assemble() needs the indices.           *)
Complete(s) == Cardinality(chunks[s]) = Total
Whole(s) == chunks[s] = 0..(Total - 1)

(* The loop of g is free: nobody is writing a file on it.                   *)
Turn(g) == \A c \in Conns : owner[c] = g => hpc[c] # "save"

BridgeInit ==
  /\ ServerInit
  /\ tm = 0 /\ main = "idle" /\ joined = 0 /\ abandoned = {}
  /\ mpc = [g \in Servers |-> "off"] /\ stop = [g \in Servers |-> FALSE]
  /\ hb = [g \in Servers |-> "off"] /\ hbList = [g \in Servers |-> <<>>]
  /\ sockets = [g \in Servers |-> <<>>] /\ lastPing = [g \in Servers |-> [c \in Conns |-> "none"]]
  /\ info = [g \in Servers |-> {}] /\ status = "disconnected"
  /\ hpc = [c \in Conns |-> "off"] /\ olds = [c \in Conns |-> <<>>] /\ cancelled = {}
  /\ inbox = [c \in Conns |-> <<>>] /\ nsent = 0
  /\ sessions = [g \in Servers |-> NoSession] /\ chunks = <<>>
  /\ ref = [c \in Conns |-> NoSession]
  /\ disk = "none" /\ jobs = <<>> /\ torn = FALSE
  /\ notices = <<>>

-----------------------------------------------------------------------------
(* task.py, on the main thread.                                            *)

Started == {g \in Servers : mpc[g] # "off"}

(* register(): TaskManager.start() makes the next Server and its thread.    *)
TaskStart ==
  /\ main = "idle" /\ tm = 0 /\ Servers # Started
  /\ LET g == Cardinality(Started) + 1 IN tm' = g /\ mpc' = [mpc EXCEPT ![g] = "thread"]
  /\ UNCHANGED <<main, joined, abandoned, stop, serverVars, hbVars, regVars, peerVars, appVars,
                 fileVars>>

(* unregister(): TaskManager.stop().  _direct_close() does nothing while    *)
(* run() has not set self.loop, and the request to stop is lost.            *)
TaskStop ==
  /\ main = "idle" /\ tm # 0
  /\ stop' = [stop EXCEPT ![tm] = @ \/ mpc[tm] \notin {"thread", "ended"}]
  /\ tm' = 0 /\ joined' = tm
  /\ main' = IF mpc[tm] = "ended" THEN "idle" ELSE "join"
  /\ UNCHANGED <<abandoned, mpc, serverVars, hbVars, regVars, peerVars, appVars, fileVars>>

(* ws_thread.join(timeout=2.0) returns.                                     *)
JoinReturns ==
  /\ main = "join" /\ main' = "idle"
  /\ abandoned' = IF mpc[joined] = "ended" THEN abandoned ELSE abandoned \cup {joined}
  /\ UNCHANGED <<tm, joined, mpc, stop, serverVars, hbVars, regVars, peerVars, appVars, fileVars>>

-----------------------------------------------------------------------------
(* Server.run() and _main().                                               *)

MainGo(g, from, to) == mpc[g] = from /\ mpc' = [mpc EXCEPT ![g] = to]
MainOnly == <<tm, main, joined, abandoned, stop>>

RunLoop(g) ==
  /\ MainGo(g, "thread", "loop")
  /\ UNCHANGED <<MainOnly, serverVars, hbVars, regVars, peerVars, appVars, fileVars>>

(* serve() binds the port, or fails when another server holds it.           *)
Bind(g) ==
  \/ /\ \A h \in Servers : ~IsServing(h)
     /\ MainGo(g, "loop", "wait") /\ Listen(g)
     /\ status' = "listening" /\ hb' = [hb EXCEPT ![g] = "sleep"]
     /\ UNCHANGED <<MainOnly, hbList, sockets, lastPing, info, peerVars, appVars, fileVars>>
  \/ /\ \E h \in Servers : IsServing(h)
     /\ MainGo(g, "loop", "ended") /\ status' = "disconnected"
     /\ UNCHANGED <<MainOnly, serverVars, hbVars, sockets, lastPing, info, peerVars, appVars,
                    fileVars>>

(* stop_event: cancel the heartbeat task and wait for it ...                *)
MainStopped(g) ==
  /\ stop[g] /\ Turn(g) /\ MainGo(g, "wait", "heartbeat")
  /\ UNCHANGED <<MainOnly, serverVars, hbVars, regVars, peerVars, appVars, fileVars>>

(* ... then cancel every task of the loop, _main itself included, so that   *)
(* asyncio.wait() raises at once ...                                        *)
MainCancels(g) ==
  /\ hb[g] = "done" /\ Turn(g) /\ MainGo(g, "heartbeat", "cancel")
  /\ cancelled' = cancelled \cup {c \in websockets[g] : task[c] # "done"}
  /\ UNCHANGED <<MainOnly, serverVars, hbVars, regVars, peerVars, hpc, olds, fileVars>>

(* ... and leave the async with block: close() and wait_closed() ...        *)
MainLeaves(g) ==
  /\ Turn(g) /\ MainGo(g, "cancel", "exit") /\ Close(g)
  /\ UNCHANGED <<MainOnly, hbVars, regVars, peerVars, appVars, fileVars>>

(* ... and run() closes the loop.                                           *)
MainEnds(g) ==
  /\ closePc[g] = "done" /\ MainGo(g, "exit", "ended") /\ status' = "disconnected"
  /\ UNCHANGED <<MainOnly, serverVars, hbVars, sockets, lastPing, info, peerVars, appVars,
                 fileVars>>

-----------------------------------------------------------------------------
(* _check_heartbeat().                                                     *)

HbOnly == <<threadVars, peerVars, appVars, fileVars>>

Forget(g, c) ==
  /\ sockets' = [sockets EXCEPT ![g] = Without(@, c)]
  /\ lastPing' = [lastPing EXCEPT ![g][c] = "none"]
  /\ info' = [info EXCEPT ![g] = @ \ {c}]

(* Mutated: only clients that sent a handshake are watched.                 *)
TimedOutKnown(g) == {c \in info[g] : InSeq(c, sockets[g]) /\ lastPing[g][c] = "old"}

TimedOut(g) == {c \in Conns : InSeq(c, sockets[g]) /\ lastPing[g][c] = "old"}

(* A turn of the loop: the clients that timed out, and close() of the first.*)
HbWake(g) ==
  /\ hb[g] = "sleep" /\ mpc[g] = "wait" /\ Turn(g) /\ TimedOut(g) # {}
  /\ hb' = [hb EXCEPT ![g] = "close"]
  /\ \E t \in InOrder(sockets[g], TimedOut(g)) :
       hbList' = [hbList EXCEPT ![g] = t] /\ conn' = Closing(Head(t))
  /\ UNCHANGED <<HbOnly, regVars, serving, closePc, toClose, waitFor, websockets, owner, task>>

(* In close(), before a cancellation or after one that close() swallowed.   *)
HbCloses(g) == (hb[g] = "close" /\ mpc[g] = "wait") \/ hb[g] = "finish"

(* Mutated: the list of clients to close is not consumed.                   *)
HbClosedKeeps(g) ==
  /\ HbCloses(g) /\ Turn(g)
  /\ LET c == Head(hbList[g])  rest == Tail(hbList[g]) IN
     /\ conn[c] # "OPEN"
     /\ Forget(g, c) /\ UNCHANGED hbList
     /\ IF rest # <<>>
        THEN conn' = Closing(Head(rest)) /\ UNCHANGED <<hb, status>>
        ELSE /\ hb' = [hb EXCEPT ![g] = IF stop[g] THEN "done" ELSE "sleep"]
             /\ status' = IF sockets'[g] = <<>> /\ ~stop[g] THEN "listening" ELSE status
             /\ UNCHANGED conn
  /\ UNCHANGED <<HbOnly, serving, closePc, toClose, waitFor, websockets, owner, task>>

(* close() returned, or raised (the assertion of a drain), which is logged:  *)
(* forget the client, then the next one or the status.                      *)
HbClosed(g) ==
  /\ HbCloses(g) /\ Turn(g)
  /\ LET c == Head(hbList[g])  rest == Tail(hbList[g]) IN
     /\ conn[c] # "OPEN"
     /\ Forget(g, c) /\ hbList' = [hbList EXCEPT ![g] = rest]
     /\ IF rest # <<>>
        THEN conn' = Closing(Head(rest)) /\ UNCHANGED <<hb, status>>
        ELSE /\ hb' = [hb EXCEPT ![g] = IF stop[g] THEN "done" ELSE "sleep"]
             /\ status' = IF sockets'[g] = <<>> /\ ~stop[g] THEN "listening" ELSE status
             /\ UNCHANGED conn
  /\ UNCHANGED <<HbOnly, serving, closePc, toClose, waitFor, websockets, owner, task>>

(* Cancelled by _main; the finally clause forgets the client being closed.  *)
HbCancelled(g) ==
  /\ mpc[g] = "heartbeat" /\ hb[g] \in {"sleep", "close"} /\ Turn(g)
  /\ hb' = [hb EXCEPT ![g] = "done"] /\ hbList' = [hbList EXCEPT ![g] = <<>>]
  /\ IF hb[g] = "close" THEN Forget(g, Head(hbList[g])) ELSE UNCHANGED <<sockets, lastPing, info>>
  /\ UNCHANGED <<HbOnly, status, serverVars>>

(* close() swallows the cancellation: the clients of the list are closed.   *)
HbSwallowed(g) ==
  /\ mpc[g] = "heartbeat" /\ hb[g] = "close" /\ Turn(g)
  /\ hb' = [hb EXCEPT ![g] = "finish"]
  /\ UNCHANGED <<HbOnly, hbList, regVars, serverVars>>

-----------------------------------------------------------------------------
(* handle(): registration.                                                 *)

SetHandler(c, pc) == hpc' = [hpc EXCEPT ![c] = pc]
HandleOnly == <<threadVars, hbVars, peerVars, cancelled, fileVars>>

Enrol(g, c) ==
  /\ SetHandler(c, "recv") /\ olds' = [olds EXCEPT ![c] = <<>>]
  /\ sockets' = [sockets EXCEPT ![g] = Append(@, c)]
  /\ lastPing' = [lastPing EXCEPT ![g][c] = "recent"]
  /\ status' = "connected" /\ UNCHANGED info

(* "Close all existing connections, keep only the newest": the table is     *)
(* emptied, then the old clients are closed one after the other.            *)
Replace(g, c) ==
  IF sockets[g] = <<>> THEN Enrol(g, c)
  ELSE /\ SetHandler(c, "replace") /\ olds' = [olds EXCEPT ![c] = sockets[g]]
       /\ sockets' = [sockets EXCEPT ![g] = <<>>]
       /\ lastPing' = [lastPing EXCEPT ![g][Head(sockets[g])] = "none"]
       /\ UNCHANGED <<info, status>>

(* The opening handshake succeeds and handle() starts in the same step.  If *)
(* it replaces a client, that client's close() starts too.                  *)
HandleStart(c) ==
  /\ owner[c] # 0 /\ Turn(owner[c])
  /\ LET g == owner[c] IN
     /\ Replace(g, c)
     /\ HandshakeOpen(c)
  /\ UNCHANGED HandleOnly

(* close() of the client being replaced runs to its wait.                   *)
OldClosing(c) ==
  /\ hpc[c] = "replace" /\ conn[Head(olds[c])] = "OPEN" /\ Turn(owner[c])
  /\ conn' = Closing(Head(olds[c]))
  /\ UNCHANGED <<HandleOnly, regVars, hpc, olds, serving, closePc, toClose, waitFor, websockets,
                 owner, task>>

(* close() returned, or raised (the assertion of a drain), which is logged:  *)
(* the next old client, or the new one is registered.                       *)
OldClosed(c) ==
  /\ hpc[c] = "replace" /\ conn[Head(olds[c])] # "OPEN" /\ Turn(owner[c])
  /\ LET g == owner[c]  rest == Tail(olds[c]) IN
     IF rest = <<>> THEN Enrol(g, c)
     ELSE /\ olds' = [olds EXCEPT ![c] = rest]
          /\ lastPing' = [lastPing EXCEPT ![g][Head(rest)] = "none"]
          /\ UNCHANGED <<hpc, sockets, info, status>>
  /\ UNCHANGED <<HandleOnly, serverVars>>

-----------------------------------------------------------------------------
(* handle(): messages.                                                     *)

(* The handler of a message that is not a chunk, up to its _safe_send();    *)
(* a message without JSON is skipped.                                       *)
Dispatch(g, c, m) ==
  /\ SetHandler(c, IF m.kind = "junk" THEN "recv" ELSE "reply")
  /\ info' = [info EXCEPT ![g] = IF m.kind = "handshake" THEN @ \cup {c} ELSE @]
  /\ lastPing' = [lastPing EXCEPT ![g][c] = IF m.kind = "ping" THEN "recent" ELSE @]

(* get_or_create_session() and add_chunk(), up to the await of the ack.     *)
AddChunk(g, c, i) ==
  /\ IF sessions[g] = NoSession
     THEN chunks' = Append(chunks, {i}) /\ sessions' = [sessions EXCEPT ![g] = Len(chunks) + 1]
     ELSE chunks' = [chunks EXCEPT ![sessions[g]] = @ \cup {i}] /\ UNCHANGED sessions
  /\ ref' = [ref EXCEPT ![c] = sessions'[g]]
  /\ SetHandler(c, "ack")

(* async for message in websocket.                                          *)
Receive(c) ==
  /\ hpc[c] = "recv" /\ inbox[c] # <<>> /\ c \notin cancelled /\ Turn(owner[c])
  /\ inbox' = [inbox EXCEPT ![c] = Tail(@)]
  /\ LET m == Head(inbox[c]) IN
     \/ /\ m.kind # "chunk" /\ Dispatch(owner[c], c, m)
        /\ UNCHANGED fileVars
     \/ /\ m.kind = "chunk" /\ AddChunk(owner[c], c, m.i)
        /\ UNCHANGED <<lastPing, info, disk, jobs, torn, notices>>
  /\ UNCHANGED <<threadVars, hbVars, sockets, status, nsent, olds, cancelled, serverVars>>

(* _safe_send() returned, whatever it returned: sent, closed, or after 5 s. *)
Replied(c) ==
  /\ hpc[c] = "reply" /\ c \notin cancelled /\ Turn(owner[c])
  /\ SetHandler(c, "recv")
  /\ UNCHANGED <<HandleOnly, regVars, olds, serverVars>>

(* The ack is out: a complete session is assembled and written to the       *)
(* temporary file; assemble() raises when an index is missing, which is     *)
(* only logged.                                                             *)
Acked(c) ==
  /\ hpc[c] = "ack" /\ c \notin cancelled /\ Turn(owner[c])
  /\ IF Complete(ref[c]) /\ Whole(ref[c])
     THEN SetHandler(c, "save") /\ disk' = "partial" /\ torn' = (torn \/ main = "import")
     ELSE SetHandler(c, "recv") /\ UNCHANGED <<disk, torn>>
  /\ UNCHANGED <<threadVars, hbVars, peerVars, regVars, olds, cancelled, sessions, chunks, ref, jobs,
                 notices, serverVars>>

(* save_file(), which blocks the loop: it succeeds or raises (error 1002).  *)
Saved(c) ==
  /\ hpc[c] = "save"
  /\ \/ SetHandler(c, "told") /\ disk' = "whole"
     \/ SetHandler(c, "error") /\ UNCHANGED disk
  /\ UNCHANGED <<threadVars, hbVars, peerVars, regVars, olds, cancelled, sessions, chunks, ref, jobs,
                 torn, notices, serverVars>>

(* Mutated: the session is not removed.                                     *)
ToldKeeps(c) ==
  /\ hpc[c] \in {"told", "error"} /\ c \notin cancelled /\ Turn(owner[c])
  /\ SetHandler(c, "recv")
  /\ jobs' = IF hpc[c] = "told" THEN Append(jobs, c) ELSE jobs
  /\ UNCHANGED <<threadVars, hbVars, peerVars, regVars, olds, cancelled, sessions, chunks, ref, disk,
                 torn, notices, serverVars>>

(* file_transfer_complete, or the error, is sent: the import is scheduled   *)
(* and the session of the file id is removed.                               *)
Told(c) ==
  /\ hpc[c] \in {"told", "error"} /\ c \notin cancelled /\ Turn(owner[c])
  /\ SetHandler(c, "recv")
  /\ jobs' = IF hpc[c] = "told" THEN Append(jobs, c) ELSE jobs
  /\ sessions' = [sessions EXCEPT ![owner[c]] = NoSession]
  /\ UNCHANGED <<threadVars, hbVars, peerVars, regVars, olds, cancelled, chunks, ref, disk, torn,
                 notices, serverVars>>

-----------------------------------------------------------------------------
(* handle(): the end.                                                      *)

(* The finally clause; the messages left in the queue go with the handler.  *)
CleanUp(g, c) ==
  /\ Forget(g, c) /\ SetHandler(c, "off") /\ ref' = [ref EXCEPT ![c] = NoSession]
  /\ inbox' = [inbox EXCEPT ![c] = <<>>]
  /\ status' = IF sockets'[g] = <<>> /\ ~stop[g] THEN "listening" ELSE status

(* The connection is closed and its messages are read: handle() returns.    *)
HandleEnds(c) ==
  /\ hpc[c] = "recv" /\ inbox[c] = <<>> /\ conn[c] = "CLOSED" /\ Turn(owner[c])
  /\ CleanUp(owner[c], c) /\ HandlerReturn(c)
  /\ UNCHANGED <<threadVars, hbVars, nsent, cancelled, olds, sessions, chunks, disk, jobs, torn,
                 notices>>

(* _main cancelled the task of the connection.  A client that was replacing *)
(* others was not registered, and leaves before the try statement.          *)
HandleCancelled(c) ==
  /\ c \in cancelled /\ hpc[c] # "save" /\ Turn(owner[c])
  /\ HandlerCancelled(c)
  /\ cancelled' = cancelled \ {c} /\ olds' = [olds EXCEPT ![c] = <<>>]
  /\ IF hpc[c] \in {"off", "replace"}
     THEN SetHandler(c, "off") /\ UNCHANGED <<regVars, inbox, ref>>
     ELSE CleanUp(owner[c], c)
  /\ UNCHANGED <<threadVars, hbVars, nsent, sessions, chunks, disk, jobs, torn, notices>>

(* The close() of an older client swallows the cancellation, as may the     *)
(* wait_for() of _safe_send() before Python 3.12: handle() goes on, on a    *)
(* connection that goes down.                                               *)
HandleSwallows(c) ==
  /\ c \in cancelled /\ Turn(owner[c])
  /\ hpc[c] \in {"replace", "reply", "ack", "told", "error"} \/ task[c] = "close"
  /\ CancelSwallowed(c)
  /\ cancelled' = cancelled \ {c}
  /\ UNCHANGED <<threadVars, hbVars, regVars, peerVars, hpc, olds, fileVars>>

-----------------------------------------------------------------------------
(* import_job(), on the main thread.                                       *)

ImportOnly == <<serverVars, tm, joined, abandoned, mpc, stop, hbVars, regVars, peerVars, appVars,
                sessions, chunks, ref>>

(* run_coroutine_threadsafe(_safe_send(...)), unless the loop is closed.    *)
Notify(c) == notices' = IF mpc[owner[c]] = "ended" THEN notices ELSE Append(notices, c)

(* The file is gone: import_model() raises FileNotFoundError.               *)
ImportMissing ==
  /\ main = "idle" /\ jobs # <<>> /\ disk = "none"
  /\ jobs' = Tail(jobs) /\ Notify(Head(jobs))
  /\ UNCHANGED <<ImportOnly, main, disk, torn>>

ImportStart ==
  /\ main = "idle" /\ jobs # <<>> /\ disk # "none"
  /\ main' = "import" /\ torn' = (disk = "partial")
  /\ UNCHANGED <<ImportOnly, jobs, disk, notices>>

(* Blender's importer may fail: import_model() swallows its exception, and  *)
(* the client is told of a success.                                         *)
ImportEnd ==
  /\ main = "import"
  /\ main' = "idle" /\ jobs' = Tail(jobs) /\ disk' = "none" /\ torn' = FALSE
  /\ Notify(Head(jobs))
  /\ UNCHANGED ImportOnly

(* The loop runs _safe_send(), or is closed before it does.                 *)
Notified ==
  /\ notices # <<>>
  /\ Turn(owner[Head(notices)]) \/ mpc[owner[Head(notices)]] = "ended"
  /\ notices' = Tail(notices)
  /\ UNCHANGED <<ImportOnly, main, jobs, disk, torn>>

-----------------------------------------------------------------------------
(* The clients and the network.                                            *)

(* A client sends until it has seen the connection close.                   *)
PeerSend(c, m) ==
  /\ conn[c] \in {"OPEN", "CLOSING"} /\ hpc[c] # "off" /\ nsent < MaxMsgs
  /\ inbox' = [inbox EXCEPT ![c] = Append(@, m)] /\ nsent' = nsent + 1
  /\ UNCHANGED <<serverVars, threadVars, hbVars, regVars, appVars, fileVars>>

(* _heartbeat_timeout passes without a ping of the client.                  *)
Age(c) ==
  /\ owner[c] # 0 /\ lastPing[owner[c]][c] = "recent"
  /\ lastPing' = [lastPing EXCEPT ![owner[c]][c] = "old"]
  /\ UNCHANGED <<serverVars, threadVars, hbVars, sockets, info, status, peerVars, appVars, fileVars>>

BridgeOnly == <<threadVars, hbVars, regVars, peerVars, appVars, fileVars>>

(* The steps of LegacyServer outside handle(), on the free loop of c.       *)
Connection(c) ==
  /\ \/ ConnectionMade(c) \/ ReadRequest(c) \/ HandshakeDropped(c) \/ HandshakeRefused(c)
     \/ HandshakeTimeout(c) \/ RejectDone(c) \/ CloseDone(c)
  /\ c \notin cancelled /\ Turn(owner[c])
  /\ UNCHANGED BridgeOnly

Lost(c) == ConnectionLost(c) /\ Turn(owner[c]) /\ UNCHANGED BridgeOnly
Arrive(c, g) == Accept(c, g) /\ UNCHANGED BridgeOnly

Shutdown(g) ==
  /\ ServerClose(g) \/ CloseConnections(g) \/ CloseTasksDone(g) \/ ConnectionsClosed(g)
     \/ HandlersDone(g)
     \/ \E c \in Conns : CloseOne(g, c)
  /\ Turn(g) /\ UNCHANGED BridgeOnly

Main(g) == RunLoop(g) \/ Bind(g) \/ MainStopped(g) \/ MainCancels(g) \/ MainLeaves(g) \/ MainEnds(g)
Heartbeat(g) == HbWake(g) \/ HbClosed(g) \/ HbCancelled(g) \/ HbSwallowed(g)
Handle(c) == OldClosing(c) \/ OldClosed(c) \/ Receive(c) \/ Replied(c) \/ Acked(c) \/ Saved(c)
             \/ Told(c) \/ HandleEnds(c) \/ HandleCancelled(c) \/ HandleSwallows(c)
Import == ImportMissing \/ ImportStart \/ ImportEnd \/ Notified

Next ==
  \/ TaskStart \/ TaskStop \/ JoinReturns \/ Import
  \/ \E g \in Servers : Main(g) \/ Heartbeat(g) \/ Shutdown(g) \/ \E c \in Conns : Arrive(c, g)
  \/ \E c \in Conns : Connection(c) \/ HandleStart(c) \/ Handle(c) \/ Lost(c) \/ Age(c)
                      \/ \E m \in Messages : PeerSend(c, m)

Spec == BridgeInit /\ [][Next]_vars

(* Somebody takes the closing connection down: a close() that waits for it  *)
(* under close_timeout, the end of its own handler, or, since _main         *)
(* cancelled every task, its close_connection.                              *)
Enforced(c) ==
  LET g == owner[c] IN
  \/ task[c] # "ws" \/ mpc[g] \in {"cancel", "exit"}
  \/ \E d \in Conns : hpc[d] = "replace" /\ Head(olds[d]) = c
  \/ hb[g] \in {"close", "finish"} /\ Head(hbList[g]) = c

(* Every step of the loop of g that does not wait for the user or a client: *)
(* a closing handshake ends, by the peer or by close_timeout.               *)
Loop(g) ==
  \/ Main(g) \/ Heartbeat(g) \/ Shutdown(g)
  \/ \E c \in Conns : /\ owner[c] = g
                      /\ Connection(c) \/ Handle(c) \/ (conn[c] = "CLOSING" /\ Enforced(c) /\ Lost(c))

(* A loop that has work to do runs.  With finitely many clients, messages   *)
(* and registrations it runs all of it.                                     *)
Fairness == \A g \in Servers : WF_vars(Loop(g))

FairSpec == Spec /\ Fairness

-----------------------------------------------------------------------------
(* Properties.                                                             *)

TypeOK ==
  /\ tm \in Servers \cup {0} /\ main \in {"idle", "join", "import"} /\ abandoned \subseteq Servers
  /\ mpc \in [Servers -> {"off", "thread", "loop", "wait", "heartbeat", "cancel", "exit", "ended"}]
  /\ stop \in [Servers -> BOOLEAN] /\ hb \in [Servers -> {"off", "sleep", "close", "finish", "done"}]
  /\ \A g \in Servers : hbList[g] # <<>> <=> hb[g] \in {"close", "finish"}
  /\ lastPing \in [Servers -> [Conns -> {"none", "recent", "old"}]] /\ info \in [Servers -> SUBSET Conns]
  /\ \A g \in Servers : \A i, j \in DOMAIN sockets[g] : i # j => sockets[g][i] # sockets[g][j]
  /\ status \in {"disconnected", "listening", "connected"}
  /\ hpc \in [Conns -> {"off", "replace", "recv", "reply", "ack", "save", "told", "error"}]
  /\ sessions \in [Servers -> 0..Len(chunks)] /\ disk \in {"none", "partial", "whole"}
  /\ serving \in [Servers -> {"no", "yes", "closed"}]
  /\ closePc \in [Servers -> {"none", "start", "sleep", "closing", "tcp", "handlers", "done"}]
  /\ conn \in [Conns -> {"none", "CONNECTING", "OPEN", "CLOSING", "CLOSED"}]
  /\ task \in [Conns -> {"none", "accepted", "request", "process", "reject", "ws", "close", "done"}]

Live(c) == hpc[c] # "off"
Running(g) == mpc[g] = "wait"

(* No connection is served behind the back of the table: a client that is   *)
(* OPEN is registered, is about to be, or is being closed by the one that   *)
(* replaces it.                                                             *)
NobodyForgotten ==
  \A c \in Conns :
    (Live(c) /\ conn[c] = "OPEN" /\ Running(owner[c]))
      => \/ InSeq(c, sockets[owner[c]]) \/ hpc[c] = "replace"
         \/ \E d \in Conns : hpc[d] = "replace" /\ InSeq(c, olds[d])

(* The heartbeat sees every registered client: it skips one that has no     *)
(* ping record, for ever.                                                   *)
HeartbeatSeesAll == \A g \in Servers : \A i \in DOMAIN sockets[g] : lastPing[g][sockets[g][i]] # "none"

(* The sidebar tells whether a client is connected, as long as no thread    *)
(* outlived its stop().                                                     *)
StatusFollowsClients ==
  \A g \in Servers :
    (Running(g) /\ ~stop[g] /\ abandoned = {})
      => /\ sockets[g] # <<>> => status = "connected"
         /\ status = "connected" => \E c \in Conns : owner[c] = g /\ Live(c)

(* When the thread of a server ends no handler is left on its loop, no      *)
(* connection is open and nothing is left in its tables.                    *)
EndsClean ==
  \A g \in Servers : mpc[g] = "ended" =>
    /\ sockets[g] = <<>> /\ lastPing[g] = [c \in Conns |-> "none"] /\ info[g] = {}
    /\ \A c \in Conns : owner[c] = g => ~Live(c) /\ task[c] = "done" /\ conn[c] # "OPEN"

(* A whole session is being processed by the handler of its last chunk (or  *)
(* of one that came while it was acknowledged): it never just stays.        *)
WholeIsProcessed ==
  \A g \in Servers :
    (sessions[g] # NoSession /\ Whole(sessions[g]) /\ mpc[g] \in {"wait", "heartbeat"})
      => \E c \in Conns : owner[c] = g /\ hpc[c] \in {"ack", "save", "told", "error"} /\ ref[c] = sessions[g]

(* What is written to the temporary file has every chunk of the upload.     *)
SavesWhole == \A c \in Conns : hpc[c] \in {"save", "told"} => 0..(Total - 1) \subseteq chunks[ref[c]]

(* The close() of this client raised, and nobody repeats it.                *)
Forsaken(c) == conn[c] = "CLOSING" /\ ~Enforced(c)

(* A client that was replaced is gone in the end, unless close() raised.    *)
Replaced == {c \in Conns : Live(c) /\ hpc[c] # "replace" /\ ~InSeq(c, sockets[owner[c]]) /\ ~Forsaken(c)}
ReplacedEnds == Replaced # {} ~> Replaced = {}

(* A client silent for longer than the timeout is dropped, unless it pings  *)
(* meanwhile or the server stops.                                           *)
Silent == UNION {{c \in Conns : lastPing[g][c] = "old" /\ ~Forsaken(c)} : g \in Servers}
SilentDropped == Silent # {} ~> Silent = {}

(* A client that was in its opening handshake when its handler was          *)
(* cancelled, and keeps its TCP connection: with Python 3.12 and later the  *)
(* server waits for it.                                                     *)
HeldOpen(g) ==
  closePc[g] = "tcp" /\ \E c \in Conns : owner[c] = g /\ task[c] = "done" /\ conn[c] = "CONNECTING"

(* stop(), once the loop exists, ends the thread, unless held open.         *)
Stopping == {g \in Servers : stop[g] /\ mpc[g] # "ended" /\ ~HeldOpen(g)}
StopEnds == Stopping # {} ~> Stopping = {}

(* The tables of the server, its heartbeat and the sidebar agree with the   *)
(* clients there are.                                                       *)
TablesTellClients == TypeOK /\ NobodyForgotten /\ HeartbeatSeesAll /\ StatusFollowsClients

(* An upload is processed when it is whole and only then.                   *)
UploadsWhole == WholeIsProcessed /\ SavesWhole

(* When the server has closed, its tables are empty, its handlers are gone  *)
(* and nobody is OPEN, whoever was still opening or swallowed a             *)
(* cancellation.  TCP connections may remain (see HeldOpen).                *)
ServerEndsClean == EndsClean /\ NoneOpensBehindClose /\ ClosedMeansHandlersDone

(* Clients that are replaced or silent, and a server that is stopped, end.  *)
GoneInTheEnd == ReplacedEnds /\ SilentDropped /\ StopEnds
=============================================================================
