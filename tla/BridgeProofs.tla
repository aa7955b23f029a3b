----------------------------- MODULE BridgeProofs -----------------------------
(***************************************************************************)
(* What Bridge promises in every state, for any number of registrations of *)
(* the add-on, of clients and of messages: the tables of the server tell   *)
(* which clients it has, an upload is processed when it is whole and only  *)
(* then, and a server that ends leaves no handler and no open connection.  *)
(*                                                                         *)
(* The inductive invariant has one part per concern, each kept by the      *)
(* steps that touch its variables: the connections of legacy/server.py     *)
(* (Library), the threads of task.py (Threads), the phases of _main        *)
(* (Phases), the tables of handle() and _check_heartbeat() (Tables) and    *)
(* the sessions of file_transfer.py (Files).                               *)
(***************************************************************************)
EXTENDS Bridge, FiniteSetTheorems, TLAPS

-----------------------------------------------------------------------------
(* The connections and close(), of LegacyServer.                           *)

ServerTypes ==
  /\ serving \in [Servers -> {"no", "yes", "closed"}]
  /\ closePc \in [Servers -> {"none", "start", "sleep", "closing", "tcp", "handlers", "done"}]
  /\ toClose \in [Servers -> SUBSET Conns] /\ waitFor \in [Servers -> SUBSET Conns]
  /\ websockets \in [Servers -> SUBSET Conns]
  /\ owner \in [Conns -> Servers \cup {0}]
  /\ task \in [Conns -> {"none", "accepted", "request", "process", "reject", "ws", "close", "done"}]
  /\ conn \in [Conns -> {"none", "CONNECTING", "OPEN", "CLOSING", "CLOSED"}]

\* Who is registered with the server, and who runs the application's handler.
ConnPhases ==
  \A c \in Conns :
    /\ owner[c] = 0 <=> task[c] = "none"
    /\ task[c] \in {"none", "accepted"} <=> conn[c] = "none"
    /\ conn[c] = "OPEN" => task[c] = "ws"
    /\ \A g \in Servers : c \in websockets[g] <=> owner[c] = g /\ task[c] \notin {"none", "accepted", "done"}

\* close() lets nobody in from its first step and waits for all there are.
ClosePhases ==
  \A g \in Servers :
    /\ closePc[g] \in {"sleep", "closing", "tcp", "handlers", "done"} => serving[g] = "closed"
    /\ closePc[g] \in {"closing", "tcp", "handlers", "done"} => \A c \in Conns : owner[c] = g => task[c] # "accepted"
    /\ closePc[g] = "handlers" => websockets[g] \subseteq waitFor[g]

Library == ServerTypes /\ ConnPhases /\ ClosePhases /\ NoneOpensBehindClose /\ ClosedMeansHandlersDone

-----------------------------------------------------------------------------
(* The threads of task.py and the phases of _main.                         *)

ThreadTypes ==
  /\ tm \in Servers \cup {0} /\ main \in {"idle", "join", "import"} /\ joined \in Servers \cup {0}
  /\ abandoned \subseteq Servers
  /\ mpc \in [Servers -> {"off", "thread", "loop", "wait", "heartbeat", "cancel", "exit", "ended"}]
  /\ stop \in [Servers -> BOOLEAN] /\ hb \in [Servers -> {"off", "sleep", "close", "finish", "done"}]
  /\ hbList \in [Servers -> Seq(Conns)] /\ \A g \in Servers : hbList[g] # <<>> <=> hb[g] \in {"close", "finish"}

\* A server between run() and the end of its loop.
Active(g) == mpc[g] \notin {"off", "ended"}

\* _main waits for the heartbeat once it is stopped; a cancellation that was
\* swallowed ends no earlier.
Stopped == \A g \in Servers : (hb[g] = "finish" => mpc[g] = "heartbeat") /\ (mpc[g] = "heartbeat" => stop[g])

\* The registrations are numbered as they come, and while no thread outlived
\* its stop() the only active server is the one registered or being joined.
Threads ==
  /\ ThreadTypes
  /\ \E k \in 0..Cardinality(Servers) : Started = 1..k
  /\ tm # 0 => mpc[tm] # "off"
  /\ main = "join" => tm = 0 /\ joined # 0
  /\ \A g \in Servers : mpc[g] \in {"off", "thread", "loop"} => hb[g] = "off"
  /\ Stopped
  /\ abandoned = {} => \A g \in Servers : Active(g) => g = tm \/ (main = "join" /\ g = joined)

\* What a server has in each phase of _main.
Phases ==
  /\ \A g \in Servers :
       /\ mpc[g] \in {"off", "thread", "loop"} =>
            /\ serving[g] = "no" /\ \A c \in Conns : owner[c] # g
            /\ sessions[g] = NoSession
       /\ mpc[g] \notin {"exit", "ended"} => closePc[g] = "none"
       /\ mpc[g] = "ended" => serving[g] # "yes" /\ \A c \in Conns : owner[c] = g => task[c] = "done"
  /\ \A c \in cancelled : owner[c] \in Servers /\ mpc[owner[c]] \in {"cancel", "exit", "ended"}

-----------------------------------------------------------------------------
(* The tables of the server.                                               *)

\* handle() has passed the registration of c and not its finally clause.
Enrolled(c) == hpc[c] \notin {"off", "replace"}

TableTypes ==
  /\ sockets \in [Servers -> Seq(Conns)]
  /\ lastPing \in [Servers -> [Conns -> {"none", "recent", "old"}]] /\ info \in [Servers -> SUBSET Conns]
  /\ status \in {"disconnected", "listening", "connected"}
  /\ hpc \in [Conns -> {"off", "replace", "recv", "reply", "ack", "save", "told", "error"}]
  /\ olds \in [Conns -> Seq(Conns)] /\ cancelled \subseteq Conns
  /\ inbox \in [Conns -> Seq(Messages)]

\* No client is registered twice.
OncePerTable == \A g \in Servers : \A i, j \in DOMAIN sockets[g] : i # j => sockets[g][i] # sockets[g][j]

\* handle() runs in the task that the library runs for it.
HandlersRun == \A c \in Conns : (hpc[c] # "off" <=> task[c] = "ws") /\ (hpc[c] = "replace" <=> olds[c] # <<>>)

\* Every entry of a table is of a client of this server that is registered.
EntriesLive ==
  \A g \in Servers, c \in Conns :
    /\ InSeq(c, sockets[g]) => owner[c] = g /\ Enrolled(c)
    /\ lastPing[g][c] # "none" => owner[c] = g /\ Enrolled(c)
    /\ c \in info[g] => owner[c] = g /\ Enrolled(c)

\* A client that is being replaced never comes back to the table.
OldsGone ==
  \A c, d \in Conns : InSeq(d, olds[c]) =>
    /\ task[d] \in {"ws", "close", "done"} /\ hpc[d] # "replace" /\ owner[d] = owner[c]
    /\ \A g \in Servers : ~InSeq(d, sockets[g])

Tables ==
  /\ TableTypes /\ OncePerTable /\ HandlersRun /\ EntriesLive /\ OldsGone
  /\ NobodyForgotten /\ HeartbeatSeesAll /\ StatusFollowsClients

-----------------------------------------------------------------------------
(* The sessions of the uploads.                                            *)

\* A session belongs to one server; a handler past add_chunk() has one.
FileTypes ==
  /\ chunks \in Seq(SUBSET (0..Total)) /\ sessions \in [Servers -> 0..Len(chunks)]
  /\ ref \in [Conns -> 0..Len(chunks)] /\ disk \in {"none", "partial", "whole"}

Files ==
  /\ FileTypes
  /\ \A g, h \in Servers : sessions[g] = sessions[h] /\ sessions[g] # NoSession => g = h
  /\ \A c \in Conns : hpc[c] \in {"ack", "save", "told", "error"} => ref[c] # NoSession
  /\ WholeIsProcessed /\ SavesWhole

IInv == Library /\ Threads /\ Phases /\ Tables /\ Files


-----------------------------------------------------------------------------
(* The library keeps Library.                                              *)

LEMMA ServersAre == Cardinality(Servers) \in Nat /\ Servers = 1..Cardinality(Servers) /\ 0 \notin Servers
<1>1. Cardinality(Servers) \in Nat
  BY BridgeAssumption, FS_CardinalityType DEF BridgeAssumption
<1>2. Servers = 1..Cardinality(Servers)
  BY BridgeAssumption DEF BridgeAssumption
<1> QED
  BY <1>1, <1>2

LEMMA LibraryInit == ServerInit => Library
BY ServersAre DEF ServerInit, Library, ServerTypes, ConnPhases, ClosePhases, NoneOpensBehindClose,
   ClosedMeansHandlersDone

\* Steps that change nothing but the state of connections.
ConnOnly == UNCHANGED <<serving, closePc, toClose, waitFor, websockets, owner, task>>

LEMMA LibraryConn ==
  ASSUME Library, ConnOnly, NEW c \in Conns,
         conn' = conn \/ (conn[c] # "none" /\ \E s \in {"CLOSING", "CLOSED"} : conn' = [conn EXCEPT ![c] = s])
  PROVE  Library'
<1>1. \A d \in Conns : (conn'[d] = "OPEN" => conn[d] = "OPEN") /\ (conn[d] = "none" <=> conn'[d] = "none")
  BY DEF Library, ServerTypes
<1>2. conn' \in [Conns -> {"none", "CONNECTING", "OPEN", "CLOSING", "CLOSED"}]
  BY DEF Library, ServerTypes
<1>3. ServerTypes'
  BY <1>2 DEF Library, ServerTypes, ConnOnly
<1>4. ConnPhases'
  BY <1>1 DEF Library, ConnPhases, ConnOnly
<1>5. ClosePhases' /\ ClosedMeansHandlersDone'
  BY DEF Library, ClosePhases, ClosedMeansHandlersDone, ConnOnly
<1>6. NoneOpensBehindClose'
  BY <1>1 DEF Library, NoneOpensBehindClose, ConnOnly
<1> QED
  BY <1>3, <1>4, <1>5, <1>6 DEF Library

LEMMA ClosingDoes ==
  ASSUME Library, NEW c \in Conns, conn' = Closing(c)
  PROVE  conn' = conn \/ (conn[c] # "none" /\ \E s \in {"CLOSING", "CLOSED"} : conn' = [conn EXCEPT ![c] = s])
BY DEF Closing

LEMMA LibraryListen ==
  ASSUME Library, NEW g \in Servers, Listen(g)
  PROVE  Library'
<1> USE DEF Listen
<1>1. ServerTypes' /\ ConnPhases' /\ NoneOpensBehindClose' /\ ClosedMeansHandlersDone'
  BY DEF Library, ServerTypes, ConnPhases, NoneOpensBehindClose, ClosedMeansHandlersDone
<1>2. ClosePhases'
  BY DEF Library, ServerTypes, ClosePhases
<1> QED
  BY <1>1, <1>2 DEF Library

LEMMA LibraryAccept ==
  ASSUME Library, NEW g \in Servers, NEW c \in Conns, Accept(c, g)
  PROVE  Library'
<1> USE DEF Accept, SetTask, IsServing
<1>1. owner[c] = 0 /\ closePc[g] \notin {"sleep", "closing", "tcp", "handlers", "done"} /\ conn[c] = "none"
  BY DEF Library, ConnPhases, ClosePhases
<1>2. ServerTypes'
  BY DEF Library, ServerTypes
<1>3. ConnPhases'
  BY <1>1, ServersAre DEF Library, ConnPhases, ServerTypes
<1>4. ClosePhases' /\ ClosedMeansHandlersDone'
  BY <1>1 DEF Library, ClosePhases, ClosedMeansHandlersDone, ServerTypes
<1>5. NoneOpensBehindClose'
  BY <1>1 DEF Library, NoneOpensBehindClose, ServerTypes
<1> QED
  BY <1>2, <1>3, <1>4, <1>5 DEF Library

LEMMA LibraryMade ==
  ASSUME Library, NEW c \in Conns, ConnectionMade(c)
  PROVE  Library'
<1> USE DEF ConnectionMade, SetTask, SetConn, Register
<1>1. owner[c] \in Servers /\ closePc[owner[c]] \notin {"closing", "tcp", "handlers", "done"}
  BY DEF Library, ConnPhases, ClosePhases, ServerTypes
<1>2. ServerTypes'
  BY <1>1 DEF Library, ServerTypes
<1>3. ConnPhases'
  BY <1>1 DEF Library, ConnPhases, ServerTypes
<1>4. ClosePhases' /\ ClosedMeansHandlersDone'
  BY <1>1 DEF Library, ClosePhases, ClosedMeansHandlersDone, ServerTypes
<1>5. NoneOpensBehindClose'
  BY <1>1 DEF Library, NoneOpensBehindClose, ServerTypes
<1> QED
  BY <1>2, <1>3, <1>4, <1>5 DEF Library

\* A handler goes from one of its awaits to the next; only the handshake
\* makes a connection OPEN, while the server accepts.
LEMMA LibraryTask ==
  ASSUME Library, NEW c \in Conns, UNCHANGED <<serving, closePc, toClose, waitFor, websockets, owner>>,
         task[c] \in {"request", "process", "reject", "ws", "close"},
         NEW pc \in {"process", "reject", "ws", "close"}, task' = [task EXCEPT ![c] = pc],
         NEW s \in {"CONNECTING", "OPEN", "CLOSING", "CLOSED"}, conn' = [conn EXCEPT ![c] = s],
         s = "OPEN" => pc = "ws" /\ IsServing(owner[c])
  PROVE  Library'
<1>1. owner[c] \in Servers
  BY DEF Library, ConnPhases, ServerTypes
<1>2. s = "OPEN" => closePc[owner[c]] \notin {"sleep", "closing", "tcp", "handlers", "done"}
  BY <1>1 DEF Library, ClosePhases, IsServing
<1>3. ServerTypes'
  BY DEF Library, ServerTypes
<1>4. ConnPhases'
  BY <1>1 DEF Library, ConnPhases, ServerTypes
<1>5. ClosePhases' /\ ClosedMeansHandlersDone'
  BY <1>1 DEF Library, ClosePhases, ClosedMeansHandlersDone, ServerTypes
<1>6. NoneOpensBehindClose'
  BY <1>1, <1>2 DEF Library, NoneOpensBehindClose, ServerTypes
<1> QED
  BY <1>3, <1>4, <1>5, <1>6 DEF Library

\* The finally clause of handler(): the connection is not OPEN any more.
LEMMA LibraryFinish ==
  ASSUME Library, NEW c \in Conns, UNCHANGED <<serving, closePc, toClose, waitFor, owner>>, Finish(c),
         task[c] \in {"request", "process", "reject", "ws", "close"},
         NEW s \in {"CONNECTING", "CLOSING", "CLOSED"}, conn' = [conn EXCEPT ![c] = s]
  PROVE  Library'
<1> USE DEF Finish, SetTask, Unregister
<1>1. owner[c] \in Servers
  BY DEF Library, ConnPhases, ServerTypes
<1>2. ServerTypes'
  BY <1>1 DEF Library, ServerTypes
<1>3. ConnPhases'
  BY <1>1 DEF Library, ConnPhases, ServerTypes
<1>4. ClosePhases' /\ ClosedMeansHandlersDone'
  BY <1>1 DEF Library, ClosePhases, ClosedMeansHandlersDone, ServerTypes
<1>5. NoneOpensBehindClose'
  BY <1>1 DEF Library, NoneOpensBehindClose, ServerTypes
<1> QED
  BY <1>2, <1>3, <1>4, <1>5 DEF Library


\* A state assigned to itself.
LEMMA SameConn ==
  ASSUME Library, NEW c \in Conns
  PROVE  conn = [conn EXCEPT ![c] = conn[c]]
BY DEF Library, ServerTypes

LEMMA DroppingEnds ==
  ASSUME Library, NEW c \in Conns, conn' = Dropping(c)
  PROVE  \E s \in {"CLOSING", "CLOSED"} : conn' = [conn EXCEPT ![c] = s]
BY SameConn DEF Dropping

LEMMA LibraryReject ==
  ASSUME Library, NEW c \in Conns, task[c] \in {"request", "process"}, Reject(c)
  PROVE  Library'
<1>1. PICK s \in {"CLOSING", "CLOSED"} : conn' = [conn EXCEPT ![c] = s]
  BY DroppingEnds DEF Reject
<1> QED
  BY <1>1, LibraryTask DEF Reject, SetTask

LEMMA LibraryDrop ==
  ASSUME Library, NEW c \in Conns, task[c] \in {"request", "process", "reject", "ws", "close"}, Drop(c)
  PROVE  Library'
<1>1. PICK s \in {"CLOSING", "CLOSED"} : conn' = [conn EXCEPT ![c] = s]
  BY DroppingEnds DEF Drop
<1> QED
  BY <1>1, LibraryFinish DEF Drop

LEMMA LibraryCancelled ==
  ASSUME Library, NEW c \in Conns, HandlerCancelled(c)
  PROVE  Library'
<1>1. CASE task[c] \in {"request", "process"}
  <2>1. conn[c] \in {"CONNECTING", "CLOSING", "CLOSED"}
    BY <1>1 DEF Library, ConnPhases, ServerTypes
  <2>2. conn' = [conn EXCEPT ![c] = conn[c]]
    BY <1>1, SameConn DEF HandlerCancelled
  <2> QED
    BY <1>1, <2>1, <2>2, LibraryFinish DEF HandlerCancelled
<1>2. CASE task[c] \notin {"request", "process"}
  <2>1. PICK s \in {"CLOSING", "CLOSED"} : conn' = [conn EXCEPT ![c] = s]
    BY <1>2, DroppingEnds DEF HandlerCancelled
  <2> QED
    BY <2>1, LibraryFinish DEF HandlerCancelled
<1> QED
  BY <1>1, <1>2

LEMMA LibrarySwallowed ==
  ASSUME Library, NEW c \in Conns, CancelSwallowed(c)
  PROVE  Library'
<1>1. PICK s \in {"CLOSING", "CLOSED"} : conn' = [conn EXCEPT ![c] = s]
  BY DroppingEnds DEF CancelSwallowed
<1>2. conn[c] # "none"
  BY DEF CancelSwallowed, Library, ConnPhases
<1> QED
  BY <1>1, <1>2, LibraryConn DEF CancelSwallowed, ConnOnly

LEMMA LibraryRead ==
  ASSUME Library, NEW c \in Conns, ReadRequest(c)
  PROVE  Library'
<1>1. CASE Reject(c)
  BY <1>1, LibraryReject DEF ReadRequest
<1>2. CASE ~Reject(c)
  <2>1. conn[c] \in {"CONNECTING", "CLOSING", "CLOSED"} /\ task[c] = "request"
    BY DEF ReadRequest, Library, ConnPhases, ServerTypes
  <2>2. UNCHANGED <<serving, closePc, toClose, waitFor, websockets, owner, conn>> /\ task' = [task EXCEPT ![c] = "process"]
    BY <1>2 DEF ReadRequest, SetTask
  <2>3. conn' = [conn EXCEPT ![c] = conn[c]]
    BY <2>2, SameConn
  <2> QED
    BY <2>1, <2>2, <2>3, LibraryTask
<1> QED
  BY <1>1, <1>2

LEMMA LibraryOpen ==
  ASSUME Library, NEW c \in Conns, HandshakeOpen(c)
  PROVE  Library'
BY LibraryTask DEF HandshakeOpen, SetTask, SetConn

\* RejectDone and CloseDone: the connection is CLOSED already.
LEMMA LibraryDone ==
  ASSUME Library, NEW c \in Conns, RejectDone(c) \/ CloseDone(c)
  PROVE  Library'
<1>1. conn' = [conn EXCEPT ![c] = "CLOSED"]
  BY SameConn DEF RejectDone, CloseDone
<1> QED
  BY <1>1, LibraryFinish DEF RejectDone, CloseDone

LEMMA LibraryReturn ==
  ASSUME Library, NEW c \in Conns, HandlerReturn(c)
  PROVE  Library'
<1>1. conn[c] \in {"CONNECTING", "OPEN", "CLOSING", "CLOSED"}
  BY DEF HandlerReturn, Library, ConnPhases, ServerTypes
<1>2. PICK s \in {"CONNECTING", "CLOSING", "CLOSED"} : conn' = [conn EXCEPT ![c] = s]
  BY <1>1, SameConn DEF HandlerReturn, Closing
<1> QED
  BY <1>2, LibraryTask DEF HandlerReturn, SetTask

LEMMA LibraryLost ==
  ASSUME Library, NEW c \in Conns, ConnectionLost(c)
  PROVE  Library'
BY LibraryConn DEF ConnectionLost, SetConn, ConnOnly

LEMMA LibraryConnection ==
  ASSUME Library, NEW c \in Conns, Connection(c)
  PROVE  Library'
<1>1. HandshakeDropped(c) \/ HandshakeRefused(c) \/ HandshakeTimeout(c) => Library'
  BY LibraryDrop, LibraryReject DEF HandshakeDropped, HandshakeRefused, HandshakeTimeout
<1> QED
  BY <1>1, LibraryMade, LibraryRead, LibraryDone DEF Connection

-----------------------------------------------------------------------------
(* close() keeps Library.                                                  *)

LEMMA LibraryClose ==
  ASSUME Library, NEW g \in Servers, Close(g)
  PROVE  Library'
<1> USE DEF Close, SetClose, CloseOnly
<1>1. ServerTypes' /\ ConnPhases'
  BY DEF Library, ServerTypes, ConnPhases
<1>2. \A h \in Servers : closePc'[h] = closePc[h] \/ closePc'[h] = "start"
  BY DEF Library, ServerTypes
<1>3. ClosePhases' /\ ClosedMeansHandlersDone'
  BY <1>2 DEF Library, ClosePhases, ClosedMeansHandlersDone
<1>4. NoneOpensBehindClose'
  BY <1>2 DEF Library, NoneOpensBehindClose, ServerTypes
<1> QED
  BY <1>1, <1>3, <1>4 DEF Library

LEMMA LibraryServerClose ==
  ASSUME Library, NEW g \in Servers, ServerClose(g)
  PROVE  Library'
<1> USE DEF ServerClose, SetClose, CloseOnly
<1>1. ServerTypes' /\ ConnPhases'
  BY DEF Library, ServerTypes, ConnPhases
<1>2. \A h \in Servers : closePc'[h] = closePc[h] \/ (h = g /\ closePc'[h] = "sleep" /\ serving'[h] = "closed")
  BY DEF Library, ServerTypes
<1>3. ClosePhases' /\ ClosedMeansHandlersDone'
  BY <1>2 DEF Library, ClosePhases, ClosedMeansHandlersDone, ServerTypes
<1>4. NoneOpensBehindClose'
  BY <1>2 DEF Library, NoneOpensBehindClose, ServerTypes
<1> QED
  BY <1>1, <1>3, <1>4 DEF Library

LEMMA LibraryCloseConnections ==
  ASSUME Library, NEW g \in Servers, CloseConnections(g)
  PROVE  Library'
<1> USE DEF CloseConnections, SetClose, CloseOnly
<1>1. ServerTypes' /\ ConnPhases'
  BY DEF Library, ServerTypes, ConnPhases
<1>2. ClosePhases' /\ ClosedMeansHandlersDone'
  BY DEF Library, ClosePhases, ClosedMeansHandlersDone, ServerTypes
<1>3. \A c \in Conns : conn[c] = "OPEN" /\ owner[c] = g => c \in toClose'[g]
  BY DEF Library, ConnPhases, ServerTypes
<1>4. NoneOpensBehindClose'
  BY <1>3 DEF Library, NoneOpensBehindClose, ServerTypes
<1> QED
  BY <1>1, <1>2, <1>4 DEF Library

LEMMA LibraryCloseOne ==
  ASSUME Library, NEW g \in Servers, NEW c \in Conns, CloseOne(g, c)
  PROVE  Library'
BY LibraryConn, ClosingDoes DEF CloseOne, CloseOnly, ConnOnly

LEMMA LibraryCloseTasksDone ==
  ASSUME Library, NEW g \in Servers, CloseTasksDone(g) \/ ConnectionsClosed(g)
  PROVE  Library'
<1> USE DEF CloseTasksDone, ConnectionsClosed, AwaitHandlers, SetClose, CloseOnly
<1>1. ServerTypes' /\ ConnPhases'
  BY DEF Library, ServerTypes, ConnPhases
<1>2. ClosePhases' /\ ClosedMeansHandlersDone'
  BY DEF Library, ClosePhases, ClosedMeansHandlersDone, ServerTypes
<1>3. NoneOpensBehindClose'
  BY DEF Library, NoneOpensBehindClose, ServerTypes
<1> QED
  BY <1>1, <1>2, <1>3 DEF Library

\* Everybody registered was waited for and is done, so nobody is registered.
LEMMA LibraryHandlersDone ==
  ASSUME Library, NEW g \in Servers, HandlersDone(g)
  PROVE  Library'
<1> USE DEF HandlersDone, SetClose, CloseOnly
<1>1. ServerTypes' /\ ConnPhases' /\ ClosePhases'
  BY DEF Library, ServerTypes, ConnPhases, ClosePhases
<1>2. websockets[g] = {}
  BY DEF Library, ServerTypes, ConnPhases, ClosePhases
<1>3. \A c \in Conns : owner[c] = g => task[c] = "done"
  BY <1>2, ServersAre DEF Library, ServerTypes, ConnPhases, ClosePhases
<1>4. ClosedMeansHandlersDone'
  BY <1>2, <1>3 DEF Library, ClosedMeansHandlersDone, ServerTypes
<1>5. NoneOpensBehindClose'
  BY DEF Library, NoneOpensBehindClose, ServerTypes
<1> QED
  BY <1>1, <1>4, <1>5 DEF Library

LEMMA LibraryShutdown ==
  ASSUME Library, NEW g \in Servers, Shutdown(g)
  PROVE  Library'
BY LibraryServerClose, LibraryCloseConnections, LibraryCloseOne, LibraryCloseTasksDone, LibraryHandlersDone
   DEF Shutdown


-----------------------------------------------------------------------------
(* What the operators on tables do.                                        *)

\* The clients that timed out, in the order of the table, are a sequence.
LEMMA InOrderIs ==
  ASSUME NEW s, NEW T \in SUBSET Conns, T # {}, NEW t \in InOrder(s, T)
  PROVE  t \in Seq(Conns) /\ t # <<>> /\ Head(t) \in Conns /\ Tail(t) \in Seq(Conns)
<1>1. IsFiniteSet(T)
  BY BridgeAssumption, FS_Subset DEF BridgeAssumption
<1>2. Cardinality(T) \in Nat /\ Cardinality(T) # 0
  BY <1>1, FS_CardinalityType, FS_EmptySet
<1>3. t \in [1..Cardinality(T) -> T]
  BY DEF InOrder
<1>4. t \in Seq(Conns) /\ Len(t) = Cardinality(T)
  BY <1>2, <1>3
<1> QED
  BY <1>2, <1>4

\* A sequence without its entry at i.
LEMMA CutIs ==
  ASSUME NEW s \in Seq(Conns), NEW i \in 1..Len(s)
  PROVE  /\ SubSeq(s, 1, i - 1) \o SubSeq(s, i + 1, Len(s)) \in Seq(Conns)
         /\ Len(SubSeq(s, 1, i - 1) \o SubSeq(s, i + 1, Len(s))) = Len(s) - 1
         /\ \A j \in 1..(Len(s) - 1) :
              (SubSeq(s, 1, i - 1) \o SubSeq(s, i + 1, Len(s)))[j] = IF j < i THEN s[j] ELSE s[j + 1]
<1>1. PICK a : a = SubSeq(s, 1, i - 1)
  OBVIOUS
<1>2. PICK b : b = SubSeq(s, i + 1, Len(s))
  OBVIOUS
<1>3. a \in Seq(Conns) /\ Len(a) = i - 1 /\ \A j \in 1..(i - 1) : a[j] = s[j]
  BY <1>1
<1>4. b \in Seq(Conns) /\ Len(b) = Len(s) - i /\ \A j \in 1..(Len(s) - i) : b[j] = s[j + i]
  BY <1>2
<1>5. a \o b \in Seq(Conns) /\ Len(a \o b) = Len(s) - 1
  <2>1. a \in Seq(Conns) /\ b \in Seq(Conns)
    BY <1>3, <1>4
  <2>2. a \o b \in Seq(Conns) /\ Len(a \o b) = Len(a) + Len(b)
    BY <2>1
  <2>3. Len(a) = i - 1 /\ Len(b) = Len(s) - i /\ Len(s) \in Nat /\ i \in Nat
    BY <1>3, <1>4
  <2> QED
    BY <2>2, <2>3
<1>6. ASSUME NEW j \in 1..(Len(s) - 1)
      PROVE  (a \o b)[j] = IF j < i THEN s[j] ELSE s[j + 1]
  <2>1. (a \o b)[j] = IF j <= Len(a) THEN a[j] ELSE b[j - Len(a)]
    <3>1. Len(a) \in Nat /\ Len(b) \in Nat /\ j \in 1..(Len(a) + Len(b))
      BY <1>3, <1>4
    <3> QED
      BY <1>3, <1>4, <3>1
  <2>2. CASE j < i
    BY <1>3, <2>1, <2>2
  <2>3. CASE ~(j < i)
    <3>1. j - (i - 1) \in 1..(Len(s) - i) /\ (j - (i - 1)) + i = j + 1
      BY <2>3
    <3> QED
      BY <1>3, <1>4, <2>1, <2>3, <3>1
  <2> QED
    BY <2>2, <2>3
<1> QED
  BY <1>1, <1>2, <1>5, <1>6

\* A pop() leaves every other entry, and each of them once.
LEMMA WithoutDoes ==
  ASSUME NEW s \in Seq(Conns), NEW c,
         \A i, j \in DOMAIN s : i # j => s[i] # s[j]
  PROVE  /\ Without(s, c) \in Seq(Conns)
         /\ \A i, j \in DOMAIN Without(s, c) : i # j => Without(s, c)[i] # Without(s, c)[j]
         /\ \A d : InSeq(d, Without(s, c)) <=> InSeq(d, s) /\ d # c
<1>1. CASE ~InSeq(c, s)
  BY <1>1 DEF Without, InSeq
<1>2. CASE InSeq(c, s)
  <2> DEFINE i == CHOOSE j \in DOMAIN s : s[j] = c
             w == SubSeq(s, 1, i - 1) \o SubSeq(s, i + 1, Len(s))
  <2>1. i \in 1..Len(s) /\ s[i] = c
    BY <1>2 DEF InSeq
  <2>2. Without(s, c) = w
    BY <1>2 DEF Without
  <2> HIDE DEF i
  <2>5. w \in Seq(Conns) /\ Len(w) = Len(s) - 1
    BY <2>1, CutIs
  <2>6. \A j \in 1..(Len(s) - 1) : w[j] = IF j < i THEN s[j] ELSE s[j + 1]
    BY <2>1, CutIs
  <2> HIDE DEF w
  <2>7. ASSUME NEW j \in DOMAIN w, NEW k \in DOMAIN w, j # k
        PROVE  w[j] # w[k]
    <3>1. j \in 1..(Len(s) - 1) /\ k \in 1..(Len(s) - 1)
      BY <2>5
    <3>2. \A m \in 1..(Len(s) - 1) : m \in DOMAIN s /\ m + 1 \in DOMAIN s
      OBVIOUS
    <3>3. CASE j < i /\ k < i
      BY <2>6, <2>7, <3>1, <3>2, <3>3
    <3>4. CASE j < i /\ ~(k < i)
      <4>1. j # k + 1
        BY <2>1, <3>1, <3>4
      <4> QED
        BY <2>6, <3>1, <3>2, <3>4, <4>1
    <3>5. CASE ~(j < i) /\ k < i
      <4>1. j + 1 # k
        BY <2>1, <3>1, <3>5
      <4> QED
        BY <2>6, <3>1, <3>2, <3>5, <4>1
    <3>6. CASE ~(j < i) /\ ~(k < i)
      <4>1. j + 1 # k + 1
        BY <2>7, <3>1
      <4> QED
        BY <2>6, <3>1, <3>2, <3>6, <4>1
    <3> QED
      BY <3>3, <3>4, <3>5, <3>6
  <2>8. ASSUME NEW d
        PROVE  InSeq(d, w) <=> InSeq(d, s) /\ d # c
    <3>1. ASSUME InSeq(d, w)
          PROVE  InSeq(d, s) /\ d # c
      <4>1. PICK j \in DOMAIN w : w[j] = d
        BY <3>1 DEF InSeq
      <4>2. j \in 1..(Len(s) - 1) /\ j \in DOMAIN s /\ j + 1 \in DOMAIN s
        BY <2>5, <4>1
      <4>3. CASE j < i
        BY <2>1, <2>6, <4>1, <4>2, <4>3 DEF InSeq
      <4>4. CASE ~(j < i)
        <5>1. w[j] = s[j + 1] /\ j + 1 # i
          BY <2>1, <2>6, <4>2, <4>4
        <5> QED
          BY <2>1, <4>1, <4>2, <5>1 DEF InSeq
      <4> QED
        BY <4>3, <4>4
    <3>2. ASSUME InSeq(d, s), d # c
          PROVE  InSeq(d, w)
      <4>1. PICK j \in DOMAIN s : s[j] = d
        BY <3>2 DEF InSeq
      <4>2. CASE j < i
        BY <2>1, <2>5, <2>6, <4>1, <4>2 DEF InSeq
      <4>3. CASE j > i
        <5>1. j - 1 \in 1..(Len(s) - 1) /\ w[j - 1] = s[(j - 1) + 1]
          BY <2>1, <2>6, <4>1, <4>3
        <5> QED
          BY <2>5, <4>1, <5>1 DEF InSeq
      <4> QED
        BY <2>1, <3>2, <4>1, <4>2, <4>3
    <3> QED
      BY <3>1, <3>2
  <2> QED
    BY <2>2, <2>5, <2>7, <2>8
<1> QED
  BY <1>1, <1>2

LEMMA AppendDoes ==
  ASSUME NEW s \in Seq(Conns), NEW c \in Conns, ~InSeq(c, s),
         \A i, j \in DOMAIN s : i # j => s[i] # s[j]
  PROVE  /\ Append(s, c) \in Seq(Conns)
         /\ \A i, j \in DOMAIN Append(s, c) : i # j => Append(s, c)[i] # Append(s, c)[j]
         /\ \A d : InSeq(d, Append(s, c)) <=> InSeq(d, s) \/ d = c
<1>1. Append(s, c) \in Seq(Conns) /\ DOMAIN Append(s, c) = 1..(Len(s) + 1)
  OBVIOUS
<1>2. \A i \in 1..(Len(s) + 1) : Append(s, c)[i] = IF i = Len(s) + 1 THEN c ELSE s[i]
  OBVIOUS
<1>3. ASSUME NEW d
      PROVE  InSeq(d, Append(s, c)) <=> InSeq(d, s) \/ d = c
  <2>1. InSeq(d, s) => InSeq(d, Append(s, c))
    BY <1>1, <1>2 DEF InSeq
  <2>2. InSeq(c, Append(s, c))
    BY <1>1, <1>2 DEF InSeq
  <2>3. InSeq(d, Append(s, c)) => InSeq(d, s) \/ d = c
    BY <1>1, <1>2 DEF InSeq
  <2> QED
    BY <2>1, <2>2, <2>3
<1> QED
  BY <1>1, <1>2, <1>3 DEF InSeq

LEMMA TailIn ==
  ASSUME NEW s \in Seq(Conns), s # <<>>
  PROVE  /\ Head(s) \in Conns /\ Tail(s) \in Seq(Conns)
         /\ \A d : InSeq(d, s) <=> d = Head(s) \/ InSeq(d, Tail(s))
<1>1. Head(s) = s[1] /\ 1 \in DOMAIN s /\ Tail(s) \in Seq(Conns) /\ Head(s) \in Conns
  OBVIOUS
<1>2. \A i \in DOMAIN Tail(s) : Tail(s)[i] = s[i + 1] /\ i + 1 \in DOMAIN s
  OBVIOUS
<1>3. \A i \in DOMAIN s : i # 1 => i - 1 \in DOMAIN Tail(s) /\ Tail(s)[i - 1] = s[i]
  OBVIOUS
<1>4. \A d : InSeq(d, Tail(s)) => InSeq(d, s)
  BY <1>2 DEF InSeq
<1>5. \A d : InSeq(d, s) => d = Head(s) \/ InSeq(d, Tail(s))
  BY <1>1, <1>3 DEF InSeq
<1> QED
  BY <1>1, <1>4, <1>5 DEF InSeq

-----------------------------------------------------------------------------
(* Every step keeps Library.                                               *)

LEMMA LibrarySame ==
  ASSUME Library, UNCHANGED serverVars
  PROVE  Library'
BY DEF serverVars, Library, ServerTypes, ConnPhases, ClosePhases, NoneOpensBehindClose, ClosedMeansHandlersDone

LEMMA LibraryMain ==
  ASSUME Library, NEW g \in Servers, Main(g)
  PROVE  Library'
<1>1. RunLoop(g) \/ MainStopped(g) \/ MainCancels(g) \/ MainEnds(g) => UNCHANGED serverVars
  BY DEF RunLoop, MainStopped, MainCancels, MainEnds
<1>2. Bind(g) => UNCHANGED serverVars \/ Listen(g)
  BY DEF Bind
<1>3. MainLeaves(g) => Close(g)
  BY DEF MainLeaves
<1> QED
  BY <1>1, <1>2, <1>3, LibrarySame, LibraryListen, LibraryClose DEF Main

LEMMA LibraryHeartbeat ==
  ASSUME Library, Threads, NEW g \in Servers, Heartbeat(g)
  PROVE  Library'
<1>1. CASE HbWake(g)
  <2>1. TimedOut(g) \in SUBSET Conns /\ TimedOut(g) # {}
    BY <1>1 DEF HbWake, TimedOut
  <2>2. PICK t \in InOrder(sockets[g], TimedOut(g)) : conn' = Closing(Head(t))
    BY <1>1 DEF HbWake
  <2>3. Head(t) \in Conns
    BY <2>1, InOrderIs
  <2> QED
    BY <1>1, <2>2, <2>3, ClosingDoes, LibraryConn DEF HbWake, ConnOnly
<1>2. CASE HbClosed(g)
  <2>1. hbList[g] \in Seq(Conns) /\ hbList[g] # <<>>
    BY <1>2 DEF HbClosed, HbCloses, Threads, ThreadTypes
  <2>2. ConnOnly
    BY <1>2 DEF HbClosed, ConnOnly
  <2>3. CASE Tail(hbList[g]) # <<>>
    <3>1. Head(Tail(hbList[g])) \in Conns
      BY <2>1, <2>3, TailIn
    <3>2. conn' = Closing(Head(Tail(hbList[g])))
      BY <1>2, <2>3 DEF HbClosed
    <3> QED
      BY <2>2, <3>1, <3>2, ClosingDoes, LibraryConn
  <2>4. CASE Tail(hbList[g]) = <<>>
    <3>1. conn' = conn
      BY <1>2, <2>4 DEF HbClosed
    <3> QED
      BY <2>2, <3>1, LibrarySame DEF ConnOnly, serverVars
  <2> QED
    BY <2>3, <2>4
<1>3. CASE HbCancelled(g) \/ HbSwallowed(g)
  BY <1>3, LibrarySame DEF HbCancelled, HbSwallowed
<1> QED
  BY <1>1, <1>2, <1>3 DEF Heartbeat

LEMMA LibraryHandle ==
  ASSUME Library, Tables, NEW c \in Conns, HandleStart(c) \/ Handle(c)
  PROVE  Library'
<1>1. HandleStart(c) => Library'
  BY LibraryOpen DEF HandleStart
<1>2. ASSUME OldClosing(c)
      PROVE  Library'
  <2>1. olds[c] \in Seq(Conns) /\ olds[c] # <<>>
    BY <1>2 DEF OldClosing, Tables, TableTypes, HandlersRun
  <2>2. Head(olds[c]) \in Conns
    BY <2>1
  <2> QED
    BY <1>2, <2>2, ClosingDoes, LibraryConn DEF OldClosing, ConnOnly
<1>3. OldClosed(c) \/ Receive(c) \/ Replied(c) \/ Acked(c) \/ Saved(c) \/ Told(c) => UNCHANGED serverVars
  BY DEF OldClosed, Receive, Replied, Acked, Saved, Told
<1>4. HandleEnds(c) => HandlerReturn(c)
  BY DEF HandleEnds
<1>5. HandleCancelled(c) => HandlerCancelled(c)
  BY DEF HandleCancelled
<1>6. HandleSwallows(c) => CancelSwallowed(c)
  BY DEF HandleSwallows
<1> QED
  BY <1>1, <1>2, <1>3, <1>4, <1>5, <1>6, LibrarySame, LibraryReturn, LibraryCancelled, LibrarySwallowed DEF Handle

LEMMA LibraryNext ==
  ASSUME Library, Threads, Tables, Next
  PROVE  Library'
<1>1. TaskStart \/ TaskStop \/ JoinReturns \/ Import => UNCHANGED serverVars
  BY DEF TaskStart, TaskStop, JoinReturns, Import, ImportMissing, ImportStart, ImportEnd, Notified, ImportOnly
<1>2. \A c \in Conns : Age(c) \/ (\E m \in Messages : PeerSend(c, m)) => UNCHANGED serverVars
  BY DEF Age, PeerSend
<1>3. \A c \in Conns : Lost(c) => Library'
  BY LibraryLost DEF Lost
<1>4. \A g \in Servers, c \in Conns : Arrive(c, g) => Library'
  BY LibraryAccept DEF Arrive
<1> QED
  BY <1>1, <1>2, <1>3, <1>4, LibrarySame, LibraryMain, LibraryHeartbeat, LibraryShutdown, LibraryConnection,
     LibraryHandle DEF Next

-----------------------------------------------------------------------------
(* Every step keeps Threads.                                               *)

LEMMA ThreadsInit == BridgeInit => Threads
<1> SUFFICES ASSUME BridgeInit PROVE Threads
  OBVIOUS
<1>1. Started = {} /\ 0 \in 0..Cardinality(Servers) /\ 1..0 = {}
  BY ServersAre DEF BridgeInit, Started
<1>2. \E k \in 0..Cardinality(Servers) : Started = 1..k
  BY <1>1
<1> QED
  BY <1>2, ServersAre DEF BridgeInit, Threads, ThreadTypes, Active, Stopped

LEMMA ThreadsSame ==
  ASSUME Threads, UNCHANGED <<threadVars, hbVars>>
  PROVE  Threads'
BY DEF threadVars, hbVars, Threads, ThreadTypes, Started, Active, Stopped

LEMMA ThreadsStart ==
  ASSUME Threads, TaskStart
  PROVE  Threads'
<1> DEFINE n == Cardinality(Started) + 1
<1>1. PICK k \in 0..Cardinality(Servers) : Started = 1..k
  BY DEF Threads
<1>2. k \in Int /\ Cardinality(1..k) = k
  BY <1>1, ServersAre, FS_Interval
<1>3. n = k + 1 /\ n \in Servers /\ k < Cardinality(Servers)
  BY <1>1, <1>2, ServersAre DEF TaskStart
<1>4. tm' = n /\ mpc' = [mpc EXCEPT ![n] = "thread"] /\ UNCHANGED <<main, joined, abandoned, stop, hbVars>>
  BY DEF TaskStart
<1> HIDE DEF n
<1>5. ThreadTypes'
  BY <1>3, <1>4 DEF Threads, ThreadTypes, hbVars
<1>6. Started' = 1..(k + 1)
  <2>1. Started' = Started \cup {n}
    BY <1>3, <1>4 DEF Started, Threads, ThreadTypes
  <2> QED
    BY <1>1, <1>3, <2>1
<1>7. \E j \in 0..Cardinality(Servers) : Started' = 1..j
  BY <1>3, <1>6, ServersAre
<1>8. main = "idle" /\ tm = 0
  BY DEF TaskStart
<1>9. abandoned = {} => \A g \in Servers : Active(g)' => g = n
  BY <1>3, <1>4, <1>8, ServersAre DEF Threads, ThreadTypes, Active
<1>10. tm' # 0 => mpc'[tm'] # "off"
  BY <1>3, <1>4 DEF Threads, ThreadTypes
<1>11. \A g \in Servers : mpc'[g] \in {"off", "thread", "loop"} => mpc[g] \in {"off", "thread", "loop"} \/ g = n
  BY <1>3, <1>4 DEF Threads, ThreadTypes
<1>12. mpc[n] = "off"
  BY <1>1, <1>3 DEF Started
<1>13. \A g \in Servers : mpc'[g] \in {"off", "thread", "loop"} => hb'[g] = "off"
  BY <1>4, <1>11, <1>12 DEF Threads, hbVars
<1>14. Stopped'
  BY <1>3, <1>4, <1>12 DEF Threads, ThreadTypes, Stopped, hbVars
<1> QED
  BY <1>3, <1>4, <1>5, <1>7, <1>8, <1>9, <1>10, <1>13, <1>14 DEF Threads

LEMMA ThreadsStop ==
  ASSUME Threads, TaskStop \/ JoinReturns
  PROVE  Threads'
<1>1. ThreadTypes' /\ UNCHANGED mpc
  BY ServersAre DEF TaskStop, JoinReturns, Threads, ThreadTypes, hbVars
<1>2. \E k \in 0..Cardinality(Servers) : Started' = 1..k
  BY <1>1 DEF Threads, Started
<1>3. hb' = hb
  BY DEF TaskStop, JoinReturns, hbVars
<1>6. Stopped'
  BY <1>1, <1>3 DEF TaskStop, JoinReturns, Threads, ThreadTypes, Stopped
<1>4. CASE TaskStop
  <2>1. tm' = 0 /\ joined' = tm /\ tm # 0 /\ abandoned' = abandoned /\ main = "idle"
        /\ main' = (IF mpc[tm] = "ended" THEN "idle" ELSE "join")
    BY <1>4 DEF TaskStop
  <2>2. abandoned = {} => \A g \in Servers : Active(g)' => g = tm /\ main' = "join"
    BY <1>1, <2>1 DEF Threads, Active
  <2> QED
    BY <1>1, <1>2, <1>3, <1>6, <2>1, <2>2 DEF Threads
<1>5. CASE JoinReturns
  <2>1. tm' = tm /\ main' = "idle" /\ main = "join" /\ joined' = joined
        /\ abandoned' = (IF mpc[joined] = "ended" THEN abandoned ELSE abandoned \cup {joined})
    BY <1>5 DEF JoinReturns
  <2>2. abandoned' = {} => abandoned = {} /\ mpc[joined] = "ended"
    BY <2>1
  <2>3. abandoned' = {} => \A g \in Servers : ~Active(g)'
    BY <1>1, <2>1, <2>2, ServersAre DEF Threads, Active
  <2> QED
    BY <1>1, <1>2, <1>3, <1>6, <2>1, <2>3 DEF Threads
<1> QED
  BY <1>4, <1>5

LEMMA ThreadsImport ==
  ASSUME Threads, Import
  PROVE  Threads'
<1>1. UNCHANGED <<tm, joined, abandoned, mpc, stop, hb, hbList>>
  BY DEF Import, ImportMissing, ImportStart, ImportEnd, Notified, ImportOnly, hbVars
<1>2. main' = main \/ (main # "join" /\ main' \in {"idle", "import"})
  BY DEF Import, ImportMissing, ImportStart, ImportEnd, Notified
<1> QED
  BY <1>1, <1>2 DEF Threads, ThreadTypes, Started, Active, Stopped

\* A server that moves on was active and has no other number.
LEMMA ThreadsMain ==
  ASSUME Threads, NEW g \in Servers, Main(g)
  PROVE  Threads'
<1>1. PICK from, to : MainGo(g, from, to) /\ from \notin {"off", "ended"}
        /\ to \in {"thread", "loop", "wait", "heartbeat", "cancel", "exit", "ended"}
  BY DEF Main, RunLoop, Bind, MainStopped, MainCancels, MainLeaves, MainEnds
<1>2. UNCHANGED <<tm, main, joined, abandoned, stop, hbList>>
  BY DEF Main, RunLoop, Bind, MainStopped, MainCancels, MainLeaves, MainEnds, MainOnly, hbVars
<1>3. hb' = hb \/ (mpc[g] = "loop" /\ hb' = [hb EXCEPT ![g] = "sleep"])
  BY DEF Main, RunLoop, Bind, MainStopped, MainCancels, MainLeaves, MainEnds, MainGo, hbVars
<1>4. mpc[g] \notin {"off", "ended"} /\ mpc' = [mpc EXCEPT ![g] = to]
  BY <1>1 DEF MainGo
<1>5. Started' = Started
  BY <1>1, <1>4 DEF Started, Threads, ThreadTypes
<1>6. \A h \in Servers : Active(h)' => Active(h)
  BY <1>1, <1>4 DEF Active, Threads, ThreadTypes
<1>7. tm' # 0 => mpc'[tm'] # "off"
  BY <1>1, <1>2, <1>4 DEF Threads, ThreadTypes
<1>8. mpc'[g] = "wait" \/ hb' = hb
  BY DEF Main, RunLoop, Bind, MainStopped, MainCancels, MainLeaves, MainEnds, MainGo, hbVars, Threads, ThreadTypes
<1>9. mpc'[g] = "loop" => mpc[g] = "thread"
  BY DEF Main, RunLoop, Bind, MainStopped, MainCancels, MainLeaves, MainEnds, MainGo, Threads, ThreadTypes
<1>10. mpc'[g] # "thread" /\ mpc'[g] # "off"
  BY DEF Main, RunLoop, Bind, MainStopped, MainCancels, MainLeaves, MainEnds, MainGo, Threads, ThreadTypes
<1>11. \A h \in Servers : mpc'[h] \in {"off", "thread", "loop"} => hb'[h] = "off"
  BY <1>1, <1>3, <1>4, <1>8, <1>9, <1>10 DEF Threads, ThreadTypes
<1>12. mpc[g] # "heartbeat" \/ hb[g] = "done"
  BY DEF Main, RunLoop, Bind, MainStopped, MainCancels, MainLeaves, MainEnds, MainGo
<1>13. mpc'[g] = "heartbeat" => stop[g]
  BY DEF Main, RunLoop, Bind, MainStopped, MainCancels, MainLeaves, MainEnds, MainGo, Threads, ThreadTypes
<1>14. Stopped'
  BY <1>2, <1>3, <1>4, <1>12, <1>13 DEF Threads, ThreadTypes, Stopped
<1> QED
  BY <1>1, <1>2, <1>3, <1>4, <1>5, <1>6, <1>7, <1>11, <1>14 DEF Threads, ThreadTypes


LEMMA ThreadsHeartbeat ==
  ASSUME Threads, NEW g \in Servers, Heartbeat(g)
  PROVE  Threads'
<1>1. UNCHANGED threadVars /\ hb[g] # "off"
  BY DEF Heartbeat, HbWake, HbClosed, HbCloses, HbCancelled, HbSwallowed, HbOnly
<1>2. hb' \in [Servers -> {"off", "sleep", "close", "finish", "done"}] /\ \A h \in Servers \ {g} : hb'[h] = hb[h]
  BY DEF Heartbeat, HbWake, HbClosed, HbCancelled, HbSwallowed, Threads, ThreadTypes
<1>3. Stopped'
  BY <1>1 DEF Heartbeat, HbWake, HbClosed, HbCloses, HbCancelled, HbSwallowed, threadVars, Threads, ThreadTypes, Stopped
<1>4. \A h \in Servers : mpc'[h] \in {"off", "thread", "loop"} => hb'[h] = "off"
  BY <1>1, <1>2 DEF threadVars, Threads
<1> SUFFICES hbList' \in [Servers -> Seq(Conns)] /\ \A h \in Servers : hbList'[h] # <<>> <=> hb'[h] \in {"close", "finish"}
  <2>1. ThreadTypes'
    BY <1>1, <1>2 DEF threadVars, Threads, ThreadTypes
  <2>2. UNCHANGED <<tm, main, joined, abandoned, mpc>>
    BY <1>1 DEF threadVars
  <2> QED
    BY <1>3, <1>4, <2>1, <2>2 DEF Threads, Started, Active
<1>5. CASE HbWake(g)
  <2>1. TimedOut(g) \in SUBSET Conns /\ TimedOut(g) # {}
    BY <1>5 DEF HbWake, TimedOut
  <2>2. PICK t \in InOrder(sockets[g], TimedOut(g)) : hbList' = [hbList EXCEPT ![g] = t]
    BY <1>5 DEF HbWake
  <2>3. t \in Seq(Conns) /\ t # <<>>
    BY <2>1, InOrderIs
  <2>4. hb' = [hb EXCEPT ![g] = "close"]
    BY <1>5 DEF HbWake
  <2>5. hbList' \in [Servers -> Seq(Conns)] /\ \A h \in Servers : hbList'[h] # <<>> <=> hb'[h] \in {"close", "finish"}
    BY <2>2, <2>3, <2>4 DEF Threads, ThreadTypes
  <2> QED
    BY <2>5
<1>6. CASE HbClosed(g)
  <2>1. hbList[g] \in Seq(Conns) /\ hbList[g] # <<>> /\ hb[g] \in {"close", "finish"}
    BY <1>6 DEF HbClosed, HbCloses, Threads, ThreadTypes
  <2>2. Tail(hbList[g]) \in Seq(Conns) /\ hbList' = [hbList EXCEPT ![g] = Tail(hbList[g])]
    BY <1>6, <2>1 DEF HbClosed
  <2>3. CASE Tail(hbList[g]) # <<>>
    <3>1. hb' = hb
      BY <1>6, <2>3 DEF HbClosed
    <3>2. hbList' \in [Servers -> Seq(Conns)] /\ \A h \in Servers : hbList'[h] # <<>> <=> hb'[h] \in {"close", "finish"}
      BY <2>1, <2>2, <2>3, <3>1 DEF Threads, ThreadTypes
    <3> QED
      BY <3>2
  <2>4. CASE Tail(hbList[g]) = <<>>
    <3>1. hb' = [hb EXCEPT ![g] = IF stop[g] THEN "done" ELSE "sleep"]
      BY <1>6, <2>4 DEF HbClosed
    <3>2. hbList' \in [Servers -> Seq(Conns)] /\ \A h \in Servers : hbList'[h] # <<>> <=> hb'[h] \in {"close", "finish"}
      BY <2>1, <2>2, <2>4, <3>1 DEF Threads, ThreadTypes
    <3> QED
      BY <3>2
  <2> QED
    BY <2>3, <2>4
<1>7. CASE HbCancelled(g)
  <2>1. hb' = [hb EXCEPT ![g] = "done"] /\ hbList' = [hbList EXCEPT ![g] = <<>>]
    BY <1>7 DEF HbCancelled
  <2>2. hbList' \in [Servers -> Seq(Conns)] /\ \A h \in Servers : hbList'[h] # <<>> <=> hb'[h] \in {"close", "finish"}
    BY <2>1 DEF Threads, ThreadTypes
  <2> QED
    BY <2>2
<1>8. CASE HbSwallowed(g)
  <2>1. hb[g] = "close" /\ hb' = [hb EXCEPT ![g] = "finish"] /\ hbList' = hbList
    BY <1>8 DEF HbSwallowed
  <2>2. \A h \in Servers : hbList'[h] # <<>> <=> hb'[h] \in {"close", "finish"}
    BY <2>1 DEF Threads, ThreadTypes
  <2> QED
    BY <2>1, <2>2 DEF Threads, ThreadTypes
<1> QED
  BY <1>5, <1>6, <1>7, <1>8 DEF Heartbeat

LEMMA ThreadsNext ==
  ASSUME Threads, Next
  PROVE  Threads'
<1>1. \A c \in Conns : Connection(c) \/ HandleStart(c) \/ Lost(c) \/ Age(c) \/ (\E m \in Messages : PeerSend(c, m))
                         => UNCHANGED <<threadVars, hbVars>>
  BY DEF Connection, HandleStart, Lost, Age, PeerSend, BridgeOnly, HandleOnly
<1>2. \A c \in Conns : Handle(c) => UNCHANGED <<threadVars, hbVars>>
  BY DEF Handle, OldClosing, OldClosed, Receive, Replied, Acked, Saved, Told, HandleEnds, HandleCancelled,
     HandleSwallows, HandleOnly
<1>3. \A g \in Servers : Shutdown(g) \/ (\E c \in Conns : Arrive(c, g)) => UNCHANGED <<threadVars, hbVars>>
  BY DEF Shutdown, Arrive, BridgeOnly
<1> QED
  BY <1>1, <1>2, <1>3, ThreadsSame, ThreadsStart, ThreadsStop, ThreadsImport, ThreadsMain, ThreadsHeartbeat DEF Next

-----------------------------------------------------------------------------
(* Every step keeps Phases.                                                *)

\* start() finds a server that no thread has run.
LEMMA StartsNew ==
  ASSUME Threads, TaskStart
  PROVE  \E n \in Servers : mpc[n] = "off" /\ mpc' = [mpc EXCEPT ![n] = "thread"]
<1>1. PICK k \in 0..Cardinality(Servers) : Started = 1..k
  BY DEF Threads
<1>2. k \in Int /\ Cardinality(1..k) = k
  BY <1>1, ServersAre, FS_Interval
<1>3. Cardinality(Started) + 1 = k + 1 /\ k + 1 \in Servers
  BY <1>1, <1>2, ServersAre DEF TaskStart
<1>4. mpc[k + 1] = "off"
  BY <1>1, <1>3 DEF Started
<1> QED
  BY <1>3, <1>4 DEF TaskStart

\* Nobody is on the loop of a server that does not run.
LEMMA OnALoop ==
  ASSUME Library, Phases, NEW c \in Conns, task[c] \notin {"none", "done"}
  PROVE  owner[c] \in Servers /\ mpc[owner[c]] \notin {"off", "thread", "loop", "ended"}
<1>1. owner[c] \in Servers
  BY DEF Library, ServerTypes, ConnPhases
<1> QED
  BY <1>1 DEF Phases

LEMMA PhasesInit == BridgeInit => Phases
BY ServersAre DEF BridgeInit, ServerInit, Phases, NoSession

\* Steps that move no server: a task that is done stays done.
LEMMA PhasesQuiet ==
  ASSUME Phases, UNCHANGED <<mpc, serving, owner, closePc>>, cancelled' \subseteq cancelled,
         \A c \in Conns : task[c] = "done" => task'[c] = "done",
         \A g \in Servers : sessions'[g] # NoSession => sessions[g] # NoSession \/ mpc[g] \notin {"off", "thread", "loop"}
  PROVE  Phases'
BY DEF Phases

\* Steps that move one server: only its own conditions are new.
LEMMA PhasesMove ==
  ASSUME Phases, Threads, NEW g \in Servers, NEW to, mpc' = [mpc EXCEPT ![g] = to],
         UNCHANGED <<owner, task, sessions>>,
         \A h \in Servers \ {g} : serving'[h] = serving[h] /\ closePc'[h] = closePc[h],
         to \in {"off", "thread", "loop"} => mpc[g] \in {"off", "thread", "loop"} /\ serving'[g] = "no",
         to \notin {"exit", "ended"} => closePc'[g] = "none",
         to = "ended" => serving'[g] # "yes" /\ \A c \in Conns : owner[c] = g => task[c] = "done",
         \A c \in cancelled' : c \in cancelled \/ owner[c] = g,
         mpc[g] \in {"cancel", "exit", "ended"} \/ cancelled' # cancelled => to \in {"cancel", "exit", "ended"}
  PROVE  Phases'
<1>1. mpc'[g] = to /\ \A h \in Servers \ {g} : mpc'[h] = mpc[h]
  BY DEF Threads, ThreadTypes
<1>2. ASSUME NEW h \in Servers
      PROVE  /\ mpc'[h] \in {"off", "thread", "loop"} =>
                  /\ serving'[h] = "no" /\ \A c \in Conns : owner'[c] # h
                  /\ sessions'[h] = NoSession
             /\ mpc'[h] \notin {"exit", "ended"} => closePc'[h] = "none"
             /\ mpc'[h] = "ended" => serving'[h] # "yes" /\ \A c \in Conns : owner'[c] = h => task'[c] = "done"
  <2>1. CASE h = g
    BY <1>1, <2>1 DEF Phases
  <2>2. CASE h # g
    BY <1>1, <2>2 DEF Phases
  <2> QED
    BY <2>1, <2>2
<1>3. ASSUME NEW c \in cancelled'
      PROVE  owner'[c] \in Servers /\ mpc'[owner'[c]] \in {"cancel", "exit", "ended"}
  <2>1. CASE c \notin cancelled
    BY <1>1, <1>3, <2>1
  <2>2. CASE c \in cancelled
    BY <1>1, <2>2 DEF Phases
  <2> QED
    BY <2>1, <2>2
<1> QED
  BY <1>2, <1>3 DEF Phases

LEMMA PhasesStart ==
  ASSUME Phases, Threads, TaskStart
  PROVE  Phases'
<1>1. PICK n \in Servers : mpc[n] = "off" /\ mpc' = [mpc EXCEPT ![n] = "thread"]
  BY StartsNew
<1>2. UNCHANGED <<serving, owner, sessions, closePc, task, cancelled>>
  BY DEF TaskStart, serverVars, fileVars, appVars
<1> QED
  BY <1>1, <1>2, PhasesMove DEF Phases

LEMMA PhasesMain ==
  ASSUME Library, Phases, Threads, NEW g \in Servers, Main(g)
  PROVE  Phases'
<1>1. UNCHANGED <<owner, sessions, task>>
  BY DEF Main, RunLoop, Bind, MainStopped, MainCancels, MainLeaves, MainEnds, serverVars, fileVars, Listen, Close, CloseOnly
<1>2. CASE RunLoop(g)
  BY <1>1, <1>2, PhasesMove DEF RunLoop, MainGo, serverVars, appVars, Phases
<1>3. CASE MainStopped(g)
  BY <1>1, <1>3, PhasesMove DEF MainStopped, MainGo, serverVars, appVars, Phases
<1>4. CASE Bind(g)
  <2>1. UNCHANGED <<closePc, cancelled>> /\ mpc[g] = "loop"
    BY <1>4 DEF Bind, MainGo, serverVars, appVars, Listen
  <2>2. CASE mpc' = [mpc EXCEPT ![g] = "wait"] /\ serving' = [serving EXCEPT ![g] = "yes"]
    <3>1. \A h \in Servers \ {g} : serving'[h] = serving[h]
      BY <2>2 DEF Library, ServerTypes
    <3>2. closePc'[g] = "none"
      BY <2>1 DEF Phases
    <3> QED
      BY <1>1, <2>1, <2>2, <3>1, <3>2, PhasesMove
  <2>3. CASE mpc' = [mpc EXCEPT ![g] = "ended"] /\ serving' = serving
    <3>1. serving[g] = "no" /\ \A c \in Conns : owner[c] # g
      BY <2>1 DEF Phases
    <3> QED
      BY <1>1, <2>1, <2>3, <3>1, PhasesMove
  <2> QED
    BY <1>4, <2>2, <2>3 DEF Bind, MainGo, serverVars, Listen
<1>5. CASE MainCancels(g)
  <2>1. UNCHANGED <<serving, closePc>> /\ mpc[g] = "heartbeat" /\ mpc' = [mpc EXCEPT ![g] = "cancel"]
    BY <1>5 DEF MainCancels, MainGo, serverVars
  <2>2. \A c \in cancelled' : c \in cancelled \/ owner[c] = g
    BY <1>5 DEF MainCancels, Library, ConnPhases, ServerTypes
  <2> QED
    BY <1>1, <2>1, <2>2, PhasesMove DEF Phases
<1>6. CASE MainLeaves(g)
  <2>1. UNCHANGED <<serving, cancelled>> /\ mpc[g] = "cancel" /\ mpc' = [mpc EXCEPT ![g] = "exit"]
    BY <1>6 DEF MainLeaves, MainGo, Close, appVars
  <2>2. \A h \in Servers \ {g} : closePc'[h] = closePc[h]
    BY <1>6 DEF MainLeaves, Close, SetClose, Library, ServerTypes
  <2> QED
    BY <1>1, <2>1, <2>2, PhasesMove
<1>7. CASE MainEnds(g)
  <2>1. UNCHANGED <<serving, closePc, cancelled>> /\ mpc[g] = "exit" /\ mpc' = [mpc EXCEPT ![g] = "ended"]
    BY <1>7 DEF MainEnds, MainGo, serverVars, appVars
  <2>2. serving[g] = "closed" /\ \A c \in Conns : owner[c] = g => task[c] = "done"
    BY <1>7 DEF MainEnds, Library, ClosePhases, ClosedMeansHandlersDone
  <2> QED
    BY <1>1, <2>1, <2>2, PhasesMove
<1> QED
  BY <1>2, <1>3, <1>4, <1>5, <1>6, <1>7 DEF Main

LEMMA PhasesArrive ==
  ASSUME Library, Phases, NEW g \in Servers, NEW c \in Conns, Arrive(c, g)
  PROVE  Phases'
<1>1. UNCHANGED <<serving, closePc, mpc, sessions, cancelled>>
  BY DEF Arrive, Accept, BridgeOnly, threadVars, fileVars, appVars
<1>2. mpc[g] \notin {"off", "thread", "loop", "ended"} /\ owner[c] = 0
  BY DEF Arrive, Accept, IsServing, Phases, Library, ConnPhases
<1>3. owner' = [owner EXCEPT ![c] = g] /\ task' = [task EXCEPT ![c] = "accepted"]
  BY DEF Arrive, Accept, SetTask
<1>4. c \notin cancelled
  BY <1>2, ServersAre DEF Phases
<1> QED
  BY <1>1, <1>2, <1>3, <1>4 DEF Phases, Library, ServerTypes

\* close() runs only once _main has left its async with block.
LEMMA PhasesShutdown ==
  ASSUME Library, Phases, NEW g \in Servers, Shutdown(g)
  PROVE  Phases'
<1>1. UNCHANGED <<owner, task, mpc, sessions, cancelled>>
  BY DEF Shutdown, ServerClose, CloseConnections, CloseTasksDone, ConnectionsClosed, AwaitHandlers, HandlersDone,
     CloseOne, CloseOnly, BridgeOnly,
     threadVars, fileVars, appVars
<1>2. closePc[g] # "none" /\ \A h \in Servers \ {g} : closePc'[h] = closePc[h]
  BY DEF Shutdown, ServerClose, CloseConnections, CloseTasksDone, ConnectionsClosed, AwaitHandlers, HandlersDone,
     CloseOne, SetClose, Library, ServerTypes
<1>3. \A h \in Servers : serving'[h] = serving[h] \/ (h = g /\ serving'[h] = "closed")
  BY DEF Shutdown, ServerClose, CloseConnections, CloseTasksDone, ConnectionsClosed, AwaitHandlers, HandlersDone,
     CloseOne, SetClose, Library, ServerTypes
<1> QED
  BY <1>1, <1>2, <1>3 DEF Phases


\* A handler that is running is on the loop of a server that runs.
LEMMA HandlerOnLoop ==
  ASSUME Library, Phases, Tables, NEW c \in Conns, hpc[c] # "off"
  PROVE  task[c] = "ws" /\ owner[c] \in Servers /\ mpc[owner[c]] \notin {"off", "thread", "loop", "ended"}
<1>1. task[c] = "ws"
  BY DEF Tables, HandlersRun
<1> QED
  BY <1>1, OnALoop

\* The file's session changes in two steps of a running handler only.
LEMMA SessionsHandled ==
  ASSUME Library, Phases, Tables, FileTypes, NEW c \in Conns, Receive(c) \/ Told(c), NEW g \in Servers, g # owner[c]
  PROVE  sessions'[g] = sessions[g]
<1>1. hpc[c] # "off" /\ owner[c] \in Servers
  BY HandlerOnLoop DEF Receive, Told
<1>2. CASE Told(c)
  BY <1>1, <1>2 DEF Told, FileTypes
<1>3. CASE Receive(c)
  <2>1. CASE UNCHANGED fileVars
    BY <2>1 DEF fileVars
  <2>2. CASE ~UNCHANGED fileVars
    <3>1. AddChunk(owner[c], c, Head(inbox[c]).i)
      BY <1>3, <2>2 DEF Receive
    <3> QED
      BY <1>1, <3>1 DEF AddChunk, FileTypes
  <2> QED
    BY <2>1, <2>2
<1> QED
  BY <1>2, <1>3

LEMMA PhasesHandle ==
  ASSUME Library, Phases, Tables, FileTypes, NEW c \in Conns, HandleStart(c) \/ Handle(c)
  PROVE  Phases'
<1>1. UNCHANGED <<mpc, serving, owner, closePc>> /\ cancelled' \subseteq cancelled
  BY DEF Handle, HandleStart, OldClosing, OldClosed, Receive, Replied, Acked, Saved, Told, HandleEnds, HandleCancelled,
     HandleSwallows, CancelSwallowed, HandleOnly, threadVars, serverVars, HandshakeOpen, HandlerReturn, HandlerCancelled
<1>2. task' = task \/ (task[c] # "done" /\ \E pc \in {"ws", "close", "done"} : task' = [task EXCEPT ![c] = pc])
  BY DEF Handle, HandleStart, OldClosing, OldClosed, Receive, Replied, Acked, Saved, Told, HandleEnds, HandleCancelled,
     HandleSwallows, CancelSwallowed, serverVars, HandshakeOpen, HandlerReturn, HandlerCancelled, Finish, SetTask
<1>3. \A d \in Conns : task[d] = "done" => task'[d] = "done"
  BY <1>2 DEF Library, ServerTypes
<1>4. CASE Receive(c) \/ Told(c)
  <2>1. mpc[owner[c]] \notin {"off", "thread", "loop"}
    BY <1>4, HandlerOnLoop DEF Receive, Told
  <2> QED
    BY <1>1, <1>3, <1>4, <2>1, SessionsHandled, PhasesQuiet
<1>5. CASE ~(Receive(c) \/ Told(c))
  <2>1. sessions' = sessions
    BY <1>5 DEF Handle, HandleStart, OldClosing, OldClosed, Replied, Acked, Saved, HandleEnds, HandleCancelled,
       HandleSwallows, HandleOnly, fileVars
  <2> QED
    BY <1>1, <1>3, <2>1, PhasesQuiet
<1> QED
  BY <1>4, <1>5

LEMMA PhasesNext ==
  ASSUME Library, Phases, Threads, Tables, FileTypes, Next
  PROVE  Phases'
<1>1. ASSUME TaskStop \/ JoinReturns \/ Import
      PROVE  Phases'
  <2>1. UNCHANGED <<mpc, serving, owner, closePc, cancelled, task, sessions>>
    BY <1>1 DEF TaskStop, JoinReturns, Import, ImportMissing, ImportStart, ImportEnd, Notified, ImportOnly, serverVars,
       appVars, fileVars
  <2> QED
    BY <2>1, PhasesQuiet
<1>2. ASSUME NEW g \in Servers, Heartbeat(g)
      PROVE  Phases'
  <2>1. UNCHANGED <<mpc, serving, owner, closePc, cancelled, task, sessions>>
    BY <1>2 DEF Heartbeat, HbWake, HbClosed, HbCancelled, HbSwallowed, HbOnly, serverVars, threadVars, appVars, fileVars
  <2> QED
    BY <2>1, PhasesQuiet
<1>3. ASSUME NEW c \in Conns, Lost(c) \/ Age(c) \/ \E m \in Messages : PeerSend(c, m)
      PROVE  Phases'
  <2>1. UNCHANGED <<mpc, serving, owner, closePc, cancelled, task, sessions>>
    BY <1>3 DEF Lost, ConnectionLost, Age, PeerSend, BridgeOnly, serverVars, threadVars, appVars, fileVars
  <2> QED
    BY <2>1, PhasesQuiet
<1>4. ASSUME NEW c \in Conns, Connection(c)
      PROVE  Phases'
  <2>1. UNCHANGED <<mpc, serving, owner, closePc, cancelled, sessions>>
    BY <1>4 DEF Connection, ConnectionMade, ReadRequest, HandshakeDropped, HandshakeRefused, HandshakeTimeout, RejectDone,
       CloseDone, Drop, Reject, BridgeOnly, threadVars, appVars, fileVars
  <2>2. task[c] # "done" /\ \E pc : task' = [task EXCEPT ![c] = pc]
    BY <1>4 DEF Connection, ConnectionMade, ReadRequest, HandshakeDropped, HandshakeRefused, HandshakeTimeout, RejectDone,
       CloseDone, Drop, Reject, Finish, SetTask
  <2>3. \A d \in Conns : task[d] = "done" => task'[d] = "done"
    BY <2>2 DEF Library, ServerTypes
  <2> QED
    BY <2>1, <2>3, PhasesQuiet
<1> QED
  BY <1>1, <1>2, <1>3, <1>4, PhasesStart, PhasesMain, PhasesArrive, PhasesShutdown, PhasesHandle DEF Next


-----------------------------------------------------------------------------
(* Every step keeps Tables.                                                *)

LEMMA EmptySeq ==
  ASSUME NEW s \in Seq(Conns)
  PROVE  s = <<>> <=> \A d \in Conns : ~InSeq(d, s)
<1>1. s # <<>> => s[1] \in Conns /\ 1 \in DOMAIN s
  OBVIOUS
<1>2. s = <<>> => DOMAIN s = {}
  OBVIOUS
<1> QED
  BY <1>1, <1>2 DEF InSeq

LEMMA InSeqConns ==
  ASSUME NEW s \in Seq(Conns), NEW d, InSeq(d, s)
  PROVE  d \in Conns
BY DEF InSeq

\* HeartbeatSeesAll, client by client, before and after a step.
LEMMA SeesNow ==
  ASSUME TableTypes
  PROVE  HeartbeatSeesAll <=> \A g \in Servers, c \in Conns : InSeq(c, sockets[g]) => lastPing[g][c] # "none"
<1>1. \A g \in Servers : \A i \in DOMAIN sockets[g] : sockets[g][i] \in Conns
  BY DEF TableTypes
<1> QED
  BY <1>1 DEF HeartbeatSeesAll, InSeq

LEMMA SeesNext ==
  ASSUME TableTypes'
  PROVE  HeartbeatSeesAll' <=> \A g \in Servers, c \in Conns : InSeq(c, sockets'[g]) => lastPing'[g][c] # "none"
<1>1. \A g \in Servers : \A i \in DOMAIN sockets'[g] : sockets'[g][i] \in Conns
  BY DEF TableTypes
<1> QED
  BY <1>1 DEF HeartbeatSeesAll, InSeq

LEMMA TablesInit == BridgeInit => Tables
<1> SUFFICES ASSUME BridgeInit PROVE Tables
  OBVIOUS
<1>1. TableTypes
  BY DEF BridgeInit, TableTypes
<1>2. OncePerTable /\ HeartbeatSeesAll
  BY DEF BridgeInit, OncePerTable, HeartbeatSeesAll
<1>3. HandlersRun /\ NobodyForgotten
  BY DEF BridgeInit, ServerInit, HandlersRun, NobodyForgotten, Live
<1>4. EntriesLive /\ OldsGone
  BY DEF BridgeInit, EntriesLive, OldsGone, InSeq
<1>5. StatusFollowsClients
  BY DEF BridgeInit, StatusFollowsClients, Running
<1> QED
  BY <1>1, <1>2, <1>3, <1>4, <1>5 DEF Tables

\* Steps that leave the tables and the handlers alone: connections only go
\* down, and no server begins to run.
LEMMA TablesQuiet ==
  ASSUME Tables, Library, UNCHANGED <<regVars, hpc, olds>>, cancelled' \subseteq Conns, inbox' \in [Conns -> Seq(Messages)],
         \A c \in Conns : /\ owner'[c] = owner[c] \/ task[c] = "none"
                          /\ task'[c] = "ws" <=> task[c] = "ws"
                          /\ task[c] \in {"close", "done"} => task'[c] \in {"close", "done"}
                          /\ conn'[c] = "OPEN" => conn[c] = "OPEN",
         \A g \in Servers : (Running(g)' => Running(g)) /\ (stop[g] => stop'[g]),
         abandoned' = {} => abandoned = {}
  PROVE  Tables'
<1>1. TableTypes' /\ OncePerTable' /\ HeartbeatSeesAll' /\ HandlersRun'
  BY DEF Tables, TableTypes, OncePerTable, HeartbeatSeesAll, HandlersRun, regVars
<1>2. \A c \in Conns : Live(c) => owner'[c] = owner[c] /\ owner[c] \in Servers
  BY DEF Live, Tables, HandlersRun, Library, ServerTypes, ConnPhases
<1>3. EntriesLive' /\ OldsGone'
  <2>1. EntriesLive'
    BY <1>2 DEF Tables, EntriesLive, regVars, Enrolled, Live
  <2>2. \A c, d \in Conns : InSeq(d, olds[c]) => Live(c) /\ owner'[d] = owner[d]
    BY EmptySeq DEF Tables, TableTypes, HandlersRun, OldsGone, Live
  <2>3. OldsGone'
    BY <1>2, <2>2 DEF Tables, OldsGone, regVars
  <2> QED
    BY <2>1, <2>3
<1>4. NobodyForgotten'
  BY <1>2 DEF Tables, NobodyForgotten, regVars, Live
<1>5. StatusFollowsClients'
  BY <1>2 DEF Tables, StatusFollowsClients, regVars, Live
<1> QED
  BY <1>1, <1>3, <1>4, <1>5 DEF Tables

\* While nobody was abandoned, no other server runs beside an active one.
LEMMA AloneRuns ==
  ASSUME Threads, abandoned = {}, NEW g \in Servers, Active(g), NEW h \in Servers, Running(h)
  PROVE  h = g
BY ServersAre DEF Threads, Active, Running

\* A handler goes on with the registration it has.
LEMMA TablesHandler ==
  ASSUME Tables, NEW c \in Conns, Enrolled(c), NEW pc \in {"recv", "reply", "ack", "save", "told", "error"},
         hpc' = [hpc EXCEPT ![c] = pc], inbox' \in [Conns -> Seq(Messages)],
         lastPing' \in [Servers -> [Conns -> {"none", "recent", "old"}]], info' \in [Servers -> SUBSET Conns],
         UNCHANGED <<sockets, status, olds, cancelled, serverVars, mpc, stop, abandoned>>,
         \A g \in Servers, d \in Conns :
           /\ (lastPing'[g][d] # "none") = (lastPing[g][d] # "none") \/ (g = owner[c] /\ d = c /\ lastPing'[g][d] # "none")
           /\ (d \in info'[g]) = (d \in info[g]) \/ (g = owner[c] /\ d = c)
  PROVE  Tables'
<1>1. \A d \in Conns : (Enrolled(d)' <=> Enrolled(d)) /\ (Live(d)' <=> Live(d)) /\ (hpc'[d] = "replace" <=> hpc[d] = "replace")
  BY DEF Tables, TableTypes, Enrolled, Live
<1>2. TableTypes'
  BY DEF Tables, TableTypes
<1>3. OncePerTable' /\ HandlersRun'
  BY <1>1 DEF Tables, OncePerTable, HandlersRun, Live, serverVars
<1>4. EntriesLive' /\ OldsGone'
  BY <1>1 DEF Tables, EntriesLive, OldsGone, serverVars
<1>5. HeartbeatSeesAll'
  <2>1. \A g \in Servers, d \in Conns : InSeq(d, sockets[g]) => lastPing[g][d] # "none"
    BY SeesNow DEF Tables
  <2>2. \A g \in Servers, d \in Conns : InSeq(d, sockets'[g]) => lastPing'[g][d] # "none"
    BY <2>1
  <2> QED
    BY <1>2, <2>2, SeesNext
<1>6. NobodyForgotten'
  BY <1>1 DEF Tables, NobodyForgotten, Running, serverVars
<1>7. StatusFollowsClients'
  BY <1>1 DEF Tables, StatusFollowsClients, Running, serverVars
<1> QED
  BY <1>2, <1>3, <1>4, <1>5, <1>6, <1>7 DEF Tables


LEMMA TablesThreads ==
  ASSUME Tables, Library, Threads, TaskStart \/ TaskStop \/ JoinReturns \/ Import
  PROVE  Tables'
<1>1. UNCHANGED <<serverVars, regVars, appVars, inbox>>
  BY DEF TaskStart, TaskStop, JoinReturns, Import, ImportMissing, ImportStart, ImportEnd, Notified, ImportOnly, peerVars
<1>2. \A g \in Servers : Running(g)' => Running(g)
  <2>1. CASE TaskStart
    BY <2>1, StartsNew DEF Running, Threads, ThreadTypes
  <2>2. CASE ~TaskStart
    BY <2>2 DEF TaskStop, JoinReturns, Import, ImportMissing, ImportStart, ImportEnd, Notified, ImportOnly, Running
  <2> QED
    BY <2>1, <2>2
<1>3. \A g \in Servers : stop[g] => stop'[g]
  BY DEF TaskStart, TaskStop, JoinReturns, Import, ImportMissing, ImportStart, ImportEnd, Notified, ImportOnly, Threads,
     ThreadTypes
<1>4. abandoned' = {} => abandoned = {}
  BY DEF TaskStart, TaskStop, JoinReturns, Import, ImportMissing, ImportStart, ImportEnd, Notified, ImportOnly
<1>5. cancelled' \subseteq Conns /\ inbox' \in [Conns -> Seq(Messages)] /\ UNCHANGED <<hpc, olds>>
  BY <1>1 DEF Tables, TableTypes, appVars
<1> QED
  BY <1>1, <1>2, <1>3, <1>4, <1>5, TablesQuiet DEF serverVars

LEMMA TablesMainQuiet ==
  ASSUME Tables, Library, Threads, NEW g \in Servers,
         RunLoop(g) \/ MainStopped(g) \/ MainCancels(g) \/ MainLeaves(g)
  PROVE  Tables'
<1>1. UNCHANGED <<owner, task, conn, regVars, hpc, olds, inbox, stop, abandoned>>
  BY DEF RunLoop, MainStopped, MainCancels, MainLeaves, MainOnly, serverVars, appVars, peerVars, Close, CloseOnly
<1>2. \A h \in Servers : Running(h)' => Running(h)
  BY DEF RunLoop, MainStopped, MainCancels, MainLeaves, MainGo, Running, Threads, ThreadTypes
<1>3. cancelled' \subseteq Conns
  BY DEF RunLoop, MainStopped, MainCancels, MainLeaves, appVars, Tables, TableTypes, Library, ServerTypes
<1>4. inbox' \in [Conns -> Seq(Messages)]
  BY <1>1 DEF Tables, TableTypes
<1> QED
  BY <1>1, <1>2, <1>3, <1>4, TablesQuiet

\* The server that starts or ends is the only one that sets the status.
LEMMA TablesStatus ==
  ASSUME Tables, Library, Threads, Phases, NEW g \in Servers, Bind(g) \/ MainEnds(g)
  PROVE  Tables'
<1>1. UNCHANGED <<owner, task, conn, sockets, lastPing, info, hpc, olds, inbox, cancelled, stop, abandoned>>
  BY DEF Bind, MainEnds, MainOnly, serverVars, appVars, peerVars, Listen
<1>2. Active(g) /\ status' \in {"listening", "disconnected"}
  BY DEF Bind, MainEnds, MainGo, Active
<1>3. \A h \in Servers : Running(h)' => Running(h) \/ (h = g /\ mpc[g] = "loop")
  BY DEF Bind, MainEnds, MainGo, Running, Threads, ThreadTypes
<1>4. mpc[g] = "loop" => \A c \in Conns : owner[c] # g
  BY DEF Phases
<1>5. \A c \in Conns : Live(c) => owner[c] \in Servers
  BY DEF Live, Tables, HandlersRun, Library, ServerTypes, ConnPhases
<1>6. TableTypes' /\ OncePerTable' /\ HeartbeatSeesAll' /\ HandlersRun' /\ EntriesLive' /\ OldsGone'
  BY <1>1, <1>2 DEF Tables, TableTypes, OncePerTable, HeartbeatSeesAll, HandlersRun, EntriesLive, OldsGone, Enrolled
<1>7. NobodyForgotten'
  BY <1>1, <1>3, <1>4, <1>5 DEF Tables, NobodyForgotten, Live
<1>8. StatusFollowsClients'
  <2>1. ASSUME NEW h \in Servers, Running(h)', abandoned' = {}
        PROVE  sockets'[h] = <<>> /\ status' # "connected"
    <3>1. h = g
      BY <1>1, <1>2, <1>3, <2>1, AloneRuns
    <3>2. mpc[g] = "loop"
      BY <2>1, <3>1 DEF Bind, MainEnds, MainGo, Running, Threads, ThreadTypes
    <3>3. \A c \in Conns : ~InSeq(c, sockets[g])
      BY <1>4, <3>2 DEF Tables, EntriesLive
    <3> QED
      BY <1>1, <1>2, <3>1, <3>3, EmptySeq DEF Tables, TableTypes
  <2> QED
    BY <1>2, <2>1 DEF StatusFollowsClients
<1> QED
  BY <1>6, <1>7, <1>8 DEF Tables

LEMMA TablesLibrary ==
  ASSUME Tables, Library, NEW c \in Conns, NEW g \in Servers, NEW m \in Messages,
         Connection(c) \/ Lost(c) \/ Arrive(c, g) \/ Shutdown(g) \/ PeerSend(c, m)
  PROVE  Tables'
<1>1. UNCHANGED <<threadVars, regVars, appVars>>
  BY DEF Connection, Lost, Arrive, Shutdown, PeerSend, BridgeOnly
<1>2. inbox' \in [Conns -> Seq(Messages)]
  <2>1. inbox \in [Conns -> Seq(Messages)]
    BY DEF Tables, TableTypes
  <2>2. inbox' = inbox \/ inbox' = [inbox EXCEPT ![c] = Append(inbox[c], m)]
    BY DEF Connection, Lost, Arrive, Shutdown, PeerSend, BridgeOnly, peerVars
  <2>3. Append(inbox[c], m) \in Seq(Messages)
    BY <2>1
  <2> QED
    BY <2>1, <2>2, <2>3
<1>3. \A d \in Conns : owner'[d] = owner[d] \/ task[d] = "none"
  BY DEF Connection, ConnectionMade, ReadRequest, HandshakeDropped, HandshakeRefused, HandshakeTimeout, RejectDone,
     CloseDone, Drop, Reject, Lost, ConnectionLost, Arrive, Accept, Shutdown, ServerClose, CloseConnections, CloseOne,
     CloseTasksDone, ConnectionsClosed, AwaitHandlers, HandlersDone, CloseOnly, PeerSend, serverVars, Library, ServerTypes
<1>4. task' = task \/ \E from \in {"none", "accepted", "request", "process", "reject", "close"},
                         to \in {"accepted", "request", "process", "reject", "done"} :
                         task[c] = from /\ task' = [task EXCEPT ![c] = to] /\ (from = "close" => to = "done")
  BY DEF Connection, ConnectionMade, ReadRequest, HandshakeDropped, HandshakeRefused, HandshakeTimeout, RejectDone,
     CloseDone, Drop, Reject, Finish, SetTask, Lost, ConnectionLost, Arrive, Accept, Shutdown, ServerClose, CloseConnections,
     CloseOne, CloseTasksDone, ConnectionsClosed, AwaitHandlers, HandlersDone, CloseOnly, PeerSend, serverVars
<1>5. \A d \in Conns : /\ task'[d] = "ws" <=> task[d] = "ws"
                       /\ task[d] \in {"close", "done"} => task'[d] \in {"close", "done"}
  BY <1>4 DEF Library, ServerTypes
<1>6. conn' = conn \/ \E d \in Conns, s \in {"CONNECTING", "CLOSING", "CLOSED"} : conn' = [conn EXCEPT ![d] = s]
  BY DEF Connection, ConnectionMade, ReadRequest, HandshakeDropped, HandshakeRefused, HandshakeTimeout, RejectDone,
     CloseDone, Drop, Reject, SetConn, Dropping, Closing, Lost, ConnectionLost, Arrive, Accept, Shutdown, ServerClose,
     CloseConnections, CloseOne, CloseTasksDone, ConnectionsClosed, AwaitHandlers, HandlersDone, PeerSend, serverVars
<1>7. \A d \in Conns : conn'[d] = "OPEN" => conn[d] = "OPEN"
  BY <1>6 DEF Library, ServerTypes
<1> QED
  BY <1>1, <1>2, <1>3, <1>5, <1>7, TablesQuiet DEF threadVars, appVars, Running, Tables, TableTypes

\* close() of a client, called by the heartbeat or by the one that replaces it.
LEMMA TablesClosing ==
  ASSUME Tables, Library, Threads, NEW g \in Servers, NEW c \in Conns, HbWake(g) \/ OldClosing(c)
  PROVE  Tables'
<1>1. UNCHANGED <<threadVars, regVars, appVars, inbox, owner, task>>
  BY DEF HbWake, HbOnly, OldClosing, HandleOnly, appVars, peerVars
<1>2. \E d \in Conns : conn' = Closing(d)
  <2>1. CASE HbWake(g)
    <3>1. TimedOut(g) \in SUBSET Conns /\ TimedOut(g) # {}
      BY <2>1 DEF HbWake, TimedOut
    <3> QED
      BY <2>1, <3>1, InOrderIs DEF HbWake
  <2>2. CASE OldClosing(c)
    <3>1. olds[c] \in Seq(Conns) /\ olds[c] # <<>>
      BY <2>2 DEF OldClosing, Tables, TableTypes, HandlersRun
    <3> QED
      BY <2>2, <3>1, TailIn DEF OldClosing
  <2> QED
    BY <2>1, <2>2
<1>3. \A d \in Conns : conn'[d] = "OPEN" => conn[d] = "OPEN"
  BY <1>2 DEF Closing, Library, ServerTypes
<1> QED
  BY <1>1, <1>3, TablesQuiet DEF threadVars, appVars, Running, Tables, TableTypes


LEMMA TablesMessage ==
  ASSUME Tables, Library, Phases, NEW c \in Conns,
         Receive(c) \/ Replied(c) \/ Acked(c) \/ Saved(c) \/ Told(c)
  PROVE  Tables'
<1>1. Enrolled(c) /\ hpc[c] # "off"
  BY DEF Receive, Replied, Acked, Saved, Told, Enrolled
<1>2. owner[c] \in Servers
  BY <1>1, HandlerOnLoop
<1>3. UNCHANGED <<sockets, status, olds, cancelled, serverVars, mpc, stop, abandoned>>
  BY DEF Receive, Replied, Acked, Saved, Told, HandleOnly, threadVars, regVars
<1>4. PICK pc \in {"recv", "reply", "ack", "save", "told", "error"} : hpc' = [hpc EXCEPT ![c] = pc]
  <2>1. Receive(c) => \E pc \in {"recv", "reply", "ack"} : hpc' = [hpc EXCEPT ![c] = pc]
    BY DEF Receive, Dispatch, AddChunk, SetHandler
  <2>2. Replied(c) \/ Told(c) => hpc' = [hpc EXCEPT ![c] = "recv"]
    BY DEF Replied, Told, SetHandler
  <2>3. Acked(c) \/ Saved(c) => \E pc \in {"recv", "save", "told", "error"} : hpc' = [hpc EXCEPT ![c] = pc]
    BY DEF Acked, Saved, SetHandler
  <2> QED
    BY <2>1, <2>2, <2>3
<1>5. inbox' \in [Conns -> Seq(Messages)]
  <2>1. inbox \in [Conns -> Seq(Messages)]
    BY DEF Tables, TableTypes
  <2>2. inbox' = inbox \/ (inbox[c] # <<>> /\ inbox' = [inbox EXCEPT ![c] = Tail(inbox[c])])
    BY DEF Receive, Replied, Acked, Saved, Told, HandleOnly, peerVars
  <2>3. inbox[c] # <<>> => Tail(inbox[c]) \in Seq(Messages)
    BY <2>1
  <2> QED
    BY <2>1, <2>2, <2>3
<1>6. /\ lastPing \in [Servers -> [Conns -> {"none", "recent", "old"}]] /\ info \in [Servers -> SUBSET Conns]
  BY DEF Tables, TableTypes
<1>7. /\ lastPing' = lastPing \/ \E v \in {"recent", lastPing[owner[c]][c]} : lastPing' = [lastPing EXCEPT ![owner[c]][c] = v]
      /\ info' = info \/ \E v \in {info[owner[c]], info[owner[c]] \cup {c}} : info' = [info EXCEPT ![owner[c]] = v]
  <2>1. CASE Receive(c)
    <3>1. CASE Dispatch(owner[c], c, Head(inbox[c]))
      BY <3>1 DEF Dispatch
    <3>2. CASE ~Dispatch(owner[c], c, Head(inbox[c]))
      BY <2>1, <3>2 DEF Receive
    <3> QED
      BY <3>1, <3>2
  <2>2. CASE ~Receive(c)
    BY <2>2 DEF Replied, Acked, Saved, Told, HandleOnly, regVars
  <2> QED
    BY <2>1, <2>2
<1>8. /\ lastPing' \in [Servers -> [Conns -> {"none", "recent", "old"}]] /\ info' \in [Servers -> SUBSET Conns]
  BY <1>2, <1>6, <1>7
<1>9. ASSUME NEW g \in Servers, NEW d \in Conns
      PROVE  /\ (lastPing'[g][d] # "none") = (lastPing[g][d] # "none") \/ (g = owner[c] /\ d = c /\ lastPing'[g][d] # "none")
             /\ (d \in info'[g]) = (d \in info[g]) \/ (g = owner[c] /\ d = c)
  <2>1. CASE g = owner[c] /\ d = c
    BY <1>2, <1>6, <1>7, <2>1
  <2>2. CASE ~(g = owner[c] /\ d = c)
    BY <1>2, <1>6, <1>7, <2>2
  <2> QED
    BY <2>1, <2>2
<1> QED
  BY <1>1, <1>3, <1>4, <1>5, <1>8, <1>9, TablesHandler

LEMMA TablesAge ==
  ASSUME Tables, Library, NEW c \in Conns, Age(c)
  PROVE  Tables'
<1>1. owner[c] \in Servers /\ lastPing[owner[c]][c] = "recent" /\ lastPing' = [lastPing EXCEPT ![owner[c]][c] = "old"]
  BY DEF Age, Library, ServerTypes
<1>2. Enrolled(c)
  BY <1>1 DEF Tables, EntriesLive
<1>3. hpc' = [hpc EXCEPT ![c] = hpc[c]] /\ hpc[c] \in {"recv", "reply", "ack", "save", "told", "error"}
  BY <1>2 DEF Age, appVars, Tables, TableTypes, Enrolled
<1>4. UNCHANGED <<sockets, status, info, inbox, olds, cancelled, serverVars, mpc, stop, abandoned>>
  BY DEF Age, appVars, threadVars, peerVars
<1>5. /\ lastPing \in [Servers -> [Conns -> {"none", "recent", "old"}]] /\ info \in [Servers -> SUBSET Conns]
      /\ inbox \in [Conns -> Seq(Messages)]
  BY DEF Tables, TableTypes
<1>6. lastPing' \in [Servers -> [Conns -> {"none", "recent", "old"}]]
  BY <1>1, <1>5
<1>7. \A g \in Servers, d \in Conns : (lastPing'[g][d] # "none") = (lastPing[g][d] # "none")
  BY <1>1, <1>5
<1> QED
  BY <1>2, <1>3, <1>4, <1>5, <1>6, <1>7, TablesHandler

-----------------------------------------------------------------------------
(* Clients that leave the tables.                                          *)

LEMMA ForgetDoes ==
  ASSUME TableTypes, OncePerTable, NEW g \in Servers, NEW c \in Conns, Forget(g, c)
  PROVE  /\ sockets' \in [Servers -> Seq(Conns)]
         /\ lastPing' \in [Servers -> [Conns -> {"none", "recent", "old"}]] /\ info' \in [Servers -> SUBSET Conns]
         /\ OncePerTable'
         /\ \A h \in Servers, d \in Conns :
              /\ InSeq(d, sockets'[h]) <=> InSeq(d, sockets[h]) /\ ~(h = g /\ d = c)
              /\ lastPing'[h][d] = IF h = g /\ d = c THEN "none" ELSE lastPing[h][d]
              /\ d \in info'[h] <=> d \in info[h] /\ ~(h = g /\ d = c)
<1> USE DEF Forget
<1>1. sockets[g] \in Seq(Conns) /\ \A i, j \in DOMAIN sockets[g] : i # j => sockets[g][i] # sockets[g][j]
  BY DEF TableTypes, OncePerTable
<1> DEFINE w == Without(sockets[g], c)
<1>2. /\ w \in Seq(Conns) /\ \A i, j \in DOMAIN w : i # j => w[i] # w[j]
      /\ \A d : InSeq(d, w) <=> InSeq(d, sockets[g]) /\ d # c
  BY <1>1, WithoutDoes
<1>3. sockets' = [sockets EXCEPT ![g] = w]
  OBVIOUS
<1> HIDE DEF w
<1>4. sockets' \in [Servers -> Seq(Conns)] /\ OncePerTable'
  BY <1>2, <1>3 DEF TableTypes, OncePerTable
<1>5. \A h \in Servers, d \in Conns : InSeq(d, sockets'[h]) <=> InSeq(d, sockets[h]) /\ ~(h = g /\ d = c)
  BY <1>2, <1>3 DEF TableTypes
<1>6. /\ lastPing' \in [Servers -> [Conns -> {"none", "recent", "old"}]] /\ info' \in [Servers -> SUBSET Conns]
      /\ \A h \in Servers, d \in Conns : lastPing'[h][d] = IF h = g /\ d = c THEN "none" ELSE lastPing[h][d]
      /\ \A h \in Servers, d \in Conns : d \in info'[h] <=> d \in info[h] /\ ~(h = g /\ d = c)
  BY DEF TableTypes
<1> QED
  BY <1>4, <1>5, <1>6

\* The heartbeat forgets a client that is not OPEN, or on a server that no
\* longer runs.
LEMMA TablesForget ==
  ASSUME Tables, Library, Threads, NEW g \in Servers, NEW c \in Conns, Forget(g, c),
         UNCHANGED <<hpc, olds, cancelled, inbox, owner, task, mpc, stop, abandoned>>, Active(g),
         \A d \in Conns : conn'[d] = "OPEN" => conn[d] = "OPEN",
         conn'[c] # "OPEN" \/ ~Running(g),
         status' = status \/ (Running(g) /\ sockets'[g] = <<>> /\ status' = "listening")
  PROVE  Tables'
<1>1. /\ sockets' \in [Servers -> Seq(Conns)]
      /\ lastPing' \in [Servers -> [Conns -> {"none", "recent", "old"}]] /\ info' \in [Servers -> SUBSET Conns]
      /\ OncePerTable'
      /\ \A h \in Servers, d \in Conns :
           /\ InSeq(d, sockets'[h]) <=> InSeq(d, sockets[h]) /\ ~(h = g /\ d = c)
           /\ lastPing'[h][d] = IF h = g /\ d = c THEN "none" ELSE lastPing[h][d]
           /\ d \in info'[h] <=> d \in info[h] /\ ~(h = g /\ d = c)
  BY ForgetDoes DEF Tables
<1>2. TableTypes' /\ HandlersRun'
  BY <1>1 DEF Tables, TableTypes, HandlersRun
<1>3. EntriesLive' /\ OldsGone'
  <2>1. ASSUME NEW h \in Servers, NEW d \in Conns
        PROVE  /\ InSeq(d, sockets'[h]) => owner'[d] = h /\ Enrolled(d)'
               /\ lastPing'[h][d] # "none" => owner'[d] = h /\ Enrolled(d)'
               /\ d \in info'[h] => owner'[d] = h /\ Enrolled(d)'
    BY <1>1 DEF Tables, EntriesLive, Enrolled
  <2>2. OldsGone'
    BY <1>1 DEF Tables, OldsGone
  <2> QED
    BY <2>1, <2>2 DEF EntriesLive
<1>4. HeartbeatSeesAll'
  <2>1. \A h \in Servers, d \in Conns : InSeq(d, sockets[h]) => lastPing[h][d] # "none"
    BY SeesNow DEF Tables
  <2>2. \A h \in Servers, d \in Conns : InSeq(d, sockets'[h]) => lastPing'[h][d] # "none"
    BY <1>1, <2>1
  <2> QED
    BY <1>2, <2>2, SeesNext
<1>5. NobodyForgotten'
  <2>1. \A d \in Conns : Live(d) => owner[d] \in Servers
    BY DEF Live, Tables, HandlersRun, Library, ServerTypes, ConnPhases
  <2> QED
    BY <1>1, <2>1 DEF Tables, NobodyForgotten, Live, Running
<1>6. StatusFollowsClients'
  <2>1. ASSUME NEW h \in Servers, Running(h)', ~stop'[h], abandoned' = {}
        PROVE  /\ sockets'[h] # <<>> => status' = "connected"
               /\ status' = "connected" => \E d \in Conns : owner'[d] = h /\ Live(d)'
    <3>1. h = g
      BY <2>1, AloneRuns DEF Running
    <3>2. /\ sockets[h] # <<>> => status = "connected"
          /\ status = "connected" => \E d \in Conns : owner[d] = h /\ Live(d)
      BY <2>1 DEF Tables, StatusFollowsClients, Running
    <3>3. sockets[h] \in Seq(Conns) /\ sockets'[h] \in Seq(Conns)
      BY <1>1 DEF Tables, TableTypes
    <3>4. sockets'[h] # <<>> => sockets[h] # <<>>
      BY <1>1, <3>3, EmptySeq
    <3>5. sockets'[h] # <<>> => status' = "connected"
      BY <3>1, <3>2, <3>4
    <3>6. status' = "connected" => \E d \in Conns : owner'[d] = h /\ Live(d)'
      BY <3>1, <3>2 DEF Live
    <3> QED
      BY <3>5, <3>6
  <2> QED
    BY <2>1 DEF StatusFollowsClients
<1> QED
  BY <1>1, <1>2, <1>3, <1>4, <1>5, <1>6 DEF Tables


LEMMA TablesHeartbeat ==
  ASSUME Tables, Library, Threads, NEW g \in Servers, HbClosed(g) \/ HbCancelled(g) \/ HbSwallowed(g)
  PROVE  Tables'
<1>1. UNCHANGED <<hpc, olds, cancelled, inbox, owner, task, mpc, stop, abandoned>>
  BY DEF HbClosed, HbCancelled, HbSwallowed, HbOnly, threadVars, peerVars, appVars, serverVars
<1>2. Active(g) /\ hbList[g] \in Seq(Conns) /\ (hb[g] \in {"close", "finish"} => hbList[g] # <<>>)
  BY DEF HbClosed, HbCloses, HbCancelled, HbSwallowed, Active, Threads, ThreadTypes, Stopped
<1>3. CASE HbClosed(g)
  <2>1. hbList[g] # <<>>
    BY <1>2, <1>3 DEF HbClosed, HbCloses
  <2>2. Head(hbList[g]) \in Conns /\ Forget(g, Head(hbList[g])) /\ conn[Head(hbList[g])] # "OPEN"
    BY <1>2, <1>3, <2>1, TailIn DEF HbClosed
  <2>3. \A d \in Conns : conn'[d] = conn[d] \/ (conn[d] = "OPEN" /\ conn'[d] # "OPEN")
    BY <1>3 DEF HbClosed, Closing, Library, ServerTypes
  <2>4. status' = status \/ (Running(g) /\ sockets'[g] = <<>> /\ status' = "listening")
    BY <1>3 DEF HbClosed, HbCloses, Running, Threads, Stopped
  <2>5. \A d \in Conns : conn'[d] = "OPEN" => conn[d] = "OPEN"
    BY <2>3
  <2>6. conn'[Head(hbList[g])] # "OPEN"
    BY <2>2, <2>3
  <2> QED
    BY <1>1, <1>2, <2>2, <2>4, <2>5, <2>6, TablesForget
<1>4. CASE HbCancelled(g) /\ hb[g] = "close"
  <2>1. Head(hbList[g]) \in Conns /\ Forget(g, Head(hbList[g])) /\ ~Running(g) /\ UNCHANGED <<conn, status>>
    BY <1>2, <1>4, TailIn DEF HbCancelled, Running, serverVars
  <2> QED
    BY <1>1, <1>2, <2>1, TablesForget
<1>5. CASE (HbCancelled(g) /\ hb[g] # "close") \/ HbSwallowed(g)
  <2>1. UNCHANGED <<regVars, conn>>
    BY <1>5 DEF HbCancelled, HbSwallowed, regVars, serverVars
  <2> QED
    BY <1>1, <2>1, TablesQuiet DEF Running, Tables, TableTypes
<1> QED
  BY <1>3, <1>4, <1>5

\* The finally clause of handle().
LEMMA TablesGone ==
  ASSUME Tables, Library, Threads, Phases, NEW c \in Conns, Enrolled(c), CleanUp(owner[c], c),
         NEW pc \in {"close", "done"}, task' = [task EXCEPT ![c] = pc], cancelled' \subseteq Conns,
         UNCHANGED <<owner, mpc, stop, abandoned>>, olds' = olds \/ olds' = [olds EXCEPT ![c] = <<>>],
         \A d \in Conns : conn'[d] = "OPEN" => conn[d] = "OPEN"
  PROVE  Tables'
<1> DEFINE g == owner[c]
<1>1. g \in Servers /\ Active(g) /\ task[c] = "ws"
  BY HandlerOnLoop DEF Enrolled, Active
<1>2. Forget(g, c) /\ hpc' = [hpc EXCEPT ![c] = "off"] /\ inbox' = [inbox EXCEPT ![c] = <<>>]
      /\ status' = IF sockets'[g] = <<>> /\ ~stop[g] THEN "listening" ELSE status
  BY DEF CleanUp, SetHandler
<1> HIDE DEF g
<1>3. /\ sockets' \in [Servers -> Seq(Conns)]
      /\ lastPing' \in [Servers -> [Conns -> {"none", "recent", "old"}]] /\ info' \in [Servers -> SUBSET Conns]
      /\ OncePerTable'
      /\ \A h \in Servers, d \in Conns :
           /\ InSeq(d, sockets'[h]) <=> InSeq(d, sockets[h]) /\ ~(h = g /\ d = c)
           /\ lastPing'[h][d] = IF h = g /\ d = c THEN "none" ELSE lastPing[h][d]
           /\ d \in info'[h] <=> d \in info[h] /\ ~(h = g /\ d = c)
  BY <1>1, <1>2, ForgetDoes DEF Tables
<1>4. olds[c] = <<>> /\ olds' = olds
  BY DEF Tables, TableTypes, HandlersRun, Enrolled
<1>5. \A d \in Conns : /\ d # c => hpc'[d] = hpc[d] /\ task'[d] = task[d]
                       /\ hpc'[c] = "off" /\ task'[c] = pc
  BY <1>2 DEF Tables, TableTypes, Library, ServerTypes
<1>6. TableTypes'
  BY <1>2, <1>3, <1>4 DEF Tables, TableTypes
<1>7. HandlersRun'
  BY <1>4, <1>5 DEF Tables, HandlersRun
<1>8. EntriesLive'
  <2>1. ASSUME NEW h \in Servers, NEW d \in Conns
        PROVE  /\ InSeq(d, sockets'[h]) => owner'[d] = h /\ Enrolled(d)'
               /\ lastPing'[h][d] # "none" => owner'[d] = h /\ Enrolled(d)'
               /\ d \in info'[h] => owner'[d] = h /\ Enrolled(d)'
    BY <1>3, <1>5 DEF Tables, EntriesLive, Enrolled, g
  <2> QED
    BY <2>1 DEF EntriesLive
<1>9. OldsGone'
  BY <1>3, <1>4, <1>5 DEF Tables, OldsGone
<1>10. HeartbeatSeesAll'
  <2>1. \A h \in Servers, d \in Conns : InSeq(d, sockets[h]) => lastPing[h][d] # "none"
    BY SeesNow DEF Tables
  <2>2. ASSUME NEW h \in Servers, NEW d \in Conns, InSeq(d, sockets'[h])
        PROVE  lastPing'[h][d] # "none"
    <3>1. InSeq(d, sockets[h]) /\ ~(h = g /\ d = c)
      BY <1>3, <2>2
    <3>2. lastPing'[h][d] = lastPing[h][d]
      BY <1>3, <3>1
    <3> QED
      BY <2>1, <3>1, <3>2
  <2> QED
    BY <1>6, <2>2, SeesNext
<1>11. NobodyForgotten'
  <2>1. ASSUME NEW d \in Conns, Live(d)', conn'[d] = "OPEN", Running(owner[d])'
        PROVE  InSeq(d, sockets'[owner'[d]]) \/ hpc'[d] = "replace" \/ \E e \in Conns : hpc'[e] = "replace" /\ InSeq(d, olds'[e])
    <3>1. d # c /\ Live(d) /\ conn[d] = "OPEN" /\ Running(owner[d])
      BY <1>5, <2>1 DEF Live, Running
    <3>2. owner[d] \in Servers
      BY <3>1 DEF Live, Tables, HandlersRun, Library, ServerTypes, ConnPhases
    <3>3. InSeq(d, sockets[owner[d]]) \/ hpc[d] = "replace" \/ \E e \in Conns : hpc[e] = "replace" /\ InSeq(d, olds[e])
      BY <3>1 DEF Tables, NobodyForgotten
    <3>4. hpc[c] # "replace"
      BY DEF Enrolled
    <3> QED
      BY <1>3, <1>4, <1>5, <3>1, <3>2, <3>3, <3>4
  <2> QED
    BY <2>1 DEF NobodyForgotten
<1>12. StatusFollowsClients'
  <2>1. ASSUME NEW h \in Servers, Running(h)', ~stop'[h], abandoned' = {}
        PROVE  /\ sockets'[h] # <<>> => status' = "connected"
               /\ status' = "connected" => \E d \in Conns : owner'[d] = h /\ Live(d)'
    <3>1. h = g
      BY <1>1, <2>1, AloneRuns DEF Running
    <3>2. sockets[h] # <<>> => status = "connected"
      BY <2>1 DEF Tables, StatusFollowsClients, Running
    <3>3. sockets[h] \in Seq(Conns) /\ sockets'[h] \in Seq(Conns)
      BY <1>3 DEF Tables, TableTypes
    <3>4. sockets'[h] # <<>> => sockets[h] # <<>> /\ \E d \in Conns : InSeq(d, sockets'[h])
      BY <1>3, <3>3, EmptySeq
    <3>5. sockets'[h] # <<>> => status' = "connected"
      BY <1>2, <3>1, <3>2, <3>4
    <3>6. status' = "connected" => sockets'[h] # <<>>
      BY <1>2, <2>1, <3>1
    <3>7. \A d \in Conns : InSeq(d, sockets'[h]) => owner'[d] = h /\ Live(d)'
      BY <1>8 DEF EntriesLive, Enrolled, Live
    <3> QED
      BY <3>4, <3>5, <3>6, <3>7
  <2> QED
    BY <2>1 DEF StatusFollowsClients
<1> QED
  BY <1>3, <1>6, <1>7, <1>8, <1>9, <1>10, <1>11, <1>12 DEF Tables

\* A handler that is cancelled before it was registered, when its server no
\* longer runs.
LEMMA TablesNeverIn ==
  ASSUME Tables, Library, Threads, NEW c \in Conns, hpc[c] \in {"off", "replace"},
         hpc' = [hpc EXCEPT ![c] = "off"], olds' = [olds EXCEPT ![c] = <<>>], task' = [task EXCEPT ![c] = "done"],
         UNCHANGED <<owner, regVars, mpc, stop, abandoned, inbox>>, cancelled' \subseteq Conns, ~Running(owner[c]),
         \A d \in Conns : conn'[d] = "OPEN" => conn[d] = "OPEN"
  PROVE  Tables'
<1>1. \A d \in Conns : /\ d # c => hpc'[d] = hpc[d] /\ task'[d] = task[d] /\ olds'[d] = olds[d]
                       /\ hpc'[c] = "off" /\ task'[c] = "done" /\ olds'[c] = <<>>
  BY DEF Tables, TableTypes, Library, ServerTypes
<1>2. TableTypes' /\ OncePerTable' /\ HeartbeatSeesAll'
  BY DEF Tables, TableTypes, OncePerTable, HeartbeatSeesAll, regVars
<1>3. HandlersRun'
  BY <1>1 DEF Tables, HandlersRun
<1>4. EntriesLive'
  BY <1>1 DEF Tables, EntriesLive, Enrolled, regVars
<1>5. OldsGone'
  <2>1. \A d \in Conns : ~InSeq(d, <<>>)
    BY DEF InSeq
  <2> QED
    BY <1>1, <2>1 DEF Tables, OldsGone, regVars
<1>6. NobodyForgotten'
  <2>1. ASSUME NEW d \in Conns, Live(d)', conn'[d] = "OPEN", Running(owner[d])'
        PROVE  InSeq(d, sockets'[owner'[d]]) \/ hpc'[d] = "replace" \/ \E e \in Conns : hpc'[e] = "replace" /\ InSeq(d, olds'[e])
    <3>1. d # c /\ Live(d) /\ conn[d] = "OPEN" /\ Running(owner[d])
      BY <1>1, <2>1 DEF Live, Running
    <3>2. InSeq(d, sockets[owner[d]]) \/ hpc[d] = "replace" \/ \E e \in Conns : hpc[e] = "replace" /\ InSeq(d, olds[e])
      BY <3>1 DEF Tables, NobodyForgotten
    <3>3. ~InSeq(d, olds[c])
      BY <3>1 DEF Tables, OldsGone
    <3> QED
      BY <1>1, <3>1, <3>2, <3>3 DEF regVars
  <2> QED
    BY <2>1 DEF NobodyForgotten
<1>7. StatusFollowsClients'
  BY <1>1 DEF Tables, StatusFollowsClients, regVars, Running, Live
<1> QED
  BY <1>2, <1>3, <1>4, <1>5, <1>6, <1>7 DEF Tables

LEMMA TablesLeave ==
  ASSUME Tables, Library, Threads, Phases, NEW c \in Conns, HandleEnds(c) \/ HandleCancelled(c)
  PROVE  Tables'
<1>1. UNCHANGED <<owner, mpc, stop, abandoned>>
  BY DEF HandleEnds, HandleCancelled, HandlerReturn, HandlerCancelled, threadVars
<1>2. \A d \in Conns : conn'[d] = "OPEN" => conn[d] = "OPEN"
  BY DEF HandleEnds, HandleCancelled, HandlerReturn, HandlerCancelled, Closing, Dropping, Library, ServerTypes
<1>3. cancelled' \subseteq Conns
  BY DEF HandleEnds, HandleCancelled, Tables, TableTypes
<1>4. CASE HandleEnds(c)
  <2>1. Enrolled(c) /\ CleanUp(owner[c], c) /\ task' = [task EXCEPT ![c] = "close"] /\ olds' = olds
    BY <1>4 DEF HandleEnds, HandlerReturn, SetTask, Enrolled
  <2> QED
    BY <1>1, <1>2, <1>3, <2>1, TablesGone
<1>5. CASE HandleCancelled(c)
  <2>1. task' = [task EXCEPT ![c] = "done"] /\ olds' = [olds EXCEPT ![c] = <<>>]
    BY <1>5 DEF HandleCancelled, HandlerCancelled, Finish, SetTask
  <2>2. CASE hpc[c] \in {"off", "replace"}
    <3>1. ~Running(owner[c])
      BY <1>5 DEF HandleCancelled, Phases, Running
    <3>2. hpc' = [hpc EXCEPT ![c] = "off"] /\ UNCHANGED <<regVars, inbox>>
      BY <1>5, <2>2 DEF HandleCancelled, SetHandler
    <3> QED
      BY <1>1, <1>2, <1>3, <2>1, <2>2, <3>1, <3>2, TablesNeverIn
  <2>3. CASE hpc[c] \notin {"off", "replace"}
    <3>1. Enrolled(c) /\ CleanUp(owner[c], c)
      BY <1>5, <2>3 DEF HandleCancelled, Enrolled
    <3> QED
      BY <1>1, <1>2, <1>3, <2>1, <3>1, TablesGone
  <2> QED
    BY <2>2, <2>3
<1> QED
  BY <1>4, <1>5


\* A handler that swallows its cancellation stays where it is.
LEMMA TablesSwallows ==
  ASSUME Tables, Library, NEW c \in Conns, HandleSwallows(c)
  PROVE  Tables'
<1>1. UNCHANGED <<threadVars, regVars, hpc, olds, inbox, owner, task>> /\ cancelled' \subseteq cancelled
  BY DEF HandleSwallows, CancelSwallowed, peerVars
<1>2. \A d \in Conns : conn'[d] = "OPEN" => conn[d] = "OPEN"
  BY DEF HandleSwallows, CancelSwallowed, Dropping, Library, ServerTypes
<1> QED
  BY <1>1, <1>2, TablesQuiet DEF threadVars, Running, Tables, TableTypes

-----------------------------------------------------------------------------
(* Clients that enter the tables.                                          *)

\* A new client is registered: nobody is being replaced any more.
LEMMA TablesEnrol ==
  ASSUME Tables, Library, Threads, NEW c \in Conns, NEW g \in Servers, g = owner[c], Active(g), Enrol(g, c),
         task[c] = "process" \/ hpc[c] = "replace", task' = [task EXCEPT ![c] = "ws"],
         UNCHANGED <<owner, mpc, stop, abandoned, cancelled, inbox>>,
         \A d \in Conns : conn'[d] = "OPEN" => conn[d] = "OPEN" \/ d = c,
         \A d \in Conns : InSeq(d, olds[c]) => conn'[d] # "OPEN"
  PROVE  Tables'
<1>1. /\ hpc' = [hpc EXCEPT ![c] = "recv"] /\ olds' = [olds EXCEPT ![c] = <<>>]
      /\ sockets' = [sockets EXCEPT ![g] = Append(sockets[g], c)]
      /\ lastPing' = [lastPing EXCEPT ![g][c] = "recent"] /\ status' = "connected" /\ info' = info
  BY DEF Enrol, SetHandler
<1>2. hpc[c] \in {"off", "replace"}
  BY DEF Tables, HandlersRun
<1>3. \A h \in Servers, d \in Conns : ~InSeq(c, sockets[h]) /\ ~InSeq(c, olds[d])
  BY <1>2 DEF Tables, EntriesLive, OldsGone, Enrolled
<1>4. sockets[g] \in Seq(Conns) /\ \A i, j \in DOMAIN sockets[g] : i # j => sockets[g][i] # sockets[g][j]
  BY DEF Tables, TableTypes, OncePerTable
<1>5. PICK w : w = Append(sockets[g], c)
  OBVIOUS
<1>6. /\ w \in Seq(Conns) /\ \A i, j \in DOMAIN w : i # j => w[i] # w[j]
      /\ \A d : InSeq(d, w) <=> InSeq(d, sockets[g]) \/ d = c
  BY <1>3, <1>4, <1>5, AppendDoes
<1>7. sockets' = [sockets EXCEPT ![g] = w] /\ sockets' \in [Servers -> Seq(Conns)] /\ OncePerTable'
  <2>1. sockets' = [sockets EXCEPT ![g] = w] /\ sockets \in [Servers -> Seq(Conns)]
    BY <1>1, <1>5 DEF Tables, TableTypes
  <2>2. \A h \in Servers : sockets'[h] = IF h = g THEN w ELSE sockets[h]
    BY <2>1
  <2> QED
    BY <1>6, <2>1, <2>2 DEF Tables, OncePerTable
<1>8. \A h \in Servers, d \in Conns : InSeq(d, sockets'[h]) <=> InSeq(d, sockets[h]) \/ (h = g /\ d = c)
  BY <1>6, <1>7 DEF Tables, TableTypes
<1>9. \A h \in Servers, d \in Conns : lastPing'[h][d] = IF h = g /\ d = c THEN "recent" ELSE lastPing[h][d]
  BY <1>1 DEF Tables, TableTypes
<1>10. \A d \in Conns : /\ d # c => hpc'[d] = hpc[d] /\ task'[d] = task[d] /\ olds'[d] = olds[d]
                        /\ hpc'[c] = "recv" /\ task'[c] = "ws" /\ olds'[c] = <<>>
  BY <1>1 DEF Tables, TableTypes, Library, ServerTypes
<1>11. TableTypes'
  BY <1>1, <1>7 DEF Tables, TableTypes
<1>12. HandlersRun'
  BY <1>10 DEF Tables, HandlersRun
<1>13. EntriesLive'
  <2>1. ASSUME NEW h \in Servers, NEW d \in Conns
        PROVE  /\ InSeq(d, sockets'[h]) => owner'[d] = h /\ Enrolled(d)'
               /\ lastPing'[h][d] # "none" => owner'[d] = h /\ Enrolled(d)'
               /\ d \in info'[h] => owner'[d] = h /\ Enrolled(d)'
    <3>1. CASE d = c
      <4>1. Enrolled(d)' /\ (InSeq(d, sockets'[h]) => h = g) /\ (lastPing'[h][d] # "none" => h = g)
        BY <1>2, <1>3, <1>8, <1>9, <1>10, <3>1 DEF Tables, EntriesLive, Enrolled
      <4>2. d \notin info'[h]
        BY <1>1, <1>2, <3>1 DEF Tables, EntriesLive, Enrolled
      <4> QED
        BY <3>1, <4>1, <4>2
    <3>2. CASE d # c
      BY <1>1, <1>8, <1>9, <1>10, <3>2 DEF Tables, EntriesLive, Enrolled
    <3> QED
      BY <3>1, <3>2
  <2> QED
    BY <2>1 DEF EntriesLive
<1>14. OldsGone'
  <2>1. ASSUME NEW e \in Conns, NEW d \in Conns, InSeq(d, olds'[e])
        PROVE  /\ task'[d] \in {"ws", "close", "done"} /\ hpc'[d] # "replace" /\ owner'[d] = owner'[e]
               /\ \A h \in Servers : ~InSeq(d, sockets'[h])
    <3>1. e # c
      BY <1>10, <2>1 DEF InSeq
    <3>2. InSeq(d, olds[e]) /\ d # c
      BY <1>3, <1>10, <2>1, <3>1
    <3> QED
      BY <1>8, <1>10, <3>2 DEF Tables, OldsGone
  <2> QED
    BY <2>1 DEF OldsGone
<1>15. HeartbeatSeesAll'
  <2>1. \A h \in Servers, d \in Conns : InSeq(d, sockets[h]) => lastPing[h][d] # "none"
    BY SeesNow DEF Tables
  <2>2. ASSUME NEW h \in Servers, NEW d \in Conns, InSeq(d, sockets'[h])
        PROVE  lastPing'[h][d] # "none"
    BY <1>8, <1>9, <2>1, <2>2
  <2> QED
    BY <1>11, <2>2, SeesNext
<1>16. NobodyForgotten'
  <2>1. ASSUME NEW d \in Conns, Live(d)', conn'[d] = "OPEN", Running(owner[d])'
        PROVE  InSeq(d, sockets'[owner'[d]]) \/ hpc'[d] = "replace" \/ \E e \in Conns : hpc'[e] = "replace" /\ InSeq(d, olds'[e])
    <3>1. CASE d = c
      BY <1>8, <3>1
    <3>2. CASE d # c
      <4>1. Live(d) /\ conn[d] = "OPEN" /\ Running(owner[d])
        BY <1>10, <2>1, <3>2 DEF Live, Running
      <4>2. owner[d] \in Servers
        BY <4>1 DEF Live, Tables, HandlersRun, Library, ServerTypes, ConnPhases
      <4>3. InSeq(d, sockets[owner[d]]) \/ hpc[d] = "replace" \/ \E e \in Conns : hpc[e] = "replace" /\ InSeq(d, olds[e])
        BY <4>1 DEF Tables, NobodyForgotten
      <4> QED
        BY <1>8, <1>10, <2>1, <3>2, <4>2, <4>3
    <3> QED
      BY <3>1, <3>2
  <2> QED
    BY <2>1 DEF NobodyForgotten
<1>17. StatusFollowsClients'
  <2>1. ASSUME NEW h \in Servers, Running(h)', abandoned' = {}
        PROVE  \E d \in Conns : owner'[d] = h /\ Live(d)'
    <3>1. h = g
      BY <2>1, AloneRuns DEF Running
    <3> QED
      BY <1>10, <3>1 DEF Live
  <2> QED
    BY <1>1, <2>1 DEF StatusFollowsClients
<1> QED
  BY <1>7, <1>11, <1>12, <1>13, <1>14, <1>15, <1>16, <1>17 DEF Tables

\* A new client empties the table and starts to close the old ones.
LEMMA TablesReplace ==
  ASSUME Tables, Library, Threads, NEW c \in Conns, NEW g \in Servers, g = owner[c], Active(g), Replace(g, c),
         sockets[g] # <<>>, task[c] = "process", task' = [task EXCEPT ![c] = "ws"],
         UNCHANGED <<owner, mpc, stop, abandoned, cancelled, inbox>>,
         \A d \in Conns : conn'[d] = "OPEN" => conn[d] = "OPEN" \/ d = c
  PROVE  Tables'
<1>1. sockets[g] \in Seq(Conns) /\ Head(sockets[g]) \in Conns
  BY TailIn DEF Tables, TableTypes
<1>2. /\ hpc' = [hpc EXCEPT ![c] = "replace"] /\ olds' = [olds EXCEPT ![c] = sockets[g]]
      /\ sockets' = [sockets EXCEPT ![g] = <<>>] /\ UNCHANGED <<info, status>>
      /\ lastPing' = [lastPing EXCEPT ![g][Head(sockets[g])] = "none"]
  BY DEF Replace, SetHandler
<1>3. hpc[c] = "off"
  BY DEF Tables, HandlersRun
<1>4. \A h \in Servers, d \in Conns : InSeq(d, sockets'[h]) <=> InSeq(d, sockets[h]) /\ h # g
  BY <1>2 DEF Tables, TableTypes, InSeq
<1>5. \A h \in Servers, d \in Conns : lastPing'[h][d] = lastPing[h][d] \/ (h = g /\ lastPing'[h][d] = "none")
  BY <1>1, <1>2 DEF Tables, TableTypes
<1>6. \A d \in Conns : /\ d # c => hpc'[d] = hpc[d] /\ task'[d] = task[d] /\ olds'[d] = olds[d]
                       /\ hpc'[c] = "replace" /\ task'[c] = "ws" /\ olds'[c] = sockets[g]
  BY <1>2 DEF Tables, TableTypes, Library, ServerTypes
<1>7. TableTypes'
  <2>1. lastPing' \in [Servers -> [Conns -> {"none", "recent", "old"}]]
    BY <1>1, <1>2 DEF Tables, TableTypes
  <2>2. sockets' \in [Servers -> Seq(Conns)] /\ olds' \in [Conns -> Seq(Conns)]
    BY <1>1, <1>2 DEF Tables, TableTypes
  <2> QED
    BY <1>2, <2>1, <2>2 DEF Tables, TableTypes
<1>8. OncePerTable' /\ HandlersRun'
  BY <1>2, <1>6 DEF Tables, TableTypes, OncePerTable, HandlersRun
<1>9. EntriesLive'
  <2>1. ASSUME NEW h \in Servers, NEW d \in Conns
        PROVE  /\ InSeq(d, sockets'[h]) => owner'[d] = h /\ Enrolled(d)'
               /\ lastPing'[h][d] # "none" => owner'[d] = h /\ Enrolled(d)'
               /\ d \in info'[h] => owner'[d] = h /\ Enrolled(d)'
    <3>1. Enrolled(d) => Enrolled(d)'
      BY <1>3, <1>6 DEF Enrolled
    <3> QED
      BY <1>2, <1>4, <1>5, <3>1 DEF Tables, EntriesLive
  <2> QED
    BY <2>1 DEF EntriesLive
<1>10. OldsGone'
  <2>1. ASSUME NEW e \in Conns, NEW d \in Conns, InSeq(d, olds'[e])
        PROVE  /\ task'[d] \in {"ws", "close", "done"} /\ hpc'[d] # "replace" /\ owner'[d] = owner'[e]
               /\ \A h \in Servers : ~InSeq(d, sockets'[h])
    <3>1. CASE e = c
      <4>1. owner[d] = g /\ Enrolled(d) /\ d # c
        BY <1>3, <1>6, <2>1, <3>1 DEF Tables, EntriesLive, Enrolled
      <4>2. task[d] = "ws" /\ hpc[d] # "replace"
        BY <4>1 DEF Tables, HandlersRun, Enrolled
      <4>3. \A h \in Servers : ~InSeq(d, sockets'[h])
        BY <1>4, <4>1 DEF Tables, EntriesLive
      <4> QED
        BY <1>6, <3>1, <4>1, <4>2, <4>3
    <3>2. CASE e # c
      <4>1. InSeq(d, olds[e])
        BY <1>6, <2>1, <3>2
      <4>2. d # c
        BY <4>1 DEF Tables, OldsGone
      <4> QED
        BY <1>4, <1>6, <4>1, <4>2 DEF Tables, OldsGone
    <3> QED
      BY <3>1, <3>2
  <2> QED
    BY <2>1 DEF OldsGone
<1>11. HeartbeatSeesAll'
  <2>1. \A h \in Servers, d \in Conns : InSeq(d, sockets[h]) => lastPing[h][d] # "none"
    BY SeesNow DEF Tables
  <2>2. ASSUME NEW h \in Servers, NEW d \in Conns, InSeq(d, sockets'[h])
        PROVE  lastPing'[h][d] # "none"
    BY <1>4, <1>5, <2>1, <2>2
  <2> QED
    BY <1>7, <2>2, SeesNext
<1>12. NobodyForgotten'
  <2>1. ASSUME NEW d \in Conns, Live(d)', conn'[d] = "OPEN", Running(owner[d])'
        PROVE  InSeq(d, sockets'[owner'[d]]) \/ hpc'[d] = "replace" \/ \E e \in Conns : hpc'[e] = "replace" /\ InSeq(d, olds'[e])
    <3>1. CASE d = c
      BY <1>6, <3>1
    <3>2. CASE d # c
      <4>1. Live(d) /\ conn[d] = "OPEN" /\ Running(owner[d])
        BY <1>6, <2>1, <3>2 DEF Live, Running
      <4>2. owner[d] \in Servers
        BY <4>1 DEF Live, Tables, HandlersRun, Library, ServerTypes, ConnPhases
      <4>3. InSeq(d, sockets[owner[d]]) \/ hpc[d] = "replace" \/ \E e \in Conns : hpc[e] = "replace" /\ InSeq(d, olds[e])
        BY <4>1 DEF Tables, NobodyForgotten
      <4>4. CASE InSeq(d, sockets[owner[d]])
        BY <1>4, <1>6, <4>2, <4>4
      <4>5. CASE hpc[d] = "replace" \/ \E e \in Conns : hpc[e] = "replace" /\ InSeq(d, olds[e])
        BY <1>3, <1>6, <3>2, <4>5
      <4> QED
        BY <4>3, <4>4, <4>5
    <3> QED
      BY <3>1, <3>2
  <2> QED
    BY <2>1 DEF NobodyForgotten
<1>13. StatusFollowsClients'
  <2>1. ASSUME NEW h \in Servers, Running(h)', abandoned' = {}
        PROVE  sockets'[h] = <<>> /\ \E d \in Conns : owner'[d] = h /\ Live(d)'
    <3>1. h = g
      BY <2>1, AloneRuns DEF Running
    <3> QED
      BY <1>2, <1>6, <3>1 DEF Live, Tables, TableTypes
  <2> QED
    BY <2>1 DEF StatusFollowsClients
<1> QED
  BY <1>7, <1>8, <1>9, <1>10, <1>11, <1>12, <1>13 DEF Tables

\* close() of one old client returned and there is another.
LEMMA TablesOldNext ==
  ASSUME Tables, Library, Threads, Phases, NEW c \in Conns, OldClosed(c), Tail(olds[c]) # <<>>
  PROVE  Tables'
<1> DEFINE g == owner[c]
           d0 == Head(Tail(olds[c]))
<1>1. hpc[c] = "replace" /\ conn[Head(olds[c])] # "OPEN" /\ g \in Servers
  BY HandlerOnLoop DEF OldClosed
<1>2. olds[c] \in Seq(Conns) /\ olds[c] # <<>> /\ Tail(olds[c]) \in Seq(Conns)
  BY <1>1, TailIn DEF Tables, TableTypes, HandlersRun
<1>3. \A d \in Conns : InSeq(d, olds[c]) <=> d = Head(olds[c]) \/ InSeq(d, Tail(olds[c]))
  BY <1>2, TailIn
<1>4. d0 \in Conns /\ InSeq(d0, olds[c])
  BY <1>2, <1>3, TailIn
<1>5. /\ olds' = [olds EXCEPT ![c] = Tail(olds[c])] /\ lastPing' = [lastPing EXCEPT ![g][d0] = "none"]
      /\ UNCHANGED <<hpc, sockets, info, status, serverVars, mpc, stop, abandoned, cancelled, inbox>>
  BY DEF OldClosed, HandleOnly, threadVars, peerVars
<1> HIDE DEF g, d0
<1>6. \A h \in Servers, d \in Conns : lastPing'[h][d] = IF h = g /\ d = d0 THEN "none" ELSE lastPing[h][d]
  BY <1>1, <1>4, <1>5 DEF Tables, TableTypes
<1>7. \A e, d \in Conns : InSeq(d, olds'[e]) => InSeq(d, olds[e])
  BY <1>2, <1>3, <1>5 DEF Tables, TableTypes
<1>8. TableTypes'
  BY <1>1, <1>2, <1>4, <1>5 DEF Tables, TableTypes
<1>9. OncePerTable' /\ HandlersRun'
  BY <1>1, <1>2, <1>5 DEF Tables, TableTypes, OncePerTable, HandlersRun, serverVars
<1>10. EntriesLive'
  BY <1>5, <1>6 DEF Tables, EntriesLive, Enrolled, serverVars
<1>11. OldsGone'
  BY <1>5, <1>7 DEF Tables, OldsGone, serverVars
<1>12. HeartbeatSeesAll'
  <2>1. \A h \in Servers, d \in Conns : InSeq(d, sockets[h]) => lastPing[h][d] # "none"
    BY SeesNow DEF Tables
  <2>2. \A h \in Servers : ~InSeq(d0, sockets[h])
    BY <1>4 DEF Tables, OldsGone
  <2>3. ASSUME NEW h \in Servers, NEW d \in Conns, InSeq(d, sockets'[h])
        PROVE  lastPing'[h][d] # "none"
    BY <1>5, <1>6, <2>1, <2>2, <2>3
  <2> QED
    BY <1>8, <2>3, SeesNext
<1>13. NobodyForgotten'
  <2>1. ASSUME NEW d \in Conns, conn[d] = "OPEN", NEW e \in Conns, InSeq(d, olds[e])
        PROVE  InSeq(d, olds'[e])
    <3>1. CASE e = c
      BY <1>1, <1>2, <1>3, <1>5, <2>1, <3>1 DEF Tables, TableTypes
    <3>2. CASE e # c
      BY <1>5, <2>1, <3>2 DEF Tables, TableTypes
    <3> QED
      BY <3>1, <3>2
  <2> QED
    BY <1>5, <2>1 DEF Tables, NobodyForgotten, Live, Running, serverVars
<1>14. StatusFollowsClients'
  BY <1>5 DEF Tables, StatusFollowsClients, Live, Running, serverVars
<1> QED
  BY <1>8, <1>9, <1>10, <1>11, <1>12, <1>13, <1>14 DEF Tables


LEMMA TablesEnter ==
  ASSUME Tables, Library, Threads, Phases, NEW c \in Conns, HandleStart(c) \/ OldClosed(c)
  PROVE  Tables'
<1>1. UNCHANGED <<owner, mpc, stop, abandoned, cancelled, inbox>>
  BY DEF HandleStart, OldClosed, HandleOnly, HandshakeOpen, threadVars, peerVars, serverVars
<1>2. CASE HandleStart(c)
  <2>1. task[c] = "process" /\ task' = [task EXCEPT ![c] = "ws"] /\ conn' = [conn EXCEPT ![c] = "OPEN"] /\ Replace(owner[c], c)
    BY <1>2 DEF HandleStart, HandshakeOpen, SetTask, SetConn
  <2>2. owner[c] \in Servers /\ Active(owner[c])
    BY <2>1, OnALoop DEF Active
  <2>3. \A d \in Conns : conn'[d] = "OPEN" => conn[d] = "OPEN" \/ d = c
    BY <2>1 DEF Library, ServerTypes
  <2>4. CASE sockets[owner[c]] = <<>>
    <3>1. Enrol(owner[c], c)
      BY <2>1, <2>4 DEF Replace
    <3>2. hpc[c] = "off"
      BY <2>1 DEF Tables, HandlersRun
    <3>3. olds[c] = <<>>
      BY <3>2 DEF Tables, HandlersRun
    <3>4. \A d \in Conns : InSeq(d, olds[c]) => conn'[d] # "OPEN"
      BY <3>3 DEF InSeq
    <3> QED
      BY <1>1, <2>1, <2>2, <2>3, <3>1, <3>4, TablesEnrol
  <2>5. CASE sockets[owner[c]] # <<>>
    BY <1>1, <2>1, <2>2, <2>3, <2>5, TablesReplace
  <2> QED
    BY <2>4, <2>5
<1>3. CASE OldClosed(c) /\ Tail(olds[c]) = <<>>
  <2>1. Enrol(owner[c], c) /\ hpc[c] = "replace" /\ conn[Head(olds[c])] # "OPEN" /\ UNCHANGED serverVars
    BY <1>3 DEF OldClosed
  <2>2. owner[c] \in Servers /\ Active(owner[c]) /\ task[c] = "ws"
    BY <2>1, HandlerOnLoop DEF Active
  <2>3. task' = [task EXCEPT ![c] = "ws"]
    BY <2>1, <2>2 DEF serverVars, Library, ServerTypes
  <2>4. olds[c] \in Seq(Conns) /\ olds[c] # <<>>
    BY <2>1 DEF Tables, TableTypes, HandlersRun
  <2>5. \A d \in Conns : InSeq(d, olds[c]) => d = Head(olds[c])
    <3>1. \A d : ~InSeq(d, Tail(olds[c]))
      BY <1>3 DEF InSeq
    <3> QED
      BY <2>4, <3>1, TailIn
  <2>6. \A d \in Conns : InSeq(d, olds[c]) => conn'[d] # "OPEN"
    BY <2>1, <2>5 DEF serverVars
  <2>7. \A d \in Conns : conn'[d] = "OPEN" => conn[d] = "OPEN" \/ d = c
    BY <2>1 DEF serverVars
  <2> QED
    BY <1>1, <2>1, <2>2, <2>3, <2>6, <2>7, TablesEnrol
<1>4. CASE OldClosed(c) /\ Tail(olds[c]) # <<>>
  BY <1>4, TablesOldNext
<1> QED
  BY <1>2, <1>3, <1>4

LEMMA TablesNext ==
  ASSUME Tables, Library, Threads, Phases, Next
  PROVE  Tables'
<1>1. ASSUME NEW g \in Servers, Main(g)
      PROVE  Tables'
  BY <1>1, TablesMainQuiet, TablesStatus DEF Main
<1>2. ASSUME NEW g \in Servers, Heartbeat(g)
      PROVE  Tables'
  <2>1. CASE HbWake(g)
    <3>1. TimedOut(g) # {}
      BY <2>1 DEF HbWake
    <3>2. PICK c \in Conns : TRUE
      BY <3>1 DEF TimedOut
    <3> QED
      BY <2>1, TablesClosing
  <2> QED
    BY <1>2, <2>1, TablesHeartbeat DEF Heartbeat
<1>3. Messages # {}
  <2>1. 0 \in 0..Total
    BY BridgeAssumption DEF BridgeAssumption
  <2>2. [kind |-> "chunk", i |-> 0] \in [kind : {"chunk"}, i : 0..Total]
    BY <2>1
  <2> QED
    BY <2>2 DEF Messages
<1>4. ASSUME NEW g \in Servers, Shutdown(g) \/ \E c \in Conns : Arrive(c, g)
      PROVE  Tables'
  <2>1. CASE \E c \in Conns : Arrive(c, g)
    BY <1>3, <2>1, TablesLibrary
  <2>2. CASE Shutdown(g) /\ Conns # {}
    BY <1>3, <2>2, TablesLibrary
  <2>3. CASE Shutdown(g) /\ Conns = {}
    <3>1. UNCHANGED <<threadVars, regVars, appVars, peerVars>>
      BY <2>3 DEF Shutdown, BridgeOnly
    <3> QED
      BY <2>3, <3>1, TablesQuiet DEF threadVars, appVars, peerVars, Running, Tables, TableTypes
  <2> QED
    BY <1>4, <2>1, <2>2, <2>3
<1>5. ASSUME NEW c \in Conns, Connection(c) \/ Lost(c) \/ \E m \in Messages : PeerSend(c, m)
      PROVE  Tables'
  <2>1. CASE Servers # {}
    BY <1>3, <1>5, <2>1, TablesLibrary
  <2>2. CASE Servers = {}
    <3>1. \A d \in Conns : task[d] = "none" /\ conn[d] = "none"
      BY <2>2 DEF Library, ServerTypes, ConnPhases
    <3> QED
      BY <1>5, <3>1 DEF Connection, ConnectionMade, ReadRequest, HandshakeDropped, HandshakeRefused, HandshakeTimeout,
         RejectDone, CloseDone, Lost, ConnectionLost, PeerSend
  <2> QED
    BY <2>1, <2>2
<1>6. ASSUME NEW c \in Conns, HandleStart(c) \/ Handle(c)
      PROVE  Tables'
  <2>1. CASE OldClosing(c)
    <3>1. hpc[c] # "off"
      BY <2>1 DEF OldClosing
    <3>2. owner[c] \in Servers
      BY <3>1, HandlerOnLoop
    <3> QED
      BY <2>1, <3>2, TablesClosing
  <2> QED
    BY <1>6, <2>1, TablesEnter, TablesMessage, TablesLeave, TablesSwallows DEF Handle
<1> QED
  BY <1>1, <1>2, <1>4, <1>5, <1>6, TablesThreads, TablesAge DEF Next


-----------------------------------------------------------------------------
(* Every step keeps Files.                                                 *)

\* handle() is past add_chunk() and still has to finish with its session.
Busy(c) == hpc[c] \in {"ack", "save", "told", "error"}

LEMMA FilesInit == BridgeInit => Files
<1> SUFFICES ASSUME BridgeInit PROVE Files
  OBVIOUS
<1>1. FileTypes
  BY DEF BridgeInit, FileTypes, NoSession
<1>2. WholeIsProcessed /\ SavesWhole
  BY DEF BridgeInit, WholeIsProcessed, SavesWhole, NoSession
<1> QED
  BY <1>1, <1>2 DEF BridgeInit, Files, NoSession

\* Steps that leave the sessions alone, and the handlers that have one.
LEMMA FilesQuiet ==
  ASSUME Library, Tables, Files, UNCHANGED <<sessions, chunks>>, disk' \in {"none", "partial", "whole"},
         ref' \in [Conns -> 0..Len(chunks)],
         \A c \in Conns : /\ Busy(c) \/ Busy(c)' => hpc'[c] = hpc[c] /\ ref'[c] = ref[c]
                          /\ owner'[c] = owner[c] \/ task[c] = "none",
         \A g \in Servers : mpc'[g] \in {"wait", "heartbeat"} =>
                              mpc[g] \in {"wait", "heartbeat"} \/ sessions[g] = NoSession
  PROVE  Files'
<1>1. \A c \in Conns : Busy(c) \/ Busy(c)' => Busy(c) /\ Busy(c)' /\ owner'[c] = owner[c]
  BY DEF Busy, Tables, HandlersRun
<1>2. FileTypes'
  BY DEF Files, FileTypes
<1>3. \A c \in Conns : hpc'[c] \in {"ack", "save", "told", "error"} => ref'[c] # NoSession
  BY <1>1 DEF Files, Busy
<1>4. \A s : Whole(s)' <=> Whole(s)
  BY DEF Whole
<1>5. WholeIsProcessed'
  <2>1. ASSUME NEW g \in Servers, sessions'[g] # NoSession, Whole(sessions[g])', mpc'[g] \in {"wait", "heartbeat"}
        PROVE  \E c \in Conns : owner'[c] = g /\ hpc'[c] \in {"ack", "save", "told", "error"} /\ ref'[c] = sessions'[g]
    <3>1. PICK c \in Conns : owner[c] = g /\ Busy(c) /\ ref[c] = sessions[g]
      BY <1>4, <2>1 DEF Files, WholeIsProcessed, Busy
    <3> QED
      BY <1>1, <3>1 DEF Busy
  <2> QED
    BY <2>1 DEF WholeIsProcessed
<1>6. SavesWhole'
  BY <1>1 DEF Files, SavesWhole, Busy
<1>7. \A g, h \in Servers : sessions'[g] = sessions'[h] /\ sessions'[g] # NoSession => g = h
  BY DEF Files
<1> QED
  BY <1>2, <1>3, <1>5, <1>6, <1>7 DEF Files

\* A chunk goes into the session of its server, the one there is or a new
\* one, and into no other.
LEMMA ChunksGrow ==
  ASSUME Files, NEW c \in Conns, NEW g \in Servers, NEW i \in 0..Total, AddChunk(g, c, i)
  PROVE  /\ chunks' \in Seq(SUBSET (0..Total)) /\ Len(chunks') >= Len(chunks)
         /\ sessions' \in [Servers -> 0..Len(chunks')] /\ sessions'[g] # NoSession
         /\ \A h \in Servers \ {g} : sessions'[h] = sessions[h] /\ sessions'[h] # sessions'[g]
         /\ \A s \in 1..Len(chunks) : chunks[s] \subseteq chunks'[s] /\ (s # sessions'[g] => chunks'[s] = chunks[s])
<1>1. chunks \in Seq(SUBSET (0..Total)) /\ sessions \in [Servers -> 0..Len(chunks)] /\ Len(chunks) \in Nat
  BY DEF Files, FileTypes
<1>2. {i} \in SUBSET (0..Total)
  OBVIOUS
<1>3. CASE sessions[g] = NoSession
  <2>1. chunks' = Append(chunks, {i}) /\ sessions' = [sessions EXCEPT ![g] = Len(chunks) + 1]
    BY <1>3 DEF AddChunk
  <2>2. chunks' \in Seq(SUBSET (0..Total)) /\ Len(chunks') = Len(chunks) + 1
    BY <1>1, <1>2, <2>1
  <2>3. \A s \in 1..Len(chunks) : chunks'[s] = chunks[s]
    BY <1>1, <2>1
  <2>4. /\ sessions'[g] = Len(chunks) + 1
        /\ \A h \in Servers \ {g} : sessions'[h] = sessions[h] /\ sessions'[h] # sessions'[g]
    BY <1>1, <2>1
  <2>5. sessions' \in [Servers -> 0..Len(chunks')]
    BY <1>1, <2>1, <2>2
  <2> QED
    BY <1>1, <2>2, <2>3, <2>4, <2>5 DEF NoSession
<1>4. CASE sessions[g] # NoSession
  <2>1. chunks' = [chunks EXCEPT ![sessions[g]] = chunks[sessions[g]] \cup {i}] /\ sessions' = sessions
    BY <1>4 DEF AddChunk
  <2>2. sessions[g] \in 1..Len(chunks)
    BY <1>1, <1>4 DEF NoSession
  <2>3. chunks[sessions[g]] \cup {i} \in SUBSET (0..Total)
    BY <1>1, <1>2, <2>2
  <2>4. chunks' \in Seq(SUBSET (0..Total)) /\ Len(chunks') = Len(chunks)
    BY <1>1, <2>1, <2>2, <2>3
  <2>5. \A s \in 1..Len(chunks) : chunks[s] \subseteq chunks'[s] /\ (s # sessions[g] => chunks'[s] = chunks[s])
    BY <1>1, <2>1
  <2>6. \A h \in Servers \ {g} : sessions[h] # sessions[g]
    BY <1>4 DEF Files
  <2> QED
    BY <1>1, <1>4, <2>1, <2>4, <2>5, <2>6
<1> QED
  BY <1>3, <1>4

LEMMA FilesChunk ==
  ASSUME Library, Tables, Files, NEW c \in Conns, NEW i \in 0..Total, owner[c] \in Servers, hpc[c] = "recv",
         AddChunk(owner[c], c, i), UNCHANGED <<owner, mpc, disk>>
  PROVE  Files'
<1> DEFINE g == owner[c]
<1>1. /\ chunks' \in Seq(SUBSET (0..Total)) /\ Len(chunks') >= Len(chunks)
      /\ sessions' \in [Servers -> 0..Len(chunks')] /\ sessions'[g] # NoSession
      /\ \A h \in Servers \ {g} : sessions'[h] = sessions[h] /\ sessions'[h] # sessions'[g]
      /\ \A s \in 1..Len(chunks) : chunks[s] \subseteq chunks'[s] /\ (s # sessions'[g] => chunks'[s] = chunks[s])
  BY ChunksGrow
<1>2. ref' = [ref EXCEPT ![c] = sessions'[g]] /\ hpc' = [hpc EXCEPT ![c] = "ack"]
  BY DEF AddChunk, SetHandler
<1>3. g \in Servers
  OBVIOUS
<1> HIDE DEF g
<1>4. ref \in [Conns -> 0..Len(chunks)] /\ chunks \in Seq(SUBSET (0..Total)) /\ sessions \in [Servers -> 0..Len(chunks)]
  BY DEF Files, FileTypes
<1>5. FileTypes'
  <2>1. 0..Len(chunks) \subseteq 0..Len(chunks')
    BY <1>1, <1>4
  <2>2. ref' \in [Conns -> 0..Len(chunks')]
    BY <1>1, <1>2, <1>3, <1>4, <2>1
  <2> QED
    BY <1>1, <2>2 DEF Files, FileTypes
<1>6. \A d \in Conns : /\ d # c => ref'[d] = ref[d] /\ hpc'[d] = hpc[d]
                       /\ ref'[c] = sessions'[g] /\ hpc'[c] = "ack"
  BY <1>2, <1>4 DEF Tables, TableTypes
<1>7. \A h, k \in Servers : sessions'[h] = sessions'[k] /\ sessions'[h] # NoSession => h = k
  BY <1>1 DEF Files
<1>8. \A d \in Conns : hpc'[d] \in {"ack", "save", "told", "error"} => ref'[d] # NoSession
  BY <1>1, <1>6 DEF Files
<1>9. WholeIsProcessed'
  <2>1. ASSUME NEW h \in Servers, sessions'[h] # NoSession, Whole(sessions[h])', mpc'[h] \in {"wait", "heartbeat"}
        PROVE  \E d \in Conns : owner'[d] = h /\ hpc'[d] \in {"ack", "save", "told", "error"} /\ ref'[d] = sessions'[h]
    <3>1. CASE h = g
      BY <1>6, <3>1 DEF g
    <3>2. CASE h # g
      <4>1. sessions'[h] = sessions[h] /\ sessions[h] # sessions'[g] /\ sessions[h] \in 1..Len(chunks)
        BY <1>1, <1>4, <2>1, <3>2 DEF NoSession
      <4>2. Whole(sessions[h])
        BY <1>1, <2>1, <4>1 DEF Whole
      <4>3. PICK d \in Conns : owner[d] = h /\ hpc[d] \in {"ack", "save", "told", "error"} /\ ref[d] = sessions[h]
        BY <2>1, <4>1, <4>2 DEF Files, WholeIsProcessed
      <4>4. d # c
        BY <3>2, <4>3 DEF g
      <4> QED
        BY <1>6, <4>1, <4>3, <4>4
    <3> QED
      BY <3>1, <3>2
  <2> QED
    BY <2>1 DEF WholeIsProcessed
<1>10. SavesWhole'
  <2>1. ASSUME NEW d \in Conns, hpc'[d] \in {"save", "told"}
        PROVE  0..(Total - 1) \subseteq chunks'[ref'[d]]
    <3>1. d # c /\ hpc[d] \in {"save", "told"} /\ ref'[d] = ref[d]
      BY <1>6, <2>1
    <3>2. ref[d] \in 1..Len(chunks)
      BY <1>4, <3>1 DEF Files, NoSession
    <3>3. 0..(Total - 1) \subseteq chunks[ref[d]]
      BY <3>1 DEF Files, SavesWhole
    <3> QED
      BY <1>1, <3>1, <3>2, <3>3
  <2> QED
    BY <2>1 DEF SavesWhole
<1> QED
  BY <1>5, <1>7, <1>8, <1>9, <1>10 DEF Files

\* A whole session is complete: the count of its chunks is Total.
LEMMA WholeComplete ==
  ASSUME NEW s, Whole(s)
  PROVE  Complete(s)
<1>1. Total \in Nat /\ Total # 0
  BY BridgeAssumption DEF BridgeAssumption
<1>2. Cardinality(0..(Total - 1)) = Total
  BY <1>1, FS_Interval
<1> QED
  BY <1>2 DEF Whole, Complete


\* Told: the session is removed, with the handler that had it.
LEMMA FilesTold ==
  ASSUME Library, Tables, Files, Phases, NEW c \in Conns, Told(c)
  PROVE  Files'
<1>1. hpc[c] # "off"
  BY DEF Told
<1>2. owner[c] \in Servers
  BY <1>1, HandlerOnLoop
<1>3. UNCHANGED <<chunks, ref, disk, owner, mpc>>
  BY DEF Told, threadVars, serverVars
<1>4. \A d \in Conns : d # c => hpc'[d] = hpc[d]
  BY DEF Told, SetHandler, Tables, TableTypes
<1>5. hpc'[c] = "recv"
  BY DEF Told, SetHandler, Tables, TableTypes
<1>6. sessions'[owner[c]] = NoSession /\ \A h \in Servers \ {owner[c]} : sessions'[h] = sessions[h]
  BY <1>2 DEF Told, Files, FileTypes
<1>7. FileTypes'
  <2>1. NoSession \in 0..Len(chunks)
    BY DEF NoSession, Files, FileTypes
  <2> QED
    BY <1>3, <2>1 DEF Told, Files, FileTypes
<1>8. \A h, k \in Servers : sessions'[h] = sessions'[k] /\ sessions'[h] # NoSession => h = k
  BY <1>6 DEF Files
<1>9. \A d \in Conns : hpc'[d] \in {"ack", "save", "told", "error"} => ref'[d] # NoSession
  BY <1>3, <1>4, <1>5 DEF Files
<1>10. WholeIsProcessed'
  <2>1. ASSUME NEW h \in Servers, sessions'[h] # NoSession, Whole(sessions[h])', mpc'[h] \in {"wait", "heartbeat"}
        PROVE  \E d \in Conns : owner'[d] = h /\ hpc'[d] \in {"ack", "save", "told", "error"} /\ ref'[d] = sessions'[h]
    <3>1. h # owner[c] /\ sessions'[h] = sessions[h]
      BY <1>6, <2>1
    <3>2. Whole(sessions[h])
      BY <1>3, <2>1, <3>1 DEF Whole
    <3>3. PICK d \in Conns : owner[d] = h /\ hpc[d] \in {"ack", "save", "told", "error"} /\ ref[d] = sessions[h]
      BY <1>3, <2>1, <3>1, <3>2 DEF Files, WholeIsProcessed
    <3> QED
      BY <1>3, <1>4, <3>1, <3>3
  <2> QED
    BY <2>1 DEF WholeIsProcessed
<1>11. SavesWhole'
  BY <1>3, <1>4, <1>5 DEF Files, SavesWhole
<1> QED
  BY <1>7, <1>8, <1>9, <1>10, <1>11 DEF Files

\* The ack is out: only the handler of a session that is not whole goes on
\* without writing the file.
LEMMA FilesSave ==
  ASSUME Library, Tables, Files, NEW c \in Conns, Busy(c), UNCHANGED <<sessions, chunks, ref, owner, mpc>>,
         disk' \in {"none", "partial", "whole"}, NEW pc, hpc' = [hpc EXCEPT ![c] = pc],
         pc \in {"save", "told"} => Whole(ref[c]) \/ hpc[c] \in {"save", "told"},
         pc \in {"save", "told", "error"} \/ (pc = "recv" /\ ~Whole(ref[c]))
  PROVE  Files'
<1>1. \A d \in Conns : hpc'[d] = IF d = c THEN pc ELSE hpc[d]
  BY DEF Tables, TableTypes
<1>2. \A s : Whole(s)' <=> Whole(s)
  BY DEF Whole
<1>3. FileTypes' /\ \A h, k \in Servers : sessions'[h] = sessions'[k] /\ sessions'[h] # NoSession => h = k
  BY DEF Files, FileTypes
<1>4. \A d \in Conns : hpc'[d] \in {"ack", "save", "told", "error"} => ref'[d] # NoSession
  BY <1>1 DEF Files, Busy
<1>5. WholeIsProcessed'
  <2>1. ASSUME NEW h \in Servers, sessions'[h] # NoSession, Whole(sessions[h])', mpc'[h] \in {"wait", "heartbeat"}
        PROVE  \E d \in Conns : owner'[d] = h /\ hpc'[d] \in {"ack", "save", "told", "error"} /\ ref'[d] = sessions'[h]
    <3>1. PICK d \in Conns : owner[d] = h /\ Busy(d) /\ ref[d] = sessions[h]
      BY <1>2, <2>1 DEF Files, WholeIsProcessed, Busy
    <3>2. d = c => Whole(ref[c])
      BY <1>2, <2>1, <3>1
    <3> QED
      BY <1>1, <3>1, <3>2 DEF Busy
  <2> QED
    BY <2>1 DEF WholeIsProcessed
<1>6. SavesWhole'
  <2>1. Whole(ref[c]) => 0..(Total - 1) \subseteq chunks[ref[c]]
    BY DEF Whole
  <2> QED
    BY <1>1, <2>1 DEF Files, SavesWhole
<1> QED
  BY <1>3, <1>4, <1>5, <1>6 DEF Files

\* A handler that ends in the middle of an upload was cancelled by _main,
\* which waits for nothing any more.
LEMMA FilesEnds ==
  ASSUME Library, Tables, Files, Phases, NEW c \in Conns, HandleCancelled(c)
  PROVE  Files'
<1>1. UNCHANGED <<sessions, chunks, disk, owner, mpc>>
  BY DEF HandleCancelled, HandlerCancelled, threadVars
<1>2. \A d \in Conns : hpc'[d] = IF d = c THEN "off" ELSE hpc[d]
  BY DEF HandleCancelled, CleanUp, SetHandler, Tables, TableTypes
<1>3. ref' \in [Conns -> 0..Len(chunks)] /\ \A d \in Conns : d # c => ref'[d] = ref[d]
  <2>1. NoSession \in 0..Len(chunks)
    BY DEF NoSession, Files, FileTypes
  <2>2. ref' = ref \/ ref' = [ref EXCEPT ![c] = NoSession]
    BY DEF HandleCancelled, CleanUp
  <2> QED
    BY <2>1, <2>2 DEF Files, FileTypes
<1>4. mpc[owner[c]] \notin {"wait", "heartbeat"}
  BY DEF HandleCancelled, Phases
<1>5. FileTypes' /\ \A h, k \in Servers : sessions'[h] = sessions'[k] /\ sessions'[h] # NoSession => h = k
  BY <1>1, <1>3 DEF Files, FileTypes
<1>6. \A d \in Conns : hpc'[d] \in {"ack", "save", "told", "error"} => ref'[d] # NoSession
  BY <1>2, <1>3 DEF Files
<1>7. WholeIsProcessed'
  <2>1. ASSUME NEW h \in Servers, sessions'[h] # NoSession, Whole(sessions[h])', mpc'[h] \in {"wait", "heartbeat"}
        PROVE  \E d \in Conns : owner'[d] = h /\ hpc'[d] \in {"ack", "save", "told", "error"} /\ ref'[d] = sessions'[h]
    <3>1. Whole(sessions[h])
      BY <1>1, <2>1 DEF Whole
    <3>2. PICK d \in Conns : owner[d] = h /\ hpc[d] \in {"ack", "save", "told", "error"} /\ ref[d] = sessions[h]
      BY <1>1, <2>1, <3>1 DEF Files, WholeIsProcessed
    <3>3. d # c
      BY <1>1, <1>4, <2>1, <3>2
    <3> QED
      BY <1>1, <1>2, <1>3, <3>2, <3>3
  <2> QED
    BY <2>1 DEF WholeIsProcessed
<1>8. SavesWhole'
  BY <1>1, <1>2, <1>3 DEF Files, SavesWhole
<1> QED
  BY <1>5, <1>6, <1>7, <1>8 DEF Files


\* HandleEnds: a handler that receives has no session to finish.
LEMMA FilesReturn ==
  ASSUME Library, Tables, Files, NEW c \in Conns, HandleEnds(c)
  PROVE  Files'
<1>1. UNCHANGED <<sessions, chunks, disk, owner, mpc>>
  BY DEF HandleEnds, HandlerReturn, threadVars
<1>2. hpc[c] = "recv" /\ \A d \in Conns : hpc'[d] = IF d = c THEN "off" ELSE hpc[d]
  BY DEF HandleEnds, CleanUp, SetHandler, Tables, TableTypes
<1>3. ref' \in [Conns -> 0..Len(chunks)] /\ \A d \in Conns : d # c => ref'[d] = ref[d]
  <2>1. NoSession \in 0..Len(chunks)
    BY DEF NoSession, Files, FileTypes
  <2> QED
    BY <2>1 DEF HandleEnds, CleanUp, Files, FileTypes
<1>4. disk' \in {"none", "partial", "whole"}
  BY <1>1 DEF Files, FileTypes
<1> QED
  BY <1>1, <1>2, <1>3, <1>4, FilesQuiet DEF Busy

\* async for message: a chunk goes into the session, the rest leaves it.
LEMMA FilesReceive ==
  ASSUME Library, Tables, Files, Phases, NEW c \in Conns, Receive(c)
  PROVE  Files'
<1>1. hpc[c] = "recv" /\ UNCHANGED <<owner, mpc>>
  BY DEF Receive, threadVars, serverVars
<1>2. owner[c] \in Servers
  BY <1>1, HandlerOnLoop
<1>3. Head(inbox[c]) \in Messages
  BY DEF Receive, Tables, TableTypes
<1> DEFINE m == Head(inbox[c])
<1>4. CASE m.kind = "chunk" /\ AddChunk(owner[c], c, m.i) /\ disk' = disk
  <2>1. m.i \in 0..Total
    BY <1>3, BridgeAssumption DEF Messages, BridgeAssumption
  <2> QED
    BY <1>1, <1>2, <1>4, <2>1, FilesChunk
<1>5. CASE Dispatch(owner[c], c, m) /\ UNCHANGED fileVars
  <2>1. UNCHANGED <<sessions, chunks, ref, disk>>
    BY <1>5 DEF fileVars
  <2>2. \A d \in Conns : hpc'[d] = hpc[d] \/ (hpc[d] = "recv" /\ hpc'[d] \in {"recv", "reply"})
    BY <1>1, <1>5 DEF Dispatch, SetHandler, Tables, TableTypes
  <2> QED
    BY <1>1, <2>1, <2>2, FilesQuiet DEF Busy, Files, FileTypes
<1> QED
  BY <1>4, <1>5 DEF Receive

LEMMA FilesHandle ==
  ASSUME Library, Tables, Files, Phases, NEW c \in Conns, HandleStart(c) \/ Handle(c)
  PROVE  Files'
<1>1. CASE Acked(c)
  <2>1. UNCHANGED <<sessions, chunks, ref, owner, mpc>> /\ Busy(c)
    BY <1>1 DEF Acked, threadVars, serverVars, Busy
  <2>2. CASE Complete(ref[c]) /\ Whole(ref[c])
    BY <1>1, <2>1, <2>2, FilesSave DEF Acked, SetHandler
  <2>3. CASE ~(Complete(ref[c]) /\ Whole(ref[c]))
    <3>1. ~Whole(ref[c]) /\ disk' = disk /\ hpc' = [hpc EXCEPT ![c] = "recv"]
      BY <1>1, <2>3, WholeComplete DEF Acked, SetHandler
    <3> QED
      BY <2>1, <3>1, FilesSave DEF Files, FileTypes
  <2> QED
    BY <2>2, <2>3
<1>2. CASE Saved(c)
  <2>1. UNCHANGED <<sessions, chunks, ref, owner, mpc>> /\ Busy(c) /\ hpc[c] = "save"
    BY <1>2 DEF Saved, threadVars, serverVars, Busy
  <2>2. disk' \in {"none", "partial", "whole"}
    BY <1>2 DEF Saved, Files, FileTypes
  <2>3. PICK pc \in {"told", "error"} : hpc' = [hpc EXCEPT ![c] = pc]
    BY <1>2 DEF Saved, SetHandler
  <2> QED
    BY <2>1, <2>2, <2>3, FilesSave
<1>3. CASE OldClosing(c) \/ OldClosed(c) \/ Replied(c) \/ HandleStart(c) \/ HandleSwallows(c)
  <2>1. UNCHANGED <<sessions, chunks, ref, disk, owner, mpc>>
    BY <1>3 DEF OldClosing, OldClosed, Replied, HandleStart, HandleSwallows, CancelSwallowed, HandleOnly, threadVars,
       fileVars, serverVars, HandshakeOpen
  <2>2. \A d \in Conns : hpc'[d] = hpc[d] \/ (d = c /\ hpc[c] \in {"off", "replace", "reply"} /\ hpc'[c] \in {"recv", "replace"})
    <3>1. HandleStart(c) => hpc[c] = "off"
      BY DEF HandleStart, HandshakeOpen, Tables, HandlersRun
    <3> QED
      BY <1>3, <3>1 DEF OldClosing, OldClosed, Replied, HandleStart, HandleSwallows, Replace, Enrol, SetHandler,
         Tables, TableTypes
  <2> QED
    BY <2>1, <2>2, FilesQuiet DEF Busy, Files, FileTypes
<1> QED
  BY <1>1, <1>2, <1>3, FilesTold, FilesEnds, FilesReturn, FilesReceive DEF Handle

LEMMA FilesNext ==
  ASSUME Library, Threads, Phases, Tables, Files, Next
  PROVE  Files'
<1>1. CASE TaskStart
  <2>1. PICK n \in Servers : mpc[n] = "off" /\ mpc' = [mpc EXCEPT ![n] = "thread"]
    BY <1>1, StartsNew
  <2>2. UNCHANGED <<sessions, chunks, ref, disk, owner, hpc>>
    BY <1>1 DEF TaskStart, serverVars, fileVars, appVars
  <2>3. \A g \in Servers : mpc'[g] = mpc[g] \/ mpc'[g] = "thread"
    BY <2>1 DEF Threads, ThreadTypes
  <2> QED
    BY <2>2, <2>3, FilesQuiet DEF Busy, Files, FileTypes
<1>2. CASE TaskStop \/ JoinReturns \/ Import
  <2>1. UNCHANGED <<sessions, chunks, ref, owner, hpc, mpc>> /\ disk' \in {disk, "none"}
    BY <1>2 DEF TaskStop, JoinReturns, Import, ImportMissing, ImportStart, ImportEnd, Notified, ImportOnly, serverVars,
       fileVars, appVars
  <2> QED
    BY <2>1, FilesQuiet DEF Busy, Files, FileTypes
<1>3. ASSUME NEW g \in Servers, Main(g)
      PROVE  Files'
  <2>1. UNCHANGED <<sessions, chunks, ref, disk, owner, hpc>>
    BY <1>3 DEF Main, RunLoop, Bind, MainStopped, MainCancels, MainLeaves, MainEnds, serverVars, fileVars, appVars,
       Listen, Close, CloseOnly
  <2>2. PICK from, to : mpc[g] = from /\ mpc' = [mpc EXCEPT ![g] = to]
                        /\ (to \in {"wait", "heartbeat"} => from \in {"loop", "wait"})
    BY <1>3 DEF Main, RunLoop, Bind, MainStopped, MainCancels, MainLeaves, MainEnds, MainGo
  <2>3. mpc[g] = "loop" => sessions[g] = NoSession
    BY DEF Phases
  <2>4. \A h \in Servers : mpc'[h] \in {"wait", "heartbeat"} => mpc[h] \in {"wait", "heartbeat"} \/ sessions[h] = NoSession
    BY <2>2, <2>3 DEF Threads, ThreadTypes
  <2> QED
    BY <2>1, <2>4, FilesQuiet DEF Busy, Files, FileTypes
<1>4. ASSUME NEW g \in Servers, Heartbeat(g) \/ Shutdown(g) \/ \E c \in Conns : Arrive(c, g)
      PROVE  Files'
  <2>1. UNCHANGED <<sessions, chunks, ref, disk, hpc, mpc>>
    BY <1>4 DEF Heartbeat, HbWake, HbClosed, HbCancelled, HbSwallowed, HbOnly, Shutdown, Arrive, BridgeOnly,
       threadVars, appVars, fileVars
  <2>2. CASE \E c \in Conns : Arrive(c, g)
    <3>1. PICK c \in Conns : task[c] = "none" /\ owner' = [owner EXCEPT ![c] = g]
      BY <2>2 DEF Arrive, Accept
    <3>2. \A d \in Conns : owner'[d] = owner[d] \/ task[d] = "none"
      BY <3>1 DEF Library, ServerTypes
    <3> QED
      BY <2>1, <3>2, FilesQuiet DEF Busy, Files, FileTypes
  <2>3. CASE Heartbeat(g) \/ Shutdown(g)
    <3>1. owner' = owner
      BY <2>3 DEF Heartbeat, HbWake, HbClosed, HbCancelled, HbSwallowed, HbOnly, serverVars, Shutdown, ServerClose,
         CloseConnections,
         CloseTasksDone, ConnectionsClosed, AwaitHandlers, HandlersDone, CloseOne, CloseOnly
    <3> QED
      BY <2>1, <3>1, FilesQuiet DEF Busy, Files, FileTypes
  <2> QED
    BY <1>4, <2>2, <2>3
<1>5. ASSUME NEW c \in Conns, Connection(c) \/ Lost(c) \/ Age(c) \/ \E m \in Messages : PeerSend(c, m)
      PROVE  Files'
  <2>1. UNCHANGED <<sessions, chunks, ref, disk, hpc, mpc>>
    BY <1>5 DEF Connection, Lost, Age, PeerSend, BridgeOnly, threadVars, appVars, fileVars
  <2>2. owner' = owner
    BY <1>5 DEF Connection, ConnectionMade, ReadRequest, HandshakeDropped, HandshakeRefused, HandshakeTimeout, RejectDone,
       CloseDone, Drop, Reject, Lost, ConnectionLost, Age, PeerSend, serverVars
  <2> QED
    BY <2>1, <2>2, FilesQuiet DEF Busy, Files, FileTypes
<1> QED
  BY <1>1, <1>2, <1>3, <1>4, <1>5, FilesHandle DEF Next


-----------------------------------------------------------------------------
(* The invariant, and what it says of every reachable state.               *)

LEMMA IInvInit == BridgeInit => IInv
BY LibraryInit, ThreadsInit, PhasesInit, TablesInit, FilesInit DEF IInv, BridgeInit

LEMMA IInvNext == IInv /\ Next => IInv'
<1> SUFFICES ASSUME IInv, Next PROVE IInv'
  OBVIOUS
<1>1. Library /\ Threads /\ Phases /\ Tables /\ Files /\ FileTypes
  BY DEF IInv, Files
<1> QED
  BY <1>1, LibraryNext, ThreadsNext, PhasesNext, TablesNext, FilesNext DEF IInv

LEMMA IInvSame == IInv /\ UNCHANGED vars => IInv'
<1> SUFFICES ASSUME IInv, UNCHANGED vars PROVE IInv'
  OBVIOUS
<1>1. UNCHANGED <<serverVars, threadVars, hbVars, regVars, peerVars, appVars, fileVars>>
  BY DEF vars
<1>2. Library'
  BY <1>1 DEF IInv, Library, ServerTypes, ConnPhases, ClosePhases, NoneOpensBehindClose, ClosedMeansHandlersDone, serverVars
<1>3. Threads'
  BY <1>1, ThreadsSame DEF IInv
<1>4. Phases'
  BY <1>1 DEF IInv, Phases, serverVars, threadVars, appVars, fileVars
<1>5. Tables'
  <2>1. UNCHANGED <<serverVars, regVars, hpc, olds, cancelled, inbox, mpc, stop, abandoned>>
    BY <1>1 DEF threadVars, appVars, peerVars
  <2>2. cancelled' \subseteq Conns /\ inbox' \in [Conns -> Seq(Messages)]
    BY <2>1 DEF IInv, Tables, TableTypes
  <2> QED
    BY <2>1, <2>2, TablesQuiet DEF IInv, Running, serverVars
<1>6. Files'
  BY <1>1, FilesQuiet DEF IInv, Files, FileTypes, Busy, serverVars, threadVars, appVars, fileVars
<1> QED
  BY <1>2, <1>3, <1>4, <1>5, <1>6 DEF IInv

(* The invariant holds in every state, for any constants.                   *)
THEOREM InvariantHolds == Spec => []IInv
<1>1. IInv /\ [Next]_vars => IInv'
  BY IInvNext, IInvSame
<1> QED
  BY <1>1, IInvInit, PTL DEF Spec

(* The tables of the server agree with the clients there are: no client is  *)
(* served that the table, or the handler replacing it, does not know, the   *)
(* heartbeat watches every registered client, and the sidebar says          *)
(* "connected" exactly while a client is there, in handle(),                *)
(* _check_heartbeat() and _main.                                            *)
THEOREM TablesAlwaysTellClients == Spec => []TablesTellClients
<1>1. IInv => TypeOK
  BY DEF IInv, Library, ServerTypes, Threads, ThreadTypes, Tables, TableTypes, OncePerTable, Files, FileTypes, TypeOK
<1>2. IInv => TablesTellClients
  BY <1>1 DEF IInv, Tables, TablesTellClients
<1> QED
  BY <1>2, InvariantHolds, PTL

(* An upload of file_transfer.py is processed when it is whole and only     *)
(* then, whoever sent its chunks and in whatever order they came.           *)
THEOREM UploadsAlwaysWhole == Spec => []UploadsWhole
<1>1. IInv => UploadsWhole
  BY DEF IInv, Files, UploadsWhole
<1> QED
  BY <1>1, InvariantHolds, PTL

(* When the thread of a server ends its tables are empty, no handler is     *)
(* left and no connection is OPEN, whichever handlers, heartbeats and       *)
(* close()s swallowed the cancellation of _main.                            *)
THEOREM ServerAlwaysEndsClean == Spec => []ServerEndsClean
<1>1. IInv => EndsClean
  <2>1. ASSUME IInv, NEW g \in Servers, mpc[g] = "ended"
        PROVE  /\ sockets[g] = <<>> /\ lastPing[g] = [c \in Conns |-> "none"] /\ info[g] = {}
               /\ \A c \in Conns : owner[c] = g => ~Live(c) /\ task[c] = "done" /\ conn[c] # "OPEN"
    <3>1. \A c \in Conns : owner[c] = g => task[c] = "done" /\ conn[c] # "OPEN"
      BY <2>1 DEF IInv, Phases, Library, ConnPhases
    <3>2. \A c \in Conns : owner[c] = g => ~Live(c) /\ ~Enrolled(c)
      BY <2>1, <3>1 DEF IInv, Tables, HandlersRun, Live, Enrolled
    <3>3. \A c \in Conns : ~InSeq(c, sockets[g]) /\ lastPing[g][c] = "none" /\ c \notin info[g]
      BY <2>1, <3>2 DEF IInv, Tables, EntriesLive
    <3>4. sockets[g] \in Seq(Conns) /\ lastPing[g] \in [Conns -> {"none", "recent", "old"}] /\ info[g] \in SUBSET Conns
      BY <2>1 DEF IInv, Tables, TableTypes
    <3>5. sockets[g] = <<>>
      BY <3>3, <3>4, EmptySeq
    <3>6. lastPing[g] = [c \in Conns |-> "none"] /\ info[g] = {}
      BY <3>3, <3>4
    <3> QED
      BY <3>1, <3>2, <3>5, <3>6
  <2> QED
    BY <2>1 DEF EndsClean
<1>2. IInv => ServerEndsClean
  BY <1>1 DEF IInv, Library, ServerEndsClean
<1> QED
  BY <1>2, InvariantHolds, PTL

=============================================================================
