--------------------------- MODULE LegacyProtocol ---------------------------
(***************************************************************************)
(* WebSocketCommonProtocol of the websockets library bundled with the      *)
(* Blender bridge (lib/websockets/legacy/protocol.py): one endpoint of one *)
(* connection, after the TCP connection is made.                           *)
(*                                                                         *)
(* asyncio runs one task at a time and switches only at an await, so every *)
(* action is the code between two awaits of one task:                      *)
(*   - transfer_data reads frames and queues messages           (Td...)    *)
(*   - keepalive_ping sends pings and waits for pongs           (Ka...)    *)
(*   - close_connection closes the TCP connection               (Cc...)    *)
(*   - the application's tasks call recv, send, close, broadcast           *)
(* and the event loop calls the asyncio.Protocol callbacks.  A task that   *)
(* drains the write buffer keeps the state of its drain in wr[task].       *)
(*                                                                         *)
(* Payloads are abstracted to the serial number of the peer's frame; a     *)
(* message is the serial of its first frame.  A timeout is an action that  *)
(* may be taken whenever the code waits under that timeout.                *)
(***************************************************************************)
EXTENDS Naturals, Sequences, FiniteSets

CONSTANTS
  Configs,    \* the scenarios, records described below
  MaxQueue,   \* max_queue, the length limit of the message queue
  Receivers,  \* application tasks that call recv()
  Senders,    \* application tasks that call send() once
  Closers,    \* application tasks that call close() once
  MaxIn,      \* bound: frames the peer sends
  MaxPings,   \* bound: keepalive pings
  MaxLoad     \* bound: the load of every scenario

ASSUME LegacyAssumption ==
  /\ MaxQueue \in Nat \ {0} /\ MaxIn \in Nat /\ MaxPings \in Nat /\ MaxLoad \in Nat
  /\ \A c \in Configs : c.load <= MaxLoad

(* A scenario: client (the endpoint waits for the server's TCP close), eof  *)
(* (transport.can_write_eof(): no TLS), pieces[s] (fragments of s's         *)
(* message, 0 when it is not fragmented), ops (kinds of frame the peer      *)
(* sends), calls (what the application does: its tasks, "broadcast", and    *)
(* "keepalive" when ping_interval is set), pause (whether the write buffer  *)
(* ever passes its high-water mark) and load, the number of frames of the   *)
(* peer, pings and calls of the application together.                       *)

None == 0
NoTask == "none"
NORMAL == 1000
PROTOCOL_ERROR == 1002
ABNORMAL == 1006
INVALID_DATA == 1007
TOO_BIG == 1009
INTERNAL == 1011

VARIABLES
  cfg,          \* the scenario
  state,        \* self.state
  closeRcvd,    \* self.close_rcvd, its code
  closeSent,    \* self.close_sent, its code
  rcvdThenSent, \* self.close_rcvd_then_sent: "none", "yes", "no"
  inbox,        \* frames buffered by self.reader
  rdEnd,        \* end of self.reader: "no", "eof" or "exc"
  transport,    \* "open", "closing" or "aborted"
  lost,         \* connection_lost_waiter.done()
  paused,       \* self._paused
  drainWaiter,  \* task whose future is self._drain_waiter
  wr,           \* per task: its drain
  messages,     \* self.messages
  popWaiter,    \* receiver whose future is self._pop_message_waiter
  popDone,      \* per receiver: its future is done
  putWaiter,    \* self._put_message_waiter is pending
  fragWaiter,   \* sender whose future is self._fragmented_message_waiter
  pings,        \* keys of self.pings, in chronological order
  pongs,        \* per ping: "pending", "done" or "failed"
  td, ka, cc,   \* the three tasks' program counters
  tdMsg,        \* message being reassembled or waiting for room
  tdCancel,     \* transfer_data_task.cancel() called: "no", "req", "self"
  recvPc, sendPc, left, closePc,
  delivered,    \* history: messages returned by recv(), in order
  sent,         \* history: frames written, in order
  serial

queueVars == <<messages, popWaiter, popDone, putWaiter, delivered>>
closeVars == <<cfg, state, closeRcvd, closeSent, rcvdThenSent>>
netVars == <<cfg, inbox, rdEnd, transport, lost, serial>>
writeVars == <<paused, drainWaiter, wr, sent>>
pingVars == <<pings, pongs>>
tdVars == <<td, tdMsg, tdCancel>>
appVars == <<recvPc, sendPc, left, closePc, fragWaiter>>
vars == <<queueVars, closeVars, netVars, writeVars, pingVars, tdVars, ka, cc, appVars>>

Tasks == {"td", "ka"} \cup Senders \cup Closers

ASSUME TasksAssumption == NoTask \notin Tasks \cup Receivers

(* Frame.read and Frame.check: what makes transfer_data fail, by exception. *)
FrameError(op) ==
  CASE op = "bad"  -> PROTOCOL_ERROR
    [] op = "utf8" -> INVALID_DATA
    [] op = "big"  -> TOO_BIG
    [] OTHER       -> None

Frame(op, n) == [op |-> op, n |-> n]
TdDone == td = "done"
IsOpen == state = "OPEN" /\ ~TdDone   \* ensure_open() returns at once

(* The close_code property.                                                 *)
CloseCode == IF state # "CLOSED" THEN None ELSE IF closeRcvd = None THEN ABNORMAL ELSE closeRcvd

Init ==
  /\ cfg \in Configs
  /\ state = "CONNECTING" /\ closeRcvd = None /\ closeSent = None /\ rcvdThenSent = "none"
  /\ inbox = <<>> /\ rdEnd = "no" /\ transport = "open" /\ lost = FALSE /\ serial = 0
  /\ paused = FALSE /\ drainWaiter = NoTask /\ wr = [t \in Tasks |-> "none"] /\ sent = <<>>
  /\ messages = <<>> /\ popWaiter = NoTask /\ popDone = [r \in Receivers |-> FALSE]
  /\ putWaiter = FALSE /\ delivered = <<>> /\ fragWaiter = NoTask
  /\ pings = <<>> /\ pongs = [p \in 1..MaxPings |-> "pending"]
  /\ td = "off" /\ ka = "off" /\ cc = "off" /\ tdMsg = None /\ tdCancel = "no"
  /\ recvPc = [r \in Receivers |-> "idle"] /\ closePc = [c \in Closers |-> "idle"]
  /\ sendPc = [s \in Senders |-> "idle"] /\ left = cfg.pieces

-----------------------------------------------------------------------------
(* Writing.                                                                *)

(* _drain_helper() with the write buffer as the write left it.  Only one    *)
(* future fits in self._drain_waiter: a second task fails its assertion.    *)
DrainHelper(t, full) ==
  IF ~full THEN wr' = [wr EXCEPT ![t] = "ok"] /\ UNCHANGED drainWaiter
  ELSE IF drainWaiter # NoTask THEN wr' = [wr EXCEPT ![t] = "assert"] /\ UNCHANGED drainWaiter
  ELSE wr' = [wr EXCEPT ![t] = "wait"] /\ drainWaiter' = t

(* write_frame_sync(): transport.write may pass the high-water mark, which  *)
(* calls pause_writing().                                                   *)
WriteSync(f) ==
  /\ sent' = Append(sent, f)
  /\ paused' \in IF cfg.pause /\ transport = "open" THEN {paused, TRUE} ELSE {paused}

(* write_frame(): write, then drain(); on a closing transport _drain()      *)
(* first yields to the event loop.                                          *)
WriteFrame(t, f) ==
  /\ WriteSync(f)
  /\ IF transport # "open" THEN wr' = [wr EXCEPT ![t] = "yield"] /\ UNCHANGED drainWaiter
                           ELSE DrainHelper(t, paused')

(* _drain() after its sleep(0).                                             *)
DrainYielded(t) ==
  /\ wr[t] = "yield"
  /\ IF lost THEN wr' = [wr EXCEPT ![t] = "err"] /\ UNCHANGED drainWaiter
             ELSE DrainHelper(t, paused)
  /\ UNCHANGED <<paused, sent, queueVars, closeVars, netVars, pingVars, tdVars, ka, cc, appVars>>

(* A cancelled task leaves a cancelled future in self._drain_waiter.        *)
DropDrain(t) ==
  /\ wr' = [wr EXCEPT ![t] = "none"]
  /\ drainWaiter' = IF drainWaiter = t THEN NoTask ELSE drainWaiter

Drained(t) == wr' = [wr EXCEPT ![t] = "none"] /\ UNCHANGED <<drainWaiter, paused, sent>>

(* transfer_data_task.cancel(): ignored when the task is done.              *)
CancelTd == tdCancel' = IF td \in {"off", "done"} \/ tdCancel # "no" THEN tdCancel ELSE "req"

(* Mutated: the state is not tested before the close frame is written.      *)
FailCloseUntested(code) ==
  IF code # ABNORMAL /\ state # "CONNECTING"
  THEN /\ state' = IF state = "OPEN" THEN "CLOSING" ELSE state
       /\ closeSent' = code /\ WriteSync(Frame("close", code))
       /\ UNCHANGED <<closeRcvd, rcvdThenSent>>
  ELSE UNCHANGED <<closeVars, sent, paused>>

(* fail_connection(code), but for the cancellation of transfer_data_task.   *)
FailClose(code) ==
  IF code # ABNORMAL /\ state = "OPEN"
  THEN /\ state' = "CLOSING" /\ closeSent' = code
       /\ WriteSync(Frame("close", code))
       /\ UNCHANGED <<closeRcvd, rcvdThenSent>>
  ELSE UNCHANGED <<closeVars, sent, paused>>

(* write_close_frame(): the state is tested and set before writing.         *)
WriteClose(t, code, rcvd) ==
  /\ state = "OPEN"
  /\ state' = "CLOSING" /\ closeSent' = code /\ closeRcvd' = rcvd
  /\ rcvdThenSent' = IF rcvd # None THEN "yes" ELSE rcvdThenSent
  /\ WriteFrame(t, Frame("close", code))

(* The bound on what the environment asks of the endpoint.                 *)
Written(op) == Cardinality({i \in DOMAIN sent : sent[i].op = op})
PingsSent == Written("ping")
MayAsk ==
  cfg.load > serial + PingsSent + Written("cast")
            + Cardinality({s \in Senders : sendPc[s] # "idle"})
            + Cardinality({c \in Closers : closePc[c] # "idle"})

-----------------------------------------------------------------------------
(* The opening handshake belongs to the subclasses: on success it calls     *)
(* connection_open(), on failure fail_connection().                         *)

ConnectionOpen ==
  /\ state = "CONNECTING" /\ cc = "off"
  /\ state' = "OPEN" /\ td' = "read" /\ ka' = "sleep" /\ cc' = "td"
  /\ UNCHANGED <<closeRcvd, closeSent, rcvdThenSent, tdMsg, tdCancel, queueVars, netVars,
                 writeVars, pingVars, appVars>>

FailHandshake ==
  /\ td = "off" /\ cc = "off"
  /\ cc' = "td"
  /\ UNCHANGED <<queueVars, closeVars, netVars, writeVars, pingVars, tdVars, ka, appVars>>

-----------------------------------------------------------------------------
(* Callbacks of the event loop, driven by the peer and the network.         *)

(* data_received(): one frame of the peer reaches self.reader.              *)
DataReceived(op) ==
  /\ MayAsk /\ serial < MaxIn /\ transport = "open" /\ rdEnd = "no"
  /\ state # "CONNECTING"
  /\ \E n \in IF op = "pong" THEN 0..Len(pings) ELSE {serial + 1} :
       inbox' = Append(inbox, Frame(op, IF n = 0 \/ op # "pong" THEN n ELSE pings[n]))
  /\ serial' = serial + 1
  /\ UNCHANGED <<rdEnd, transport, lost, queueVars, closeVars, writeVars, pingVars, tdVars,
                 ka, cc, appVars>>

(* eof_received() returns None, so the transport closes itself.             *)
EofReceived ==
  /\ rdEnd = "no" /\ transport = "open"
  /\ rdEnd' = "eof" /\ transport' = "closing"
  /\ UNCHANGED <<inbox, lost, serial, queueVars, closeVars, writeVars, pingVars, tdVars, ka, cc,
                 appVars>>

(* connection_lost(exc): exc is None once a closing transport has flushed   *)
(* its buffer or was aborted, and an exception when the network failed.     *)
(* abort_pings() fails the pings; a task paused in drain() wakes.           *)
ConnectionLost(exc) ==
  /\ ~lost
  /\ exc \/ transport = "aborted" \/ (transport = "closing" /\ ~paused)
  /\ lost' = TRUE /\ state' = "CLOSED"
  /\ rdEnd' = IF exc THEN "exc" ELSE "eof"
  /\ transport' = IF transport = "open" THEN "closing" ELSE transport
  /\ pongs' = [p \in DOMAIN pongs |->
                 IF \E i \in DOMAIN pings : pings[i] = p THEN "failed" ELSE pongs[p]]
  /\ IF paused /\ drainWaiter # NoTask
     THEN /\ wr' = [wr EXCEPT ![drainWaiter] = IF exc THEN "err" ELSE "ok"]
          /\ drainWaiter' = NoTask
     ELSE UNCHANGED <<wr, drainWaiter>>
  /\ UNCHANGED <<cfg, closeRcvd, closeSent, rcvdThenSent, inbox, serial, paused, sent, pings,
                 queueVars, tdVars, ka, cc, appVars>>

ResumeWriting ==
  /\ paused /\ ~lost /\ transport # "aborted"
  /\ paused' = FALSE /\ drainWaiter' = NoTask
  /\ wr' = IF drainWaiter = NoTask THEN wr ELSE [wr EXCEPT ![drainWaiter] = "ok"]
  /\ UNCHANGED <<sent, queueVars, closeVars, netVars, pingVars, tdVars, ka, cc, appVars>>

-----------------------------------------------------------------------------
(* transfer_data().                                                        *)

(* Leaving the loop: on a close frame, on an exception (which fails the     *)
(* connection), or by cancellation.                                         *)
TdExit == td' = "done" /\ tdMsg' = None /\ UNCHANGED tdCancel

TdFail(code) == TdExit /\ FailClose(code) /\ UNCHANGED <<wr, drainWaiter>>

(* Mutated: recv() is not notified.                                         *)
DeliverSilently(m) ==
  IF Len(messages) >= MaxQueue
  THEN /\ td' = "room" /\ tdMsg' = m /\ putWaiter' = TRUE
       /\ UNCHANGED <<messages, popWaiter, popDone>>
  ELSE /\ td' = "read" /\ tdMsg' = None /\ messages' = Append(messages, m) /\ putWaiter' = FALSE
       /\ UNCHANGED <<popWaiter, popDone>>

(* The message joins the queue and recv() is notified, or transfer_data     *)
(* waits for room.                                                          *)
Deliver(m) ==
  IF Len(messages) >= MaxQueue
  THEN /\ td' = "room" /\ tdMsg' = m /\ putWaiter' = TRUE
       /\ UNCHANGED <<messages, popWaiter, popDone>>
  ELSE /\ td' = "read" /\ tdMsg' = None /\ messages' = Append(messages, m) /\ putWaiter' = FALSE
       /\ popWaiter' = NoTask
       /\ popDone' = IF popWaiter = NoTask THEN popDone ELSE [popDone EXCEPT ![popWaiter] = TRUE]

(* read_data_frame() on a close frame: echo it unless a close frame was     *)
(* sent; inside a fragmented message read_message() raises ProtocolError.   *)
TdClose(f) ==
  IF state = "OPEN"
  THEN WriteClose("td", NORMAL, NORMAL) /\ td' = "echo" /\ UNCHANGED <<tdMsg, tdCancel>>
  ELSE /\ closeRcvd' = NORMAL
       /\ rcvdThenSent' = IF closeSent # None THEN "no" ELSE rcvdThenSent
       /\ TdExit
       /\ UNCHANGED <<state, closeSent, writeVars>>

(* ... on a ping: answered only while OPEN.                                 *)
TdPing(f) ==
  IF state = "OPEN"
  THEN WriteFrame("td", Frame("pong", f.n)) /\ td' = "pong" /\ UNCHANGED <<tdMsg, tdCancel>>
  ELSE UNCHANGED <<tdVars, writeVars>>

(* ... on a pong: it acknowledges its ping and every earlier one.           *)
TdPong(f) ==
  IF \E i \in DOMAIN pings : pings[i] = f.n
  THEN LET i == CHOOSE i \in DOMAIN pings : pings[i] = f.n
       IN /\ pings' = SubSeq(pings, i + 1, Len(pings))
          /\ pongs' = [p \in DOMAIN pongs |->
                         IF pongs[p] = "pending" /\ \E j \in 1..i : pings[j] = p
                         THEN "done" ELSE pongs[p]]
  ELSE UNCHANGED pingVars

(* read_message(): a data frame that does not fit the fragmentation rules   *)
(* is a protocol error.                                                     *)
Unexpected(op) == IF tdMsg = None THEN op \in {"cont", "last"} ELSE op \in {"msg", "first"}

TdRead ==
  /\ td = "read" /\ tdCancel # "req" /\ rdEnd # "exc" /\ inbox # <<>>
  /\ inbox' = Tail(inbox)
  /\ LET f == Head(inbox) IN
     \/ /\ f.op = "close" /\ TdClose(f)
        /\ UNCHANGED <<queueVars, pingVars>>
     \/ /\ f.op = "ping" /\ TdPing(f)
        /\ UNCHANGED <<queueVars, pingVars, closeVars>>
     \/ /\ f.op = "pong" /\ TdPong(f)
        /\ UNCHANGED <<tdVars, queueVars, closeVars, writeVars>>
     \/ /\ f.op \in {"bad", "utf8", "big"} /\ TdFail(FrameError(f.op))
        /\ UNCHANGED <<queueVars, pingVars>>
     \/ /\ f.op \in {"msg", "first", "cont", "last"} /\ Unexpected(f.op) /\ TdFail(PROTOCOL_ERROR)
        /\ UNCHANGED <<queueVars, pingVars>>
     \/ /\ f.op \in {"msg", "last"} /\ ~Unexpected(f.op)
        /\ Deliver(IF f.op = "msg" THEN f.n ELSE tdMsg)
        /\ UNCHANGED <<tdCancel, delivered, pingVars, closeVars, writeVars>>
     \/ /\ f.op \in {"first", "cont"} /\ ~Unexpected(f.op)
        /\ tdMsg' = IF f.op = "first" THEN f.n ELSE tdMsg
        /\ UNCHANGED <<td, tdCancel, queueVars, pingVars, closeVars, writeVars>>
  /\ UNCHANGED <<cfg, rdEnd, transport, lost, serial, ka, cc, appVars>>

(* readexactly() at the end of the stream raises, with the exception set by *)
(* connection_lost() even if frames are still buffered.                     *)
TdEnd ==
  /\ td = "read" /\ tdCancel # "req"
  /\ rdEnd = "exc" \/ (rdEnd = "eof" /\ inbox = <<>>)
  /\ TdFail(ABNORMAL)
  /\ UNCHANGED <<queueVars, netVars, pingVars, ka, cc, appVars>>

(* The wait for room ends: the loop tests the length again.                 *)
TdRoom ==
  /\ td = "room" /\ ~putWaiter /\ tdCancel = "no"
  /\ Deliver(tdMsg)
  /\ UNCHANGED <<tdCancel, delivered, closeVars, netVars, writeVars, pingVars, ka, cc, appVars>>

(* pong() returned.  ConnectionError in drain() fails the connection, which *)
(* cancels the running task: the cancellation waits for its next await.     *)
TdPongWritten ==
  /\ td = "pong" /\ tdCancel = "no" /\ wr["td"] \in {"ok", "err", "assert"}
  /\ IF wr["td"] = "assert"
     THEN TdExit /\ FailClose(INTERNAL) /\ wr' = [wr EXCEPT !["td"] = "none"]
          /\ UNCHANGED drainWaiter
     ELSE /\ td' = "read" /\ UNCHANGED tdMsg
          /\ tdCancel' = IF wr["td"] = "err" THEN "self" ELSE tdCancel
          /\ Drained("td") /\ UNCHANGED closeVars
  /\ UNCHANGED <<queueVars, netVars, pingVars, ka, cc, appVars>>

(* write_close_frame() returned: transfer_data ends.                        *)
TdEchoed ==
  /\ td = "echo" /\ tdCancel = "no" /\ wr["td"] \in {"ok", "err", "assert"}
  /\ TdExit /\ Drained("td")
  /\ UNCHANGED <<queueVars, closeVars, netVars, pingVars, ka, cc, appVars>>

TdCancelled ==
  /\ \/ tdCancel = "req" /\ td \in {"read", "room", "pong", "echo"}
     \/ tdCancel = "self" /\ td = "room"
  /\ TdExit /\ DropDrain("td") /\ putWaiter' = FALSE
  /\ UNCHANGED <<messages, popWaiter, popDone, delivered, closeVars, netVars, paused, sent,
                 pingVars, ka, cc, appVars>>

-----------------------------------------------------------------------------
(* keepalive_ping().                                                       *)

Appl == <<queueVars, netVars, tdVars, cc, appVars>>

(* ping() after ping_interval; ensure_open() may have to wait for cc.       *)
KaPing ==
  /\ ka = "sleep"
  /\ \/ /\ IsOpen /\ "keepalive" \in cfg.calls /\ PingsSent < MaxPings /\ MayAsk
        /\ pings' = Append(pings, PingsSent + 1)
        /\ WriteFrame("ka", Frame("ping", PingsSent + 1))
        /\ ka' = "write" /\ UNCHANGED <<pongs, closeVars>>
     \/ /\ ~IsOpen /\ ka' = IF state = "CLOSED" THEN "done" ELSE "ensure"
        /\ UNCHANGED <<pingVars, writeVars, closeVars>>
  /\ UNCHANGED Appl

(* write_frame() returned: wait for the pong.  An exception other than      *)
(* ConnectionClosed is logged; either ends the task.                        *)
KaWritten ==
  /\ ka = "write" /\ wr["ka"] \in {"ok", "err", "assert"}
  /\ ka' = IF wr["ka"] = "ok" THEN "pong" ELSE "done"
  /\ Drained("ka")
  /\ UNCHANGED <<Appl, closeVars, pingVars>>

KaPong ==
  /\ ka = "pong" /\ pongs[PingsSent] # "pending"
  /\ ka' = IF pongs[PingsSent] = "done" THEN "sleep" ELSE "done"
  /\ UNCHANGED <<Appl, closeVars, pingVars, writeVars>>

(* Mutated: the task gives up without failing the connection.               *)
KaTimeoutSilent ==
  /\ ka = "pong" /\ pongs[PingsSent] = "pending"
  /\ ka' = "done"
  /\ UNCHANGED <<closeVars, writeVars, tdVars, queueVars, netVars, pingVars, cc, appVars>>

KaTimeout ==
  /\ ka = "pong" /\ pongs[PingsSent] = "pending"
  /\ ka' = "done" /\ FailClose(INTERNAL) /\ CancelTd
  /\ UNCHANGED <<wr, drainWaiter, td, tdMsg, queueVars, netVars, pingVars, cc, appVars>>

-----------------------------------------------------------------------------
(* close_connection(), close_transport() and wait_for_connection_lost():    *)
(* every wait ends when the connection is lost or after close_timeout.      *)

Cc(from, to) == cc = from /\ cc' = to
CcOnly == <<queueVars, closeVars, inbox, rdEnd, lost, serial, pingVars, tdVars, appVars>>

(* The data transfer is over: cancel keepalive_ping, then a client waits    *)
(* for the server's TCP close.                                              *)
CcTransferDone ==
  /\ Cc("td", IF cfg.client /\ td = "done" THEN "waitPeer" ELSE "eof")
  /\ td \in {"off", "done"}
  /\ ka' = IF ka = "off" THEN "off" ELSE "done"
  /\ DropDrain("ka")
  /\ UNCHANGED <<CcOnly, transport, paused, sent>>

CcWaitPeer ==
  /\ Cc("waitPeer", IF lost THEN "close" ELSE "eof")
  /\ UNCHANGED <<CcOnly, transport, writeVars, ka>>

(* Half-close, then wait.  write_eof() does nothing on a closing transport. *)
CcHalfClose ==
  /\ Cc("eof", IF cfg.eof THEN "waitHalf" ELSE "close")
  /\ UNCHANGED <<CcOnly, transport, writeVars, ka>>

CcWaitHalf ==
  /\ Cc("waitHalf", "close")
  /\ UNCHANGED <<CcOnly, transport, writeVars, ka>>

CcClose ==
  /\ Cc("close", IF lost THEN "done" ELSE "waitClose")
  /\ transport' = IF transport = "open" THEN "closing" ELSE transport
  /\ UNCHANGED <<CcOnly, writeVars, ka>>

CcWaitClose ==
  /\ Cc("waitClose", IF lost THEN "done" ELSE "waitAbort")
  /\ transport' = IF lost THEN transport ELSE "aborted"
  /\ UNCHANGED <<CcOnly, writeVars, ka>>

CcWaitAbort ==
  /\ Cc("waitAbort", "done") /\ lost
  /\ UNCHANGED <<CcOnly, transport, writeVars, ka>>

-----------------------------------------------------------------------------
(* recv().                                                                 *)

RecvOnly == <<closeVars, netVars, writeVars, pingVars, tdVars, ka, cc, sendPc, left, closePc,
              fragWaiter>>

Pop(r) ==
  /\ messages # <<>>
  /\ delivered' = Append(delivered, Head(messages)) /\ messages' = Tail(messages)
  /\ putWaiter' = FALSE
  /\ recvPc' = [recvPc EXCEPT ![r] = "idle"]

Wait(r) ==
  /\ messages = <<>>
  /\ popWaiter' = r /\ popDone' = [popDone EXCEPT ![r] = FALSE]
  /\ recvPc' = [recvPc EXCEPT ![r] = "wait"]
  /\ UNCHANGED <<delivered, messages, putWaiter>>

(* A second recv() while one waits raises RuntimeError: no step.            *)
RecvCall(r) ==
  /\ r \in cfg.calls /\ recvPc[r] = "idle" /\ td # "off" /\ popWaiter = NoTask
  /\ \/ Pop(r) /\ UNCHANGED <<popWaiter, popDone>>
     \/ Wait(r)
  /\ UNCHANGED RecvOnly

(* asyncio.wait() returned; the finally clause resets _pop_message_waiter.  *)
RecvWake(r) ==
  /\ recvPc[r] = "wait"
  /\ \/ popDone[r] /\ Pop(r) /\ popWaiter' = NoTask /\ UNCHANGED popDone
     \/ popDone[r] /\ Wait(r)
     \/ /\ ~popDone[r] /\ TdDone
        /\ popWaiter' = NoTask /\ recvPc' = [recvPc EXCEPT ![r] = "ensure"]
        /\ UNCHANGED <<messages, popDone, putWaiter, delivered>>
  /\ UNCHANGED RecvOnly

(* ensure_open() raises ConnectionClosed once the TCP connection is closed. *)
RecvRaise(r) ==
  /\ recvPc[r] = "ensure" /\ (state = "CLOSED" \/ cc = "done")
  /\ recvPc' = [recvPc EXCEPT ![r] = "raised"]
  /\ UNCHANGED <<queueVars, RecvOnly>>

(* Mutated: recv() takes the message before it is cancelled.                *)
RecvCancelLoses(r) ==
  /\ recvPc[r] = "wait"
  /\ recvPc' = [recvPc EXCEPT ![r] = "idle"] /\ popWaiter' = NoTask
  /\ messages' = IF popDone[r] THEN Tail(messages) ELSE messages
  /\ UNCHANGED <<popDone, putWaiter, delivered, RecvOnly>>

(* The caller's timeout cancels recv().                                     *)
RecvCancel(r) ==
  /\ recvPc[r] = "wait"
  /\ recvPc' = [recvPc EXCEPT ![r] = "idle"] /\ popWaiter' = NoTask
  /\ UNCHANGED <<messages, popDone, putWaiter, delivered, RecvOnly>>

-----------------------------------------------------------------------------
(* send() and broadcast().  cfg.pieces[s] = 0 sends one frame; otherwise each   *)
(* item of the iterable is a fragment and an empty final frame follows.     *)

SendOnly == <<queueVars, netVars, pingVars, td, tdMsg, ka, cc, recvPc, closePc>>

SendEnd(s, outcome) == sendPc' = [sendPc EXCEPT ![s] = outcome]

(* The first frame; write_frame() asserts the OPEN state a second time, and  *)
(* a fragmented message that cannot begin fails the connection.  In another *)
(* state that sends nothing and cancels transfer_data_task.                 *)
SendFirst(s) ==
  IF state # "OPEN"
  THEN /\ SendEnd(s, "invalid") /\ UNCHANGED <<left, fragWaiter, writeVars>>
       /\ IF cfg.pieces[s] = 0 THEN UNCHANGED tdCancel ELSE CancelTd
  ELSE /\ WriteFrame(s, Frame(IF cfg.pieces[s] = 0 THEN "msg" ELSE "first", s))
       /\ SendEnd(s, "write")
       /\ IF cfg.pieces[s] = 0 THEN UNCHANGED <<left, fragWaiter>>
          ELSE left' = [left EXCEPT ![s] = @ - 1] /\ fragWaiter' = s
       /\ UNCHANGED tdCancel

SendCall(s) ==
  /\ MayAsk /\ s \in cfg.calls /\ sendPc[s] = "idle" /\ state # "CONNECTING" /\ td # "off"
  /\ IF ~IsOpen THEN SendEnd(s, "ensure") /\ UNCHANGED <<left, fragWaiter, writeVars, tdCancel>>
     ELSE IF fragWaiter # NoTask
          THEN SendEnd(s, "fragwait") /\ UNCHANGED <<left, fragWaiter, writeVars, tdCancel>>
          ELSE SendFirst(s)
  /\ UNCHANGED <<closeVars, SendOnly>>

SendRaise(s) ==
  /\ sendPc[s] = "ensure" /\ (state = "CLOSED" \/ cc = "done")
  /\ SendEnd(s, "raised")
  /\ UNCHANGED <<left, fragWaiter, writeVars, closeVars, tdCancel, SendOnly>>

(* The fragmented message that was in the way is over.                      *)
SendTurn(s) ==
  /\ sendPc[s] = "fragwait" /\ fragWaiter = NoTask
  /\ SendFirst(s)
  /\ UNCHANGED <<closeVars, SendOnly>>

(* The message cannot be completed: the connection is failed.               *)
SendFail(s, outcome) ==
  /\ SendEnd(s, outcome)
  /\ IF fragWaiter = s
     THEN FailClose(INTERNAL) /\ CancelTd /\ fragWaiter' = NoTask
     ELSE UNCHANGED <<closeVars, sent, paused, tdCancel, fragWaiter>>
  /\ DropDrain(s)

(* write_frame() returned: write the next fragment, the final frame or end. *)
SendNext(s) ==
  /\ sendPc[s] = "write" /\ wr[s] \in {"ok", "err", "assert"}
  /\ \/ /\ wr[s] # "ok"
        /\ SendFail(s, IF wr[s] = "err" THEN "raised" ELSE "assert")
        /\ UNCHANGED left
     \/ /\ wr[s] = "ok" /\ fragWaiter # s
        /\ SendEnd(s, "done") /\ Drained(s)
        /\ UNCHANGED <<closeVars, tdCancel, fragWaiter, left>>
     \/ /\ wr[s] = "ok" /\ fragWaiter = s /\ state # "OPEN"
        /\ SendFail(s, "invalid") /\ UNCHANGED left
     \/ /\ wr[s] = "ok" /\ fragWaiter = s /\ state = "OPEN"
        /\ WriteFrame(s, Frame(IF left[s] > 0 THEN "cont" ELSE "last", s))
        /\ IF left[s] > 0
           THEN left' = [left EXCEPT ![s] = @ - 1] /\ SendEnd(s, "write")
           ELSE SendEnd(s, "final") /\ UNCHANGED left
        /\ UNCHANGED <<closeVars, tdCancel, fragWaiter>>
  /\ UNCHANGED SendOnly

(* The drain of the final frame is still under the fragment lock.           *)
SendFinal(s) ==
  /\ sendPc[s] = "final" /\ wr[s] \in {"ok", "err", "assert"}
  /\ IF wr[s] = "ok"
     THEN /\ SendEnd(s, "done") /\ fragWaiter' = NoTask /\ Drained(s)
          /\ UNCHANGED <<closeVars, tdCancel>>
     ELSE SendFail(s, IF wr[s] = "err" THEN "raised" ELSE "assert")
  /\ UNCHANGED <<left, SendOnly>>

(* The iterable raises, or the task is cancelled, between two fragments.    *)
SendAbort(s) ==
  /\ fragWaiter = s /\ sendPc[s] \in {"write", "final"}
  /\ SendFail(s, "aborted")
  /\ UNCHANGED <<left, SendOnly>>

(* broadcast() skips a connection that is not OPEN or is in the middle of a *)
(* fragmented message, and never drains.                                    *)
Broadcast ==
  /\ MayAsk /\ "broadcast" \in cfg.calls
  /\ state = "OPEN" /\ fragWaiter = NoTask
  /\ WriteSync(Frame("cast", 0))
  /\ UNCHANGED <<wr, drainWaiter, queueVars, closeVars, netVars, pingVars, tdVars, ka, cc,
                 recvPc, sendPc, left, closePc, fragWaiter>>

-----------------------------------------------------------------------------
(* close().                                                                *)

CloseOnly == <<queueVars, netVars, pingVars, td, tdMsg, ka, cc, recvPc, sendPc, left, fragWaiter>>
CloseGo(c, pc) == closePc' = [closePc EXCEPT ![c] = pc]

CloseCall(c) ==
  /\ MayAsk /\ c \in cfg.calls /\ closePc[c] = "idle" /\ td # "off"
  /\ \/ WriteClose(c, NORMAL, closeRcvd) /\ CloseGo(c, "write")
     \/ state # "OPEN" /\ CloseGo(c, "waitTd") /\ UNCHANGED <<closeVars, writeVars>>
  /\ UNCHANGED <<tdCancel, CloseOnly>>

(* write_close_frame() returned; its exceptions leave close().              *)
CloseWritten(c) ==
  /\ closePc[c] = "write" /\ wr[c] \in {"ok", "err", "assert"}
  /\ CloseGo(c, IF wr[c] = "ok" THEN "waitTd" ELSE "raised")
  /\ Drained(c)
  /\ UNCHANGED <<closeVars, tdCancel, CloseOnly>>

(* The write buffer stays full for close_timeout: fail_connection().        *)
CloseWriteTimeout(c) ==
  /\ closePc[c] = "write" /\ wr[c] = "wait"
  /\ CloseGo(c, "waitTd") /\ CancelTd /\ DropDrain(c)
  /\ UNCHANGED <<closeVars, paused, sent, CloseOnly>>

(* No close frame from the peer within close_timeout.                       *)
CloseTimeout(c) ==
  /\ closePc[c] = "waitTd" /\ ~TdDone /\ tdCancel = "no"
  /\ CancelTd
  /\ UNCHANGED <<closePc, closeVars, writeVars, CloseOnly>>

CloseTransferDone(c) ==
  /\ closePc[c] = "waitTd" /\ TdDone
  /\ CloseGo(c, "waitCc")
  /\ UNCHANGED <<closeVars, writeVars, tdCancel, CloseOnly>>

CloseReturn(c) ==
  /\ closePc[c] = "waitCc" /\ cc = "done"
  /\ CloseGo(c, "done")
  /\ UNCHANGED <<closeVars, writeVars, tdCancel, CloseOnly>>

-----------------------------------------------------------------------------
Transfer == TdRead \/ TdEnd \/ TdRoom \/ TdPongWritten \/ TdEchoed \/ TdCancelled
KeepAlive == KaPing \/ KaWritten \/ KaPong \/ KaTimeout
CloseConnection == CcTransferDone \/ CcWaitPeer \/ CcHalfClose \/ CcWaitHalf \/ CcClose
                   \/ CcWaitClose \/ CcWaitAbort
EventLoop == ResumeWriting \/ (\E t \in Tasks : DrainYielded(t)) \/ \E exc \in BOOLEAN : ConnectionLost(exc)
Peer == EofReceived \/ \E op \in cfg.ops : DataReceived(op)
Recv(r) == RecvCall(r) \/ RecvWake(r) \/ RecvRaise(r) \/ RecvCancel(r)
Send(s) == SendCall(s) \/ SendRaise(s) \/ SendTurn(s) \/ SendNext(s) \/ SendFinal(s) \/ SendAbort(s)
Close(c) == CloseCall(c) \/ CloseWritten(c) \/ CloseWriteTimeout(c) \/ CloseTimeout(c)
            \/ CloseTransferDone(c) \/ CloseReturn(c)

Next ==
  \/ ConnectionOpen \/ FailHandshake \/ Broadcast
  \/ Transfer \/ KeepAlive \/ CloseConnection \/ EventLoop \/ Peer
  \/ \E r \in Receivers : Recv(r)
  \/ \E s \in Senders : Send(s)
  \/ \E c \in Closers : Close(c)

Spec == Init /\ [][Next]_vars

(* The event loop runs every ready task and fires every timer.  Nothing is  *)
(* assumed of the peer, of the network or of the application, except that   *)
(* close(), once called, is left to run.                                    *)
Fairness ==
  /\ WF_vars(Transfer) /\ WF_vars(KeepAlive) /\ WF_vars(CloseConnection)
  /\ WF_vars(ConnectionLost(FALSE))
  /\ \A t \in Tasks : WF_vars(DrainYielded(t))
  /\ \A r \in Receivers : WF_vars(RecvWake(r)) /\ WF_vars(RecvRaise(r))
  /\ \A c \in Closers :
       /\ WF_vars(CloseWritten(c)) /\ WF_vars(CloseWriteTimeout(c)) /\ WF_vars(CloseTimeout(c))
       /\ WF_vars(CloseTransferDone(c)) /\ WF_vars(CloseReturn(c))

FairSpec == Spec /\ Fairness

-----------------------------------------------------------------------------
(* Properties.                                                             *)

Codes == {None, NORMAL, PROTOCOL_ERROR, INVALID_DATA, TOO_BIG, INTERNAL}
DataOps == {"msg", "cast", "first", "cont", "last"}

TypeOK ==
  /\ state \in {"CONNECTING", "OPEN", "CLOSING", "CLOSED"}
  /\ closeRcvd \in {None, NORMAL} /\ closeSent \in Codes
  /\ rcvdThenSent \in {"none", "yes", "no"}
  /\ rdEnd \in {"no", "eof", "exc"} /\ transport \in {"open", "closing", "aborted"}
  /\ lost \in BOOLEAN /\ paused \in BOOLEAN /\ putWaiter \in BOOLEAN
  /\ drainWaiter \in Tasks \cup {NoTask}
  /\ wr \in [Tasks -> {"none", "yield", "wait", "ok", "err", "assert"}]
  /\ popWaiter \in Receivers \cup {NoTask} /\ popDone \in [Receivers -> BOOLEAN]
  /\ fragWaiter \in Senders \cup {NoTask}
  /\ td \in {"off", "read", "room", "pong", "echo", "done"} /\ tdCancel \in {"no", "req", "self"}
  /\ ka \in {"off", "sleep", "ensure", "write", "pong", "done"}
  /\ cc \in {"off", "td", "waitPeer", "eof", "waitHalf", "close", "waitClose", "waitAbort", "done"}

(* At most one close frame is written and no frame follows it, whichever of *)
(* close(), the echo, the keepalive and a failure races (write_close_frame, *)
(* fail_connection).                                                        *)
CloseFrameIsLast == \A i \in DOMAIN sent : sent[i].op = "close" => i = Len(sent)

(* The frames of a fragmented message are never interleaved with data of    *)
(* another message, of send() or of broadcast().                            *)
FragmentsContiguous ==
  \A i, j \in DOMAIN sent :
    (/\ i < j /\ sent[i].op \in {"first", "cont"} /\ sent[j].op \in DataOps
     /\ \A k \in (i + 1)..(j - 1) : sent[k].op \notin DataOps)
      => sent[j].op \in {"cont", "last"} /\ sent[j].n = sent[i].n

(* Nobody sleeps beside work: a waiting recv() finds the queue empty and is *)
(* the one to be notified, and transfer_data waits only for a full queue.   *)
NoLostWakeup ==
  /\ \A r \in Receivers : recvPc[r] = "wait" /\ ~popDone[r] => messages = <<>> /\ popWaiter = r
  /\ td = "room" /\ putWaiter => Len(messages) >= MaxQueue

(* The queue is bounded by max_queue.                                       *)
QueueBounded == Len(messages) <= MaxQueue

(* Once the connection is closed no caller of ping() is left waiting.       *)
PingsSettled == state = "CLOSED" => \A i \in DOMAIN pings : pongs[pings[i]] # "pending"

(* close_rcvd is set only once the endpoint left OPEN, which the assertion  *)
(* in fail_connection() relies on, and the handshake's order is recorded.   *)
CloseOrderRecorded ==
  /\ closeRcvd # None => state # "OPEN"
  /\ rcvdThenSent = "yes" => closeRcvd = closeSent
  /\ (closeRcvd # None /\ closeSent # None) => rcvdThenSent # "none"

(* close() returns only when the TCP connection is closed.                  *)
CloseMeansClosed == \A c \in Closers : closePc[c] = "done" => lost

(* The close codes settle once: a code that was recorded never changes.     *)
(* close_code itself may still turn from 1006 into the peer's code after    *)
(* the connection is closed, while buffered frames are read.                *)
CloseCodesSettle ==
  [][/\ closeRcvd # None => closeRcvd' = closeRcvd
     /\ closeSent # None => closeSent' = closeSent
     /\ rcvdThenSent # "none" => rcvdThenSent' = rcvdThenSent
     /\ state = "CLOSED" /\ CloseCode # ABNORMAL => CloseCode' = CloseCode]_vars

(* recv() implements the abstract stream of messages.                       *)
Arrived == delivered \o messages
Stream == INSTANCE MessageStream WITH
  Msgs <- 1..MaxIn, arrived <- {Arrived[i] : i \in DOMAIN Arrived}, taken <- delivered, ended <- TdDone
DeliversStream == Stream!Spec

(* Once its close frame is out, close() returns and the TCP connection is   *)
(* gone, whatever the peer does: the timeouts of close() and of             *)
(* close_connection bound every wait.                                       *)
CloseReturns == \A c \in Closers : closePc[c] = "waitTd" ~> (closePc[c] = "done" /\ lost)

(* A recv() that waits on a stream that ended is released.                  *)
RecvReleased == \A r \in Receivers : (recvPc[r] = "wait" /\ TdDone) ~> recvPc[r] # "wait"

(* A peer that stops answering is found out: every keepalive ping is        *)
(* answered or the connection goes down.                                    *)
SilentPeerDetected == ka = "pong" ~> (ka = "sleep" \/ lost)

(* What the peer reads: whole messages, then one close frame.               *)
WireOrder == TypeOK /\ CloseFrameIsLast /\ FragmentsContiguous /\ CloseOrderRecorded

(* Nobody waits for what has happened, and close() waits for what has not.  *)
NobodyLeftWaiting == NoLostWakeup /\ QueueBounded /\ PingsSettled /\ CloseMeansClosed

(* What the application is told is not taken back: the messages of recv(),  *)
(* the close codes.                                                         *)
ToldOnce == DeliversStream /\ CloseCodesSettle

(* Every wait ends whatever the peer does: timeouts and the end of the      *)
(* stream.                                                                  *)
WaitsEnd == CloseReturns /\ RecvReleased /\ SilentPeerDetected
=============================================================================
