------------------------- MODULE LegacyProtocolProofs -------------------------
(***************************************************************************)
(* What LegacyProtocol promises in every state, for any number of tasks,   *)
(* frames, pings and any scenario: what the peer reads is well formed,     *)
(* nobody waits for what has happened, and what recv() and close_code told *)
(* the application is not taken back.                                      *)
(*                                                                         *)
(* The invariant has one part per concern: the close codes (Codified), the *)
(* frames on the wire (Wire), the stream of messages (Streamed) and the    *)
(* waiters (Waiters).                                                      *)
(***************************************************************************)
EXTENDS LegacyProtocol, FiniteSetTheorems, TLAPS

-----------------------------------------------------------------------------
(* The inductive invariant.                                                *)

\* A frame on the wire is a sender's, numbered, or carries a close code.
Frames == [op : {"msg", "first", "cont", "last", "cast", "ping", "pong", "close"}, n : Nat \cup Senders]

PeerOps == UNION {c.ops : c \in Configs}

CloseTypes ==
  /\ cfg \in Configs /\ state \in {"CONNECTING", "OPEN", "CLOSING", "CLOSED"}
  /\ closeRcvd \in {None, NORMAL} /\ closeSent \in Codes /\ rcvdThenSent \in {"none", "yes", "no"}

NetTypes ==
  /\ inbox \in Seq([op : PeerOps, n : Nat]) /\ serial \in 0..MaxIn
  /\ rdEnd \in {"no", "eof", "exc"} /\ transport \in {"open", "closing", "aborted"} /\ lost \in BOOLEAN

WriteTypes ==
  /\ paused \in BOOLEAN /\ drainWaiter \in Tasks \cup {NoTask} /\ sent \in Seq(Frames)
  /\ wr \in [Tasks -> {"none", "yield", "wait", "ok", "err", "assert"}]

QueueTypes ==
  /\ messages \in Seq(1..MaxIn) /\ delivered \in Seq(1..MaxIn) /\ putWaiter \in BOOLEAN
  /\ popWaiter \in Receivers \cup {NoTask} /\ popDone \in [Receivers -> BOOLEAN]

PingTypes == pings \in Seq(1..MaxPings) /\ pongs \in [1..MaxPings -> {"pending", "done", "failed"}]

TaskTypes ==
  /\ td \in {"off", "read", "room", "pong", "echo", "done"} /\ tdCancel \in {"no", "req", "self"}
  /\ tdMsg \in 0..MaxIn /\ (td = "room" => tdMsg # None)
  /\ ka \in {"off", "sleep", "ensure", "write", "pong", "done"}
  /\ cc \in {"off", "td", "waitPeer", "eof", "waitHalf", "close", "waitClose", "waitAbort", "done"}

AppTypes ==
  /\ fragWaiter \in Senders \cup {NoTask}
  /\ recvPc \in [Receivers -> {"idle", "wait", "ensure", "raised"}]
  /\ sendPc \in [Senders -> {"idle", "ensure", "fragwait", "write", "final", "done", "raised", "assert",
                             "invalid", "aborted"}]
  /\ closePc \in [Closers -> {"idle", "write", "raised", "waitTd", "waitCc", "done"}]

Types == CloseTypes /\ NetTypes /\ WriteTypes /\ QueueTypes /\ PingTypes /\ TaskTypes /\ AppTypes

\* A code is recorded by the step that leaves OPEN, or by the last of
\* transfer_data.
Codified ==
  /\ state = "CONNECTING" => td = "off" /\ closeRcvd = None
  /\ closeSent # None => state \notin {"CONNECTING", "OPEN"}
  /\ closeRcvd # None => td \in {"echo", "done"}
  /\ rcvdThenSent # "none" => closeRcvd # None
  /\ state = "CLOSED" <=> lost
  /\ CloseOrderRecorded

\* A fragmented message is open while its sender holds the lock, and stays
\* open only when the connection was failed.
Wire ==
  /\ state = "CONNECTING" => sent = <<>>
  /\ \A i \in DOMAIN sent : sent[i].op = "close" => state # "OPEN"
  /\ \A i \in DOMAIN sent :
       (sent[i].op \in {"first", "cont"} /\ \A k \in (i + 1)..Len(sent) : sent[k].op \notin DataOps)
         => state # "OPEN" \/ (fragWaiter = sent[i].n /\ fragWaiter \in Senders /\ sendPc[fragWaiter] = "write")
  /\ \A s \in Senders : sendPc[s] = "final" => fragWaiter = s
  /\ CloseFrameIsLast /\ FragmentsContiguous

\* The messages that arrived (arrived), the one being assembled (msg, if any)
\* and the frames behind them (buffer) keep the order in which the peer sent
\* its frames, of which there were n.
Numbered(buffer) == {j \in DOMAIN buffer : buffer[j].op # "pong"}

Ordered(arrived, msg, buffer, n) ==
  /\ \A i, j \in DOMAIN arrived : i < j => arrived[i] < arrived[j]
  /\ \A i \in DOMAIN arrived : arrived[i] <= n
  /\ msg <= n
  /\ msg # None => \A i \in DOMAIN arrived : arrived[i] < msg
  /\ \A j \in Numbered(buffer) : buffer[j].n \in 1..n /\ msg < buffer[j].n
                                /\ \A i \in DOMAIN arrived : arrived[i] < buffer[j].n
  /\ \A i, j \in Numbered(buffer) : i < j => buffer[i].n < buffer[j].n

Streamed == Ordered(Arrived, tdMsg, inbox, serial)

\* What the tasks wait for has not happened.
Waiters ==
  /\ td = "room" /\ putWaiter => Len(messages) >= MaxQueue
  /\ cc = "done" => lost
  /\ QueueBounded /\ PingsSettled /\ CloseMeansClosed

\* With one task in recv(), which is all it allows ("RuntimeError: If two
\* coroutines call recv concurrently").
OneReceiver == \A r, q \in Receivers : r = q

IInv == Types /\ Codified /\ Wire /\ Streamed /\ Waiters

-----------------------------------------------------------------------------
(* Which steps change what.                                                *)

SameCodes == UNCHANGED <<closeRcvd, closeSent, rcvdThenSent>>

\* The endpoint sends a close frame with a code: a failure, or close().
SendsCode ==
  /\ state = "OPEN" /\ state' = "CLOSING"
  /\ closeSent' \in Codes \ {None}
  /\ closeRcvd' = closeRcvd
  /\ rcvdThenSent' = IF closeRcvd # None THEN "yes" ELSE rcvdThenSent

\* transfer_data reads the peer's close frame first, or after its own side's.
ReadsCode ==
  /\ td = "read" /\ closeRcvd' = NORMAL
  /\ \/ /\ state = "OPEN" /\ state' = "CLOSING" /\ td' = "echo"
        /\ closeSent' = NORMAL /\ rcvdThenSent' = "yes"
     \/ /\ state # "OPEN" /\ UNCHANGED <<state, closeSent>> /\ td' = "done"
        /\ rcvdThenSent' = IF closeSent # None THEN "no" ELSE rcvdThenSent

CodeStep ==
  /\ \/ SameCodes /\ UNCHANGED <<state, lost>>
     \/ SameCodes /\ UNCHANGED lost /\ state = "CONNECTING" /\ state' = "OPEN"
     \/ SameCodes /\ lost' = TRUE /\ state' = "CLOSED"
     \/ (SendsCode \/ ReadsCode) /\ UNCHANGED lost
  /\ td \in {"echo", "done"} => td' \in {"echo", "done"}
  /\ td = "off" => td' = "off" \/ (state = "CONNECTING" /\ state' = "OPEN")
  /\ td = "done" => td' = "done"

LEMMA FailCloseIs ==
  ASSUME NEW code \in {PROTOCOL_ERROR, INVALID_DATA, TOO_BIG, INTERNAL, ABNORMAL}, FailClose(code), Codified
  PROVE  (SameCodes /\ state' = state) \/ SendsCode
BY DEF FailClose, SameCodes, SendsCode, Codified, CloseOrderRecorded, Codes, None, NORMAL, PROTOCOL_ERROR, INVALID_DATA,
   TOO_BIG, INTERNAL, ABNORMAL, closeVars

LEMMA TdFailIs ==
  ASSUME NEW code \in {PROTOCOL_ERROR, INVALID_DATA, TOO_BIG, INTERNAL, ABNORMAL}, TdFail(code), Codified, lost' = lost,
         td # "off"
  PROVE  CodeStep
<1>1. (SameCodes /\ state' = state) \/ SendsCode
  BY FailCloseIs DEF TdFail
<1> QED
  BY <1>1 DEF CodeStep, TdFail, TdExit

LEMMA CodesTdRead ==
  ASSUME Codified, TdRead
  PROVE  CodeStep
<1>1. td = "read" /\ lost' = lost
  BY DEF TdRead
<1> DEFINE f == Head(inbox)
<1>2. CASE TdClose(f)
  <2>1. ReadsCode
    BY <1>1, <1>2 DEF TdClose, WriteClose, ReadsCode, TdExit, NORMAL, None
  <2> QED
    BY <1>1, <2>1 DEF CodeStep, ReadsCode
<1>3. CASE TdPing(f) /\ UNCHANGED closeVars
  BY <1>1, <1>3 DEF TdPing, CodeStep, SameCodes, closeVars, tdVars
<1>4. CASE UNCHANGED <<tdVars, closeVars>>
  BY <1>1, <1>4 DEF CodeStep, SameCodes, closeVars, tdVars
<1>5. CASE f.op \in {"bad", "utf8", "big"} /\ TdFail(FrameError(f.op))
  BY <1>1, <1>5, TdFailIs DEF FrameError
<1>6. CASE TdFail(PROTOCOL_ERROR)
  BY <1>1, <1>6, TdFailIs
<1>7. CASE (\E m : Deliver(m)) /\ UNCHANGED closeVars
  BY <1>1, <1>7 DEF Deliver, CodeStep, SameCodes, closeVars
<1>8. CASE UNCHANGED <<td, tdCancel, closeVars>>
  BY <1>1, <1>8 DEF CodeStep, SameCodes, closeVars
<1> QED
  BY <1>2, <1>3, <1>4, <1>5, <1>6, <1>7, <1>8 DEF TdRead

LEMMA CodesTransfer ==
  ASSUME Codified, Transfer
  PROVE  CodeStep
<1>1. CASE TdEnd
  BY <1>1, TdFailIs DEF TdEnd, netVars
<1>2. CASE TdRoom
  BY <1>2 DEF TdRoom, Deliver, CodeStep, SameCodes, closeVars, netVars
<1>3. CASE TdPongWritten
  <2>1. lost' = lost /\ td = "pong"
    BY <1>3 DEF TdPongWritten, netVars
  <2>2. CASE td' = "read" /\ UNCHANGED closeVars
    BY <2>1, <2>2 DEF CodeStep, SameCodes, closeVars
  <2>3. CASE TdExit /\ FailClose(INTERNAL)
    <3>1. (SameCodes /\ state' = state) \/ SendsCode
      BY <2>3, FailCloseIs
    <3> QED
      BY <2>1, <2>3, <3>1 DEF CodeStep, TdExit
  <2> QED
    BY <1>3, <2>2, <2>3 DEF TdPongWritten
<1>4. CASE TdEchoed \/ TdCancelled
  BY <1>4 DEF TdEchoed, TdCancelled, TdExit, CodeStep, SameCodes, closeVars, netVars
<1> QED
  BY <1>1, <1>2, <1>3, <1>4, CodesTdRead DEF Transfer

LEMMA CodesApp ==
  ASSUME Codified, (\E s \in Senders : Send(s)) \/ \E c \in Closers : Close(c)
  PROVE  CodeStep
<1>1. UNCHANGED <<td, lost>>
  BY DEF Send, SendCall, SendRaise, SendTurn, SendNext, SendFinal, SendAbort, Close, CloseCall, CloseWritten,
     CloseWriteTimeout, CloseTimeout, CloseTransferDone, CloseReturn, SendOnly, CloseOnly, netVars
<1>2. (SameCodes /\ state' = state) \/ SendsCode
  <2>1. ASSUME NEW s \in Senders, NEW out, SendFail(s, out)
        PROVE  (SameCodes /\ state' = state) \/ SendsCode
    BY <2>1, FailCloseIs DEF SendFail, SameCodes, closeVars
  <2>2. ASSUME NEW c \in Closers, CloseCall(c)
        PROVE  (SameCodes /\ state' = state) \/ SendsCode
    BY <2>2 DEF CloseCall, WriteClose, SendsCode, SameCodes, closeVars, Codes, NORMAL, None
  <2>3. CASE UNCHANGED closeVars
    BY <2>3 DEF closeVars, SameCodes
  <2> QED
    BY <2>1, <2>2, <2>3 DEF Send, SendCall, SendRaise, SendTurn, SendNext, SendFinal, SendAbort, Close, CloseWritten,
       CloseWriteTimeout, CloseTimeout, CloseTransferDone, CloseReturn
<1> QED
  BY <1>1, <1>2 DEF CodeStep

LEMMA CodesNext ==
  ASSUME Codified, Next
  PROVE  CodeStep
<1>1. CASE ConnectionOpen
  BY <1>1 DEF ConnectionOpen, CodeStep, SameCodes, Codified, netVars
<1>2. CASE FailHandshake \/ Broadcast \/ CloseConnection \/ Peer \/ \E r \in Receivers : Recv(r)
  BY <1>2 DEF FailHandshake, Broadcast, CloseConnection, CcTransferDone, CcWaitPeer, CcHalfClose, CcWaitHalf, CcClose,
     CcWaitClose, CcWaitAbort, CcOnly, Peer, EofReceived, DataReceived, Recv, RecvCall, RecvWake, RecvRaise, RecvCancel,
     RecvOnly, CodeStep, SameCodes, closeVars, netVars, tdVars
<1>3. CASE EventLoop
  BY <1>3 DEF EventLoop, ResumeWriting, DrainYielded, ConnectionLost, CodeStep, SameCodes, closeVars, netVars, tdVars
<1>4. CASE KeepAlive
  <2>1. UNCHANGED <<td, lost>>
    BY <1>4 DEF KeepAlive, KaPing, KaWritten, KaPong, KaTimeout, Appl, netVars, tdVars
  <2>2. (SameCodes /\ state' = state) \/ SendsCode
    <3>1. CASE KaTimeout
      BY <3>1, FailCloseIs DEF KaTimeout
    <3> QED
      BY <1>4, <3>1 DEF KeepAlive, KaPing, KaWritten, KaPong, closeVars, SameCodes
  <2> QED
    BY <2>1, <2>2 DEF CodeStep
<1> QED
  BY <1>1, <1>2, <1>3, <1>4, CodesTransfer, CodesApp DEF Next

LEMMA CodifiedNext ==
  ASSUME Codified, Next
  PROVE  Codified'
<1>1. CodeStep
  BY CodesNext
<1>2. CASE SameCodes
  BY <1>1, <1>2 DEF CodeStep, SameCodes, Codified, CloseOrderRecorded, SendsCode, ReadsCode
<1>3. CASE SendsCode
  BY <1>1, <1>3 DEF CodeStep, SendsCode, Codified, CloseOrderRecorded
<1>4. CASE ReadsCode
  BY <1>1, <1>4 DEF CodeStep, ReadsCode, Codified, CloseOrderRecorded, NORMAL, None
<1> QED
  BY <1>1, <1>2, <1>3, <1>4 DEF CodeStep

\* The codes settle once.
LEMMA CodesSettle ==
  ASSUME Codified, CloseTypes, CodeStep
  PROVE  /\ closeRcvd # None => closeRcvd' = closeRcvd
         /\ closeSent # None => closeSent' = closeSent
         /\ rcvdThenSent # "none" => rcvdThenSent' = rcvdThenSent
         /\ state = "CLOSED" /\ CloseCode # ABNORMAL => CloseCode' = CloseCode
<1>1. CASE SameCodes
  BY <1>1 DEF CodeStep, SameCodes, SendsCode, ReadsCode, CloseCode
<1>2. CASE SendsCode
  BY <1>2 DEF SendsCode, Codified, CloseOrderRecorded
<1>3. CASE ReadsCode
  BY <1>3 DEF ReadsCode, Codified, CloseOrderRecorded, CloseCode
<1> QED
  BY <1>1, <1>2, <1>3 DEF CodeStep


-----------------------------------------------------------------------------
(* Every step keeps Types.                                                 *)

LEMMA Constants == MaxQueue \in Nat \ {0} /\ MaxIn \in Nat /\ MaxPings \in Nat /\ NoTask \notin Tasks \cup Receivers
BY LegacyAssumption, TasksAssumption DEF LegacyAssumption, TasksAssumption

LEMMA TypesInit == Init => Types
<1> SUFFICES ASSUME Init PROVE Types
  OBVIOUS
<1> DEFINE InFrames == [op : PeerOps, n : Nat]
<1>a. /\ <<>> \in Seq(Frames) /\ <<>> \in Seq(1..MaxIn) /\ <<>> \in Seq(1..MaxPings)
      /\ <<>> \in Seq(InFrames)
  <2> HIDE DEF InFrames
  <2> QED
    OBVIOUS
<1>1. CloseTypes /\ NetTypes
  <2>1. CloseTypes
    BY DEF Init, CloseTypes, Codes
  <2>2. inbox \in Seq([op : PeerOps, n : Nat])
    BY <1>a, Zenon DEF Init, InFrames
  <2>3. serial \in 0..MaxIn /\ rdEnd = "no" /\ transport = "open" /\ lost = FALSE
    BY Constants DEF Init
  <2> QED
    BY <2>1, <2>2, <2>3 DEF NetTypes
<1>2. WriteTypes /\ QueueTypes /\ PingTypes
  <2>1. WriteTypes
    BY <1>a DEF Init, WriteTypes
  <2>2. QueueTypes
    BY <1>a DEF Init, QueueTypes
  <2>3. PingTypes
    BY <1>a DEF Init, PingTypes
  <2> QED
    BY <2>1, <2>2, <2>3
<1>3. TaskTypes /\ AppTypes
  BY Constants DEF Init, TaskTypes, AppTypes, None
<1> QED
  BY <1>1, <1>2, <1>3 DEF Types

LEMMA CloseTypesNext ==
  ASSUME CloseTypes, Codified, Next
  PROVE  CloseTypes'
<1>1. CodeStep
  BY CodesNext
<1>2. cfg' = cfg
  BY DEF Next, ConnectionOpen, FailHandshake, Broadcast, Transfer, TdRead, TdEnd, TdRoom, TdPongWritten, TdEchoed,
     TdCancelled, KeepAlive, KaPing, KaWritten, KaPong, KaTimeout, Appl, CloseConnection, CcTransferDone, CcWaitPeer,
     CcHalfClose, CcWaitHalf, CcClose, CcWaitClose, CcWaitAbort, CcOnly, EventLoop, ResumeWriting, DrainYielded,
     ConnectionLost, Peer, EofReceived, DataReceived, Recv, RecvCall, RecvWake, RecvRaise, RecvCancel, RecvOnly, Send,
     SendCall, SendRaise, SendTurn, SendNext, SendFinal, SendAbort, SendOnly, Close, CloseCall, CloseWritten,
     CloseWriteTimeout, CloseTimeout, CloseTransferDone, CloseReturn, CloseOnly, netVars, closeVars
<1>3. UNCHANGED <<closeRcvd, closeSent, rcvdThenSent>> /\ state' \in {state, "OPEN", "CLOSED"} => CloseTypes'
  BY <1>2 DEF CloseTypes
<1>4. SendsCode \/ ReadsCode => CloseTypes'
  BY <1>2 DEF CloseTypes, SendsCode, ReadsCode, Codes
<1> QED
  BY <1>1, <1>3, <1>4 DEF CodeStep, SameCodes

\* Frames that were written are counted.
LEMMA PingsCounted ==
  ASSUME WriteTypes
  PROVE  PingsSent \in Nat
<1>1. {i \in DOMAIN sent : sent[i].op = "ping"} \subseteq 1..Len(sent) /\ Len(sent) \in Nat
  BY DEF WriteTypes
<1>2. IsFiniteSet(1..Len(sent))
  BY <1>1, FS_Interval
<1>3. IsFiniteSet({i \in DOMAIN sent : sent[i].op = "ping"})
  BY <1>1, <1>2, FS_Subset
<1> QED
  BY <1>3, FS_CardinalityType DEF PingsSent, Written

LEMMA AppendIn ==
  ASSUME NEW S, NEW s \in Seq(S), NEW x \in S
  PROVE  /\ Append(s, x) \in Seq(S) /\ Len(Append(s, x)) = Len(s) + 1 /\ Append(s, x)[Len(s) + 1] = x
         /\ \A i \in DOMAIN s : i \in DOMAIN Append(s, x) /\ Append(s, x)[i] = s[i]
         /\ \A i \in DOMAIN Append(s, x) : i \in DOMAIN s \/ i = Len(s) + 1
OBVIOUS

LEMMA HeadAndTail ==
  ASSUME NEW S, NEW s \in Seq(S), s # <<>>
  PROVE  /\ 1 \in DOMAIN s /\ Head(s) = s[1] /\ Head(s) \in S /\ Tail(s) \in Seq(S) /\ Len(Tail(s)) = Len(s) - 1
         /\ \A j \in DOMAIN Tail(s) : j + 1 \in DOMAIN s /\ Tail(s)[j] = s[j + 1]
OBVIOUS

LEMMA ItemIn ==
  ASSUME NEW S, NEW s \in Seq(S), NEW i \in DOMAIN s
  PROVE  s[i] \in S
OBVIOUS

LEMMA RestIn ==
  ASSUME NEW S, NEW s \in Seq(S), NEW i \in DOMAIN s
  PROVE  /\ SubSeq(s, i + 1, Len(s)) \in Seq(S)
         /\ \A j \in DOMAIN SubSeq(s, i + 1, Len(s)) :
              j + i \in DOMAIN s /\ SubSeq(s, i + 1, Len(s))[j] = s[j + i] /\ s[j + i] \in S
OBVIOUS

\* The frame that transfer_data reads is the first of the buffer.
LEMMA HeadOfInbox ==
  ASSUME NetTypes, inbox # <<>>
  PROVE  /\ 1 \in DOMAIN inbox /\ Head(inbox) = inbox[1] /\ Head(inbox) \in [op : PeerOps, n : Nat]
         /\ Tail(inbox) \in Seq([op : PeerOps, n : Nat]) /\ Len(Tail(inbox)) = Len(inbox) - 1
         /\ \A j \in DOMAIN Tail(inbox) : j + 1 \in DOMAIN inbox /\ Tail(inbox)[j] = inbox[j + 1]
<1> DEFINE S == [op : PeerOps, n : Nat]
<1>1. inbox \in Seq(S)
  BY DEF NetTypes
<1> HIDE DEF S
<1>2. /\ 1 \in DOMAIN inbox /\ Head(inbox) = inbox[1] /\ Head(inbox) \in S
      /\ Tail(inbox) \in Seq(S) /\ Len(Tail(inbox)) = Len(inbox) - 1
      /\ \A j \in DOMAIN Tail(inbox) : j + 1 \in DOMAIN inbox /\ Tail(inbox)[j] = inbox[j + 1]
  BY <1>1, HeadAndTail
<1> QED
  BY <1>2 DEF S

LEMMA HeadIsNew ==
  ASSUME NetTypes, Streamed, inbox # <<>>, Head(inbox).op # "pong"
  PROVE  Head(inbox).n \in 1..serial
BY HeadOfInbox DEF Streamed, Ordered, Numbered

LEMMA NetTypesNext ==
  ASSUME Types, Next
  PROVE  NetTypes'
<1>1. CASE UNCHANGED netVars
  BY <1>1 DEF Types, NetTypes, netVars
<1>2. CASE TdRead
  <2>1. UNCHANGED <<rdEnd, transport, lost, serial>> /\ inbox' = Tail(inbox) /\ inbox # <<>>
    BY <1>2 DEF TdRead
  <2> QED
    BY <2>1, HeadOfInbox DEF Types, NetTypes
<1>3. ASSUME NEW op \in cfg.ops, DataReceived(op)
      PROVE  NetTypes'
  <2>1. op \in PeerOps
    BY <1>3 DEF Types, CloseTypes, PeerOps
  <2>2. PICK n \in IF op = "pong" THEN 0..Len(pings) ELSE {serial + 1} :
           inbox' = Append(inbox, Frame(op, IF n = 0 \/ op # "pong" THEN n ELSE pings[n]))
    BY <1>3 DEF DataReceived
  <2>3. (IF n = 0 \/ op # "pong" THEN n ELSE pings[n]) \in Nat
    BY <2>2, Constants DEF Types, PingTypes, NetTypes
  <2>4. inbox' \in Seq([op : PeerOps, n : Nat])
    BY <2>1, <2>2, <2>3 DEF Types, NetTypes, Frame
  <2> QED
    BY <1>3, <2>4, Constants DEF DataReceived, Types, NetTypes
<1>4. CASE EofReceived \/ CloseConnection \/ \E exc \in BOOLEAN : ConnectionLost(exc)
  BY <1>4 DEF EofReceived, ConnectionLost, CloseConnection, CcTransferDone, CcWaitPeer, CcHalfClose, CcWaitHalf, CcClose,
     CcWaitClose, CcWaitAbort, CcOnly, Types, NetTypes, closeVars
<1>5. KeepAlive => UNCHANGED netVars
  BY DEF KeepAlive, KaPing, KaWritten, KaPong, KaTimeout, Appl
<1>6. (\E s \in Senders : Send(s)) \/ (\E c \in Closers : Close(c)) \/ (\E r \in Receivers : Recv(r)) => UNCHANGED netVars
  BY DEF Recv, RecvCall, RecvWake, RecvRaise, RecvCancel, RecvOnly, Send, SendCall, SendRaise, SendTurn, SendNext,
     SendFinal, SendAbort, SendOnly, Close, CloseCall, CloseWritten, CloseWriteTimeout, CloseTimeout, CloseTransferDone,
     CloseReturn, CloseOnly
<1>7. ConnectionOpen \/ FailHandshake \/ Broadcast \/ ResumeWriting \/ (\E t \in Tasks : DrainYielded(t))
      \/ (Transfer /\ ~TdRead) => UNCHANGED netVars
  BY DEF ConnectionOpen, FailHandshake, Broadcast, ResumeWriting, DrainYielded, Transfer, TdEnd, TdRoom, TdPongWritten,
     TdEchoed, TdCancelled
<1> QED
  BY <1>1, <1>2, <1>3, <1>4, <1>5, <1>6, <1>7 DEF Next, EventLoop, Peer

LEMMA PingTypesNext ==
  ASSUME Types, Next
  PROVE  PingTypes'
<1>1. CASE UNCHANGED pingVars
  BY <1>1 DEF Types, PingTypes, pingVars
<1>2. CASE KaPing
  <2>1. CASE UNCHANGED pingVars
    BY <1>1, <2>1
  <2>2. CASE pings' = Append(pings, PingsSent + 1) /\ pongs' = pongs /\ PingsSent < MaxPings
    <3>1. PingsSent \in Nat
      BY PingsCounted DEF Types
    <3>2. PingsSent + 1 \in 1..MaxPings
      BY <2>2, <3>1, Constants
    <3> QED
      BY <2>2, <3>2 DEF Types, PingTypes
  <2> QED
    BY <1>2, <2>1, <2>2 DEF KaPing
<1>3. ASSUME NEW exc \in BOOLEAN, ConnectionLost(exc)
      PROVE  PingTypes'
  BY <1>3 DEF ConnectionLost, Types, PingTypes
<1>4. CASE TdRead
  <2>1. CASE TdPong(Head(inbox))
    <3>1. CASE UNCHANGED pingVars
      BY <1>1, <3>1
    <3>2. CASE ~UNCHANGED pingVars
      <4>1. PICK i \in DOMAIN pings :
              /\ pings' = SubSeq(pings, i + 1, Len(pings))
              /\ pongs' = [p \in DOMAIN pongs |-> IF pongs[p] = "pending" /\ \E j \in 1..i : pings[j] = p
                                                  THEN "done" ELSE pongs[p]]
        BY <2>1, <3>2 DEF TdPong
      <4>2. pongs' \in [1..MaxPings -> {"pending", "done", "failed"}]
        BY <4>1 DEF Types, PingTypes
      <4>3. pings' \in Seq(1..MaxPings)
        BY <4>1, RestIn DEF Types, PingTypes
      <4> QED
        BY <4>2, <4>3 DEF PingTypes
    <3> QED
      BY <3>1, <3>2
  <2> QED
    BY <1>1, <1>4, <2>1 DEF TdRead
<1>5. KeepAlive /\ ~KaPing => UNCHANGED pingVars
  BY DEF KeepAlive, KaWritten, KaPong, KaTimeout
<1>6. (\E s \in Senders : Send(s)) \/ (\E c \in Closers : Close(c)) \/ (\E r \in Receivers : Recv(r)) => UNCHANGED pingVars
  BY DEF Recv, RecvCall, RecvWake, RecvRaise, RecvCancel, RecvOnly, Send, SendCall, SendRaise, SendTurn, SendNext,
     SendFinal, SendAbort, SendOnly, Close, CloseCall, CloseWritten, CloseWriteTimeout, CloseTimeout, CloseTransferDone,
     CloseReturn, CloseOnly
<1>7. ConnectionOpen \/ FailHandshake \/ Broadcast \/ ResumeWriting \/ (\E t \in Tasks : DrainYielded(t))
      \/ (Transfer /\ ~TdRead) \/ Peer \/ CloseConnection => UNCHANGED pingVars
  BY DEF ConnectionOpen, FailHandshake, Broadcast, ResumeWriting, DrainYielded, Transfer, TdEnd, TdRoom, TdPongWritten,
     TdEchoed, TdCancelled, Peer, EofReceived, DataReceived, CloseConnection, CcTransferDone, CcWaitPeer, CcHalfClose,
     CcWaitHalf, CcClose, CcWaitClose, CcWaitAbort, CcOnly
<1> QED
  BY <1>1, <1>2, <1>3, <1>4, <1>5, <1>6, <1>7 DEF Next, EventLoop


\* Writing a frame, with or without a drain.
LEMMA WriteSyncTypes ==
  ASSUME WriteTypes, NEW f \in Frames, WriteSync(f)
  PROVE  paused' \in BOOLEAN /\ sent' \in Seq(Frames)
<1>1. sent' \in Seq(Frames)
  <2>1. sent \in Seq(Frames) /\ sent' = Append(sent, f)
    BY DEF WriteTypes, WriteSync
  <2> QED
    BY <2>1, AppendIn
<1>2. paused' \in BOOLEAN
  BY DEF WriteTypes, WriteSync
<1> QED
  BY <1>1, <1>2

LEMMA WriteFrameTypes ==
  ASSUME WriteTypes, NEW t \in Tasks, NEW f \in Frames, WriteFrame(t, f)
  PROVE  WriteTypes'
<1>1. paused' \in BOOLEAN /\ sent' \in Seq(Frames)
  BY WriteSyncTypes DEF WriteFrame
<1>2. wr' \in [Tasks -> {"none", "yield", "wait", "ok", "err", "assert"}] /\ drainWaiter' \in Tasks \cup {NoTask}
  BY DEF WriteFrame, DrainHelper, WriteTypes
<1> QED
  BY <1>1, <1>2 DEF WriteTypes

LEMMA FailCloseTypes ==
  ASSUME WriteTypes, NEW code \in Codes \cup {ABNORMAL}, FailClose(code)
  PROVE  paused' \in BOOLEAN /\ sent' \in Seq(Frames)
<1>1. Frame("close", code) \in Frames
  BY DEF Frame, Frames, Codes, None, NORMAL, PROTOCOL_ERROR, INVALID_DATA, TOO_BIG, INTERNAL, ABNORMAL
<1> QED
  BY <1>1, WriteSyncTypes DEF FailClose, WriteTypes

LEMMA DropDrainTypes ==
  ASSUME WriteTypes, NEW t \in Tasks, DropDrain(t) \/ Drained(t)
  PROVE  wr' \in [Tasks -> {"none", "yield", "wait", "ok", "err", "assert"}] /\ drainWaiter' \in Tasks \cup {NoTask}
BY DEF DropDrain, Drained, WriteTypes

LEMMA WriteTypesTransfer ==
  ASSUME Types, Transfer
  PROVE  WriteTypes'
<1>1. "td" \in Tasks
  BY DEF Tasks
<1>2. ASSUME NEW code \in Codes \cup {ABNORMAL}, TdFail(code)
      PROVE  WriteTypes'
  BY <1>2, FailCloseTypes DEF TdFail, Types, WriteTypes
<1>3. CASE TdRead
  <2> DEFINE f == Head(inbox)
  <2>1. f.n \in Nat
    BY <1>3, HeadOfInbox DEF TdRead, Types
  <2>2. CASE UNCHANGED writeVars
    BY <2>2 DEF writeVars, Types, WriteTypes
  <2>3. CASE TdClose(f) /\ ~UNCHANGED writeVars
    <3>1. Frame("close", NORMAL) \in Frames
      BY DEF Frame, Frames, NORMAL
    <3> QED
      BY <1>1, <2>3, <3>1, WriteFrameTypes DEF TdClose, WriteClose, Types
  <2>4. CASE TdPing(f) /\ ~UNCHANGED writeVars
    <3>1. Frame("pong", f.n) \in Frames
      BY <2>1 DEF Frame, Frames
    <3> QED
      BY <1>1, <2>4, <3>1, WriteFrameTypes DEF TdPing, Types
  <2>5. CASE f.op \in {"bad", "utf8", "big"} /\ TdFail(FrameError(f.op))
    <3>1. FrameError(f.op) \in Codes
      BY <2>5 DEF FrameError, Codes
    <3> QED
      BY <1>2, <2>5, <3>1
  <2>6. CASE TdFail(PROTOCOL_ERROR)
    BY <1>2, <2>6 DEF Codes
  <2> QED
    BY <1>3, <2>2, <2>3, <2>4, <2>5, <2>6 DEF TdRead
<1>4. CASE TdEnd
  BY <1>2, <1>4 DEF TdEnd
<1>5. CASE TdRoom
  BY <1>5 DEF TdRoom, writeVars, Types, WriteTypes
<1>6. CASE TdPongWritten
  <2>1. CASE wr["td"] = "assert"
    BY <1>1, <1>6, <2>1, FailCloseTypes DEF TdPongWritten, Types, WriteTypes, Codes
  <2>2. CASE wr["td"] # "assert"
    BY <1>1, <1>6, <2>2, DropDrainTypes DEF TdPongWritten, Drained, Types, WriteTypes
  <2> QED
    BY <2>1, <2>2
<1>7. CASE TdEchoed \/ TdCancelled
  BY <1>1, <1>7, DropDrainTypes DEF TdEchoed, TdCancelled, Drained, Types, WriteTypes
<1> QED
  BY <1>3, <1>4, <1>5, <1>6, <1>7 DEF Transfer

LEMMA WriteTypesSend ==
  ASSUME Types, NEW s \in Senders, Send(s)
  PROVE  WriteTypes'
<1>1. s \in Tasks
  BY DEF Tasks
<1>2. CASE UNCHANGED writeVars
  BY <1>2 DEF writeVars, Types, WriteTypes
<1>3. ASSUME NEW op \in {"msg", "first", "cont", "last"}, WriteFrame(s, Frame(op, s))
      PROVE  WriteTypes'
  <2>1. Frame(op, s) \in Frames
    BY DEF Frame, Frames
  <2> QED
    BY <1>1, <1>3, <2>1, WriteFrameTypes DEF Types
<1>4. CASE SendFirst(s)
  BY <1>2, <1>3, <1>4 DEF SendFirst
<1>5. ASSUME NEW out, SendFail(s, out)
      PROVE  WriteTypes'
  BY <1>1, <1>5, FailCloseTypes, DropDrainTypes DEF SendFail, Types, WriteTypes, Codes
<1>6. CASE Drained(s)
  BY <1>1, <1>6, DropDrainTypes DEF Drained, Types, WriteTypes
<1> QED
  BY <1>2, <1>3, <1>4, <1>5, <1>6 DEF Send, SendCall, SendRaise, SendTurn, SendNext, SendFinal, SendAbort

LEMMA WriteTypesNext ==
  ASSUME Types, Next
  PROVE  WriteTypes'
<1>1. CASE UNCHANGED writeVars
  BY <1>1 DEF writeVars, Types, WriteTypes
<1>2. CASE Broadcast
  <2>1. Frame("cast", 0) \in Frames
    BY DEF Frame, Frames
  <2> QED
    BY <1>2, <2>1, WriteSyncTypes DEF Broadcast, Types, WriteTypes
<1>3. CASE KeepAlive
  <2>1. "ka" \in Tasks
    BY DEF Tasks
  <2>2. CASE WriteFrame("ka", Frame("ping", PingsSent + 1))
    <3>1. Frame("ping", PingsSent + 1) \in Frames
      BY PingsCounted DEF Types, Frame, Frames
    <3> QED
      BY <2>1, <2>2, <3>1, WriteFrameTypes DEF Types
  <2>3. CASE KaTimeout
    BY <2>3, FailCloseTypes DEF KaTimeout, Types, WriteTypes, Codes
  <2>4. CASE Drained("ka")
    BY <2>1, <2>4, DropDrainTypes DEF Drained, Types, WriteTypes
  <2> QED
    BY <1>1, <1>3, <2>2, <2>3, <2>4 DEF KeepAlive, KaPing, KaWritten, KaPong
<1>4. CASE CloseConnection
  <2>1. CASE CcTransferDone
    BY <2>1, DropDrainTypes DEF CcTransferDone, Tasks, Types, WriteTypes
  <2> QED
    BY <1>1, <1>4, <2>1 DEF CloseConnection, CcWaitPeer, CcHalfClose, CcWaitHalf, CcClose, CcWaitClose, CcWaitAbort, CcOnly,
       writeVars
<1>5. CASE EventLoop
  BY <1>5 DEF EventLoop, ResumeWriting, DrainYielded, DrainHelper, ConnectionLost, Types, WriteTypes
<1>6. ASSUME NEW c \in Closers, Close(c)
      PROVE  WriteTypes'
  <2>1. c \in Tasks /\ Frame("close", NORMAL) \in Frames
    BY DEF Tasks, Frame, Frames, NORMAL
  <2>2. CASE WriteClose(c, NORMAL, closeRcvd)
    BY <2>1, <2>2, WriteFrameTypes DEF WriteClose, Types
  <2>3. CASE DropDrain(c) /\ UNCHANGED <<paused, sent>>
    BY <2>1, <2>3, DropDrainTypes DEF Types, WriteTypes
  <2>4. CASE Drained(c)
    BY <2>1, <2>4, DropDrainTypes DEF Drained, Types, WriteTypes
  <2> QED
    BY <1>1, <1>6, <2>2, <2>3, <2>4 DEF Close, CloseCall, CloseWritten, CloseWriteTimeout, CloseTimeout,
       CloseTransferDone, CloseReturn
<1>7. ConnectionOpen \/ FailHandshake \/ Peer \/ (\E r \in Receivers : Recv(r)) => UNCHANGED writeVars
  BY DEF ConnectionOpen, FailHandshake, Peer, EofReceived, DataReceived, Recv, RecvCall, RecvWake, RecvRaise, RecvCancel,
     RecvOnly
<1> QED
  BY <1>1, <1>2, <1>3, <1>4, <1>5, <1>6, <1>7, WriteTypesTransfer, WriteTypesSend DEF Next


\* What Deliver and recv() do to the queue.
LEMMA DeliverTypes ==
  ASSUME QueueTypes, NEW m \in 1..MaxIn, Deliver(m), delivered' = delivered
  PROVE  QueueTypes' /\ td' \in {"room", "read"} /\ tdMsg' \in {None, m} /\ (td' = "room" => tdMsg' = m)
<1>1. messages \in Seq(1..MaxIn) /\ delivered \in Seq(1..MaxIn)
  BY DEF QueueTypes
<1>2. Append(messages, m) \in Seq(1..MaxIn)
  BY <1>1, AppendIn
<1>3. QueueTypes'
  BY <1>1, <1>2 DEF Deliver, QueueTypes
<1> QED
  BY <1>3 DEF Deliver

LEMMA PopTypes ==
  ASSUME QueueTypes, NEW r \in Receivers, Pop(r)
  PROVE  messages' \in Seq(1..MaxIn) /\ delivered' \in Seq(1..MaxIn) /\ putWaiter' \in BOOLEAN
<1>1. Head(messages) \in 1..MaxIn /\ Tail(messages) \in Seq(1..MaxIn)
  BY HeadAndTail DEF Pop, QueueTypes
<1> QED
  BY <1>1, AppendIn DEF Pop, QueueTypes

\* transfer_data reads a message of the peer.
LEMMA ReadIs ==
  ASSUME Types, Streamed, TdRead
  PROVE  LET f == Head(inbox) IN
         \/ UNCHANGED <<queueVars, tdVars>>
         \/ td' \in {"done", "echo", "pong"} /\ tdMsg' \in {None, tdMsg} /\ UNCHANGED <<queueVars, tdCancel>>
         \/ /\ f.op \in {"msg", "last"} /\ UNCHANGED <<delivered, tdCancel>>
            /\ \E m \in 1..MaxIn : /\ Deliver(m) /\ m = IF f.op = "msg" THEN f.n ELSE tdMsg
                                   /\ f.op = "msg" => tdMsg = None
         \/ /\ f.op \in {"first", "cont"} /\ UNCHANGED <<queueVars, td, tdCancel>>
            /\ tdMsg' = IF f.op = "first" THEN f.n ELSE tdMsg
<1> DEFINE f == Head(inbox)
<1>1. CASE TdClose(f) /\ UNCHANGED queueVars
  BY <1>1 DEF TdClose, TdExit
<1>2. CASE TdPing(f) /\ UNCHANGED queueVars
  BY <1>2 DEF TdPing
<1>3. CASE UNCHANGED <<tdVars, queueVars>>
  BY <1>3
<1>4. CASE (\E code : TdFail(code)) /\ UNCHANGED queueVars
  BY <1>4 DEF TdFail, TdExit
<1>5. CASE /\ f.op \in {"msg", "last"} /\ ~Unexpected(f.op)
           /\ Deliver(IF f.op = "msg" THEN f.n ELSE tdMsg) /\ UNCHANGED <<tdCancel, delivered>>
  <2>1. f.op = "msg" => f.n \in 1..MaxIn
    BY HeadIsNew, Constants DEF TdRead, Types, NetTypes
  <2>2. (f.op = "last" => tdMsg # None) /\ (f.op = "msg" => tdMsg = None)
    BY <1>5 DEF Unexpected
  <2>3. (IF f.op = "msg" THEN f.n ELSE tdMsg) \in 1..MaxIn
    BY <1>5, <2>1, <2>2, Constants DEF Types, TaskTypes, None
  <2> QED
    BY <1>5, <2>2, <2>3
<1>6. CASE /\ f.op \in {"first", "cont"} /\ UNCHANGED <<queueVars, td, tdCancel>>
           /\ tdMsg' = IF f.op = "first" THEN f.n ELSE tdMsg
  BY <1>6
<1> QED
  BY <1>1, <1>2, <1>3, <1>4, <1>5, <1>6 DEF TdRead

LEMMA QueueTypesNext ==
  ASSUME Types, Streamed, Next
  PROVE  QueueTypes'
<1>1. CASE UNCHANGED queueVars
  BY <1>1 DEF queueVars, Types, QueueTypes
<1>2. CASE TdRead
  BY <1>1, <1>2, ReadIs, DeliverTypes DEF Types
<1>3. CASE TdRoom
  <2>1. tdMsg \in 1..MaxIn
    BY <1>3, Constants DEF TdRoom, Types, TaskTypes, None
  <2> QED
    BY <1>3, <2>1, DeliverTypes DEF TdRoom, Types
<1>4. CASE TdCancelled
  BY <1>4 DEF TdCancelled, Types, QueueTypes
<1>5. ASSUME NEW r \in Receivers, Recv(r)
      PROVE  QueueTypes'
  <2>1. CASE Pop(r) /\ popDone' = popDone /\ popWaiter' \in {popWaiter, NoTask}
    BY <2>1, PopTypes DEF Types, QueueTypes
  <2>2. CASE Wait(r)
    BY <2>2 DEF Wait, Types, QueueTypes
  <2>3. CASE UNCHANGED <<messages, popDone, putWaiter, delivered>> /\ popWaiter' = NoTask
    BY <2>3 DEF Types, QueueTypes
  <2> QED
    BY <1>1, <1>5, <2>1, <2>2, <2>3 DEF Recv, RecvCall, RecvWake, RecvRaise, RecvCancel
<1>6. TdEnd \/ TdPongWritten \/ TdEchoed \/ ConnectionOpen \/ FailHandshake \/ Broadcast \/ KeepAlive \/ CloseConnection
      \/ EventLoop \/ Peer => UNCHANGED queueVars
  BY DEF TdEnd, TdPongWritten, TdEchoed, ConnectionOpen, FailHandshake, Broadcast, KeepAlive, KaPing, KaWritten, KaPong,
     KaTimeout, Appl, CloseConnection, CcTransferDone, CcWaitPeer, CcHalfClose, CcWaitHalf, CcClose, CcWaitClose,
     CcWaitAbort, CcOnly, EventLoop, ResumeWriting, DrainYielded, ConnectionLost, Peer, EofReceived, DataReceived
<1>7. (\E s \in Senders : Send(s)) \/ (\E c \in Closers : Close(c)) => UNCHANGED queueVars
  BY DEF Send, SendCall, SendRaise, SendTurn, SendNext, SendFinal, SendAbort, SendOnly, Close, CloseCall, CloseWritten,
     CloseWriteTimeout, CloseTimeout, CloseTransferDone, CloseReturn, CloseOnly
<1> QED
  BY <1>1, <1>2, <1>3, <1>4, <1>5, <1>6, <1>7 DEF Next, Transfer

\* The program counters of transfer_data, keepalive_ping, close_connection.
LEMMA TaskTypesNext ==
  ASSUME Types, Streamed, Next
  PROVE  TaskTypes'
<1> DEFINE Good == /\ td' \in {"off", "read", "room", "pong", "echo", "done"} /\ tdCancel' \in {"no", "req", "self"}
                   /\ tdMsg' \in 0..MaxIn /\ (td' = "room" => tdMsg' # None)
           Moved == UNCHANGED tdVars \/ (CancelTd /\ UNCHANGED <<td, tdMsg>>)
<1>1. Good
  <2>1. CASE UNCHANGED tdVars
    BY <2>1 DEF tdVars, Types, TaskTypes
  <2>2. CASE TdRead
    <3>1. Head(inbox).op = "first" => Head(inbox).n \in 0..MaxIn
      BY <2>2, HeadIsNew, Constants DEF TdRead, Types, NetTypes
    <3>2. None \in 0..MaxIn /\ \A m \in 1..MaxIn : m \in 0..MaxIn /\ m # None
      BY Constants DEF None
    <3>3. td = "read"
      BY <2>2 DEF TdRead
    <3> QED
      BY <2>1, <2>2, <3>1, <3>2, <3>3, ReadIs, DeliverTypes DEF Types, TaskTypes
  <2>3. CASE TdRoom
    <3>1. tdMsg \in 1..MaxIn
      BY <2>3, Constants DEF TdRoom, Types, TaskTypes, None
    <3>2. None \in 0..MaxIn /\ \A m \in 1..MaxIn : m \in 0..MaxIn /\ m # None
      BY Constants DEF None
    <3> QED
      BY <2>3, <3>1, <3>2, DeliverTypes DEF TdRoom, Types, TaskTypes
  <2>4. CASE Transfer /\ ~TdRead /\ ~TdRoom
    BY <2>4, Constants DEF Transfer, TdEnd, TdFail, TdPongWritten, TdEchoed, TdCancelled, TdExit, Types, TaskTypes, None
  <2>5. CASE ConnectionOpen \/ Moved
    BY <2>1, <2>5 DEF ConnectionOpen, CancelTd, Types, TaskTypes
  <2>6. FailHandshake \/ Broadcast \/ CloseConnection \/ EventLoop \/ Peer \/ (\E r \in Receivers : Recv(r)) => Moved
    BY DEF FailHandshake, Broadcast, CloseConnection, CcTransferDone, CcWaitPeer, CcHalfClose, CcWaitHalf, CcClose,
       CcWaitClose, CcWaitAbort, CcOnly, EventLoop, ResumeWriting, DrainYielded, ConnectionLost, Peer, EofReceived,
       DataReceived, Recv, RecvCall, RecvWake, RecvRaise, RecvCancel, RecvOnly
  <2>7. KeepAlive => Moved
    BY DEF KeepAlive, KaPing, KaWritten, KaPong, KaTimeout, Appl
  <2>8. (\E s \in Senders : Send(s)) \/ (\E c \in Closers : Close(c)) => Moved
    BY DEF Send, SendCall, SendRaise, SendTurn, SendNext, SendFinal, SendAbort, SendFirst, SendFail, SendOnly, Close,
       CloseCall, CloseWritten, CloseWriteTimeout, CloseTimeout, CloseTransferDone, CloseReturn, CloseOnly, tdVars
  <2> HIDE DEF Good, Moved
  <2> QED
    BY <2>1, <2>2, <2>3, <2>4, <2>5, <2>6, <2>7, <2>8 DEF Next
<1>2. ka' \in {"off", "sleep", "ensure", "write", "pong", "done"}
      /\ cc' \in {"off", "td", "waitPeer", "eof", "waitHalf", "close", "waitClose", "waitAbort", "done"}
  <2>1. CASE UNCHANGED <<ka, cc>>
    BY <2>1 DEF Types, TaskTypes
  <2>2. CASE ConnectionOpen \/ FailHandshake \/ KeepAlive \/ CloseConnection
    BY <2>2 DEF ConnectionOpen, FailHandshake, KeepAlive, KaPing, KaWritten, KaPong, KaTimeout, Appl, CloseConnection,
       CcTransferDone, CcWaitPeer, CcHalfClose, CcWaitHalf, CcClose, CcWaitClose, CcWaitAbort, Cc, Types, TaskTypes
  <2>3. Broadcast \/ Transfer \/ EventLoop \/ Peer \/ (\E r \in Receivers : Recv(r)) => UNCHANGED <<ka, cc>>
    BY DEF Broadcast, Transfer, TdRead, TdEnd, TdRoom, TdPongWritten, TdEchoed, TdCancelled, EventLoop, ResumeWriting,
       DrainYielded, ConnectionLost, Peer, EofReceived, DataReceived, Recv, RecvCall, RecvWake, RecvRaise, RecvCancel,
       RecvOnly
  <2>4. (\E s \in Senders : Send(s)) \/ (\E c \in Closers : Close(c)) => UNCHANGED <<ka, cc>>
    BY DEF Send, SendCall, SendRaise, SendTurn, SendNext, SendFinal, SendAbort, SendOnly, Close, CloseCall,
       CloseWritten, CloseWriteTimeout, CloseTimeout, CloseTransferDone, CloseReturn, CloseOnly
  <2> QED
    BY <2>1, <2>2, <2>3, <2>4 DEF Next
<1> QED
  BY <1>1, <1>2 DEF TaskTypes

LEMMA AppTypesNext ==
  ASSUME Types, Next
  PROVE  AppTypes'
<1>1. CASE UNCHANGED appVars
  BY <1>1 DEF appVars, Types, AppTypes
<1>2. ASSUME NEW r \in Receivers, Recv(r)
      PROVE  AppTypes'
  BY <1>2 DEF Recv, RecvCall, RecvWake, RecvRaise, RecvCancel, Pop, Wait, RecvOnly, Types, AppTypes
<1>3. ASSUME NEW s \in Senders, Send(s)
      PROVE  AppTypes'
  BY <1>3 DEF Send, SendCall, SendRaise, SendTurn, SendNext, SendFinal, SendAbort, SendFirst, SendFail, SendEnd, SendOnly,
     Types, AppTypes
<1>4. ASSUME NEW c \in Closers, Close(c)
      PROVE  AppTypes'
  BY <1>4 DEF Close, CloseCall, CloseWritten, CloseWriteTimeout, CloseTimeout, CloseTransferDone, CloseReturn, CloseGo,
     CloseOnly, Types, AppTypes
<1>5. Broadcast => fragWaiter' = fragWaiter /\ UNCHANGED <<recvPc, sendPc, closePc>>
  BY DEF Broadcast
<1>6. ConnectionOpen \/ FailHandshake \/ KeepAlive \/ CloseConnection \/ Transfer \/ EventLoop \/ Peer => UNCHANGED appVars
  BY DEF ConnectionOpen, FailHandshake, KeepAlive, KaPing, KaWritten, KaPong, KaTimeout, Appl, CloseConnection,
     CcTransferDone, CcWaitPeer, CcHalfClose, CcWaitHalf, CcClose, CcWaitClose, CcWaitAbort, CcOnly, Transfer, TdRead,
     TdEnd, TdRoom, TdPongWritten, TdEchoed, TdCancelled, EventLoop, ResumeWriting, DrainYielded, ConnectionLost, Peer,
     EofReceived, DataReceived
<1> QED
  BY <1>1, <1>2, <1>3, <1>4, <1>5, <1>6 DEF Next, Types, AppTypes

LEMMA TypesNext ==
  ASSUME Types, Codified, Streamed, Next
  PROVE  Types'
BY CloseTypesNext, NetTypesNext, WriteTypesNext, QueueTypesNext, PingTypesNext, TaskTypesNext, AppTypesNext DEF Types


-----------------------------------------------------------------------------
(* Every step keeps Wire.                                                  *)

\* A fragmented message whose sender has not written its last frame.
OpenAt(i) == sent[i].op \in {"first", "cont"} /\ \A k \in (i + 1)..Len(sent) : sent[k].op \notin DataOps
HeldBy(n) == fragWaiter = n /\ fragWaiter \in Senders /\ sendPc[fragWaiter] = "write"

LEMMA WireSame ==
  ASSUME Types, Wire, sent' = sent, state' = "CONNECTING" => state = "CONNECTING",
         state' = "OPEN" => state = "OPEN" \/ sent = <<>>,
         state' = "OPEN" => \A n : HeldBy(n) => HeldBy(n)',
         \A s \in Senders : sendPc'[s] = "final" => fragWaiter' = s
  PROVE  Wire'
<1>1. \A i \in DOMAIN sent' : sent'[i].op = "close" => state' # "OPEN"
  BY DEF Wire
<1>2. \A i \in DOMAIN sent' : OpenAt(i)' => state' # "OPEN" \/ HeldBy(sent[i].n)'
  BY DEF Wire, OpenAt, HeldBy
<1>3. CloseFrameIsLast' /\ FragmentsContiguous'
  BY DEF Wire, CloseFrameIsLast, FragmentsContiguous
<1> QED
  BY <1>1, <1>2, <1>3 DEF Wire, OpenAt, HeldBy

\* A frame that may be written: data only by the sender that has the lock,
\* or when nobody has it.
LEMMA WireAppend ==
  ASSUME Types, Wire, state = "OPEN", NEW f \in Frames, sent' = Append(sent, f), state' # "CONNECTING",
         f.op = "close" => state' # "OPEN",
         f.op \in DataOps => fragWaiter = NoTask \/ (f.op \in {"cont", "last"} /\ f.n = fragWaiter),
         state' = "OPEN" => IF f.op \in {"first", "cont"} THEN HeldBy(f.n)'
                            ELSE f.op \in DataOps \/ UNCHANGED <<fragWaiter, sendPc>>,
         \A s \in Senders : sendPc'[s] = "final" => fragWaiter' = s
  PROVE  Wire'
<1> DEFINE k == Len(sent) + 1
<1>1. sent \in Seq(Frames) /\ k \in Nat /\ DOMAIN sent = 1..(k - 1)
  BY DEF Types, WriteTypes
<1>2. sent' \in Seq(Frames) /\ Len(sent') = k /\ sent'[k] = f /\ \A i \in 1..(k - 1) : sent'[i] = sent[i]
  BY <1>1, AppendIn
<1>3. DOMAIN sent' = 1..k
  BY <1>1, <1>2
<1> HIDE DEF k
<1>4. \A i \in 1..(k - 1) : sent[i].op # "close"
  BY <1>1 DEF Wire
<1>5. CloseFrameIsLast'
  BY <1>1, <1>2, <1>3, <1>4 DEF CloseFrameIsLast
<1>6. \A i \in DOMAIN sent' : sent'[i].op = "close" => state' # "OPEN"
  BY <1>1, <1>2, <1>3, <1>4
<1>7. ASSUME NEW i \in 1..(k - 1), OpenAt(i)
      PROVE  fragWaiter = sent[i].n /\ fragWaiter \in Senders /\ HeldBy(sent[i].n)
  BY <1>1, <1>7 DEF Wire, OpenAt, HeldBy
<1>8. ASSUME NEW i \in DOMAIN sent', OpenAt(i)'
      PROVE  state' # "OPEN" \/ HeldBy(sent[i].n)'
  <2>1. CASE i = k
    BY <1>2, <1>8, <2>1 DEF OpenAt, DataOps
  <2>2. CASE i # k
    <3>1. i \in 1..(k - 1) /\ sent'[i] = sent[i] /\ k \in (i + 1)..Len(sent')
      BY <1>1, <1>2, <1>3, <2>2
    <3>2. f.op \notin DataOps
      BY <1>2, <1>8, <3>1 DEF OpenAt
    <3>3. \A j \in (i + 1)..Len(sent) : sent'[j] = sent[j] /\ j \in (i + 1)..Len(sent')
      BY <1>1, <1>2, <3>1 DEF k
    <3>4. OpenAt(i)
      BY <1>8, <3>1, <3>3 DEF OpenAt
    <3>5. HeldBy(sent[i].n)
      BY <1>7, <3>1, <3>4
    <3> QED
      BY <3>1, <3>2, <3>5 DEF HeldBy, DataOps
  <2> QED
    BY <2>1, <2>2
<1>9. FragmentsContiguous'
  <2>1. ASSUME NEW i \in DOMAIN sent', NEW j \in DOMAIN sent', i < j, sent'[i].op \in {"first", "cont"}, sent'[j].op \in DataOps,
               \A l \in (i + 1)..(j - 1) : sent'[l].op \notin DataOps
        PROVE  sent'[j].op \in {"cont", "last"} /\ sent'[j].n = sent'[i].n
    <3>1. i \in 1..(k - 1) /\ sent'[i] = sent[i]
      BY <1>1, <1>2, <1>3, <2>1
    <3>2. CASE j = k
      <4>1. \A l \in (i + 1)..Len(sent) : sent[l].op \notin DataOps
        BY <1>1, <1>2, <2>1, <3>1, <3>2 DEF k
      <4>2. OpenAt(i)
        BY <2>1, <3>1, <4>1 DEF OpenAt
      <4>3. fragWaiter = sent[i].n /\ fragWaiter \in Senders
        BY <1>7, <3>1, <4>2
      <4>4. fragWaiter # NoTask
        BY <4>3, Constants DEF Tasks
      <4> QED
        BY <1>2, <2>1, <3>1, <3>2, <4>3, <4>4
    <3>3. CASE j # k
      <4>1. j \in 1..(k - 1) /\ sent'[j] = sent[j]
        BY <1>1, <1>2, <1>3, <3>3
      <4>2. \A l \in (i + 1)..(j - 1) : sent[l].op \notin DataOps
        BY <1>1, <1>2, <2>1, <3>1, <4>1
      <4>3. sent[i].op \in {"first", "cont"} /\ sent[j].op \in DataOps /\ i \in DOMAIN sent /\ j \in DOMAIN sent
        BY <1>1, <2>1, <3>1, <4>1
      <4>4. sent[j].op \in {"cont", "last"} /\ sent[j].n = sent[i].n
        BY <2>1, <4>2, <4>3 DEF Wire, FragmentsContiguous
      <4> QED
        BY <3>1, <4>1, <4>4
    <3> QED
      BY <3>2, <3>3
  <2> QED
    BY <2>1 DEF FragmentsContiguous
<1>10. sent' # <<>>
  BY <1>1, <1>2
<1> QED
  BY <1>5, <1>6, <1>8, <1>9, <1>10 DEF Wire, OpenAt, HeldBy


\* Steps that write nothing and touch no send(), and those that write a close
\* frame or a control frame.
LEMMA WireQuiet ==
  ASSUME Types, Wire, sent' = sent, UNCHANGED <<sendPc, fragWaiter>>,
         state' \in {state, "CLOSED"} \/ (state = "CONNECTING" /\ state' = "OPEN")
  PROVE  Wire'
<1>1. \A n : HeldBy(n) => HeldBy(n)'
  BY DEF HeldBy
<1>2. \A s \in Senders : sendPc'[s] = "final" => fragWaiter' = s
  BY DEF Wire
<1>3. (state' = "CONNECTING" => state = "CONNECTING") /\ (state' = "OPEN" => state = "OPEN" \/ sent = <<>>)
  BY DEF Wire
<1> QED
  BY <1>1, <1>2, <1>3, WireSame

LEMMA WireCloses ==
  ASSUME Types, Wire, state = "OPEN", state' = "CLOSING", NEW code \in Codes, sent' = Append(sent, Frame("close", code)),
         \A s \in Senders : sendPc'[s] = "final" => fragWaiter' = s
  PROVE  Wire'
<1>1. PICK f \in Frames : f = Frame("close", code)
  BY DEF Frame, Frames, Codes, None, NORMAL, PROTOCOL_ERROR, INVALID_DATA, TOO_BIG, INTERNAL
<1>2. f.op = "close" /\ sent' = Append(sent, f) /\ f.op \notin DataOps
  BY <1>1 DEF Frame, DataOps
<1> QED
  BY <1>2, WireAppend

LEMMA WireFails ==
  ASSUME Types, Wire, NEW code \in Codes \cup {ABNORMAL}, FailClose(code), UNCHANGED <<sendPc, fragWaiter>>
  PROVE  Wire'
<1>1. CASE UNCHANGED <<closeVars, sent>>
  BY <1>1, WireQuiet DEF closeVars
<1>2. CASE ~UNCHANGED <<closeVars, sent>>
  <2>1. state = "OPEN" /\ state' = "CLOSING" /\ code \in Codes /\ sent' = Append(sent, Frame("close", code))
    BY <1>2 DEF FailClose, WriteSync
  <2>2. \A s \in Senders : sendPc'[s] = "final" => fragWaiter' = s
    BY DEF Wire
  <2> QED
    BY <2>1, <2>2, WireCloses
<1> QED
  BY <1>1, <1>2

LEMMA WireControl ==
  ASSUME Types, Wire, state = "OPEN", state' = "OPEN", NEW op \in {"ping", "pong"}, NEW n \in Nat,
         sent' = Append(sent, Frame(op, n)), UNCHANGED <<sendPc, fragWaiter>>
  PROVE  Wire'
<1>1. PICK f \in Frames : f = Frame(op, n)
  BY DEF Frame, Frames
<1>2. f.op \notin DataOps /\ f.op \notin {"close", "first", "cont"} /\ sent' = Append(sent, f)
  BY <1>1 DEF Frame, DataOps
<1>3. \A s \in Senders : sendPc'[s] = "final" => fragWaiter' = s
  BY DEF Wire
<1> QED
  BY <1>2, <1>3, WireAppend

LEMMA WriteFrameIs ==
  ASSUME NEW t, NEW f, WriteFrame(t, f)
  PROVE  sent' = Append(sent, f)
BY DEF WriteFrame, WriteSync

LEMMA WireTransfer ==
  ASSUME Types, Wire, Transfer
  PROVE  Wire'
<1>1. UNCHANGED <<sendPc, fragWaiter>>
  BY DEF Transfer, TdRead, TdEnd, TdRoom, TdPongWritten, TdEchoed, TdCancelled, appVars
<1>2. CASE TdRead
  <2>1. PICK f \in [op : PeerOps, n : Nat] : f = Head(inbox)
    BY <1>2, HeadOfInbox DEF TdRead, Types
  <2>2. CASE UNCHANGED <<closeVars, writeVars>>
    BY <1>1, <2>2, WireQuiet DEF closeVars, writeVars
  <2>3. CASE TdClose(f)
    <3>1. CASE state = "OPEN"
      <4>1. state' = "CLOSING" /\ sent' = Append(sent, Frame("close", NORMAL)) /\ NORMAL \in Codes
        BY <2>3, <3>1, WriteFrameIs DEF TdClose, WriteClose, Codes
      <4>2. \A s \in Senders : sendPc'[s] = "final" => fragWaiter' = s
        BY <1>1 DEF Wire
      <4> QED
        BY <3>1, <4>1, <4>2, WireCloses
    <3>2. CASE state # "OPEN"
      BY <1>1, <2>3, <3>2, WireQuiet DEF TdClose, writeVars
    <3> QED
      BY <3>1, <3>2
  <2>4. CASE TdPing(f) /\ UNCHANGED closeVars
    <3>1. CASE state = "OPEN"
      <4>1. state' = "OPEN" /\ sent' = Append(sent, Frame("pong", f.n)) /\ f.n \in Nat
        BY <2>4, <3>1, WriteFrameIs DEF TdPing, closeVars
      <4> QED
        BY <1>1, <3>1, <4>1, WireControl
    <3>2. CASE state # "OPEN"
      BY <1>1, <2>4, <3>2, WireQuiet DEF TdPing, writeVars, closeVars
    <3> QED
      BY <3>1, <3>2
  <2>5. CASE f.op \in {"bad", "utf8", "big"} /\ TdFail(FrameError(f.op))
    <3>1. FrameError(f.op) \in Codes
      BY <2>5 DEF FrameError, Codes
    <3> QED
      BY <1>1, <2>5, <3>1, WireFails DEF TdFail
  <2>6. CASE TdFail(PROTOCOL_ERROR)
    BY <1>1, <2>6, WireFails DEF TdFail, Codes
  <2> QED
    BY <1>2, <2>1, <2>2, <2>3, <2>4, <2>5, <2>6 DEF TdRead
<1>3. CASE TdEnd
  BY <1>1, <1>3, WireFails DEF TdEnd, TdFail
<1>4. CASE TdRoom \/ TdEchoed \/ TdCancelled
  BY <1>1, <1>4, WireQuiet DEF TdRoom, TdEchoed, TdCancelled, Drained, closeVars, writeVars
<1>5. CASE TdPongWritten
  <2>1. CASE FailClose(INTERNAL)
    BY <1>1, <2>1, WireFails DEF Codes
  <2>2. CASE Drained("td") /\ UNCHANGED closeVars
    BY <1>1, <2>2, WireQuiet DEF Drained, closeVars
  <2> QED
    BY <1>5, <2>1, <2>2 DEF TdPongWritten
<1> QED
  BY <1>2, <1>3, <1>4, <1>5 DEF Transfer

\* send() that writes nothing more: it has returned, waits, or gives up.
LEMMA WireSendFail ==
  ASSUME Types, Wire, NEW s \in Senders, NEW outcome, outcome \notin {"write", "final"}, SendFail(s, outcome)
  PROVE  Wire'
<1>1. \A q \in Senders : sendPc'[q] = IF q = s THEN outcome ELSE sendPc[q]
  BY DEF SendFail, SendEnd, Types, AppTypes
<1>2. \A q \in Senders : sendPc'[q] = "final" => q # s /\ fragWaiter = q
  BY <1>1 DEF Wire
<1>3. CASE fragWaiter = s
  <2>1. FailClose(INTERNAL) /\ fragWaiter' = NoTask
    BY <1>3 DEF SendFail
  <2>2. \A q \in Senders : sendPc'[q] # "final"
    BY <1>2, <1>3
  <2>3. CASE state = "OPEN"
    <3>1. state' = "CLOSING" /\ sent' = Append(sent, Frame("close", INTERNAL)) /\ INTERNAL \in Codes
      BY <2>1, <2>3 DEF FailClose, WriteSync, INTERNAL, ABNORMAL, Codes
    <3> QED
      BY <2>2, <2>3, <3>1, WireCloses
  <2>4. CASE state # "OPEN"
    <3>1. state' = state /\ sent' = sent
      BY <2>1, <2>4 DEF FailClose, closeVars
    <3> QED
      BY <2>2, <2>4, <3>1, WireSame
  <2> QED
    BY <2>3, <2>4
<1>4. CASE fragWaiter # s
  <2>1. UNCHANGED <<state, sent, fragWaiter>>
    BY <1>4 DEF SendFail, closeVars
  <2>2. \A n : HeldBy(n) => HeldBy(n)'
    BY <1>1, <1>4, <2>1 DEF HeldBy
  <2> QED
    BY <1>2, <2>1, <2>2, WireSame
<1> QED
  BY <1>3, <1>4

LEMMA WireSendEnd ==
  ASSUME Types, Wire, NEW s \in Senders, NEW pc, pc \notin {"write", "final"}, SendEnd(s, pc),
         sendPc[s] # "write" \/ fragWaiter # s, UNCHANGED <<state, sent>>,
         fragWaiter' = fragWaiter \/ (fragWaiter = s /\ fragWaiter' = NoTask)
  PROVE  Wire'
<1>1. \A q \in Senders : sendPc'[q] = IF q = s THEN pc ELSE sendPc[q]
  BY DEF SendEnd, Types, AppTypes
<1>2. \A q \in Senders : sendPc'[q] = "final" => q # s /\ fragWaiter = q
  BY <1>1 DEF Wire
<1>3. \A n : HeldBy(n) => HeldBy(n)'
  BY <1>1 DEF HeldBy
<1>4. \A q \in Senders : sendPc'[q] = "final" => fragWaiter' = q
  BY <1>2
<1> QED
  BY <1>3, <1>4, WireSame


\* A frame of a message: whole, or first when nobody has the lock, or the next
\* one by the task that has it.
LEMMA WireSendFirst ==
  ASSUME Types, Wire, NEW s \in Senders, SendFirst(s), state' = state,
         sendPc[s] \in {"idle", "fragwait"}, fragWaiter = NoTask
  PROVE  Wire'
<1>1. CASE state # "OPEN"
  BY <1>1, WireSendEnd DEF SendFirst, writeVars
<1>2. CASE state = "OPEN"
  <2> DEFINE op == IF cfg.pieces[s] = 0 THEN "msg" ELSE "first"
  <2>0. op \in {"msg", "first"}
    OBVIOUS
  <2>1. PICK f \in Frames : f = Frame(op, s)
    <3> HIDE DEF op
    <3> QED
      BY <2>0 DEF Frame, Frames
  <2>2. sent' = Append(sent, f) /\ f.op \in {"msg", "first"} /\ f.n = s
    <3>1. sent' = Append(sent, f)
      BY <1>2, <2>1, WriteFrameIs DEF SendFirst
    <3>2. f.op \in {"msg", "first"} /\ f.n = s
      BY <2>1 DEF Frame
    <3> QED
      BY <3>1, <3>2
  <2>3. sendPc'[s] = "write" /\ \A q \in Senders : q # s => sendPc'[q] = sendPc[q]
    BY <1>2 DEF SendFirst, SendEnd, Types, AppTypes
  <2>4. (f.op = "first" => fragWaiter' = s) /\ (f.op = "msg" => fragWaiter' = fragWaiter)
    BY <1>2, <2>1 DEF SendFirst, Frame
  <2>5. f.op = "first" => HeldBy(f.n)'
    BY <2>2, <2>3, <2>4 DEF HeldBy
  <2>6. \A q \in Senders : sendPc'[q] = "final" => fragWaiter' = q
    <3>1. \A q \in Senders : sendPc[q] # "final"
      BY Constants DEF Wire, Tasks
    <3> QED
      BY <2>3, <3>1
  <2> QED
    BY <1>2, <2>2, <2>5, <2>6, WireAppend DEF DataOps
<1> QED
  BY <1>1, <1>2

LEMMA WireSendMore ==
  ASSUME Types, Wire, NEW s \in Senders, NEW op, NEW pc, <<op, pc>> \in {<<"cont", "write">>, <<"last", "final">>},
         state = "OPEN", state' = "OPEN", fragWaiter = s, fragWaiter' = s,
         WriteFrame(s, Frame(op, s)), SendEnd(s, pc)
  PROVE  Wire'
<1>1. PICK f \in Frames : f = Frame(op, s)
  BY DEF Frame, Frames
<1>2. sent' = Append(sent, f) /\ f.op = op /\ f.n = s
  BY <1>1, WriteFrameIs DEF Frame
<1>3. sendPc'[s] = pc /\ \A q \in Senders : q # s => sendPc'[q] = sendPc[q]
  BY DEF SendEnd, Types, AppTypes
<1>4. op = "cont" => HeldBy(f.n)'
  BY <1>2, <1>3 DEF HeldBy
<1>5. \A q \in Senders : sendPc'[q] = "final" => fragWaiter' = q
  BY <1>3 DEF Wire
<1> QED
  BY <1>2, <1>4, <1>5, WireAppend DEF DataOps

LEMMA WireSend ==
  ASSUME Types, Wire, NEW s \in Senders, Send(s)
  PROVE  Wire'
<1>1. CASE SendCall(s)
  <2>1. UNCHANGED state /\ sendPc[s] = "idle"
    BY <1>1 DEF SendCall, closeVars
  <2>2. CASE SendFirst(s) /\ fragWaiter = NoTask
    BY <2>1, <2>2, WireSendFirst
  <2>3. CASE (SendEnd(s, "ensure") \/ SendEnd(s, "fragwait")) /\ UNCHANGED <<fragWaiter, writeVars>>
    BY <2>1, <2>3, WireSendEnd DEF writeVars
  <2> QED
    BY <1>1, <2>2, <2>3 DEF SendCall
<1>2. CASE SendRaise(s)
  BY <1>2, WireSendEnd DEF SendRaise, writeVars, closeVars
<1>3. CASE SendTurn(s)
  BY <1>3, WireSendFirst DEF SendTurn, closeVars
<1>4. CASE SendNext(s)
  <2>1. CASE \E out \in {"raised", "assert", "invalid"} : SendFail(s, out)
    BY <2>1, WireSendFail
  <2>2. CASE fragWaiter # s /\ SendEnd(s, "done") /\ Drained(s) /\ UNCHANGED <<closeVars, fragWaiter>>
    BY <2>2, WireSendEnd DEF Drained, closeVars
  <2>3. CASE /\ fragWaiter = s /\ state = "OPEN" /\ UNCHANGED <<closeVars, fragWaiter>>
             /\ WriteFrame(s, Frame(IF left[s] > 0 THEN "cont" ELSE "last", s))
             /\ SendEnd(s, IF left[s] > 0 THEN "write" ELSE "final")
    BY <2>3, WireSendMore DEF closeVars
  <2> QED
    BY <1>4, <2>1, <2>2, <2>3 DEF SendNext
<1>5. CASE SendFinal(s)
  <2>1. CASE SendEnd(s, "done") /\ fragWaiter' = NoTask /\ Drained(s) /\ UNCHANGED closeVars
    <3>1. sendPc[s] = "final" /\ fragWaiter = s
      BY <1>5 DEF SendFinal, Wire
    <3> QED
      BY <2>1, <3>1, WireSendEnd DEF Drained, closeVars
  <2>2. CASE \E out \in {"raised", "assert"} : SendFail(s, out)
    BY <2>2, WireSendFail
  <2> QED
    BY <1>5, <2>1, <2>2 DEF SendFinal
<1>6. CASE SendAbort(s)
  BY <1>6, WireSendFail DEF SendAbort
<1> QED
  BY <1>1, <1>2, <1>3, <1>4, <1>5, <1>6 DEF Send

LEMMA WireNext ==
  ASSUME Types, Wire, Next
  PROVE  Wire'
<1>1. CASE ConnectionOpen
  BY <1>1, WireQuiet DEF ConnectionOpen, writeVars, appVars
<1>2. CASE FailHandshake \/ CloseConnection \/ Peer \/ \E r \in Receivers : Recv(r)
  <2>1. UNCHANGED <<state, sent, sendPc, fragWaiter>>
    BY <1>2 DEF FailHandshake, CloseConnection, CcTransferDone, CcWaitPeer, CcHalfClose, CcWaitHalf, CcClose, CcWaitClose,
       CcWaitAbort, CcOnly, Peer, EofReceived, DataReceived, Recv, RecvCall, RecvWake, RecvRaise, RecvCancel, RecvOnly,
       closeVars, writeVars, appVars
  <2> QED
    BY <2>1, WireQuiet
<1>3. CASE EventLoop
  <2>1. UNCHANGED <<sent, sendPc, fragWaiter>> /\ state' \in {state, "CLOSED"}
    BY <1>3 DEF EventLoop, ResumeWriting, DrainYielded, ConnectionLost, closeVars, appVars
  <2> QED
    BY <2>1, WireQuiet
<1>4. CASE Broadcast
  <2>1. PICK f \in Frames : f = Frame("cast", 0)
    BY DEF Frame, Frames
  <2>2. state' = "OPEN" /\ sent' = Append(sent, f) /\ f.op = "cast" /\ UNCHANGED <<sendPc, fragWaiter>>
    BY <1>4, <2>1 DEF Broadcast, WriteSync, closeVars, Frame
  <2>3. \A s \in Senders : sendPc'[s] = "final" => fragWaiter' = s
    BY <2>2 DEF Wire
  <2> QED
    BY <1>4, <2>2, <2>3, WireAppend DEF Broadcast, DataOps
<1>5. CASE KeepAlive
  <2>1. UNCHANGED <<sendPc, fragWaiter>>
    BY <1>5 DEF KeepAlive, KaPing, KaWritten, KaPong, KaTimeout, Appl, appVars
  <2>2. CASE WriteFrame("ka", Frame("ping", PingsSent + 1)) /\ IsOpen /\ UNCHANGED closeVars
    <3>1. PICK n \in Nat : n = PingsSent + 1
      BY PingsCounted DEF Types
    <3>2. sent' = Append(sent, Frame("ping", n)) /\ state = "OPEN" /\ state' = "OPEN"
      BY <2>2, <3>1, WriteFrameIs DEF IsOpen, closeVars
    <3> QED
      BY <2>1, <3>2, WireControl
  <2>3. CASE KaTimeout
    BY <2>1, <2>3, WireFails DEF KaTimeout, Codes
  <2>4. CASE UNCHANGED <<sent, closeVars>>
    BY <2>1, <2>4, WireQuiet DEF closeVars
  <2> QED
    BY <1>5, <2>2, <2>3, <2>4 DEF KeepAlive, KaPing, KaWritten, KaPong, Drained, writeVars
<1>6. ASSUME NEW c \in Closers, Close(c)
      PROVE  Wire'
  <2>1. UNCHANGED <<sendPc, fragWaiter>>
    BY <1>6 DEF Close, CloseCall, CloseWritten, CloseWriteTimeout, CloseTimeout, CloseTransferDone, CloseReturn, CloseOnly
  <2>2. CASE WriteClose(c, NORMAL, closeRcvd)
    <3>1. state = "OPEN" /\ state' = "CLOSING" /\ sent' = Append(sent, Frame("close", NORMAL)) /\ NORMAL \in Codes
      BY <2>2, WriteFrameIs DEF WriteClose, Codes
    <3>2. \A s \in Senders : sendPc'[s] = "final" => fragWaiter' = s
      BY <2>1 DEF Wire
    <3> QED
      BY <3>1, <3>2, WireCloses
  <2>3. CASE UNCHANGED <<closeVars, sent>>
    BY <2>1, <2>3, WireQuiet DEF closeVars
  <2> QED
    BY <1>6, <2>2, <2>3 DEF Close, CloseCall, CloseWritten, CloseWriteTimeout, CloseTimeout, CloseTransferDone,
       CloseReturn, Drained, writeVars
<1> QED
  BY <1>1, <1>2, <1>3, <1>4, <1>5, <1>6, WireTransfer, WireSend DEF Next


-----------------------------------------------------------------------------
(* Every step keeps Waiters.                                               *)

\* A message enters the queue only when there is room, and a message taken
\* ends the wait for room.
LEMMA RoomNext ==
  ASSUME Types, Waiters, Streamed, Next
  PROVE  (td' = "room" /\ putWaiter' => Len(messages') >= MaxQueue) /\ QueueBounded'
<1> DEFINE Good == (td' = "room" /\ putWaiter' => Len(messages') >= MaxQueue) /\ QueueBounded'
           Kept == UNCHANGED <<messages, putWaiter>> /\ (td' = td \/ td' # "room")
<1> SUFFICES Good
  OBVIOUS
<1>1. CASE Kept
  BY <1>1 DEF Waiters, QueueBounded
<1>2. messages \in Seq(1..MaxIn) /\ Len(messages) \in Nat /\ MaxQueue \in Nat /\ Len(messages) <= MaxQueue
  BY Constants DEF Types, QueueTypes, Waiters, QueueBounded
<1>3. ASSUME NEW m \in 1..MaxIn, Deliver(m)
      PROVE  Good
  <2>1. CASE Len(messages) >= MaxQueue
    BY <1>2, <1>3, <2>1 DEF Deliver, QueueBounded
  <2>2. CASE ~(Len(messages) >= MaxQueue)
    <3>1. td' = "read" /\ messages' = Append(messages, m)
      BY <1>3, <2>2 DEF Deliver
    <3>2. Len(messages') = Len(messages) + 1
      BY <1>2, <3>1, AppendIn
    <3> QED
      BY <1>2, <2>2, <3>1, <3>2 DEF QueueBounded
  <2> QED
    BY <2>1, <2>2
<1>4. ASSUME NEW r \in Receivers, Pop(r)
      PROVE  Good
  <2>1. Len(messages') = Len(messages) - 1 /\ putWaiter' = FALSE
    BY <1>2, <1>4, HeadAndTail DEF Pop
  <2> QED
    BY <1>2, <2>1 DEF QueueBounded
<1>5. CASE TdRead
  BY <1>1, <1>3, <1>5, ReadIs DEF queueVars, tdVars
<1>6. CASE TdRoom
  <2>1. tdMsg \in 1..MaxIn
    BY <1>6, Constants DEF TdRoom, Types, TaskTypes, None
  <2> QED
    BY <1>3, <1>6, <2>1 DEF TdRoom
<1>7. CASE TdCancelled
  BY <1>2, <1>7 DEF TdCancelled, TdExit, QueueBounded
<1>8. ASSUME NEW r \in Receivers, Recv(r)
      PROVE  Good
  BY <1>1, <1>4, <1>8 DEF Recv, RecvCall, RecvWake, RecvRaise, RecvCancel, Wait, RecvOnly, queueVars, tdVars
<1>9. TdEnd \/ TdPongWritten \/ TdEchoed \/ ConnectionOpen \/ FailHandshake \/ Broadcast \/ KeepAlive \/ CloseConnection
      \/ EventLoop \/ Peer => Kept
  BY DEF TdEnd, TdFail, TdExit, TdPongWritten, TdEchoed, ConnectionOpen, FailHandshake, Broadcast, KeepAlive, KaPing,
     KaWritten, KaPong, KaTimeout, Appl, CloseConnection, CcTransferDone, CcWaitPeer, CcHalfClose, CcWaitHalf, CcClose,
     CcWaitClose, CcWaitAbort, CcOnly, EventLoop, ResumeWriting, DrainYielded, ConnectionLost, Peer, EofReceived,
     DataReceived, queueVars, tdVars
<1>10. (\E s \in Senders : Send(s)) \/ (\E c \in Closers : Close(c)) => Kept
  BY DEF Send, SendCall, SendRaise, SendTurn, SendNext, SendFinal, SendAbort, SendOnly, Close, CloseCall, CloseWritten,
     CloseWriteTimeout, CloseTimeout, CloseTransferDone, CloseReturn, CloseOnly, queueVars
<1> HIDE DEF Good, Kept
<1>11. CASE Transfer
  BY <1>1, <1>5, <1>6, <1>7, <1>9, <1>11 DEF Transfer
<1>12. CASE ~Transfer
  BY <1>1, <1>8, <1>9, <1>10, <1>12 DEF Next
<1> QED
  BY <1>11, <1>12

\* close_connection ends, and close() returns, on a connection that is lost.
LEMMA LostNext ==
  ASSUME Types, Codified, Waiters, Next
  PROVE  (cc' = "done" => lost') /\ CloseMeansClosed'
<1>1. lost => lost'
  BY CodesNext DEF CodeStep
<1>2. cc' = cc \/ (cc' = "done" => lost)
  <2>1. ConnectionOpen \/ FailHandshake \/ CloseConnection => (cc' = "done" => lost)
    BY DEF ConnectionOpen, FailHandshake, CloseConnection, CcTransferDone, CcWaitPeer, CcHalfClose, CcWaitHalf, CcClose,
       CcWaitClose, CcWaitAbort, Cc
  <2>2. Broadcast \/ Transfer \/ KeepAlive \/ EventLoop \/ Peer \/ (\E r \in Receivers : Recv(r)) => cc' = cc
    BY DEF Broadcast, Transfer, TdRead, TdEnd, TdRoom, TdPongWritten, TdEchoed, TdCancelled, KeepAlive, KaPing, KaWritten,
       KaPong, KaTimeout, Appl, EventLoop, ResumeWriting, DrainYielded, ConnectionLost, Peer, EofReceived, DataReceived,
       Recv, RecvCall, RecvWake, RecvRaise, RecvCancel, RecvOnly
  <2>3. (\E s \in Senders : Send(s)) \/ (\E c \in Closers : Close(c)) => cc' = cc
    BY DEF Send, SendCall, SendRaise, SendTurn, SendNext, SendFinal, SendAbort, SendOnly, Close, CloseCall, CloseWritten,
       CloseWriteTimeout, CloseTimeout, CloseTransferDone, CloseReturn, CloseOnly
  <2> QED
    BY <2>1, <2>2, <2>3 DEF Next
<1>3. \A c \in Closers : closePc'[c] = "done" => closePc[c] = "done" \/ cc = "done"
  <2>1. ASSUME NEW k \in Closers, Close(k)
        PROVE  \A c \in Closers : closePc'[c] = "done" => closePc[c] = "done" \/ cc = "done"
    BY <2>1 DEF Close, CloseCall, CloseWritten, CloseWriteTimeout, CloseTimeout, CloseTransferDone, CloseReturn, CloseGo,
       Types, AppTypes
  <2>2. ConnectionOpen \/ FailHandshake \/ Broadcast \/ Transfer \/ KeepAlive \/ EventLoop \/ Peer => closePc' = closePc
    BY DEF ConnectionOpen, FailHandshake, Broadcast, Transfer, TdRead, TdEnd, TdRoom, TdPongWritten, TdEchoed,
       TdCancelled, KeepAlive, KaPing, KaWritten, KaPong, KaTimeout, Appl, EventLoop, ResumeWriting, DrainYielded,
       ConnectionLost, Peer, EofReceived, DataReceived, appVars
  <2>3. (\E r \in Receivers : Recv(r)) \/ (\E s \in Senders : Send(s)) \/ CloseConnection => closePc' = closePc
    BY DEF Recv, RecvCall, RecvWake, RecvRaise, RecvCancel, RecvOnly, Send, SendCall, SendRaise, SendTurn, SendNext,
       SendFinal, SendAbort, SendOnly, CloseConnection, CcTransferDone, CcWaitPeer, CcHalfClose, CcWaitHalf, CcClose,
       CcWaitClose, CcWaitAbort, CcOnly, appVars
  <2> QED
    BY <2>1, <2>2, <2>3 DEF Next
<1> QED
  BY <1>1, <1>2, <1>3 DEF Waiters, CloseMeansClosed

\* connection_lost() settles every ping, and nobody sends one on a closed
\* connection.
LEMMA PingsNext ==
  ASSUME Types, Codified, Waiters, Next
  PROVE  PingsSettled'
<1> DEFINE Still == (state' = "CLOSED" => state = "CLOSED") /\ UNCHANGED pingVars
<1>1. CASE Still
  BY <1>1 DEF Waiters, PingsSettled, pingVars
<1>2. CASE TdRead
  <2>1. state' = "CLOSED" => state = "CLOSED"
    BY <1>2, CodesNext DEF CodeStep, SendsCode, ReadsCode, TdRead, Codified
  <2>2. CASE UNCHANGED pingVars
    BY <1>1, <2>1, <2>2
  <2>3. CASE TdPong(Head(inbox)) /\ ~UNCHANGED pingVars
    <3>1. PICK i \in DOMAIN pings : /\ pings' = SubSeq(pings, i + 1, Len(pings))
                                    /\ \A p \in DOMAIN pongs : p \in DOMAIN pongs' /\ pongs'[p] \in {"done", pongs[p]}
      BY <2>3 DEF TdPong
    <3>2. pings \in Seq(DOMAIN pongs)
      BY DEF Types, PingTypes
    <3>3. \A j \in DOMAIN pings' : j + i \in DOMAIN pings /\ pings'[j] = pings[j + i] /\ pings'[j] \in DOMAIN pongs
      BY <3>1, <3>2, RestIn
    <3> QED
      BY <2>1, <3>1, <3>2, <3>3 DEF Waiters, PingsSettled
  <2> QED
    BY <1>2, <2>2, <2>3 DEF TdRead
<1>3. CASE EventLoop
  <2>1. CASE \E exc \in BOOLEAN : ConnectionLost(exc)
    <3>1. pings' = pings /\ pongs' = [p \in DOMAIN pongs |->
                                        IF \E i \in DOMAIN pings : pings[i] = p THEN "failed" ELSE pongs[p]]
      BY <2>1 DEF ConnectionLost
    <3>2. pings \in Seq(DOMAIN pongs)
      BY DEF Types, PingTypes
    <3>3. \A i \in DOMAIN pings : pings[i] \in DOMAIN pongs
      BY <3>2, ItemIn
    <3> QED
      BY <3>1, <3>3 DEF PingsSettled
  <2>2. CASE ResumeWriting \/ \E t \in Tasks : DrainYielded(t)
    BY <1>1, <2>2 DEF ResumeWriting, DrainYielded, closeVars
  <2> QED
    BY <1>3, <2>1, <2>2 DEF EventLoop
<1>4. CASE KeepAlive
  <2>1. CASE KaPing /\ IsOpen
    BY <2>1 DEF KaPing, IsOpen, closeVars, PingsSettled
  <2>2. (state' = "CLOSED" => state = "CLOSED")
    BY <1>4 DEF KeepAlive, KaPing, KaWritten, KaPong, KaTimeout, FailClose, closeVars
  <2>3. CASE ~(KaPing /\ IsOpen)
    BY <1>1, <1>4, <2>2, <2>3 DEF KeepAlive, KaPing, KaWritten, KaPong, KaTimeout
  <2> QED
    BY <2>1, <2>3
<1>5. TdEnd \/ TdRoom \/ TdPongWritten \/ TdEchoed \/ TdCancelled => Still
  BY DEF TdEnd, TdFail, TdRoom, TdPongWritten, TdEchoed, TdCancelled, FailClose, closeVars
<1>6. ConnectionOpen \/ FailHandshake \/ Broadcast \/ CloseConnection \/ Peer \/ (\E r \in Receivers : Recv(r)) => Still
  BY DEF ConnectionOpen, FailHandshake, Broadcast, CloseConnection, CcTransferDone, CcWaitPeer, CcHalfClose, CcWaitHalf,
     CcClose, CcWaitClose, CcWaitAbort, CcOnly, Peer, EofReceived, DataReceived, Recv, RecvCall, RecvWake, RecvRaise,
     RecvCancel, RecvOnly, closeVars
<1>7. ASSUME NEW s \in Senders, Send(s)
      PROVE  Still
  <2>1. UNCHANGED pingVars
    BY <1>7 DEF Send, SendCall, SendRaise, SendTurn, SendNext, SendFinal, SendAbort, SendOnly
  <2>2. state' = "CLOSED" => state = "CLOSED"
    BY <1>7 DEF Send, SendCall, SendRaise, SendTurn, SendNext, SendFinal, SendAbort, SendFail, FailClose, closeVars
  <2> QED
    BY <2>1, <2>2
<1>8. ASSUME NEW c \in Closers, Close(c)
      PROVE  Still
  BY <1>8 DEF Close, CloseCall, CloseWritten, CloseWriteTimeout, CloseTimeout, CloseTransferDone, CloseReturn, CloseOnly,
     WriteClose, closeVars
<1> HIDE DEF Still
<1> QED
  BY <1>1, <1>2, <1>3, <1>4, <1>5, <1>6, <1>7, <1>8 DEF Next, Transfer

LEMMA WaitersNext ==
  ASSUME Types, Codified, Streamed, Waiters, Next
  PROVE  Waiters'
BY RoomNext, LostNext, PingsNext DEF Waiters


-----------------------------------------------------------------------------
(* Every step keeps Streamed.                                              *)

\* What transfer_data does to the stream: it drops the message it assembles,
\* queues it, passes a frame, or starts a message.
LEMMA OrderedDrop ==
  ASSUME NEW A, NEW m \in Nat, NEW I, NEW n \in Nat, Ordered(A, m, I, n)
  PROVE  Ordered(A, None, I, n)
BY DEF Ordered, None

LEMMA OrderedQueue ==
  ASSUME NEW A \in Seq(Nat), NEW m \in Nat, m # None, NEW I, NEW n \in Nat, Ordered(A, m, I, n)
  PROVE  Ordered(Append(A, m), None, I, n)
<1>1. /\ \A i \in DOMAIN A : i \in DOMAIN Append(A, m) /\ Append(A, m)[i] = A[i]
      /\ \A i \in DOMAIN Append(A, m) : i \in DOMAIN A \/ i = Len(A) + 1
      /\ Append(A, m)[Len(A) + 1] = m /\ Len(A) \in Nat /\ DOMAIN A = 1..Len(A)
  BY AppendIn
<1> DEFINE B == Append(A, m)
<1>2. \A i \in DOMAIN A : A[i] < m
  BY DEF Ordered
<1>3. \A i \in DOMAIN B : (i \in DOMAIN A /\ B[i] = A[i]) \/ (i = Len(A) + 1 /\ B[i] = m)
  BY <1>1
<1>4. \A i \in DOMAIN A : A[i] \in Nat
  BY ItemIn
<1> HIDE DEF B
<1>5. \A i, j \in DOMAIN B : i < j => B[i] < B[j]
  <2> SUFFICES ASSUME NEW i \in DOMAIN B, NEW j \in DOMAIN B, i < j
               PROVE  B[i] < B[j]
    OBVIOUS
  <2>1. i \in DOMAIN A /\ B[i] = A[i]
    BY <1>1, <1>3
  <2> QED
    BY <1>2, <1>3, <2>1 DEF Ordered
<1>6. \A i \in DOMAIN B : B[i] <= n
  BY <1>3 DEF Ordered
<1>7. \A j \in Numbered(I) : I[j].n \in 1..n /\ None < I[j].n /\ \A i \in DOMAIN B : B[i] < I[j].n
  BY <1>3 DEF Ordered, None
<1> QED
  BY <1>5, <1>6, <1>7, SMTT(60) DEF Ordered, None, B

LEMMA OrderedPass ==
  ASSUME NEW S, NEW A, NEW m \in Nat, NEW I \in Seq(S), I # <<>>, NEW n \in Nat, Ordered(A, m, I, n)
  PROVE  Ordered(A, m, Tail(I), n)
<1>1. \A j \in Numbered(Tail(I)) : j \in Nat /\ j + 1 \in Numbered(I) /\ Tail(I)[j] = I[j + 1]
  BY HeadAndTail DEF Numbered
<1>2. \A i, j \in Numbered(Tail(I)) : i < j => i + 1 < j + 1
  BY <1>1
<1> QED
  BY <1>1, <1>2 DEF Ordered

LEMMA OrderedTake ==
  ASSUME NEW S, NEW A, NEW m \in Nat, NEW I \in Seq(S), I # <<>>, Head(I).op # "pong", NEW n \in Nat, Ordered(A, m, I, n)
  PROVE  Ordered(A, Head(I).n, Tail(I), n)
<1>1. \A j \in Numbered(Tail(I)) : j \in Nat /\ j + 1 \in Numbered(I) /\ Tail(I)[j] = I[j + 1] /\ 1 < j + 1
  BY HeadAndTail DEF Numbered
<1>2. 1 \in Numbered(I) /\ Head(I) = I[1]
  BY HeadAndTail DEF Numbered
<1>3. Head(I).n \in 1..n /\ \A i \in DOMAIN A : A[i] < Head(I).n
  BY <1>2 DEF Ordered
<1>4. \A j \in Numbered(Tail(I)) : Head(I).n < Tail(I)[j].n
  BY <1>1, <1>2 DEF Ordered
<1>5. Ordered(A, m, Tail(I), n)
  BY OrderedPass
<1> DEFINE T == Tail(I)
           h == Head(I).n
<1>6. h \in 1..n /\ (\A i \in DOMAIN A : A[i] < h) /\ \A j \in Numbered(T) : h < T[j].n
  BY ONLY <1>3, <1>4
<1>7. Ordered(A, m, T, n)
  BY <1>5
<1> HIDE DEF T, h
<1>8. Ordered(A, h, T, n)
  BY <1>6, <1>7 DEF Ordered
<1> QED
  BY <1>8 DEF T, h

\* A frame of the peer joins the buffer.
LEMMA OrderedArrive ==
  ASSUME NEW S, NEW A, NEW m \in Nat, NEW I \in Seq(S), NEW f \in S, NEW n \in Nat, Ordered(A, m, I, n),
         \A i \in DOMAIN A : A[i] \in Nat, f.op # "pong" => f.n = n + 1
  PROVE  Ordered(A, m, Append(I, f), n + 1)
<1> DEFINE J == Append(I, f)
<1>1. /\ \A i \in DOMAIN J : (i \in DOMAIN I /\ J[i] = I[i]) \/ (i = Len(I) + 1 /\ J[i] = f)
      /\ DOMAIN I = 1..Len(I) /\ Len(I) \in Nat
  BY AppendIn
<1> HIDE DEF J
<1>2. \A j \in Numbered(J) : (j \in Numbered(I) /\ J[j] = I[j]) \/ (j = Len(I) + 1 /\ J[j].n = n + 1)
  BY <1>1 DEF Numbered
<1>3. \A j \in Numbered(J) : J[j].n \in 1..(n + 1) /\ m < J[j].n /\ \A i \in DOMAIN A : A[i] < J[j].n
  BY <1>2 DEF Ordered
<1>4. \A i, j \in Numbered(J) : i < j => J[i].n < J[j].n
  <2> SUFFICES ASSUME NEW i \in Numbered(J), NEW j \in Numbered(J), i < j
               PROVE  J[i].n < J[j].n
    OBVIOUS
  <2>1. i \in Numbered(I) /\ J[i] = I[i] /\ I[i].n \in 1..n
    BY <1>1, <1>2 DEF Ordered, Numbered
  <2> QED
    BY <1>2, <2>1 DEF Ordered
<1>5. m <= n + 1 /\ (\A i \in DOMAIN A : A[i] <= n + 1) /\ (m # None => \A i \in DOMAIN A : A[i] < m)
  BY DEF Ordered
<1>6. \A i, j \in DOMAIN A : i < j => A[i] < A[j]
  BY DEF Ordered
<1>7. Ordered(A, m, J, n + 1)
  BY <1>3, <1>4, <1>5, <1>6 DEF Ordered
<1> QED
  BY <1>7 DEF J


LEMMA ArrivedIn ==
  ASSUME QueueTypes
  PROVE  Arrived \in Seq(1..MaxIn) /\ Arrived \in Seq(Nat) /\ Len(Arrived) = Len(delivered) + Len(messages)
BY Constants DEF QueueTypes, Arrived

\* recv() moves the first message of the queue to the application.
LEMMA PopKeeps ==
  ASSUME QueueTypes, NEW r \in Receivers, Pop(r)
  PROVE  Arrived' = Arrived /\ Len(delivered') = Len(delivered) + 1
<1> DEFINE S == 1..MaxIn
<1>1. delivered \in Seq(S) /\ messages \in Seq(S) /\ messages # <<>>
  BY DEF QueueTypes, Pop
<1>2. delivered' = Append(delivered, Head(messages)) /\ messages' = Tail(messages)
  BY DEF Pop
<1> HIDE DEF S
<1>3. Append(delivered, Head(messages)) \o Tail(messages) = delivered \o messages
  BY <1>1
<1>4. Len(Append(delivered, Head(messages))) = Len(delivered) + 1
  BY <1>1
<1> QED
  BY <1>2, <1>3, <1>4 DEF Arrived

\* Deliver queues the message, or keeps it until there is room.
LEMMA DeliverKeeps ==
  ASSUME QueueTypes, NEW m \in 1..MaxIn, Deliver(m), delivered' = delivered,
         NEW I, NEW n \in Nat, Ordered(Arrived, m, I, n)
  PROVE  /\ Ordered(Arrived', tdMsg', I, n)
         /\ Arrived' = Arrived \/ Arrived' = Append(Arrived, m)
<1>1. CASE Len(messages) >= MaxQueue
  BY <1>1 DEF Deliver, Arrived
<1>2. CASE ~(Len(messages) >= MaxQueue)
  <2>1. tdMsg' = None /\ messages' = Append(messages, m)
    BY <1>2 DEF Deliver
  <2>2. Arrived' = Append(Arrived, m)
    BY <2>1 DEF QueueTypes, Arrived
  <2>3. m \in Nat /\ m # None /\ Arrived \in Seq(Nat)
    BY ArrivedIn, Constants DEF None
  <2> QED
    BY <2>1, <2>2, <2>3, OrderedQueue
<1> QED
  BY <1>1, <1>2

LEMMA StreamedRead ==
  ASSUME Types, Streamed, TdRead
  PROVE  Streamed'
<1> DEFINE S == [op : PeerOps, n : Nat]
<1>1. PICK I \in Seq(S) : I = inbox
  BY DEF Types, NetTypes
<1>2. I # <<>> /\ inbox' = Tail(I)
  BY <1>1 DEF TdRead
<1>3. PICK n \in Nat : n = serial
  BY Constants DEF Types, NetTypes
<1>4. serial' = n
  BY <1>3 DEF TdRead
<1>5. PICK m \in Nat : m = tdMsg
  BY Constants DEF Types, TaskTypes
<1>6. PICK A \in Seq(Nat) : A = Arrived
  BY ArrivedIn DEF Types
<1>7. PICK f \in S : f = Head(I)
  BY <1>1, <1>2, HeadAndTail
<1> HIDE DEF S
<1>8. Ordered(A, m, I, n)
  BY <1>1, <1>3, <1>5, <1>6 DEF Streamed
<1>9. Ordered(A, m, Tail(I), n)
  BY <1>2, <1>8, OrderedPass
<1>10. f.op # "pong" => Ordered(A, f.n, Tail(I), n)
  BY <1>2, <1>7, <1>8, OrderedTake
<1>11. f.op = "first" => f.n \in Nat
  BY <1>7 DEF S
<1>12. CASE UNCHANGED queueVars /\ tdMsg' \in {m, None}
  <2>1. Arrived' = A
    BY <1>6, <1>12 DEF queueVars, Arrived
  <2>2. Ordered(A, None, Tail(I), n)
    BY <1>9, OrderedDrop
  <2> QED
    BY <1>2, <1>4, <1>9, <1>12, <2>1, <2>2 DEF Streamed
<1>13. CASE UNCHANGED queueVars /\ f.op = "first" /\ tdMsg' = f.n
  <2>1. Arrived' = A
    BY <1>6, <1>13 DEF queueVars, Arrived
  <2> QED
    BY <1>2, <1>4, <1>10, <1>13, <2>1 DEF Streamed
<1>14. ASSUME NEW k \in 1..MaxIn, Deliver(k), k = (IF f.op = "msg" THEN f.n ELSE tdMsg), f.op \in {"msg", "last"},
              delivered' = delivered
       PROVE  Streamed'
  <2>1. Ordered(A, k, Tail(I), n)
    BY <1>5, <1>9, <1>10, <1>14
  <2>2. Ordered(Arrived', tdMsg', Tail(I), n)
    BY <1>6, <1>14, <2>1, DeliverKeeps DEF Types
  <2> QED
    BY <1>2, <1>4, <2>2 DEF Streamed
<1> QED
  BY <1>1, <1>5, <1>7, <1>12, <1>13, <1>14, ReadIs DEF tdVars

LEMMA StreamedNext ==
  ASSUME Types, Streamed, Next
  PROVE  Streamed'
<1> DEFINE Still == UNCHANGED <<delivered, messages, inbox, serial>> /\ tdMsg' \in {tdMsg, None}
<1>1. CASE Still
  <2>1. Arrived' = Arrived
    BY <1>1 DEF Arrived
  <2>2. Ordered(Arrived, None, inbox, serial)
    BY OrderedDrop, Constants DEF Types, TaskTypes, NetTypes, Streamed
  <2> QED
    BY <1>1, <2>1, <2>2 DEF Streamed
<1>2. CASE TdRoom
  <2>1. PICK m \in 1..MaxIn : m = tdMsg
    BY <1>2, Constants DEF TdRoom, Types, TaskTypes, None
  <2>2. Deliver(m) /\ delivered' = delivered /\ UNCHANGED <<inbox, serial>>
    BY <1>2, <2>1 DEF TdRoom, netVars
  <2>3. PICK n \in Nat : n = serial
    BY Constants DEF Types, NetTypes
  <2>4. PICK I : I = inbox
    OBVIOUS
  <2>5. Ordered(Arrived, m, I, n)
    BY <2>1, <2>3, <2>4 DEF Streamed
  <2>6. Ordered(Arrived', tdMsg', I, n)
    BY <2>2, <2>5, DeliverKeeps DEF Types
  <2> QED
    BY <2>2, <2>3, <2>4, <2>6 DEF Streamed
<1>3. ASSUME NEW r \in Receivers, Recv(r)
      PROVE  Streamed'
  <2>1. UNCHANGED <<tdMsg, inbox, serial>>
    BY <1>3 DEF Recv, RecvCall, RecvWake, RecvRaise, RecvCancel, RecvOnly, netVars, tdVars
  <2>2. CASE Pop(r)
    BY <2>1, <2>2, PopKeeps DEF Types, Streamed
  <2>3. CASE UNCHANGED <<delivered, messages>>
    BY <1>1, <2>1, <2>3
  <2> QED
    BY <1>3, <2>2, <2>3 DEF Recv, RecvCall, RecvWake, RecvRaise, RecvCancel, Wait, queueVars
<1>4. ASSUME NEW op \in cfg.ops, DataReceived(op)
      PROVE  Streamed'
  <2> DEFINE S == [op : PeerOps, n : Nat]
  <2>1. PICK I \in Seq(S) : I = inbox
    BY DEF Types, NetTypes
  <2>2. PICK n \in Nat : n = serial
    BY Constants DEF Types, NetTypes
  <2>3. PICK m \in Nat : m = tdMsg
    BY Constants DEF Types, TaskTypes
  <2>4. PICK A \in Seq(Nat) : A = Arrived
    BY ArrivedIn DEF Types
  <2>5. PICK f \in S : inbox' = Append(I, f) /\ (f.op # "pong" => f.n = n + 1)
    <3>1. op \in PeerOps
      BY DEF PeerOps, Types, CloseTypes
    <3>2. PICK k \in IF op = "pong" THEN 0..Len(pings) ELSE {serial + 1} :
                 inbox' = Append(inbox, Frame(op, IF k = 0 \/ op # "pong" THEN k ELSE pings[k]))
      BY <1>4 DEF DataReceived
    <3>3. PICK j \in Nat : /\ j = (IF k = 0 \/ op # "pong" THEN k ELSE pings[k])
                           /\ op # "pong" => j = n + 1
      <4>1. CASE op = "pong"
        <5>1. pings \in Seq(Nat) /\ k \in 0..Len(pings)
          BY <3>2, <4>1, Constants DEF Types, PingTypes
        <5> QED
          BY <4>1, <5>1
      <4>2. CASE op # "pong"
        BY <2>2, <3>2, <4>2
      <4> QED
        BY <4>1, <4>2
    <3>4. inbox' = Append(I, Frame(op, j))
      BY <2>1, <3>2, <3>3
    <3>5. Frame(op, j) \in S /\ Frame(op, j).op = op /\ Frame(op, j).n = j
      BY <3>1 DEF Frame
    <3> HIDE DEF S
    <3> QED
      BY <3>3, <3>4, <3>5
  <2> HIDE DEF S
  <2>6. UNCHANGED <<delivered, messages, tdMsg>> /\ serial' = n + 1
    BY <1>4, <2>2 DEF DataReceived, queueVars, tdVars
  <2>7. Ordered(A, m, I, n)
    BY <2>1, <2>2, <2>3, <2>4 DEF Streamed
  <2>8. \A i \in DOMAIN A : A[i] \in Nat
    BY ItemIn
  <2>9. Ordered(A, m, Append(I, f), n + 1)
    BY <2>5, <2>7, <2>8, OrderedArrive
  <2>10. Arrived' = A
    BY <2>4, <2>6 DEF Arrived
  <2> QED
    BY <2>3, <2>5, <2>6, <2>9, <2>10 DEF Streamed
<1>5. TdEnd \/ TdPongWritten \/ TdEchoed \/ TdCancelled => Still
  BY DEF TdEnd, TdFail, TdExit, TdPongWritten, TdEchoed, TdCancelled, queueVars, netVars
<1>6. ConnectionOpen \/ FailHandshake \/ Broadcast \/ KeepAlive \/ CloseConnection \/ EventLoop \/ EofReceived => Still
  BY DEF ConnectionOpen, FailHandshake, Broadcast, KeepAlive, KaPing, KaWritten, KaPong, KaTimeout, Appl,
     CloseConnection, CcTransferDone, CcWaitPeer, CcHalfClose, CcWaitHalf, CcClose, CcWaitClose, CcWaitAbort, CcOnly,
     EventLoop, ResumeWriting, DrainYielded, ConnectionLost, EofReceived, queueVars, netVars, tdVars
<1>7. (\E s \in Senders : Send(s)) \/ (\E c \in Closers : Close(c)) => Still
  BY DEF Send, SendCall, SendRaise, SendTurn, SendNext, SendFinal, SendAbort, SendOnly, Close, CloseCall, CloseWritten,
     CloseWriteTimeout, CloseTimeout, CloseTransferDone, CloseReturn, CloseOnly, queueVars, netVars
<1> HIDE DEF Still
<1>8. CASE Transfer
  BY <1>1, <1>2, <1>5, <1>8, StreamedRead DEF Transfer
<1>9. CASE Peer
  BY <1>1, <1>4, <1>6, <1>9 DEF Peer
<1>10. CASE ConnectionOpen \/ FailHandshake \/ Broadcast \/ KeepAlive \/ CloseConnection \/ EventLoop
  BY <1>1, <1>6, <1>10
<1>11. CASE (\E s \in Senders : Send(s)) \/ (\E c \in Closers : Close(c))
  BY <1>1, <1>7, <1>11
<1> QED
  BY <1>3, <1>8, <1>9, <1>10, <1>11 DEF Next


-----------------------------------------------------------------------------
(* The invariant.                                                          *)

LEMMA IInvInit == Init => IInv
<1> SUFFICES ASSUME Init PROVE IInv
  OBVIOUS
<1>1. Types
  BY TypesInit
<1>2. Codified
  BY DEF Init, Codified, CloseOrderRecorded, None
<1>3. Wire
  BY DEF Init, Wire, CloseFrameIsLast, FragmentsContiguous
<1>4. Streamed
  <2>1. Arrived = <<>> /\ inbox = <<>> /\ serial = 0 /\ tdMsg = 0
    BY DEF Init, Arrived, None
  <2> QED
    BY <2>1 DEF Streamed, Ordered, Numbered, None
<1>5. Waiters
  <2>1. messages = <<>> /\ Len(messages) = 0 /\ MaxQueue \in Nat
    BY Constants DEF Init
  <2> QED
    BY <2>1 DEF Init, Waiters, QueueBounded, PingsSettled, CloseMeansClosed
<1> QED
  BY <1>1, <1>2, <1>3, <1>4, <1>5 DEF IInv

LEMMA IInvNext ==
  ASSUME IInv, [Next]_vars
  PROVE  IInv'
<1>1. CASE Next
  <2>1. Types' /\ Codified'
    BY <1>1, TypesNext, CodesNext, CodifiedNext DEF IInv, Types
  <2>2. Wire' /\ Streamed' /\ Waiters'
    BY <1>1, WireNext, StreamedNext, WaitersNext DEF IInv
  <2> QED
    BY <2>1, <2>2 DEF IInv
<1>2. CASE UNCHANGED vars
  <2> USE <1>2 DEF vars, queueVars, closeVars, netVars, writeVars, pingVars, tdVars, appVars
  <2>1. Types'
    BY DEF IInv, Types, CloseTypes, NetTypes, WriteTypes, QueueTypes, PingTypes, TaskTypes, AppTypes
  <2>2. Codified'
    BY DEF IInv, Codified, CloseOrderRecorded
  <2>3. Wire'
    BY DEF IInv, Wire, CloseFrameIsLast, FragmentsContiguous
  <2>4. Streamed'
    <3>1. Arrived' = Arrived
      BY DEF Arrived
    <3> QED
      BY <3>1 DEF IInv, Streamed
  <2>5. Waiters'
    BY DEF IInv, Waiters, QueueBounded, PingsSettled, CloseMeansClosed
  <2> QED
    BY <2>1, <2>2, <2>3, <2>4, <2>5 DEF IInv
<1> QED
  BY <1>1, <1>2

\* The invariant holds in every state, for any constants.
THEOREM LegacyInv == Spec => []IInv
<1>1. IInv /\ [Next]_vars => IInv'
  BY IInvNext
<1> QED
  BY <1>1, IInvInit, PTL DEF Spec

\* What the peer reads is well formed: one close frame, the last of all, and
\* the frames of a fragmented message next to each other, whatever send(),
\* broadcast(), close(), the keepalive and failures of write_close_frame() and
\* fail_connection() interleave, for any number of tasks.
THEOREM WireAlwaysInOrder == Spec => []WireOrder
<1>1. IInv => WireOrder
  BY DEF IInv, Types, CloseTypes, NetTypes, WriteTypes, QueueTypes, PingTypes, TaskTypes, AppTypes, TypeOK, Codified, Wire,
     WireOrder
<1> QED
  BY <1>1, LegacyInv, PTL

-----------------------------------------------------------------------------
(* Nobody left waiting.                                                    *)

\* Whoever waits in recv() for a message has none to take and is the one to
\* be notified.
Woken == \A r \in Receivers : recvPc[r] = "wait" /\ ~popDone[r] => messages = <<>> /\ popWaiter = r

LEMMA WokenNext ==
  ASSUME OneReceiver, Types, Streamed, Woken, Next
  PROVE  Woken'
<1> DEFINE Still == UNCHANGED <<messages, popWaiter, popDone, recvPc>>
<1>1. CASE Still
  BY <1>1 DEF Woken
<1>2. ASSUME NEW m, Deliver(m), recvPc' = recvPc
      PROVE  Woken'
  <2>1. CASE Len(messages) >= MaxQueue
    BY <1>1, <1>2, <2>1 DEF Deliver
  <2>2. CASE ~(Len(messages) >= MaxQueue)
    <3> SUFFICES ASSUME NEW r \in Receivers, recvPc[r] = "wait"
                 PROVE  popDone'[r]
      BY <1>2 DEF Woken
    <3>1. popDone' = IF popWaiter = NoTask THEN popDone ELSE [popDone EXCEPT ![popWaiter] = TRUE]
      BY <1>2, <2>2 DEF Deliver
    <3>2. popDone \in [Receivers -> BOOLEAN] /\ NoTask \notin Receivers
      BY Constants DEF Types, QueueTypes
    <3>3. CASE popDone[r]
      BY <3>1, <3>2, <3>3
    <3>4. CASE ~popDone[r]
      <4>1. popWaiter = r
        BY <3>4 DEF Woken
      <4> QED
        BY <3>1, <3>2, <4>1
    <3> QED
      BY <3>3, <3>4
  <2> QED
    BY <2>1, <2>2
<1>3. ASSUME NEW r \in Receivers, Recv(r)
      PROVE  Woken'
  <2>1. recvPc \in [Receivers -> {"idle", "wait", "ensure", "raised"}] /\ \A q \in Receivers : q = r
    BY DEF Types, AppTypes, OneReceiver
  <2>2. CASE Wait(r)
    BY <2>1, <2>2 DEF Wait, Woken
  <2>3. CASE recvPc' = [recvPc EXCEPT ![r] = "idle"] \/ recvPc' = [recvPc EXCEPT ![r] = "ensure"]
             \/ recvPc' = [recvPc EXCEPT ![r] = "raised"]
    BY <2>1, <2>3 DEF Woken
  <2> QED
    BY <1>3, <2>2, <2>3 DEF Recv, RecvCall, RecvWake, RecvRaise, RecvCancel, Pop
<1>4. CASE TdRead
  <2>1. recvPc' = recvPc
    BY <1>4 DEF TdRead, appVars
  <2> QED
    BY <1>1, <1>2, <1>4, <2>1, ReadIs DEF queueVars
<1>5. CASE TdRoom
  BY <1>2, <1>5 DEF TdRoom, appVars
<1>6. TdEnd \/ TdPongWritten \/ TdEchoed \/ TdCancelled => Still
  BY DEF TdEnd, TdPongWritten, TdEchoed, TdCancelled, queueVars, appVars
<1>7. ConnectionOpen \/ FailHandshake \/ Broadcast \/ KeepAlive \/ CloseConnection \/ EventLoop \/ Peer => Still
  BY DEF ConnectionOpen, FailHandshake, Broadcast, KeepAlive, KaPing, KaWritten, KaPong, KaTimeout, Appl,
     CloseConnection, CcTransferDone, CcWaitPeer, CcHalfClose, CcWaitHalf, CcClose, CcWaitClose, CcWaitAbort, CcOnly,
     EventLoop, ResumeWriting, DrainYielded, ConnectionLost, Peer, EofReceived, DataReceived, queueVars, appVars
<1>8. (\E s \in Senders : Send(s)) \/ (\E c \in Closers : Close(c)) => Still
  BY DEF Send, SendCall, SendRaise, SendTurn, SendNext, SendFinal, SendAbort, SendOnly, Close, CloseCall, CloseWritten,
     CloseWriteTimeout, CloseTimeout, CloseTransferDone, CloseReturn, CloseOnly, queueVars
<1> HIDE DEF Still
<1>9. CASE Transfer
  BY <1>1, <1>4, <1>5, <1>6, <1>9 DEF Transfer
<1>10. CASE (\E s \in Senders : Send(s)) \/ (\E c \in Closers : Close(c))
  BY <1>1, <1>8, <1>10
<1>11. CASE ConnectionOpen \/ FailHandshake \/ Broadcast \/ KeepAlive \/ CloseConnection \/ EventLoop \/ Peer
  BY <1>1, <1>7, <1>11
<1> QED
  BY <1>3, <1>9, <1>10, <1>11 DEF Next

\* Whoever waits, waits for what has not happened: recv() for a message,
\* transfer_data for room, ping() for its pong, and close() returns on a lost
\* connection only.  One task calls recv() at a time, as its documentation
\* asks.
THEOREM NobodyWaitsInVain == OneReceiver => (Spec => []NobodyLeftWaiting)
<1> SUFFICES ASSUME OneReceiver PROVE Spec => []NobodyLeftWaiting
  OBVIOUS
<1>1. Init => Woken
  BY DEF Init, Woken
<1>2. IInv /\ Woken /\ [Next]_vars => Woken'
  <2>1. CASE UNCHANGED vars
    BY <2>1 DEF vars, queueVars, appVars, Woken
  <2>2. CASE Next
    BY <2>2, WokenNext DEF IInv
  <2> QED
    BY <2>1, <2>2
<1>3. IInv /\ Woken => NobodyLeftWaiting
  BY DEF IInv, Waiters, Woken, NobodyLeftWaiting, NoLostWakeup
<1> QED
  BY <1>1, <1>2, <1>3, LegacyInv, PTL DEF Spec


-----------------------------------------------------------------------------
(* What the application is told is not taken back.                         *)

\* Every step takes a message, adds one, ends the stream, or leaves it alone.
LEMMA StreamStep ==
  ASSUME IInv, Streamed', QueueTypes', Next
  PROVE  [Stream!Next]_(Stream!vars)
<1> DEFINE Alone == UNCHANGED <<delivered, messages>>
<1>1. td = "done" => td' = "done"
  BY CodesNext DEF IInv, CodeStep
<1>2. Arrived \in Seq(1..MaxIn) /\ Len(Arrived) = Len(delivered) + Len(messages)
  BY ArrivedIn DEF IInv, Types
<1>3. Arrived' \in Seq(1..MaxIn)
  BY ArrivedIn DEF QueueTypes, Arrived
<1> DEFINE H == {Arrived[i] : i \in DOMAIN Arrived}
<1>4. CASE Alone
  <2>1. UNCHANGED <<H, delivered>>
    BY <1>4 DEF Arrived
  <2> HIDE DEF H
  <2>2. CASE td' = "done" /\ td # "done"
    <3>1. ~TdDone /\ TdDone' = TRUE
      BY <2>2 DEF TdDone
    <3> QED
      BY <2>1, <3>1 DEF Stream!Next, Stream!End, H
  <2>3. CASE ~(td' = "done" /\ td # "done")
    <3>1. TdDone' = TdDone
      BY <1>1, <2>3 DEF TdDone
    <3> QED
      BY <2>1, <3>1 DEF Stream!vars, H
  <2> QED
    BY <2>2, <2>3
<1>5. ASSUME NEW m \in 1..MaxIn, Deliver(m), delivered' = delivered, td # "done", ~Alone
      PROVE  Stream!Arrive
  <2>1. messages' = Append(messages, m) /\ td' = "read"
    BY <1>5 DEF Deliver
  <2>2. messages \in Seq(1..MaxIn) /\ delivered \in Seq(1..MaxIn)
    BY DEF IInv, Types, QueueTypes
  <2>3. Arrived' = Append(Arrived, m)
    BY <1>5, <2>1, <2>2 DEF Arrived
  <2>4. \A i \in DOMAIN Arrived : Arrived[i] < m
    <3>1. \A i, j \in DOMAIN Arrived' : i < j => Arrived'[i] < Arrived'[j]
      BY DEF Streamed, Ordered
    <3> DEFINE A == Arrived
    <3> DEFINE B == Append(A, m)
    <3>2. A \in Seq(Nat) /\ m \in Nat
      BY <1>2, Constants
    <3>3. \A i, j \in DOMAIN B : i < j => B[i] < B[j]
      BY <2>3, <3>1
    <3> HIDE DEF A
    <3>4. DOMAIN A = 1..Len(A) /\ DOMAIN B = 1..(Len(A) + 1) /\ B[Len(A) + 1] = m
          /\ \A i \in 1..Len(A) : B[i] = A[i]
      BY <3>2
    <3> HIDE DEF B
    <3>5. Len(A) \in Nat
      BY <3>2
    <3>6. \A i \in DOMAIN A : A[i] < m
      <4> SUFFICES ASSUME NEW i \in 1..Len(A) PROVE A[i] < m
        BY <3>4
      <4> QED
        BY <3>3, <3>4, <3>5
    <3> QED
      BY <3>6 DEF A
  <2>5. H' = H \cup {m}
    <3> DEFINE A == Arrived
    <3>1. A \in Seq(Nat) /\ m \in Nat
      BY <1>2, Constants
    <3>2. H' = {Append(A, m)[i] : i \in DOMAIN Append(A, m)}
      BY <2>3
    <3>3. H = {A[i] : i \in DOMAIN A}
      OBVIOUS
    <3> HIDE DEF A, H
    <3> DEFINE B == Append(A, m)
    <3>4. DOMAIN A = 1..Len(A) /\ DOMAIN B = 1..(Len(A) + 1) /\ B[Len(A) + 1] = m
          /\ (\A i \in 1..Len(A) : B[i] = A[i]) /\ Len(A) \in Nat
      BY <3>1
    <3> HIDE DEF B
    <3>5. {B[i] : i \in DOMAIN B} = {A[i] : i \in DOMAIN A} \cup {m}
      BY <3>4
    <3> QED
      BY <3>2, <3>3, <3>5 DEF B
  <2>6. ~TdDone /\ TdDone' = TdDone /\ delivered' = delivered
    BY <1>5, <2>1 DEF TdDone
  <2>7. H \subseteq 1..MaxIn /\ m \notin H /\ \A h \in H : h < m
    <3>1. \A i \in DOMAIN Arrived : Arrived[i] \in 1..MaxIn
      <4> DEFINE A == Arrived
      <4>1. A \in Seq(1..MaxIn)
        BY <1>2
      <4> HIDE DEF A
      <4>2. \A i \in DOMAIN A : A[i] \in 1..MaxIn
        <5> DEFINE S == 1..MaxIn
        <5>1. A \in Seq(S)
          BY <4>1
        <5> HIDE DEF S
        <5>2. \A i \in DOMAIN A : A[i] \in S
          BY <5>1
        <5> QED
          BY <5>2 DEF S
      <4> QED
        BY <4>2 DEF A
    <3>2. \A i \in DOMAIN Arrived : Arrived[i] # m
      <4> SUFFICES ASSUME NEW i \in DOMAIN Arrived, Arrived[i] = m PROVE FALSE
        OBVIOUS
      <4>1. m < m /\ m \in Nat
        BY <2>4, Constants
      <4> QED
        BY <4>1
    <3> QED
      BY <2>4, <3>1, <3>2
  <2> HIDE DEF H
  <2>8. /\ H' \in SUBSET (1..MaxIn) /\ H \subseteq H' /\ H # H'
        /\ \A k \in H, n \in H' \ H : k < n
    BY <2>5, <2>7
  <2> QED
    BY <2>6, <2>8 DEF Stream!Arrive, H
<1>6. ASSUME NEW r \in Receivers, Pop(r), td' = td
      PROVE  Stream!Take
  <2>1. Arrived' = Arrived
    BY <1>6, PopKeeps DEF IInv, Types
  <2>2. delivered' = Append(delivered, Head(messages)) /\ messages # <<>>
    BY <1>6 DEF Pop
  <2>3. TdDone' = TdDone
    BY <1>6 DEF TdDone
  <2>4. delivered \in Seq(Nat) /\ messages \in Seq(Nat)
    BY Constants DEF IInv, Types, QueueTypes
  <2>5. \A i, j \in DOMAIN Arrived : i < j => Arrived[i] < Arrived[j]
    BY DEF IInv, Streamed, Ordered
  <2> DEFINE W == {m \in H : \A i \in DOMAIN delivered : m # delivered[i]}
  <2> DEFINE h == Head(messages)
  <2>6. h \in W /\ \A n \in W : h <= n
    <3> DEFINE A == Arrived
    <3>1. A = delivered \o messages
      BY DEF Arrived
    <3> HIDE DEF A
    <3> DEFINE d == Len(delivered)
    <3>2. /\ d \in Nat /\ Len(messages) \in Nat \ {0} /\ DOMAIN A = 1..(d + Len(messages))
          /\ DOMAIN delivered = 1..d /\ \A i \in 1..d : A[i] = delivered[i]
          /\ A[d + 1] = h /\ A \in Seq(Nat)
      BY <2>2, <2>4, <3>1
    <3>3. \A i, j \in DOMAIN A : i < j => A[i] < A[j]
      BY <2>5 DEF A
    <3>4. H = {A[i] : i \in DOMAIN A}
      BY DEF A
    <3> HIDE DEF d, h, H
    <3>5. d + 1 \in DOMAIN A /\ h \in H
      <4>1. d + 1 \in DOMAIN A
        BY <3>2
      <4> QED
        BY <3>2, <3>4, <4>1
    <3>6. \A i \in DOMAIN delivered : delivered[i] < h
      <4> SUFFICES ASSUME NEW i \in 1..d PROVE A[i] < h
        BY <3>2
      <4>1. i \in DOMAIN A /\ i < d + 1
        BY <3>2
      <4>2. A[i] < A[d + 1]
        BY <3>3, <3>5, <4>1
      <4> QED
        BY <3>2, <4>2
    <3>7. \A i \in DOMAIN delivered : h # delivered[i]
      <4> SUFFICES ASSUME NEW i \in 1..d, h = A[i] PROVE FALSE
        BY <3>2
      <4>1. A[i] \in Nat /\ A[i] < h
        BY <3>2, <3>6
      <4> QED
        BY <4>1
    <3>8. ASSUME NEW n \in W PROVE h <= n
      <4>1. PICK i \in DOMAIN A : n = A[i]
        BY <3>4
      <4>2. i \notin 1..d
        BY <3>2, <4>1
      <4>3. CASE i = d + 1
        BY <3>2, <4>1, <4>3
      <4>4. CASE i > d + 1
        <5>1. A[d + 1] < A[i] /\ A[d + 1] \in Nat /\ A[i] \in Nat
          BY <3>2, <3>3, <3>5, <4>4, SMTT(60)
        <5> QED
          BY <3>2, <4>1, <5>1
      <4> QED
        BY <3>2, <4>2, <4>3, <4>4
    <3> QED
      BY <3>5, <3>7, <3>8
  <2>7. H' = H
    BY <2>1
  <2> QED
    BY <2>2, <2>3, <2>6, <2>7 DEF Stream!Take, Stream!Waiting
<1>7. CASE TdRead
  <2>1. td # "done"
    BY <1>7 DEF TdRead
  <2> QED
    BY <1>4, <1>5, <1>7, <2>1, ReadIs DEF IInv, queueVars, Stream!Next
<1>8. CASE TdRoom
  <2>1. td # "done" /\ delivered' = delivered /\ Deliver(tdMsg)
    BY <1>8 DEF TdRoom
  <2>2. PICK m \in 1..MaxIn : m = tdMsg
    BY <1>8, Constants DEF TdRoom, IInv, Types, TaskTypes, None
  <2> QED
    BY <1>4, <1>5, <2>1, <2>2 DEF Stream!Next
<1>9. ASSUME NEW r \in Receivers, Recv(r)
      PROVE  Alone \/ (Pop(r) /\ td' = td)
  BY <1>9 DEF Recv, RecvCall, RecvWake, RecvRaise, RecvCancel, Wait, RecvOnly, queueVars, tdVars
<1>10. TdEnd \/ TdPongWritten \/ TdEchoed \/ TdCancelled => Alone
  BY DEF TdEnd, TdPongWritten, TdEchoed, TdCancelled, queueVars
<1>11. ConnectionOpen \/ FailHandshake \/ Broadcast \/ KeepAlive \/ CloseConnection \/ EventLoop \/ Peer => Alone
  BY DEF ConnectionOpen, FailHandshake, Broadcast, KeepAlive, KaPing, KaWritten, KaPong, KaTimeout, Appl,
     CloseConnection, CcTransferDone, CcWaitPeer, CcHalfClose, CcWaitHalf, CcClose, CcWaitClose, CcWaitAbort, CcOnly,
     EventLoop, ResumeWriting, DrainYielded, ConnectionLost, Peer, EofReceived, DataReceived, queueVars
<1>12. (\E s \in Senders : Send(s)) \/ (\E c \in Closers : Close(c)) => Alone
  BY DEF Send, SendCall, SendRaise, SendTurn, SendNext, SendFinal, SendAbort, SendOnly, Close, CloseCall, CloseWritten,
     CloseWriteTimeout, CloseTimeout, CloseTransferDone, CloseReturn, CloseOnly, queueVars
<1> HIDE DEF Alone
<1>13. CASE Transfer
  BY <1>4, <1>7, <1>8, <1>10, <1>13 DEF Transfer
<1>14. CASE \E r \in Receivers : Recv(r)
  BY <1>4, <1>6, <1>9, <1>14 DEF Stream!Next
<1>15. CASE ConnectionOpen \/ FailHandshake \/ Broadcast \/ KeepAlive \/ CloseConnection \/ EventLoop \/ Peer
  BY <1>4, <1>11, <1>15
<1>16. CASE (\E s \in Senders : Send(s)) \/ (\E c \in Closers : Close(c))
  BY <1>4, <1>12, <1>16
<1> QED
  BY <1>13, <1>14, <1>15, <1>16 DEF Next

\* recv() implements MessageStream: the peer's messages, whole, once each and
\* in order, and none after the end; and a close code that was told stays.
THEOREM NothingTakenBack == Spec => ToldOnce
<1>1. Init => Stream!Init
  <2>1. Init => delivered = <<>> /\ {Arrived[i] : i \in DOMAIN Arrived} = {}
    <3>1. Init => delivered = <<>> /\ Arrived = <<>>
      BY DEF Init, Arrived
    <3> QED
      BY <3>1
  <2>2. Init => TdDone = FALSE
    BY DEF Init, TdDone
  <2> QED
    BY <2>1, <2>2 DEF Stream!Init
<1>2. IInv /\ IInv' /\ [Next]_vars => [Stream!Next]_(Stream!vars)
  <2>1. CASE UNCHANGED vars
    BY <2>1 DEF vars, queueVars, tdVars, TdDone, Stream!vars, Arrived
  <2>2. ASSUME IInv, IInv', Next
        PROVE  [Stream!Next]_(Stream!vars)
    BY <2>2, StreamStep DEF IInv, Types
  <2> QED
    BY <2>1, <2>2
<1>3. IInv /\ [Next]_vars =>
        [/\ closeRcvd # None => closeRcvd' = closeRcvd
         /\ closeSent # None => closeSent' = closeSent
         /\ rcvdThenSent # "none" => rcvdThenSent' = rcvdThenSent
         /\ state = "CLOSED" /\ CloseCode # ABNORMAL => CloseCode' = CloseCode]_vars
  BY CodesNext, CodesSettle DEF IInv, Types
<1> QED
  BY <1>1, <1>2, <1>3, LegacyInv, PTL DEF Spec, ToldOnce, DeliversStream, Stream!Spec, CloseCodesSettle

=============================================================================
