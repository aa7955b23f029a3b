------------------------------ MODULE WsProtocol -------------------------------
(***************************************************************************)
(* The Sans-I/O protocol of lib/websockets/protocol.py: one endpoint of a  *)
(* connection as a record, and its methods as operators from a record (and *)
(* their argument) to the record they leave.  `writes' collects what       *)
(* data_to_send() returns; the caller of a method puts it on the network.  *)
(*                                                                         *)
(* A frame is a record; text stands for text and binary.  `size' is the    *)
(* length of its payload in units, `ctx' and `bits' describe the state of  *)
(* the compressor that produced it.  `broken' remembers that an assert of  *)
(* the code failed.                                                        *)
(***************************************************************************)
EXTENDS Negotiation

CONSTANT MaxSize            \* max_size: units of payload in a message

ASSUME MaxSizeAssumption == MaxSize \in Nat \ {0}

NoCode   == 0
NoStatus == 1005
OkCodes  == {1000, 1001, NoStatus}
EofError == 1006            \* ABNORMAL_CLOSURE, never in a frame
NoSize   == -1              \* current_size is None
Eof      == [kind |-> "eof"]

Frame(kind, fin, size, code, rsv, ctx, bits) ==
  [kind |-> kind, fin |-> fin, size |-> size, code |-> code, rsv |-> rsv,
   ctx |-> ctx, bits |-> bits]
Control(kind, size, code) == Frame(kind, TRUE, size, code, FALSE, 0, 0)
Ping(size)  == Control("ping", size, NoCode)
Pong(size)  == Control("pong", size, NoCode)
Close(code) == Control("close", 0, code)
IsControl(f) == f.kind \in {"ping", "pong", "close"}

InitProtocol(side) ==
  [side |-> side, state |-> "CONNECTING", parser |-> "http", current |-> NoSize,
   expectCont |-> FALSE, closeRcvd |-> NoCode, closeSent |-> NoCode,
   rcvdThenSent |-> "unset", eofSent |-> FALSE, handshakeExc |-> FALSE,
   parserExc |-> NoCode, ext |-> NoExt, sub |-> NoSub, enc |-> 0, dec |-> 0,
   decCont |-> FALSE, writes |-> <<>>, broken |-> FALSE]

--------------------------------------------------------------------------------
(* Sending. *)

Asserted(p, holds) == [p EXCEPT !.broken = @ \/ ~holds]

Write(p, f) == [p EXCEPT !.writes = Append(@, f)]

SendEof(p) == Write([Asserted(p, ~p.eofSent) EXCEPT !.eofSent = TRUE], Eof)

\* PerMessageDeflate.encode: the frame carries the context it was made in.
SendData(p, first, fin, size) ==
  LET fresh == first /\ p.ext.enabled /\ p.ext.localNct
      ctx == IF fresh THEN 0 ELSE p.enc
      kind == IF first THEN "text" ELSE "cont"
  IN  IF p.ext.enabled
      THEN Write([p EXCEPT !.expectCont = ~fin, !.enc = ctx + 1],
                 Frame(kind, fin, size, NoCode, first, ctx, p.ext.localBits))
      ELSE Write([p EXCEPT !.expectCont = ~fin],
                 Frame(kind, fin, size, NoCode, FALSE, 0, 0))

SendPing(p, size) == Write(p, Ping(size))
SendPong(p, size) == Write(p, Pong(size))

SendClose(p, code) ==
  [Write(Asserted(p, p.closeRcvd = NoCode), Close(code)) EXCEPT
     !.closeSent = code, !.state = "CLOSING"]

(* A new discard() generator, started.                                     *)
Discard(p) ==
  [Asserted(p, (p.side = "server" \/ p.state = "CONNECTING") <=> p.eofSent)
     EXCEPT !.parser = "discard"]

\* Mutated: the echo of an interrupted message is not recorded as an echo.
FailUnordered(p, code) ==
  LET q == IF p.state = "OPEN" /\ code # EofError
           THEN [Write(p, Close(code)) EXCEPT !.closeSent = code, !.state = "CLOSING"]
           ELSE p
  IN  Discard(IF q.side = "server" /\ ~q.eofSent THEN SendEof(q) ELSE q)

Fail(p, code) ==
  LET q == IF p.state = "OPEN" /\ code # EofError
           THEN [Write(p, Close(code)) EXCEPT
                   !.closeSent = code, !.state = "CLOSING",
                   !.rcvdThenSent = IF p.closeRcvd # NoCode THEN "yes" ELSE @]
           ELSE p
  IN  Discard(IF q.side = "server" /\ ~q.eofSent THEN SendEof(q) ELSE q)

\* parse() catches an exception: fail(code), and the exception is kept.
ParserFails(p, code) == [Fail(p, code) EXCEPT !.parserExc = code]

CloseExpected(p) ==
  p.state = "CLOSING" \/ (p.state = "CONNECTING" /\ p.eofSent)

--------------------------------------------------------------------------------
(* Receiving. *)

\* The max_size parse() gives the next frame.
Limit(p) == IF p.current = NoSize THEN MaxSize ELSE MaxSize - p.current

Compressed(p, f) ==
  /\ p.ext.enabled /\ ~IsControl(f)
  /\ IF f.kind = "cont" THEN p.decCont ELSE f.rsv

\* Mutated: the decompressor is never re-initialised.
DecodeContextKeeps(p, f) == p.dec

\* The frames the decompressor has seen since it was made.
DecodeContext(p, f) == IF f.kind = "text" /\ p.ext.remoteNct THEN 0 ELSE p.dec

Decodes(p, f) == f.ctx = DecodeContext(p, f) /\ f.bits <= p.ext.remoteBits

Decode(p, f) ==
  [p EXCEPT !.dec = DecodeContext(p, f) + 1, !.decCont = ~f.fin]

\* Frame.parse and Close.parse: the code of the exception an unacceptable
\* frame raises, NoCode for an acceptable one.  Two kinds of frames stand for
\* what only another implementation sends: "bad" for an invalid opcode, mask,
\* length, reserved bit or close code, and "utf8" for a close frame whose
\* reason is not UTF-8.
FrameError(p, f) ==
  CASE f.kind = "bad" -> 1002
    [] f.kind # "bad" /\ f.size > Limit(p) -> 1009
    [] f.kind # "bad" /\ f.size <= Limit(p) ->
         IF \/ Compressed(p, f) /\ ~Decodes(p, f)
            \/ f.rsv /\ ~Compressed(p, f)
         THEN 1002
         ELSE IF f.kind = "utf8" THEN 1007 ELSE NoCode

\* recv_frame of a close frame.
ReceiveClose(p, f) ==
  LET q == [p EXCEPT !.closeRcvd = f.code,
                     !.rcvdThenSent = IF p.state = "CLOSING" THEN "no" ELSE @]
      r == IF q.state = "OPEN"
           THEN [Write(q, Close(f.code)) EXCEPT
                   !.closeSent = f.code, !.rcvdThenSent = "yes",
                   !.state = "CLOSING"]
           ELSE q
  IN  IF p.current # NoSize THEN ParserFails(q, 1002)
      ELSE Discard(IF r.side = "server" THEN SendEof(r) ELSE r)

\* recv_frame of the other frames.
ReceiveOther(p, f) ==
  CASE f.kind = "text" ->
         IF p.current # NoSize THEN ParserFails(p, 1002)
         ELSE IF f.fin THEN p ELSE [p EXCEPT !.current = f.size]
    [] f.kind = "cont" ->
         IF p.current = NoSize THEN ParserFails(p, 1002)
         ELSE [p EXCEPT !.current = IF f.fin THEN NoSize ELSE @ + f.size]
    [] f.kind = "ping" -> SendPong(p, f.size)
    [] f.kind = "pong" -> p

\* parse() of the next frame.
ReceiveFrame(p, f) ==
  LET q == IF Compressed(p, f) THEN Decode(p, f) ELSE p
  IN  IF FrameError(p, f) # NoCode THEN ParserFails(p, FrameError(p, f))
      ELSE IF f.kind = "close" THEN ReceiveClose(p, f)
      ELSE ReceiveOther(q, f)

\* Mutated: an endpoint whose handshake fails does not end its stream.
HandshakeFailsOpen(p) ==
  [p EXCEPT !.handshakeExc = TRUE, !.parser = "discard"]

\* The exception of parse() in its HTTP part, or a failed handshake.
HandshakeFails(p) == Discard(SendEof([p EXCEPT !.handshakeExc = TRUE]))

\* discard() reads EOF.
DiscardEof(p) ==
  [IF p.side = "client" /\ p.state # "CONNECTING" THEN SendEof(p) ELSE p
     EXCEPT !.state = "CLOSED"]

\* receive_eof of a reader that has not been fed EOF before.
ReceiveEof(p) ==
  DiscardEof(CASE p.parser = "http" -> HandshakeFails(p)
               [] p.parser = "frames" -> ParserFails(p, EofError)
               [] p.parser = "discard" -> p)

--------------------------------------------------------------------------------
(* The opening handshake. *)

\* ServerProtocol.parse of the request.
ReceiveRequest(p) == [p EXCEPT !.parser = "frames"]

\* accept and send_response.
SendResponse(p, response) ==
  LET q == Write([p EXCEPT !.ext = Accepted(response), !.sub = response.sub],
                 response)
  IN  IF response.status = 101
      THEN [Asserted(q, q.state = "CONNECTING") EXCEPT !.state = "OPEN"]
      ELSE Discard(SendEof([q EXCEPT !.handshakeExc = TRUE]))

\* ClientProtocol.parse of the response.
ReceiveResponse(p, cli, response) ==
  IF ResponseRefused(cli, response) THEN HandshakeFails(p)
  ELSE [Asserted(p, p.state = "CONNECTING") EXCEPT
          !.ext = ClientAccepted(cli, response), !.sub = response.sub,
          !.parser = "frames", !.state = "OPEN"]

================================================================================
