--------------------------------- MODULE WsPair --------------------------------
(***************************************************************************)
(* A ClientProtocol and a ServerProtocol, each driven as its documentation *)
(* asks (every method is followed by data_to_send), over a TCP connection: *)
(* two FIFO streams of requests, responses, frames and ends of stream.     *)
(*                                                                         *)
(* cfg chooses how the two are configured, how much their applications     *)
(* send, and `foreign', the endpoint that is another implementation and    *)
(* sends whatever it likes ("none" for two endpoints of this library).  A  *)
(* foreign client sends no frame before the response to its request.       *)
(***************************************************************************)
EXTENDS WsProtocol

CONSTANT Configs            \* the configurations to consider

Endpoints == {"client", "server"}

\* What __init__ accepts for a factory of the server.
Factories ==
  {f \in [snct: BOOLEAN, cnct: BOOLEAN, smwb: {NoBits} \cup Windows,
          cmwb: {NoBits} \cup Windows, require: BOOLEAN] :
     f.require => f.cmwb # NoBits}

ASSUME ConfigsAssumption ==
  \A c \in Configs :
    /\ c.client.offers \in Seq(Params) /\ c.client.subs \in Seq(STRING)
    /\ c.server.factories \in Seq(Factories) /\ c.server.subs \in Seq(STRING)
    /\ c.frames \in [Endpoints -> Nat] /\ c.fins \subseteq BOOLEAN /\ c.sizes \subseteq Nat
    /\ c.ping \in Nat \cup {-1} /\ c.foreign \in Endpoints \cup {"none"}

VARIABLES cfg,
          ep,               \* the protocol of each endpoint
          wire,             \* wire[e]: what e has not read yet
          request,          \* the request the server has read
          cut,              \* endpoints whose TCP connection was aborted
          said, heard,      \* data frames sent, and delivered to the application
          closes,           \* codes of the close frames sent
          message,          \* size of the message an endpoint is sending
          over              \* endpoints that exceeded the max_size of the peer

vars == <<cfg, ep, wire, request, cut, said, heard, closes, message, over>>
history == <<said, message, over>>

Peer(e) == IF e = "client" THEN "server" ELSE "client"
NoRequest == [kind |-> "none"]

Native(e) == cfg.foreign # e

Init ==
  /\ cfg \in Configs
  /\ ep = [e \in Endpoints |-> InitProtocol(e)]
  /\ wire = [e \in Endpoints |-> <<>>]
  /\ request = NoRequest
  /\ cut = {}
  /\ said = [e \in Endpoints |-> 0]
  /\ heard = [e \in Endpoints |-> 0]
  /\ closes = [e \in Endpoints |-> <<>>]
  /\ message = [e \in Endpoints |-> 0]
  /\ over = {}

--------------------------------------------------------------------------------
\* The codes of the close frames in a list of writes.
CloseCodes(writes) ==
  LET frames == {i \in DOMAIN writes : writes[i].kind = "close"}
      Nth(n) == CHOOSE i \in frames : Cardinality({j \in frames : j <= i}) = n
  IN  [n \in 1..Cardinality(frames) |-> writes[Nth(n)].code]

\* e's protocol becomes q, its reader still holds `rest', and its writes go to
\* the peer unless one of the two has lost the TCP connection.
Become(e, q, rest) ==
  \E next \in {q} :
    /\ ep' = [ep EXCEPT ![e] = [next EXCEPT !.writes = <<>>]]
    /\ wire' = [wire EXCEPT ![e] = rest,
                            ![Peer(e)] = IF cut = {} /\ Native(Peer(e))
                                         THEN @ \o next.writes ELSE @]
    /\ closes' = [closes EXCEPT ![e] = @ \o CloseCodes(next.writes)]

Call(e, q) ==
  /\ Native(e)
  /\ Become(e, q, wire[e])
  /\ UNCHANGED <<cfg, request, cut, heard>>

\* The next item of e's reader is of this kind.
Next1(e, kinds) == Native(e) /\ wire[e] # <<>> /\ Head(wire[e]).kind \in kinds

Frames == {"text", "cont", "ping", "pong", "close", "bad", "utf8"}

(* The opening handshake. *)

SendRequest ==
  /\ ep["client"].parser = "http"
  /\ ep["server"].parser = "http" /\ wire["server"] = <<>>
  /\ Call("client", Write(ep["client"], Connect(cfg.client)))
  /\ UNCHANGED history

ReceiveRequestAt ==
  /\ Next1("server", {"request"}) /\ ep["server"].parser = "http"
  /\ request' = Head(wire["server"])
  /\ Become("server", ReceiveRequest(ep["server"]), Tail(wire["server"]))
  /\ UNCHANGED <<cfg, cut, heard, history>>

\* The server answers (once) while its state is still CONNECTING.
Respond ==
  /\ request # NoRequest /\ ep["server"].state = "CONNECTING"
  /\ ep["server"].parser = "frames"
  /\ \E response \in {Accept(cfg.server, request)} :
       Call("server", SendResponse(ep["server"], response))
  /\ UNCHANGED history

ReceiveResponseAt ==
  /\ Next1("client", {"response"}) /\ ep["client"].parser = "http"
  /\ Become("client", ReceiveResponse(ep["client"], cfg.client, Head(wire["client"])),
            Tail(wire["client"]))
  /\ UNCHANGED <<cfg, request, cut, heard, history>>

(* Frames. *)

ReceiveFrameAt(e) ==
  /\ Next1(e, Frames) /\ ep[e].parser = "frames"
  /\ LET f == Head(wire[e])
         q == ReceiveFrame(ep[e], f)
     IN  /\ Become(e, q, Tail(wire[e]))
         /\ heard' = IF ~IsControl(f) /\ q.parserExc = NoCode
                     THEN [heard EXCEPT ![e] = @ + 1] ELSE heard
  /\ UNCHANGED <<cfg, request, cut, history>>

\* discard() drops what it reads.
DiscardAt(e) ==
  /\ Native(e) /\ wire[e] # <<>> /\ Head(wire[e]) # Eof
  /\ ep[e].parser = "discard"
  /\ wire' = [wire EXCEPT ![e] = Tail(@)]
  /\ UNCHANGED <<cfg, ep, request, cut, heard, closes, history>>

ReceiveEofAt(e) ==
  /\ Next1(e, {"eof"})
  /\ Become(e, ReceiveEof(ep[e]), Tail(wire[e]))
  /\ UNCHANGED <<cfg, request, cut, heard, history>>

(* The calls of the applications, within what cfg allows them. *)

Send(e, fin, size) ==
  LET first == ~ep[e].expectCont
      total == size + IF first THEN 0 ELSE message[e]
  IN  /\ ep[e].state = "OPEN"
      /\ said[e] < cfg.frames[e]
      /\ Call(e, SendData(ep[e], first, fin, size))
      /\ said' = [said EXCEPT ![e] = @ + 1]
      /\ message' = [message EXCEPT ![e] = total]
      /\ over' = IF total > MaxSize THEN over \cup {e} ELSE over

\* send_ping() also accepts CLOSING; every caller in the library requires OPEN.
SendPingAt(e) ==
  /\ cfg.ping >= 0 /\ ep[e].state = "OPEN"
  /\ \A x \in Endpoints : ~ \E i \in DOMAIN wire[x] :
                             wire[x][i].kind \in {"ping", "pong"}
  /\ Call(e, SendPing(ep[e], cfg.ping))
  /\ UNCHANGED history

\* close(): by the two applications, or by the one cfg names.
SendCloseAt(e, code) ==
  /\ e \in cfg.closers /\ ep[e].state = "OPEN"
  /\ Call(e, SendClose(ep[e], code))
  /\ UNCHANGED history

\* The connection fails for a reason of its own, such as a keepalive timeout.
FailAt(e) ==
  /\ e \in cfg.failers /\ ep[e].state = "OPEN"
  /\ Call(e, Fail(ep[e], 1011))
  /\ UNCHANGED history

--------------------------------------------------------------------------------
(* The network and other implementations. *)

\* e drops the TCP connection when it has waited long enough: for the
\* handshake, or for a close it expects.  Either stream may lose its tail.
Abort(e) ==
  /\ cfg.cuts /\ cut = {} /\ Native(e)
  /\ ep[e].state = "CONNECTING" \/ CloseExpected(ep[e])
  /\ cut' = {e}
  /\ \E n \in 0..Len(wire[Peer(e)]) :
       /\ \A i \in 1..n : wire[Peer(e)][i] # Eof
       /\ wire' = [wire EXCEPT ![e] = <<>>,
                     ![Peer(e)] = IF Native(Peer(e)) /\ ep[Peer(e)].state # "CLOSED"
                                  THEN Append(SubSeq(@, 1, n), Eof)
                                  ELSE @]
  /\ ep' = [ep EXCEPT ![e] = [ReceiveEof(@) EXCEPT !.writes = <<>>]]
  /\ UNCHANGED <<cfg, request, heard, closes, history>>

ForeignFrames ==
  [kind: {"text", "cont"}, fin: BOOLEAN, size: 0..MaxSize, code: {NoCode}, rsv: {FALSE},
   ctx: {0}, bits: {0}]
  \cup {Frame("text", TRUE, 1, NoCode, TRUE, 0, 15),
        Frame("text", FALSE, MaxSize + 1, NoCode, FALSE, 0, 0),
        Control("bad", 0, NoCode), Control("utf8", 0, NoCode), Ping(1),
        Close(1000), Close(NoStatus)}

ForeignRequests ==
  [kind: {"request"}, upgrade: BOOLEAN, valid: BOOLEAN, origin: {cfg.client.origin},
   offers: {cfg.client.offers}, subs: {cfg.client.subs}]

ForeignResponses ==
  {Reject(400)}
  \cup [kind: {"response"}, status: {101}, valid: BOOLEAN,
        ext: {NoExt} \cup [enabled: {TRUE}, params: Params],
        sub: {NoSub} \cup ToSet(cfg.server.subs)]

\* What a foreign endpoint may send next.
ForeignItems(e) ==
  IF e = "client" /\ request = NoRequest THEN ForeignRequests
  ELSE IF ep[Peer(e)].state = "CONNECTING"
  THEN IF e = "client" THEN {} ELSE ForeignResponses
  ELSE ForeignFrames

Foreign(e) ==
  /\ cfg.foreign = e /\ ~ep[e].eofSent /\ wire[Peer(e)] = <<>> /\ cut = {}
  /\ \/ /\ said[e] < cfg.frames[e]
        /\ said' = [said EXCEPT ![e] = @ + 1]
        /\ \E item \in ForeignItems(e) :
             wire' = [wire EXCEPT ![Peer(e)] = <<item>>]
        /\ UNCHANGED ep
     \/ /\ wire' = [wire EXCEPT ![Peer(e)] = <<Eof>>]
        /\ ep' = [ep EXCEPT ![e].eofSent = TRUE]
        /\ UNCHANGED said
  /\ UNCHANGED <<cfg, request, cut, heard, closes, message, over>>

Serve(e) ==
  \/ e = "client" /\ (SendRequest \/ ReceiveResponseAt)
  \/ e = "server" /\ (ReceiveRequestAt \/ Respond)
  \/ ReceiveFrameAt(e) \/ DiscardAt(e) \/ ReceiveEofAt(e)

Apply(e) ==
  \/ \E fin \in cfg.fins, size \in cfg.sizes : Send(e, fin, size)
  \/ SendPingAt(e)
  \/ \E code \in {1000, NoStatus} : SendCloseAt(e, code)
  \/ FailAt(e)

Next == \E e \in Endpoints : Serve(e) \/ Apply(e) \/ Abort(e) \/ Foreign(e)

Spec == Init /\ [][Next]_vars

\* An event loop reads what arrives; nothing makes an application call.
FairSpec == Spec /\ \A e \in Endpoints : WF_vars(Serve(e))

--------------------------------------------------------------------------------
(* Properties. *)

Codes == {NoCode, 1000, 1001, 1002, NoStatus, EofError, 1007, 1009, 1011}

TypeOK ==
  /\ \A e \in Endpoints :
       /\ ep[e].side = e
       /\ ep[e].state \in {"CONNECTING", "OPEN", "CLOSING", "CLOSED"}
       /\ ep[e].parser \in {"http", "frames", "discard"}
       /\ ep[e].current \in NoSize..MaxSize
       /\ ep[e].closeRcvd \in Codes \ {EofError} /\ ep[e].closeSent \in Codes \ {EofError}
       /\ ep[e].rcvdThenSent \in {"unset", "yes", "no"}
       /\ ep[e].parserExc \in Codes \ {1000, 1001, NoStatus, 1011}
       /\ ep[e].writes = <<>>
       /\ \A i \in DOMAIN wire[e] : i < Len(wire[e]) => wire[e][i] # Eof
  /\ cut \subseteq Endpoints /\ over \subseteq Endpoints
  /\ \A e \in Endpoints : heard[e] <= said[Peer(e)]

\* None of the asserts of protocol.py (send_eof, discard, send_close) and of
\* the assertions on the state at the end of a handshake ever fails, whatever
\* the other endpoint sends: they hold because EOF is sent exactly where
\* discard() takes over.
AssertionsHold == \A e \in Endpoints : ~ep[e].broken

\* close_sent is the one close frame the endpoint has put on the network, and
\* close_rcvd_then_sent tells the order of the two close frames.
ClosesRecorded ==
  \A e \in Endpoints :
    LET p == ep[e] IN
    Native(e) =>
      /\ closes[e] = IF p.closeSent = NoCode THEN <<>> ELSE <<p.closeSent>>
      /\ (p.closeRcvd # NoCode /\ p.closeSent # NoCode) <=> p.rcvdThenSent # "unset"

\* When both are open, the decompressor of each endpoint is the one for the
\* compressor of the other, although the client picks its configuration among
\* its offers from the response alone.
NegotiatedAlike ==
  LET c == ep["client"]  s == ep["server"] IN
  cfg.foreign = "none" /\ c.parser = "frames" =>
    /\ Compatible(c.ext, s.ext) /\ Compatible(s.ext, c.ext)
    /\ c.sub = s.sub

\* Two endpoints of this library whose TCP connection is not aborted never end
\* on an EOFError, a protocol error or a decompression error: the close
\* handshake always precedes the end of the stream, in both directions.
CleanUnlessCut ==
  cfg.foreign = "none" /\ cut = {} =>
    \A e \in Endpoints :
      \/ ep[e].parserExc = NoCode
      \/ ep[e].parserExc = 1009 /\ Peer(e) \in over
      \/ ep[e].parserExc = 1002 /\ ep[e].closeRcvd # NoCode /\ ep[e].current # NoSize

\* An endpoint that has received a close frame holds every data frame its peer
\* sent, and when both are closed without an error they agree on both codes
\* and on who closed first.
CloseLosesNothing ==
  cfg.foreign = "none" =>
    \A e \in Endpoints :
      LET p == ep[e]  q == ep[Peer(e)] IN
      /\ p.closeRcvd # NoCode => p.closeRcvd = q.closeSent /\ heard[e] = said[Peer(e)]
      /\ p.rcvdThenSent = "yes" => q.rcvdThenSent # "yes"
      /\ (cut = {} /\ p.state = "CLOSED" /\ p.closeSent # NoCode /\ q.state = "CLOSED"
            /\ p.parserExc = NoCode /\ p.closeSent \in OkCodes) => p.closeRcvd # NoCode

\* The server is the first to close the TCP connection once the handshake is
\* over (the client only waits for it).
ServerClosesFirst ==
  cfg.foreign = "none" /\ cut = {} /\ ep["client"].eofSent => ep["server"].eofSent

\* close_expected() is right: the close it announces comes without a timeout.
ExpectedCloseComes ==
  \A e \in Endpoints :
    (cfg.foreign = "none" /\ cut = {} /\ CloseExpected(ep[e]))
      ~> (ep[e].state = "CLOSED" \/ cut # {})

\* The opening handshake of two endpoints settles: open or closed on both.
HandshakeSettles ==
  (cfg.foreign = "none") ~>
    (cut # {} \/ \A e \in Endpoints : ep[e].state # "CONNECTING")

\* Each endpoint by itself: no assertion fails, its closes are recorded.
EndpointsSound == TypeOK /\ AssertionsHold /\ ClosesRecorded

\* The two together: they agree on what was negotiated, on what was said and
\* on who closes first.
PairAgrees == NegotiatedAlike /\ CleanUnlessCut /\ CloseLosesNothing /\ ServerClosesFirst

\* Both handshakes settle without a timeout.
HandshakesEnd == ExpectedCloseComes /\ HandshakeSettles
================================================================================
