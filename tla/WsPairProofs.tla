----------------------------- MODULE WsPairProofs ------------------------------
(***************************************************************************)
(* What WsPair promises in every state, for any factories, windows, sizes  *)
(* and configurations: an endpoint never trips over its own assertions,    *)
(* whatever its peer sends, and two endpoints of this library agree on     *)
(* what they negotiated, on what they said and on who closed first.        *)
(***************************************************************************)
EXTENDS WsPair, FiniteSetTheorems, SequenceTheorems, WellFoundedInduction, TLAPS

--------------------------------------------------------------------------------
(* The inductive invariant of one endpoint.                                *)

FrameCodes == {1000, 1001, 1002, NoStatus, 1007, 1009, 1011}
Names == {NoSub} \cup UNION {ToSet(c.client.subs) \cup ToSet(c.server.subs) : c \in Configs}

FrameSet ==
  {f \in [kind: Frames, fin: BOOLEAN, size: Nat, code: {NoCode} \cup FrameCodes, rsv: BOOLEAN,
          ctx: Nat, bits: Nat] : f.kind = "close" => f.code # NoCode}

Requests ==
  UNION {[kind: {"request"}, upgrade: BOOLEAN, valid: BOOLEAN, origin: {c.client.origin},
          offers: {c.client.offers}, subs: {c.client.subs}] : c \in Configs}

Responses ==
  [kind: {"response"}, status: {101, 400, 403, 426}, valid: BOOLEAN,
   ext: {NoExt} \cup [enabled: {TRUE}, params: Params], sub: Names]

Items == {Eof} \cup FrameSet \cup Requests \cup Responses

Exts == {NoExt} \cup [enabled: {TRUE}, remoteNct: BOOLEAN, localNct: BOOLEAN, remoteBits: Nat,
                      localBits: Nat]

Shaped(p) ==
  DOMAIN p = {"side", "state", "parser", "current", "expectCont", "closeRcvd", "closeSent",
              "rcvdThenSent", "eofSent", "handshakeExc", "parserExc", "ext", "sub", "enc", "dec",
              "decCont", "writes", "broken"}

SessionTypes(p) ==
  /\ p.side \in Endpoints /\ p.current \in NoSize..MaxSize /\ p.expectCont \in BOOLEAN
  /\ p.handshakeExc \in BOOLEAN /\ p.ext \in Exts /\ p.enc \in Nat /\ p.dec \in Nat
  /\ p.decCont \in BOOLEAN

StatusTypes(p) ==
  /\ p.state \in {"CONNECTING", "OPEN", "CLOSING", "CLOSED"} /\ p.parser \in {"http", "frames", "discard"}
  /\ p.closeRcvd \in {NoCode} \cup FrameCodes /\ p.closeSent \in {NoCode} \cup FrameCodes
  /\ p.rcvdThenSent \in {"unset", "yes", "no"} /\ p.eofSent \in BOOLEAN
  /\ p.parserExc \in {NoCode, 1002, EofError, 1007, 1009}

\* What the methods of one endpoint keep true of its fields: where the parser
\* may be in each state, who has sent EOF, and which close codes are known.
Kept(p) ==
  /\ ~p.broken
  /\ p.parser = "http" => p.state = "CONNECTING"
  /\ p.state = "OPEN" => p.parser = "frames"
  /\ p.state = "CLOSED" => p.parser = "discard"
  /\ p.side = "client" /\ p.state = "CONNECTING" => p.parser # "frames"
  /\ p.eofSent <=> p.parser = "discard" /\ (p.side = "server" \/ p.state \in {"CONNECTING", "CLOSED"})
  /\ p.closeSent # NoCode => p.state \in {"CLOSING", "CLOSED"}
  /\ p.state = "CLOSING" => p.closeSent # NoCode
  /\ p.closeRcvd # NoCode => p.parser = "discard"
  /\ (p.closeRcvd # NoCode /\ p.closeSent # NoCode) <=> p.rcvdThenSent # "unset"
  /\ p.parserExc # NoCode => p.parser = "discard"
  /\ (p.parser = "discard" /\ p.parserExc = NoCode /\ p.closeSent \in OkCodes) => p.closeRcvd # NoCode

Sound(p) == Shaped(p) /\ SessionTypes(p) /\ StatusTypes(p) /\ Kept(p)

--------------------------------------------------------------------------------
(* What the methods leave.                                                 *)

LEMMA AppendTwo ==
  ASSUME NEW x, NEW y
  PROVE  Append(<<>>, x) = <<x>> /\ Append(<<x>>, y) = <<x, y>>
<1> DEFINE s == Append(<<x>>, y)
<1> DEFINE t == <<x, y>>
<1>1. <<x>> \in Seq({x, y}) /\ Len(<<x>>) = 1 /\ Append(<<>>, x) = <<x>>
  OBVIOUS
<1>2. s \in Seq({x, y}) /\ Len(s) = 2 /\ s[1] = x /\ s[2] = y
  BY <1>1
<1>3. t \in Seq({x, y}) /\ Len(t) = 2 /\ t[1] = x /\ t[2] = y
  OBVIOUS
<1> HIDE DEF s, t
<1>4. s = t
  BY <1>2, <1>3, SeqEqual
<1> QED
  BY <1>1, <1>4 DEF s, t

LEMMA EofIsItem == Eof \in Items /\ Eof.kind = "eof"
BY DEF Eof, Items

LEMMA FramesAreItems ==
  /\ \A code \in FrameCodes : Close(code) \in Items /\ Close(code) \in FrameSet /\ Close(code).kind = "close"
                              /\ Close(code).code = code
  /\ \A n \in Nat : Ping(n) \in Items /\ Pong(n) \in Items /\ Ping(n).kind = "ping" /\ Pong(n).kind = "pong"
BY DEF Close, Ping, Pong, Control, Frame, FrameSet, Items, Frames, FrameCodes, NoCode, NoStatus

\* What a method of an endpoint adds to its writes: a frame or none, and EOF.
Emits(p, q, f) == q.writes = IF q.eofSent = p.eofSent THEN <<f>> ELSE <<f, Eof>>
Mute(p, q) == q.writes = IF q.eofSent = p.eofSent THEN <<>> ELSE <<Eof>>

\* The fields that the methods of the closing handshake write, and the others.
StatusIs(p, state, parser, rcvd, sent, order, eof, exc) ==
  /\ Shaped(p) /\ ~p.broken /\ p.state = state /\ p.parser = parser /\ p.closeRcvd = rcvd
  /\ p.closeSent = sent /\ p.rcvdThenSent = order /\ p.eofSent = eof /\ p.parserExc = exc
Session(p) ==
  <<p.side, p.current, p.expectCont, p.handshakeExc, p.ext, p.sub, p.enc, p.dec, p.decCont>>

\* A method that only writes.
LEMMA WriteIs ==
  ASSUME NEW p, Shaped(p), ~p.broken, NEW f
  PROVE  /\ Write(p, f).writes = Append(p.writes, f) /\ Session(Write(p, f)) = Session(p)
         /\ StatusIs(Write(p, f), p.state, p.parser, p.closeRcvd, p.closeSent, p.rcvdThenSent, p.eofSent,
                     p.parserExc)
BY DEF Shaped, Write, Session, StatusIs

LEMMA SendEofIs ==
  ASSUME NEW p, Shaped(p), ~p.broken, ~p.eofSent
  PROVE  /\ SendEof(p).writes = Append(p.writes, Eof) /\ Session(SendEof(p)) = Session(p)
         /\ StatusIs(SendEof(p), p.state, p.parser, p.closeRcvd, p.closeSent, p.rcvdThenSent, TRUE, p.parserExc)
BY DEF Shaped, Write, Session, StatusIs, SendEof, Asserted

LEMMA DiscardIs ==
  ASSUME NEW p, Shaped(p), ~p.broken, (p.side = "server" \/ p.state = "CONNECTING") <=> p.eofSent
  PROVE  /\ Discard(p).writes = p.writes /\ Session(Discard(p)) = Session(p)
         /\ StatusIs(Discard(p), p.state, "discard", p.closeRcvd, p.closeSent, p.rcvdThenSent, p.eofSent,
                     p.parserExc)
BY DEF Shaped, Session, StatusIs, Discard, Asserted

\* The close frame that fail() and recv_frame() send from OPEN.
LEMMA SendsCloseIs ==
  ASSUME NEW p, Shaped(p), ~p.broken, NEW code, NEW order
  PROVE  LET q == [Write(p, Close(code)) EXCEPT !.closeSent = code, !.state = "CLOSING", !.rcvdThenSent = order]
         IN  /\ q.writes = Append(p.writes, Close(code)) /\ Session(q) = Session(p)
             /\ StatusIs(q, "CLOSING", p.parser, p.closeRcvd, code, order, p.eofSent, p.parserExc)
BY DEF Shaped, Write, Session, StatusIs

\* q is p after it failed with this code (and the exception exc was kept).
Failed(p, q, code, exc) ==
  LET sends == p.state = "OPEN" /\ code # EofError
  IN  /\ Session(q) = Session(p)
      /\ StatusIs(q, IF sends THEN "CLOSING" ELSE p.state, "discard", p.closeRcvd,
                  IF sends THEN code ELSE p.closeSent,
                  IF sends /\ p.closeRcvd # NoCode THEN "yes" ELSE p.rcvdThenSent,
                  p.side = "server", exc)
      /\ IF sends THEN Emits(p, q, Close(code)) ELSE Mute(p, q)

\* fail() of an endpoint that has not sent EOF.
LEMMA FailIs ==
  ASSUME NEW p, Shaped(p), ~p.broken, p.writes = <<>>, p.eofSent = FALSE, NEW code,
         p.side \in Endpoints, p.side = "client" => p.state # "CONNECTING"
  PROVE  Failed(p, Fail(p, code), code, p.parserExc)
<1> DEFINE sends == p.state = "OPEN" /\ code # EofError
<1> DEFINE order == IF p.closeRcvd # NoCode THEN "yes" ELSE p.rcvdThenSent
<1> DEFINE c == [Write(p, Close(code)) EXCEPT !.closeSent = code, !.state = "CLOSING", !.rcvdThenSent = order]
<1> DEFINE r == IF sends THEN c ELSE p
<1> DEFINE t == IF r.side = "server" /\ ~r.eofSent THEN SendEof(r) ELSE r
<1>1. Fail(p, code) = Discard(t)
  <2>1. Write(p, Close(code)).rcvdThenSent = p.rcvdThenSent
    BY WriteIs DEF StatusIs
  <2> QED
    BY <2>1 DEF Fail
<1>2. /\ Session(r) = Session(p)
      /\ StatusIs(r, IF sends THEN "CLOSING" ELSE p.state, p.parser, p.closeRcvd, IF sends THEN code ELSE p.closeSent,
                  IF sends THEN order ELSE p.rcvdThenSent, FALSE, p.parserExc)
      /\ r.writes = IF sends THEN <<Close(code)>> ELSE <<>>
  <2>1. CASE sends
    <3> HIDE DEF order
    <3>1. /\ c.writes = Append(p.writes, Close(code)) /\ Session(c) = Session(p)
          /\ StatusIs(c, "CLOSING", p.parser, p.closeRcvd, code, order, p.eofSent, p.parserExc)
      BY SendsCloseIs
    <3> HIDE DEF c
    <3> QED
      BY <2>1, <3>1 DEF StatusIs
  <2>2. CASE ~sends
    BY <2>2 DEF StatusIs
  <2> QED
    BY <2>1, <2>2
<1> HIDE DEF r
<1>3. r.side = p.side /\ Shaped(r) /\ ~r.broken /\ ~r.eofSent
  BY <1>2 DEF Session, StatusIs
<1>4. /\ Session(t) = Session(p)
      /\ StatusIs(t, r.state, r.parser, r.closeRcvd, r.closeSent, r.rcvdThenSent, p.side = "server", r.parserExc)
      /\ t.writes = IF p.side = "server" THEN Append(r.writes, Eof) ELSE r.writes
  <2>1. CASE p.side = "server"
    BY <1>2, <1>3, <2>1, SendEofIs DEF StatusIs
  <2>2. CASE p.side # "server"
    BY <1>2, <1>3, <2>2 DEF StatusIs
  <2> QED
    BY <2>1, <2>2
<1> HIDE DEF t
<1>5. (t.side = "server" \/ t.state = "CONNECTING") <=> t.eofSent
  BY <1>2, <1>3, <1>4 DEF Session, StatusIs, Endpoints
<1> DEFINE q == Discard(t)
<1>6. /\ q.writes = t.writes /\ Session(q) = Session(t)
      /\ StatusIs(q, t.state, "discard", t.closeRcvd, t.closeSent, t.rcvdThenSent, t.eofSent, t.parserExc)
  BY <1>4, <1>5, DiscardIs DEF StatusIs
<1> HIDE DEF q
<1>7. IF sends THEN Emits(p, q, Close(code)) ELSE Mute(p, q)
  <2>1. q.writes = IF p.side = "server" THEN Append(r.writes, Eof) ELSE r.writes
    BY <1>4, <1>6
  <2>2. r.writes = IF sends THEN <<Close(code)>> ELSE <<>>
    BY <1>2
  <2> HIDE DEF sends
  <2>3. CASE p.side = "server"
    <3>1. q.eofSent # p.eofSent
      BY <1>4, <1>6, <2>3 DEF StatusIs
    <3>2. /\ sends => q.writes = <<Close(code), Eof>>
          /\ ~sends => q.writes = <<Eof>>
      <4>1. Append(<<>>, Eof) = <<Eof>> /\ Append(<<Close(code)>>, Eof) = <<Close(code), Eof>>
        BY AppendTwo
      <4>2. q.writes = Append(r.writes, Eof)
        BY <2>1, <2>3
      <4> QED
        BY <2>2, <4>1, <4>2
    <3> QED
      BY <3>1, <3>2 DEF Emits, Mute
  <2>4. CASE p.side # "server"
    <3>1. q.eofSent = p.eofSent
      BY <1>4, <1>6, <2>4 DEF StatusIs
    <3> QED
      BY <2>1, <2>2, <2>4, <3>1 DEF Emits, Mute
  <2> QED
    BY <2>3, <2>4
<1> QED
  <2>1. Session(q) = Session(p)
    BY <1>4, <1>6
  <2>2. StatusIs(q, IF sends THEN "CLOSING" ELSE p.state, "discard", p.closeRcvd, IF sends THEN code ELSE p.closeSent,
                 IF sends /\ p.closeRcvd # NoCode THEN "yes" ELSE p.rcvdThenSent, p.side = "server", p.parserExc)
    BY <1>2, <1>4, <1>6 DEF StatusIs
  <2> QED
    BY <1>1, <1>7, <2>1, <2>2 DEF Failed, q

LEMMA ParserFailsIs ==
  ASSUME NEW p, Shaped(p), ~p.broken, p.writes = <<>>, p.eofSent = FALSE, NEW code,
         p.side \in Endpoints, p.side = "client" => p.state # "CONNECTING"
  PROVE  Failed(p, ParserFails(p, code), code, code)
<1> DEFINE q == Fail(p, code)
<1>1. Failed(p, q, code, p.parserExc)
  BY FailIs
<1> HIDE DEF q
<1>2. LET r == [q EXCEPT !.parserExc = code]
      IN  /\ Session(r) = Session(q) /\ r.writes = q.writes /\ r.eofSent = q.eofSent
          /\ StatusIs(r, q.state, q.parser, q.closeRcvd, q.closeSent, q.rcvdThenSent, q.eofSent, code)
  BY <1>1 DEF Failed, StatusIs, Session, Shaped
<1>3. ParserFails(p, code) = [q EXCEPT !.parserExc = code]
  BY DEF ParserFails, q
<1> QED
  BY <1>1, <1>2, <1>3 DEF Failed, StatusIs, Emits, Mute

LEMMA ReceiveCloseIs ==
  ASSUME NEW p, Sound(p), p.writes = <<>>, p.parser = "frames", NEW f, f.code # NoCode
  PROVE  LET q == ReceiveClose(p, f)
             code == IF p.current # NoSize THEN 1002 ELSE f.code
         IN  /\ Session(q) = Session(p)
             /\ StatusIs(q, IF p.state = "OPEN" THEN "CLOSING" ELSE p.state, "discard", f.code,
                         IF p.state = "OPEN" THEN code ELSE p.closeSent,
                         IF p.state = "OPEN" THEN "yes" ELSE IF p.state = "CLOSING" THEN "no" ELSE p.rcvdThenSent,
                         p.side = "server", IF p.current # NoSize THEN 1002 ELSE NoCode)
             /\ IF p.state = "OPEN" THEN Emits(p, q, Close(code)) ELSE Mute(p, q)
<1> DEFINE order == IF p.state = "CLOSING" THEN "no" ELSE p.rcvdThenSent
<1> DEFINE a == [p EXCEPT !.closeRcvd = f.code, !.rcvdThenSent = order]
<1> DEFINE q == ReceiveClose(p, f)
<1>1. /\ Shaped(p) /\ ~p.broken /\ p.eofSent = FALSE /\ p.side \in Endpoints /\ p.parserExc = NoCode
      /\ p.side = "client" => p.state # "CONNECTING"
  BY DEF Sound, Kept, SessionTypes, StatusTypes
<1>2. /\ a.writes = <<>> /\ Session(a) = Session(p) /\ a.side = p.side /\ a.current = p.current
      /\ StatusIs(a, p.state, "frames", f.code, p.closeSent, order, FALSE, NoCode)
  BY <1>1 DEF Shaped, Session, StatusIs
<1> DEFINE c == [Write(a, Close(f.code)) EXCEPT !.closeSent = f.code, !.rcvdThenSent = "yes", !.state = "CLOSING"]
<1> DEFINE r == IF a.state = "OPEN" THEN c ELSE a
<1>3. q = IF p.current # NoSize THEN ParserFails(a, 1002)
          ELSE Discard(IF r.side = "server" THEN SendEof(r) ELSE r)
  BY DEF ReceiveClose
<1> HIDE DEF a, order
<1>4. CASE p.current # NoSize
  <2>0. /\ Shaped(a) /\ ~a.broken /\ a.writes = <<>> /\ a.eofSent = FALSE /\ a.side \in Endpoints
        /\ a.side = "client" => a.state # "CONNECTING"
    BY <1>1, <1>2 DEF StatusIs
  <2> DEFINE err == 1002
  <2>a. err # EofError /\ q = ParserFails(a, err)
    <3>1. q = ParserFails(a, 1002)
      BY <1>3, <1>4, Zenon
    <3> QED
      BY <3>1 DEF EofError
  <2> HIDE DEF err, q
  <2>1. Failed(a, ParserFails(a, err), err, err)
    BY <2>0, ParserFailsIs
  <2>3. Failed(a, q, err, err)
    BY <2>1, <2>a
  <2>4. /\ Session(q) = Session(p)
        /\ StatusIs(q, IF p.state = "OPEN" THEN "CLOSING" ELSE p.state, "discard", f.code,
                    IF p.state = "OPEN" THEN err ELSE p.closeSent,
                    IF p.state = "OPEN" THEN "yes" ELSE order, p.side = "server", err)
        /\ IF p.state = "OPEN" THEN Emits(p, q, Close(err)) ELSE Mute(p, q)
    <3>1. /\ Session(q) = Session(p)
          /\ StatusIs(q, IF p.state = "OPEN" THEN "CLOSING" ELSE p.state, "discard", f.code,
                      IF p.state = "OPEN" THEN err ELSE p.closeSent,
                      IF p.state = "OPEN" THEN "yes" ELSE order, p.side = "server", err)
      BY <1>1, <1>2, <2>3, <2>a DEF Failed, StatusIs, NoCode
    <3>2. IF p.state = "OPEN" THEN Emits(a, q, Close(err)) ELSE Mute(a, q)
      BY <1>2, <2>3, <2>a DEF Failed, StatusIs
    <3>3. a.eofSent = p.eofSent
      BY <1>1, <1>2 DEF StatusIs
    <3> QED
      BY <3>1, <3>2, <3>3 DEF Emits, Mute
  <2> QED
    BY <1>4, <2>4 DEF StatusIs, q, order, err
<1>5. CASE p.current = NoSize
  <2>1. /\ Session(r) = Session(p) /\ r.writes = IF p.state = "OPEN" THEN <<Close(f.code)>> ELSE <<>>
        /\ StatusIs(r, IF p.state = "OPEN" THEN "CLOSING" ELSE p.state, "frames", f.code,
                    IF p.state = "OPEN" THEN f.code ELSE p.closeSent,
                    IF p.state = "OPEN" THEN "yes" ELSE order, FALSE, NoCode)
    <3>1. CASE p.state = "OPEN"
      <4>1. /\ c.writes = Append(a.writes, Close(f.code)) /\ Session(c) = Session(a)
            /\ StatusIs(c, "CLOSING", a.parser, a.closeRcvd, f.code, "yes", a.eofSent, a.parserExc)
        BY <1>2 DEF Shaped, Write, Session, StatusIs
      <4>2. r = c
        BY <1>2, <3>1 DEF StatusIs
      <4> HIDE DEF c, r
      <4> QED
        BY <1>2, <3>1, <4>1, <4>2 DEF StatusIs
    <3>2. CASE p.state # "OPEN"
      <4>1. r = a
        BY <1>2, <3>2 DEF StatusIs
      <4> HIDE DEF r
      <4> QED
        BY <1>2, <3>2, <4>1 DEF StatusIs
    <3> QED
      BY <3>1, <3>2
  <2> HIDE DEF r
  <2> DEFINE t == IF r.side = "server" THEN SendEof(r) ELSE r
  <2>2. r.side = p.side /\ Shaped(r) /\ ~r.broken /\ ~r.eofSent
    BY <2>1 DEF Session, StatusIs
  <2>3. /\ Session(t) = Session(p)
        /\ StatusIs(t, r.state, "frames", f.code, r.closeSent, r.rcvdThenSent, p.side = "server", NoCode)
        /\ t.writes = IF p.side = "server" THEN Append(r.writes, Eof) ELSE r.writes
    <3>1. CASE p.side = "server"
      BY <2>1, <2>2, <3>1, SendEofIs DEF StatusIs
    <3>2. CASE p.side # "server"
      BY <2>1, <2>2, <3>2 DEF StatusIs
    <3> QED
      BY <3>1, <3>2
  <2>4. q = Discard(t)
    BY <1>3, <1>5
  <2> HIDE DEF t
  <2>5. (t.side = "server" \/ t.state = "CONNECTING") <=> t.eofSent
    BY <1>1, <2>1, <2>2, <2>3 DEF Session, StatusIs, Endpoints
  <2>6. /\ q.writes = t.writes /\ Session(q) = Session(t)
        /\ StatusIs(q, t.state, "discard", t.closeRcvd, t.closeSent, t.rcvdThenSent, t.eofSent, t.parserExc)
    BY <2>3, <2>4, <2>5, DiscardIs DEF StatusIs
  <2> HIDE DEF q
  <2>7. /\ Session(q) = Session(p)
        /\ StatusIs(q, IF p.state = "OPEN" THEN "CLOSING" ELSE p.state, "discard", f.code,
                    IF p.state = "OPEN" THEN f.code ELSE p.closeSent,
                    IF p.state = "OPEN" THEN "yes" ELSE order, p.side = "server", NoCode)
    BY <2>1, <2>3, <2>6 DEF StatusIs
  <2>8. IF p.state = "OPEN" THEN Emits(p, q, Close(f.code)) ELSE Mute(p, q)
    <3>1. q.writes = IF p.side = "server" THEN Append(r.writes, Eof) ELSE r.writes
      BY <2>3, <2>6
    <3>2. CASE p.side = "server"
      <4>1. Append(<<>>, Eof) = <<Eof>> /\ Append(<<Close(f.code)>>, Eof) = <<Close(f.code), Eof>>
        BY AppendTwo
      <4>2. q.eofSent # p.eofSent
        BY <1>1, <2>7, <3>2 DEF StatusIs
      <4>3. q.writes = Append(r.writes, Eof)
        BY <3>1, <3>2
      <4>4. CASE p.state = "OPEN"
        BY <2>1, <4>1, <4>2, <4>3, <4>4 DEF Emits
      <4>5. CASE p.state # "OPEN"
        BY <2>1, <4>1, <4>2, <4>3, <4>5 DEF Mute
      <4> QED
        BY <4>4, <4>5
    <3>3. CASE p.side # "server"
      <4>1. q.eofSent = p.eofSent
        BY <1>1, <2>7, <3>3 DEF StatusIs
      <4> QED
        BY <2>1, <3>1, <3>3, <4>1 DEF Emits, Mute
    <3> QED
      BY <3>2, <3>3
  <2> QED
    BY <1>5, <2>7, <2>8 DEF StatusIs, q, order
<1> QED
  BY <1>4, <1>5

--------------------------------------------------------------------------------
(* Every method keeps an endpoint sound and writes at most one item, then  *)
(* EOF when it ends its stream; nothing after that.                        *)

Wrote(p, q, kinds) ==
  /\ q.side = p.side
  /\ p.eofSent => q.eofSent /\ q.writes = <<>>
  /\ \/ Mute(p, q) /\ q.closeSent = p.closeSent
     \/ \E f \in Items : f.kind \in kinds /\ Emits(p, q, f) /\ q.closeSent = p.closeSent
     \/ p.closeSent = NoCode /\ q.closeSent \in FrameCodes /\ Emits(p, q, Close(q.closeSent))

Output(p, q, kinds) == Wrote(p, q, kinds) /\ (q.state = "CLOSED" => p.state = "CLOSED")

LEMMA FailedIsSound ==
  ASSUME NEW p, Sound(p), p.writes = <<>>, p.parser = "frames", NEW q, NEW code, NEW exc,
         Failed(p, q, code, exc), NEW kinds,
         \/ code = 1011 /\ p.state = "OPEN" /\ exc = p.parserExc
         \/ code \in {1002, 1007, 1009} /\ exc = code
  PROVE  Sound(q) /\ Output(p, q, kinds)
<1> DEFINE sends == p.state = "OPEN" /\ code # EofError
<1>1. /\ p.eofSent = FALSE /\ p.parserExc = NoCode /\ p.closeRcvd = NoCode /\ p.side \in Endpoints
      /\ p.side = "client" => p.state # "CONNECTING"
      /\ p.state \in {"CONNECTING", "OPEN", "CLOSING"} /\ p.rcvdThenSent = "unset"
      /\ p.state = "CLOSING" <=> p.closeSent # NoCode
  BY DEF Sound, Kept, SessionTypes, StatusTypes
<1>2. /\ Session(q) = Session(p)
      /\ StatusIs(q, IF sends THEN "CLOSING" ELSE p.state, "discard", NoCode,
                  IF sends THEN code ELSE p.closeSent, p.rcvdThenSent, p.side = "server", exc)
      /\ IF sends THEN Emits(p, q, Close(code)) ELSE Mute(p, q)
  BY <1>1 DEF Failed
<1>0. (sends <=> p.state = "OPEN") /\ code \in FrameCodes /\ code # NoCode
  BY DEF EofError, FrameCodes, NoCode
<1> HIDE DEF sends
<1>3. SessionTypes(q) /\ q.side = p.side
  BY <1>2 DEF Sound, SessionTypes, Session
<1>4. StatusTypes(q)
  BY <1>0, <1>1, <1>2 DEF Sound, StatusTypes, StatusIs, NoCode, EofError
<1>a. q.eofSent <=> q.side = "server"
  <2> DEFINE eof == p.side = "server"
  <2>1. q.eofSent = eof
    BY <1>2, Zenon DEF StatusIs
  <2>2. eof \in BOOLEAN /\ (eof <=> q.side = "server")
    BY <1>3
  <2> HIDE DEF eof
  <2>3. q.eofSent \in BOOLEAN
    BY <1>4 DEF StatusTypes
  <2> QED
    BY <2>1, <2>2, <2>3
<1>5. Kept(q)
  BY <1>0, <1>1, <1>2, <1>3, <1>a DEF Kept, StatusIs, NoCode, EofError, OkCodes, NoStatus, Endpoints
<1>6. Output(p, q, kinds)
  <2>1. CASE sends
    BY <1>1, <1>2, <1>3, <2>1, <1>0 DEF Output, Wrote, StatusIs
  <2>2. CASE ~sends
    BY <1>1, <1>2, <1>3, <2>2 DEF Output, Wrote, StatusIs
  <2> QED
    BY <2>1, <2>2
<1> QED
  BY <1>2, <1>3, <1>4, <1>5, <1>6 DEF Sound, StatusIs

\* recv_frame of a close frame.
LEMMA ReceiveCloseIsSound ==
  ASSUME NEW p, Sound(p), p.writes = <<>>, p.parser = "frames", NEW f, f.code \in FrameCodes, NEW kinds
  PROVE  Sound(ReceiveClose(p, f)) /\ Output(p, ReceiveClose(p, f), kinds)
<1> DEFINE q == ReceiveClose(p, f)
<1> DEFINE code == IF p.current # NoSize THEN 1002 ELSE f.code
<1> DEFINE order == IF p.state = "OPEN" THEN "yes" ELSE IF p.state = "CLOSING" THEN "no" ELSE p.rcvdThenSent
<1>0. f.code # NoCode /\ code \in FrameCodes
  BY DEF FrameCodes, NoCode, NoStatus
<1>1. /\ p.eofSent = FALSE /\ p.parserExc = NoCode /\ p.closeRcvd = NoCode /\ p.side \in Endpoints
      /\ p.side = "client" => p.state # "CONNECTING"
      /\ p.state \in {"CONNECTING", "OPEN", "CLOSING"} /\ p.rcvdThenSent = "unset"
      /\ p.state = "CLOSING" <=> p.closeSent # NoCode
  BY DEF Sound, Kept, SessionTypes, StatusTypes
<1>2. /\ Session(q) = Session(p)
      /\ StatusIs(q, IF p.state = "OPEN" THEN "CLOSING" ELSE p.state, "discard", f.code,
                  IF p.state = "OPEN" THEN code ELSE p.closeSent, order,
                  p.side = "server", IF p.current # NoSize THEN 1002 ELSE NoCode)
      /\ IF p.state = "OPEN" THEN Emits(p, q, Close(code)) ELSE Mute(p, q)
  BY <1>0, ReceiveCloseIs
<1> HIDE DEF q, code
<1>3. SessionTypes(q) /\ q.side = p.side
  BY <1>2 DEF Sound, SessionTypes, Session
<1>4. StatusTypes(q)
  BY <1>0, <1>1, <1>2 DEF Sound, StatusTypes, StatusIs
<1>a. q.eofSent <=> q.side = "server"
  <2>1. CASE p.side = "server"
    BY <1>2, <1>3, <2>1 DEF StatusIs
  <2>2. CASE p.side # "server"
    BY <1>2, <1>3, <2>2 DEF StatusIs
  <2> QED
    BY <2>1, <2>2
<1>5. Kept(q)
  BY <1>0, <1>1, <1>2, <1>3, <1>a DEF Kept, StatusIs, NoCode, FrameCodes, NoStatus, Endpoints
<1>6. Output(p, q, kinds)
  <2>1. CASE p.state = "OPEN"
    BY <1>0, <1>1, <1>2, <1>3, <2>1 DEF Output, Wrote, StatusIs
  <2>2. CASE p.state # "OPEN"
    BY <1>1, <1>2, <1>3, <2>2 DEF Output, Wrote, StatusIs
  <2> QED
    BY <2>1, <2>2
<1> QED
  BY <1>2, <1>3, <1>4, <1>5, <1>6 DEF Sound, StatusIs, q

ParserCodes == {1002, 1007, 1009}
OwnCodes == {1011}
Currents == NoSize..MaxSize

SameStatus(p, q) ==
  StatusIs(q, p.state, p.parser, p.closeRcvd, p.closeSent, p.rcvdThenSent, p.eofSent, p.parserExc)

LEMMA SameStatusIsSound ==
  ASSUME NEW p, Sound(p), NEW q, SessionTypes(q), q.side = p.side, SameStatus(p, q)
  PROVE  Sound(q)
BY DEF Sound, SameStatus, StatusIs, StatusTypes, Kept

\* A method that changes no field of the status and at most writes an item.
LEMMA StillSound ==
  ASSUME NEW p, Sound(p), p.writes = <<>>, NEW q, SessionTypes(q), q.side = p.side, SameStatus(p, q),
         NEW kinds, q.writes = <<>> \/ (~p.eofSent /\ \E f \in Items : f.kind \in kinds /\ q.writes = <<f>>)
  PROVE  Sound(q) /\ Output(p, q, kinds)
<1>1. Sound(q)
  BY SameStatusIsSound
<1>2. q.eofSent = p.eofSent /\ q.closeSent = p.closeSent /\ q.state = p.state
  BY DEF SameStatus, StatusIs
<1>3. CASE q.writes = <<>>
  BY <1>1, <1>2, <1>3 DEF Output, Wrote, Mute
<1>4. CASE ~p.eofSent /\ \E f \in Items : f.kind \in kinds /\ q.writes = <<f>>
  BY <1>1, <1>2, <1>4 DEF Output, Wrote, Emits
<1> QED
  BY <1>3, <1>4

LEMMA DecodeIsSound ==
  ASSUME NEW p, Sound(p), NEW f, f.fin \in BOOLEAN
  PROVE  LET q == Decode(p, f)
         IN  /\ Sound(q) /\ SameStatus(p, q) /\ q.writes = p.writes /\ q.side = p.side /\ q.current = p.current
<1> DEFINE q == Decode(p, f)
<1>1. DecodeContext(p, f) + 1 \in Nat
  BY DEF DecodeContext, Sound, SessionTypes
<1> DEFINE n == DecodeContext(p, f) + 1
<1>2. /\ Shaped(q) /\ q.side = p.side /\ q.current = p.current /\ q.expectCont = p.expectCont
      /\ q.handshakeExc = p.handshakeExc /\ q.ext = p.ext /\ q.enc = p.enc /\ q.dec = n /\ q.decCont = ~f.fin
      /\ q.writes = p.writes /\ SameStatus(p, q)
  <2> HIDE DEF n
  <2>1. q = [p EXCEPT !.dec = n, !.decCont = ~f.fin]
    BY DEF Decode, n
  <2>2. Shaped(p) /\ ~p.broken
    BY DEF Sound, Kept
  <2> HIDE DEF q
  <2> QED
    BY <2>1, <2>2 DEF Shaped, SameStatus, StatusIs
<1> HIDE DEF q
<1>3. SessionTypes(q)
  BY <1>1, <1>2 DEF Sound, SessionTypes
<1> QED
  BY <1>2, <1>3, SameStatusIsSound DEF q

LEMMA CurrentIsSound ==
  ASSUME NEW p, Sound(p), p.writes = <<>>, NEW n \in Currents, NEW kinds
  PROVE  LET q == [p EXCEPT !.current = n] IN Sound(q) /\ Output(p, q, kinds)
<1> DEFINE q == [p EXCEPT !.current = n]
<1>1. Shaped(p) /\ ~p.broken
  BY DEF Sound, Kept
<1>2. /\ q.side = p.side /\ q.current = n /\ q.expectCont = p.expectCont
      /\ q.handshakeExc = p.handshakeExc /\ q.ext = p.ext /\ q.enc = p.enc /\ q.dec = p.dec /\ q.decCont = p.decCont
      /\ q.writes = p.writes /\ SameStatus(p, q)
  BY <1>1 DEF Shaped, SameStatus, StatusIs
<1> HIDE DEF q
<1>3. SessionTypes(q)
  BY <1>2 DEF Sound, SessionTypes, Currents
<1>a. q.writes = <<>>
  BY <1>2
<1>4. q.writes = <<>> \/ (~p.eofSent /\ \E f \in Items : f.kind \in kinds /\ q.writes = <<f>>)
  BY <1>a, Zenon
<1>5. Sound(q) /\ Output(p, q, kinds)
  BY <1>2, <1>3, <1>4, StillSound
<1> QED
  BY <1>5 DEF q

\* A method that only writes one item.
LEMMA WriteIsSound ==
  ASSUME NEW p, Sound(p), p.writes = <<>>, ~p.eofSent, NEW f \in Items, NEW kinds, f.kind \in kinds
  PROVE  Sound(Write(p, f)) /\ Output(p, Write(p, f), kinds)
<1> DEFINE q == Write(p, f)
<1>1. Shaped(p) /\ ~p.broken
  BY DEF Sound, Kept
<1>2. q.writes = <<f>> /\ Session(q) = Session(p) /\ SameStatus(p, q)
  BY <1>1, WriteIs, AppendTwo DEF SameStatus
<1> HIDE DEF q
<1>3. SessionTypes(q) /\ q.side = p.side
  BY <1>2 DEF Sound, SessionTypes, Session
<1>4. q.writes = <<>> \/ (~p.eofSent /\ \E g \in Items : g.kind \in kinds /\ q.writes = <<g>>)
  BY <1>2
<1>5. Sound(q) /\ Output(p, q, kinds)
  BY <1>2, <1>3, <1>4, StillSound
<1> QED
  BY <1>5 DEF q

\* parse() raises, and fail() follows.
LEMMA ParserFailsIsSound ==
  ASSUME NEW p, Sound(p), p.writes = <<>>, p.parser = "frames", NEW code \in ParserCodes, NEW kinds
  PROVE  Sound(ParserFails(p, code)) /\ Output(p, ParserFails(p, code), kinds)
<1> DEFINE q == ParserFails(p, code)
<1>1. /\ Shaped(p) /\ ~p.broken /\ p.writes = <<>> /\ p.eofSent = FALSE /\ p.side \in Endpoints
      /\ p.side = "client" => p.state # "CONNECTING"
  BY DEF Sound, Kept, SessionTypes, StatusTypes
<1>2. Failed(p, q, code, code)
  BY <1>1, ParserFailsIs
<1> HIDE DEF q
<1>3. Sound(q) /\ Output(p, q, kinds)
  BY <1>2, FailedIsSound DEF ParserCodes
<1> QED
  BY <1>3 DEF q

LEMMA FrameErrorIs ==
  ASSUME NEW p, Sound(p), NEW f \in FrameSet
  PROVE  /\ FrameError(p, f) \in {NoCode} \cup ParserCodes
         /\ FrameError(p, f) = NoCode => f.kind \notin {"bad", "utf8"} /\ f.size <= Limit(p)
<1>1. f.size \in Nat /\ Limit(p) \in Int
  BY MaxSizeAssumption DEF FrameSet, Limit, Sound, SessionTypes, NoSize
<1>2. CASE f.kind = "bad"
  BY <1>2 DEF FrameError, ParserCodes, NoCode
<1>3. CASE f.kind # "bad" /\ f.size > Limit(p)
  <2>1. ~(f.size <= Limit(p))
    BY <1>1, <1>3
  <2> QED
    BY <1>3, <2>1 DEF FrameError, ParserCodes, NoCode
<1>4. CASE f.kind # "bad" /\ f.size <= Limit(p)
  <2>1. ~(f.size > Limit(p))
    BY <1>1, <1>4
  <2> QED
    BY <1>4, <2>1 DEF FrameError, ParserCodes, NoCode
<1> QED
  BY <1>1, <1>2, <1>3, <1>4

LEMMA ReceiveOtherIsSound ==
  ASSUME NEW p, Sound(p), p.writes = <<>>, p.parser = "frames", NEW f \in FrameSet,
         f.kind \in {"text", "cont", "ping", "pong"}, f.size <= Limit(p)
  PROVE  Sound(ReceiveOther(p, f)) /\ Output(p, ReceiveOther(p, f), {"pong"})
<1> DEFINE kinds == {"pong"}
<1>0. f.size \in Nat /\ f.fin \in BOOLEAN /\ p.eofSent = FALSE /\ "pong" \in kinds
  BY DEF FrameSet, Sound, Kept, StatusTypes
<1> HIDE DEF kinds
<1>1. Sound(p) /\ Output(p, p, kinds)
  BY <1>0 DEF Output, Wrote, Mute
<1>2. 1002 \in ParserCodes
  BY DEF ParserCodes
<1> DEFINE err == 1002
<1> HIDE DEF err
<1>3. Sound(ParserFails(p, err)) /\ Output(p, ParserFails(p, err), kinds)
  BY <1>2, ParserFailsIsSound DEF err
<1>4. CASE f.kind = "text"
  <2>1. CASE p.current # NoSize
    <3>1. ReceiveOther(p, f) = ParserFails(p, err)
      BY <1>4, <2>1 DEF ReceiveOther, err
    <3> QED
      BY <1>3, <3>1 DEF kinds
  <2>2. CASE p.current = NoSize /\ f.fin
    <3>1. ReceiveOther(p, f) = p
      BY <1>4, <2>2 DEF ReceiveOther
    <3> QED
      BY <1>1, <3>1 DEF kinds
  <2>3. CASE p.current = NoSize /\ ~f.fin
    <3>1. ReceiveOther(p, f) = [p EXCEPT !.current = f.size]
      BY <1>4, <2>3 DEF ReceiveOther
    <3>2. f.size \in Currents
      BY <1>0, <2>3, MaxSizeAssumption DEF Limit, Currents, NoSize
    <3>3. Sound([p EXCEPT !.current = f.size]) /\ Output(p, [p EXCEPT !.current = f.size], kinds)
      BY <3>2, CurrentIsSound
    <3> QED
      BY <3>1, <3>3 DEF kinds
  <2> QED
    BY <2>1, <2>2, <2>3
<1>5. CASE f.kind = "cont"
  <2>1. CASE p.current = NoSize
    <3>1. ReceiveOther(p, f) = ParserFails(p, err)
      BY <1>5, <2>1 DEF ReceiveOther, err
    <3> QED
      BY <1>3, <3>1 DEF kinds
  <2>2. CASE p.current # NoSize
    <3> DEFINE n == IF f.fin THEN NoSize ELSE p.current + f.size
    <3>1. ReceiveOther(p, f) = [p EXCEPT !.current = n]
      BY <1>5, <2>2 DEF ReceiveOther
    <3>2. n \in Currents
      BY <1>0, <2>2, MaxSizeAssumption DEF Limit, Currents, NoSize, Sound, SessionTypes
    <3> HIDE DEF n
    <3>3. Sound([p EXCEPT !.current = n]) /\ Output(p, [p EXCEPT !.current = n], kinds)
      BY <3>2, CurrentIsSound
    <3> QED
      BY <3>1, <3>3 DEF kinds
  <2> QED
    BY <2>1, <2>2
<1>6. CASE f.kind = "ping"
  <2>1. ReceiveOther(p, f) = Write(p, Pong(f.size))
    BY <1>6 DEF ReceiveOther, SendPong
  <2>2. Pong(f.size) \in Items /\ Pong(f.size).kind \in kinds
    BY <1>0, FramesAreItems
  <2>3. Sound(Write(p, Pong(f.size))) /\ Output(p, Write(p, Pong(f.size)), kinds)
    BY <1>0, <2>2, WriteIsSound
  <2> QED
    BY <2>1, <2>3 DEF kinds
<1>7. CASE f.kind = "pong"
  <2>1. ReceiveOther(p, f) = p
    BY <1>7 DEF ReceiveOther
  <2> QED
    BY <1>1, <2>1 DEF kinds
<1> QED
  BY <1>4, <1>5, <1>6, <1>7

LEMMA ReceiveFrameIsSound ==
  ASSUME NEW p, Sound(p), p.writes = <<>>, p.parser = "frames", NEW f \in FrameSet
  PROVE  Sound(ReceiveFrame(p, f)) /\ Output(p, ReceiveFrame(p, f), {"pong"})
<1> DEFINE kinds == {"pong"}
<1> DEFINE q == IF Compressed(p, f) THEN Decode(p, f) ELSE p
<1> DEFINE err == FrameError(p, f)
<1>0. f.kind \in Frames /\ f.fin \in BOOLEAN /\ (f.kind = "close" => f.code \in FrameCodes)
  BY DEF FrameSet
<1>1. err \in {NoCode} \cup ParserCodes /\ (err = NoCode => f.kind \notin {"bad", "utf8"} /\ f.size <= Limit(p))
  BY FrameErrorIs
<1>2. ReceiveFrame(p, f) = IF err # NoCode THEN ParserFails(p, err)
                           ELSE IF f.kind = "close" THEN ReceiveClose(p, f) ELSE ReceiveOther(q, f)
  BY DEF ReceiveFrame
<1> HIDE DEF err, kinds
<1>3. CASE err # NoCode
  <2>1. Sound(ParserFails(p, err)) /\ Output(p, ParserFails(p, err), kinds)
    BY <1>1, <1>3, ParserFailsIsSound
  <2> QED
    BY <1>2, <1>3, <2>1 DEF kinds
<1>4. CASE err = NoCode /\ f.kind = "close"
  <2>1. Sound(ReceiveClose(p, f)) /\ Output(p, ReceiveClose(p, f), kinds)
    BY <1>0, <1>4, ReceiveCloseIsSound
  <2> QED
    BY <1>2, <1>4, <2>1 DEF kinds
<1>5. CASE err = NoCode /\ f.kind # "close"
  <2>1. /\ Sound(q) /\ q.writes = <<>> /\ q.parser = "frames" /\ q.current = p.current
        /\ q.side = p.side /\ q.eofSent = p.eofSent /\ q.closeSent = p.closeSent /\ q.state = p.state
    <3>1. CASE Compressed(p, f)
      <4> DEFINE d == Decode(p, f)
      <4>1. /\ Sound(d) /\ SameStatus(p, d) /\ d.writes = p.writes /\ d.side = p.side
            /\ d.current = p.current
        BY <1>0, DecodeIsSound
      <4>2. q = d
        BY <3>1
      <4> HIDE DEF d, q
      <4> QED
        BY <4>1, <4>2 DEF SameStatus, StatusIs
    <3>2. CASE ~Compressed(p, f)
      BY <3>2
    <3> QED
      BY <3>1, <3>2
  <2> HIDE DEF q
  <2>2. f.kind \in {"text", "cont", "ping", "pong"} /\ f.size <= Limit(q)
    BY <1>0, <1>1, <1>5, <2>1 DEF Limit, Frames
  <2> DEFINE r == ReceiveOther(q, f)
  <2>3. Sound(r) /\ Output(q, r, kinds)
    BY <2>1, <2>2, ReceiveOtherIsSound DEF kinds
  <2>4. ReceiveFrame(p, f) = r
    BY <1>2, <1>5
  <2> HIDE DEF r
  <2>5. Output(p, r, kinds)
    BY <2>1, <2>3 DEF Output, Wrote, Mute, Emits
  <2> QED
    BY <2>3, <2>4, <2>5 DEF kinds
<1> QED
  BY <1>1, <1>3, <1>4, <1>5

LEMMA HandshakeFailsIs ==
  ASSUME NEW p, Sound(p), p.writes = <<>>, ~p.eofSent, p.state = "CONNECTING", NEW kinds
  PROVE  LET q == HandshakeFails(p)
         IN  /\ Sound(q) /\ Output(p, q, kinds) /\ q.state = "CONNECTING" /\ q.parser = "discard" /\ q.eofSent
             /\ q.closeRcvd = p.closeRcvd /\ q.closeSent = p.closeSent /\ q.rcvdThenSent = p.rcvdThenSent
             /\ q.parserExc = p.parserExc /\ q.handshakeExc /\ q.writes = <<Eof>>
<1> DEFINE a == [p EXCEPT !.handshakeExc = TRUE]
<1> DEFINE b == SendEof(a)
<1> DEFINE q == Discard(b)
<1>1. q = HandshakeFails(p)
  BY DEF HandshakeFails
<1>2. Shaped(p) /\ ~p.broken /\ SessionTypes(p) /\ p.eofSent = FALSE
  BY DEF Sound, Kept, StatusTypes
<1>3. /\ a.side = p.side /\ a.current = p.current /\ a.expectCont = p.expectCont /\ a.handshakeExc = TRUE
      /\ a.ext = p.ext /\ a.enc = p.enc /\ a.dec = p.dec /\ a.decCont = p.decCont /\ a.writes = <<>>
      /\ SameStatus(p, a)
  BY <1>2 DEF Shaped, SameStatus, StatusIs
<1> HIDE DEF a
<1>4. /\ Session(b) = Session(a) /\ b.writes = <<Eof>>
      /\ StatusIs(b, p.state, p.parser, p.closeRcvd, p.closeSent, p.rcvdThenSent, TRUE, p.parserExc)
  <2>1. a.writes = <<>> /\ Append(a.writes, Eof) = <<Eof>>
    BY <1>2, <1>3, AppendTwo
  <2> QED
    BY <1>2, <1>3, <2>1, SendEofIs DEF SameStatus, StatusIs
<1> HIDE DEF b
<1>5. (b.side = "server" \/ b.state = "CONNECTING") <=> b.eofSent
  BY <1>4 DEF StatusIs
<1>6. /\ Session(q) = Session(b) /\ q.writes = <<Eof>>
      /\ StatusIs(q, "CONNECTING", "discard", p.closeRcvd, p.closeSent, p.rcvdThenSent, TRUE, p.parserExc)
  BY <1>4, <1>5, DiscardIs DEF StatusIs
<1> HIDE DEF q
<1>7. SessionTypes(q) /\ q.side = p.side /\ q.handshakeExc = TRUE
  BY <1>2, <1>3, <1>4, <1>6 DEF SessionTypes, Session
<1>8. StatusTypes(q)
  <2>1. StatusTypes(p)
    BY DEF Sound
  <2>2. /\ q.state = "CONNECTING" /\ q.parser = "discard" /\ q.closeRcvd = p.closeRcvd
        /\ q.closeSent = p.closeSent /\ q.rcvdThenSent = p.rcvdThenSent /\ q.eofSent = TRUE /\ q.parserExc = p.parserExc
    BY <1>6 DEF StatusIs
  <2>3. q.eofSent \in BOOLEAN
    BY <2>2
  <2>4. q.parserExc \in {NoCode, 1002, EofError, 1007, 1009}
    BY <2>1, <2>2 DEF StatusTypes
  <2>5. q.rcvdThenSent \in {"unset", "yes", "no"}
    BY <2>1, <2>2 DEF StatusTypes
  <2>6. /\ q.state \in {"CONNECTING", "OPEN", "CLOSING", "CLOSED"} /\ q.parser \in {"http", "frames", "discard"}
    BY <2>1, <2>2 DEF StatusTypes
  <2> QED
    BY <2>1, <2>2, <2>3, <2>4, <2>5, <2>6 DEF StatusTypes
<1>9. Kept(q)
  BY <1>6, <1>7 DEF Sound, Kept, StatusIs, NoCode, OkCodes, NoStatus
<1>10. Output(p, q, kinds)
  BY <1>2, <1>6, <1>7 DEF Output, Wrote, Mute, StatusIs
<1> QED
  BY <1>1, <1>6, <1>7, <1>8, <1>9, <1>10 DEF Sound, StatusIs

\* receive_eof leaves the endpoint closed, its own stream ended.
LEMMA ReceiveEofIs ==
  ASSUME NEW p, Sound(p), p.writes = <<>>, p.state # "CLOSED", NEW kinds
  PROVE  LET q == ReceiveEof(p) IN /\ Sound(q) /\ Wrote(p, q, kinds) /\ q.state = "CLOSED" /\ q.eofSent
                                 /\ q.closeSent = p.closeSent
<1> DEFINE a == CASE p.parser = "http" -> HandshakeFails(p)
                  [] p.parser = "frames" -> ParserFails(p, EofError)
                  [] p.parser = "discard" -> p
<1> DEFINE last == a.side = "client" /\ a.state # "CONNECTING"
<1> DEFINE b == IF last THEN SendEof(a) ELSE a
<1> DEFINE q == [b EXCEPT !.state = "CLOSED"]
<1> DEFINE eof == p.eofSent \/ p.side = "server" \/ p.state = "CONNECTING"
<1>1. q = ReceiveEof(p)
  BY DEF ReceiveEof, DiscardEof
<1>2. /\ Shaped(p) /\ ~p.broken /\ p.side \in Endpoints /\ p.parser \in {"http", "frames", "discard"}
      /\ p.eofSent \in BOOLEAN
  BY DEF Sound, Kept, SessionTypes, StatusTypes
<1> HIDE DEF a, q
<1>3. /\ SessionTypes(a) /\ a.side = p.side /\ Shaped(a) /\ ~a.broken /\ a.state = p.state /\ a.parser = "discard"
      /\ a.closeRcvd = p.closeRcvd /\ a.closeSent = p.closeSent /\ a.rcvdThenSent = p.rcvdThenSent
      /\ a.parserExc = IF p.parser = "frames" THEN EofError ELSE p.parserExc
      /\ a.eofSent = (a.side = "server" \/ a.state = "CONNECTING")
      /\ a.writes = IF p.eofSent = a.eofSent THEN <<>> ELSE <<Eof>>
  <2>1. CASE p.parser = "http"
    <3> DEFINE h == HandshakeFails(p)
    <3>1. a = h
      BY <2>1 DEF a
    <3>2. p.state = "CONNECTING" /\ p.eofSent = FALSE
      BY <2>1 DEF Sound, Kept, StatusTypes
    <3>3. /\ Sound(h) /\ Output(p, h, kinds) /\ h.state = "CONNECTING" /\ h.parser = "discard" /\ h.eofSent
          /\ h.closeRcvd = p.closeRcvd /\ h.closeSent = p.closeSent /\ h.rcvdThenSent = p.rcvdThenSent
          /\ h.parserExc = p.parserExc /\ h.writes = <<Eof>>
      BY <3>2, HandshakeFailsIs
    <3> HIDE DEF h
    <3>4. h.eofSent = TRUE
      BY <3>3 DEF Sound, StatusTypes
    <3> QED
      BY <2>1, <3>1, <3>2, <3>3, <3>4 DEF Sound, Kept, Output, Wrote
  <2>2. CASE p.parser = "frames"
    <3> DEFINE h == ParserFails(p, EofError)
    <3>1. a = h
      BY <2>2 DEF a
    <3>2. p.eofSent = FALSE /\ (p.side = "client" => p.state # "CONNECTING")
      BY <2>2 DEF Sound, Kept, StatusTypes
    <3>3. Failed(p, h, EofError, EofError)
      BY <1>2, <3>2, ParserFailsIs
    <3> HIDE DEF h
    <3>4. /\ Session(h) = Session(p) /\ Mute(p, h)
          /\ StatusIs(h, p.state, "discard", p.closeRcvd, p.closeSent, p.rcvdThenSent, p.side = "server", EofError)
      BY <3>3 DEF Failed
    <3>5. SessionTypes(h) /\ h.side = p.side
      BY <3>4 DEF Sound, SessionTypes, Session
    <3>6. h.eofSent = (h.side = "server" \/ h.state = "CONNECTING")
      <4>1. h.eofSent = (p.side = "server") /\ h.state = p.state
        BY <3>4, Zenon DEF StatusIs
      <4>2. CASE p.side = "server"
        <5>1. h.eofSent = TRUE
          BY <4>1, <4>2
        <5> QED
          BY <3>5, <4>2, <5>1
      <4>3. CASE p.side # "server"
        <5>1. h.eofSent = FALSE /\ h.state # "CONNECTING"
          BY <1>2, <3>2, <4>1, <4>3 DEF Endpoints
        <5> QED
          BY <3>5, <4>3, <5>1
      <4> QED
        BY <4>2, <4>3
    <3>7. h.writes = IF p.eofSent = h.eofSent THEN <<>> ELSE <<Eof>>
      BY <3>4 DEF Mute
    <3> QED
      BY <2>2, <3>1, <3>4, <3>5, <3>6, <3>7 DEF StatusIs
  <2>3. CASE p.parser = "discard"
    <3>1. a = p
      BY <2>3 DEF a
    <3>2. p.eofSent <=> p.side = "server" \/ p.state = "CONNECTING"
      BY <2>3 DEF Sound, Kept
    <3>3. p.eofSent = (p.side = "server" \/ p.state = "CONNECTING")
      BY <1>2, <3>2
    <3> QED
      BY <1>2, <2>3, <3>1, <3>3 DEF Sound
  <2> QED
    BY <1>2, <2>1, <2>2, <2>3
<1> DEFINE ended == a.side = "server" \/ a.state = "CONNECTING"
<1>4. /\ Shaped(b) /\ b.writes = IF p.eofSent THEN <<>> ELSE <<Eof>>
      /\ Session(b) = Session(a)
      /\ StatusIs(b, a.state, "discard", a.closeRcvd, a.closeSent, a.rcvdThenSent, TRUE, a.parserExc)
  <2>1. CASE last
    <3>1. a.eofSent = FALSE /\ p.eofSent = FALSE /\ a.writes = <<>>
      <4>1. a.eofSent = FALSE
        BY <1>3, <2>1
      <4>2. p.eofSent = FALSE
        BY <1>2, <1>3, <2>1 DEF Sound, Kept
      <4> QED
        BY <1>3, <4>1, <4>2
    <3>2. b = SendEof(a)
      BY <2>1
    <3> HIDE DEF b
    <3>3. /\ b.writes = Append(a.writes, Eof) /\ Session(b) = Session(a)
          /\ StatusIs(b, a.state, a.parser, a.closeRcvd, a.closeSent, a.rcvdThenSent, TRUE, a.parserExc)
      BY <1>3, <3>1, <3>2, SendEofIs
    <3>4. b.writes = <<Eof>>
      BY <3>1, <3>3, AppendTwo
    <3> QED
      BY <1>3, <3>1, <3>3, <3>4 DEF StatusIs
  <2>2. CASE ~last
    <3>1. a.eofSent = TRUE /\ b = a
      BY <1>2, <1>3, <2>2 DEF Endpoints
    <3> HIDE DEF b
    <3>2. a.writes = IF p.eofSent THEN <<>> ELSE <<Eof>>
      BY <1>2, <1>3, <3>1
    <3> QED
      BY <1>3, <3>1, <3>2 DEF StatusIs
  <2> QED
    BY <2>1, <2>2
<1> HIDE DEF b, last
<1>5. /\ q.writes = b.writes /\ Session(q) = Session(b)
      /\ StatusIs(q, "CLOSED", "discard", p.closeRcvd, p.closeSent, p.rcvdThenSent, TRUE,
                  IF p.parser = "frames" THEN EofError ELSE p.parserExc)
  BY <1>3, <1>4 DEF q, Session, StatusIs, Shaped
<1>6. SessionTypes(q) /\ q.side = p.side
  BY <1>3, <1>4, <1>5 DEF SessionTypes, Session
<1>7. StatusTypes(q)
  <2>1. StatusTypes(p)
    BY DEF Sound
  <2>2. /\ q.state = "CLOSED" /\ q.parser = "discard" /\ q.closeRcvd = p.closeRcvd
        /\ q.closeSent = p.closeSent /\ q.rcvdThenSent = p.rcvdThenSent /\ q.eofSent = TRUE
        /\ q.parserExc = IF p.parser = "frames" THEN EofError ELSE p.parserExc
    BY <1>5 DEF StatusIs
  <2>3. q.eofSent \in BOOLEAN
    BY <2>2
  <2>4. q.parserExc \in {NoCode, 1002, EofError, 1007, 1009}
    BY <2>1, <2>2 DEF StatusTypes
  <2> QED
    BY <2>1, <2>2, <2>3, <2>4 DEF StatusTypes
<1>8. Kept(q)
  <2>1. Kept(p) /\ p.eofSent \in BOOLEAN
    BY <1>2 DEF Sound
  <2>2. q.parserExc = NoCode => p.parserExc = NoCode /\ p.parser # "frames"
    BY <1>5 DEF StatusIs, NoCode, EofError
  <2>3. q.parserExc = NoCode /\ q.closeSent \in OkCodes => q.closeRcvd # NoCode
    <3>1. p.parser = "http" => p.closeSent = NoCode
      BY <2>1 DEF Kept
    <3> QED
      BY <1>2, <1>5, <2>1, <2>2, <3>1 DEF StatusIs, Kept, OkCodes, NoCode, NoStatus
  <2> QED
    BY <1>5, <2>1, <2>3 DEF Kept, StatusIs
<1>9. Wrote(p, q, kinds)
  <2>1. q.eofSent = TRUE /\ q.closeSent = p.closeSent /\ q.writes = IF p.eofSent THEN <<>> ELSE <<Eof>>
    BY <1>4, <1>5 DEF StatusIs
  <2>2. Mute(p, q)
    BY <1>2, <2>1 DEF Mute
  <2> QED
    BY <1>6, <2>1, <2>2 DEF Wrote
<1> QED
  BY <1>1, <1>5, <1>6, <1>7, <1>8, <1>9 DEF Sound, StatusIs

LEMMA ReceiveRequestIsSound ==
  ASSUME NEW p, Sound(p), p.writes = <<>>, p.parser = "http", p.side = "server", NEW kinds
  PROVE  LET q == ReceiveRequest(p) IN Sound(q) /\ Output(p, q, kinds) /\ q.parser = "frames"
<1> DEFINE q == ReceiveRequest(p)
<1>1. Shaped(p) /\ ~p.broken /\ p.state = "CONNECTING" /\ p.eofSent = FALSE
  BY DEF Sound, Kept, StatusTypes
<1>2. /\ Session(q) = Session(p) /\ q.writes = <<>>
      /\ StatusIs(q, p.state, "frames", p.closeRcvd, p.closeSent, p.rcvdThenSent, p.eofSent, p.parserExc)
  BY <1>1 DEF ReceiveRequest, Shaped, Session, StatusIs
<1> HIDE DEF q
<1>3. SessionTypes(q) /\ q.side = p.side
  BY <1>2 DEF Sound, SessionTypes, Session
<1>4. StatusTypes(q)
  BY <1>2 DEF Sound, StatusTypes, StatusIs
<1>5. Kept(q)
  BY <1>1, <1>2, <1>3 DEF Sound, Kept, StatusIs
<1>6. Output(p, q, kinds)
  BY <1>1, <1>2, <1>3 DEF Output, Wrote, Mute, StatusIs
<1> QED
  BY <1>2, <1>3, <1>4, <1>5, <1>6 DEF Sound, StatusIs, q

LEMMA SendResponseIsSound ==
  ASSUME NEW p, Sound(p), p.writes = <<>>, p.parser = "frames", p.state = "CONNECTING", NEW r \in Responses,
         Accepted(r) \in Exts
  PROVE  Sound(SendResponse(p, r)) /\ Output(p, SendResponse(p, r), {"response"})
<1> DEFINE kinds == {"response"}
<1> DEFINE a == [p EXCEPT !.ext = Accepted(r), !.sub = r.sub]
<1> DEFINE b == Write(a, r)
<1>1. /\ Shaped(p) /\ ~p.broken /\ p.eofSent = FALSE /\ SessionTypes(p) /\ StatusTypes(p) /\ p.side = "server"
      /\ p.closeSent = NoCode /\ p.closeRcvd = NoCode /\ p.rcvdThenSent = "unset" /\ p.parserExc = NoCode
  BY DEF Sound, Kept, StatusTypes, SessionTypes, Endpoints
<1>2. r \in Items /\ r.kind \in kinds
  BY DEF Responses, Items
<1> HIDE DEF kinds
<1>3. /\ a.side = p.side /\ a.current = p.current /\ a.expectCont = p.expectCont
      /\ a.handshakeExc = p.handshakeExc /\ a.ext = Accepted(r) /\ a.enc = p.enc /\ a.dec = p.dec
      /\ a.decCont = p.decCont /\ a.writes = <<>> /\ SameStatus(p, a)
  BY <1>1 DEF Shaped, StatusIs, SameStatus
<1> HIDE DEF a
<1>4. Session(b) = Session(a) /\ b.writes = <<r>> /\ SameStatus(p, b)
  BY <1>3, WriteIs, AppendTwo DEF SameStatus, StatusIs
<1> HIDE DEF b
<1>5. SessionTypes(b) /\ b.side = "server" /\ b.handshakeExc = p.handshakeExc
  BY <1>1, <1>3, <1>4 DEF SessionTypes, Session
<1>6. CASE r.status = 101
  <2> DEFINE c == Asserted(b, b.state = "CONNECTING")
  <2> DEFINE q == [c EXCEPT !.state = "OPEN"]
  <2>1. SendResponse(p, r) = q
    BY <1>6 DEF SendResponse, a, b
  <2>2. /\ Session(q) = Session(b) /\ q.writes = b.writes
        /\ StatusIs(q, "OPEN", "frames", NoCode, NoCode, "unset", FALSE, NoCode)
    BY <1>1, <1>4 DEF SameStatus, StatusIs, Session, Shaped, Asserted
  <2> HIDE DEF q
  <2>3. SessionTypes(q) /\ q.side = "server"
    BY <1>5, <2>2 DEF SessionTypes, Session
  <2>4. StatusTypes(q)
    <3>1. q.eofSent = FALSE
      BY <2>2 DEF StatusIs
    <3>2. q.eofSent \in BOOLEAN
      BY <3>1
    <3> QED
      BY <2>2, <3>2 DEF StatusTypes, StatusIs
  <2>5. Kept(q)
    BY <2>2 DEF Kept, StatusIs
  <2>6. Output(p, q, kinds)
    BY <1>1, <1>2, <1>4, <2>2, <2>3 DEF Output, Wrote, Emits, StatusIs
  <2> QED
    BY <2>1, <2>2, <2>3, <2>4, <2>5, <2>6 DEF Sound, StatusIs, kinds
<1>7. CASE r.status # 101
  <2> DEFINE c == [b EXCEPT !.handshakeExc = TRUE]
  <2> DEFINE d == SendEof(c)
  <2> DEFINE q == Discard(d)
  <2>1. SendResponse(p, r) = q
    BY <1>7 DEF SendResponse, a, b
  <2>2. /\ c.side = b.side /\ c.current = b.current /\ c.expectCont = b.expectCont
        /\ c.handshakeExc = TRUE /\ c.ext = b.ext /\ c.enc = b.enc /\ c.dec = b.dec
        /\ c.decCont = b.decCont /\ c.writes = b.writes /\ SameStatus(p, c)
    BY <1>4 DEF SameStatus, StatusIs, Shaped
  <2> HIDE DEF c
  <2>3. /\ Session(d) = Session(c) /\ d.writes = Append(c.writes, Eof)
        /\ StatusIs(d, "CONNECTING", "frames", NoCode, NoCode, "unset", TRUE, NoCode)
    BY <1>1, <2>2, SendEofIs DEF SameStatus, StatusIs
  <2>4. d.writes = <<r, Eof>>
    BY <1>4, <2>2, <2>3, AppendTwo
  <2> HIDE DEF d
  <2>5. (d.side = "server" \/ d.state = "CONNECTING") <=> d.eofSent
    BY <2>3 DEF StatusIs
  <2>6. /\ q.writes = d.writes /\ Session(q) = Session(d)
        /\ StatusIs(q, "CONNECTING", "discard", NoCode, NoCode, "unset", TRUE, NoCode)
    BY <2>3, <2>5, DiscardIs DEF StatusIs
  <2> HIDE DEF q
  <2>7. SessionTypes(q) /\ q.side = "server"
    <3>1. Session(q) = Session(c)
      BY <2>3, <2>6
    <3> QED
      BY <1>5, <2>2, <3>1 DEF SessionTypes, Session
  <2>8. StatusTypes(q)
    <3>1. q.eofSent = TRUE
      BY <2>6 DEF StatusIs
    <3>2. q.eofSent \in BOOLEAN
      BY <3>1
    <3> QED
      BY <2>6, <3>2 DEF StatusTypes, StatusIs
  <2>9. Kept(q)
    BY <2>6 DEF Kept, StatusIs, OkCodes, NoCode, NoStatus
  <2>10. Output(p, q, kinds)
    BY <1>1, <1>2, <2>4, <2>6, <2>7 DEF Output, Wrote, Emits, StatusIs
  <2> QED
    BY <2>1, <2>6, <2>7, <2>8, <2>9, <2>10 DEF Sound, StatusIs, kinds
<1> QED
  BY <1>6, <1>7

LEMMA ReceiveResponseIsSound ==
  ASSUME NEW p, Sound(p), p.writes = <<>>, p.parser = "http", p.side = "client", NEW cli, NEW r,
         ClientAccepted(cli, r) \in Exts \/ ResponseRefused(cli, r), NEW kinds
  PROVE  Sound(ReceiveResponse(p, cli, r)) /\ Output(p, ReceiveResponse(p, cli, r), kinds)
<1>1. /\ Shaped(p) /\ ~p.broken /\ p.eofSent = FALSE /\ SessionTypes(p) /\ StatusTypes(p)
      /\ p.closeSent = NoCode /\ p.closeRcvd = NoCode /\ p.rcvdThenSent = "unset" /\ p.parserExc = NoCode
      /\ p.state = "CONNECTING"
  BY DEF Sound, Kept, StatusTypes
<1>2. CASE ResponseRefused(cli, r)
  <2>1. ReceiveResponse(p, cli, r) = HandshakeFails(p)
    BY <1>2 DEF ReceiveResponse
  <2> QED
    BY <1>1, <2>1, HandshakeFailsIs
<1>3. CASE ~ResponseRefused(cli, r)
  <2> DEFINE c == Asserted(p, p.state = "CONNECTING")
  <2> DEFINE q == [c EXCEPT !.ext = ClientAccepted(cli, r), !.sub = r.sub, !.parser = "frames", !.state = "OPEN"]
  <2>1. ReceiveResponse(p, cli, r) = q
    BY <1>3 DEF ReceiveResponse
  <2>2. /\ c.side = p.side /\ c.current = p.current /\ c.expectCont = p.expectCont
        /\ c.handshakeExc = p.handshakeExc /\ c.ext = p.ext /\ c.enc = p.enc /\ c.dec = p.dec
        /\ c.decCont = p.decCont /\ c.writes = p.writes /\ SameStatus(p, c)
    BY <1>1 DEF SameStatus, StatusIs, Shaped, Asserted
  <2> HIDE DEF c
  <2>3. /\ q.side = c.side /\ q.current = c.current /\ q.expectCont = c.expectCont
        /\ q.handshakeExc = c.handshakeExc /\ q.ext = ClientAccepted(cli, r) /\ q.enc = c.enc /\ q.dec = c.dec
        /\ q.decCont = c.decCont /\ q.writes = c.writes
        /\ StatusIs(q, "OPEN", "frames", NoCode, NoCode, "unset", FALSE, NoCode)
    BY <1>1, <2>2 DEF SameStatus, StatusIs, Shaped
  <2> HIDE DEF q
  <2>4. SessionTypes(q) /\ q.side = "client"
    BY <1>1, <1>3, <2>2, <2>3 DEF SessionTypes
  <2>5. StatusTypes(q)
    <3>1. q.eofSent = FALSE
      BY <2>3 DEF StatusIs
    <3>2. q.eofSent \in BOOLEAN
      BY <3>1
    <3> QED
      BY <2>3, <3>2 DEF StatusTypes, StatusIs
  <2>6. Kept(q)
    BY <2>3 DEF Kept, StatusIs
  <2>7. Output(p, q, kinds)
    BY <1>1, <2>2, <2>3, <2>4 DEF Output, Wrote, Mute, StatusIs
  <2> QED
    BY <2>1, <2>3, <2>4, <2>5, <2>6, <2>7 DEF Sound, StatusIs
<1> QED
  BY <1>2, <1>3

\* A data frame of the application.
LEMMA SendDataIsSound ==
  ASSUME NEW p, Sound(p), p.writes = <<>>, p.state = "OPEN", NEW first \in BOOLEAN, NEW fin \in BOOLEAN,
         NEW size \in Nat
  PROVE  Sound(SendData(p, first, fin, size)) /\ Output(p, SendData(p, first, fin, size), {"text", "cont"})
<1> DEFINE kinds == {"text", "cont"}
<1> DEFINE fresh == first /\ p.ext.enabled /\ p.ext.localNct
<1> DEFINE ctx == IF fresh THEN 0 ELSE p.enc
<1> DEFINE kind == IF first THEN "text" ELSE "cont"
<1> DEFINE n == IF p.ext.enabled THEN ctx + 1 ELSE p.enc
<1> DEFINE a == IF p.ext.enabled THEN [p EXCEPT !.expectCont = ~fin, !.enc = ctx + 1]
                ELSE [p EXCEPT !.expectCont = ~fin]
<1> DEFINE f == IF p.ext.enabled THEN Frame(kind, fin, size, NoCode, first, ctx, p.ext.localBits)
                ELSE Frame(kind, fin, size, NoCode, FALSE, 0, 0)
<1> DEFINE q == Write(a, f)
<1>1. SendData(p, first, fin, size) = q
  BY DEF SendData
<1>2. /\ Shaped(p) /\ ~p.broken /\ p.eofSent = FALSE /\ SessionTypes(p)
  BY DEF Sound, Kept, StatusTypes
<1>3. f \in Items /\ f.kind \in kinds
  <2>1. ctx \in Nat /\ kind \in Frames /\ kind # "close"
    BY <1>2 DEF SessionTypes, Frames
  <2>2. p.ext.enabled => p.ext.localBits \in Nat
    <3>1. p.ext \in Exts
      BY <1>2 DEF SessionTypes
    <3>2. CASE p.ext = NoExt
      <4>1. NoExt.enabled = FALSE
        BY DEF NoExt
      <4>2. p.ext.enabled = FALSE
        BY <3>2, <4>1
      <4> QED
        BY <4>2
    <3>3. CASE p.ext # NoExt
      BY <3>1, <3>3 DEF Exts
    <3> QED
      BY <3>2, <3>3
  <2> HIDE DEF ctx
  <2> QED
    BY <2>1, <2>2 DEF Frame, FrameSet, Items
<1> HIDE DEF f, kinds
<1>4. n \in Nat
  BY <1>2 DEF SessionTypes
<1>5. /\ a.side = p.side /\ a.current = p.current /\ a.expectCont = ~fin /\ a.handshakeExc = p.handshakeExc
      /\ a.ext = p.ext /\ a.enc = n /\ a.dec = p.dec /\ a.decCont = p.decCont /\ a.writes = <<>>
      /\ SameStatus(p, a)
  <2>1. CASE p.ext.enabled
    <3> HIDE DEF ctx
    <3> QED
      BY <1>2, <2>1 DEF Shaped, SameStatus, StatusIs
  <2>2. CASE ~p.ext.enabled
    BY <1>2, <2>2 DEF Shaped, SameStatus, StatusIs
  <2> QED
    BY <2>1, <2>2
<1> HIDE DEF a, n
<1>6. q.writes = <<f>> /\ Session(q) = Session(a) /\ SameStatus(p, q)
  BY <1>5, WriteIs, AppendTwo DEF SameStatus, StatusIs
<1> HIDE DEF q
<1>7. SessionTypes(q) /\ q.side = p.side
  BY <1>2, <1>4, <1>5, <1>6 DEF SessionTypes, Session
<1>8. q.writes = <<>> \/ (~p.eofSent /\ \E g \in Items : g.kind \in kinds /\ q.writes = <<g>>)
  BY <1>2, <1>3, <1>6
<1>9. Sound(q) /\ Output(p, q, kinds)
  BY <1>6, <1>7, <1>8, StillSound
<1> QED
  BY <1>1, <1>9 DEF kinds

\* close() of the application.
LEMMA SendCloseIsSound ==
  ASSUME NEW p, Sound(p), p.writes = <<>>, p.state = "OPEN", NEW code \in FrameCodes, NEW kinds
  PROVE  Sound(SendClose(p, code)) /\ Output(p, SendClose(p, code), kinds)
<1> DEFINE a == Asserted(p, p.closeRcvd = NoCode)
<1> DEFINE q == [Write(a, Close(code)) EXCEPT !.closeSent = code, !.state = "CLOSING"]
<1>0. q = SendClose(p, code) /\ code # NoCode
  BY DEF SendClose, FrameCodes, NoCode, NoStatus
<1>1. /\ Shaped(p) /\ ~p.broken /\ p.eofSent = FALSE /\ SessionTypes(p) /\ StatusTypes(p) /\ p.parser = "frames"
      /\ p.closeSent = NoCode /\ p.closeRcvd = NoCode /\ p.rcvdThenSent = "unset" /\ p.parserExc = NoCode
  BY DEF Sound, Kept, StatusTypes
<1>2. Session(a) = Session(p) /\ a.writes = <<>> /\ SameStatus(p, a)
  BY <1>1 DEF Asserted, SameStatus, StatusIs, Shaped, Session
<1> HIDE DEF a
<1>3. /\ q.writes = Append(a.writes, Close(code)) /\ Session(q) = Session(a)
      /\ StatusIs(q, "CLOSING", "frames", NoCode, code, "unset", FALSE, NoCode)
  BY <1>1, <1>2 DEF SameStatus, StatusIs, Shaped, Session, Write
<1> HIDE DEF q
<1>4. SessionTypes(q) /\ q.side = p.side
  BY <1>1, <1>2, <1>3 DEF SessionTypes, Session
<1>5. StatusTypes(q)
  <2>1. q.eofSent = FALSE
    BY <1>3 DEF StatusIs
  <2>2. q.eofSent \in BOOLEAN
    BY <2>1
  <2> QED
    BY <1>3, <2>2 DEF StatusTypes, StatusIs
<1>6. Kept(q)
  BY <1>0, <1>3 DEF Kept, StatusIs
<1>7. Output(p, q, kinds)
  <2>1. q.writes = <<Close(code)>>
    BY <1>2, <1>3, AppendTwo
  <2> QED
    BY <1>1, <1>3, <1>4, <2>1 DEF Output, Wrote, Emits, StatusIs
<1> QED
  BY <1>0, <1>3, <1>4, <1>5, <1>6, <1>7 DEF Sound, StatusIs

\* fail() for a keepalive timeout.
LEMMA FailIsSound ==
  ASSUME NEW p, Sound(p), p.writes = <<>>, p.state = "OPEN", NEW code \in OwnCodes, NEW kinds
  PROVE  Sound(Fail(p, code)) /\ Output(p, Fail(p, code), kinds)
<1> DEFINE q == Fail(p, code)
<1>1. /\ Shaped(p) /\ ~p.broken /\ p.eofSent = FALSE /\ p.side \in Endpoints /\ p.parser = "frames"
      /\ p.side = "client" => p.state # "CONNECTING"
  BY DEF Sound, Kept, SessionTypes, StatusTypes
<1>2. Failed(p, q, code, p.parserExc)
  BY <1>1, FailIs
<1> HIDE DEF q
<1>3. Sound(q) /\ Output(p, q, kinds)
  BY <1>1, <1>2, FailedIsSound DEF OwnCodes
<1> QED
  BY <1>3 DEF q

\* data_to_send() empties the writes and changes nothing else.
LEMMA ResetIsSound ==
  ASSUME NEW q, Sound(q)
  PROVE  LET r == [q EXCEPT !.writes = <<>>]
         IN  /\ Sound(r) /\ r.writes = <<>> /\ Session(r) = Session(q) /\ SameStatus(q, r)
<1> DEFINE r == [q EXCEPT !.writes = <<>>]
<1>1. Shaped(q) /\ ~q.broken /\ SessionTypes(q)
  BY DEF Sound, Kept
<1>2. r.writes = <<>> /\ Session(r) = Session(q) /\ SameStatus(q, r)
  BY <1>1 DEF Shaped, SameStatus, StatusIs, Session
<1> HIDE DEF r
<1>3. SessionTypes(r) /\ r.side = q.side
  BY <1>1, <1>2 DEF SessionTypes, Session
<1>4. Sound(r)
  BY <1>2, <1>3, SameStatusIsSound
<1> QED
  BY <1>2, <1>4 DEF r

--------------------------------------------------------------------------------
(* The two streams.  Counted(w, a, b): the data frames of w are among those *)
(* that a reader who has heard a of them has not heard yet, out of b.       *)

Stream(w) == w \in Seq(Items) /\ \A i \in 1..Len(w) : i < Len(w) => w[i] # Eof
Ended(w) == \E i \in 1..Len(w) : w[i] = Eof

Weight(f) == IF f.kind \in {"text", "cont"} THEN 1 ELSE 0

Counted(w, a, b) ==
  \E st \in [1..Len(w) + 1 -> 0..b] :
    st[1] = a /\ \A i \in 1..Len(w) : st[i] + Weight(w[i]) <= st[i + 1]

Idle(e) ==
  /\ Shaped(ep[e]) /\ SessionTypes(ep[e]) /\ ep[e].state = "CONNECTING" /\ ep[e].parser = "http"
  /\ ep[e].closeRcvd = NoCode /\ ep[e].closeSent = NoCode /\ ep[e].rcvdThenSent = "unset"
  /\ ep[e].eofSent \in BOOLEAN /\ ep[e].parserExc = NoCode /\ ~ep[e].broken

\* What holds of an endpoint and of what its peer has sent it.
EndpointInv(e) ==
  /\ ep[e].side = e /\ ep[e].writes = <<>>
  /\ IF Native(e) THEN Sound(ep[e]) ELSE Idle(e) /\ wire[e] = <<>>
  /\ closes[e] = IF ep[e].closeSent = NoCode THEN <<>> ELSE <<ep[e].closeSent>>

StreamInv(e) ==
  /\ Stream(wire[e])
  /\ Ended(wire[e]) => ep[e].state # "CLOSED" /\ (cut = {} => ep[Peer(e)].eofSent)
  /\ cut = {} /\ ep[e].state = "CLOSED" => ep[Peer(e)].eofSent
  /\ Counted(wire[e], heard[e], said[Peer(e)])

GlobalInv ==
  /\ cfg \in Configs
  /\ DOMAIN ep = Endpoints /\ DOMAIN wire = Endpoints /\ DOMAIN closes = Endpoints
  /\ request \in {NoRequest} \cup Requests
  /\ said \in [Endpoints -> Nat] /\ heard \in [Endpoints -> Nat] /\ message \in [Endpoints -> Nat]
  /\ cut \subseteq Endpoints /\ over \subseteq Endpoints

EndpointsInv == GlobalInv /\ \A e \in Endpoints : EndpointInv(e) /\ StreamInv(e)

--------------------------------------------------------------------------------
(* Lemmas about the streams.                                               *)

LEMMA WeightIs == \A f : Weight(f) \in {0, 1}
BY DEF Weight

LEMMA CountedEmpty == \A a, b \in Nat : a <= b => Counted(<<>>, a, b)
<1> SUFFICES ASSUME NEW a \in Nat, NEW b \in Nat, a <= b PROVE Counted(<<>>, a, b)
  OBVIOUS
<1> DEFINE st == [i \in 1..1 |-> a]
<1>1. st \in [1..Len(<<>>) + 1 -> 0..b] /\ st[1] = a /\ \A i \in 1..Len(<<>>) : st[i] + Weight(<<>>[i]) <= st[i + 1]
  OBVIOUS
<1> QED
  BY <1>1 DEF Counted

LEMMA CountedBounds ==
  ASSUME NEW w \in Seq(Items), NEW a, NEW b \in Nat, Counted(w, a, b)
  PROVE  a \in Nat /\ a <= b
BY DEF Counted

\* Reading an item, whether the application hears of it or not.
LEMMA CountedTail ==
  ASSUME NEW w \in Seq(Items), w # <<>>, NEW a, NEW b \in Nat, Counted(w, a, b), NEW c \in 0..Weight(Head(w))
  PROVE  Counted(Tail(w), a + c, b)
<1>1. PICK st \in [1..Len(w) + 1 -> 0..b] :
        st[1] = a /\ \A i \in 1..Len(w) : st[i] + Weight(w[i]) <= st[i + 1]
  BY DEF Counted
<1>2. /\ Len(w) \in Nat /\ Len(w) >= 1 /\ Head(w) = w[1] /\ Tail(w) \in Seq(Items) /\ Len(Tail(w)) = Len(w) - 1
      /\ \A i \in 1..Len(Tail(w)) : Tail(w)[i] = w[i + 1]
  OBVIOUS
<1>3. Weight(w[1]) \in {0, 1} /\ a \in 0..b /\ st[2] \in 0..b /\ a + Weight(w[1]) <= st[2]
  BY <1>1, <1>2, WeightIs
<1> DEFINE t == [i \in 1..Len(w) |-> IF i = 1 THEN a + c ELSE st[i + 1]]
<1>4. t \in [1..Len(Tail(w)) + 1 -> 0..b]
  <2>1. a + c \in 0..b
    BY <1>2, <1>3
  <2>2. \A i \in 1..Len(w) : st[i + 1] \in 0..b
    BY <1>1, <1>2
  <2>3. 1..Len(w) = 1..Len(Tail(w)) + 1
    BY <1>2
  <2> QED
    BY <2>1, <2>2, <2>3
<1>5. ASSUME NEW i \in 1..Len(Tail(w))
      PROVE  t[i] + Weight(Tail(w)[i]) <= t[i + 1]
  <2>1. /\ i \in 1..Len(w) /\ i + 1 \in 1..Len(w) /\ i + 1 # 1 /\ i + 2 \in 1..Len(w) + 1
        /\ Tail(w)[i] = w[i + 1] /\ st[i + 1] \in 0..b /\ st[i + 2] \in 0..b
        /\ st[i + 1] + Weight(w[i + 1]) <= st[(i + 1) + 1] /\ (i + 1) + 1 = i + 2
    <3>1. /\ i \in 1..Len(w) /\ i + 1 \in 1..Len(w) /\ i + 1 # 1 /\ i + 2 \in 1..Len(w) + 1
          /\ i + 1 \in 1..Len(w) + 1 /\ (i + 1) + 1 = i + 2 /\ Tail(w)[i] = w[i + 1]
      BY <1>2
    <3>2. st[i + 1] \in 0..b /\ st[i + 2] \in 0..b
      BY <1>1, <3>1
    <3>3. st[i + 1] + Weight(w[i + 1]) <= st[(i + 1) + 1]
      BY <1>1, <3>1
    <3> QED
      BY <3>1, <3>2, <3>3
  <2>2. t[i + 1] = st[i + 2]
    BY <2>1
  <2>3. t[i] <= st[i + 1] /\ t[i] \in Int
    BY <1>2, <1>3, <2>1
  <2>4. Weight(w[i + 1]) \in Int
    BY WeightIs
  <2> HIDE DEF t
  <2> QED
    BY <2>1, <2>2, <2>3, <2>4
<1>6. t[1] = a + c
  BY <1>2
<1> HIDE DEF t
<1> QED
  BY <1>4, <1>5, <1>6 DEF Counted

LEMMA CountedAppend ==
  ASSUME NEW w \in Seq(Items), NEW f \in Items, NEW a, NEW b \in Nat, Counted(w, a, b),
         NEW d \in Nat, Weight(f) <= d
  PROVE  Counted(Append(w, f), a, b + d)
<1>1. PICK st \in [1..Len(w) + 1 -> 0..b] :
        st[1] = a /\ \A i \in 1..Len(w) : st[i] + Weight(w[i]) <= st[i + 1]
  BY DEF Counted
<1> DEFINE v == Append(w, f)
<1>2. /\ Len(w) \in Nat /\ v \in Seq(Items) /\ Len(v) = Len(w) + 1 /\ v[Len(w) + 1] = f
      /\ \A i \in 1..Len(w) : v[i] = w[i]
  OBVIOUS
<1> HIDE DEF v
<1> DEFINE t == [i \in 1..Len(v) + 1 |-> IF i = Len(v) + 1 THEN b + d ELSE st[i]]
<1>3. \A i \in 1..Len(v) : st[i] \in 0..b /\ t[i] = st[i]
  <2>1. \A i \in 1..Len(v) : i \in 1..Len(w) + 1 /\ i \in 1..Len(v) + 1 /\ i # Len(v) + 1
    BY <1>2
  <2> QED
    BY <1>1, <2>1
<1>4. t \in [1..Len(v) + 1 -> 0..b + d]
  <2>1. b + d \in 0..b + d /\ \A i \in 0..b : i \in 0..b + d
    OBVIOUS
  <2>2. \A i \in 1..Len(v) + 1 : i # Len(v) + 1 => i \in 1..Len(v)
    BY <1>2
  <2> QED
    BY <1>3, <2>1, <2>2
<1>5. ASSUME NEW i \in 1..Len(v)
      PROVE  t[i] + Weight(v[i]) <= t[i + 1]
  <2>1. CASE i = Len(v)
    <3>1. v[i] = f /\ i \in Nat /\ i + 1 \in 1..Len(v) + 1 /\ i + 1 = Len(v) + 1
      BY <1>2, <2>1
    <3>2. t[i] = st[i] /\ st[i] \in 0..b
      BY <1>3
    <3>3. t[i + 1] = b + d
      BY <3>1
    <3>4. Weight(f) \in Int
      BY WeightIs
    <3> HIDE DEF t
    <3> QED
      BY <3>1, <3>2, <3>3, <3>4
  <2>2. CASE i # Len(v)
    <3>1. i \in 1..Len(w) /\ i + 1 \in 1..Len(v) /\ v[i] = w[i]
      BY <1>2, <2>2
    <3>2. t[i] = st[i] /\ t[i + 1] = st[i + 1]
      BY <1>3, <3>1
    <3> HIDE DEF t
    <3> QED
      BY <1>1, <3>1, <3>2
  <2> QED
    BY <2>1, <2>2
<1>6. t[1] = a
  BY <1>1, <1>2, <1>3
<1> HIDE DEF t
<1> QED
  BY <1>4, <1>5, <1>6 DEF Counted, v

LEMMA CountedPrefix ==
  ASSUME NEW w \in Seq(Items), NEW n \in 0..Len(w), NEW a, NEW b \in Nat, Counted(w, a, b)
  PROVE  Counted(SubSeq(w, 1, n), a, b)
<1>1. PICK st \in [1..Len(w) + 1 -> 0..b] :
        st[1] = a /\ \A i \in 1..Len(w) : st[i] + Weight(w[i]) <= st[i + 1]
  BY DEF Counted
<1> DEFINE v == SubSeq(w, 1, n)
<1>2. v \in Seq(Items) /\ Len(v) = n /\ \A i \in 1..n : v[i] = w[i]
  OBVIOUS
<1> HIDE DEF v
<1> DEFINE t == [i \in 1..Len(v) + 1 |-> st[i]]
<1>3. t \in [1..Len(v) + 1 -> 0..b] /\ t[1] = a
  <2>1. \A i \in 1..Len(v) + 1 : i \in 1..Len(w) + 1 /\ st[i] \in 0..b
    BY <1>1, <1>2
  <2>2. 1 \in 1..Len(v) + 1 /\ st[1] = a
    BY <1>1, <1>2
  <2> QED
    BY <2>1, <2>2
<1>4. \A i \in 1..Len(v) : t[i] + Weight(v[i]) <= t[i + 1]
  <2>1. \A i \in 1..Len(v) : i \in 1..Len(w) /\ t[i] = st[i] /\ t[i + 1] = st[i + 1] /\ v[i] = w[i]
    BY <1>2
  <2> QED
    BY <1>1, <2>1
<1> HIDE DEF t
<1> QED
  BY <1>3, <1>4 DEF Counted, v

LEMMA StreamAppend ==
  ASSUME NEW w, Stream(w), ~Ended(w), NEW f \in Items
  PROVE  /\ Stream(Append(w, f)) /\ (Ended(Append(w, f)) <=> f = Eof)
         /\ Append(w, f) # <<>>
<1>1. w \in Seq(Items) /\ Len(w) \in Nat /\ Len(Append(w, f)) = Len(w) + 1 /\ Append(w, f) \in Seq(Items)
      /\ Append(w, f)[Len(w) + 1] = f /\ Append(w, f) # <<>>
      /\ \A i \in 1..Len(w) : Append(w, f)[i] = w[i] /\ w[i] # Eof
  BY DEF Stream, Ended
<1> DEFINE v == Append(w, f)
<1> HIDE DEF v
<1>2. \A i \in 1..Len(v) : i = Len(w) + 1 \/ i \in 1..Len(w)
  BY <1>1 DEF v
<1>3. Len(w) + 1 \in 1..Len(v)
  BY <1>1 DEF v
<1>4. Stream(v)
  BY <1>1, <1>2 DEF Stream, v
<1>5. Ended(v) <=> f = Eof
  BY <1>1, <1>2, <1>3 DEF Ended, v
<1> QED
  BY <1>1, <1>4, <1>5 DEF v

LEMMA StreamTail ==
  ASSUME NEW w, Stream(w), w # <<>>
  PROVE  /\ Stream(Tail(w)) /\ (Ended(Tail(w)) => Ended(w))
         /\ Head(w) \in Items /\ (Head(w) = Eof => Tail(w) = <<>> /\ Ended(w))
<1>1. /\ w \in Seq(Items) /\ Len(w) \in Nat /\ Len(w) >= 1 /\ Head(w) = w[1] /\ Tail(w) \in Seq(Items)
      /\ Len(Tail(w)) = Len(w) - 1 /\ \A i \in 1..Len(Tail(w)) : Tail(w)[i] = w[i + 1]
      /\ w[1] \in Items
  BY DEF Stream
<1>2. \A i \in 1..Len(Tail(w)) : i + 1 \in 1..Len(w) /\ (i < Len(Tail(w)) => i + 1 < Len(w))
  BY <1>1
<1>3. Stream(Tail(w))
  BY <1>1, <1>2 DEF Stream
<1>4. Ended(Tail(w)) => Ended(w)
  BY <1>1, <1>2 DEF Ended
<1>5. Head(w) = Eof => Tail(w) = <<>> /\ Ended(w)
  <2>1. Head(w) = Eof => ~(1 < Len(w))
    BY <1>1 DEF Stream
  <2>2. \A s \in Seq(Items) : Len(s) = 0 => s = <<>>
    OBVIOUS
  <2>3. Len(Tail(w)) = 0 => Tail(w) = <<>>
    BY <1>1, <2>2
  <2> QED
    BY <1>1, <2>1, <2>3 DEF Ended
<1> QED
  BY <1>1, <1>3, <1>4, <1>5

\* What the writes of a method add to a stream that is not ended yet.
LEMMA WritesAre ==
  ASSUME NEW p, NEW q, NEW kinds, "eof" \notin kinds, p.eofSent \in BOOLEAN, q.eofSent \in BOOLEAN,
         Wrote(p, q, kinds)
  PROVE  \/ /\ q.writes = <<>> /\ q.closeSent = p.closeSent
         \/ /\ q.writes = <<Eof>> /\ q.closeSent = p.closeSent /\ ~p.eofSent /\ q.eofSent
         \/ \E f \in Items :
              /\ f.kind \in kinds \/ f.kind = "close"
              /\ f # Eof /\ ~p.eofSent
              /\ q.writes = <<f>> \/ (q.writes = <<f, Eof>> /\ q.eofSent)
              /\ \/ f.kind \in kinds /\ q.closeSent = p.closeSent
                 \/ p.closeSent = NoCode /\ q.closeSent \in FrameCodes /\ f = Close(q.closeSent)
<1>1. p.eofSent => q.eofSent /\ q.writes = <<>>
  BY DEF Wrote
<1>2. CASE Mute(p, q) /\ q.closeSent = p.closeSent
  <2>1. CASE q.eofSent = p.eofSent
    BY <1>2, <2>1 DEF Mute
  <2>2. CASE q.eofSent # p.eofSent
    BY <1>1, <1>2, <2>2 DEF Mute
  <2> QED
    BY <2>1, <2>2
<1>3. ASSUME NEW f \in Items, Emits(p, q, f), f.kind \in kinds \/ f.kind = "close",
             \/ f.kind \in kinds /\ q.closeSent = p.closeSent
             \/ p.closeSent = NoCode /\ q.closeSent \in FrameCodes /\ f = Close(q.closeSent)
      PROVE  /\ f # Eof /\ ~p.eofSent
             /\ q.writes = <<f>> \/ (q.writes = <<f, Eof>> /\ q.eofSent)
  <2>1. f # Eof
    BY <1>3, EofIsItem
  <2>2. <<f>> # <<>> /\ <<f, Eof>> # <<>>
    OBVIOUS
  <2>3. CASE q.eofSent = p.eofSent
    BY <1>1, <1>3, <2>1, <2>2, <2>3 DEF Emits
  <2>4. CASE q.eofSent # p.eofSent
    BY <1>1, <1>3, <2>1, <2>2, <2>4 DEF Emits
  <2> QED
    BY <2>3, <2>4
<1>4. CASE \E f \in Items : f.kind \in kinds /\ Emits(p, q, f) /\ q.closeSent = p.closeSent
  <2>1. PICK f \in Items : f.kind \in kinds /\ Emits(p, q, f) /\ q.closeSent = p.closeSent
    BY <1>4
  <2> QED
    BY <1>3, <2>1
<1>5. CASE p.closeSent = NoCode /\ q.closeSent \in FrameCodes /\ Emits(p, q, Close(q.closeSent))
  <2>1. Close(q.closeSent) \in Items /\ Close(q.closeSent).kind = "close"
    BY <1>5, FramesAreItems
  <2> QED
    BY <1>3, <1>5, <2>1
<1> QED
  BY <1>2, <1>4, <1>5 DEF Wrote

LEMMA StreamGrows ==
  ASSUME NEW p, NEW q, NEW kinds, "eof" \notin kinds, p.eofSent \in BOOLEAN, q.eofSent \in BOOLEAN,
         Wrote(p, q, kinds), NEW w, Stream(w), Ended(w) => p.eofSent,
         NEW a, NEW b \in Nat, Counted(w, a, b), NEW d \in {0, 1}, kinds \cap {"text", "cont"} # {} => d = 1
  PROVE  /\ Stream(w \o q.writes) /\ (Ended(w \o q.writes) => q.eofSent)
         /\ Ended(w \o q.writes) => Ended(w) \/ ~p.eofSent
         /\ Counted(w \o q.writes, a, b + d)
<1>0. w \in Seq(Items)
  BY DEF Stream
<1>1. CASE q.writes = <<>>
  <2>1. w \o q.writes = w
    BY <1>0, <1>1
  <2>2. Counted(w, a, b + d)
    <3>1. \A i \in 0..b : i \in 0..b + d
      OBVIOUS
    <3> QED
      BY <3>1 DEF Counted
  <2>3. p.eofSent => q.eofSent
    BY DEF Wrote
  <2> QED
    BY <2>1, <2>2, <2>3
<1>2. CASE q.writes = <<Eof>> /\ ~p.eofSent /\ q.eofSent
  <2>1. w \o q.writes = Append(w, Eof)
    BY <1>0, <1>2
  <2>2. Weight(Eof) = 0
    BY EofIsItem DEF Weight
  <2>3. Counted(Append(w, Eof), a, b + d)
    BY <1>0, <2>2, EofIsItem, CountedAppend
  <2>4. Stream(Append(w, Eof))
    BY <1>2, EofIsItem, StreamAppend
  <2> QED
    BY <1>2, <2>1, <2>3, <2>4
<1>3. ASSUME NEW f \in Items, f.kind \in kinds \/ f.kind = "close", f # Eof, ~p.eofSent,
             q.writes = <<f>> \/ (q.writes = <<f, Eof>> /\ q.eofSent)
      PROVE  /\ Stream(w \o q.writes) /\ (Ended(w \o q.writes) => q.eofSent)
             /\ Counted(w \o q.writes, a, b + d)
  <2> DEFINE v == Append(w, f)
  <2>1. Weight(f) <= d
    BY <1>3 DEF Weight
  <2>2. Counted(v, a, b + d)
    BY <1>0, <2>1, CountedAppend
  <2>3. Stream(v) /\ ~Ended(v)
    BY <1>3, StreamAppend
  <2>4. CASE q.writes = <<f>>
    <3>1. w \o q.writes = v
      BY <1>0, <2>4
    <3> QED
      BY <2>2, <2>3, <3>1
  <2>5. CASE q.writes = <<f, Eof>> /\ q.eofSent
    <3>1. w \o q.writes = Append(v, Eof)
      BY <1>0, <2>5, EofIsItem
    <3> HIDE DEF v
    <3>2. Weight(Eof) <= 0 /\ b + d \in Nat
      BY EofIsItem DEF Weight
    <3>3. Counted(Append(v, Eof), a, b + d)
      <4>1. Counted(Append(v, Eof), a, (b + d) + 0)
        BY <2>2, <2>3, <3>2, EofIsItem, CountedAppend DEF Stream
      <4>2. (b + d) + 0 = b + d
        BY <3>2
      <4> QED
        BY <4>1, <4>2
    <3>4. Stream(Append(v, Eof))
      BY <2>3, EofIsItem, StreamAppend
    <3> QED
      BY <2>5, <3>1, <3>2, <3>3, <3>4
  <2> QED
    BY <1>3, <2>4, <2>5
<1> QED
  BY <1>1, <1>2, <1>3, WritesAre

LEMMA NoCloseCodes ==
  ASSUME NEW w, \A i \in DOMAIN w : w[i].kind # "close"
  PROVE  CloseCodes(w) = <<>>
<1> DEFINE frames == {i \in DOMAIN w : w[i].kind = "close"}
<1> DEFINE Nth(n) == CHOOSE i \in frames : Cardinality({j \in frames : j <= i}) = n
<1> DEFINE Code(n) == w[Nth(n)].code
<1>1. CloseCodes(w) = [n \in 1..Cardinality(frames) |-> Code(n)]
  BY DEF CloseCodes
<1>2. Cardinality(frames) = 0
  BY FS_EmptySet
<1> HIDE DEF frames, Code
<1>3. [n \in 1..0 |-> Code(n)] = <<>>
  OBVIOUS
<1> QED
  BY <1>1, <1>2, <1>3

LEMMA OneCloseCode ==
  ASSUME NEW w, 1 \in DOMAIN w, w[1].kind = "close", \A i \in DOMAIN w : i # 1 => w[i].kind # "close"
  PROVE  CloseCodes(w) = <<w[1].code>>
<1> DEFINE frames == {i \in DOMAIN w : w[i].kind = "close"}
<1> DEFINE Nth(n) == CHOOSE i \in frames : Cardinality({j \in frames : j <= i}) = n
<1> DEFINE Code(n) == w[Nth(n)].code
<1>1. CloseCodes(w) = [n \in 1..Cardinality(frames) |-> Code(n)]
  BY DEF CloseCodes
<1>2. frames = {1} /\ Cardinality(frames) = 1
  <2>1. frames = {1}
    OBVIOUS
  <2> QED
    BY <2>1, FS_Singleton
<1>3. Nth(1) = 1
  <2>1. {j \in frames : j <= 1} = {1} /\ Cardinality({1}) = 1
    BY <1>2, FS_Singleton
  <2>2. \E i \in frames : Cardinality({j \in frames : j <= i}) = 1
    BY <1>2, <2>1
  <2> DEFINE k == Nth(1)
  <2>3. k \in frames
    BY <2>2
  <2> QED
    BY <1>2, <2>3
<1>4. Code(1) = w[1].code
  BY <1>3
<1> HIDE DEF frames, Code
<1>5. [n \in 1..1 |-> Code(n)] = <<Code(1)>>
  OBVIOUS
<1> QED
  BY <1>1, <1>2, <1>4, <1>5

LEMMA ClosesGrow ==
  ASSUME NEW p, NEW q, NEW kinds, "eof" \notin kinds, "close" \notin kinds,
         p.eofSent \in BOOLEAN, q.eofSent \in BOOLEAN, Wrote(p, q, kinds), NEW c,
         c = IF p.closeSent = NoCode THEN <<>> ELSE <<p.closeSent>>
  PROVE  c \o CloseCodes(q.writes) = IF q.closeSent = NoCode THEN <<>> ELSE <<q.closeSent>>
<1>0. Eof.kind = "eof" /\ <<>> \o <<>> = <<>>
  BY EofIsItem
<1>1. ASSUME q.closeSent = p.closeSent, CloseCodes(q.writes) = <<>>
      PROVE  c \o CloseCodes(q.writes) = IF q.closeSent = NoCode THEN <<>> ELSE <<q.closeSent>>
  <2>1. <<p.closeSent>> \o <<>> = <<p.closeSent>>
    OBVIOUS
  <2> QED
    BY <1>0, <1>1, <2>1
<1>2. CASE q.writes = <<>> /\ q.closeSent = p.closeSent
  <2>1. CloseCodes(q.writes) = <<>>
    BY <1>2, NoCloseCodes
  <2> QED
    BY <1>1, <1>2, <2>1
<1>3. CASE q.writes = <<Eof>> /\ q.closeSent = p.closeSent
  <2>1. \A i \in DOMAIN q.writes : q.writes[i] = Eof
    BY <1>3
  <2>2. CloseCodes(q.writes) = <<>>
    BY <1>0, <2>1, NoCloseCodes
  <2> QED
    BY <1>1, <1>3, <2>2
<1>4. ASSUME NEW f \in Items, q.writes = <<f>> \/ q.writes = <<f, Eof>>,
             \/ f.kind \in kinds /\ q.closeSent = p.closeSent
             \/ p.closeSent = NoCode /\ q.closeSent \in FrameCodes /\ f = Close(q.closeSent)
      PROVE  c \o CloseCodes(q.writes) = IF q.closeSent = NoCode THEN <<>> ELSE <<q.closeSent>>
  <2>1. /\ 1 \in DOMAIN q.writes /\ q.writes[1] = f
        /\ \A i \in DOMAIN q.writes : i # 1 => q.writes[i] = Eof
    <3>1. CASE q.writes = <<f>>
      BY <3>1
    <3>2. CASE q.writes = <<f, Eof>>
      BY <3>2
    <3> QED
      BY <1>4, <3>1, <3>2
  <2>2. CASE f.kind \in kinds /\ q.closeSent = p.closeSent
    <3>1. CloseCodes(q.writes) = <<>>
      <4>1. f.kind # "close"
        BY <2>2
      <4>2. \A i \in DOMAIN q.writes : q.writes[i].kind # "close"
        BY <1>0, <2>1, <4>1
      <4> QED
        BY <4>2, NoCloseCodes
    <3> QED
      BY <1>1, <2>2, <3>1
  <2>3. CASE p.closeSent = NoCode /\ q.closeSent \in FrameCodes /\ f = Close(q.closeSent)
    <3>1. f.kind = "close" /\ f.code = q.closeSent
      BY <2>3, FramesAreItems
    <3>2. CloseCodes(q.writes) = <<q.closeSent>>
      <4>1. \A i \in DOMAIN q.writes : i # 1 => q.writes[i].kind # "close"
        BY <1>0, <2>1
      <4> QED
        BY <2>1, <3>1, <4>1, OneCloseCode
    <3>3. c = <<>> /\ q.closeSent # NoCode
      BY <2>3 DEF FrameCodes, NoCode, NoStatus
    <3>4. <<>> \o <<q.closeSent>> = <<q.closeSent>>
      OBVIOUS
    <3> QED
      BY <3>2, <3>3, <3>4
  <2> QED
    BY <1>4, <2>2, <2>3
<1> QED
  BY <1>2, <1>3, <1>4, WritesAre

LEMMA CountedMore ==
  ASSUME NEW w, NEW a, NEW b \in Nat, Counted(w, a, b), NEW d \in Nat
  PROVE  Counted(w, a, b + d)
<1>1. \A i \in 0..b : i \in 0..b + d
  OBVIOUS
<1> QED
  BY <1>1 DEF Counted

LEMMA PeerIs ==
  ASSUME NEW e \in Endpoints
  PROVE  Peer(e) \in Endpoints /\ Peer(e) # e /\ Peer(Peer(e)) = e /\ \A x \in Endpoints : x = e \/ x = Peer(e)
BY DEF Peer, Endpoints

\* A step of e that leaves `rest' in its reader and q in its protocol.
LEMMA BecomeKeeps ==
  ASSUME EndpointsInv, NEW e \in Endpoints, Native(e), NEW q, Sound(q),
         NEW kinds, "eof" \notin kinds, "close" \notin kinds, Wrote(ep[e], q, kinds),
         NEW rest, Stream(rest), Ended(rest) => Ended(wire[e]) /\ q.state # "CLOSED",
         q.state = "CLOSED" => ep[e].state = "CLOSED" \/ Ended(wire[e]),
         Become(e, q, rest), UNCHANGED <<cfg, cut>>, request' \in {NoRequest} \cup Requests,
         NEW d \in {0, 1}, kinds \cap {"text", "cont"} # {} => d = 1,
         said' \in [Endpoints -> Nat], said'[Peer(e)] = said[Peer(e)], said'[e] = said[e] + d,
         heard' \in [Endpoints -> Nat], heard'[Peer(e)] = heard[Peer(e)],
         Counted(rest, heard'[e], said[Peer(e)]),
         message' \in [Endpoints -> Nat], over' \subseteq Endpoints
  PROVE  EndpointsInv'
<1> DEFINE u == Peer(e)
<1> DEFINE p == ep[e]
<1> DEFINE r == [q EXCEPT !.writes = <<>>]
<1> DEFINE w == IF cut = {} /\ Native(u) THEN wire[u] \o q.writes ELSE wire[u]
<1> DEFINE c == closes[e] \o CloseCodes(q.writes)
<1>1. u \in Endpoints /\ u # e /\ Peer(u) = e /\ Endpoints = {e, u}
  BY PeerIs
<1>2. GlobalInv /\ EndpointInv(e) /\ StreamInv(e) /\ EndpointInv(u) /\ StreamInv(u)
  BY <1>1 DEF EndpointsInv
<1>3. /\ ep' = [ep EXCEPT ![e] = r]
      /\ wire' = [wire EXCEPT ![e] = rest, ![u] = IF cut = {} /\ Native(u) THEN @ \o q.writes ELSE @]
      /\ closes' = [closes EXCEPT ![e] = c]
  <2>1. \E next \in {q} :
          /\ ep' = [ep EXCEPT ![e] = [next EXCEPT !.writes = <<>>]]
          /\ wire' = [wire EXCEPT ![e] = rest,
                                  ![Peer(e)] = IF cut = {} /\ Native(Peer(e)) THEN @ \o next.writes ELSE @]
          /\ closes' = [closes EXCEPT ![e] = @ \o CloseCodes(next.writes)]
    BY DEF Become
  <2> QED
    BY <2>1
<1> HIDE DEF u, r, c
<1>4. /\ ep'[e] = r /\ ep'[u] = ep[u] /\ wire'[e] = rest /\ wire'[u] = w
      /\ closes'[e] = c /\ closes'[u] = closes[u]
      /\ DOMAIN ep' = Endpoints /\ DOMAIN wire' = Endpoints /\ DOMAIN closes' = Endpoints
  BY <1>1, <1>2, <1>3 DEF GlobalInv
<1>5. GlobalInv'
  BY <1>2, <1>4 DEF GlobalInv
<1>6. /\ Sound(r) /\ r.writes = <<>> /\ r.side = p.side /\ r.state = q.state /\ r.closeSent = q.closeSent
      /\ r.eofSent = q.eofSent /\ p.eofSent \in BOOLEAN /\ q.eofSent \in BOOLEAN
  <2>1. Sound(r) /\ r.writes = <<>> /\ Session(r) = Session(q) /\ SameStatus(q, r)
    BY ResetIsSound DEF r
  <2>2. q.side = p.side
    BY DEF Wrote
  <2>3. Sound(p)
    BY <1>2 DEF EndpointInv
  <2> QED
    BY <2>1, <2>2, <2>3 DEF Session, SameStatus, StatusIs, Sound, StatusTypes
<1>7. EndpointInv(e)'
  <2>1. c = IF r.closeSent = NoCode THEN <<>> ELSE <<r.closeSent>>
    <3>1. closes[e] = IF p.closeSent = NoCode THEN <<>> ELSE <<p.closeSent>>
      BY <1>2 DEF EndpointInv
    <3>2. Wrote(p, q, kinds)
      OBVIOUS
    <3> HIDE DEF p
    <3>3. c = IF q.closeSent = NoCode THEN <<>> ELSE <<q.closeSent>>
      BY <1>6, <3>1, <3>2, ClosesGrow DEF c
    <3> QED
      BY <1>6, <3>3
  <2>2. Native(e)' /\ p.side = e
    BY <1>2 DEF Native, EndpointInv
  <2> QED
    BY <1>4, <1>6, <2>1, <2>2 DEF EndpointInv
<1>8. EndpointInv(u)'
  <2>1. Native(u)' <=> Native(u)
    BY DEF Native
  <2>2. ~Native(u) => wire'[u] = wire[u]
    BY <1>4
  <2> QED
    BY <1>2, <1>4, <2>1, <2>2 DEF EndpointInv, Idle
<1>9. StreamInv(e)'
  <2>1. Peer(e)' = u
    BY DEF u
  <2>2. r.state = "CLOSED" /\ cut = {} => ep[u].eofSent
    BY <1>2, <1>6 DEF StreamInv, u
  <2>3. Ended(rest) => r.state # "CLOSED" /\ (cut = {} => ep[u].eofSent)
    BY <1>2, <1>6 DEF StreamInv, u
  <2>4. Counted(rest, heard'[e], said'[u])
    BY DEF u
  <2> QED
    BY <1>4, <2>1, <2>2, <2>3, <2>4 DEF StreamInv
<1>10. StreamInv(u)'
  <2>0. /\ Stream(wire[u]) /\ Counted(wire[u], heard[u], said[e]) /\ heard'[u] = heard[u] /\ said[e] \in Nat
        /\ Ended(wire[u]) => ep[u].state # "CLOSED" /\ (cut = {} => p.eofSent)
        /\ cut = {} /\ ep[u].state = "CLOSED" => p.eofSent
    BY <1>1, <1>2 DEF StreamInv, GlobalInv, u
  <2>1. p.eofSent => q.eofSent
    BY DEF Wrote
  <2>2. /\ Stream(w) /\ Counted(w, heard[u], said[e] + d)
        /\ Ended(w) => ep[u].state # "CLOSED" /\ (cut = {} => q.eofSent)
    <3>1. CASE cut = {} /\ Native(u)
      <4>1. w = wire[u] \o q.writes
        BY <3>1
      <4>2. /\ Stream(wire[u] \o q.writes) /\ (Ended(wire[u] \o q.writes) => q.eofSent)
            /\ Ended(wire[u] \o q.writes) => Ended(wire[u]) \/ ~p.eofSent
            /\ Counted(wire[u] \o q.writes, heard[u], said[e] + d)
        BY <1>6, <2>0, <3>1, StreamGrows
      <4> HIDE DEF w
      <4> QED
        BY <2>0, <3>1, <4>1, <4>2
    <3>2. CASE ~(cut = {} /\ Native(u))
      <4>1. w = wire[u]
        BY <3>2
      <4>2. Counted(wire[u], heard[u], said[e] + d)
        BY <2>0, CountedMore
      <4> HIDE DEF w
      <4> QED
        BY <2>0, <2>1, <4>1, <4>2
    <3> QED
      BY <3>1, <3>2
  <2> HIDE DEF w
  <2> QED
    BY <1>1, <1>4, <1>6, <2>0, <2>1, <2>2 DEF StreamInv
<1> QED
  BY <1>1, <1>5, <1>7, <1>8, <1>9, <1>10 DEF EndpointsInv

LEMMA CallKeeps ==
  ASSUME EndpointsInv, NEW e \in Endpoints, NEW q, Sound(q),
         NEW kinds, "eof" \notin kinds, "close" \notin kinds, Output(ep[e], q, kinds), Call(e, q),
         NEW d \in {0, 1}, kinds \cap {"text", "cont"} # {} => d = 1,
         said' \in [Endpoints -> Nat], said'[Peer(e)] = said[Peer(e)], said'[e] = said[e] + d,
         message' \in [Endpoints -> Nat], over' \subseteq Endpoints
  PROVE  EndpointsInv'
<1>1. GlobalInv /\ StreamInv(e) /\ Peer(e) \in Endpoints
  BY PeerIs DEF EndpointsInv
<1>2. Wrote(ep[e], q, kinds) /\ (q.state = "CLOSED" => ep[e].state = "CLOSED")
  BY DEF Output
<1>3. Native(e) /\ Become(e, q, wire[e]) /\ UNCHANGED <<cfg, cut>> /\ UNCHANGED request /\ UNCHANGED heard
  BY DEF Call
<1>4. request' \in {NoRequest} \cup Requests /\ heard' \in [Endpoints -> Nat] /\ heard'[Peer(e)] = heard[Peer(e)]
  BY <1>1, <1>3 DEF GlobalInv
<1>5. Stream(wire[e]) /\ Counted(wire[e], heard'[e], said[Peer(e)])
  BY <1>1, <1>3 DEF StreamInv
<1>6. Ended(wire[e]) => Ended(wire[e]) /\ q.state # "CLOSED"
  BY <1>1, <1>2 DEF StreamInv
<1> QED
  BY <1>2, <1>3, <1>4, <1>5, <1>6, BecomeKeeps

\* A call that sends no data frame.
LEMMA QuietCallKeeps ==
  ASSUME EndpointsInv, NEW e \in Endpoints, NEW q, Sound(q),
         NEW kinds, kinds \cap {"eof", "close", "text", "cont"} = {}, Output(ep[e], q, kinds), Call(e, q),
         UNCHANGED history
  PROVE  EndpointsInv'
<1>1. GlobalInv /\ Peer(e) \in Endpoints
  BY PeerIs DEF EndpointsInv
<1>2. said' = said /\ message' = message /\ over' = over
  BY DEF history
<1> DEFINE d == 0
<1>3. /\ said' \in [Endpoints -> Nat] /\ said'[Peer(e)] = said[Peer(e)] /\ said'[e] = said[e] + d
      /\ message' \in [Endpoints -> Nat] /\ over' \subseteq Endpoints /\ d \in {0, 1}
  BY <1>1, <1>2 DEF GlobalInv
<1>4. "eof" \notin kinds /\ "close" \notin kinds /\ (kinds \cap {"text", "cont"} # {} => d = 1)
  OBVIOUS
<1> HIDE DEF d
<1> QED
  BY <1>3, <1>4, CallKeeps

\* A step that reads the next item.
LEMMA ReadKeeps ==
  ASSUME EndpointsInv, NEW e \in Endpoints, Native(e), wire[e] # <<>>, NEW q, Sound(q),
         NEW kinds, kinds \cap {"eof", "close", "text", "cont"} = {}, Wrote(ep[e], q, kinds),
         q.state = "CLOSED" => ep[e].state = "CLOSED" \/ Head(wire[e]) = Eof,
         Become(e, q, Tail(wire[e])), UNCHANGED <<cfg, cut>>, UNCHANGED history,
         request' \in {NoRequest} \cup Requests,
         NEW h \in 0..Weight(Head(wire[e])), heard' = [heard EXCEPT ![e] = @ + h]
  PROVE  EndpointsInv'
<1>1. GlobalInv /\ StreamInv(e) /\ Peer(e) \in Endpoints /\ Peer(e) # e
  BY PeerIs DEF EndpointsInv
<1>2. said' = said /\ message' = message /\ over' = over
  BY DEF history
<1> DEFINE d == 0
<1> DEFINE rest == Tail(wire[e])
<1>3. /\ said' \in [Endpoints -> Nat] /\ said'[Peer(e)] = said[Peer(e)] /\ said'[e] = said[e] + d
      /\ message' \in [Endpoints -> Nat] /\ over' \subseteq Endpoints /\ d \in {0, 1}
  BY <1>1, <1>2 DEF GlobalInv
<1>4. "eof" \notin kinds /\ "close" \notin kinds /\ (kinds \cap {"text", "cont"} # {} => d = 1)
  OBVIOUS
<1>5. Stream(wire[e]) /\ Counted(wire[e], heard[e], said[Peer(e)]) /\ (Ended(wire[e]) => ep[e].state # "CLOSED")
  BY <1>1 DEF StreamInv
<1>6. /\ Stream(rest) /\ (Ended(rest) => Ended(wire[e]))
      /\ (Head(wire[e]) = Eof => rest = <<>> /\ Ended(wire[e]))
  BY <1>5, StreamTail
<1>7. Ended(rest) => Ended(wire[e]) /\ q.state # "CLOSED"
  <2>1. ~Ended(<<>>)
    BY DEF Ended
  <2> QED
    BY <1>5, <1>6, <2>1
<1>8. q.state = "CLOSED" => ep[e].state = "CLOSED" \/ Ended(wire[e])
  BY <1>6
<1>9. /\ heard' \in [Endpoints -> Nat] /\ heard'[Peer(e)] = heard[Peer(e)] /\ heard'[e] = heard[e] + h
  <2>1. h \in Nat
    BY WeightIs
  <2> QED
    BY <1>1, <2>1 DEF GlobalInv
<1>10. Counted(rest, heard'[e], said[Peer(e)])
  <2>1. wire[e] \in Seq(Items) /\ said[Peer(e)] \in Nat
    BY <1>1, <1>5 DEF Stream, GlobalInv
  <2>2. Counted(rest, heard[e] + h, said[Peer(e)])
    BY <1>5, <2>1, CountedTail
  <2> QED
    BY <1>9, <2>2
<1> HIDE DEF d, rest
<1>11. Become(e, q, rest)
  BY DEF rest
<1> QED
  BY <1>3, <1>4, <1>6, <1>7, <1>8, <1>9, <1>10, <1>11, BecomeKeeps

--------------------------------------------------------------------------------
(* What the negotiation may compute.                                       *)

LEMMA LeastIn ==
  ASSUME NEW S \in SUBSET Nat, S # {}
  PROVE  Least(S) \in S /\ \A i \in S : Least(S) <= i
<1>1. PICK m \in S : \A i \in S : ~(<<i, m>> \in OpToRel(<, Nat))
  BY NatLessThanWellFounded, WFMin
<1>2. \A i \in S : m <= i
  <2> SUFFICES ASSUME NEW i \in S PROVE m <= i
    OBVIOUS
  <2>1. ~(i < m)
    BY <1>1 DEF OpToRel
  <2> QED
    BY <2>1
<1>3. \E k \in S : \A i \in S : k <= i
  BY <1>2
<1> QED
  BY <1>3 DEF Least

LEMMA ServerParamsTyped ==
  ASSUME NEW f \in Factories, NEW o \in Params
  PROVE  ServerParams(f, o) \in Params
<1>1. f.smwb \in {NoBits} \cup Windows /\ f.cmwb \in {NoBits} \cup Windows /\ f.snct \in BOOLEAN /\ f.cnct \in BOOLEAN
      /\ o.smwb \in {NoBits} \cup Windows /\ o.cmwb \in {NoBits, Asked} \cup Windows
      /\ o.snct \in BOOLEAN /\ o.cnct \in BOOLEAN
  BY DEF Factories, Params
<1>2. \A a, b \in {NoBits} \cup Windows : Narrower(a, b) \in {NoBits} \cup Windows
  BY DEF Narrower
<1>3. Narrower(f.smwb, o.smwb) \in {NoBits} \cup Windows
  BY <1>1, <1>2
<1>4. (IF o.cmwb = NoBits THEN NoBits ELSE IF o.cmwb = Asked THEN f.cmwb ELSE Narrower(f.cmwb, o.cmwb))
        \in {NoBits, Asked} \cup Windows
  <2>1. o.cmwb # NoBits /\ o.cmwb # Asked => o.cmwb \in Windows
    BY <1>1
  <2> QED
    BY <1>1, <1>2, <2>1
<1>5. (f.snct \/ o.snct) \in BOOLEAN /\ (f.cnct \/ o.cnct) \in BOOLEAN
  OBVIOUS
<1> QED
  BY <1>3, <1>4, <1>5 DEF ServerParams, Params

LEMMA ExtensionTyped ==
  ASSUME NEW a \in BOOLEAN, NEW b \in BOOLEAN, NEW m \in {NoBits, Asked} \cup Windows,
         NEW n \in {NoBits, Asked} \cup Windows
  PROVE  Extension(a, b, m, n) \in Exts
<1>1. m \in Nat /\ n \in Nat
  BY WindowsAssumption DEF NoBits, Asked
<1> QED
  BY <1>1 DEF Extension, Exts

LEMMA AcceptedTyped ==
  ASSUME NEW r \in Responses
  PROVE  Accepted(r) \in Exts
<1>1. CASE r.ext = NoExt
  <2>1. ~NoExt.enabled
    BY DEF NoExt
  <2> QED
    BY <1>1, <2>1 DEF Accepted, Exts
<1>2. CASE r.ext # NoExt
  <2>1. r.ext \in [enabled: {TRUE}, params: Params]
    BY <1>2 DEF Responses
  <2>2. r.ext.enabled /\ r.ext.params \in Params
    BY <2>1
  <2>3. ServerExtension(r.ext.params) \in Exts
    BY <2>2, ExtensionTyped DEF ServerExtension, Params
  <2> QED
    BY <2>2, <2>3 DEF Accepted
<1> QED
  BY <1>1, <1>2

LEMMA SelectSubprotocolIs ==
  ASSUME NEW mine \in Seq(STRING), NEW offered
  PROVE  SelectSubprotocol(mine, offered) \in {NoSub} \cup (ToSet(mine) \cap ToSet(offered))
<1> DEFINE shared == {i \in DOMAIN mine : mine[i] \in ToSet(offered)}
<1>1. CASE shared = {}
  BY <1>1 DEF SelectSubprotocol
<1>2. CASE shared # {}
  <2>1. shared \in SUBSET Nat
    OBVIOUS
  <2>2. Least(shared) \in shared
    BY <1>2, <2>1, LeastIn
  <2>3. mine[Least(shared)] \in ToSet(mine) \cap ToSet(offered)
    BY <2>2 DEF ToSet
  <2> QED
    BY <2>3 DEF SelectSubprotocol
<1> QED
  BY <1>1, <1>2

LEMMA ProcessExtensionsTyped ==
  ASSUME NEW factories \in Seq(Factories), NEW offers \in Seq(Params)
  PROVE  ProcessExtensions(factories, offers) \in {NoExt} \cup [enabled: {TRUE}, params: Params]
<1> DEFINE taken == {i \in DOMAIN offers : Takers(factories, offers[i]) # {}}
<1> DEFINE i == Least(taken)
<1> DEFINE j == Least(Takers(factories, offers[i]))
<1>1. CASE taken = {}
  BY <1>1 DEF ProcessExtensions, NoExt
<1>2. CASE taken # {}
  <2>1. taken \in SUBSET Nat
    OBVIOUS
  <2>2. i \in taken
    BY <1>2, <2>1, LeastIn
  <2>3. Takers(factories, offers[i]) \in SUBSET Nat /\ Takers(factories, offers[i]) # {}
    BY <2>2 DEF Takers
  <2>4. j \in Takers(factories, offers[i])
    BY <2>3, LeastIn
  <2>5. factories[j] \in Factories /\ offers[i] \in Params
    BY <2>2, <2>4 DEF Takers
  <2>6. ServerParams(factories[j], offers[i]) \in Params
    BY <2>5, ServerParamsTyped
  <2>7. ProcessExtensions(factories, offers) = [enabled |-> TRUE, params |-> ServerParams(factories[j], offers[i])]
    BY <1>2 DEF ProcessExtensions
  <2> QED
    BY <2>6, <2>7
<1> QED
  BY <1>1, <1>2

LEMMA AcceptTyped ==
  ASSUME NEW k \in Configs, NEW r \in Requests
  PROVE  Accept(k.server, r) \in Responses
<1>1. /\ k.server.factories \in Seq(Factories) /\ k.server.subs \in Seq(STRING)
  BY ConfigsAssumption
<1>2. r.offers \in Seq(Params)
  <2>1. PICK c \in Configs : r.offers = c.client.offers
    BY DEF Requests
  <2> QED
    BY <2>1, ConfigsAssumption
<1>3. \A status \in {400, 403, 426} : Reject(status) \in Responses
  BY DEF Reject, Responses, Names
<1>4. SelectSubprotocol(k.server.subs, r.subs) \in Names
  <2>1. ToSet(k.server.subs) \subseteq Names
    BY DEF Names
  <2>2. NoSub \in Names
    BY DEF Names
  <2> QED
    BY <1>1, <2>1, <2>2, SelectSubprotocolIs
<1>5. ProcessExtensions(k.server.factories, r.offers) \in {NoExt} \cup [enabled: {TRUE}, params: Params]
  BY <1>1, <1>2, ProcessExtensionsTyped
<1>6. [kind |-> "response", status |-> 101, valid |-> TRUE,
       ext |-> ProcessExtensions(k.server.factories, r.offers),
       sub |-> SelectSubprotocol(k.server.subs, r.subs)] \in Responses
  BY <1>4, <1>5 DEF Responses
<1>7. CASE ~r.upgrade
  BY <1>3, <1>7 DEF Accept
<1>8. CASE r.upgrade /\ ~r.valid
  BY <1>3, <1>8 DEF Accept
<1>9. CASE r.upgrade /\ r.valid /\ k.server.origins # {} /\ r.origin \notin k.server.origins
  BY <1>3, <1>9 DEF Accept
<1>10. CASE r.upgrade /\ r.valid /\ ~(k.server.origins # {} /\ r.origin \notin k.server.origins)
  BY <1>3, <1>6, <1>10 DEF Accept
<1> QED
  BY <1>7, <1>8, <1>9, <1>10

LEMMA ClientAcceptedTyped ==
  ASSUME NEW k \in Configs, NEW r \in Responses, ~ResponseRefused(k.client, r)
  PROVE  ClientAccepted(k.client, r) \in Exts
<1> DEFINE cli == k.client
<1>1. CASE ~r.ext.enabled
  BY <1>1 DEF ClientAccepted, Exts
<1>2. CASE r.ext.enabled
  <2>1. r.ext \in [enabled: {TRUE}, params: Params]
    <3>1. ~NoExt.enabled
      BY DEF NoExt
    <3> QED
      BY <1>2, <3>1 DEF Responses
  <2>2. cli.offers \in Seq(Params) /\ r.ext.params \in Params
    BY <2>1, ConfigsAssumption
  <2>3. Matching(cli, r) # {}
    BY <1>2 DEF ResponseRefused
  <2>4. Matching(cli, r) \in SUBSET Nat
    BY <2>2 DEF Matching
  <2> DEFINE n == Least(Matching(cli, r))
  <2>5. n \in Matching(cli, r)
    BY <2>3, <2>4, LeastIn
  <2>6. cli.offers[n] \in Params
    <3>1. n \in DOMAIN cli.offers
      BY <2>5 DEF Matching
    <3> HIDE DEF n, cli
    <3> QED
      BY <2>2, <3>1
  <2> DEFINE o == cli.offers[n]
  <2> DEFINE q == r.ext.params
  <2>7. /\ q.snct \in BOOLEAN /\ (o.cnct \/ q.cnct) \in BOOLEAN /\ q.smwb \in {NoBits, Asked} \cup Windows
        /\ (IF q.cmwb = NoBits /\ o.cmwb \in Windows THEN o.cmwb ELSE q.cmwb) \in {NoBits, Asked} \cup Windows
    BY <2>2, <2>6 DEF Params
  <2>8. ClientExtension(o, q) \in Exts
    BY <2>7, ExtensionTyped DEF ClientExtension
  <2> QED
    BY <1>2, <2>8 DEF ClientAccepted
<1> QED
  BY <1>1, <1>2

--------------------------------------------------------------------------------
(* Each step keeps the invariant.                                          *)

LEMMA ItemKinds ==
  ASSUME NEW f \in Items
  PROVE  /\ f.kind = "eof" <=> f = Eof
         /\ f.kind = "request" <=> f \in Requests
         /\ f.kind = "response" <=> f \in Responses
         /\ f.kind \in Frames <=> f \in FrameSet
<1>1. Eof.kind = "eof"
  BY EofIsItem
<1>2. \A g \in Requests : g.kind = "request"
  BY DEF Requests
<1>3. \A g \in Responses : g.kind = "response"
  BY DEF Responses
<1>4. \A g \in FrameSet : g.kind \in Frames
  BY DEF FrameSet
<1>5. Frames \cap {"eof", "request", "response"} = {}
  BY DEF Frames
<1> QED
  BY <1>1, <1>2, <1>3, <1>4, <1>5 DEF Items

\* A native endpoint, and the next item of its reader.
LEMMA NativeIs ==
  ASSUME EndpointsInv, NEW e \in Endpoints, Native(e)
  PROVE  /\ Sound(ep[e]) /\ ep[e].writes = <<>> /\ ep[e].side = e /\ ep[e].eofSent \in BOOLEAN
         /\ wire[e] # <<>> => Head(wire[e]) \in Items
         /\ heard = [heard EXCEPT ![e] = @ + 0]
         /\ cfg \in Configs
<1>1. EndpointInv(e) /\ StreamInv(e) /\ GlobalInv
  BY DEF EndpointsInv
<1>2. wire[e] # <<>> => Head(wire[e]) \in Items
  BY <1>1, StreamTail DEF StreamInv
<1>3. heard = [heard EXCEPT ![e] = @ + 0]
  BY <1>1 DEF GlobalInv
<1> QED
  BY <1>1, <1>2, <1>3 DEF EndpointInv, GlobalInv, Sound, StatusTypes

LEMMA SendRequestKeeps == EndpointsInv /\ SendRequest => EndpointsInv'
<1> SUFFICES ASSUME EndpointsInv, SendRequest PROVE EndpointsInv'
  OBVIOUS
<1> DEFINE p == ep["client"]
<1> DEFINE f == Connect(cfg.client)
<1> DEFINE kinds == {"request"}
<1>1. Call("client", Write(p, f)) /\ p.parser = "http" /\ UNCHANGED history /\ "client" \in Endpoints
  BY DEF SendRequest, Endpoints
<1>2. Native("client")
  BY <1>1 DEF Call
<1>3. Sound(p) /\ p.writes = <<>> /\ cfg \in Configs
  BY <1>1, <1>2, NativeIs
<1>4. ~p.eofSent
  BY <1>1, <1>3 DEF Sound, Kept
<1>5. f \in Requests /\ f.kind = "request"
  BY <1>3 DEF Connect, Requests
<1>6. f \in Items /\ f.kind \in kinds /\ kinds \cap {"eof", "close", "text", "cont"} = {}
  BY <1>5 DEF Items
<1> HIDE DEF p, f, kinds
<1>7. Sound(Write(p, f)) /\ Output(p, Write(p, f), kinds)
  BY <1>3, <1>4, <1>6, WriteIsSound
<1> QED
  BY <1>1, <1>6, <1>7, QuietCallKeeps DEF p

LEMMA ReceiveRequestKeeps == EndpointsInv /\ ReceiveRequestAt => EndpointsInv'
<1> SUFFICES ASSUME EndpointsInv, ReceiveRequestAt PROVE EndpointsInv'
  OBVIOUS
<1> DEFINE e == "server"
<1> DEFINE p == ep[e]
<1> DEFINE q == ReceiveRequest(p)
<1> DEFINE f == Head(wire[e])
<1> DEFINE kinds == {}
<1>1. /\ Native(e) /\ wire[e] # <<>> /\ f.kind = "request" /\ p.parser = "http" /\ request' = f
      /\ Become(e, q, Tail(wire[e])) /\ UNCHANGED <<cfg, cut>> /\ heard' = heard /\ UNCHANGED history
      /\ e \in Endpoints
  BY DEF ReceiveRequestAt, Next1, Endpoints, history
<1>2. Sound(p) /\ p.writes = <<>> /\ p.side = e /\ f \in Items /\ heard = [heard EXCEPT ![e] = @ + 0]
  BY <1>1, NativeIs
<1>3. Sound(q) /\ Output(p, q, kinds)
  <2> HIDE DEF kinds
  <2> QED
    BY <1>1, <1>2, ReceiveRequestIsSound
<1>4. f \in Requests
  BY <1>1, <1>2, ItemKinds
<1>5. Wrote(p, q, kinds) /\ (q.state = "CLOSED" => p.state = "CLOSED")
  BY <1>3 DEF Output
<1>6. kinds \cap {"eof", "close", "text", "cont"} = {} /\ 0 \in 0..Weight(f)
  BY WeightIs
<1>7. heard' = [heard EXCEPT ![e] = @ + 0] /\ request' \in {NoRequest} \cup Requests
  BY <1>1, <1>2, <1>4
<1> DEFINE h == 0
<1> HIDE DEF q, kinds, e, h
<1> QED
  BY <1>1, <1>3, <1>5, <1>6, <1>7, ReadKeeps DEF h

LEMMA RespondKeeps == EndpointsInv /\ Respond => EndpointsInv'
<1> SUFFICES ASSUME EndpointsInv, Respond PROVE EndpointsInv'
  OBVIOUS
<1> DEFINE e == "server"
<1> DEFINE p == ep[e]
<1> DEFINE r == Accept(cfg.server, request)
<1> DEFINE q == SendResponse(p, r)
<1> DEFINE kinds == {"response"}
<1>1. /\ request # NoRequest /\ p.state = "CONNECTING" /\ p.parser = "frames" /\ Call(e, q) /\ UNCHANGED history
      /\ e \in Endpoints
  BY DEF Respond, Endpoints
<1>2. Native(e)
  BY <1>1 DEF Call
<1>3. Sound(p) /\ p.writes = <<>> /\ cfg \in Configs
  BY <1>1, <1>2, NativeIs
<1>4. request \in Requests
  BY <1>1 DEF EndpointsInv, GlobalInv
<1>5. r \in Responses /\ Accepted(r) \in Exts
  BY <1>3, <1>4, AcceptTyped, AcceptedTyped
<1> HIDE DEF r
<1>6. Sound(q) /\ Output(p, q, kinds)
  BY <1>1, <1>3, <1>5, SendResponseIsSound
<1>7. kinds \cap {"eof", "close", "text", "cont"} = {}
  OBVIOUS
<1> HIDE DEF q, kinds, e
<1> QED
  BY <1>1, <1>6, <1>7, QuietCallKeeps

LEMMA ReceiveResponseKeeps == EndpointsInv /\ ReceiveResponseAt => EndpointsInv'
<1> SUFFICES ASSUME EndpointsInv, ReceiveResponseAt PROVE EndpointsInv'
  OBVIOUS
<1> DEFINE e == "client"
<1> DEFINE p == ep[e]
<1> DEFINE f == Head(wire[e])
<1> DEFINE q == ReceiveResponse(p, cfg.client, f)
<1> DEFINE kinds == {}
<1>1. /\ Native(e) /\ wire[e] # <<>> /\ f.kind = "response" /\ p.parser = "http" /\ request' = request
      /\ Become(e, q, Tail(wire[e])) /\ UNCHANGED <<cfg, cut>> /\ heard' = heard /\ UNCHANGED history
      /\ e \in Endpoints
  BY DEF ReceiveResponseAt, Next1, Endpoints, history
<1>2. /\ Sound(p) /\ p.writes = <<>> /\ p.side = e /\ f \in Items /\ heard = [heard EXCEPT ![e] = @ + 0]
      /\ cfg \in Configs
  BY <1>1, NativeIs
<1>3. f \in Responses
  BY <1>1, <1>2, ItemKinds
<1>4. ClientAccepted(cfg.client, f) \in Exts \/ ResponseRefused(cfg.client, f)
  BY <1>2, <1>3, ClientAcceptedTyped
<1> DEFINE h == 0
<1>5. kinds \cap {"eof", "close", "text", "cont"} = {} /\ h \in 0..Weight(f)
  BY WeightIs
<1> HIDE DEF kinds
<1>6. Sound(q) /\ Output(p, q, kinds)
  BY <1>1, <1>2, <1>4, ReceiveResponseIsSound
<1>7. Wrote(p, q, kinds) /\ (q.state = "CLOSED" => p.state = "CLOSED")
  BY <1>6 DEF Output
<1>8. heard' = [heard EXCEPT ![e] = @ + h] /\ request' \in {NoRequest} \cup Requests
  BY <1>1, <1>2 DEF EndpointsInv, GlobalInv
<1> HIDE DEF q, e, h
<1> QED
  BY <1>1, <1>5, <1>6, <1>7, <1>8, ReadKeeps

LEMMA ReceiveFrameKeeps ==
  ASSUME EndpointsInv, NEW e \in Endpoints, ReceiveFrameAt(e)
  PROVE  EndpointsInv'
<1> DEFINE p == ep[e]
<1> DEFINE f == Head(wire[e])
<1> DEFINE q == ReceiveFrame(p, f)
<1> DEFINE kinds == {"pong"}
<1> DEFINE h == IF ~IsControl(f) /\ q.parserExc = NoCode THEN 1 ELSE 0
<1>1. /\ Native(e) /\ wire[e] # <<>> /\ f.kind \in Frames /\ p.parser = "frames" /\ request' = request
      /\ Become(e, q, Tail(wire[e])) /\ UNCHANGED <<cfg, cut>> /\ UNCHANGED history
      /\ heard' = IF ~IsControl(f) /\ q.parserExc = NoCode THEN [heard EXCEPT ![e] = @ + 1] ELSE heard
  BY DEF ReceiveFrameAt, Next1, history
<1>2. /\ Sound(p) /\ p.writes = <<>> /\ p.side = e /\ f \in Items /\ heard = [heard EXCEPT ![e] = @ + 0]
  BY <1>1, NativeIs
<1>3. f \in FrameSet
  BY <1>1, <1>2, ItemKinds
<1>4. Sound(q) /\ Output(p, q, kinds)
  BY <1>1, <1>2, <1>3, ReceiveFrameIsSound
<1>5. kinds \cap {"eof", "close", "text", "cont"} = {}
  OBVIOUS
<1>6. h \in 0..Weight(f)
  <2>1. CASE ~IsControl(f) /\ q.parserExc = NoCode
    <3>1. f.kind \notin {"bad", "utf8"}
      <4>1. CASE FrameError(p, f) = NoCode
        BY <1>2, <1>3, <4>1, FrameErrorIs
      <4>2. CASE FrameError(p, f) # NoCode
        <5> DEFINE err == FrameError(p, f)
        <5>1. err \in ParserCodes /\ err # NoCode
          BY <1>2, <1>3, <4>2, FrameErrorIs
        <5>2. q = ParserFails(p, err)
          BY <4>2 DEF ReceiveFrame
        <5> HIDE DEF err, q
        <5>3. /\ Shaped(p) /\ ~p.broken /\ p.writes = <<>> /\ p.eofSent = FALSE /\ p.side \in Endpoints
              /\ p.side = "client" => p.state # "CONNECTING"
          BY <1>1, <1>2 DEF Sound, Kept, SessionTypes, StatusTypes
        <5>4. Failed(p, q, err, err)
          BY <5>2, <5>3, ParserFailsIs
        <5>5. q.parserExc = err
          BY <5>4 DEF Failed, StatusIs
        <5> QED
          BY <2>1, <5>1, <5>5
      <4> QED
        BY <4>1, <4>2
    <3>2. f.kind \in {"text", "cont"}
      BY <1>1, <2>1, <3>1 DEF IsControl, Frames
    <3> QED
      BY <3>2 DEF Weight
  <2>2. CASE ~(~IsControl(f) /\ q.parserExc = NoCode)
    <3>1. h = 0
      BY <2>2
    <3> QED
      BY <3>1, WeightIs
  <2> QED
    BY <2>1, <2>2
<1>7. heard' = [heard EXCEPT ![e] = @ + h]
  BY <1>1, <1>2
<1>8. Wrote(p, q, kinds) /\ (q.state = "CLOSED" => p.state = "CLOSED")
  BY <1>4 DEF Output
<1>9. request' \in {NoRequest} \cup Requests
  BY <1>1 DEF EndpointsInv, GlobalInv
<1> HIDE DEF q, kinds, h
<1> QED
  BY <1>1, <1>4, <1>5, <1>6, <1>7, <1>8, <1>9, ReadKeeps

LEMMA ReceiveEofKeeps ==
  ASSUME EndpointsInv, NEW e \in Endpoints, ReceiveEofAt(e)
  PROVE  EndpointsInv'
<1> DEFINE p == ep[e]
<1> DEFINE f == Head(wire[e])
<1> DEFINE q == ReceiveEof(p)
<1> DEFINE kinds == {}
<1> DEFINE h == 0
<1>1. /\ Native(e) /\ wire[e] # <<>> /\ f.kind = "eof" /\ request' = request
      /\ Become(e, q, Tail(wire[e])) /\ UNCHANGED <<cfg, cut>> /\ heard' = heard /\ UNCHANGED history
  BY DEF ReceiveEofAt, Next1, history
<1>2. /\ Sound(p) /\ p.writes = <<>> /\ p.side = e /\ f \in Items /\ heard = [heard EXCEPT ![e] = @ + 0]
  BY <1>1, NativeIs
<1>3. f = Eof
  BY <1>1, <1>2, ItemKinds
<1>4. p.state # "CLOSED"
  <2>1. StreamInv(e)
    BY DEF EndpointsInv
  <2>2. Ended(wire[e])
    BY <1>1, <1>3, <2>1, StreamTail DEF StreamInv
  <2> QED
    BY <2>1, <2>2 DEF StreamInv
<1>5. kinds \cap {"eof", "close", "text", "cont"} = {} /\ h \in 0..Weight(f)
  BY WeightIs
<1> HIDE DEF kinds
<1>6. Sound(q) /\ Wrote(p, q, kinds)
  BY <1>2, <1>4, ReceiveEofIs
<1>7. heard' = [heard EXCEPT ![e] = @ + h] /\ request' \in {NoRequest} \cup Requests
  BY <1>1, <1>2 DEF EndpointsInv, GlobalInv
<1> HIDE DEF q, h
<1> QED
  BY <1>1, <1>3, <1>5, <1>6, <1>7, ReadKeeps

LEMMA DiscardKeeps ==
  ASSUME EndpointsInv, NEW e \in Endpoints, DiscardAt(e)
  PROVE  EndpointsInv'
<1> DEFINE u == Peer(e)
<1>1. u \in Endpoints /\ u # e /\ Peer(u) = e /\ Endpoints = {e, u}
  BY PeerIs
<1>2. GlobalInv /\ EndpointInv(e) /\ StreamInv(e) /\ EndpointInv(u) /\ StreamInv(u)
  BY <1>1 DEF EndpointsInv
<1>3. /\ wire' = [wire EXCEPT ![e] = Tail(@)] /\ wire[e] # <<>> /\ Native(e)
      /\ UNCHANGED <<cfg, ep, request, cut, heard, closes, said, message, over>>
  BY DEF DiscardAt, history
<1>4. wire'[e] = Tail(wire[e]) /\ wire'[u] = wire[u] /\ DOMAIN wire' = Endpoints
  BY <1>1, <1>2, <1>3 DEF GlobalInv
<1>5. GlobalInv'
  BY <1>2, <1>3, <1>4 DEF GlobalInv
<1>6. EndpointInv(e)' /\ EndpointInv(u)'
  BY <1>2, <1>3, <1>4 DEF EndpointInv, Idle, Native
<1>7. StreamInv(e)'
  <2>1. Stream(wire[e]) /\ Counted(wire[e], heard[e], said[u]) /\ wire[e] \in Seq(Items)
        /\ said[u] \in Nat /\ heard[e] \in Nat
    BY <1>1, <1>2 DEF StreamInv, Stream, GlobalInv, u
  <2>2. Stream(Tail(wire[e])) /\ (Ended(Tail(wire[e])) => Ended(wire[e]))
    BY <1>3, <2>1, StreamTail
  <2>3. Counted(Tail(wire[e]), heard[e], said[u])
    <3>1. 0 \in 0..Weight(Head(wire[e])) /\ heard[e] + 0 = heard[e]
      BY <2>1, WeightIs
    <3> DEFINE c == 0
    <3> HIDE DEF c
    <3>2. Counted(Tail(wire[e]), heard[e] + c, said[u])
      BY <1>3, <2>1, <3>1, CountedTail DEF c
    <3> QED
      BY <3>1, <3>2 DEF c
  <2> QED
    BY <1>2, <1>3, <1>4, <2>2, <2>3 DEF StreamInv, u, Peer
<1>8. StreamInv(u)'
  BY <1>1, <1>2, <1>3, <1>4 DEF StreamInv
<1> QED
  BY <1>1, <1>5, <1>6, <1>7, <1>8 DEF EndpointsInv

LEMMA SendKeeps ==
  ASSUME EndpointsInv, NEW e \in Endpoints, NEW fin \in cfg.fins, NEW size \in cfg.sizes, Send(e, fin, size)
  PROVE  EndpointsInv'
<1> DEFINE p == ep[e]
<1> DEFINE first == ~p.expectCont
<1> DEFINE total == size + IF first THEN 0 ELSE message[e]
<1> DEFINE q == SendData(p, first, fin, size)
<1> DEFINE kinds == {"text", "cont"}
<1> DEFINE d == 1
<1>1. /\ p.state = "OPEN" /\ Call(e, q) /\ said' = [said EXCEPT ![e] = @ + d]
      /\ message' = [message EXCEPT ![e] = total]
      /\ over' = IF total > MaxSize THEN over \cup {e} ELSE over
  BY DEF Send
<1>2. Native(e)
  BY <1>1 DEF Call
<1>3. Sound(p) /\ p.writes = <<>> /\ cfg \in Configs /\ GlobalInv
  BY <1>1, <1>2, NativeIs DEF EndpointsInv
<1>4. fin \in BOOLEAN /\ size \in Nat /\ first \in BOOLEAN
  BY <1>3, ConfigsAssumption
<1>5. Sound(q) /\ Output(p, q, kinds)
  BY <1>1, <1>3, <1>4, SendDataIsSound
<1>6. total \in Nat
  BY <1>3, <1>4 DEF GlobalInv
<1> HIDE DEF q, total, kinds
<1>7. /\ said' \in [Endpoints -> Nat] /\ said'[Peer(e)] = said[Peer(e)] /\ said'[e] = said[e] + d
      /\ message' \in [Endpoints -> Nat] /\ over' \subseteq Endpoints
  BY <1>1, <1>3, <1>6, PeerIs DEF GlobalInv
<1>8. "eof" \notin kinds /\ "close" \notin kinds /\ d \in {0, 1}
  BY DEF kinds
<1>9. kinds \cap {"text", "cont"} # {} => d = 1
  OBVIOUS
<1> HIDE DEF d
<1> QED
  BY <1>1, <1>5, <1>7, <1>8, <1>9, CallKeeps

\* The other calls of the applications.
LEMMA QuietCallsKeep ==
  ASSUME EndpointsInv, NEW e \in Endpoints,
         \/ SendPingAt(e)
         \/ \E code \in {1000, NoStatus} : SendCloseAt(e, code)
         \/ FailAt(e)
  PROVE  EndpointsInv'
<1> DEFINE p == ep[e]
<1> DEFINE kinds == {"ping"}
<1>1. kinds \cap {"eof", "close", "text", "cont"} = {} /\ "ping" \in kinds
  OBVIOUS
<1> HIDE DEF kinds
<1>2. ASSUME NEW q, Call(e, q), UNCHANGED history, p.state = "OPEN",
             Sound(p) /\ p.writes = <<>> /\ cfg \in Configs => Sound(q) /\ Output(p, q, kinds)
      PROVE  EndpointsInv'
  <2>1. Native(e)
    BY <1>2 DEF Call
  <2>2. Sound(p) /\ p.writes = <<>> /\ cfg \in Configs
    BY <2>1, NativeIs
  <2>3. Sound(q) /\ Output(p, q, kinds)
    BY <1>2, <2>2
  <2> QED
    BY <1>1, <1>2, <2>3, QuietCallKeeps
<1>3. CASE SendPingAt(e)
  <2> DEFINE q == SendPing(p, cfg.ping)
  <2>1. cfg.ping >= 0 /\ p.state = "OPEN" /\ Call(e, q) /\ UNCHANGED history
    BY <1>3 DEF SendPingAt
  <2>2. ASSUME Sound(p) /\ p.writes = <<>> /\ cfg \in Configs
        PROVE  Sound(q) /\ Output(p, q, kinds)
    <3>1. cfg.ping \in Nat /\ ~p.eofSent
      BY <2>1, <2>2, ConfigsAssumption DEF Sound, Kept
    <3>2. Ping(cfg.ping) \in Items /\ Ping(cfg.ping).kind \in kinds
      BY <1>1, <3>1, FramesAreItems
    <3>3. Sound(Write(p, Ping(cfg.ping))) /\ Output(p, Write(p, Ping(cfg.ping)), kinds)
      BY <2>2, <3>1, <3>2, WriteIsSound
    <3> QED
      BY <3>3 DEF SendPing
  <2> HIDE DEF q
  <2> QED
    BY <1>2, <2>1, <2>2
<1>4. CASE \E code \in {1000, NoStatus} : SendCloseAt(e, code)
  <2>1. PICK code \in {1000, NoStatus} : SendCloseAt(e, code)
    BY <1>4
  <2> DEFINE q == SendClose(p, code)
  <2>2. p.state = "OPEN" /\ Call(e, q) /\ UNCHANGED history
    BY <2>1 DEF SendCloseAt
  <2>3. ASSUME Sound(p) /\ p.writes = <<>> /\ cfg \in Configs
        PROVE  Sound(q) /\ Output(p, q, kinds)
    <3>1. code \in FrameCodes
      BY DEF FrameCodes
    <3> QED
      BY <2>2, <2>3, <3>1, SendCloseIsSound
  <2> HIDE DEF q
  <2> QED
    BY <1>2, <2>2, <2>3
<1>5. CASE FailAt(e)
  <2> DEFINE code == 1011
  <2> DEFINE q == Fail(p, code)
  <2>1. p.state = "OPEN" /\ Call(e, q) /\ UNCHANGED history /\ code \in OwnCodes
    BY <1>5 DEF FailAt, OwnCodes
  <2> HIDE DEF code
  <2>2. ASSUME Sound(p) /\ p.writes = <<>> /\ cfg \in Configs
        PROVE  Sound(q) /\ Output(p, q, kinds)
    BY <2>1, <2>2, FailIsSound
  <2> HIDE DEF q
  <2> QED
    BY <1>2, <2>1, <2>2
<1> QED
  BY <1>3, <1>4, <1>5

LEMMA AbortKeeps ==
  ASSUME EndpointsInv, NEW e \in Endpoints, Abort(e)
  PROVE  EndpointsInv'
<1> DEFINE u == Peer(e)
<1> DEFINE q == ReceiveEof(ep[e])
<1> DEFINE r == [q EXCEPT !.writes = <<>>]
<1>1. u \in Endpoints /\ u # e /\ Peer(u) = e /\ Endpoints = {e, u}
  BY PeerIs
<1>2. GlobalInv /\ EndpointInv(e) /\ StreamInv(e) /\ EndpointInv(u) /\ StreamInv(u)
  BY <1>1 DEF EndpointsInv
<1>3. PICK n \in 0..Len(wire[u]) :
        /\ \A i \in 1..n : wire[u][i] # Eof
        /\ wire' = [wire EXCEPT ![e] = <<>>,
                      ![u] = IF Native(u) /\ ep[u].state # "CLOSED" THEN Append(SubSeq(@, 1, n), Eof) ELSE @]
  BY DEF Abort
<1>4. /\ Native(e) /\ cut' = {e} /\ ep' = [ep EXCEPT ![e] = [ReceiveEof(@) EXCEPT !.writes = <<>>]]
      /\ ep[e].state = "CONNECTING" \/ CloseExpected(ep[e])
      /\ UNCHANGED <<cfg, request, heard, closes, said, message, over>>
  BY DEF Abort, history
<1>5. Sound(ep[e]) /\ ep[e].writes = <<>> /\ ep[e].side = e /\ ep[e].state # "CLOSED"
  BY <1>2, <1>4 DEF EndpointInv, CloseExpected
<1>6. Sound(q) /\ q.state = "CLOSED" /\ q.closeSent = ep[e].closeSent /\ q.side = e
  BY <1>5, ReceiveEofIs DEF Wrote
<1> HIDE DEF q
<1>7. Sound(r) /\ r.writes = <<>> /\ r.side = e /\ r.state = "CLOSED" /\ r.closeSent = ep[e].closeSent
  BY <1>6, ResetIsSound DEF Session, SameStatus, StatusIs
<1> HIDE DEF r, u
<1> DEFINE w == IF Native(u) /\ ep[u].state # "CLOSED" THEN Append(SubSeq(wire[u], 1, n), Eof) ELSE wire[u]
<1>8. /\ ep'[e] = r /\ ep'[u] = ep[u] /\ wire'[e] = <<>> /\ wire'[u] = w
      /\ DOMAIN ep' = Endpoints /\ DOMAIN wire' = Endpoints
  BY <1>1, <1>2, <1>3, <1>4 DEF GlobalInv, q, r
<1>9. GlobalInv'
  BY <1>2, <1>4, <1>8 DEF GlobalInv
<1>10. EndpointInv(e)' /\ (Native(u)' <=> Native(u))
  BY <1>2, <1>4, <1>7, <1>8 DEF EndpointInv, Native
<1>11. EndpointInv(u)'
  <2>1. ~Native(u) => wire'[u] = wire[u]
    BY <1>8
  <2> QED
    BY <1>2, <1>4, <1>8, <1>10, <2>1 DEF EndpointInv, Idle
<1>12. StreamInv(e)'
  <2>1. Stream(<<>>) /\ ~Ended(<<>>)
    BY DEF Stream, Ended
  <2>2. Counted(<<>>, heard[e], said[u])
    <3>1. heard[e] \in Nat /\ said[u] \in Nat /\ Counted(wire[e], heard[e], said[u]) /\ wire[e] \in Seq(Items)
      BY <1>1, <1>2 DEF GlobalInv, StreamInv, Stream, u
    <3>2. heard[e] <= said[u]
      BY <3>1, CountedBounds
    <3> QED
      BY <3>1, <3>2, CountedEmpty
  <2>3. cut' # {}
    BY <1>4
  <2> QED
    BY <1>4, <1>8, <2>1, <2>2, <2>3 DEF StreamInv, u, Peer
<1>13. StreamInv(u)'
  <2>1. /\ Stream(wire[u]) /\ wire[u] \in Seq(Items) /\ Counted(wire[u], heard[u], said[e]) /\ said[e] \in Nat
        /\ Ended(wire[u]) => ep[u].state # "CLOSED"
    BY <1>1, <1>2 DEF StreamInv, Stream, GlobalInv
  <2>2. Stream(w) /\ Counted(w, heard[u], said[e]) /\ (Ended(w) => ep[u].state # "CLOSED")
    <3>1. CASE Native(u) /\ ep[u].state # "CLOSED"
      <4> DEFINE v == SubSeq(wire[u], 1, n)
      <4>1. v \in Seq(Items) /\ Len(v) = n /\ \A i \in 1..n : v[i] = wire[u][i]
        BY <2>1
      <4>2. Stream(v) /\ ~Ended(v)
        BY <1>3, <4>1 DEF Stream, Ended
      <4>3. Counted(v, heard[u], said[e])
        BY <2>1, CountedPrefix
      <4> HIDE DEF v
      <4>4. Stream(Append(v, Eof))
        BY <4>2, EofIsItem, StreamAppend
      <4> DEFINE d == 0
      <4>5. Weight(Eof) <= d /\ d \in Nat /\ said[e] + d = said[e]
        BY <2>1, EofIsItem DEF Weight
      <4> HIDE DEF d
      <4>6. Counted(Append(v, Eof), heard[u], said[e] + d)
        BY <2>1, <4>1, <4>3, <4>5, EofIsItem, CountedAppend
      <4>7. w = Append(v, Eof)
        BY <3>1 DEF v
      <4> HIDE DEF w
      <4> QED
        BY <3>1, <4>4, <4>5, <4>6, <4>7
    <3>2. CASE ~(Native(u) /\ ep[u].state # "CLOSED")
      <4>1. w = wire[u]
        BY <3>2
      <4> HIDE DEF w
      <4> QED
        BY <2>1, <4>1
    <3> QED
      BY <3>1, <3>2
  <2>3. cut' # {}
    BY <1>4
  <2> HIDE DEF w
  <2> QED
    BY <1>1, <1>4, <1>8, <2>2, <2>3 DEF StreamInv
<1> QED
  BY <1>1, <1>9, <1>10, <1>11, <1>12, <1>13 DEF EndpointsInv

\* What another implementation may send.
LEMMA ForeignItemsAre ==
  ASSUME EndpointsInv, NEW e \in Endpoints, NEW item \in ForeignItems(e)
  PROVE  item \in Items /\ item # Eof
<1>1. cfg \in Configs
  BY DEF EndpointsInv, GlobalInv
<1>2. item \in Requests \cup Responses \cup FrameSet
  <2>1. ForeignRequests \subseteq Requests
    BY <1>1 DEF ForeignRequests, Requests
  <2>2. ForeignResponses \subseteq Responses
    <3>1. Reject(400) \in Responses
      BY DEF Reject, Responses, Names
    <3>2. {NoSub} \cup ToSet(cfg.server.subs) \subseteq Names
      BY <1>1 DEF Names
    <3>3. ASSUME NEW x \in [kind: {"response"}, status: {101}, valid: BOOLEAN,
                            ext: {NoExt} \cup [enabled: {TRUE}, params: Params],
                            sub: {NoSub} \cup ToSet(cfg.server.subs)]
          PROVE  x \in Responses
      <4>1. x.sub \in Names /\ x.status \in {101, 400, 403, 426}
        BY <3>2
      <4> QED
        BY <4>1 DEF Responses
    <3> QED
      BY <3>1, <3>3 DEF ForeignResponses
  <2>3. ForeignFrames \subseteq FrameSet
    <3> DEFINE plain == [kind: {"text", "cont"}, fin: BOOLEAN, size: 0..MaxSize, code: {NoCode},
                         rsv: {FALSE}, ctx: {0}, bits: {0}]
    <3> DEFINE f1 == Frame("text", TRUE, 1, NoCode, TRUE, 0, 15)
    <3> DEFINE f2 == Frame("text", FALSE, MaxSize + 1, NoCode, FALSE, 0, 0)
    <3> DEFINE f3 == Control("bad", 0, NoCode)
    <3> DEFINE f4 == Control("utf8", 0, NoCode)
    <3> DEFINE f5 == Ping(1)
    <3> DEFINE f6 == Close(1000)
    <3> DEFINE f7 == Close(NoStatus)
    <3> DEFINE odd == {f1, f2, f3, f4, f5, f6, f7}
    <3>1. odd \subseteq FrameSet
      <4>1. f1 \in FrameSet /\ f2 \in FrameSet
        BY MaxSizeAssumption DEF FrameSet, Frame, Frames
      <4>2. f3 \in FrameSet /\ f4 \in FrameSet
        BY DEF FrameSet, Frame, Control, Frames
      <4>3. f5 \in FrameSet
        BY DEF FrameSet, Frame, Control, Ping, Frames
      <4>4. f6 \in FrameSet /\ f7 \in FrameSet
        BY FramesAreItems DEF FrameCodes
      <4> HIDE DEF f1, f2, f3, f4, f5, f6, f7
      <4> QED
        BY <4>1, <4>2, <4>3, <4>4
    <3>2. plain \subseteq FrameSet
      <4> SUFFICES ASSUME NEW x \in plain PROVE x \in FrameSet
        OBVIOUS
      <4>1. x.kind \in Frames /\ x.kind # "close" /\ x.fin \in BOOLEAN
        BY DEF Frames
      <4>2. x.size \in Nat /\ x.ctx \in Nat /\ x.bits \in Nat
        BY MaxSizeAssumption
      <4>3. x.code \in {NoCode}
        OBVIOUS
      <4>4. x.rsv = FALSE
        OBVIOUS
      <4>5. x.rsv \in BOOLEAN
        BY <4>4
      <4> QED
        BY <4>1, <4>2, <4>3, <4>5 DEF FrameSet
    <3>3. ForeignFrames = plain \cup odd
      BY DEF ForeignFrames
    <3> HIDE DEF plain, odd
    <3> QED
      BY <3>1, <3>2, <3>3
  <2> QED
    BY <2>1, <2>2, <2>3 DEF ForeignItems
<1>3. item \in Items
  BY <1>2 DEF Items
<1>4. item.kind # "eof"
  <2>1. item.kind \in {"request", "response"} \cup Frames
    BY <1>2, <1>3, ItemKinds
  <2> QED
    BY <2>1 DEF Frames
<1> QED
  BY <1>3, <1>4, EofIsItem

\* Another implementation sends an item or ends its stream: its own protocol,
\* of which only the end of the stream counts, stays where it was.
LEMMA ForeignKeeps ==
  ASSUME EndpointsInv, NEW e \in Endpoints, Foreign(e)
  PROVE  EndpointsInv'
<1> DEFINE u == Peer(e)
<1>1. u \in Endpoints /\ u # e /\ Peer(u) = e /\ \A x \in Endpoints : x = e \/ x = u
  BY PeerIs
<1>2. EndpointInv(e) /\ EndpointInv(u) /\ StreamInv(e) /\ StreamInv(u) /\ GlobalInv
  BY <1>1 DEF EndpointsInv
<1>3. /\ cfg.foreign = e /\ ~ep[e].eofSent /\ wire[u] = <<>> /\ cut = {}
      /\ UNCHANGED <<cfg, request, cut, heard, closes, message, over>>
  BY DEF Foreign
<1> DEFINE sends(f) == /\ wire' = [wire EXCEPT ![u] = <<f>>]
                       /\ \/ f # Eof /\ said' = [said EXCEPT ![e] = @ + 1] /\ ep' = ep
                          \/ f = Eof /\ said' = said /\ ep' = [ep EXCEPT ![e].eofSent = TRUE]
<1>4. PICK f \in Items : sends(f)
  <2>1. CASE \E item \in ForeignItems(e) :
               wire' = [wire EXCEPT ![u] = <<item>>] /\ said' = [said EXCEPT ![e] = @ + 1] /\ ep' = ep
    BY <2>1, ForeignItemsAre
  <2>2. CASE wire' = [wire EXCEPT ![u] = <<Eof>>] /\ said' = said /\ ep' = [ep EXCEPT ![e].eofSent = TRUE]
    BY <2>2, EofIsItem
  <2> QED
    BY <2>1, <2>2 DEF Foreign
<1>5. ~Native(e) /\ Native(u) /\ Idle(e) /\ wire[e] = <<>>
  BY <1>1, <1>2, <1>3 DEF EndpointInv, Native
<1>6. ep[u].state # "CLOSED"
  BY <1>1, <1>2, <1>3 DEF StreamInv
<1>7. /\ DOMAIN ep' = Endpoints /\ DOMAIN wire' = Endpoints /\ ep'[u] = ep[u]
      /\ wire'[u] = <<f>> /\ wire'[e] = <<>>
      /\ said' \in [Endpoints -> Nat] /\ said'[u] = said[u]
  <2> HIDE DEF u
  <2>1. DOMAIN wire' = Endpoints /\ wire'[u] = <<f>> /\ wire'[e] = <<>>
    BY <1>1, <1>2, <1>4, <1>5 DEF GlobalInv
  <2>2. CASE said' = [said EXCEPT ![e] = @ + 1] /\ ep' = ep
    BY <1>1, <1>2, <2>1, <2>2 DEF GlobalInv
  <2>3. CASE said' = said /\ ep' = [ep EXCEPT ![e].eofSent = TRUE]
    BY <1>1, <1>2, <2>1, <2>3 DEF GlobalInv
  <2> QED
    BY <1>4, <2>2, <2>3
<1>8. GlobalInv'
  BY <1>2, <1>3, <1>7 DEF GlobalInv
<1>9. EndpointInv(u)'
  BY <1>1, <1>2, <1>3, <1>5, <1>7 DEF EndpointInv, Native
<1>10. /\ Idle(e)' /\ ep'[e].side = ep[e].side /\ ep'[e].writes = ep[e].writes
       /\ ep'[e].closeSent = ep[e].closeSent /\ (f = Eof => ep'[e].eofSent)
  <2>1. CASE ep' = ep /\ f # Eof
    BY <1>5, <2>1 DEF Idle
  <2>2. CASE ep' = [ep EXCEPT ![e].eofSent = TRUE]
    <3> DEFINE q == [ep[e] EXCEPT !.eofSent = TRUE]
    <3>1. ep'[e] = q
      BY <1>2, <2>2 DEF GlobalInv
    <3>2. /\ Shaped(q) /\ q.side = ep[e].side /\ q.writes = ep[e].writes /\ q.eofSent = TRUE
          /\ q.state = ep[e].state /\ q.parser = ep[e].parser /\ q.closeRcvd = ep[e].closeRcvd
          /\ q.closeSent = ep[e].closeSent /\ q.rcvdThenSent = ep[e].rcvdThenSent
          /\ q.parserExc = ep[e].parserExc /\ q.broken = ep[e].broken
          /\ q.current = ep[e].current /\ q.expectCont = ep[e].expectCont
          /\ q.handshakeExc = ep[e].handshakeExc /\ q.ext = ep[e].ext /\ q.enc = ep[e].enc
          /\ q.dec = ep[e].dec /\ q.decCont = ep[e].decCont
      BY <1>5 DEF Idle, Shaped
    <3> HIDE DEF q
    <3>3. q.eofSent \in BOOLEAN
      BY <3>2
    <3> QED
      BY <1>5, <3>1, <3>2, <3>3 DEF Idle, SessionTypes
  <2> QED
    BY <1>4, <2>1, <2>2
<1>11. EndpointInv(e)'
  BY <1>2, <1>3, <1>5, <1>7, <1>10 DEF EndpointInv, Native
<1>12. StreamInv(e)'
  <2>1. ep'[e].state = "CONNECTING"
    BY <1>10 DEF Idle
  <2>2. wire'[e] = wire[e] /\ said'[u] = said[u] /\ heard'[e] = heard[e]
    BY <1>3, <1>5, <1>7
  <2>3. ~Ended(<<>>)
    BY DEF Ended
  <2> QED
    BY <1>2, <1>5, <2>1, <2>2, <2>3 DEF StreamInv
<1>13. StreamInv(u)'
  <2>1. Stream(<<>>) /\ ~Ended(<<>>) /\ Counted(<<>>, heard[u], said[e])
    BY <1>1, <1>2, <1>3 DEF StreamInv, Ended
  <2>2. <<f>> = Append(<<>>, f)
    BY AppendTwo
  <2>3. Stream(<<f>>) /\ (Ended(<<f>>) <=> f = Eof)
    BY <2>1, <2>2, StreamAppend
  <2>4. Counted(<<f>>, heard[u], said'[e])
    <3>1. PICK d \in Nat : said'[e] = said[e] + d /\ Weight(f) <= d /\ said[e] \in Nat
      <4>1. said[e] \in Nat
        BY <1>2 DEF GlobalInv
      <4>2. CASE f = Eof /\ said' = said
        BY <4>1, <4>2, EofIsItem DEF Weight
      <4>3. CASE said' = [said EXCEPT ![e] = @ + 1]
        BY <1>2, <4>1, <4>3, WeightIs DEF GlobalInv
      <4> QED
        BY <1>4, <4>2, <4>3
    <3>2. <<>> \in Seq(Items)
      OBVIOUS
    <3> QED
      BY <2>1, <2>2, <3>1, <3>2, CountedAppend
  <2> QED
    BY <1>1, <1>3, <1>6, <1>7, <1>10, <2>3, <2>4 DEF StreamInv
<1> QED
  BY <1>1, <1>8, <1>9, <1>11, <1>12, <1>13 DEF EndpointsInv

\* The endpoints before anything happens.
LEMMA InitialIsSound ==
  ASSUME NEW e \in Endpoints
  PROVE  LET p == InitProtocol(e) IN
         /\ Sound(p) /\ p.side = e /\ p.writes = <<>> /\ p.state = "CONNECTING" /\ p.parser = "http"
         /\ p.closeRcvd = NoCode /\ p.closeSent = NoCode /\ p.rcvdThenSent = "unset"
         /\ p.parserExc = NoCode /\ p.eofSent \in BOOLEAN
<1> DEFINE p == InitProtocol(e)
<1>1. Shaped(p) /\ p.side = e /\ p.writes = <<>>
  BY DEF InitProtocol, Shaped
<1>2. /\ p.state = "CONNECTING" /\ p.parser = "http" /\ p.closeRcvd = NoCode /\ p.closeSent = NoCode
      /\ p.rcvdThenSent = "unset" /\ p.parserExc = NoCode /\ p.eofSent = FALSE /\ p.broken = FALSE
  BY DEF InitProtocol
<1>3. SessionTypes(p)
  BY MaxSizeAssumption DEF InitProtocol, SessionTypes, Exts, NoSize
<1> HIDE DEF p
<1>4. p.eofSent \in BOOLEAN
  BY <1>2
<1>5. StatusTypes(p)
  BY <1>2, <1>4 DEF StatusTypes
<1>6. Kept(p)
  BY <1>2 DEF Kept, OkCodes
<1> QED
  BY <1>1, <1>2, <1>3, <1>4, <1>5, <1>6 DEF Sound, p

LEMMA EndpointsInvInit == Init => EndpointsInv
<1> SUFFICES ASSUME Init PROVE EndpointsInv
  OBVIOUS
<1>1. GlobalInv
  BY DEF Init, GlobalInv
<1>2. ASSUME NEW e \in Endpoints PROVE EndpointInv(e) /\ StreamInv(e)
  <2>1. /\ ep[e] = InitProtocol(e) /\ wire[e] = <<>> /\ closes[e] = <<>>
        /\ heard[e] = 0 /\ said[Peer(e)] = 0
    BY PeerIs DEF Init
  <2> DEFINE p == InitProtocol(e)
  <2>2. /\ Sound(p) /\ p.side = e /\ p.writes = <<>> /\ p.state = "CONNECTING" /\ p.parser = "http"
        /\ p.closeRcvd = NoCode /\ p.closeSent = NoCode /\ p.rcvdThenSent = "unset"
        /\ p.parserExc = NoCode /\ p.eofSent \in BOOLEAN
    BY InitialIsSound
  <2> HIDE DEF p
  <2>3. Idle(e)
    BY <2>1, <2>2 DEF Idle, Sound, Kept, p
  <2>4. EndpointInv(e)
    BY <2>1, <2>2, <2>3 DEF EndpointInv, p
  <2>5. Stream(<<>>) /\ ~Ended(<<>>)
    BY DEF Stream, Ended
  <2>6. Counted(<<>>, 0, 0)
    BY CountedEmpty
  <2>7. StreamInv(e)
    BY <2>1, <2>2, <2>5, <2>6 DEF StreamInv, p
  <2> QED
    BY <2>4, <2>7
<1> QED
  BY <1>1, <1>2 DEF EndpointsInv

LEMMA EndpointsInvNext == EndpointsInv /\ [Next]_vars => EndpointsInv'
<1> SUFFICES ASSUME EndpointsInv, [Next]_vars PROVE EndpointsInv'
  OBVIOUS
<1>1. CASE UNCHANGED vars
  BY <1>1 DEF vars, EndpointsInv, GlobalInv, EndpointInv, StreamInv, Idle, Native
<1>2. ASSUME NEW e \in Endpoints, Serve(e) PROVE EndpointsInv'
  BY <1>2, SendRequestKeeps, ReceiveRequestKeeps, RespondKeeps, ReceiveResponseKeeps,
     ReceiveFrameKeeps, DiscardKeeps, ReceiveEofKeeps DEF Serve
<1>3. ASSUME NEW e \in Endpoints, Apply(e) PROVE EndpointsInv'
  <2>1. ASSUME NEW fin \in cfg.fins, NEW size \in cfg.sizes, Send(e, fin, size) PROVE EndpointsInv'
    BY <2>1, SendKeeps
  <2> QED
    BY <1>3, <2>1, QuietCallsKeep DEF Apply
<1> QED
  BY <1>1, <1>2, <1>3, AbortKeeps, ForeignKeeps DEF Next

\* The invariant says all that EndpointsSound does.
LEMMA EndpointsInvImplies == EndpointsInv => EndpointsSound
<1> SUFFICES ASSUME EndpointsInv PROVE EndpointsSound
  OBVIOUS
<1>1. GlobalInv /\ \A e \in Endpoints : EndpointInv(e) /\ StreamInv(e)
  BY DEF EndpointsInv
<1>2. ASSUME NEW e \in Endpoints
      PROVE  /\ Shaped(ep[e]) /\ SessionTypes(ep[e]) /\ StatusTypes(ep[e]) /\ ~ep[e].broken
             /\ (ep[e].closeRcvd # NoCode /\ ep[e].closeSent # NoCode) <=> ep[e].rcvdThenSent # "unset"
  <2>1. CASE Native(e)
    BY <1>1, <2>1 DEF EndpointInv, Sound, Kept
  <2>2. CASE ~Native(e)
    <3>1. Idle(e)
      BY <1>1, <2>2 DEF EndpointInv
    <3> QED
      BY <3>1 DEF Idle, StatusTypes
  <2> QED
    BY <2>1, <2>2
<1>3. TypeOK
  <2>1. ASSUME NEW e \in Endpoints
        PROVE  /\ ep[e].side = e /\ ep[e].writes = <<>>
               /\ ep[e].state \in {"CONNECTING", "OPEN", "CLOSING", "CLOSED"}
               /\ ep[e].parser \in {"http", "frames", "discard"}
               /\ ep[e].current \in NoSize..MaxSize /\ ep[e].rcvdThenSent \in {"unset", "yes", "no"}
    <3>1. ep[e].side = e /\ ep[e].writes = <<>>
      BY <1>1 DEF EndpointInv
    <3>2. ep[e].current \in NoSize..MaxSize
      BY <1>2 DEF SessionTypes
    <3> QED
      BY <1>2, <3>1, <3>2 DEF StatusTypes
  <2>2. ASSUME NEW e \in Endpoints
        PROVE  /\ ep[e].closeRcvd \in Codes \ {EofError} /\ ep[e].closeSent \in Codes \ {EofError}
               /\ ep[e].parserExc \in Codes \ {1000, 1001, NoStatus, 1011}
    <3>1. {NoCode} \cup FrameCodes \subseteq Codes \ {EofError}
      BY DEF FrameCodes, Codes, NoCode, NoStatus, EofError
    <3>2. {NoCode, 1002, EofError, 1007, 1009} \subseteq Codes \ {1000, 1001, NoStatus, 1011}
      BY DEF Codes, NoCode, NoStatus, EofError
    <3> QED
      BY <1>2, <3>1, <3>2 DEF StatusTypes
  <2>3. ASSUME NEW e \in Endpoints PROVE \A i \in DOMAIN wire[e] : i < Len(wire[e]) => wire[e][i] # Eof
    <3>1. Stream(wire[e])
      BY <1>1 DEF StreamInv
    <3> QED
      BY <3>1 DEF Stream
  <2>4. ASSUME NEW e \in Endpoints PROVE heard[e] <= said[Peer(e)]
    <3>1. Stream(wire[e]) /\ Counted(wire[e], heard[e], said[Peer(e)]) /\ said[Peer(e)] \in Nat
      BY <1>1, PeerIs DEF StreamInv, GlobalInv
    <3> QED
      BY <3>1, CountedBounds DEF Stream
  <2>5. cut \subseteq Endpoints /\ over \subseteq Endpoints
    BY <1>1 DEF GlobalInv
  <2> QED
    BY <2>1, <2>2, <2>3, <2>4, <2>5 DEF TypeOK
<1>4. AssertionsHold
  BY <1>2 DEF AssertionsHold
<1>5. ClosesRecorded
  BY <1>1, <1>2 DEF ClosesRecorded, EndpointInv
<1> QED
  BY <1>3, <1>4, <1>5 DEF EndpointsSound

\* The inductive invariant holds in every state.
THEOREM EndpointsInvariant == Spec => []EndpointsInv
<1>1. Init => EndpointsInv
  BY EndpointsInvInit
<1>2. EndpointsInv /\ [Next]_vars => EndpointsInv'
  BY EndpointsInvNext
<1> QED
  BY <1>1, <1>2, PTL DEF Spec

\* Each endpoint by itself is sound in every state, for any factories, windows,
\* sizes and configurations, whatever its peer sends and wherever the TCP
\* connection is cut: none of the assertions of protocol.py (send_eof, discard,
\* send_close, the states at the end of a handshake) fails, close_sent is the
\* one close frame on the network, and no more is heard than was said.
THEOREM EndpointsAlwaysSound == Spec => []EndpointsSound
<1>1. Spec => []EndpointsInv
  BY EndpointsInvariant
<1>2. EndpointsInv => EndpointsSound
  BY EndpointsInvImplies
<1> QED
  BY <1>1, <1>2, PTL

--------------------------------------------------------------------------------
(* The two together.  A mark is what a reader knows before it reads an     *)
(* item: the part of its parser, the size of the message it is in, the     *)
(* frames its decompressor has seen, the data frames it has heard.  Every  *)
(* stream leads from the mark of its reader to what its sender has told.   *)

Marks == [at: {"http", "frames"}, cur: {NoSize} \cup Nat, dec: Nat, heard: Nat]

\* A data frame f, written with the extension x, leads from m to n.
DataRead(x, allowed, m, f, n) ==
  LET first == m.cur = NoSize
      total == f.size + IF first THEN 0 ELSE m.cur
  IN  /\ m.at = "frames" /\ n.at = "frames"
      /\ f.kind = IF first THEN "text" ELSE "cont"
      /\ f.rsv <=> (first /\ x.enabled)
      /\ IF x.enabled
         THEN /\ f.ctx = IF first /\ x.localNct THEN 0 ELSE m.dec
              /\ f.bits = x.localBits /\ n.dec = f.ctx + 1
         ELSE n.dec = m.dec
      /\ total <= MaxSize \/ allowed
      /\ n.cur = IF f.fin THEN NoSize ELSE total
      /\ n.heard = m.heard + 1

\* The applications' pings carry no payload (see SendPingAt).
QuietPings == \A c \in Configs : c.ping <= 0

\* The item f of a sender p, which has said b data frames and is among o if it
\* exceeded max_size, leads from m to n.
Reads(p, b, o, m, f, n) ==
  \/ f.kind \in {"text", "cont"} /\ DataRead(p.ext, p.side \in o, m, f, n)
  \/ f.kind \in {"ping", "pong"} /\ (f.size = 0 \/ ~QuietPings) /\ ~f.rsv /\ m.at = "frames" /\ n = m
  \/ /\ f.kind = "close" /\ f.size = 0 /\ ~f.rsv /\ m.at = "frames"
     /\ f.code = p.closeSent /\ m.heard = b /\ n = m
  \/ f.kind \in {"request", "response"} /\ m.at = "http" /\ n = [m EXCEPT !.at = "frames"]
  \/ f = Eof /\ n = m

Path(w, p, b, o, m, n) ==
  \E st \in [1..Len(w) + 1 -> Marks] :
    /\ st[1] = m /\ st[Len(w) + 1] = n
    /\ \A i \in 1..Len(w) : Reads(p, b, o, st[i], w[i], st[i + 1])

LEMMA PathEmpty ==
  ASSUME NEW p, NEW b, NEW o, NEW m \in Marks
  PROVE  /\ Path(<<>>, p, b, o, m, m)
         /\ \A n : Path(<<>>, p, b, o, m, n) => n = m
<1> DEFINE st == [i \in 1..1 |-> m]
<1>1. /\ st \in [1..Len(<<>>) + 1 -> Marks] /\ st[1] = m /\ st[Len(<<>>) + 1] = m
      /\ \A i \in 1..Len(<<>>) : Reads(p, b, o, st[i], <<>>[i], st[i + 1])
  OBVIOUS
<1> HIDE DEF st
<1>2. Path(<<>>, p, b, o, m, m)
  BY <1>1 DEF Path
<1>3. ASSUME NEW n, Path(<<>>, p, b, o, m, n) PROVE n = m
  BY <1>3 DEF Path
<1> QED
  BY <1>2, <1>3

\* Reading an item.
LEMMA PathTail ==
  ASSUME NEW w \in Seq(Items), w # <<>>, NEW p, NEW b, NEW o, NEW m, NEW n, Path(w, p, b, o, m, n)
  PROVE  \E k \in Marks : Reads(p, b, o, m, Head(w), k) /\ Path(Tail(w), p, b, o, k, n)
<1>1. PICK st \in [1..Len(w) + 1 -> Marks] :
        /\ st[1] = m /\ st[Len(w) + 1] = n
        /\ \A i \in 1..Len(w) : Reads(p, b, o, st[i], w[i], st[i + 1])
  BY DEF Path
<1> DEFINE v == Tail(w)
<1>2. /\ Len(w) \in Nat /\ Len(w) >= 1 /\ Head(w) = w[1] /\ v \in Seq(Items) /\ Len(v) = Len(w) - 1
      /\ \A i \in 1..Len(v) : v[i] = w[i + 1]
  OBVIOUS
<1> HIDE DEF v
<1> DEFINE t == [i \in 1..Len(v) + 1 |-> st[i + 1]]
<1>3. \A i \in 1..Len(v) + 1 : i + 1 \in 1..Len(w) + 1 /\ t[i] = st[i + 1] /\ st[i + 1] \in Marks
  <2>1. \A i \in 1..Len(v) + 1 : i + 1 \in 1..Len(w) + 1
    BY <1>2
  <2> QED
    BY <1>1, <2>1
<1>4. t \in [1..Len(v) + 1 -> Marks]
  BY <1>3
<1>5. t[1] = st[2] /\ t[Len(v) + 1] = n
  <2>1. 1 \in 1..Len(v) + 1 /\ Len(v) + 1 \in 1..Len(v) + 1 /\ 1 + 1 = 2 /\ (Len(v) + 1) + 1 = Len(w) + 1
    BY <1>2
  <2> HIDE DEF t
  <2> QED
    BY <1>1, <1>3, <2>1
<1>6. ASSUME NEW i \in 1..Len(v) PROVE Reads(p, b, o, t[i], v[i], t[i + 1])
  <2>1. i \in 1..Len(v) + 1 /\ i + 1 \in 1..Len(v) + 1 /\ i + 1 \in 1..Len(w) /\ v[i] = w[i + 1]
    BY <1>2
  <2>2. t[i] = st[i + 1] /\ t[i + 1] = st[(i + 1) + 1]
    BY <1>3, <2>1
  <2> HIDE DEF t
  <2> QED
    BY <1>1, <2>1, <2>2
<1>7. Reads(p, b, o, m, Head(w), st[2]) /\ st[2] \in Marks
  <2>1. 1 \in 1..Len(w) /\ 2 \in 1..Len(w) + 1 /\ 1 + 1 = 2
    BY <1>2
  <2> QED
    BY <1>1, <1>2, <2>1
<1> HIDE DEF t
<1>8. Path(v, p, b, o, st[2], n)
  BY <1>4, <1>5, <1>6 DEF Path
<1> QED
  BY <1>7, <1>8 DEF v

\* Writing an item.
LEMMA PathAppend ==
  ASSUME NEW w \in Seq(Items), NEW f \in Items, NEW p, NEW b, NEW o, NEW m, NEW n, Path(w, p, b, o, m, n),
         NEW k \in Marks, Reads(p, b, o, n, f, k)
  PROVE  Path(Append(w, f), p, b, o, m, k)
<1>1. PICK st \in [1..Len(w) + 1 -> Marks] :
        /\ st[1] = m /\ st[Len(w) + 1] = n
        /\ \A i \in 1..Len(w) : Reads(p, b, o, st[i], w[i], st[i + 1])
  BY DEF Path
<1> DEFINE v == Append(w, f)
<1>2. /\ Len(w) \in Nat /\ v \in Seq(Items) /\ Len(v) = Len(w) + 1 /\ v[Len(w) + 1] = f
      /\ \A i \in 1..Len(w) : v[i] = w[i]
  OBVIOUS
<1> HIDE DEF v
<1> DEFINE t == [i \in 1..Len(v) + 1 |-> IF i = Len(v) + 1 THEN k ELSE st[i]]
<1>3. \A i \in 1..Len(v) : st[i] \in Marks /\ t[i] = st[i]
  <2>1. \A i \in 1..Len(v) : i \in 1..Len(w) + 1 /\ i \in 1..Len(v) + 1 /\ i # Len(v) + 1
    BY <1>2
  <2> QED
    BY <1>1, <2>1
<1>4. t \in [1..Len(v) + 1 -> Marks]
  <2>1. \A i \in 1..Len(v) + 1 : i # Len(v) + 1 => i \in 1..Len(v)
    BY <1>2
  <2> QED
    BY <1>3, <2>1
<1>5. t[1] = m /\ t[Len(v) + 1] = k /\ t[Len(v)] = n
  <2>1. 1 \in 1..Len(v) /\ Len(v) \in 1..Len(v) /\ Len(v) + 1 \in 1..Len(v) + 1
    BY <1>2
  <2> QED
    BY <1>1, <1>2, <1>3, <2>1
<1>6. ASSUME NEW i \in 1..Len(v) PROVE Reads(p, b, o, t[i], v[i], t[i + 1])
  <2>1. CASE i = Len(v)
    <3>1. v[i] = f
      BY <1>2, <2>1
    <3> HIDE DEF t
    <3> QED
      BY <1>5, <2>1, <3>1
  <2>2. CASE i # Len(v)
    <3>1. i \in 1..Len(w) /\ i + 1 \in 1..Len(v) /\ v[i] = w[i]
      BY <1>2, <2>2
    <3>2. t[i] = st[i] /\ t[i + 1] = st[i + 1]
      BY <1>3, <3>1
    <3> HIDE DEF t
    <3> QED
      BY <1>1, <3>1, <3>2
  <2> QED
    BY <2>1, <2>2
<1> HIDE DEF t
<1> QED
  BY <1>4, <1>5, <1>6 DEF Path, v

\* Losing the tail of a stream.
LEMMA PathPrefix ==
  ASSUME NEW w \in Seq(Items), NEW d \in 0..Len(w), NEW p, NEW b, NEW o, NEW m, NEW n, Path(w, p, b, o, m, n)
  PROVE  \E k \in Marks : Path(SubSeq(w, 1, d), p, b, o, m, k)
<1>1. PICK st \in [1..Len(w) + 1 -> Marks] :
        /\ st[1] = m /\ st[Len(w) + 1] = n
        /\ \A i \in 1..Len(w) : Reads(p, b, o, st[i], w[i], st[i + 1])
  BY DEF Path
<1> DEFINE v == SubSeq(w, 1, d)
<1>2. v \in Seq(Items) /\ Len(v) = d /\ \A i \in 1..d : v[i] = w[i]
  OBVIOUS
<1> HIDE DEF v
<1> DEFINE t == [i \in 1..Len(v) + 1 |-> st[i]]
<1>3. \A i \in 1..Len(v) + 1 : i \in 1..Len(w) + 1 /\ t[i] = st[i] /\ st[i] \in Marks
  <2>1. \A i \in 1..Len(v) + 1 : i \in 1..Len(w) + 1
    BY <1>2
  <2> QED
    BY <1>1, <2>1
<1>4. t \in [1..Len(v) + 1 -> Marks]
  BY <1>3
<1>5. t[1] = m
  <2>1. 1 \in 1..Len(v) + 1
    BY <1>2
  <2> QED
    BY <1>1, <1>3, <2>1
<1>6. \A i \in 1..Len(v) : Reads(p, b, o, t[i], v[i], t[i + 1])
  <2>1. \A i \in 1..Len(v) : i \in 1..Len(w) /\ i \in 1..Len(v) + 1 /\ i + 1 \in 1..Len(v) + 1 /\ v[i] = w[i]
    BY <1>2
  <2> HIDE DEF t
  <2> QED
    BY <1>1, <1>3, <2>1
<1>7. t[Len(v) + 1] \in Marks
  <2>1. Len(v) + 1 \in 1..Len(v) + 1
    BY <1>2
  <2> QED
    BY <1>3, <2>1
<1> HIDE DEF t
<1>8. Path(v, p, b, o, m, t[Len(v) + 1])
  BY <1>4, <1>5, <1>6 DEF Path
<1> QED
  BY <1>7, <1>8 DEF v

\* What the sender does next does not change what it has sent.
LEMMA PathStays ==
  ASSUME NEW w \in Seq(Items), NEW p, NEW b, NEW o, NEW m, NEW n, Path(w, p, b, o, m, n),
         NEW q, NEW c, NEW r, q.side = p.side, o \subseteq r,
         q.ext = p.ext \/ \A f \in ToSet(w) : f.kind \notin {"text", "cont"},
         p.closeSent = NoCode \/ (q.closeSent = p.closeSent /\ c = b)
  PROVE  Path(w, q, c, r, m, n)
<1>1. PICK st \in [1..Len(w) + 1 -> Marks] :
        /\ st[1] = m /\ st[Len(w) + 1] = n
        /\ \A i \in 1..Len(w) : Reads(p, b, o, st[i], w[i], st[i + 1])
  BY DEF Path
<1>2. ASSUME NEW i \in 1..Len(w) PROVE Reads(q, c, r, st[i], w[i], st[i + 1])
  <2>1. Reads(p, b, o, st[i], w[i], st[i + 1]) /\ w[i] \in Items
    BY <1>1
  <2>2. w[i].kind = "close" => w[i].code # NoCode
    <3>1. w[i].kind = "close" => w[i] \in FrameSet
      BY <2>1, ItemKinds DEF Frames
    <3> QED
      BY <3>1 DEF FrameSet
  <2>3. CASE w[i].kind \in {"text", "cont"} /\ DataRead(p.ext, p.side \in o, st[i], w[i], st[i + 1])
    <3>1. q.ext = p.ext
      BY <2>3 DEF ToSet
    <3>2. DataRead(p.ext, q.side \in r, st[i], w[i], st[i + 1])
      BY <2>3 DEF DataRead
    <3> QED
      BY <2>3, <3>1, <3>2 DEF Reads
  <2>4. CASE ~(w[i].kind \in {"text", "cont"} /\ DataRead(p.ext, p.side \in o, st[i], w[i], st[i + 1]))
    BY <2>1, <2>2, <2>4 DEF Reads
  <2> QED
    BY <2>3, <2>4
<1> QED
  BY <1>1, <1>2 DEF Path

--------------------------------------------------------------------------------
(* What two endpoints of this library negotiate.                           *)

\* The answer of a factory to an offer is one the client takes, and the two
\* configurations that follow from it fit.
LEMMA AnswerFits ==
  ASSUME NEW f \in Factories, NEW o \in Params
  PROVE  LET r == ServerParams(f, o)
         IN  /\ ~ClientRefuses(o, r)
             /\ Compatible(ClientExtension(o, r), ServerExtension(r))
             /\ Compatible(ServerExtension(r), ClientExtension(o, r))
<1> DEFINE r == ServerParams(f, o)
<1>1. /\ f.smwb \in {NoBits} \cup Windows /\ f.cmwb \in {NoBits} \cup Windows /\ f.snct \in BOOLEAN /\ f.cnct \in BOOLEAN
      /\ o.smwb \in {NoBits} \cup Windows /\ o.cmwb \in {NoBits, Asked} \cup Windows
      /\ o.snct \in BOOLEAN /\ o.cnct \in BOOLEAN
  BY DEF Factories, Params
<1>2. \A x \in Windows : x \in Nat /\ x >= 8
  BY WindowsAssumption
<1>3. /\ r.smwb = Narrower(f.smwb, o.smwb)
      /\ r.cmwb = IF o.cmwb = NoBits THEN NoBits ELSE IF o.cmwb = Asked THEN f.cmwb ELSE Narrower(f.cmwb, o.cmwb)
      /\ (r.snct <=> (f.snct \/ o.snct)) /\ (r.cnct <=> (f.cnct \/ o.cnct))
      /\ r.snct \in BOOLEAN /\ r.cnct \in BOOLEAN
  BY DEF ServerParams
<1> HIDE DEF r
<1>4. /\ o.smwb # NoBits => r.smwb \in Windows /\ r.smwb <= o.smwb
      /\ r.smwb \in {NoBits} \cup Windows
  BY <1>1, <1>2, <1>3 DEF Narrower, NoBits
<1>5. /\ r.cmwb \in {NoBits} \cup Windows /\ (o.cmwb = NoBits => r.cmwb = NoBits)
      /\ o.cmwb \in Windows => r.cmwb \in Windows /\ r.cmwb <= o.cmwb
  <2>1. CASE o.cmwb = NoBits
    BY <1>2, <1>3, <2>1 DEF NoBits
  <2>2. CASE o.cmwb = Asked
    BY <1>1, <1>2, <1>3, <2>2 DEF NoBits, Asked
  <2>3. CASE o.cmwb \in Windows
    BY <1>1, <1>2, <1>3, <2>3 DEF Narrower, NoBits, Asked
  <2> QED
    BY <1>1, <2>1, <2>2, <2>3
<1>6. ~ClientRefuses(o, r)
  <2>1. r.cmwb # Asked
    BY <1>2, <1>5 DEF NoBits, Asked
  <2>2. o.snct => r.snct
    BY <1>3
  <2>3. ~(o.smwb # NoBits /\ (r.smwb = NoBits \/ r.smwb > o.smwb))
    BY <1>1, <1>2, <1>4 DEF NoBits
  <2>4. ~(o.cmwb \in Windows /\ r.cmwb > o.cmwb)
    BY <1>2, <1>5
  <2> QED
    BY <1>5, <2>1, <2>2, <2>3, <2>4 DEF ClientRefuses
<1> DEFINE bits == IF r.cmwb = NoBits /\ o.cmwb \in Windows THEN o.cmwb ELSE r.cmwb
<1>7. bits = r.cmwb
  BY <1>2, <1>5 DEF NoBits
<1> HIDE DEF bits
<1> DEFINE local == o.cnct \/ r.cnct
<1>8. local = r.cnct
  BY <1>1, <1>3
<1> HIDE DEF local
<1>9. ClientExtension(o, r) = Extension(r.snct, r.cnct, r.smwb, r.cmwb)
  <2>1. ClientExtension(o, r) = Extension(r.snct, local, r.smwb, bits)
    BY DEF ClientExtension, local, bits
  <2> QED
    BY <1>7, <1>8, <2>1
<1>10. ServerExtension(r) = Extension(r.cnct, r.snct, r.cmwb, r.smwb)
  BY DEF ServerExtension
<1>11. ASSUME NEW a \in BOOLEAN, NEW b \in BOOLEAN, NEW m \in {NoBits} \cup Windows, NEW n \in {NoBits} \cup Windows
       PROVE  Compatible(Extension(a, b, m, n), Extension(b, a, n, m))
  BY <1>2 DEF Compatible, Extension, NoBits
<1> QED
  BY <1>3, <1>4, <1>5, <1>6, <1>9, <1>10, <1>11 DEF r

Matches(offers, answer) == {n \in DOMAIN offers : ~ClientRefuses(offers[n], answer)}

\* The client's first match is the offer that the server took: the server
\* only skips an offer without client_max_window_bits, for factories that all
\* require it, and the answer then has a window that this offer refuses.
LEMMA FirstMatch ==
  ASSUME NEW factories \in Seq(Factories), NEW offers \in Seq(Params),
         NEW x, x = ProcessExtensions(factories, offers), x.enabled
  PROVE  \E i \in DOMAIN offers : \E f \in Factories :
           /\ offers[i] \in Params /\ x.params = ServerParams(f, offers[i])
           /\ i \in Matches(offers, x.params) /\ i = Least(Matches(offers, x.params))
<1> DEFINE taken == {n \in DOMAIN offers : Takers(factories, offers[n]) # {}}
<1> DEFINE i == Least(taken)
<1> DEFINE j == Least(Takers(factories, offers[i]))
<1>1. taken # {} /\ x = [enabled |-> TRUE, params |-> ServerParams(factories[j], offers[i])]
  <2>1. taken = {} => x = [enabled |-> FALSE]
    BY DEF ProcessExtensions
  <2>2. taken # {} => x = [enabled |-> TRUE, params |-> ServerParams(factories[j], offers[i])]
    BY DEF ProcessExtensions
  <2> HIDE DEF taken, i, j
  <2>3. taken # {}
    BY <2>1
  <2> QED
    BY <2>2, <2>3
<1>2. taken \in SUBSET Nat
  OBVIOUS
<1>3. i \in taken /\ \A n \in taken : i <= n
  BY <1>1, <1>2, LeastIn
<1> HIDE DEF i
<1>4. Takers(factories, offers[i]) \in SUBSET Nat /\ Takers(factories, offers[i]) # {}
  BY <1>3 DEF Takers
<1>5. j \in Takers(factories, offers[i])
  BY <1>4, LeastIn
<1> HIDE DEF j
<1> DEFINE f == factories[j]
<1> DEFINE o == offers[i]
<1>6. f \in Factories /\ o \in Params /\ ~ServerDeclines(f, o) /\ i \in DOMAIN offers /\ j \in DOMAIN factories
  BY <1>3, <1>5 DEF Takers
<1> DEFINE r == ServerParams(f, o)
<1>7. x.params = r
  BY <1>1
<1>8. ~ClientRefuses(o, r)
  BY <1>6, AnswerFits
<1>9. ASSUME NEW n \in DOMAIN offers, n \notin taken PROVE ClientRefuses(offers[n], r)
  <2>1. ServerDeclines(f, offers[n])
    BY <1>6, <1>9 DEF Takers
  <2>2. f.cmwb # NoBits /\ f.require /\ offers[n].cmwb = NoBits /\ o.cmwb # NoBits
    BY <1>6, <2>1 DEF ServerDeclines
  <2>3. f.cmwb \in Windows /\ o.cmwb \in {Asked} \cup Windows
    BY <1>6, <2>2 DEF Factories, Params
  <2>4. r.cmwb = IF o.cmwb = Asked THEN f.cmwb ELSE Narrower(f.cmwb, o.cmwb)
    BY <2>2 DEF ServerParams
  <2> HIDE DEF f, o, r
  <2>5. r.cmwb # NoBits
    BY <2>2, <2>3, <2>4 DEF Narrower
  <2> QED
    BY <2>2, <2>5 DEF ClientRefuses
<1> DEFINE matching == Matches(offers, r)
<1>10. i \in matching /\ matching \in SUBSET Nat
  BY <1>6, <1>8 DEF Matches
<1>11. Least(matching) \in matching /\ \A n \in matching : Least(matching) <= n
  BY <1>10, LeastIn
<1>12. \A n \in matching : n \in taken
  BY <1>9 DEF Matches
<1>13. i = Least(matching)
  <2>1. i <= Least(matching) /\ Least(matching) <= i /\ i \in Nat /\ Least(matching) \in Nat
    BY <1>3, <1>10, <1>11, <1>12
  <2> HIDE DEF matching
  <2> QED
    BY <2>1
<1> QED
  BY <1>6, <1>7, <1>10, <1>13

\* The client never refuses the 101 of a server of this library, and their
\* compressors and decompressors then fit.
LEMMA NegotiationAgrees ==
  ASSUME NEW k \in Configs, NEW r, r = Accept(k.server, Connect(k.client)), r.status = 101
  PROVE  /\ ~ResponseRefused(k.client, r)
         /\ Compatible(ClientAccepted(k.client, r), Accepted(r))
         /\ Compatible(Accepted(r), ClientAccepted(k.client, r))
<1> DEFINE q == Connect(k.client)
<1> DEFINE x == ProcessExtensions(k.server.factories, q.offers)
<1> DEFINE sub == SelectSubprotocol(k.server.subs, q.subs)
<1>1. q.offers = k.client.offers /\ q.subs = k.client.subs /\ q.upgrade /\ q.valid
  BY DEF Connect
<1>2. /\ k.client.offers \in Seq(Params) /\ k.client.subs \in Seq(STRING)
      /\ k.server.factories \in Seq(Factories) /\ k.server.subs \in Seq(STRING)
  BY ConfigsAssumption
<1> HIDE DEF q
<1>3. r = [kind |-> "response", status |-> 101, valid |-> TRUE, ext |-> x, sub |-> sub]
  <2>1. \A n \in {400, 403, 426} : Reject(n).status # 101
    BY DEF Reject
  <2>2. CASE k.server.origins # {} /\ q.origin \notin k.server.origins
    BY <1>1, <2>1, <2>2 DEF Accept, q
  <2>3. CASE ~(k.server.origins # {} /\ q.origin \notin k.server.origins)
    BY <1>1, <2>1, <2>3 DEF Accept, q
  <2> QED
    BY <2>2, <2>3
<1>4. r.sub # NoSub => r.sub \in ToSet(k.client.subs)
  <2>1. sub \in {NoSub} \cup (ToSet(k.server.subs) \cap ToSet(q.subs))
    BY <1>2, SelectSubprotocolIs
  <2> HIDE DEF sub
  <2> QED
    BY <1>1, <1>3, <2>1
<1>5. r.ext = x /\ r.status = 101 /\ r.valid
  BY <1>3
<1>6. CASE ~x.enabled
  <2>1. ClientAccepted(k.client, r) = NoExt /\ Accepted(r) = NoExt
    BY <1>5, <1>6 DEF ClientAccepted, Accepted
  <2>2. Compatible(NoExt, NoExt)
    BY DEF Compatible, NoExt
  <2> QED
    BY <1>4, <1>5, <1>6, <2>1, <2>2 DEF ResponseRefused
<1>7. CASE x.enabled
  <2>1. PICK i \in DOMAIN k.client.offers : \E f \in Factories :
          /\ k.client.offers[i] \in Params /\ x.params = ServerParams(f, k.client.offers[i])
          /\ i \in Matching(k.client, r) /\ i = Least(Matching(k.client, r))
    <3>1. x = ProcessExtensions(k.server.factories, k.client.offers)
      BY <1>1
    <3> HIDE DEF x
    <3> DEFINE M == Matches(k.client.offers, x.params)
    <3>2. M = Matching(k.client, r)
      BY <1>5 DEF Matching, Matches
    <3>3. \E i \in DOMAIN k.client.offers : \E f \in Factories :
            /\ k.client.offers[i] \in Params /\ x.params = ServerParams(f, k.client.offers[i])
            /\ i \in M /\ i = Least(M)
      BY <1>2, <1>7, <3>1, FirstMatch
    <3> HIDE DEF M
    <3>4. PICK i \in DOMAIN k.client.offers : \E f \in Factories :
            /\ k.client.offers[i] \in Params /\ x.params = ServerParams(f, k.client.offers[i])
            /\ i \in M /\ i = Least(M)
      BY <3>3
    <3>5. i \in Matching(k.client, r) /\ i = Least(Matching(k.client, r))
      BY <3>2, <3>4
    <3> QED
      BY <3>4, <3>5
  <2>2. PICK f \in Factories : x.params = ServerParams(f, k.client.offers[i])
    BY <2>1
  <2> HIDE DEF x
  <2>3. Matching(k.client, r) # {}
    BY <2>1
  <2>4. ClientAccepted(k.client, r) = ClientExtension(k.client.offers[i], x.params)
    BY <1>5, <1>7, <2>1 DEF ClientAccepted
  <2>5. Accepted(r) = ServerExtension(x.params)
    BY <1>5, <1>7 DEF Accepted
  <2>6. /\ Compatible(ClientExtension(k.client.offers[i], x.params), ServerExtension(x.params))
        /\ Compatible(ServerExtension(x.params), ClientExtension(k.client.offers[i], x.params))
    BY <2>1, <2>2, AnswerFits
  <2> QED
    BY <1>4, <1>5, <2>3, <2>4, <2>5, <2>6 DEF ResponseRefused
<1> QED
  BY <1>6, <1>7

\* What a method writes leads on from what was there before.
LEMMA PathGrows ==
  ASSUME NEW w \in Seq(Items), NEW p, NEW b, NEW o, NEW m, NEW n \in Marks, Path(w, p, b, o, m, n),
         NEW k \in Marks, NEW v,
         \/ (v = <<>> \/ v = <<Eof>>) /\ k = n
         \/ \E f \in Items : (v = <<f>> \/ v = <<f, Eof>>) /\ Reads(p, b, o, n, f, k)
  PROVE  Path(w \o v, p, b, o, m, k)
<1>1. \A x \in Marks : Reads(p, b, o, x, Eof, x)
  BY DEF Reads
<1>2. Eof \in Items
  BY EofIsItem
<1>3. \A f \in Items : w \o <<f>> = Append(w, f) /\ Append(w, f) \in Seq(Items)
  OBVIOUS
<1>4. CASE v = <<>> /\ k = n
  BY <1>4
<1>5. CASE v = <<Eof>> /\ k = n
  BY <1>1, <1>2, <1>3, <1>5, PathAppend
<1>6. ASSUME NEW f \in Items, Reads(p, b, o, n, f, k) PROVE Path(w \o <<f>>, p, b, o, m, k)
  BY <1>3, <1>6, PathAppend
<1>7. ASSUME NEW f \in Items, Reads(p, b, o, n, f, k) PROVE Path(w \o <<f, Eof>>, p, b, o, m, k)
  <2>1. <<f, Eof>> = Append(<<f>>, Eof)
    BY AppendTwo
  <2>2. w \o <<f, Eof>> = Append(w \o <<f>>, Eof)
    BY <1>2, <2>1
  <2>3. Path(w \o <<f>>, p, b, o, m, k) /\ w \o <<f>> \in Seq(Items)
    BY <1>3, <1>6, <1>7
  <2> QED
    BY <1>1, <1>2, <2>2, <2>3, PathAppend
<1> QED
  BY <1>4, <1>5, <1>6, <1>7

--------------------------------------------------------------------------------
(* The inductive invariant of the two.                                     *)

Response == Accept(cfg.server, Connect(cfg.client))

\* What u has not sent yet: the server its response, the client its request.
Silent(u) ==
  IF u = "server"
  THEN ep["server"].parser = "http" \/ (ep["server"].state = "CONNECTING" /\ ep["server"].parser = "frames")
  ELSE ep["server"].parser = "http" /\ wire["server"] = <<>>

\* The mark of a reader, and of one that has read all that u has sent.
MarkOf(p, h) == [at |-> p.parser, cur |-> p.current, dec |-> p.dec, heard |-> h]
ToldOf(p, at, m, s) ==
  [at |-> at, cur |-> IF p.expectCont THEN m ELSE NoSize, dec |-> p.enc, heard |-> s]

Mark(e) == MarkOf(ep[e], heard[e])
Told(u) == ToldOf(ep[u], IF Silent(u) THEN "http" ELSE "frames", message[u], said[u])

PathInv(e) ==
  ep[e].parser # "discard" =>
    \E n \in Marks : /\ Path(wire[e], ep[Peer(e)], said[Peer(e)], over, Mark(e), n)
                     /\ cut = {} => n = Told(Peer(e))

Unfinished(p) ==
  p.parser # "discard" /\ (p.ext.enabled \/ p.state = "CONNECTING") => (p.decCont <=> p.current # NoSize)

\* The server has sent its response, and the client has accepted it.
Replied ==
  /\ ~Silent("server") /\ ep["server"].ext = Accepted(Response) /\ ep["server"].sub = Response.sub
  /\ Response.status # 101 => ep["server"].eofSent
Joined == ep["client"].parser # "http" /\ ~ep["client"].handshakeExc

Asking ==
  /\ request \in {NoRequest, Connect(cfg.client)}
  /\ \A f \in ToSet(wire["server"]) : f.kind = "request" => f = Connect(cfg.client)

Answering ==
  /\ \A f \in ToSet(wire["client"]) : f.kind = "response" => f = Response /\ Replied
  /\ Joined =>
       /\ Replied /\ Response.status = 101
       /\ ep["client"].ext = ClientAccepted(cfg.client, Response) /\ ep["client"].sub = Response.sub

\* Nothing is sent before its time.
Early ==
  /\ Silent("server") => ToSet(wire["client"]) \subseteq {Eof}
  /\ Silent("server") \/ ~Joined => \A f \in ToSet(wire["server"]) : f.kind \in {"request", "eof"}

Closing(w) == \E f \in ToSet(w) : f.kind = "close"

\* How the streams end, as long as nobody cuts them.
Ending(u) ==
  /\ ep[u].handshakeExc => ep[u].eofSent
  /\ cut = {} =>
       /\ ep[u].closeSent # NoCode /\ ep[Peer(u)].parser # "discard" => Closing(wire[Peer(u)])
       /\ ep[u].eofSent => ep[u].closeSent # NoCode \/ ep[u].handshakeExc

ServerFirst ==
  cut = {} => /\ ep["client"].eofSent => ep["server"].eofSent
              /\ ep["server"].handshakeExc => Response.status # 101

\* The exceptions p may keep when its peer exceeded max_size or did not.
Excused(p, exceeded) ==
  \/ p.parserExc = NoCode
  \/ p.parserExc = 1009 /\ (exceeded \/ ~QuietPings)
  \/ p.parserExc = 1002 /\ p.closeRcvd # NoCode /\ p.current # NoSize

Clean(e) == cut = {} => Excused(ep[e], Peer(e) \in over)

Lossless(e) ==
  /\ ep[e].closeRcvd # NoCode => ep[e].closeRcvd = ep[Peer(e)].closeSent /\ heard[e] = said[Peer(e)]
  /\ ep[e].rcvdThenSent = "yes" => ep[Peer(e)].rcvdThenSent # "yes"

Joint == Asking /\ Answering /\ Early /\ ServerFirst
Own(e) == Unfinished(ep[e]) /\ Ending(e) /\ Clean(e) /\ Lossless(e)

PairInv == cfg.foreign = "none" => Joint /\ \A e \in Endpoints : PathInv(e) /\ Own(e)

--------------------------------------------------------------------------------
(* What the streams hold.                                                  *)

LEMMA ToSetConcat ==
  ASSUME NEW w \in Seq(Items), NEW v \in Seq(Items)
  PROVE  ToSet(w \o v) = ToSet(w) \cup ToSet(v)
<1>1. /\ Len(w) \in Nat /\ Len(v) \in Nat /\ Len(w \o v) = Len(w) + Len(v)
      /\ DOMAIN w = 1..Len(w) /\ DOMAIN v = 1..Len(v) /\ DOMAIN (w \o v) = 1..Len(w) + Len(v)
      /\ \A i \in 1..Len(w) : (w \o v)[i] = w[i]
      /\ \A i \in Len(w) + 1..Len(w) + Len(v) : (w \o v)[i] = v[i - Len(w)]
  OBVIOUS
<1> DEFINE s == w \o v
<1> HIDE DEF s
<1>2. ASSUME NEW f \in ToSet(s) PROVE f \in ToSet(w) \cup ToSet(v)
  <2>1. PICK i \in 1..Len(w) + Len(v) : f = s[i]
    BY <1>1 DEF ToSet, s
  <2>2. CASE i \in 1..Len(w)
    BY <1>1, <2>1, <2>2 DEF ToSet, s
  <2>3. CASE i \notin 1..Len(w)
    <3>1. i \in Len(w) + 1..Len(w) + Len(v) /\ i - Len(w) \in 1..Len(v)
      BY <1>1, <2>1, <2>3
    <3>2. f = v[i - Len(w)]
      BY <1>1, <2>1, <3>1 DEF s
    <3> QED
      BY <1>1, <3>1, <3>2 DEF ToSet
  <2> QED
    BY <2>2, <2>3
<1>3. ASSUME NEW f \in ToSet(w) PROVE f \in ToSet(s)
  <2>1. PICK i \in 1..Len(w) : f = w[i]
    BY <1>1 DEF ToSet
  <2>2. i \in 1..Len(w) + Len(v) /\ f = s[i]
    BY <1>1, <2>1 DEF s
  <2> QED
    BY <1>1, <2>2 DEF ToSet, s
<1>4. ASSUME NEW f \in ToSet(v) PROVE f \in ToSet(s)
  <2>1. PICK i \in 1..Len(v) : f = v[i]
    BY <1>1 DEF ToSet
  <2>2. Len(w) + i \in Len(w) + 1..Len(w) + Len(v) /\ Len(w) + i \in 1..Len(w) + Len(v) /\ (Len(w) + i) - Len(w) = i
    BY <1>1, <2>1
  <2>3. f = s[Len(w) + i]
    BY <1>1, <2>1, <2>2 DEF s
  <2> QED
    BY <1>1, <2>2, <2>3 DEF ToSet, s
<1> QED
  BY <1>2, <1>3, <1>4 DEF s

LEMMA ToSetTail ==
  ASSUME NEW w \in Seq(Items), w # <<>>
  PROVE  ToSet(w) = {Head(w)} \cup ToSet(Tail(w))
<1> DEFINE v == Tail(w)
<1> DEFINE h == Head(w)
<1>1. /\ <<h>> \in Seq(Items) /\ v \in Seq(Items) /\ w = <<h>> \o v
  OBVIOUS
<1>2. ToSet(<<h>>) = {h}
  BY DEF ToSet
<1> HIDE DEF v, h
<1>3. ToSet(<<h>> \o v) = ToSet(<<h>>) \cup ToSet(v)
  BY <1>1, ToSetConcat
<1> QED
  BY <1>1, <1>2, <1>3 DEF v, h

LEMMA ToSetPrefix ==
  ASSUME NEW w \in Seq(Items), NEW n \in 0..Len(w)
  PROVE  SubSeq(w, 1, n) \in Seq(Items) /\ ToSet(SubSeq(w, 1, n)) \subseteq ToSet(w)
<1> DEFINE v == SubSeq(w, 1, n)
<1>1. v \in Seq(Items) /\ Len(v) = n /\ DOMAIN v = 1..n /\ \A i \in 1..n : v[i] = w[i] /\ i \in DOMAIN w
  OBVIOUS
<1> HIDE DEF v
<1> QED
  BY <1>1 DEF ToSet, v

LEMMA ToSetIs ==
  /\ ToSet(<<>>) = {}
  /\ \A f : ToSet(<<f>>) = {f}
  /\ \A f, g : ToSet(<<f, g>>) = {f, g}
BY DEF ToSet

\* What a method writes.
LEMMA WritesHold ==
  ASSUME NEW p, NEW q, NEW kinds, "eof" \notin kinds, p.eofSent \in BOOLEAN, q.eofSent \in BOOLEAN,
         Wrote(p, q, kinds)
  PROVE  /\ q.writes \in Seq(Items)
         /\ \A f \in ToSet(q.writes) : f.kind \in kinds \cup {"close", "eof"}
         /\ q.closeSent = p.closeSent \/ Closing(q.writes)
<1>1. CASE q.writes = <<>> /\ q.closeSent = p.closeSent
  <2>1. ToSet(q.writes) = {} /\ q.writes \in Seq(Items)
    BY <1>1, ToSetIs
  <2> QED
    BY <1>1, <2>1
<1>2. CASE q.writes = <<Eof>> /\ q.closeSent = p.closeSent
  <2>1. ToSet(q.writes) = {Eof}
    BY <1>2, ToSetIs
  <2>2. q.writes \in Seq(Items)
    BY <1>2, EofIsItem
  <2> QED
    BY <1>2, <2>1, <2>2, EofIsItem
<1>3. ASSUME NEW f \in Items, f.kind \in kinds \/ f.kind = "close", q.writes = <<f>> \/ q.writes = <<f, Eof>>,
             \/ f.kind \in kinds /\ q.closeSent = p.closeSent
             \/ p.closeSent = NoCode /\ q.closeSent \in FrameCodes /\ f = Close(q.closeSent)
      PROVE  /\ q.writes \in Seq(Items)
             /\ \A x \in ToSet(q.writes) : x.kind \in kinds \cup {"close", "eof"}
             /\ q.closeSent = p.closeSent \/ Closing(q.writes)
  <2>1. f \in ToSet(q.writes) /\ ToSet(q.writes) \subseteq {f, Eof}
    <3>1. CASE q.writes = <<f>>
      <4>1. ToSet(q.writes) = {f}
        BY <3>1, ToSetIs
      <4> QED
        BY <4>1
    <3>2. CASE q.writes = <<f, Eof>>
      <4>1. ToSet(q.writes) = {f, Eof}
        BY <3>2, ToSetIs
      <4> QED
        BY <4>1
    <3> QED
      BY <1>3, <3>1, <3>2
  <2>3. q.writes \in Seq(Items)
    <3>1. <<f>> \in Seq(Items)
      OBVIOUS
    <3>2. <<f, Eof>> \in Seq(Items)
      BY EofIsItem
    <3> QED
      BY <1>3, <3>1, <3>2
  <2>2. q.closeSent = p.closeSent \/ f.kind = "close"
    BY <1>3, FramesAreItems
  <2> QED
    BY <1>3, <2>1, <2>2, <2>3, EofIsItem DEF Closing
<1> QED
  BY <1>1, <1>2, <1>3, WritesAre

--------------------------------------------------------------------------------
(* What a step of one endpoint does to the two streams.                    *)

LEMMA BecomeIs ==
  ASSUME EndpointsInv, NEW e \in Endpoints, cfg.foreign = "none", UNCHANGED cfg,
         NEW q, Sound(q), NEW rest, Become(e, q, rest)
  PROVE  /\ ep'[Peer(e)] = ep[Peer(e)] /\ wire'[e] = rest
         /\ wire'[Peer(e)] = IF cut = {} THEN wire[Peer(e)] \o q.writes ELSE wire[Peer(e)]
         /\ Session(ep'[e]) = Session(q) /\ SameStatus(q, ep'[e])
<1> DEFINE u == Peer(e)
<1>1. u \in Endpoints /\ u # e
  BY PeerIs
<1>2. DOMAIN ep = Endpoints /\ DOMAIN wire = Endpoints
  BY DEF EndpointsInv, GlobalInv
<1>3. Native(u)
  BY <1>1 DEF Native, Endpoints
<1>4. /\ ep' = [ep EXCEPT ![e] = [q EXCEPT !.writes = <<>>]]
      /\ wire' = [wire EXCEPT ![e] = rest, ![u] = IF cut = {} /\ Native(u) THEN @ \o q.writes ELSE @]
  BY DEF Become
<1> DEFINE r == [q EXCEPT !.writes = <<>>]
<1>5. Session(r) = Session(q) /\ SameStatus(q, r)
  BY ResetIsSound
<1> HIDE DEF r, u
<1>6. ep'[e] = r /\ ep'[u] = ep[u]
  BY <1>1, <1>2, <1>4 DEF r
<1>7. wire'[e] = rest /\ wire'[u] = IF cut = {} THEN wire[u] \o q.writes ELSE wire[u]
  BY <1>1, <1>2, <1>3, <1>4
<1> QED
  BY <1>5, <1>6, <1>7 DEF u

\* A mark and what is told are marks.
LEMMA MarksAre ==
  ASSUME EndpointsInv, NEW e \in Endpoints
  PROVE  /\ Told(e) \in Marks
         /\ ep[e].parser # "discard" => Mark(e) \in Marks
<1>1. /\ ep[e].current \in NoSize..MaxSize /\ ep[e].enc \in Nat /\ ep[e].dec \in Nat
      /\ ep[e].parser \in {"http", "frames", "discard"}
  <2>1. EndpointInv(e)
    BY DEF EndpointsInv
  <2>2. SessionTypes(ep[e]) /\ ep[e].parser \in {"http", "frames", "discard"}
    <3>1. CASE Native(e)
      BY <2>1, <3>1 DEF EndpointInv, Sound, StatusTypes
    <3>2. CASE ~Native(e)
      BY <2>1, <3>2 DEF EndpointInv, Idle
    <3> QED
      BY <3>1, <3>2
  <2> QED
    BY <2>2 DEF SessionTypes
<1>2. said[e] \in Nat /\ heard[e] \in Nat /\ message[e] \in Nat
  BY DEF EndpointsInv, GlobalInv
<1>3. ep[e].current \in {NoSize} \cup Nat
  BY <1>1, MaxSizeAssumption DEF NoSize
<1>4. (IF ep[e].expectCont THEN message[e] ELSE NoSize) \in {NoSize} \cup Nat
  BY <1>2
<1>5. (IF Silent(e) THEN "http" ELSE "frames") \in {"http", "frames"}
  OBVIOUS
<1> QED
  BY <1>1, <1>2, <1>3, <1>4, <1>5 DEF Told, Mark, MarkOf, ToldOf, Marks

\* What q writes leads from what its side had told to what it has told now.
Tells(q, b, o, m, n) ==
  \/ (q.writes = <<>> \/ q.writes = <<Eof>>) /\ n = m
  \/ \E f \in Items : (q.writes = <<f>> \/ q.writes = <<f, Eof>>) /\ Reads(q, b, o, m, f, n)

\* The next item of e's reader leads to m.
Hears(e, m) ==
  wire[e] # <<>> /\ \A k \in Marks : Reads(ep[Peer(e)], said[Peer(e)], over, Mark(e), Head(wire[e]), k) => m = k

\* The stream that e writes.
LEMMA OutKeeps ==
  ASSUME EndpointsInv, EndpointsInv', NEW e \in Endpoints, cfg.foreign = "none", UNCHANGED <<cfg, cut>>,
         NEW q, Sound(q), q.side = e, NEW rest, Become(e, q, rest), PathInv(Peer(e)),
         heard'[Peer(e)] = heard[Peer(e)], over \subseteq over',
         q.ext = ep[e].ext \/ \A f \in ToSet(wire[Peer(e)]) : f.kind \notin {"text", "cont"},
         ep[e].closeSent = NoCode \/ (q.closeSent = ep[e].closeSent /\ said'[e] = said[e]),
         cut = {} => Tells(q, said'[e], over', Told(e), Told(e)')
  PROVE  PathInv(Peer(e))'
<1> DEFINE u == Peer(e)
<1>1. u \in Endpoints /\ u # e /\ Peer(u) = e
  BY PeerIs
<1>2. /\ ep'[u] = ep[u] /\ wire'[e] = rest
      /\ wire'[u] = IF cut = {} THEN wire[u] \o q.writes ELSE wire[u]
      /\ Session(ep'[e]) = Session(q) /\ SameStatus(q, ep'[e])
  BY BecomeIs
<1>3. ep'[e].ext = q.ext /\ ep'[e].side = e /\ ep'[e].closeSent = q.closeSent
  BY <1>2 DEF Session, SameStatus, StatusIs
<1>4. wire[u] \in Seq(Items) /\ ep[e].side = e
  BY <1>1 DEF EndpointsInv, StreamInv, Stream, EndpointInv
<1>5. Told(e) \in Marks /\ Told(e)' \in Marks
  <2>1. Told(e) \in Marks
    BY MarksAre
  <2>2. ep'[e].enc \in Nat
    BY <1>2 DEF Sound, SessionTypes, Session
  <2>3. said'[e] \in Nat /\ message'[e] \in Nat
    BY DEF EndpointsInv, GlobalInv
  <2>4. (IF ep'[e].expectCont THEN message'[e] ELSE NoSize) \in {NoSize} \cup Nat
    BY <2>3
  <2>5. (IF Silent(e)' THEN "http" ELSE "frames") \in {"http", "frames"}
    OBVIOUS
  <2>6. Told(e)' \in Marks
    BY <2>2, <2>3, <2>4, <2>5 DEF Told, ToldOf, Marks
  <2> QED
    BY <2>1, <2>6
<1> HIDE DEF u
<1> SUFFICES ASSUME ep'[u].parser # "discard"
             PROVE  \E n \in Marks : /\ Path(wire'[u], ep'[e], said'[e], over', Mark(u)', n)
                                     /\ cut' = {} => n = Told(e)'
  BY <1>1 DEF PathInv, u
<1>6. PICK n \in Marks : /\ Path(wire[u], ep[e], said[e], over, Mark(u), n)
                         /\ cut = {} => n = Told(e)
  BY <1>1, <1>2 DEF PathInv, u
<1>7. Mark(u)' = Mark(u)
  BY <1>2 DEF Mark, u
<1>8. Path(wire[u], ep'[e], said'[e], over', Mark(u), n)
  BY <1>3, <1>4, <1>6, PathStays DEF u
<1>9. CASE cut # {}
  BY <1>2, <1>6, <1>7, <1>8, <1>9
<1>10. CASE cut = {}
  <2>1. n = Told(e)
    BY <1>6, <1>10
  <2>2. \A f : Reads(q, said'[e], over', Told(e), f, Told(e)') => Reads(ep'[e], said'[e], over', Told(e), f, Told(e)')
    BY <1>3 DEF Reads
  <2>3. Path(wire[u] \o q.writes, ep'[e], said'[e], over', Mark(u), Told(e)')
    BY <1>4, <1>5, <1>8, <1>10, <2>1, <2>2, PathGrows DEF Tells
  <2> QED
    BY <1>2, <1>5, <1>7, <1>10, <2>3
<1> QED
  BY <1>9, <1>10

\* The stream that e reads.
LEMMA InKeeps ==
  ASSUME EndpointsInv, NEW e \in Endpoints, cfg.foreign = "none", UNCHANGED <<cfg, cut>>,
         NEW q, Sound(q), NEW rest, Become(e, q, rest), PathInv(e),
         said'[Peer(e)] = said[Peer(e)], over \subseteq over',
         cut = {} /\ q.parser # "discard" => Told(Peer(e))' = Told(Peer(e)),
         \/ q.parser = "discard"
         \/ ep[e].parser # "discard" /\ rest = wire[e] /\ Mark(e)' = Mark(e)
         \/ ep[e].parser # "discard" /\ rest = Tail(wire[e]) /\ Hears(e, Mark(e)')
  PROVE  PathInv(e)'
<1> DEFINE u == Peer(e)
<1>1. u \in Endpoints /\ u # e
  BY PeerIs
<1>2. /\ ep'[u] = ep[u] /\ wire'[e] = rest /\ SameStatus(q, ep'[e])
  BY BecomeIs
<1>3. ep'[e].parser = q.parser
  BY <1>2 DEF SameStatus, StatusIs
<1>4. wire[e] \in Seq(Items)
  BY <1>1 DEF EndpointsInv, StreamInv, Stream
<1> HIDE DEF u
<1> SUFFICES ASSUME ep'[e].parser # "discard"
             PROVE  \E n \in Marks : /\ Path(wire'[e], ep'[u], said'[u], over', Mark(e)', n)
                                     /\ cut' = {} => n = Told(u)'
  BY DEF PathInv, u
<1>5. ep[e].parser # "discard" /\ q.parser # "discard"
  BY <1>3
<1>6. PICK n \in Marks : /\ Path(wire[e], ep[u], said[u], over, Mark(e), n)
                         /\ cut = {} => n = Told(u)
  BY <1>5 DEF PathInv, u
<1>7. cut' = {} => n = Told(u)'
  BY <1>5, <1>6 DEF u
<1>8. Path(rest, ep[u], said[u], over, Mark(e)', n) /\ rest \in Seq(Items)
  <2>1. CASE rest = wire[e] /\ Mark(e)' = Mark(e)
    BY <1>4, <1>6, <2>1
  <2>2. CASE rest = Tail(wire[e]) /\ Hears(e, Mark(e)')
    <3>2. /\ wire[e] # <<>>
          /\ \A k \in Marks : Reads(ep[u], said[u], over, Mark(e), Head(wire[e]), k) => Mark(e)' = k
      BY <2>2 DEF Hears, u
    <3>1. PICK k \in Marks : Reads(ep[u], said[u], over, Mark(e), Head(wire[e]), k)
                             /\ Path(Tail(wire[e]), ep[u], said[u], over, k, n)
      BY <1>4, <1>6, <3>2, PathTail
    <3> QED
      BY <1>4, <2>2, <3>1, <3>2
  <2> QED
    BY <1>5, <2>1, <2>2
<1>9. Path(rest, ep[u], said[u], over', Mark(e)', n)
  BY <1>8, PathStays
<1> QED
  BY <1>2, <1>7, <1>9 DEF u

\* What the step changes for the peer of e, besides its stream.
LEMMA OthersKeep ==
  ASSUME EndpointsInv, NEW e \in Endpoints, cfg.foreign = "none", UNCHANGED <<cfg, cut>>,
         NEW q, Sound(q), NEW rest, Become(e, q, rest),
         Own(Peer(e)),
         over \subseteq over', heard'[Peer(e)] = heard[Peer(e)],
         ep[e].closeSent = NoCode \/ (q.closeSent = ep[e].closeSent /\ said'[e] = said[e]),
         q.parser # "discard" => ep[e].parser # "discard" /\ (Closing(wire[e]) => Closing(rest)),
         q.rcvdThenSent = "yes" => ep[e].rcvdThenSent = "yes" \/ ep[e].closeSent = NoCode
  PROVE  Own(Peer(e))'
<1> DEFINE u == Peer(e)
<1>1. u \in Endpoints /\ u # e /\ Peer(u) = e
  BY PeerIs
<1>2. /\ ep'[u] = ep[u] /\ wire'[e] = rest /\ ep'[e].parser = q.parser /\ ep'[e].closeSent = q.closeSent
      /\ ep'[e].rcvdThenSent = q.rcvdThenSent
  BY BecomeIs DEF SameStatus, StatusIs
<1>3. Sound(ep[u])
  BY <1>1, NativeIs DEF Native, Endpoints
<1> HIDE DEF u
<1>a. Unfinished(ep[u]) /\ Ending(u) /\ Clean(u) /\ Lossless(u)
  BY DEF Own, u
<1>4. Unfinished(ep'[u])
  BY <1>2, <1>a
<1>5. Ending(u)'
  BY <1>1, <1>2, <1>a DEF Ending
<1>6. Clean(u)'
  BY <1>1, <1>2, <1>a DEF Clean, Excused
<1>7. Lossless(u)'
  <2>1. ep[u].closeRcvd # NoCode => ep[u].closeRcvd = ep[e].closeSent /\ heard[u] = said[e]
    BY <1>1, <1>a DEF Lossless
  <2>2. ep[u].closeRcvd # NoCode => ep[u].closeRcvd = q.closeSent /\ heard'[u] = said'[e]
    BY <2>1 DEF u
  <2>3. ep[u].rcvdThenSent = "yes" => ep[u].closeRcvd # NoCode
    BY <1>3 DEF Sound, Kept
  <2>4. ep[u].rcvdThenSent = "yes" => q.rcvdThenSent # "yes"
    BY <1>1, <1>a, <2>1, <2>3 DEF Lossless
  <2> QED
    BY <1>1, <1>2, <2>2, <2>4 DEF Lossless
<1> QED
  BY <1>4, <1>5, <1>6, <1>7 DEF Own, u

\* What it changes for e itself.
LEMMA OwnKeeps ==
  ASSUME EndpointsInv, NEW e \in Endpoints, cfg.foreign = "none", UNCHANGED <<cfg, cut>>,
         NEW q, Sound(q), NEW rest, Become(e, q, rest),
         NEW kinds, "eof" \notin kinds, Wrote(ep[e], q, kinds),
         Ending(e), Unfinished(q), over \subseteq over', said'[Peer(e)] = said[Peer(e)],
         q.handshakeExc => q.eofSent,
         cut = {} /\ q.eofSent => q.closeSent # NoCode \/ q.handshakeExc,
         cut = {} => Excused(q, Peer(e) \in over),
         q.closeRcvd # NoCode => q.closeRcvd = ep[Peer(e)].closeSent /\ heard'[e] = said[Peer(e)],
         q.rcvdThenSent = "yes" => ep[Peer(e)].rcvdThenSent # "yes"
  PROVE  Own(e)'
<1> DEFINE u == Peer(e)
<1> DEFINE r == ep'[e]
<1>1. u \in Endpoints /\ u # e /\ Peer(u) = e
  BY PeerIs
<1>2. /\ ep'[u] = ep[u] /\ wire'[u] = IF cut = {} THEN wire[u] \o q.writes ELSE wire[u]
      /\ Session(r) = Session(q) /\ SameStatus(q, r)
  BY BecomeIs
<1>3. /\ r.parser = q.parser /\ r.closeSent = q.closeSent /\ r.state = q.state /\ r.closeRcvd = q.closeRcvd
      /\ r.rcvdThenSent = q.rcvdThenSent /\ r.parserExc = q.parserExc /\ r.eofSent = q.eofSent
  BY <1>2 DEF SameStatus, StatusIs
<1>4. r.ext = q.ext /\ r.current = q.current /\ r.decCont = q.decCont /\ r.handshakeExc = q.handshakeExc
  BY <1>2 DEF Session
<1>5. /\ wire[u] \in Seq(Items) /\ ep[e].eofSent \in BOOLEAN /\ q.eofSent \in BOOLEAN
  <2>1. StreamInv(u)
    BY <1>1 DEF EndpointsInv
  <2>2. ep[e].eofSent \in BOOLEAN
    BY NativeIs DEF Native, Endpoints
  <2> QED
    BY <2>1, <2>2 DEF StreamInv, Stream, Sound, StatusTypes
<1> HIDE DEF r, u
<1>6. cut = {} /\ q.closeSent # NoCode /\ ep[u].parser # "discard" => Closing(wire'[u])
  <2> SUFFICES ASSUME cut = {}, q.closeSent # NoCode, ep[u].parser # "discard" PROVE Closing(wire'[u])
    OBVIOUS
  <2>1. q.writes \in Seq(Items) /\ (q.closeSent = ep[e].closeSent \/ Closing(q.writes))
    BY <1>5, WritesHold
  <2>2. ToSet(wire'[u]) = ToSet(wire[u]) \cup ToSet(q.writes)
    BY <1>2, <1>5, <2>1, ToSetConcat
  <2>3. q.closeSent = ep[e].closeSent => Closing(wire[u])
    BY DEF Ending, u
  <2> QED
    BY <2>1, <2>2, <2>3 DEF Closing
<1>7. Unfinished(r)
  BY <1>3, <1>4 DEF Unfinished
<1>8. Ending(e)'
  BY <1>2, <1>3, <1>4, <1>6 DEF Ending, r, u
<1>9. Clean(e)'
  BY <1>3, <1>4 DEF Clean, Excused, r, u
<1>10. Lossless(e)'
  BY <1>2, <1>3 DEF Lossless, r, u
<1> QED
  BY <1>7, <1>8, <1>9, <1>10 DEF Own, r

\* What the streams hold then.
LEMMA StreamsHold ==
  ASSUME EndpointsInv, NEW e \in Endpoints, cfg.foreign = "none", UNCHANGED cfg,
         NEW q, Sound(q), NEW rest, ToSet(rest) \subseteq ToSet(wire[e]), Become(e, q, rest),
         NEW kinds, "eof" \notin kinds, Wrote(ep[e], q, kinds)
  PROVE  /\ ToSet(wire'[e]) \subseteq ToSet(wire[e])
         /\ \A f \in ToSet(wire'[Peer(e)]) :
              \/ f \in ToSet(wire[Peer(e)])
              \/ cut = {} /\ f \in ToSet(q.writes) /\ f.kind \in kinds \cup {"close", "eof"}
<1> DEFINE u == Peer(e)
<1>1. u \in Endpoints
  BY PeerIs
<1>2. wire'[e] = rest /\ wire'[u] = IF cut = {} THEN wire[u] \o q.writes ELSE wire[u]
  BY BecomeIs
<1>3. wire[u] \in Seq(Items) /\ ep[e].eofSent \in BOOLEAN /\ q.eofSent \in BOOLEAN
  <2>1. StreamInv(u)
    BY <1>1 DEF EndpointsInv
  <2>2. ep[e].eofSent \in BOOLEAN
    BY NativeIs DEF Native, Endpoints
  <2> QED
    BY <2>1, <2>2 DEF StreamInv, Stream, Sound, StatusTypes
<1> HIDE DEF u
<1>4. q.writes \in Seq(Items) /\ \A f \in ToSet(q.writes) : f.kind \in kinds \cup {"close", "eof"}
  BY <1>3, WritesHold
<1>5. ToSet(wire[u] \o q.writes) = ToSet(wire[u]) \cup ToSet(q.writes)
  BY <1>3, <1>4, ToSetConcat
<1> QED
  BY <1>2, <1>4, <1>5 DEF u

\* A step from p to q after the handshake.
Settled(p, q) ==
  /\ p.parser = "frames" /\ q.parser # "http" /\ q.state \in {"OPEN", "CLOSING"}
  /\ q.ext = p.ext /\ q.sub = p.sub /\ q.handshakeExc = p.handshakeExc

\* It leaves what the two agreed on.
LEMMA JointKeeps ==
  ASSUME EndpointsInv, NEW e \in Endpoints, cfg.foreign = "none", UNCHANGED <<cfg, cut, request>>,
         NEW q, Sound(q), NEW rest, ToSet(rest) \subseteq ToSet(wire[e]), Become(e, q, rest),
         NEW kinds, kinds \cap {"request", "response", "eof"} = {}, Wrote(ep[e], q, kinds),
         Joint, Ending(e), ~Silent("server"), Settled(ep[e], q)
  PROVE  /\ Joint'
         /\ ~Silent(e) /\ ~Silent(Peer(e)) /\ ~Silent(e)' /\ ~Silent(Peer(e))'
<1> DEFINE u == Peer(e)
<1> DEFINE r == ep'[e]
<1>1. /\ u \in Endpoints /\ u # e
      /\ (e = "client" /\ u = "server") \/ (e = "server" /\ u = "client")
  <2>1. CASE e = "client"
    BY <2>1 DEF Peer, Endpoints
  <2>2. CASE e = "server"
    BY <2>2 DEF Peer, Endpoints
  <2> QED
    BY <2>1, <2>2 DEF Endpoints
<1>0. /\ ep[e].parser = "frames" /\ q.parser # "http" /\ q.state \in {"OPEN", "CLOSING"}
      /\ q.ext = ep[e].ext /\ q.sub = ep[e].sub /\ q.handshakeExc = ep[e].handshakeExc
  BY DEF Settled
<1>2. ep'[u] = ep[u] /\ Session(r) = Session(q) /\ SameStatus(q, r)
  BY BecomeIs
<1>3. /\ r.parser = q.parser /\ r.state = q.state /\ r.eofSent = q.eofSent
      /\ r.ext = ep[e].ext /\ r.sub = ep[e].sub /\ r.handshakeExc = ep[e].handshakeExc
  BY <1>0, <1>2 DEF SameStatus, StatusIs, Session
<1>4. Sound(ep[e]) /\ ep[e].side = e /\ q.side = e /\ ~ep[e].eofSent /\ ~ep[e].handshakeExc
  <2>1. Sound(ep[e]) /\ ep[e].side = e
    BY NativeIs DEF Native, Endpoints
  <2>2. ~ep[e].eofSent
    BY <1>0, <2>1 DEF Sound, Kept
  <2> QED
    BY <2>1, <2>2 DEF Ending, Wrote
<1>5. /\ ToSet(wire'[e]) \subseteq ToSet(wire[e])
      /\ \A f \in ToSet(wire'[u]) : f \in ToSet(wire[u]) \/ f.kind \notin {"request", "response"}
  <2>1. "eof" \notin kinds
    OBVIOUS
  <2>2. /\ ToSet(wire'[e]) \subseteq ToSet(wire[e])
        /\ \A f \in ToSet(wire'[u]) : f \in ToSet(wire[u]) \/ f.kind \in kinds \cup {"close", "eof"}
    BY <2>1, StreamsHold
  <2> QED
    BY <2>2
<1>6. e = "client" => Joined
  BY <1>0, <1>4 DEF Joined
<1> HIDE DEF r, u
<1>7. Joined' <=> Joined
  <2>1. CASE e = "client"
    BY <1>0, <1>3, <1>4, <1>6, <2>1 DEF Joined, r
  <2>2. CASE e = "server"
    BY <1>1, <1>2, <2>2 DEF Joined
  <2> QED
    BY <1>1, <2>1, <2>2
<1>8. ep["server"].parser # "http" /\ ep'["server"].parser # "http" /\ ~Silent("server")'
  <2>1. ep["server"].parser # "http"
    BY DEF Silent
  <2>2. CASE e = "client"
    BY <1>1, <1>2, <2>1, <2>2 DEF Silent
  <2>3. CASE e = "server"
    BY <1>0, <1>3, <2>1, <2>3 DEF Silent, r
  <2> QED
    BY <1>1, <2>1, <2>2, <2>3
<1>9. ~Silent(e) /\ ~Silent(u) /\ ~Silent(e)' /\ ~Silent(u)'
  BY <1>1, <1>8 DEF Silent
<1>10. Response' = Response
  BY DEF Response
<1>11. Replied => Replied'
  <2>1. ep'["server"].ext = ep["server"].ext /\ ep'["server"].sub = ep["server"].sub
        /\ (ep["server"].eofSent => ep'["server"].eofSent)
    <3>1. CASE e = "client"
      BY <1>1, <1>2, <3>1
    <3>2. CASE e = "server"
      BY <1>3, <1>4, <3>2 DEF r
    <3> QED
      BY <1>1, <3>1, <3>2
  <2> QED
    BY <1>8, <1>10, <2>1 DEF Replied
<1>12. Asking'
  BY <1>1, <1>5 DEF Asking, Joint
<1>13. Answering'
  <2>1. \A f \in ToSet(wire'["client"]) : f.kind = "response" => f = Response' /\ Replied'
    <3>1. \A f \in ToSet(wire'["client"]) : f.kind = "response" => f \in ToSet(wire["client"])
      BY <1>1, <1>5
    <3> QED
      BY <1>10, <1>11, <3>1 DEF Joint, Answering
  <2>2. Joined' => Replied' /\ Response'.status = 101 /\ ep'["client"].ext = ClientAccepted(cfg'.client, Response')
                  /\ ep'["client"].sub = Response'.sub
    <3>1. ep'["client"].ext = ep["client"].ext /\ ep'["client"].sub = ep["client"].sub
      <4>1. CASE e = "client"
        BY <1>3, <4>1 DEF r
      <4>2. CASE e = "server"
        BY <1>1, <1>2, <4>2
      <4> QED
        BY <1>1, <4>1, <4>2
    <3> QED
      BY <1>7, <1>10, <1>11, <3>1 DEF Joint, Answering
  <2> QED
    BY <2>1, <2>2 DEF Answering
<1>14. Early'
  <2>1. ~Joined' => e = "server"
    BY <1>1, <1>6, <1>7
  <2>2. ~Joined' => \A f \in ToSet(wire'["server"]) : f.kind \in {"request", "eof"}
    BY <1>5, <1>7, <2>1 DEF Joint, Early
  <2> QED
    BY <1>8, <2>2 DEF Early
<1>15. ServerFirst'
  <2>1. cut = {} /\ ep'["client"].eofSent => ep'["server"].eofSent
    <3>1. CASE e = "client"
      <4>1. ~q.eofSent
        BY <1>0, <1>4, <3>1 DEF Sound, Kept
      <4> QED
        BY <1>3, <3>1, <4>1 DEF r
    <3>2. CASE e = "server"
      <4>1. cut = {} => ~ep["client"].eofSent
        BY <1>4, <3>2 DEF Joint, ServerFirst
      <4> QED
        BY <1>1, <1>2, <3>2, <4>1
    <3> QED
      BY <1>1, <3>1, <3>2
  <2>2. ep'["server"].handshakeExc = ep["server"].handshakeExc
    <3>1. CASE e = "client"
      BY <1>1, <1>2, <3>1
    <3>2. CASE e = "server"
      BY <1>3, <3>2 DEF r
    <3> QED
      BY <1>1, <3>1, <3>2
  <2> QED
    BY <1>10, <2>1, <2>2 DEF Joint, ServerFirst
<1> QED
  BY <1>9, <1>12, <1>13, <1>14, <1>15 DEF Joint, u

\* A step of e after the handshake keeps the invariant if what e reads is what
\* its stream leads to, and what it writes leads to what it has told.
LEMMA OrdinaryKeeps ==
  ASSUME EndpointsInv, EndpointsInv', NEW e \in Endpoints, cfg.foreign = "none",
         UNCHANGED <<cfg, cut, request>>, PairInv,
         ~Silent("server"), NEW q, Sound(q), NEW rest, Become(e, q, rest),
         NEW kinds, kinds \cap {"request", "response", "eof"} = {}, Wrote(ep[e], q, kinds),
         Settled(ep[e], q),
         over \subseteq over', heard'[Peer(e)] = heard[Peer(e)], said'[Peer(e)] = said[Peer(e)],
         message'[Peer(e)] = message[Peer(e)],
         ep[e].closeSent = NoCode \/ (q.closeSent = ep[e].closeSent /\ said'[e] = said[e]),
         q.rcvdThenSent = "yes" => ep[e].rcvdThenSent = "yes" \/ ep[e].closeSent = NoCode,
         Unfinished(q),
         cut = {} => Excused(q, Peer(e) \in over),
         q.closeRcvd # NoCode => q.closeRcvd = ep[Peer(e)].closeSent /\ heard'[e] = said[Peer(e)],
         NEW told, told = ToldOf(ep[e], "frames", message[e], said[e]),
         NEW tells, tells = ToldOf(q, "frames", message'[e], said'[e]),
         Tells(q, said'[e], over', told, tells),
         rest = wire[e] \/ (wire[e] # <<>> /\ rest = Tail(wire[e])),
         \/ q.parser = "discard"
         \/ rest = wire[e] /\ MarkOf(q, heard'[e]) = Mark(e)
         \/ rest = Tail(wire[e]) /\ Head(wire[e]).kind # "close" /\ Hears(e, MarkOf(q, heard'[e]))
  PROVE  PairInv'
<1> DEFINE u == Peer(e)
<1> DEFINE r == ep'[e]
<1>1. u \in Endpoints /\ u # e /\ Peer(u) = e /\ \A x \in Endpoints : x = e \/ x = u
  BY PeerIs
<1>2. Joint /\ PathInv(e) /\ PathInv(u) /\ Own(e) /\ Own(u)
  BY <1>1 DEF PairInv
<1>3. ep'[u] = ep[u] /\ Session(r) = Session(q) /\ SameStatus(q, r)
  BY BecomeIs
<1>4. wire[e] \in Seq(Items) /\ wire[u] \in Seq(Items)
  BY <1>1 DEF EndpointsInv, StreamInv, Stream
<1>0. /\ ep[e].parser = "frames" /\ q.parser # "http" /\ q.state \in {"OPEN", "CLOSING"}
      /\ q.ext = ep[e].ext /\ q.handshakeExc = ep[e].handshakeExc
  BY DEF Settled
<1>5. ToSet(rest) \subseteq ToSet(wire[e]) /\ (wire[e] # <<>> => ToSet(wire[e]) = {Head(wire[e])} \cup ToSet(Tail(wire[e])))
  <2>1. wire[e] # <<>> => ToSet(wire[e]) = {Head(wire[e])} \cup ToSet(Tail(wire[e]))
    BY <1>4, ToSetTail
  <2> QED
    BY <2>1
<1>6. Sound(ep[e]) /\ ep[e].side = e /\ q.side = e /\ Sound(ep[u])
  BY <1>1, NativeIs DEF Native, Endpoints, Wrote
<1>7. Joint' /\ ~Silent(e) /\ ~Silent(u) /\ ~Silent(e)' /\ ~Silent(u)'
  <2>1. Ending(e)
    BY <1>2 DEF Own
  <2> QED
    BY <1>2, <1>5, <2>1, JointKeeps
<1>8. Told(e) = told /\ Told(e)' = tells /\ Told(u)' = Told(u) /\ Mark(e)' = MarkOf(q, heard'[e])
  <2>1. r.expectCont = q.expectCont /\ r.enc = q.enc /\ r.parser = q.parser /\ r.current = q.current /\ r.dec = q.dec
    BY <1>3 DEF Session, SameStatus, StatusIs
  <2> HIDE DEF r, u
  <2>3. Told(e) = told /\ Told(e)' = tells
    BY <1>7, <2>1 DEF Told, ToldOf, r
  <2>4. Told(u)' = Told(u)
    BY <1>3, <1>7 DEF Told, ToldOf, u
  <2>5. Mark(e)' = MarkOf(q, heard'[e])
    BY <2>1 DEF Mark, MarkOf, r
  <2> QED
    BY <2>3, <2>4, <2>5
<1> HIDE DEF r
<1>9. PathInv(u)'
  BY <1>0, <1>2, <1>6, <1>8, OutKeeps DEF u
<1>10. PathInv(e)'
  BY <1>0, <1>2, <1>8, InKeeps DEF u
<1>11. Own(u)'
  <2>1. q.parser # "discard" => ep[e].parser # "discard" /\ (Closing(wire[e]) => Closing(rest))
    <3>1. q.parser = "discard" \/ rest = wire[e]
            \/ (wire[e] # <<>> /\ rest = Tail(wire[e]) /\ Head(wire[e]).kind # "close")
      BY DEF Hears
    <3>2. CASE rest = wire[e]
      BY <1>0, <3>2
    <3>3. CASE wire[e] # <<>> /\ rest = Tail(wire[e]) /\ Head(wire[e]).kind # "close"
      <4>1. \A f \in ToSet(wire[e]) : f.kind = "close" => f \in ToSet(rest)
        BY <1>5, <3>3
      <4> QED
        BY <1>0, <4>1 DEF Closing
    <3> QED
      BY <3>1, <3>2, <3>3
  <2> QED
    BY <1>0, <1>2, <2>1, OthersKeep DEF u
<1>12. Own(e)'
  <2>1. Ending(e)
    BY <1>2 DEF Own
  <2>2. q.handshakeExc => q.eofSent
    <3>1. ~ep[e].eofSent
      BY <1>0, <1>6 DEF Sound, Kept
    <3> QED
      BY <1>0, <2>1, <3>1 DEF Ending
  <2>3. q.eofSent => q.closeSent # NoCode
    BY <1>0 DEF Sound, Kept
  <2>4. q.rcvdThenSent = "yes" => ep[u].rcvdThenSent # "yes"
    <3>1. ep[e].rcvdThenSent # "yes"
      BY <1>0, <1>6 DEF Sound, Kept
    <3>2. ep[u].rcvdThenSent = "yes" => ep[u].closeRcvd # NoCode
      BY <1>6 DEF Sound, Kept
    <3>3. ep[u].closeRcvd # NoCode => ep[u].closeRcvd = ep[e].closeSent
      BY <1>1, <1>2 DEF Own, Lossless
    <3> QED
      BY <3>1, <3>2, <3>3
  <2>5. "eof" \notin kinds
    OBVIOUS
  <2> QED
    BY <2>1, <2>2, <2>3, <2>4, <2>5, OwnKeeps DEF u
<1> QED
  BY <1>1, <1>7, <1>9, <1>10, <1>11, <1>12 DEF PairInv

--------------------------------------------------------------------------------
(* What an endpoint makes of what a sender of this library sends it.       *)

TooBig == 1009

\* A data frame is either too big, which its sender knew, or leads to k.
LEMMA ReceiveDataIs ==
  ASSUME NEW p, Sound(p), p.writes = <<>>, p.parser = "frames", p.state # "CONNECTING", Unfinished(p),
         NEW x \in Exts, Compatible(x, p.ext), NEW allowed \in BOOLEAN, NEW h,
         NEW f \in FrameSet, f.kind \in {"text", "cont"}, NEW k \in Marks, DataRead(x, allowed, MarkOf(p, h), f, k)
  PROVE  LET q == ReceiveFrame(p, f)
         IN  \/ allowed /\ q = ParserFails(p, TooBig)
             \/ /\ MarkOf(q, h + 1) = k /\ Unfinished(q) /\ SameStatus(p, q) /\ q.writes = <<>>
                /\ q.ext = p.ext /\ q.sub = p.sub /\ q.handshakeExc = p.handshakeExc
                /\ q.expectCont = p.expectCont /\ q.enc = p.enc
<1> DEFINE first == p.current = NoSize
<1> DEFINE total == f.size + IF first THEN 0 ELSE p.current
<1> DEFINE compressed == Compressed(p, f)
<1>1. /\ p.current \in NoSize..MaxSize /\ p.dec \in Nat /\ p.ext \in Exts /\ p.parserExc = NoCode /\ Shaped(p) /\ ~p.broken
      /\ f.size \in Nat /\ f.fin \in BOOLEAN /\ f.rsv \in BOOLEAN /\ f.ctx \in Nat /\ MaxSize \in Nat
  BY MaxSizeAssumption DEF Sound, SessionTypes, Kept, FrameSet
<1>2. /\ x.enabled <=> p.ext.enabled
      /\ x.enabled => x.localNct = p.ext.remoteNct /\ x.localBits <= p.ext.remoteBits
  BY <1>1 DEF Compatible, Exts, NoExt
<1>3. /\ f.kind = IF first THEN "text" ELSE "cont"
      /\ f.rsv <=> (first /\ x.enabled)
      /\ IF x.enabled
         THEN /\ f.ctx = IF first /\ x.localNct THEN 0 ELSE p.dec
              /\ f.bits = x.localBits /\ k.dec = f.ctx + 1
         ELSE k.dec = p.dec
      /\ total <= MaxSize \/ allowed
      /\ k.cur = IF f.fin THEN NoSize ELSE total
      /\ k.heard = h + 1 /\ k.at = "frames"
  BY DEF DataRead, MarkOf
<1>4. compressed <=> x.enabled
  BY <1>2, <1>3 DEF Compressed, IsControl, Unfinished
<1>5. compressed => Decodes(p, f)
  <2>1. x.enabled => f.ctx = DecodeContext(p, f)
    BY <1>2, <1>3 DEF DecodeContext
  <2> QED
    BY <1>2, <1>3, <1>4, <2>1 DEF Decodes
<1>6. f.rsv => compressed
  BY <1>3, <1>4
<1> HIDE DEF compressed
<1>7. total > MaxSize <=> f.size > Limit(p)
  BY <1>1 DEF Limit, NoSize
<1> DEFINE q == ReceiveFrame(p, f)
<1>8. CASE f.size > Limit(p)
  <2>1. FrameError(p, f) = TooBig
    <3>1. Limit(p) \in Int
      BY <1>1 DEF Limit, NoSize
    <3>2. ~(f.size <= Limit(p)) /\ f.kind # "bad"
      BY <1>1, <1>3, <1>8, <3>1
    <3> QED
      BY <1>8, <3>2 DEF FrameError, TooBig
  <2>2. TooBig # NoCode
    BY DEF TooBig, NoCode
  <2>3. q = ParserFails(p, TooBig)
    BY <2>1, <2>2 DEF ReceiveFrame
  <2>4. allowed
    BY <1>1, <1>3, <1>7, <1>8
  <2> QED
    BY <2>3, <2>4
<1>9. CASE ~(f.size > Limit(p))
  <2>1. FrameError(p, f) = NoCode
    <3>1. f.size <= Limit(p) /\ ~(f.size > Limit(p))
      BY <1>1, <1>9 DEF Limit, NoSize
    <3> QED
      BY <1>5, <1>6, <3>1 DEF FrameError, compressed
  <2> DEFINE d == IF compressed THEN Decode(p, f) ELSE p
  <2>2. q = ReceiveOther(d, f)
    BY <2>1 DEF ReceiveFrame, compressed
  <2> HIDE DEF q
  <2>3. /\ Shaped(d) /\ ~d.broken /\ d.current = p.current /\ SameStatus(p, d) /\ d.writes = <<>> /\ d.ext = p.ext
        /\ d.sub = p.sub /\ d.handshakeExc = p.handshakeExc /\ d.expectCont = p.expectCont /\ d.enc = p.enc
        /\ d.dec = k.dec
        /\ x.enabled => d.decCont = ~f.fin
    <3>1. CASE compressed
      <4> DEFINE n == DecodeContext(p, f) + 1
      <4>1. n = k.dec
        BY <1>3, <1>4, <1>5, <3>1 DEF Decodes
      <4>2. d = [p EXCEPT !.dec = n, !.decCont = ~f.fin]
        BY <3>1 DEF Decode
      <4> HIDE DEF n, d
      <4> QED
        BY <1>1, <4>1, <4>2 DEF Shaped, SameStatus, StatusIs
    <3>2. CASE ~compressed
      BY <1>1, <1>3, <1>4, <3>2 DEF SameStatus, StatusIs
    <3> QED
      BY <3>1, <3>2
  <2> HIDE DEF d
  <2>4. (q = d /\ d.current = k.cur) \/ q = [d EXCEPT !.current = k.cur]
    <3>1. CASE first /\ f.fin
      BY <1>3, <2>2, <2>3, <3>1 DEF ReceiveOther
    <3>2. CASE first /\ ~f.fin
      <4>1. k.cur = f.size
        BY <1>1, <1>3, <3>2
      <4> QED
        BY <1>3, <2>2, <2>3, <3>2, <4>1 DEF ReceiveOther
    <3>3. CASE ~first
      <4>1. k.cur = IF f.fin THEN NoSize ELSE p.current + f.size
        BY <1>1, <1>3, <3>3
      <4> QED
        BY <1>3, <2>2, <2>3, <3>3, <4>1 DEF ReceiveOther
    <3> QED
      BY <3>1, <3>2, <3>3
  <2>5. /\ Shaped(q) /\ ~q.broken /\ q.current = k.cur /\ SameStatus(p, q) /\ q.writes = <<>> /\ q.ext = p.ext
        /\ q.sub = p.sub /\ q.handshakeExc = p.handshakeExc /\ q.expectCont = p.expectCont /\ q.enc = p.enc
        /\ q.dec = k.dec
        /\ x.enabled => q.decCont = ~f.fin
    <3>1. CASE q = d /\ d.current = k.cur
      BY <2>3, <3>1
    <3>2. CASE q = [d EXCEPT !.current = k.cur]
      BY <2>3, <3>2 DEF Shaped, SameStatus, StatusIs
    <3> QED
      BY <2>4, <3>1, <3>2
  <2>6. q.parser = "frames" /\ q.state # "CONNECTING"
    BY <2>5 DEF SameStatus, StatusIs
  <2>7. Unfinished(q)
    <3>1. f.fin <=> k.cur = NoSize
      BY <1>1, <1>3 DEF NoSize
    <3> QED
      BY <1>2, <2>5, <2>6, <3>1 DEF Unfinished
  <2>8. MarkOf(q, h + 1) = k
    BY <1>3, <2>5, <2>6 DEF MarkOf, Marks
  <2> QED
    BY <2>5, <2>7, <2>8 DEF q
<1> QED
  BY <1>8, <1>9

\* A ping is answered, a pong is not, unless its payload exceeds what is left
\* of max_size.
LEMMA ReceivePingIs ==
  ASSUME NEW p, Sound(p), p.writes = <<>>, p.parser = "frames",
         NEW f \in FrameSet, f.kind \in {"ping", "pong"}, ~f.rsv
  PROVE  ReceiveFrame(p, f) = IF f.size > Limit(p) THEN ParserFails(p, TooBig)
                              ELSE IF f.kind = "ping" THEN SendPong(p, f.size) ELSE p
<1>1. p.current \in NoSize..MaxSize /\ MaxSize \in Nat /\ f.size \in Nat
  BY MaxSizeAssumption DEF Sound, SessionTypes, FrameSet
<1>2. Limit(p) \in Int
  BY <1>1 DEF Limit, NoSize
<1>3. ~Compressed(p, f)
  BY DEF Compressed, IsControl
<1>4. CASE f.size > Limit(p)
  <2>1. FrameError(p, f) = TooBig
    <3>1. f.kind # "bad" /\ ~(f.size <= Limit(p))
      BY <1>1, <1>2, <1>4
    <3> QED
      BY <1>4, <3>1 DEF FrameError, TooBig
  <2>2. TooBig # NoCode
    BY DEF TooBig, NoCode
  <2> QED
    BY <1>3, <1>4, <2>1, <2>2 DEF ReceiveFrame
<1>5. CASE ~(f.size > Limit(p))
  <2>1. f.size <= Limit(p)
    BY <1>1, <1>2, <1>5
  <2>2. FrameError(p, f) = NoCode
    BY <1>3, <2>1, <1>5 DEF FrameError
  <2>3. ReceiveFrame(p, f) = ReceiveOther(p, f)
    BY <1>3, <2>2 DEF ReceiveFrame
  <2> QED
    BY <1>5, <2>3 DEF ReceiveOther
<1> QED
  BY <1>4, <1>5

\* A close frame of a sender of this library is always acceptable.
LEMMA CloseIsTaken ==
  ASSUME NEW p, Sound(p), NEW f \in FrameSet, f.kind = "close", f.size = 0, ~f.rsv
  PROVE  ReceiveFrame(p, f) = ReceiveClose(p, f)
<1>1. p.current \in NoSize..MaxSize /\ MaxSize \in Nat
  BY MaxSizeAssumption DEF Sound, SessionTypes
<1>2. f.size <= Limit(p) /\ ~(f.size > Limit(p))
  BY <1>1 DEF Limit, NoSize
<1>3. ~Compressed(p, f)
  BY DEF Compressed, IsControl
<1>4. FrameError(p, f) = NoCode
  BY <1>2, <1>3 DEF FrameError
<1> QED
  BY <1>4 DEF ReceiveFrame

\* Whoever reads a frame fits whoever sent it.
LEMMA ExtensionsFit ==
  ASSUME EndpointsInv, cfg.foreign = "none", Joint, NEW e \in Endpoints, ep[e].parser = "frames",
         wire[e] # <<>>, Head(wire[e]).kind \in Frames, ep[e].handshakeExc => ep[e].eofSent
  PROVE  /\ ~Silent("server") /\ ep[Peer(e)].ext \in Exts /\ ep[e].state # "CONNECTING"
         /\ Compatible(ep[Peer(e)].ext, ep[e].ext)
<1> DEFINE u == Peer(e)
<1>1. /\ u \in Endpoints /\ u # e
      /\ (e = "client" /\ u = "server") \/ (e = "server" /\ u = "client")
  <2>1. CASE e = "client"
    BY <2>1 DEF Peer, Endpoints
  <2>2. CASE e = "server"
    BY <2>2 DEF Peer, Endpoints
  <2> QED
    BY <2>1, <2>2 DEF Endpoints
<1>2. Sound(ep[e]) /\ Sound(ep[u]) /\ ep[e].side = e /\ cfg \in Configs
  BY <1>1, NativeIs DEF Native, Endpoints
<1>3. Head(wire[e]) \in ToSet(wire[e])
  <2>1. wire[e] \in Seq(Items)
    BY DEF EndpointsInv, StreamInv, Stream
  <2> QED
    BY <2>1, ToSetTail
<1> HIDE DEF u
<1>4. ~Silent("server") /\ (e = "server" => Joined)
  <2>1. Head(wire[e]) # Eof /\ Head(wire[e]).kind \notin {"request", "eof"}
    BY EofIsItem DEF Frames
  <2>2. CASE e = "client"
    BY <1>3, <2>1, <2>2 DEF Joint, Early
  <2>3. CASE e = "server"
    BY <1>3, <2>1, <2>3 DEF Joint, Early
  <2> QED
    BY <1>1, <2>2, <2>3
<1>5. Joined
  <2>1. ~ep[e].eofSent
    BY <1>2 DEF Sound, Kept
  <2>2. e = "client" => Joined
    BY <2>1 DEF Joined
  <2> QED
    BY <1>1, <1>4, <2>2
<1>6. /\ Response.status = 101 /\ ep["server"].ext = Accepted(Response)
      /\ ep["client"].ext = ClientAccepted(cfg.client, Response)
  BY <1>5 DEF Joint, Answering, Replied
<1>7. /\ Compatible(ClientAccepted(cfg.client, Response), Accepted(Response))
      /\ Compatible(Accepted(Response), ClientAccepted(cfg.client, Response))
  BY <1>2, <1>6, NegotiationAgrees DEF Response
<1>8. Compatible(ep[u].ext, ep[e].ext)
  BY <1>1, <1>6, <1>7
<1>9. ep[e].state # "CONNECTING"
  BY <1>1, <1>2, <1>4 DEF Silent, Sound, Kept
<1> QED
  BY <1>2, <1>4, <1>8, <1>9 DEF u, Sound, SessionTypes

\* A close frame, and the end of the stream, tell nothing more.
LEMMA ClosesTell ==
  ASSUME NEW p, NEW q, NEW b, NEW o, NEW told, told.at = "frames", told.heard = b,
         Mute(p, q) \/ (q.closeSent \in FrameCodes /\ Emits(p, q, Close(q.closeSent)))
  PROVE  Tells(q, b, o, told, told)
<1>1. CASE Mute(p, q)
  BY <1>1 DEF Mute, Tells
<1>2. CASE q.closeSent \in FrameCodes /\ Emits(p, q, Close(q.closeSent))
  <2> DEFINE f == Close(q.closeSent)
  <2>1. f \in Items /\ f.kind = "close" /\ f.code = q.closeSent
    BY <1>2, FramesAreItems
  <2>2. f.size = 0 /\ ~f.rsv
    BY DEF Close, Control, Frame
  <2> HIDE DEF f
  <2>3. Reads(q, b, o, told, f, told)
    BY <2>1, <2>2 DEF Reads
  <2>4. q.writes = <<f>> \/ q.writes = <<f, Eof>>
    BY <1>2 DEF Emits, f
  <2> QED
    BY <2>1, <2>3, <2>4 DEF Tells
<1> QED
  BY <1>1, <1>2

\* The status of an endpoint after the handshake.
LEMMA FramesStatus ==
  ASSUME NEW p, Sound(p), p.parser = "frames", p.state # "CONNECTING"
  PROVE  /\ p.state \in {"OPEN", "CLOSING"} /\ p.eofSent = FALSE /\ p.closeRcvd = NoCode /\ p.parserExc = NoCode
         /\ p.rcvdThenSent = "unset" /\ (p.state = "OPEN" <=> p.closeSent = NoCode) /\ ~p.broken /\ Shaped(p)
         /\ p.side \in Endpoints
<1>1. p.eofSent = FALSE
  BY DEF Sound, Kept, StatusTypes
<1> QED
  BY <1>1 DEF Sound, Kept, StatusTypes, SessionTypes

\* fail() of such an endpoint.
LEMMA FailedOrdinary ==
  ASSUME NEW p, Sound(p), p.writes = <<>>, p.parser = "frames", p.state # "CONNECTING",
         NEW q, NEW code \in FrameCodes, NEW exc, Failed(p, q, code, exc),
         NEW m, NEW n, NEW o
  PROVE  /\ Settled(p, q) /\ q.parser = "discard" /\ q.closeRcvd = NoCode /\ q.rcvdThenSent # "yes"
         /\ q.parserExc = exc /\ (p.closeSent = NoCode \/ q.closeSent = p.closeSent) /\ Unfinished(q)
         /\ ToldOf(q, "frames", m, n) = ToldOf(p, "frames", m, n)
         /\ Tells(q, n, o, ToldOf(p, "frames", m, n), ToldOf(q, "frames", m, n))
<1>1. /\ p.state \in {"OPEN", "CLOSING"} /\ p.closeRcvd = NoCode /\ p.rcvdThenSent = "unset"
      /\ (p.state = "OPEN" <=> p.closeSent = NoCode)
  BY FramesStatus
<1>2. code # EofError /\ code # NoCode
  BY DEF FrameCodes, EofError, NoCode, NoStatus
<1> DEFINE opens == p.state = "OPEN"
<1>3. /\ Session(q) = Session(p)
      /\ StatusIs(q, IF opens THEN "CLOSING" ELSE p.state, "discard", p.closeRcvd,
                  IF opens THEN code ELSE p.closeSent, p.rcvdThenSent, p.side = "server", exc)
      /\ IF opens THEN Emits(p, q, Close(code)) ELSE Mute(p, q)
  BY <1>1, <1>2 DEF Failed
<1>4. /\ q.parser = "discard" /\ q.closeRcvd = NoCode /\ q.rcvdThenSent # "yes" /\ q.parserExc = exc
      /\ q.state \in {"OPEN", "CLOSING"} /\ (opens => q.closeSent = code) /\ (~opens => q.closeSent = p.closeSent)
  BY <1>1, <1>3 DEF StatusIs
<1>5. Settled(p, q)
  BY <1>3, <1>4 DEF Settled, Session
<1>6. ToldOf(q, "frames", m, n) = ToldOf(p, "frames", m, n)
  BY <1>3 DEF ToldOf, Session
<1>7. Tells(q, n, o, ToldOf(p, "frames", m, n), ToldOf(q, "frames", m, n))
  <2> DEFINE told == ToldOf(p, "frames", m, n)
  <2>1. told.at = "frames" /\ told.heard = n
    BY DEF ToldOf
  <2>2. Mute(p, q) \/ (q.closeSent \in FrameCodes /\ Emits(p, q, Close(q.closeSent)))
    BY <1>3, <1>4
  <2> HIDE DEF told
  <2>3. Tells(q, n, o, told, told)
    BY <2>1, <2>2, ClosesTell
  <2> QED
    BY <1>6, <2>3 DEF told
<1> QED
  BY <1>1, <1>4, <1>5, <1>6, <1>7 DEF Unfinished

--------------------------------------------------------------------------------
(* Each step keeps the invariant of the two.                               *)

LEMMA PairFrame ==
  ASSUME EndpointsInv, EndpointsInv', PairInv, cfg.foreign = "none", NEW e \in Endpoints, ReceiveFrameAt(e)
  PROVE  PairInv'
<1> DEFINE u == Peer(e)
<1> DEFINE p == ep[e]
<1> DEFINE f == Head(wire[e])
<1> DEFINE q == ReceiveFrame(p, f)
<1> DEFINE kinds == {"pong"}
<1> DEFINE rest == Tail(wire[e])
<1>1. /\ Native(e) /\ wire[e] # <<>> /\ f.kind \in Frames /\ p.parser = "frames" /\ UNCHANGED <<cfg, cut, request>>
      /\ Become(e, q, rest) /\ said' = said /\ message' = message /\ over' = over
      /\ heard' = IF ~IsControl(f) /\ q.parserExc = NoCode THEN [heard EXCEPT ![e] = @ + 1] ELSE heard
  BY DEF ReceiveFrameAt, Next1, history
<1>2. u \in Endpoints /\ u # e /\ Peer(u) = e
  BY PeerIs
<1>3. Sound(p) /\ p.writes = <<>> /\ p.side = e /\ f \in FrameSet /\ ep[u].side = u
  <2>1. f \in Items
    BY <1>1, NativeIs
  <2> QED
    BY <1>1, <1>2, <2>1, NativeIs, ItemKinds DEF Native, Endpoints
<1>4. Joint /\ PathInv(e) /\ Own(e) /\ Own(u)
  BY <1>2 DEF PairInv
<1>5. Sound(q) /\ Wrote(p, q, kinds)
  BY <1>1, <1>3, ReceiveFrameIsSound DEF Output
<1>6. /\ ~Silent("server") /\ ep[u].ext \in Exts /\ p.state # "CONNECTING" /\ Compatible(ep[u].ext, p.ext)
  BY <1>1, <1>4, ExtensionsFit DEF Own, Ending
<1>7. /\ p.state \in {"OPEN", "CLOSING"} /\ p.eofSent = FALSE /\ p.closeRcvd = NoCode /\ p.parserExc = NoCode
      /\ p.rcvdThenSent = "unset" /\ (p.state = "OPEN" <=> p.closeSent = NoCode) /\ ~p.broken /\ Shaped(p)
      /\ p.side \in Endpoints
  BY <1>1, <1>3, <1>6, FramesStatus
<1>8. Unfinished(p)
  BY <1>4 DEF Own
<1>9. heard[e] \in Nat /\ heard \in [Endpoints -> Nat] /\ heard'[u] = heard[u]
  BY <1>1, <1>2 DEF EndpointsInv, GlobalInv
<1>10. kinds \cap {"request", "response", "eof"} = {}
  OBVIOUS
<1>11. PICK k \in Marks : Reads(ep[u], said[u], over, Mark(e), f, k)
  <2>1. wire[e] \in Seq(Items)
    BY DEF EndpointsInv, StreamInv, Stream
  <2>2. PICK n \in Marks : Path(wire[e], ep[u], said[u], over, Mark(e), n)
    BY <1>1, <1>4 DEF PathInv
  <2> QED
    BY <1>1, <2>1, <2>2, PathTail
<1> DEFINE told == ToldOf(p, "frames", message[e], said[e])
<1> DEFINE tells == ToldOf(q, "frames", message'[e], said'[e])
<1>12. message'[e] = message[e] /\ said'[e] = said[e] /\ said'[u] = said[u] /\ message'[u] = message[u]
       /\ over \subseteq over'
  BY <1>1
<1>13. Eof.kind = "eof" /\ f # Eof
  BY <1>1, EofIsItem DEF Frames
<1> HIDE DEF kinds, q, rest, told, tells
<1>14. CASE f.kind \in {"text", "cont"}
  <2>1. ~IsControl(f)
    BY <1>14 DEF IsControl
  <2>2. ASSUME NEW n \in Marks, Reads(ep[u], said[u], over, Mark(e), f, n)
        PROVE  \/ u \in over /\ q = ParserFails(p, TooBig)
               \/ /\ MarkOf(q, heard[e] + 1) = n /\ Unfinished(q) /\ SameStatus(p, q) /\ q.writes = <<>>
                  /\ q.ext = p.ext /\ q.sub = p.sub /\ q.handshakeExc = p.handshakeExc
                  /\ q.expectCont = p.expectCont /\ q.enc = p.enc
    <3>1. DataRead(ep[u].ext, u \in over, MarkOf(p, heard[e]), f, n)
      BY <1>3, <1>13, <1>14, <2>2 DEF Reads, Mark
    <3> DEFINE allowed == u \in over
    <3> DEFINE h == heard[e]
    <3>2. allowed \in BOOLEAN /\ DataRead(ep[u].ext, allowed, MarkOf(p, h), f, n)
      BY <3>1
    <3> HIDE DEF allowed, h, p, f
    <3>3. \/ allowed /\ q = ParserFails(p, TooBig)
          \/ /\ MarkOf(q, h + 1) = n /\ Unfinished(q) /\ SameStatus(p, q) /\ q.writes = <<>>
             /\ q.ext = p.ext /\ q.sub = p.sub /\ q.handshakeExc = p.handshakeExc
             /\ q.expectCont = p.expectCont /\ q.enc = p.enc
      BY <1>1, <1>3, <1>6, <1>8, <1>14, <3>2, ReceiveDataIs DEF q
    <3> QED
      BY <3>3 DEF allowed, h
  <2>3. CASE u \in over /\ q = ParserFails(p, TooBig)
    <3>1. Failed(p, q, TooBig, TooBig)
      BY <1>1, <1>3, <1>6, <1>7, <2>3, ParserFailsIs
    <3>2. TooBig \in FrameCodes
      BY DEF TooBig, FrameCodes
    <3>3. /\ Settled(p, q) /\ q.parser = "discard" /\ q.closeRcvd = NoCode /\ q.rcvdThenSent # "yes"
          /\ q.parserExc = TooBig /\ (p.closeSent = NoCode \/ q.closeSent = p.closeSent) /\ Unfinished(q)
          /\ Tells(q, said'[e], over', told, tells)
      BY <1>1, <1>3, <1>6, <1>12, <3>1, <3>2, FailedOrdinary DEF told, tells
    <3>4. Excused(q, u \in over)
      BY <2>3, <3>3 DEF Excused, TooBig
    <3> QED
      BY <1>1, <1>5, <1>6, <1>9, <1>10, <1>12, <3>3, <3>4, OrdinaryKeeps DEF rest, told, tells
  <2>4. CASE ~(u \in over /\ q = ParserFails(p, TooBig))
    <3>1. /\ Unfinished(q) /\ SameStatus(p, q) /\ q.writes = <<>>
          /\ q.ext = p.ext /\ q.sub = p.sub /\ q.handshakeExc = p.handshakeExc
          /\ q.expectCont = p.expectCont /\ q.enc = p.enc
      BY <1>11, <2>2, <2>4
    <3>2. /\ q.state = p.state /\ q.parser = "frames" /\ q.parserExc = NoCode /\ q.closeRcvd = NoCode
          /\ q.closeSent = p.closeSent /\ q.rcvdThenSent = "unset"
      BY <1>1, <1>7, <3>1 DEF SameStatus, StatusIs
    <3>3. heard'[e] = heard[e] + 1
      BY <1>1, <1>9, <2>1, <3>2
    <3>4. Hears(e, MarkOf(q, heard'[e]))
      BY <1>1, <2>2, <2>4, <3>3 DEF Hears
    <3>5. Settled(p, q) /\ Excused(q, u \in over)
      BY <1>1, <1>7, <3>1, <3>2 DEF Settled, Excused
    <3>6. Tells(q, said'[e], over', told, tells)
      <4>1. tells = told
        BY <1>12, <3>1 DEF told, tells, ToldOf
      <4> QED
        BY <3>1, <4>1 DEF Tells
    <3>7. f.kind # "close"
      BY <1>14
    <3> QED
      BY <1>1, <1>5, <1>6, <1>9, <1>10, <1>12, <3>1, <3>2, <3>4, <3>5, <3>6, <3>7, OrdinaryKeeps DEF rest, told, tells
  <2> QED
    BY <2>3, <2>4
<1>15. CASE f.kind \in {"ping", "pong"}
  <2>1. ASSUME NEW n \in Marks, Reads(ep[u], said[u], over, Mark(e), f, n)
        PROVE  (f.size = 0 \/ ~QuietPings) /\ ~f.rsv /\ n = Mark(e)
    BY <1>13, <1>15, <2>1 DEF Reads
  <2>2. (f.size = 0 \/ ~QuietPings) /\ ~f.rsv
    BY <1>11, <2>1
  <2>a. q = IF f.size > Limit(p) THEN ParserFails(p, TooBig)
            ELSE IF f.kind = "ping" THEN Write(p, Pong(f.size)) ELSE p
    BY <1>1, <1>3, <1>15, <2>2, ReceivePingIs DEF q, SendPong
  <2>b. CASE f.size > Limit(p)
    <3>1. q = ParserFails(p, TooBig)
      BY <2>a, <2>b
    <3>2. ~QuietPings
      <4>1. p.current \in NoSize..MaxSize /\ MaxSize \in Nat
        BY <1>3, MaxSizeAssumption DEF Sound, SessionTypes
      <4>2. f.size # 0
        BY <2>b, <4>1 DEF Limit, NoSize
      <4> QED
        BY <2>2, <4>2
    <3>3. Failed(p, q, TooBig, TooBig)
      BY <1>1, <1>3, <1>6, <1>7, <3>1, ParserFailsIs
    <3>4. TooBig \in FrameCodes
      BY DEF TooBig, FrameCodes
    <3>5. /\ Settled(p, q) /\ q.parser = "discard" /\ q.closeRcvd = NoCode /\ q.rcvdThenSent # "yes"
          /\ q.parserExc = TooBig /\ (p.closeSent = NoCode \/ q.closeSent = p.closeSent) /\ Unfinished(q)
          /\ Tells(q, said'[e], over', told, tells)
      BY <1>1, <1>3, <1>6, <1>12, <3>3, <3>4, FailedOrdinary DEF told, tells
    <3>6. Excused(q, u \in over)
      BY <3>2, <3>5 DEF Excused, TooBig
    <3> QED
      BY <1>1, <1>5, <1>6, <1>9, <1>10, <1>12, <3>5, <3>6, OrdinaryKeeps DEF rest, told, tells
  <2> SUFFICES ASSUME ~(f.size > Limit(p)) PROVE PairInv'
    BY <2>b
  <2>3. q = IF f.kind = "ping" THEN Write(p, Pong(f.size)) ELSE p
    BY <2>a
  <2>4. Pong(f.size) \in Items /\ Pong(f.size).kind = "pong" /\ Pong(f.size).size = f.size /\ ~Pong(f.size).rsv
    <3>1. f.size \in Nat
      BY <1>3 DEF FrameSet
    <3>2. Pong(f.size) \in Items /\ Pong(f.size).kind = "pong"
      BY <3>1, FramesAreItems
    <3> QED
      BY <2>2, <3>2 DEF Pong, Control, Frame
  <2>5. Session(q) = Session(p) /\ SameStatus(p, q) /\ (q.writes = <<>> \/ q.writes = <<Pong(f.size)>>)
    <3>1. CASE f.kind = "ping"
      <4> DEFINE pong == Pong(f.size)
      <4> HIDE DEF pong
      <4>1. q = Write(p, pong)
        BY <2>3, <3>1 DEF pong
      <4>2. /\ q.writes = Append(p.writes, pong) /\ Session(q) = Session(p) /\ SameStatus(p, q)
        BY <1>7, <4>1, WriteIs DEF SameStatus
      <4> QED
        BY <1>3, <4>2, AppendTwo DEF pong
    <3>2. CASE f.kind # "ping"
      BY <1>3, <1>7, <2>3, <3>2 DEF SameStatus, StatusIs
    <3> QED
      BY <3>1, <3>2
  <2>6. /\ q.state = p.state /\ q.parser = "frames" /\ q.parserExc = NoCode /\ q.closeRcvd = NoCode
        /\ q.closeSent = p.closeSent /\ q.rcvdThenSent = "unset"
    BY <1>1, <1>7, <2>5 DEF SameStatus, StatusIs
  <2>7. /\ q.ext = p.ext /\ q.sub = p.sub /\ q.handshakeExc = p.handshakeExc /\ q.expectCont = p.expectCont
        /\ q.enc = p.enc /\ q.dec = p.dec /\ q.current = p.current /\ q.decCont = p.decCont
    BY <2>5 DEF Session
  <2>8. Unfinished(q) /\ Settled(p, q) /\ Excused(q, u \in over)
    BY <1>1, <1>7, <1>8, <2>6, <2>7 DEF Unfinished, Settled, Excused
  <2>9. heard'[e] = heard[e]
    <3>1. IsControl(f)
      BY <1>15 DEF IsControl
    <3> QED
      BY <1>1, <3>1
  <2>10. Hears(e, MarkOf(q, heard'[e]))
    <3>1. MarkOf(q, heard'[e]) = Mark(e)
      BY <1>1, <2>6, <2>7, <2>9 DEF Mark, MarkOf
    <3> QED
      BY <1>1, <2>1, <3>1 DEF Hears
  <2>11. Tells(q, said'[e], over', told, tells)
    <3>1. tells = told /\ told.at = "frames"
      BY <1>12, <2>7 DEF told, tells, ToldOf
    <3>2. Reads(q, said'[e], over', told, Pong(f.size), tells)
      BY <2>2, <2>4, <3>1 DEF Reads
    <3> QED
      BY <2>4, <2>5, <3>1, <3>2 DEF Tells
  <2>12. f.kind # "close"
    BY <1>15
  <2> QED
    BY <1>1, <1>5, <1>6, <1>9, <1>10, <1>12, <2>6, <2>8, <2>10, <2>11, <2>12, OrdinaryKeeps DEF rest, told, tells
<1>16. CASE f.kind = "close"
  <2>1. /\ f.size = 0 /\ ~f.rsv /\ f.code = ep[u].closeSent /\ heard[e] = said[u]
    BY <1>11, <1>13, <1>16 DEF Reads, Mark, MarkOf
  <2>2. f.code \in FrameCodes /\ f.code # NoCode
    BY <1>3, <1>16 DEF FrameSet, FrameCodes, NoCode, NoStatus
  <2>3. q = ReceiveClose(p, f)
    BY <1>3, <1>16, <2>1, CloseIsTaken DEF q
  <2> DEFINE interrupted == 1002
  <2> DEFINE code == IF p.current # NoSize THEN interrupted ELSE f.code
  <2> HIDE DEF interrupted
  <2>4. /\ Session(q) = Session(p)
        /\ StatusIs(q, IF p.state = "OPEN" THEN "CLOSING" ELSE p.state, "discard", f.code,
                    IF p.state = "OPEN" THEN code ELSE p.closeSent,
                    IF p.state = "OPEN" THEN "yes" ELSE IF p.state = "CLOSING" THEN "no" ELSE p.rcvdThenSent,
                    p.side = "server", IF p.current # NoSize THEN interrupted ELSE NoCode)
        /\ IF p.state = "OPEN" THEN Emits(p, q, Close(code)) ELSE Mute(p, q)
    BY <1>1, <1>3, <2>2, <2>3, ReceiveCloseIs DEF interrupted
  <2>5. code \in FrameCodes
    BY <2>2 DEF FrameCodes, interrupted
  <2> HIDE DEF code
  <2>6. /\ q.state = "CLOSING" /\ q.parser = "discard" /\ q.closeRcvd = f.code
        /\ q.closeSent = (IF p.state = "OPEN" THEN code ELSE p.closeSent)
        /\ (q.rcvdThenSent = "yes" => p.closeSent = NoCode)
        /\ q.parserExc = (IF p.current # NoSize THEN interrupted ELSE NoCode)
    BY <1>7, <2>4 DEF StatusIs
  <2>7. q.ext = p.ext /\ q.sub = p.sub /\ q.handshakeExc = p.handshakeExc /\ q.expectCont = p.expectCont
        /\ q.enc = p.enc /\ q.current = p.current
    BY <2>4 DEF Session
  <2>8. Settled(p, q) /\ Unfinished(q)
    BY <1>1, <2>6, <2>7 DEF Settled, Unfinished
  <2>9. Excused(q, u \in over)
    BY <2>2, <2>6, <2>7 DEF Excused, interrupted
  <2>10. heard'[e] = said[u]
    <3>1. IsControl(f)
      BY <1>16 DEF IsControl
    <3> QED
      BY <1>1, <2>1, <3>1
  <2>11. Tells(q, said'[e], over', told, tells)
    <3>1. tells = told /\ told.at = "frames" /\ told.heard = said'[e]
      BY <1>12, <2>7 DEF told, tells, ToldOf
    <3>2. Mute(p, q) \/ (q.closeSent \in FrameCodes /\ Emits(p, q, Close(q.closeSent)))
      BY <2>4, <2>5, <2>6
    <3> QED
      BY <3>1, <3>2, ClosesTell
  <2>12. p.closeSent = NoCode \/ q.closeSent = p.closeSent
    BY <1>7, <2>6
  <2>13. q.closeRcvd = ep[u].closeSent
    BY <2>1, <2>6
  <2> QED
    BY <1>1, <1>5, <1>6, <1>9, <1>10, <1>12, <2>6, <2>8, <2>9, <2>10, <2>11, <2>12, <2>13, OrdinaryKeeps DEF rest, told, tells
<1>17. f.kind \in {"text", "cont", "ping", "pong", "close"}
  BY <1>11, <1>13, <1>1 DEF Reads, Frames
<1> QED
  BY <1>14, <1>15, <1>16, <1>17

\* An open endpoint of this library is past the handshake, on both sides.
LEMMA OpenSpeaks ==
  ASSUME EndpointsInv, PairInv, cfg.foreign = "none", NEW e \in Endpoints, ep[e].state = "OPEN"
  PROVE  /\ Sound(ep[e]) /\ ep[e].writes = <<>> /\ ep[e].side = e /\ ep[e].parser = "frames" /\ ~Silent("server")
         /\ ep[e].eofSent = FALSE /\ ep[e].closeSent = NoCode /\ ep[e].closeRcvd = NoCode
         /\ ep[e].rcvdThenSent = "unset" /\ ep[e].parserExc = NoCode /\ Unfinished(ep[e])
         /\ cfg \in Configs /\ Native(e)
<1>1. Native(e)
  BY DEF Native, Endpoints
<1>2. Sound(ep[e]) /\ ep[e].writes = <<>> /\ ep[e].side = e /\ cfg \in Configs
  BY <1>1, NativeIs
<1>3. ep[e].parser = "frames"
  BY <1>2 DEF Sound, Kept
<1>4. /\ ep[e].eofSent = FALSE /\ ep[e].closeSent = NoCode /\ ep[e].closeRcvd = NoCode
      /\ ep[e].rcvdThenSent = "unset" /\ ep[e].parserExc = NoCode
  BY <1>2, <1>3, FramesStatus
<1>5. Unfinished(ep[e]) /\ Joint /\ Own(e)
  BY DEF PairInv, Own
<1>6. ~Silent("server")
  <2>1. CASE e = "server"
    BY <1>3, <2>1 DEF Silent
  <2>2. CASE e = "client"
    <3>1. ~ep["client"].handshakeExc
      BY <1>4, <1>5, <2>2 DEF Own, Ending
    <3>2. Joined
      BY <1>3, <2>2, <3>1 DEF Joined
    <3> QED
      BY <1>5, <3>2 DEF Joint, Answering, Replied
  <2> QED
    BY <2>1, <2>2 DEF Endpoints
<1> QED
  BY <1>1, <1>2, <1>3, <1>4, <1>5, <1>6

\* A call of an application that is past the handshake.
LEMMA PairCall ==
  ASSUME EndpointsInv, EndpointsInv', PairInv, cfg.foreign = "none", NEW e \in Endpoints, ep[e].state = "OPEN",
         NEW q, Sound(q), Call(e, q),
         NEW kinds, kinds \cap {"request", "response", "eof"} = {}, Wrote(ep[e], q, kinds),
         Settled(ep[e], q), Unfinished(q),
         q.closeRcvd = NoCode, q.rcvdThenSent # "yes", q.parserExc = NoCode,
         q.parser = "discard" \/ (q.parser = "frames" /\ q.current = ep[e].current /\ q.dec = ep[e].dec),
         over \subseteq over', said'[Peer(e)] = said[Peer(e)], message'[Peer(e)] = message[Peer(e)],
         NEW told, told = ToldOf(ep[e], "frames", message[e], said[e]),
         NEW tells, tells = ToldOf(q, "frames", message'[e], said'[e]),
         Tells(q, said'[e], over', told, tells)
  PROVE  PairInv'
<1> DEFINE rest == wire[e]
<1>1. /\ ~Silent("server") /\ ep[e].closeSent = NoCode /\ ep[e].parser = "frames"
  BY OpenSpeaks
<1>2. Become(e, q, rest) /\ UNCHANGED <<cfg, cut, request>> /\ heard' = heard
  BY DEF Call
<1>3. Excused(q, Peer(e) \in over)
  BY DEF Excused
<1>4. q.parser # "discard" => MarkOf(q, heard'[e]) = Mark(e)
  BY <1>1, <1>2 DEF Mark, MarkOf
<1>5. rest = wire[e]
  OBVIOUS
<1> HIDE DEF rest
<1>6. heard'[Peer(e)] = heard[Peer(e)]
  BY <1>2
<1> QED
  BY <1>1, <1>2, <1>3, <1>4, <1>5, <1>6, OrdinaryKeeps

LEMMA PairClose ==
  ASSUME EndpointsInv, EndpointsInv', PairInv, cfg.foreign = "none", NEW e \in Endpoints,
         NEW code \in {1000, NoStatus}, SendCloseAt(e, code)
  PROVE  PairInv'
<1> DEFINE p == ep[e]
<1> DEFINE q == SendClose(p, code)
<1> DEFINE kinds == {}
<1> DEFINE told == ToldOf(p, "frames", message[e], said[e])
<1> DEFINE tells == ToldOf(q, "frames", message'[e], said'[e])
<1>1. p.state = "OPEN" /\ Call(e, q) /\ said' = said /\ message' = message /\ over' = over
  BY DEF SendCloseAt, history
<1>2. /\ Sound(p) /\ p.writes = <<>> /\ p.side = e /\ p.parser = "frames" /\ p.eofSent = FALSE
      /\ p.closeSent = NoCode /\ p.closeRcvd = NoCode /\ p.rcvdThenSent = "unset" /\ p.parserExc = NoCode
      /\ Unfinished(p)
  BY <1>1, OpenSpeaks
<1>3. code \in FrameCodes
  BY DEF FrameCodes
<1>4. Sound(q) /\ Wrote(p, q, kinds)
  BY <1>1, <1>2, <1>3, SendCloseIsSound DEF Output
<1>5. /\ q.writes = <<Close(code)>> /\ Session(q) = Session(p)
      /\ StatusIs(q, "CLOSING", "frames", NoCode, code, "unset", FALSE, NoCode)
  <2> DEFINE a == Asserted(p, p.closeRcvd = NoCode)
  <2>0. q = [Write(a, Close(code)) EXCEPT !.closeSent = code, !.state = "CLOSING"]
    BY DEF SendClose
  <2>1. Session(a) = Session(p) /\ a.writes = <<>> /\ SameStatus(p, a)
    BY <1>2 DEF Sound, Kept, Asserted, SameStatus, StatusIs, Shaped, Session
  <2> HIDE DEF a, q
  <2>2. /\ q.writes = Append(a.writes, Close(code)) /\ Session(q) = Session(a)
        /\ StatusIs(q, "CLOSING", "frames", NoCode, code, "unset", FALSE, NoCode)
    BY <1>2, <2>0, <2>1 DEF SameStatus, StatusIs, Shaped, Session, Write
  <2> QED
    BY <2>1, <2>2, AppendTwo
<1> HIDE DEF q, kinds
<1>6. /\ q.state = "CLOSING" /\ q.parser = "frames" /\ q.closeRcvd = NoCode /\ q.closeSent = code
      /\ q.rcvdThenSent = "unset" /\ q.eofSent = FALSE /\ q.parserExc = NoCode
  BY <1>5 DEF StatusIs
<1>7. /\ q.ext = p.ext /\ q.sub = p.sub /\ q.handshakeExc = p.handshakeExc /\ q.expectCont = p.expectCont
      /\ q.enc = p.enc /\ q.dec = p.dec /\ q.current = p.current /\ q.decCont = p.decCont
  BY <1>5 DEF Session
<1>8. Settled(p, q) /\ Unfinished(q)
  <2>1. Settled(p, q)
    BY <1>2, <1>6, <1>7 DEF Settled
  <2>2. Unfinished(q)
    BY <1>1, <1>2, <1>6, <1>7 DEF Unfinished
  <2> QED
    BY <2>1, <2>2
<1>9. tells = told /\ told.at = "frames" /\ told.heard = said'[e]
  BY <1>1, <1>7 DEF ToldOf
<1>10. q.closeSent \in FrameCodes /\ Emits(p, q, Close(q.closeSent))
  BY <1>2, <1>3, <1>5, <1>6 DEF Emits
<1>11. Tells(q, said'[e], over', told, tells)
  <2> HIDE DEF told, tells
  <2> QED
    BY <1>9, <1>10, ClosesTell
<1>12. kinds \cap {"request", "response", "eof"} = {}
  BY DEF kinds
<1>13. over \subseteq over' /\ said'[Peer(e)] = said[Peer(e)] /\ message'[Peer(e)] = message[Peer(e)]
  BY <1>1
<1> HIDE DEF told, tells
<1> QED
  BY <1>1, <1>4, <1>6, <1>7, <1>8, <1>11, <1>12, <1>13, PairCall DEF told, tells

LEMMA PairFail ==
  ASSUME EndpointsInv, EndpointsInv', PairInv, cfg.foreign = "none", NEW e \in Endpoints, FailAt(e)
  PROVE  PairInv'
<1> DEFINE p == ep[e]
<1> DEFINE code == 1011
<1> DEFINE q == Fail(p, code)
<1> DEFINE kinds == {}
<1> DEFINE told == ToldOf(p, "frames", message[e], said[e])
<1> DEFINE tells == ToldOf(q, "frames", message'[e], said'[e])
<1>1. p.state = "OPEN" /\ Call(e, q) /\ said' = said /\ message' = message /\ over' = over
  BY DEF FailAt, history
<1>2. /\ Sound(p) /\ p.writes = <<>> /\ p.side = e /\ p.parser = "frames" /\ p.eofSent = FALSE
      /\ p.closeSent = NoCode /\ p.closeRcvd = NoCode /\ p.rcvdThenSent = "unset" /\ p.parserExc = NoCode
      /\ Unfinished(p)
  BY <1>1, OpenSpeaks
<1>3. code \in FrameCodes /\ code \in OwnCodes
  BY DEF FrameCodes, OwnCodes
<1> HIDE DEF code
<1>4. Sound(q) /\ Wrote(p, q, kinds)
  BY <1>1, <1>2, <1>3, FailIsSound DEF Output
<1>5. Failed(p, q, code, p.parserExc)
  BY <1>1, <1>2, FailIs DEF Sound, Kept
<1> HIDE DEF q, kinds
<1>6. p.state # "CONNECTING" /\ said'[e] = said[e] /\ message'[e] = message[e]
  BY <1>1
<1> DEFINE m == message[e]
<1> DEFINE n == said[e]
<1> HIDE DEF m, n
<1>7. /\ Settled(p, q) /\ q.parser = "discard" /\ q.closeRcvd = NoCode /\ q.rcvdThenSent # "yes"
      /\ q.parserExc = p.parserExc /\ Unfinished(q)
      /\ Tells(q, n, over', ToldOf(p, "frames", m, n), ToldOf(q, "frames", m, n))
  <2> DEFINE exc == p.parserExc
  <2> HIDE DEF exc
  <2>1. Failed(p, q, code, exc)
    BY <1>5 DEF exc
  <2> HIDE DEF p
  <2>2. /\ Settled(p, q) /\ q.parser = "discard" /\ q.closeRcvd = NoCode /\ q.rcvdThenSent # "yes"
        /\ q.parserExc = exc /\ Unfinished(q)
        /\ Tells(q, n, over', ToldOf(p, "frames", m, n), ToldOf(q, "frames", m, n))
    <3> DEFINE o == over'
    <3> HIDE DEF o, told, tells
    <3>1. p.state # "CONNECTING" /\ code \in FrameCodes /\ Sound(p) /\ p.writes = <<>> /\ p.parser = "frames"
      BY <1>2, <1>3, <1>6
    <3>2. /\ Settled(p, q) /\ q.parser = "discard" /\ q.closeRcvd = NoCode /\ q.rcvdThenSent # "yes"
        /\ q.parserExc = exc /\ Unfinished(q)
        /\ Tells(q, n, o, ToldOf(p, "frames", m, n), ToldOf(q, "frames", m, n))
      BY <2>1, <3>1, FailedOrdinary
    <3> QED
      BY <3>2 DEF o
  <2> QED
    BY <2>2 DEF exc
<1>8. Tells(q, said'[e], over', told, tells)
  BY <1>6, <1>7 DEF m, n
<1>12. kinds \cap {"request", "response", "eof"} = {}
  BY DEF kinds
<1>13. over \subseteq over' /\ said'[Peer(e)] = said[Peer(e)] /\ message'[Peer(e)] = message[Peer(e)]
  BY <1>1
<1> HIDE DEF told, tells
<1> QED
  BY <1>1, <1>2, <1>4, <1>7, <1>8, <1>12, <1>13, PairCall DEF told, tells

LEMMA PairPing ==
  ASSUME EndpointsInv, EndpointsInv', PairInv, cfg.foreign = "none", NEW e \in Endpoints, SendPingAt(e)
  PROVE  PairInv'
<1> DEFINE p == ep[e]
<1> DEFINE f == Ping(cfg.ping)
<1> DEFINE q == Write(p, f)
<1> DEFINE kinds == {"ping"}
<1> DEFINE told == ToldOf(p, "frames", message[e], said[e])
<1> DEFINE tells == ToldOf(q, "frames", message'[e], said'[e])
<1>1. p.state = "OPEN" /\ Call(e, q) /\ said' = said /\ message' = message /\ over' = over /\ cfg.ping >= 0
  BY DEF SendPingAt, SendPing, history
<1>2. /\ Sound(p) /\ p.writes = <<>> /\ p.side = e /\ p.parser = "frames" /\ p.eofSent = FALSE
      /\ p.closeSent = NoCode /\ p.closeRcvd = NoCode /\ p.rcvdThenSent = "unset" /\ p.parserExc = NoCode
      /\ Unfinished(p) /\ cfg \in Configs
  BY <1>1, OpenSpeaks
<1>3. f \in Items /\ f.kind \in kinds /\ f.kind = "ping" /\ (f.size = 0 \/ ~QuietPings) /\ ~f.rsv
  <2>1. cfg.ping \in Nat /\ (cfg.ping = 0 \/ ~QuietPings)
    BY <1>1, <1>2, ConfigsAssumption DEF QuietPings
  <2>2. f \in Items /\ f.kind = "ping"
    BY <2>1, FramesAreItems
  <2> QED
    BY <2>1, <2>2 DEF Ping, Control, Frame
<1>12. kinds \cap {"request", "response", "eof"} = {}
  OBVIOUS
<1> HIDE DEF f, kinds
<1>4. Sound(q) /\ Wrote(p, q, kinds)
  BY <1>2, <1>3, WriteIsSound DEF Output
<1>5. q.writes = <<f>> /\ Session(q) = Session(p) /\ SameStatus(p, q)
  <2>1. Append(p.writes, f) = <<f>>
    BY <1>2, AppendTwo
  <2> QED
    BY <1>2, <2>1, WriteIs DEF SameStatus, Sound, Kept
<1> HIDE DEF q
<1>6. /\ q.state = "OPEN" /\ q.parser = "frames" /\ q.closeRcvd = NoCode
      /\ q.rcvdThenSent = "unset" /\ q.parserExc = NoCode
  BY <1>1, <1>2, <1>5 DEF SameStatus, StatusIs
<1>7. /\ q.ext = p.ext /\ q.sub = p.sub /\ q.handshakeExc = p.handshakeExc /\ q.expectCont = p.expectCont
      /\ q.enc = p.enc /\ q.dec = p.dec /\ q.current = p.current /\ q.decCont = p.decCont
  BY <1>5 DEF Session
<1>8. Settled(p, q) /\ Unfinished(q)
  <2>1. Settled(p, q)
    BY <1>2, <1>6, <1>7 DEF Settled
  <2>2. Unfinished(q)
    BY <1>1, <1>2, <1>6, <1>7 DEF Unfinished
  <2> QED
    BY <2>1, <2>2
<1>9. tells = told /\ told.at = "frames"
  BY <1>1, <1>7 DEF ToldOf
<1> HIDE DEF told, tells
<1>11. Tells(q, said'[e], over', told, tells)
  <2>1. Reads(q, said'[e], over', told, f, tells)
    BY <1>3, <1>9 DEF Reads
  <2> QED
    BY <1>3, <1>5, <2>1 DEF Tells
<1>13. over \subseteq over' /\ said'[Peer(e)] = said[Peer(e)] /\ message'[Peer(e)] = message[Peer(e)]
  BY <1>1
<1> QED
  BY <1>1, <1>4, <1>6, <1>7, <1>8, <1>11, <1>12, <1>13, PairCall DEF told, tells

\* A data frame of the application carries the context its compressor is in.
LEMMA SendDataIs ==
  ASSUME NEW p, Sound(p), p.writes = <<>>, p.state = "OPEN", NEW first \in BOOLEAN, NEW fin \in BOOLEAN,
         NEW size \in Nat
  PROVE  LET q == SendData(p, first, fin, size)
         IN  /\ SameStatus(p, q) /\ q.side = p.side /\ q.ext = p.ext /\ q.sub = p.sub
             /\ q.handshakeExc = p.handshakeExc /\ q.current = p.current /\ q.dec = p.dec
             /\ q.decCont = p.decCont /\ q.expectCont = ~fin
             /\ \E f \in FrameSet :
                  /\ q.writes = <<f>> /\ f.size = size /\ f.fin = fin /\ f.kind = (IF first THEN "text" ELSE "cont")
                  /\ f.rsv <=> (first /\ p.ext.enabled)
                  /\ IF p.ext.enabled
                     THEN /\ f.ctx = IF first /\ p.ext.localNct THEN 0 ELSE p.enc
                          /\ f.bits = p.ext.localBits /\ q.enc = f.ctx + 1
                     ELSE q.enc = p.enc
<1> DEFINE fresh == first /\ p.ext.enabled /\ p.ext.localNct
<1> DEFINE ctx == IF fresh THEN 0 ELSE p.enc
<1> DEFINE kind == IF first THEN "text" ELSE "cont"
<1> DEFINE a == IF p.ext.enabled THEN [p EXCEPT !.expectCont = ~fin, !.enc = ctx + 1]
                ELSE [p EXCEPT !.expectCont = ~fin]
<1> DEFINE f == IF p.ext.enabled THEN Frame(kind, fin, size, NoCode, first, ctx, p.ext.localBits)
                ELSE Frame(kind, fin, size, NoCode, FALSE, 0, 0)
<1> DEFINE q == Write(a, f)
<1>1. SendData(p, first, fin, size) = q
  BY DEF SendData
<1>2. /\ Shaped(p) /\ ~p.broken /\ p.eofSent = FALSE /\ SessionTypes(p)
  BY DEF Sound, Kept, StatusTypes
<1>3. p.ext.enabled => p.ext.localBits \in Nat
  <2>1. p.ext \in Exts
    BY <1>2 DEF SessionTypes
  <2>2. CASE p.ext = NoExt
    <3>1. NoExt.enabled = FALSE
      BY DEF NoExt
    <3>2. p.ext.enabled = FALSE
      BY <2>2, <3>1
    <3> QED
      BY <3>2
  <2>3. CASE p.ext # NoExt
    BY <2>1, <2>3 DEF Exts
  <2> QED
    BY <2>2, <2>3
<1>4. ctx \in Nat /\ kind \in Frames /\ kind # "close"
  BY <1>2 DEF SessionTypes, Frames
<1>5. p.ext.enabled => ctx = IF first /\ p.ext.localNct THEN 0 ELSE p.enc
  OBVIOUS
<1> HIDE DEF ctx
<1>6. f \in FrameSet
  BY <1>3, <1>4 DEF Frame, FrameSet
<1>7. /\ f.size = size /\ f.fin = fin /\ f.kind = kind /\ (f.rsv <=> (first /\ p.ext.enabled))
      /\ p.ext.enabled => f.ctx = ctx /\ f.bits = p.ext.localBits
  BY DEF Frame
<1> HIDE DEF f
<1>8. /\ a.side = p.side /\ a.current = p.current /\ a.expectCont = ~fin /\ a.handshakeExc = p.handshakeExc
      /\ a.ext = p.ext /\ a.enc = (IF p.ext.enabled THEN ctx + 1 ELSE p.enc) /\ a.dec = p.dec
      /\ a.decCont = p.decCont /\ a.writes = <<>> /\ a.sub = p.sub /\ SameStatus(p, a)
  <2>1. CASE p.ext.enabled
    BY <1>2, <2>1 DEF Shaped, SameStatus, StatusIs
  <2>2. CASE ~p.ext.enabled
    BY <1>2, <2>2 DEF Shaped, SameStatus, StatusIs
  <2> QED
    BY <2>1, <2>2
<1> HIDE DEF a
<1>9. q.writes = <<f>> /\ Session(q) = Session(a) /\ SameStatus(p, q)
  BY <1>8, WriteIs, AppendTwo DEF SameStatus, StatusIs
<1> HIDE DEF q
<1>10. /\ q.side = p.side /\ q.ext = p.ext /\ q.sub = p.sub /\ q.handshakeExc = p.handshakeExc
       /\ q.current = p.current /\ q.dec = p.dec /\ q.decCont = p.decCont /\ q.expectCont = ~fin
       /\ q.enc = (IF p.ext.enabled THEN ctx + 1 ELSE p.enc)
  BY <1>8, <1>9 DEF Session
<1>11. IF p.ext.enabled
       THEN /\ f.ctx = IF first /\ p.ext.localNct THEN 0 ELSE p.enc
            /\ f.bits = p.ext.localBits /\ q.enc = f.ctx + 1
       ELSE q.enc = p.enc
  BY <1>5, <1>7, <1>10
<1>12. \E g \in FrameSet :
         /\ q.writes = <<g>> /\ g.size = size /\ g.fin = fin /\ g.kind = (IF first THEN "text" ELSE "cont")
         /\ g.rsv <=> (first /\ p.ext.enabled)
         /\ IF p.ext.enabled
            THEN /\ g.ctx = IF first /\ p.ext.localNct THEN 0 ELSE p.enc
                 /\ g.bits = p.ext.localBits /\ q.enc = g.ctx + 1
            ELSE q.enc = p.enc
  BY <1>6, <1>7, <1>9, <1>11
<1> QED
  BY <1>1, <1>9, <1>10, <1>12

LEMMA PairSend ==
  ASSUME EndpointsInv, EndpointsInv', PairInv, cfg.foreign = "none", NEW e \in Endpoints,
         NEW fin \in cfg.fins, NEW size \in cfg.sizes, Send(e, fin, size)
  PROVE  PairInv'
<1> DEFINE p == ep[e]
<1> DEFINE first == ~p.expectCont
<1> DEFINE total == size + IF first THEN 0 ELSE message[e]
<1> DEFINE q == SendData(p, first, fin, size)
<1> DEFINE kinds == {"text", "cont"}
<1> DEFINE told == ToldOf(p, "frames", message[e], said[e])
<1> DEFINE tells == ToldOf(q, "frames", message'[e], said'[e])
<1>1. /\ p.state = "OPEN" /\ Call(e, q) /\ said' = [said EXCEPT ![e] = @ + 1]
      /\ message' = [message EXCEPT ![e] = total]
      /\ over' = IF total > MaxSize THEN over \cup {e} ELSE over
  BY DEF Send
<1>2. /\ Sound(p) /\ p.writes = <<>> /\ p.side = e /\ p.parser = "frames" /\ p.eofSent = FALSE
      /\ p.closeSent = NoCode /\ p.closeRcvd = NoCode /\ p.rcvdThenSent = "unset" /\ p.parserExc = NoCode
      /\ Unfinished(p) /\ cfg \in Configs
  BY <1>1, OpenSpeaks
<1>3. fin \in BOOLEAN /\ size \in Nat /\ first \in BOOLEAN /\ message[e] \in Nat /\ said[e] \in Nat
  BY <1>2, ConfigsAssumption DEF EndpointsInv, GlobalInv
<1>4. /\ said'[e] = said[e] + 1 /\ message'[e] = total /\ total \in Nat
      /\ said'[Peer(e)] = said[Peer(e)] /\ message'[Peer(e)] = message[Peer(e)]
      /\ over \subseteq over' /\ (total <= MaxSize \/ e \in over')
  <2>1. said \in [Endpoints -> Nat] /\ message \in [Endpoints -> Nat] /\ Peer(e) # e /\ Peer(e) \in Endpoints
    BY PeerIs DEF EndpointsInv, GlobalInv
  <2>2. total \in Nat /\ MaxSize \in Nat
    BY <1>3, MaxSizeAssumption
  <2> HIDE DEF total
  <2> QED
    BY <1>1, <2>1, <2>2
<1>0. first = ~p.expectCont
  OBVIOUS
<1> HIDE DEF first
<1>5. Sound(q) /\ Wrote(p, q, kinds)
  BY <1>1, <1>2, <1>3, SendDataIsSound DEF Output
<1>6. /\ SameStatus(p, q) /\ q.side = p.side /\ q.ext = p.ext /\ q.sub = p.sub
      /\ q.handshakeExc = p.handshakeExc /\ q.current = p.current /\ q.dec = p.dec
      /\ q.decCont = p.decCont /\ q.expectCont = ~fin
  BY <1>1, <1>2, <1>3, SendDataIs
<1>7. PICK f \in FrameSet :
        /\ q.writes = <<f>> /\ f.size = size /\ f.fin = fin /\ f.kind = (IF first THEN "text" ELSE "cont")
        /\ f.rsv <=> (first /\ p.ext.enabled)
        /\ IF p.ext.enabled
           THEN /\ f.ctx = IF first /\ p.ext.localNct THEN 0 ELSE p.enc
                /\ f.bits = p.ext.localBits /\ q.enc = f.ctx + 1
           ELSE q.enc = p.enc
  BY <1>1, <1>2, <1>3, SendDataIs
<1>8. kinds \cap {"request", "response", "eof"} = {}
  OBVIOUS
<1> HIDE DEF q, kinds
<1>9. /\ q.state = "OPEN" /\ q.parser = "frames" /\ q.closeRcvd = NoCode
      /\ q.rcvdThenSent = "unset" /\ q.parserExc = NoCode
  BY <1>1, <1>2, <1>6 DEF SameStatus, StatusIs
<1>10. Settled(p, q) /\ Unfinished(q)
  <2>1. Settled(p, q)
    BY <1>2, <1>6, <1>9 DEF Settled
  <2>2. Unfinished(q)
    BY <1>1, <1>2, <1>6, <1>9 DEF Unfinished
  <2> QED
    BY <2>1, <2>2
<1>11. /\ told.at = "frames" /\ told.cur = (IF first THEN NoSize ELSE message[e]) /\ told.dec = p.enc
       /\ told.heard = said[e] /\ tells.at = "frames" /\ tells.dec = q.enc
       /\ tells.cur = (IF fin THEN NoSize ELSE total) /\ tells.heard = said[e] + 1
  BY <1>0, <1>3, <1>4, <1>6 DEF ToldOf
<1>12. first <=> told.cur = NoSize
  BY <1>3, <1>11 DEF NoSize
<1>13. f.size + (IF told.cur = NoSize THEN 0 ELSE told.cur) = total
  BY <1>7, <1>11, <1>12
<1>14. f \in Items /\ f.kind \in {"text", "cont"}
  BY <1>7 DEF Items
<1> HIDE DEF told, tells, total
<1>15. DataRead(q.ext, q.side \in over', told, f, tells)
  BY <1>2, <1>4, <1>6, <1>7, <1>11, <1>12, <1>13 DEF DataRead
<1>16. Tells(q, said'[e], over', told, tells)
  <2>1. Reads(q, said'[e], over', told, f, tells)
    BY <1>14, <1>15 DEF Reads
  <2> QED
    BY <1>7, <1>14, <2>1 DEF Tells
<1> QED
  BY <1>1, <1>4, <1>5, <1>6, <1>8, <1>9, <1>10, <1>16, PairCall DEF told, tells

--------------------------------------------------------------------------------
(* The handshake and the end of the streams.                               *)

LEMMA Sides ==
  /\ "client" \in Endpoints /\ "server" \in Endpoints /\ Peer("client") = "server" /\ Peer("server") = "client"
  /\ \A e \in Endpoints : e = "client" \/ e = "server"
BY DEF Endpoints, Peer

\* What an endpoint keeps when its stream ends, or its handshake fails.
Leaves(p, q) ==
  /\ q.side = p.side /\ q.current = p.current /\ q.expectCont = p.expectCont /\ q.ext = p.ext /\ q.sub = p.sub
  /\ q.enc = p.enc /\ q.parser = "discard" /\ q.eofSent
  /\ q.handshakeExc <=> (p.handshakeExc \/ p.parser = "http")
  /\ q.closeRcvd = p.closeRcvd /\ q.closeSent = p.closeSent /\ q.rcvdThenSent = p.rcvdThenSent

LEMMA HandshakeFailsLeaves ==
  ASSUME NEW p, Sound(p), p.writes = <<>>, p.parser = "http"
  PROVE  LET q == HandshakeFails(p)
         IN  Leaves(p, q) /\ q.parserExc = p.parserExc /\ q.state = "CONNECTING" /\ Shaped(q) /\ ~q.broken
<1> DEFINE a == [p EXCEPT !.handshakeExc = TRUE]
<1> DEFINE b == SendEof(a)
<1> DEFINE q == Discard(b)
<1>1. q = HandshakeFails(p)
  BY DEF HandshakeFails
<1>2. Shaped(p) /\ ~p.broken /\ SessionTypes(p) /\ p.eofSent = FALSE /\ p.state = "CONNECTING"
  BY DEF Sound, Kept, StatusTypes
<1>3. /\ a.side = p.side /\ a.current = p.current /\ a.expectCont = p.expectCont /\ a.handshakeExc = TRUE
      /\ a.ext = p.ext /\ a.sub = p.sub /\ a.enc = p.enc /\ SameStatus(p, a)
  BY <1>2 DEF Shaped, SameStatus, StatusIs
<1> HIDE DEF a
<1>4. /\ Session(b) = Session(a)
      /\ StatusIs(b, p.state, p.parser, p.closeRcvd, p.closeSent, p.rcvdThenSent, TRUE, p.parserExc)
  BY <1>2, <1>3, SendEofIs DEF SameStatus, StatusIs
<1> HIDE DEF b
<1>5. (b.side = "server" \/ b.state = "CONNECTING") <=> b.eofSent
  BY <1>2, <1>4 DEF StatusIs
<1>6. /\ Session(q) = Session(b)
      /\ StatusIs(q, "CONNECTING", "discard", p.closeRcvd, p.closeSent, p.rcvdThenSent, TRUE, p.parserExc)
  BY <1>2, <1>4, <1>5, DiscardIs DEF StatusIs
<1> HIDE DEF q
<1>7. /\ q.side = p.side /\ q.current = p.current /\ q.expectCont = p.expectCont /\ q.handshakeExc = TRUE
      /\ q.ext = p.ext /\ q.sub = p.sub /\ q.enc = p.enc
  BY <1>3, <1>4, <1>6 DEF Session
<1> QED
  BY <1>1, <1>6, <1>7 DEF Leaves, StatusIs

LEMMA ReceiveEofLeaves ==
  ASSUME NEW p, Sound(p), p.writes = <<>>, p.state # "CLOSED"
  PROVE  LET q == ReceiveEof(p)
         IN  Leaves(p, q) /\ q.parserExc = IF p.parser = "frames" THEN EofError ELSE p.parserExc
<1> DEFINE a == CASE p.parser = "http" -> HandshakeFails(p)
                  [] p.parser = "frames" -> ParserFails(p, EofError)
                  [] p.parser = "discard" -> p
<1> DEFINE last == a.side = "client" /\ a.state # "CONNECTING"
<1> DEFINE b == IF last THEN SendEof(a) ELSE a
<1> DEFINE q == [b EXCEPT !.state = "CLOSED"]
<1>1. q = ReceiveEof(p)
  BY DEF ReceiveEof, DiscardEof
<1>2. /\ Shaped(p) /\ ~p.broken /\ p.side \in Endpoints /\ p.parser \in {"http", "frames", "discard"}
      /\ p.eofSent \in BOOLEAN
  BY DEF Sound, Kept, SessionTypes, StatusTypes
<1> HIDE DEF a, q
<1>3. /\ a.side = p.side /\ a.current = p.current /\ a.expectCont = p.expectCont /\ a.ext = p.ext /\ a.sub = p.sub
      /\ a.enc = p.enc /\ a.parser = "discard" /\ (a.handshakeExc <=> (p.handshakeExc \/ p.parser = "http"))
      /\ a.closeRcvd = p.closeRcvd /\ a.closeSent = p.closeSent /\ a.rcvdThenSent = p.rcvdThenSent
      /\ a.parserExc = (IF p.parser = "frames" THEN EofError ELSE p.parserExc)
      /\ Shaped(a) /\ ~a.broken /\ (a.eofSent <=> (a.side = "server" \/ a.state = "CONNECTING"))
  <2>1. CASE p.parser = "http"
    <3> DEFINE h == HandshakeFails(p)
    <3>1. a = h
      BY <2>1 DEF a
    <3>2. Leaves(p, h) /\ h.parserExc = p.parserExc /\ h.state = "CONNECTING" /\ Shaped(h) /\ ~h.broken
      BY <2>1, HandshakeFailsLeaves
    <3> HIDE DEF h
    <3> QED
      BY <2>1, <3>1, <3>2 DEF Leaves
  <2>2. CASE p.parser = "frames"
    <3> DEFINE h == ParserFails(p, EofError)
    <3>1. a = h
      BY <2>2 DEF a
    <3>2. p.eofSent = FALSE /\ (p.side = "client" => p.state # "CONNECTING")
      BY <2>2 DEF Sound, Kept, StatusTypes
    <3>3. Failed(p, h, EofError, EofError)
      BY <1>2, <3>2, ParserFailsIs
    <3> HIDE DEF h
    <3>4. /\ Session(h) = Session(p)
          /\ StatusIs(h, p.state, "discard", p.closeRcvd, p.closeSent, p.rcvdThenSent, p.side = "server", EofError)
      BY <3>3 DEF Failed
    <3>5. h.eofSent = (p.side = "server") /\ h.state = p.state
      BY <3>4, Zenon DEF StatusIs
    <3>6. /\ h.side = p.side /\ h.current = p.current /\ h.expectCont = p.expectCont /\ h.ext = p.ext
          /\ h.sub = p.sub /\ h.enc = p.enc /\ h.handshakeExc = p.handshakeExc
      BY <3>4 DEF Session
    <3>7. /\ h.parser = "discard" /\ h.closeRcvd = p.closeRcvd /\ h.closeSent = p.closeSent
          /\ h.rcvdThenSent = p.rcvdThenSent /\ h.parserExc = EofError /\ Shaped(h) /\ ~h.broken
      BY <3>4 DEF StatusIs
    <3>8. h.eofSent <=> (h.side = "server" \/ h.state = "CONNECTING")
      BY <1>2, <3>2, <3>5, <3>6 DEF Endpoints
    <3> QED
      BY <2>2, <3>1, <3>6, <3>7, <3>8
  <2>3. CASE p.parser = "discard"
    <3>1. a = p
      BY <2>3 DEF a
    <3> QED
      BY <1>2, <2>3, <3>1 DEF Sound, Kept
  <2> QED
    BY <1>2, <2>1, <2>2, <2>3
<1>4. /\ Session(b) = Session(a) /\ Shaped(b)
      /\ StatusIs(b, a.state, "discard", a.closeRcvd, a.closeSent, a.rcvdThenSent, b.eofSent, a.parserExc) /\ b.eofSent
  <2>1. CASE last
    <3>1. ~a.eofSent
      BY <1>3, <2>1
    <3>2. b = SendEof(a)
      BY <2>1
    <3> HIDE DEF b
    <3>3. /\ Session(b) = Session(a)
          /\ StatusIs(b, a.state, a.parser, a.closeRcvd, a.closeSent, a.rcvdThenSent, TRUE, a.parserExc)
      BY <1>3, <3>1, <3>2, SendEofIs
    <3> QED
      BY <1>3, <3>3 DEF StatusIs
  <2>2. CASE ~last
    <3>1. b = a /\ a.eofSent
      BY <1>2, <1>3, <2>2 DEF Endpoints
    <3> HIDE DEF b
    <3> QED
      BY <1>3, <3>1 DEF StatusIs
  <2> QED
    BY <2>1, <2>2
<1> HIDE DEF b, last
<1>5. /\ Session(q) = Session(b) /\ q.eofSent = b.eofSent /\ q.parser = b.parser /\ q.closeRcvd = b.closeRcvd
      /\ q.closeSent = b.closeSent /\ q.rcvdThenSent = b.rcvdThenSent /\ q.parserExc = b.parserExc
  BY <1>4 DEF q, Session, Shaped
<1>6. /\ b.parser = "discard" /\ b.closeRcvd = p.closeRcvd /\ b.closeSent = p.closeSent
      /\ b.rcvdThenSent = p.rcvdThenSent /\ b.parserExc = (IF p.parser = "frames" THEN EofError ELSE p.parserExc)
  BY <1>3, <1>4 DEF StatusIs
<1>7. /\ q.side = p.side /\ q.current = p.current /\ q.expectCont = p.expectCont /\ q.ext = p.ext /\ q.sub = p.sub
      /\ q.enc = p.enc /\ (q.handshakeExc <=> (p.handshakeExc \/ p.parser = "http"))
  BY <1>3, <1>4, <1>5 DEF Session
<1> QED
  BY <1>1, <1>4, <1>5, <1>6, <1>7 DEF Leaves

\* The end of e's stream, or of its handshake, leaves what the two agreed on.
LEMMA LeavesKeeps ==
  ASSUME EndpointsInv, NEW e \in Endpoints, Asking, Answering, Early, UNCHANGED <<cfg, request>>,
         ep'[Peer(e)] = ep[Peer(e)], Leaves(ep[e], ep'[e]),
         \A x \in Endpoints : ToSet(wire'[x]) \subseteq ToSet(wire[x]) \cup {Eof}
  PROVE  Asking' /\ Answering' /\ Early'
<1>1. /\ ToSet(wire'["client"]) \subseteq ToSet(wire["client"]) \cup {Eof}
      /\ ToSet(wire'["server"]) \subseteq ToSet(wire["server"]) \cup {Eof}
      /\ Eof.kind = "eof"
  BY Sides, EofIsItem
<1>2. Response' = Response
  BY DEF Response
<1>3. Silent("server")' => Silent("server")
  BY Sides DEF Silent, Leaves
<1>4. Joined' <=> Joined
  BY Sides DEF Joined, Leaves
<1>5. Replied => Replied'
  <2>1. CASE e = "client"
    BY <1>2, <2>1, Sides DEF Replied, Silent
  <2>2. CASE e = "server"
    BY <1>2, <2>2, Sides DEF Replied, Silent, Leaves
  <2> QED
    BY <2>1, <2>2, Sides
<1>6. ep'["client"].ext = ep["client"].ext /\ ep'["client"].sub = ep["client"].sub
  BY Sides DEF Leaves
<1>7. Asking'
  BY <1>1 DEF Asking
<1>8. Answering'
  <2>1. \A f \in ToSet(wire'["client"]) : f.kind = "response" => f = Response' /\ Replied'
    BY <1>1, <1>2, <1>5 DEF Answering
  <2>2. Joined' => Replied' /\ Response'.status = 101 /\ ep'["client"].ext = ClientAccepted(cfg'.client, Response')
                   /\ ep'["client"].sub = Response'.sub
    BY <1>2, <1>4, <1>5, <1>6 DEF Answering
  <2> QED
    BY <2>1, <2>2 DEF Answering
<1>9. Early'
  BY <1>1, <1>3, <1>4 DEF Early
<1> QED
  BY <1>7, <1>8, <1>9

\* A step in which e's stream, or its handshake, ends.
LEMMA EndKeeps ==
  ASSUME EndpointsInv, EndpointsInv', PairInv, cfg.foreign = "none", NEW e \in Endpoints,
         UNCHANGED <<cfg, request, cut, heard, said, message, over>>,
         NEW q, Sound(q), Leaves(ep[e], q), NEW kinds, kinds = {}, Wrote(ep[e], q, kinds),
         wire[e] # <<>>, NEW rest, rest = Tail(wire[e]), Become(e, q, rest),
         cut = {} => /\ ~Silent("server") /\ Excused(q, Peer(e) \in over)
                     /\ q.closeSent # NoCode \/ q.handshakeExc,
         ServerFirst'
  PROVE  PairInv'
<1> DEFINE u == Peer(e)
<1> DEFINE p == ep[e]
<1> DEFINE r == ep'[e]
<1>1. u \in Endpoints /\ u # e /\ Peer(u) = e /\ \A x \in Endpoints : x = e \/ x = u
  BY PeerIs
<1>2. /\ ep'[u] = ep[u] /\ wire'[e] = rest
      /\ wire'[u] = IF cut = {} THEN wire[u] \o q.writes ELSE wire[u]
      /\ Session(r) = Session(q) /\ SameStatus(q, r)
  BY BecomeIs
<1>3. Joint /\ PathInv(e) /\ PathInv(u) /\ Own(e) /\ Own(u)
  BY <1>1 DEF PairInv
<1>4. wire[e] \in Seq(Items) /\ wire[u] \in Seq(Items) /\ Sound(p) /\ p.side = e /\ p.eofSent \in BOOLEAN
      /\ q.eofSent \in BOOLEAN
  BY <1>1, NativeIs DEF Native, Endpoints, EndpointsInv, StreamInv, Stream, Sound, StatusTypes
<1>0. "eof" \notin kinds
  OBVIOUS
<1>5. q.writes = <<>> \/ q.writes = <<Eof>>
  <2>1. q.closeSent = p.closeSent
    BY DEF Leaves
  <2>2. Mute(p, q) \/ (p.closeSent = NoCode /\ q.closeSent \in FrameCodes)
    BY DEF Wrote
  <2>3. \A c \in FrameCodes : c # NoCode
    BY DEF FrameCodes, NoCode, NoStatus
  <2> QED
    BY <2>1, <2>2, <2>3 DEF Mute
<1>6. ToSet(rest) \subseteq ToSet(wire[e]) /\ ToSet(wire'[u]) \subseteq ToSet(wire[u]) \cup {Eof}
  <2>1. ToSet(rest) \subseteq ToSet(wire[e])
    BY <1>4, ToSetTail
  <2>2. ToSet(wire[u] \o q.writes) \subseteq ToSet(wire[u]) \cup {Eof}
    <3>1. <<Eof>> \in Seq(Items) /\ <<>> \in Seq(Items)
      BY EofIsItem
    <3>2. q.writes \in Seq(Items) /\ ToSet(q.writes) \subseteq {Eof}
      <4>1. ToSet(<<>>) \subseteq {Eof} /\ ToSet(<<Eof>>) \subseteq {Eof}
        BY ToSetIs
      <4> QED
        BY <1>5, <3>1, <4>1
    <3> QED
      BY <1>4, <3>2, ToSetConcat
  <2> QED
    BY <1>2, <2>1, <2>2
<1>7. Leaves(p, r)
  <2>1. /\ r.side = q.side /\ r.current = q.current /\ r.expectCont = q.expectCont /\ r.ext = q.ext /\ r.sub = q.sub
        /\ r.enc = q.enc /\ r.handshakeExc = q.handshakeExc
    BY <1>2 DEF Session
  <2>2. /\ r.parser = q.parser /\ r.eofSent = q.eofSent /\ r.closeRcvd = q.closeRcvd /\ r.closeSent = q.closeSent
        /\ r.rcvdThenSent = q.rcvdThenSent
    BY <1>2 DEF SameStatus, StatusIs
  <2> QED
    BY <2>1, <2>2 DEF Leaves
<1> HIDE DEF u, p, r
<1>8. Joint'
  <2>1. \A x \in Endpoints : ToSet(wire'[x]) \subseteq ToSet(wire[x]) \cup {Eof}
    BY <1>1, <1>2, <1>6
  <2>2. Asking' /\ Answering' /\ Early'
    BY <1>2, <1>3, <1>7, <2>1, LeavesKeeps DEF Joint, u, p, r
  <2> QED
    BY <2>2 DEF Joint
<1>9. cut = {} => Told(e)' = Told(e)
  <2> SUFFICES ASSUME cut = {} PROVE Told(e)' = Told(e)
    OBVIOUS
  <2>1. ep["server"].parser # "http" /\ ep'["server"].parser # "http" /\ ~Silent("server")'
    <3>1. ep["server"].parser # "http"
      BY DEF Silent
    <3>2. CASE e = "client"
      <4>1. ep'["server"] = ep["server"]
        BY <1>2, <3>2, Sides DEF u
      <4> QED
        BY <3>1, <4>1 DEF Silent
    <3>3. CASE e = "server"
      <4>1. ep'["server"].parser = "discard"
        BY <1>7, <3>3 DEF Leaves, r
      <4> QED
        BY <3>1, <4>1 DEF Silent
    <3> QED
      BY <3>2, <3>3, Sides
  <2>2. ~Silent(e) /\ ~Silent(e)'
    BY <2>1 DEF Silent
  <2> QED
    BY <1>7, <2>2 DEF Told, ToldOf, Leaves, p, r
<1>10. PathInv(u)'
  <2>1. cut = {} => Tells(q, said'[e], over', Told(e), Told(e)')
    BY <1>5, <1>9 DEF Tells
  <2>2. q.side = e /\ q.ext = ep[e].ext /\ q.closeSent = ep[e].closeSent
    BY <1>4 DEF Leaves, p
  <2> QED
    BY <1>3, <2>1, <2>2, OutKeeps DEF u
<1>11. PathInv(e)'
  BY <1>3, InKeeps DEF Leaves
<1>12. Own(u)'
  BY <1>3, OthersKeep DEF Leaves, u
<1>13. Own(e)'
  <2>1. Ending(e) /\ Lossless(e)
    BY <1>3 DEF Own
  <2>2. Unfinished(q) /\ q.eofSent
    BY DEF Unfinished, Leaves
  <2>3. q.closeRcvd # NoCode => q.closeRcvd = ep[Peer(e)].closeSent /\ heard'[e] = said[Peer(e)]
    BY <2>1 DEF Lossless, Leaves
  <2>4. q.rcvdThenSent = "yes" => ep[Peer(e)].rcvdThenSent # "yes"
    BY <2>1 DEF Lossless, Leaves
  <2> QED
    BY <1>0, <2>1, <2>2, <2>3, <2>4, OwnKeeps
<1> QED
  BY <1>1, <1>8, <1>10, <1>11, <1>12, <1>13 DEF PairInv

\* The end of a stream that nobody cut follows the closing handshake.
LEMMA EofFollows ==
  ASSUME EndpointsInv, PairInv, cfg.foreign = "none", cut = {}, NEW e \in Endpoints, wire[e] # <<>>, Head(wire[e]) = Eof
  PROVE  ep[Peer(e)].eofSent /\ ~Silent("server") /\ ep["server"].eofSent /\ ep[e].parser # "frames"
<1> DEFINE u == Peer(e)
<1>1. u \in Endpoints /\ u # e /\ Peer(u) = e
  BY PeerIs
<1>2. Sound(ep[e]) /\ Sound(ep[u]) /\ Sound(ep["server"]) /\ Joint /\ Own(u) /\ Own(e)
  BY <1>1, NativeIs, Sides DEF Native, Endpoints, PairInv
<1>3. Stream(wire[e]) /\ wire[e] \in Seq(Items) /\ StreamInv(e)
  BY DEF EndpointsInv, StreamInv, Stream
<1>4. ep[u].eofSent
  <2>1. Ended(wire[e])
    BY <1>3, StreamTail
  <2> QED
    BY <1>3, <2>1 DEF StreamInv, u
<1> HIDE DEF u
<1>5. ep["server"].eofSent
  <2>1. CASE u = "server"
    BY <1>4, <2>1
  <2>2. CASE u = "client"
    BY <1>2, <1>4, <2>2 DEF Joint, ServerFirst
  <2> QED
    BY <1>1, <2>1, <2>2, Sides
<1>6. ~Silent("server")
  BY <1>2, <1>5 DEF Silent, Sound, Kept
<1>7. ASSUME ep[e].parser = "frames" PROVE FALSE
  <2>1. e = "client" /\ u = "server"
    BY <1>2, <1>5, <1>7, Sides DEF Sound, Kept, u
  <2>2. Joined
    <3>1. ~ep["client"].eofSent
      BY <1>2, <1>7, <2>1 DEF Sound, Kept
    <3> QED
      BY <1>2, <1>7, <2>1, <3>1 DEF Own, Ending, Joined
  <2>3. ~ep["server"].handshakeExc
    BY <1>2, <2>2 DEF Joint, Answering, ServerFirst
  <2>4. ep[u].closeSent # NoCode
    BY <1>2, <1>4, <2>1, <2>3 DEF Own, Ending
  <2>5. Closing(wire[e])
    BY <1>1, <1>2, <1>7, <2>4 DEF Own, Ending
  <2>7. ToSet(wire[e]) = {Eof}
    <3> DEFINE w == wire[e]
    <3>0. Stream(w) /\ w \in Seq(Items) /\ w # <<>> /\ Head(w) = Eof
      BY <1>3
    <3> HIDE DEF w
    <3>2. Len(w) \in Nat /\ Len(w) >= 1 /\ w[1] = Eof
      BY <3>0
    <3>3. ~(1 < Len(w))
      <4> DEFINE i == 1
      <4>1. i \in 1..Len(w) /\ w[i] = Eof
        BY <3>2
      <4> HIDE DEF i
      <4>2. ~(i < Len(w))
        BY <3>0, <4>1 DEF Stream
      <4> QED
        BY <4>2 DEF i
    <3>4. Len(w) = 1
      <4> DEFINE n == Len(w)
      <4>1. n \in Nat /\ n >= 1 /\ ~(1 < n)
        BY <3>2, <3>3
      <4> HIDE DEF n
      <4>2. n = 1
        BY <4>1
      <4> QED
        BY <4>2 DEF n
    <3>5. Tail(w) \in Seq(Items) /\ Len(Tail(w)) = 0
      BY <3>0, <3>4
    <3>1. Tail(w) = <<>>
      BY <3>5, EmptySeq
    <3> QED
      BY <3>0, <3>1, ToSetTail, ToSetIs DEF w
  <2> QED
    BY <2>5, <2>7, EofIsItem DEF Closing
<1> QED
  BY <1>4, <1>5, <1>6, <1>7 DEF u

LEMMA PairEof ==
  ASSUME EndpointsInv, EndpointsInv', PairInv, cfg.foreign = "none", NEW e \in Endpoints, ReceiveEofAt(e)
  PROVE  PairInv'
<1> DEFINE u == Peer(e)
<1> DEFINE p == ep[e]
<1> DEFINE q == ReceiveEof(p)
<1> DEFINE kinds == {}
<1> DEFINE rest == Tail(wire[e])
<1>1. /\ Native(e) /\ wire[e] # <<>> /\ Head(wire[e]).kind = "eof"
      /\ Become(e, q, rest) /\ UNCHANGED <<cfg, request, cut, heard, said, message, over>>
  BY DEF ReceiveEofAt, Next1, history
<1>2. /\ Sound(p) /\ p.writes = <<>> /\ p.side = e /\ Head(wire[e]) = Eof
  BY <1>1, NativeIs, ItemKinds
<1>3. p.state # "CLOSED"
  <2>1. StreamInv(e)
    BY DEF EndpointsInv
  <2>2. Ended(wire[e])
    BY <1>1, <1>2, <2>1, StreamTail DEF StreamInv
  <2> QED
    BY <2>1, <2>2 DEF StreamInv
<1>4. Sound(q) /\ Wrote(p, q, kinds)
  <2> HIDE DEF kinds
  <2> QED
    BY <1>2, <1>3, ReceiveEofIs
<1>5. Leaves(p, q) /\ q.parserExc = IF p.parser = "frames" THEN EofError ELSE p.parserExc
  BY <1>2, <1>3, ReceiveEofLeaves
<1> HIDE DEF q, rest
<1>6. Own(e) /\ Joint
  BY DEF PairInv
<1>7. cut = {} => /\ ep[u].eofSent /\ ~Silent("server") /\ ep["server"].eofSent /\ p.parser # "frames"
  BY <1>1, <1>2, EofFollows
<1>8. cut = {} => Excused(q, u \in over)
  <2>1. cut = {} => Excused(p, u \in over) /\ q.parserExc = p.parserExc /\ q.closeRcvd = p.closeRcvd /\ q.current = p.current
    BY <1>5, <1>6, <1>7 DEF Own, Clean, Leaves
  <2> QED
    BY <2>1 DEF Excused
<1>9. cut = {} => q.closeSent # NoCode \/ q.handshakeExc
  <2> SUFFICES ASSUME cut = {} PROVE p.closeSent # NoCode \/ p.handshakeExc \/ p.parser = "http"
    BY <1>5 DEF Leaves
  <2>1. p.parser = "discard" \/ p.parser = "http"
    BY <1>2, <1>7 DEF Sound, StatusTypes
  <2>2. p.eofSent => p.closeSent # NoCode \/ p.handshakeExc
    BY <1>6 DEF Own, Ending
  <2>3. p.parser = "discard" /\ ~p.eofSent => p.state = "CLOSING"
    BY <1>2, <1>3 DEF Sound, Kept, StatusTypes
  <2>4. p.state = "CLOSING" => p.closeSent # NoCode
    BY <1>2 DEF Sound, Kept
  <2> QED
    BY <2>1, <2>2, <2>3, <2>4
<1>10. ServerFirst'
  <2> SUFFICES ASSUME cut = {}
               PROVE  ep'["server"].eofSent /\ (ep'["server"].handshakeExc => Response.status # 101)
    BY <1>1 DEF ServerFirst, Response
  <2>1. ep'[u] = ep[u] /\ Session(ep'[e]) = Session(q) /\ SameStatus(q, ep'[e])
    BY <1>1, <1>4, BecomeIs
  <2>2. ep'[e].eofSent = q.eofSent /\ ep'[e].handshakeExc = q.handshakeExc
    BY <2>1 DEF Session, SameStatus, StatusIs
  <2>3. CASE e = "client"
    BY <1>6, <1>7, <2>1, <2>3, Sides DEF Joint, ServerFirst
  <2>4. CASE e = "server"
    BY <1>5, <1>6, <1>7, <2>2, <2>4 DEF Joint, ServerFirst, Leaves, Silent
  <2> QED
    BY <2>3, <2>4, Sides
<1>11. kinds = {}
  OBVIOUS
<1> HIDE DEF kinds
<1> QED
  BY <1>1, <1>4, <1>5, <1>7, <1>8, <1>9, <1>10, <1>11, EndKeeps DEF rest

LEMMA PairDiscard ==
  ASSUME EndpointsInv, EndpointsInv', PairInv, cfg.foreign = "none", NEW e \in Endpoints, DiscardAt(e)
  PROVE  PairInv'
<1> DEFINE u == Peer(e)
<1> DEFINE rest == Tail(wire[e])
<1>1. u \in Endpoints /\ u # e /\ Peer(u) = e /\ \A x \in Endpoints : x = e \/ x = u
  BY PeerIs
<1>2. /\ wire' = [wire EXCEPT ![e] = rest] /\ wire[e] # <<>> /\ ep[e].parser = "discard"
      /\ UNCHANGED <<cfg, ep, request, cut, heard, closes, said, message, over>>
  BY DEF DiscardAt, history
<1>3. DOMAIN wire = Endpoints /\ wire[e] \in Seq(Items)
  BY DEF EndpointsInv, GlobalInv, StreamInv, Stream
<1>4. ToSet(rest) \subseteq ToSet(wire[e])
  BY <1>2, <1>3, ToSetTail
<1> HIDE DEF rest, u
<1>5. wire'[e] = rest /\ wire'[u] = wire[u]
  BY <1>1, <1>2, <1>3
<1>6. Joint /\ PathInv(e) /\ PathInv(u) /\ Own(e) /\ Own(u)
  BY <1>1 DEF PairInv
<1>7. \A x \in Endpoints : ToSet(wire'[x]) \subseteq ToSet(wire[x])
  BY <1>1, <1>4, <1>5
<1>8. Joint'
  <2>1. /\ ToSet(wire'["client"]) \subseteq ToSet(wire["client"]) /\ ToSet(wire'["server"]) \subseteq ToSet(wire["server"])
    BY <1>7, Sides
  <2>2. Response' = Response /\ (Silent("server")' <=> Silent("server")) /\ (Joined' <=> Joined)
    BY <1>2 DEF Response, Silent, Joined
  <2>3. Replied' <=> Replied
    BY <1>2, <2>2 DEF Replied
  <2>4. Asking'
    BY <1>2, <1>6, <2>1 DEF Joint, Asking
  <2>5. Answering'
    BY <1>2, <1>6, <2>1, <2>2, <2>3 DEF Joint, Answering
  <2>6. Early'
    BY <1>6, <2>1, <2>2 DEF Joint, Early
  <2>7. ServerFirst'
    BY <1>2, <1>6, <2>2 DEF Joint, ServerFirst
  <2> QED
    BY <2>4, <2>5, <2>6, <2>7 DEF Joint
<1>9. PathInv(e)'
  BY <1>2 DEF PathInv
<1>10. PathInv(u)'
  <2>1. Told(e)' = Told(e)
    <3>1. CASE e = "client"
      <4>1. u = "server"
        BY <3>1, Sides DEF u
      <4>2. Silent(e)' <=> Silent(e)
        BY <1>2, <1>5, <3>1, <4>1 DEF Silent
      <4> QED
        BY <1>2, <4>2 DEF Told, ToldOf
    <3>2. CASE e = "server"
      <4>1. Silent(e)' <=> Silent(e)
        BY <1>2, <3>2 DEF Silent
      <4> QED
        BY <1>2, <4>1 DEF Told, ToldOf
    <3> QED
      BY <3>1, <3>2, Sides
  <2>2. Mark(u)' = Mark(u)
    BY <1>2 DEF Mark
  <2> SUFFICES ASSUME ep[u].parser # "discard"
               PROVE  \E n \in Marks : Path(wire[u], ep[e], said[e], over, Mark(u), n) /\ (cut = {} => n = Told(e))
    BY <1>1, <1>2, <1>5, <2>1, <2>2 DEF PathInv
  <2> QED
    BY <1>1, <1>6 DEF PathInv
<1>11. Own(e)'
  BY <1>1, <1>2, <1>5, <1>6 DEF Own, Ending, Clean, Lossless, u
<1>12. Own(u)'
  BY <1>1, <1>2, <1>5, <1>6 DEF Own, Ending, Clean, Lossless
<1> QED
  BY <1>1, <1>8, <1>9, <1>10, <1>11, <1>12 DEF PairInv

\* Whoever cuts the TCP connection takes nothing from what was agreed.
LEMMA PairAbort ==
  ASSUME EndpointsInv, EndpointsInv', PairInv, cfg.foreign = "none", NEW e \in Endpoints, Abort(e)
  PROVE  PairInv'
<1> DEFINE u == Peer(e)
<1> DEFINE p == ep[e]
<1> DEFINE q == ReceiveEof(p)
<1> DEFINE r == [q EXCEPT !.writes = <<>>]
<1>1. u \in Endpoints /\ u # e /\ Peer(u) = e /\ \A x \in Endpoints : x = e \/ x = u
  BY PeerIs
<1>2. PICK n \in 0..Len(wire[u]) :
        wire' = [wire EXCEPT ![e] = <<>>,
                      ![u] = IF Native(u) /\ ep[u].state # "CLOSED" THEN Append(SubSeq(@, 1, n), Eof) ELSE @]
  BY DEF Abort
<1>3. /\ Native(e) /\ cut = {} /\ cut' # {} /\ ep' = [ep EXCEPT ![e] = [ReceiveEof(@) EXCEPT !.writes = <<>>]]
      /\ p.state = "CONNECTING" \/ CloseExpected(p)
      /\ UNCHANGED <<cfg, request, heard, said, message, over>>
  BY DEF Abort, history
<1>4. /\ Sound(p) /\ p.writes = <<>> /\ p.side = e /\ p.state # "CLOSED"
      /\ Native(u) /\ Sound(ep[u]) /\ DOMAIN ep = Endpoints /\ DOMAIN wire = Endpoints /\ wire[u] \in Seq(Items)
  BY <1>1, <1>3, NativeIs DEF CloseExpected, Native, Endpoints, EndpointsInv, GlobalInv, StreamInv, Stream
<1>5. Leaves(p, q) /\ Sound(q)
  <2> DEFINE kinds == {}
  <2> HIDE DEF kinds
  <2>1. Sound(q) /\ Wrote(p, q, kinds)
    BY <1>4, ReceiveEofIs
  <2> QED
    BY <1>4, <2>1, ReceiveEofLeaves
<1> HIDE DEF q
<1>6. Session(r) = Session(q) /\ SameStatus(q, r)
  BY <1>5, ResetIsSound
<1> HIDE DEF r
<1>7. Leaves(p, r)
  <2>1. /\ r.side = q.side /\ r.current = q.current /\ r.expectCont = q.expectCont /\ r.ext = q.ext /\ r.sub = q.sub
        /\ r.enc = q.enc /\ r.handshakeExc = q.handshakeExc
    BY <1>6 DEF Session
  <2>2. /\ r.parser = q.parser /\ r.eofSent = q.eofSent /\ r.closeRcvd = q.closeRcvd /\ r.closeSent = q.closeSent
        /\ r.rcvdThenSent = q.rcvdThenSent
    BY <1>6 DEF SameStatus, StatusIs
  <2> QED
    BY <1>5, <2>1, <2>2 DEF Leaves
<1> DEFINE v == SubSeq(wire[u], 1, n)
<1>8. v \in Seq(Items) /\ ToSet(v) \subseteq ToSet(wire[u])
  BY <1>4, ToSetPrefix
<1> HIDE DEF v, u
<1>9. /\ ep'[e] = r /\ ep'[u] = ep[u] /\ wire'[e] = <<>>
      /\ wire'[u] = IF ep[u].state # "CLOSED" THEN Append(v, Eof) ELSE wire[u]
  BY <1>1, <1>2, <1>3, <1>4 DEF q, r, v
<1>10. Joint /\ PathInv(u) /\ Own(e) /\ Own(u)
  BY <1>1 DEF PairInv
<1>11. Joint'
  <2>1. ToSet(Append(v, Eof)) \subseteq ToSet(wire[u]) \cup {Eof}
    <3>1. Append(v, Eof) = v \o <<Eof>> /\ <<Eof>> \in Seq(Items)
      BY <1>8, EofIsItem
    <3>2. ToSet(v \o <<Eof>>) = ToSet(v) \cup ToSet(<<Eof>>)
      BY <1>8, <3>1, ToSetConcat
    <3> QED
      BY <1>8, <3>1, <3>2, ToSetIs
  <2>2. ToSet(wire'[e]) \subseteq ToSet(wire[e]) \cup {Eof}
    BY <1>9, ToSetIs
  <2>3. \A x \in Endpoints : ToSet(wire'[x]) \subseteq ToSet(wire[x]) \cup {Eof}
    BY <1>1, <1>9, <2>1, <2>2
  <2>4. Asking' /\ Answering' /\ Early'
    BY <1>3, <1>7, <1>9, <1>10, <2>3, LeavesKeeps DEF Joint, u
  <2> QED
    BY <1>3, <2>4 DEF Joint, ServerFirst
<1>12. PathInv(e)'
  BY <1>7, <1>9 DEF PathInv, Leaves
<1>13. PathInv(u)'
  <2> SUFFICES ASSUME ep[u].parser # "discard"
               PROVE  \E k \in Marks : Path(wire'[u], ep'[e], said'[e], over', Mark(u)', k)
    BY <1>1, <1>3, <1>9 DEF PathInv
  <2>1. ep[u].state # "CLOSED"
    BY <1>4 DEF Sound, Kept
  <2>2. PICK m \in Marks : Path(wire[u], p, said[e], over, Mark(u), m)
    BY <1>1, <1>10 DEF PathInv
  <2>3. PICK k \in Marks : Path(v, p, said[e], over, Mark(u), k)
    BY <1>4, <2>2, PathPrefix DEF v
  <2>4. Path(Append(v, Eof), p, said[e], over, Mark(u), k)
    <3>1. Reads(p, said[e], over, k, Eof, k)
      BY DEF Reads
    <3> QED
      BY <1>8, <2>3, <3>1, EofIsItem, PathAppend
  <2>5. Append(v, Eof) \in Seq(Items)
    BY <1>8, EofIsItem
  <2>6. r.side = p.side /\ r.ext = p.ext /\ r.closeSent = p.closeSent
    BY <1>7 DEF Leaves
  <2>7. Path(Append(v, Eof), r, said[e], over, Mark(u), k)
    BY <2>4, <2>5, <2>6, PathStays
  <2>8. Mark(u)' = Mark(u)
    BY <1>3, <1>9 DEF Mark
  <2> QED
    BY <1>3, <1>9, <2>1, <2>7, <2>8
<1>14. Own(e)'
  <2>1. /\ ep'[e].parser = "discard" /\ ep'[e].eofSent /\ ep'[e].closeRcvd = p.closeRcvd
        /\ ep'[e].rcvdThenSent = p.rcvdThenSent
    BY <1>7, <1>9 DEF Leaves
  <2>2. Unfinished(ep'[e]) /\ Ending(e)' /\ Clean(e)'
    BY <1>3, <2>1 DEF Unfinished, Ending, Clean
  <2>3. Lossless(e)'
    BY <1>3, <1>9, <1>10, <2>1 DEF Own, Lossless, u
  <2> QED
    BY <2>2, <2>3 DEF Own
<1>15. Own(u)'
  <2>1. ep'[e].closeSent = p.closeSent /\ ep'[e].rcvdThenSent = p.rcvdThenSent
    BY <1>7, <1>9 DEF Leaves
  <2>2. Unfinished(ep'[u]) /\ Ending(u)' /\ Clean(u)'
    BY <1>3, <1>9, <1>10 DEF Own, Ending, Clean
  <2>3. Lossless(u)'
    BY <1>1, <1>3, <1>9, <1>10, <2>1 DEF Own, Lossless
  <2> QED
    BY <2>2, <2>3 DEF Own
<1> QED
  BY <1>1, <1>11, <1>12, <1>13, <1>14, <1>15 DEF PairInv

LEMMA PairSendRequest ==
  ASSUME EndpointsInv, EndpointsInv', PairInv, cfg.foreign = "none", SendRequest
  PROVE  PairInv'
<1> DEFINE e == "client"
<1> DEFINE u == "server"
<1> DEFINE p == ep[e]
<1> DEFINE f == Connect(cfg.client)
<1> DEFINE q == Write(p, f)
<1> DEFINE kinds == {"request"}
<1> DEFINE rest == wire[e]
<1>1. /\ Become(e, q, rest) /\ p.parser = "http" /\ ep[u].parser = "http" /\ wire[u] = <<>>
      /\ UNCHANGED <<cfg, cut, request, heard, said, message, over>>
  BY DEF SendRequest, Call, history
<1>2. /\ e \in Endpoints /\ u \in Endpoints /\ u # e /\ Peer(e) = u /\ Peer(u) = e
      /\ \A x \in Endpoints : x = e \/ x = u
  BY Sides
<1>3. Sound(p) /\ p.writes = <<>> /\ p.side = e /\ cfg \in Configs
  BY <1>2, NativeIs DEF Native, Endpoints
<1>4. /\ p.eofSent = FALSE /\ p.closeSent = NoCode /\ p.closeRcvd = NoCode /\ p.parserExc = NoCode
      /\ p.rcvdThenSent = "unset" /\ Shaped(p) /\ ~p.broken
  BY <1>1, <1>3 DEF Sound, Kept, StatusTypes
<1>5. f \in Items /\ f.kind \in kinds /\ f.kind = "request"
  <2>1. f \in Requests /\ f.kind = "request"
    BY <1>3 DEF Connect, Requests
  <2> QED
    BY <2>1 DEF Items
<1>0. "eof" \notin kinds
  OBVIOUS
<1>6. Silent(e)
  BY <1>1 DEF Silent
<1> HIDE DEF f, kinds, rest
<1>7. Sound(q) /\ Wrote(p, q, kinds)
  BY <1>3, <1>4, <1>5, WriteIsSound DEF Output
<1>8. q.writes = <<f>> /\ Session(q) = Session(p) /\ SameStatus(p, q)
  <2>1. Append(p.writes, f) = <<f>>
    BY <1>3, AppendTwo
  <2> QED
    BY <1>4, <2>1, WriteIs DEF SameStatus
<1> HIDE DEF q
<1>9. /\ q.state = p.state /\ q.parser = "http" /\ q.closeRcvd = NoCode /\ q.closeSent = NoCode
      /\ q.rcvdThenSent = "unset" /\ q.eofSent = FALSE /\ q.parserExc = NoCode
      /\ q.ext = p.ext /\ q.sub = p.sub /\ q.handshakeExc = p.handshakeExc /\ q.expectCont = p.expectCont
      /\ q.enc = p.enc /\ q.dec = p.dec /\ q.current = p.current /\ q.decCont = p.decCont /\ q.side = e
  BY <1>1, <1>3, <1>4, <1>8 DEF SameStatus, StatusIs, Session
<1>10. /\ ep'[u] = ep[u] /\ wire'[e] = rest /\ wire'[u] = IF cut = {} THEN wire[u] \o q.writes ELSE wire[u]
       /\ Session(ep'[e]) = Session(q) /\ SameStatus(q, ep'[e])
  <2>1. Become(e, q, rest) /\ cfg' = cfg /\ Sound(q) /\ e \in Endpoints /\ Peer(e) = u
    BY <1>1, <1>2, <1>7
  <2> HIDE DEF e, u, p
  <2> QED
    BY <2>1, BecomeIs
<1>11. /\ ep'[e].parser = "http" /\ ep'[e].eofSent = FALSE /\ ep'[e].ext = p.ext /\ ep'[e].sub = p.sub
       /\ ep'[e].expectCont = p.expectCont /\ ep'[e].enc = p.enc /\ ep'[e].dec = p.dec /\ ep'[e].current = p.current
  BY <1>9, <1>10 DEF SameStatus, StatusIs, Session
<1>12. Joint /\ PathInv(e) /\ PathInv(u) /\ Own(e) /\ Own(u)
  BY <1>2 DEF PairInv
<1>13. wire'[u] = IF cut = {} THEN <<f>> ELSE <<>>
  BY <1>1, <1>8, <1>10
<1>14. ToSet(wire'[u]) \subseteq {f} /\ wire'[e] = wire[e]
  BY <1>10, <1>13, ToSetIs DEF rest
<1>15. Joint'
  <2>1. Response' = Response /\ (Silent("server")' <=> Silent("server")) /\ ~Joined' /\ ~Joined /\ (Replied' <=> Replied)
    BY <1>1, <1>10, <1>11 DEF Response, Silent, Joined, Replied
  <2>2. Asking'
    BY <1>1, <1>12, <1>14 DEF Joint, Asking, f
  <2>3. Answering'
    BY <1>1, <1>12, <1>14, <2>1 DEF Joint, Answering
  <2>4. Early'
    BY <1>5, <1>12, <1>14, <2>1 DEF Joint, Early
  <2>5. ServerFirst'
    BY <1>1, <1>10, <1>11, <1>12, <2>1 DEF Joint, ServerFirst
  <2> QED
    BY <2>2, <2>3, <2>4, <2>5 DEF Joint
<1>16. PathInv(u)'
  <2>1. cut = {} => Tells(q, said'[e], over', Told(e), Told(e)')
    <3> SUFFICES ASSUME cut = {} PROVE Tells(q, said'[e], over', Told(e), Told(e)')
      OBVIOUS
    <3>1. ~Silent(e)'
      <4>1. <<f>> # <<>>
        BY ToSetIs
      <4>2. wire'["server"] = <<f>>
        BY <1>13
      <4> QED
        BY <4>1, <4>2 DEF Silent
    <3>2. Told(e).at = "http" /\ Told(e)' = [Told(e) EXCEPT !.at = "frames"]
      BY <1>1, <1>6, <1>11, <3>1 DEF Told, ToldOf
    <3>3. Reads(q, said'[e], over', Told(e), f, Told(e)')
      BY <1>5, <3>2 DEF Reads
    <3> QED
      BY <1>5, <1>8, <3>3 DEF Tells
  <2>2. heard'[u] = heard[u] /\ over \subseteq over' /\ said'[e] = said[e]
    BY <1>1
  <2> HIDE DEF e, u
  <2> QED
    BY <1>1, <1>2, <1>4, <1>7, <1>9, <1>12, <2>1, <2>2, OutKeeps
<1>17. PathInv(e)'
  <2>1. Mark(e)' = Mark(e)
    BY <1>1, <1>11 DEF Mark, MarkOf
  <2>2. Told(u)' = Told(u)
    BY <1>1, <1>10 DEF Told, ToldOf, Silent
  <2>3. over \subseteq over' /\ said'[u] = said[u] /\ p.parser # "discard"
    BY <1>1
  <2> HIDE DEF e, u
  <2> QED
    BY <1>1, <1>2, <1>7, <1>12, <2>1, <2>2, <2>3, InKeeps DEF rest
<1>18. Own(u)'
  <2>2. heard'[u] = heard[u] /\ over \subseteq over' /\ said'[e] = said[e] /\ p.parser # "discard"
    BY <1>1
  <2> HIDE DEF e, u
  <2> QED
    BY <1>1, <1>2, <1>4, <1>7, <1>9, <1>12, <2>2, OthersKeep DEF rest
<1>19. Own(e)'
  <2>1. Ending(e) /\ Unfinished(p)
    BY <1>12 DEF Own
  <2>2. Unfinished(q)
    BY <1>1, <1>9, <2>1 DEF Unfinished
  <2>3. q.handshakeExc => q.eofSent
    BY <1>4, <1>9, <2>1 DEF Ending
  <2>4. Excused(q, u \in over)
    BY <1>9 DEF Excused
  <2>5. said'[u] = said[u] /\ over \subseteq over'
    BY <1>1
  <2> HIDE DEF e, u
  <2> QED
    BY <1>0, <1>1, <1>2, <1>7, <1>9, <2>1, <2>2, <2>3, <2>4, <2>5, OwnKeeps
<1> QED
  BY <1>2, <1>15, <1>16, <1>17, <1>18, <1>19 DEF PairInv

LEMMA PairReceiveRequest ==
  ASSUME EndpointsInv, EndpointsInv', PairInv, cfg.foreign = "none", ReceiveRequestAt
  PROVE  PairInv'
<1> DEFINE e == "server"
<1> DEFINE u == "client"
<1> DEFINE p == ep[e]
<1> DEFINE f == Head(wire[e])
<1> DEFINE q == ReceiveRequest(p)
<1> DEFINE kinds == {}
<1> DEFINE rest == Tail(wire[e])
<1>1. /\ Become(e, q, rest) /\ p.parser = "http" /\ wire[e] # <<>> /\ f.kind = "request" /\ request' = f
      /\ UNCHANGED <<cfg, cut, heard, said, message, over>>
  BY DEF ReceiveRequestAt, Next1, history
<1>2. /\ e \in Endpoints /\ u \in Endpoints /\ u # e /\ Peer(e) = u /\ Peer(u) = e
      /\ \A x \in Endpoints : x = e \/ x = u
  BY Sides
<1>3. Sound(p) /\ p.writes = <<>> /\ p.side = e /\ wire[e] \in Seq(Items)
  BY <1>2, NativeIs DEF Native, Endpoints, EndpointsInv, StreamInv, Stream
<1>4. /\ p.eofSent = FALSE /\ p.closeSent = NoCode /\ p.closeRcvd = NoCode /\ p.parserExc = NoCode
      /\ p.rcvdThenSent = "unset" /\ Shaped(p) /\ ~p.broken /\ p.state = "CONNECTING"
  BY <1>1, <1>3 DEF Sound, Kept, StatusTypes
<1>0. "eof" \notin kinds
  OBVIOUS
<1> HIDE DEF kinds
<1>7. Sound(q) /\ Wrote(p, q, kinds)
  BY <1>1, <1>3, ReceiveRequestIsSound DEF Output
<1>8. /\ q.writes = <<>> /\ Session(q) = Session(p)
      /\ StatusIs(q, p.state, "frames", p.closeRcvd, p.closeSent, p.rcvdThenSent, p.eofSent, p.parserExc)
  BY <1>3, <1>4 DEF ReceiveRequest, Shaped, Session, StatusIs
<1>5. ToSet(wire[e]) = {f} \cup ToSet(rest)
  BY <1>1, <1>3, ToSetTail
<1> HIDE DEF q, rest
<1>9. /\ q.state = "CONNECTING" /\ q.parser = "frames" /\ q.closeRcvd = NoCode /\ q.closeSent = NoCode
      /\ q.rcvdThenSent = "unset" /\ q.eofSent = FALSE /\ q.parserExc = NoCode
      /\ q.ext = p.ext /\ q.sub = p.sub /\ q.handshakeExc = p.handshakeExc /\ q.expectCont = p.expectCont
      /\ q.enc = p.enc /\ q.dec = p.dec /\ q.current = p.current /\ q.decCont = p.decCont /\ q.side = e
  BY <1>3, <1>4, <1>8 DEF StatusIs, Session
<1>10. /\ ep'[u] = ep[u] /\ wire'[e] = rest /\ wire'[u] = IF cut = {} THEN wire[u] \o q.writes ELSE wire[u]
       /\ Session(ep'[e]) = Session(q) /\ SameStatus(q, ep'[e])
  BY <1>1, <1>2, <1>7, BecomeIs
<1>11. /\ ep'[e].parser = "frames" /\ ep'[e].state = "CONNECTING" /\ ep'[e].eofSent = FALSE /\ ep'[e].ext = p.ext
       /\ ep'[e].sub = p.sub /\ ep'[e].handshakeExc = p.handshakeExc
       /\ ep'[e].expectCont = p.expectCont /\ ep'[e].enc = p.enc /\ ep'[e].dec = p.dec /\ ep'[e].current = p.current
  BY <1>9, <1>10 DEF SameStatus, StatusIs, Session
<1>12. Joint /\ PathInv(e) /\ PathInv(u) /\ Own(e) /\ Own(u)
  BY <1>2 DEF PairInv
<1>13. wire'[u] = wire[u]
  <2>1. wire[u] \in Seq(Items)
    BY <1>2 DEF EndpointsInv, StreamInv, Stream
  <2>2. wire[u] \o <<>> = wire[u]
    BY <2>1, ConcatEmptySeq
  <2> QED
    BY <1>8, <1>10, <2>2
<1>14. ToSet(wire'[e]) \subseteq ToSet(wire[e]) /\ f \in ToSet(wire[e])
  BY <1>5, <1>10
<1>15. Joint'
  <2>1. Response' = Response /\ Silent("server")' /\ Silent("server") /\ (Joined' <=> Joined)
    BY <1>1, <1>10, <1>11 DEF Response, Silent, Joined
  <2>2. Asking'
    BY <1>1, <1>12, <1>14 DEF Joint, Asking
  <2>3. ~Replied /\ ~Joined
    BY <1>12, <2>1 DEF Joint, Answering, Replied
  <2>4. Answering'
    BY <1>12, <1>13, <2>1, <2>3 DEF Joint, Answering
  <2>5. Early'
    BY <1>12, <1>13, <1>14, <2>1 DEF Joint, Early
  <2>6. ServerFirst'
    BY <1>1, <1>4, <1>10, <1>11, <1>12, <2>1 DEF Joint, ServerFirst
  <2> QED
    BY <2>2, <2>4, <2>5, <2>6 DEF Joint
<1>16. PathInv(u)'
  <2>1. Told(e)' = Told(e)
    BY <1>1, <1>11 DEF Told, ToldOf, Silent
  <2>2. heard'[u] = heard[u] /\ over \subseteq over' /\ said'[e] = said[e]
    BY <1>1
  <2>3. Tells(q, said'[e], over', Told(e), Told(e)')
    BY <1>8, <2>1 DEF Tells
  <2> HIDE DEF e, u
  <2> QED
    BY <1>1, <1>2, <1>4, <1>7, <1>9, <1>12, <2>2, <2>3, OutKeeps
<1>17. PathInv(e)'
  <2>1. Mark(e)' = [Mark(e) EXCEPT !.at = "frames"]
    BY <1>1, <1>11 DEF Mark, MarkOf
  <2>2. Told(u)' = Told(u)
    BY <1>1, <1>10, <1>11 DEF Told, ToldOf, Silent
  <2>3. over \subseteq over' /\ said'[u] = said[u] /\ p.parser # "discard"
    BY <1>1
  <2>4. Hears(e, Mark(e)')
    BY <1>1, <2>1, EofIsItem DEF Hears, Reads
  <2> HIDE DEF e, u
  <2> QED
    BY <1>1, <1>2, <1>7, <1>12, <2>2, <2>3, <2>4, InKeeps DEF rest
<1>18. Own(u)'
  <2>1. Closing(wire[e]) => Closing(rest)
    BY <1>1, <1>5 DEF Closing
  <2>2. heard'[u] = heard[u] /\ over \subseteq over' /\ said'[e] = said[e] /\ p.parser # "discard"
    BY <1>1
  <2> HIDE DEF e, u
  <2> QED
    BY <1>1, <1>2, <1>4, <1>7, <1>9, <1>12, <2>1, <2>2, OthersKeep
<1>19. Own(e)'
  <2>1. Ending(e) /\ Unfinished(p)
    BY <1>12 DEF Own
  <2>2. Unfinished(q)
    BY <1>1, <1>4, <1>9, <2>1 DEF Unfinished
  <2>3. q.handshakeExc => q.eofSent
    BY <1>4, <1>9, <2>1 DEF Ending
  <2>4. Excused(q, u \in over)
    BY <1>9 DEF Excused
  <2>5. said'[u] = said[u] /\ over \subseteq over'
    BY <1>1
  <2> HIDE DEF e, u
  <2> QED
    BY <1>0, <1>1, <1>2, <1>7, <1>9, <2>1, <2>2, <2>3, <2>4, <2>5, OwnKeeps
<1> QED
  BY <1>2, <1>15, <1>16, <1>17, <1>18, <1>19 DEF PairInv

\* What send_response() leaves.
LEMMA SendResponseIs ==
  ASSUME NEW p, Sound(p), p.writes = <<>>, p.parser = "frames", p.state = "CONNECTING", NEW r \in Responses
  PROVE  LET q == SendResponse(p, r)
         IN  /\ q.side = p.side /\ q.current = p.current /\ q.expectCont = p.expectCont /\ q.enc = p.enc
             /\ q.dec = p.dec /\ q.decCont = p.decCont /\ q.ext = Accepted(r) /\ q.sub = r.sub
             /\ q.closeRcvd = NoCode /\ q.closeSent = NoCode /\ q.rcvdThenSent = "unset" /\ q.parserExc = NoCode
             /\ \/ /\ r.status = 101 /\ q.writes = <<r>> /\ q.handshakeExc = p.handshakeExc /\ q.eofSent = FALSE
                   /\ q.state = "OPEN" /\ q.parser = "frames"
                \/ /\ r.status # 101 /\ q.writes = <<r, Eof>> /\ q.handshakeExc /\ q.eofSent = TRUE
                   /\ q.state = "CONNECTING" /\ q.parser = "discard"
<1> DEFINE a == [p EXCEPT !.ext = Accepted(r), !.sub = r.sub]
<1> DEFINE b == Write(a, r)
<1>1. /\ Shaped(p) /\ ~p.broken /\ p.eofSent = FALSE /\ p.side = "server"
      /\ p.closeSent = NoCode /\ p.closeRcvd = NoCode /\ p.rcvdThenSent = "unset" /\ p.parserExc = NoCode
  BY DEF Sound, Kept, StatusTypes, SessionTypes, Endpoints
<1>2. /\ a.side = p.side /\ a.current = p.current /\ a.expectCont = p.expectCont
      /\ a.handshakeExc = p.handshakeExc /\ a.ext = Accepted(r) /\ a.sub = r.sub /\ a.enc = p.enc /\ a.dec = p.dec
      /\ a.decCont = p.decCont /\ a.writes = <<>> /\ SameStatus(p, a)
  BY <1>1 DEF Shaped, StatusIs, SameStatus
<1> HIDE DEF a
<1>3. /\ Session(b) = Session(a) /\ b.writes = <<r>>
      /\ StatusIs(b, "CONNECTING", "frames", NoCode, NoCode, "unset", FALSE, NoCode)
  BY <1>1, <1>2, WriteIs, AppendTwo DEF SameStatus, StatusIs
<1> HIDE DEF b
<1>4. CASE r.status = 101
  <2> DEFINE c == Asserted(b, b.state = "CONNECTING")
  <2> DEFINE q == [c EXCEPT !.state = "OPEN"]
  <2>1. SendResponse(p, r) = q
    BY <1>4 DEF SendResponse, a, b
  <2>2. /\ Session(q) = Session(b) /\ q.writes = b.writes
        /\ StatusIs(q, "OPEN", "frames", NoCode, NoCode, "unset", FALSE, NoCode)
    BY <1>3 DEF StatusIs, Session, Shaped, Asserted
  <2> HIDE DEF q
  <2>3. Session(q) = Session(a)
    BY <1>3, <2>2
  <2> QED
    BY <1>2, <1>3, <1>4, <2>1, <2>2, <2>3 DEF Session, StatusIs
<1>5. CASE r.status # 101
  <2> DEFINE c == [b EXCEPT !.handshakeExc = TRUE]
  <2> DEFINE d == SendEof(c)
  <2> DEFINE q == Discard(d)
  <2>1. SendResponse(p, r) = q
    BY <1>5 DEF SendResponse, a, b
  <2>2. /\ c.side = b.side /\ c.current = b.current /\ c.expectCont = b.expectCont
        /\ c.handshakeExc = TRUE /\ c.ext = b.ext /\ c.sub = b.sub /\ c.enc = b.enc /\ c.dec = b.dec
        /\ c.decCont = b.decCont /\ c.writes = b.writes
        /\ StatusIs(c, "CONNECTING", "frames", NoCode, NoCode, "unset", FALSE, NoCode)
    BY <1>3 DEF StatusIs, Shaped
  <2> HIDE DEF c
  <2>3. /\ Session(d) = Session(c) /\ d.writes = Append(c.writes, Eof)
        /\ StatusIs(d, "CONNECTING", "frames", NoCode, NoCode, "unset", TRUE, NoCode)
    BY <2>2, SendEofIs DEF StatusIs
  <2>4. d.writes = <<r, Eof>>
    BY <1>3, <2>2, <2>3, AppendTwo
  <2> HIDE DEF d
  <2>5. (d.side = "server" \/ d.state = "CONNECTING") <=> d.eofSent
    BY <2>3 DEF StatusIs
  <2>6. /\ q.writes = d.writes /\ Session(q) = Session(d)
        /\ StatusIs(q, "CONNECTING", "discard", NoCode, NoCode, "unset", TRUE, NoCode)
    BY <2>3, <2>5, DiscardIs DEF StatusIs
  <2> HIDE DEF q
  <2>7. Session(q) = Session(c)
    BY <2>3, <2>6
  <2>8. /\ b.side = p.side /\ b.current = p.current /\ b.expectCont = p.expectCont /\ b.ext = Accepted(r)
        /\ b.sub = r.sub /\ b.enc = p.enc /\ b.dec = p.dec /\ b.decCont = p.decCont
    BY <1>2, <1>3 DEF Session
  <2>9. /\ q.side = c.side /\ q.current = c.current /\ q.expectCont = c.expectCont /\ q.ext = c.ext
        /\ q.sub = c.sub /\ q.enc = c.enc /\ q.dec = c.dec /\ q.decCont = c.decCont /\ q.handshakeExc = TRUE
    BY <2>2, <2>7 DEF Session
  <2> QED
    BY <1>5, <2>1, <2>2, <2>4, <2>6, <2>8, <2>9 DEF StatusIs
<1> QED
  BY <1>4, <1>5

LEMMA PairRespond ==
  ASSUME EndpointsInv, EndpointsInv', PairInv, cfg.foreign = "none", Respond
  PROVE  PairInv'
<1> DEFINE e == "server"
<1> DEFINE u == "client"
<1> DEFINE p == ep[e]
<1> DEFINE r == Response
<1> DEFINE q == SendResponse(p, r)
<1> DEFINE kinds == {"response"}
<1> DEFINE rest == wire[e]
<1>2. /\ e \in Endpoints /\ u \in Endpoints /\ u # e /\ Peer(e) = u /\ Peer(u) = e
      /\ \A x \in Endpoints : x = e \/ x = u
  BY Sides
<1>12. Joint /\ PathInv(e) /\ PathInv(u) /\ Own(e) /\ Own(u)
  BY <1>2 DEF PairInv
<1>1. /\ Become(e, q, rest) /\ p.parser = "frames" /\ p.state = "CONNECTING"
      /\ UNCHANGED <<cfg, cut, request, heard, said, message, over>>
  <2>1. request = Connect(cfg.client)
    BY <1>12 DEF Respond, Joint, Asking
  <2> QED
    BY <2>1 DEF Respond, Call, history, Response
<1>3. Sound(p) /\ p.writes = <<>> /\ p.side = e /\ cfg \in Configs
  BY <1>2, NativeIs DEF Native, Endpoints
<1>4. /\ p.eofSent = FALSE /\ p.closeSent = NoCode /\ p.closeRcvd = NoCode /\ p.parserExc = NoCode
      /\ p.rcvdThenSent = "unset"
  BY <1>1, <1>3 DEF Sound, Kept, StatusTypes
<1>5. r \in Responses /\ Accepted(r) \in Exts /\ r \in Items /\ r.kind = "response" /\ r.kind \in kinds
  <2>1. Connect(cfg.client) \in Requests
    BY <1>3 DEF Connect, Requests
  <2>2. r \in Responses
    BY <1>3, <2>1, AcceptTyped DEF Response
  <2>3. r \in Items /\ r.kind = "response"
    BY <2>2 DEF Responses, Items
  <2> QED
    BY <2>2, <2>3, AcceptedTyped
<1>0. "eof" \notin kinds
  OBVIOUS
<1>6. Silent(e) /\ ~Joined
  <2>1. Silent(e)
    BY <1>1 DEF Silent
  <2> QED
    BY <1>12, <2>1 DEF Joint, Answering, Replied
<1> HIDE DEF r
<1>7. Sound(q) /\ Wrote(p, q, kinds)
  BY <1>1, <1>3, <1>5, SendResponseIsSound DEF Output
<1>9. /\ q.side = e /\ q.current = p.current /\ q.expectCont = p.expectCont /\ q.enc = p.enc
      /\ q.dec = p.dec /\ q.decCont = p.decCont /\ q.ext = Accepted(r) /\ q.sub = r.sub
      /\ q.closeRcvd = NoCode /\ q.closeSent = NoCode /\ q.rcvdThenSent = "unset" /\ q.parserExc = NoCode
      /\ \/ /\ r.status = 101 /\ q.writes = <<r>> /\ q.handshakeExc = p.handshakeExc /\ q.eofSent = FALSE
            /\ q.state = "OPEN" /\ q.parser = "frames"
         \/ /\ r.status # 101 /\ q.writes = <<r, Eof>> /\ q.handshakeExc /\ q.eofSent = TRUE
            /\ q.state = "CONNECTING" /\ q.parser = "discard"
  BY <1>1, <1>3, <1>5, SendResponseIs
<1> HIDE DEF q, kinds, rest
<1>10. /\ ep'[u] = ep[u] /\ wire'[e] = rest /\ wire'[u] = IF cut = {} THEN wire[u] \o q.writes ELSE wire[u]
       /\ Session(ep'[e]) = Session(q) /\ SameStatus(q, ep'[e])
  <2>1. Become(e, q, rest) /\ cfg' = cfg /\ Sound(q) /\ e \in Endpoints /\ Peer(e) = u
    BY <1>1, <1>2, <1>7
  <2> HIDE DEF e, u, p
  <2> QED
    BY <2>1, BecomeIs
<1>11. /\ ep'[e].parser = q.parser /\ ep'[e].eofSent = q.eofSent /\ ep'[e].state = q.state /\ ep'[e].ext = q.ext
       /\ ep'[e].sub = q.sub /\ ep'[e].handshakeExc = q.handshakeExc
       /\ ep'[e].expectCont = q.expectCont /\ ep'[e].enc = q.enc /\ ep'[e].dec = q.dec /\ ep'[e].current = q.current
  BY <1>10 DEF SameStatus, StatusIs, Session
<1>13. /\ ToSet(wire'[e]) = ToSet(wire[e])
       /\ \A f \in ToSet(wire'[u]) : f \in ToSet(wire[u]) \/ f = r \/ f = Eof
  <2>1. ToSet(q.writes) \subseteq {r, Eof}
    <3>1. CASE q.writes = <<r>>
      BY <3>1, ToSetIs
    <3>2. CASE q.writes = <<r, Eof>>
      BY <3>2, ToSetIs
    <3> QED
      BY <1>9, <3>1, <3>2
  <2>2. wire[u] \in Seq(Items)
    BY <1>2 DEF EndpointsInv, StreamInv, Stream
  <2>3. q.writes \in Seq(Items)
    <3>1. Sound(p) /\ p.eofSent \in BOOLEAN /\ q.eofSent \in BOOLEAN
      BY <1>3, <1>7 DEF Sound, StatusTypes
    <3> QED
      BY <1>0, <1>7, <3>1, WritesHold
  <2>4. ToSet(wire[u] \o q.writes) = ToSet(wire[u]) \cup ToSet(q.writes)
    BY <2>2, <2>3, ToSetConcat
  <2> QED
    BY <1>10, <2>1, <2>4 DEF rest
<1>14. /\ Response' = Response /\ ~Silent("server")' /\ ~Joined'
       /\ Replied'
  <2>1. Response' = Response /\ ~Joined' /\ ~Silent("server")'
    BY <1>1, <1>6, <1>9, <1>10, <1>11 DEF Response, Joined, Silent
  <2>2. ep'["server"].ext = Accepted(Response) /\ ep'["server"].sub = Response.sub
    BY <1>9, <1>11 DEF r
  <2>3. Response.status # 101 => ep'["server"].eofSent
    BY <1>9, <1>11 DEF r
  <2> QED
    BY <2>1, <2>2, <2>3 DEF Replied
<1>15. Joint'
  <2>1. Asking'
    BY <1>1, <1>12, <1>13 DEF Joint, Asking
  <2>2. Answering'
    <3>1. \A f \in ToSet(wire'["client"]) : f.kind = "response" => f = Response
      BY <1>12, <1>13, EofIsItem DEF Joint, Answering, r
    <3> QED
      BY <1>14, <3>1 DEF Answering
  <2>3. Early'
    BY <1>6, <1>12, <1>13, <1>14 DEF Joint, Early
  <2>4. ServerFirst'
    <3>1. cut = {} => ~ep["client"].eofSent
      BY <1>4, <1>12 DEF Joint, ServerFirst
    <3>2. q.handshakeExc => r.status # 101
      <4>1. p.handshakeExc => p.eofSent
        BY <1>12 DEF Own, Ending
      <4> QED
        BY <1>4, <1>9, <4>1
    <3> QED
      BY <1>1, <1>10, <1>11, <1>14, <3>1, <3>2 DEF ServerFirst, r
  <2> QED
    BY <2>1, <2>2, <2>3, <2>4 DEF Joint
<1>16. PathInv(u)'
  <2>1. Tells(q, said'[e], over', Told(e), Told(e)')
    <3>1. Told(e).at = "http" /\ Told(e)' = [Told(e) EXCEPT !.at = "frames"]
      BY <1>1, <1>6, <1>9, <1>11, <1>14 DEF Told, ToldOf
    <3>2. Reads(q, said'[e], over', Told(e), r, Told(e)')
      BY <1>5, <3>1 DEF Reads
    <3> QED
      BY <1>5, <1>9, <3>2 DEF Tells
  <2>2. heard'[u] = heard[u] /\ over \subseteq over' /\ said'[e] = said[e]
    BY <1>1
  <2>3. \A f \in ToSet(wire[u]) : f.kind \notin {"text", "cont"}
    BY <1>6, <1>12, EofIsItem DEF Joint, Early
  <2> HIDE DEF e, u
  <2> QED
    BY <1>1, <1>2, <1>4, <1>7, <1>9, <1>12, <2>1, <2>2, <2>3, OutKeeps
<1>17. PathInv(e)'
  <2>1. q.parser # "discard" => Mark(e)' = Mark(e)
    BY <1>1, <1>9, <1>11 DEF Mark, MarkOf
  <2>2. Told(u)' = Told(u)
    BY <1>1, <1>9, <1>10, <1>11 DEF Told, ToldOf, Silent
  <2>3. over \subseteq over' /\ said'[u] = said[u] /\ p.parser # "discard"
    BY <1>1
  <2> HIDE DEF e, u
  <2> QED
    BY <1>1, <1>2, <1>7, <1>12, <2>1, <2>2, <2>3, InKeeps DEF rest
<1>18. Own(u)'
  <2>2. heard'[u] = heard[u] /\ over \subseteq over' /\ said'[e] = said[e] /\ p.parser # "discard"
    BY <1>1
  <2> HIDE DEF e, u
  <2> QED
    BY <1>1, <1>2, <1>4, <1>7, <1>9, <1>12, <2>2, OthersKeep DEF rest
<1>19. Own(e)'
  <2>1. Ending(e) /\ Unfinished(p)
    BY <1>12 DEF Own
  <2>2. Unfinished(q)
    BY <1>1, <1>9, <2>1 DEF Unfinished
  <2>3. q.handshakeExc => q.eofSent
    BY <1>4, <1>9, <2>1 DEF Ending
  <2>4. Excused(q, u \in over)
    BY <1>9 DEF Excused
  <2>5. said'[u] = said[u] /\ over \subseteq over'
    BY <1>1
  <2>6. q.eofSent => q.handshakeExc
    BY <1>9
  <2> HIDE DEF e, u
  <2> QED
    BY <1>0, <1>1, <1>2, <1>7, <1>9, <2>1, <2>2, <2>3, <2>4, <2>5, <2>6, OwnKeeps
<1> QED
  BY <1>2, <1>15, <1>16, <1>17, <1>18, <1>19 DEF PairInv

\* What the client leaves when it takes the response.
LEMMA ResponseTaken ==
  ASSUME NEW p, Sound(p), p.writes = <<>>, p.parser = "http", NEW cli, NEW r, ~ResponseRefused(cli, r),
         NEW q, q = ReceiveResponse(p, cli, r)
  PROVE  /\ q.side = p.side /\ q.current = p.current /\ q.expectCont = p.expectCont /\ q.enc = p.enc
         /\ q.dec = p.dec /\ q.decCont = p.decCont /\ q.handshakeExc = p.handshakeExc
         /\ q.ext = ClientAccepted(cli, r) /\ q.sub = r.sub /\ q.state = "OPEN" /\ q.parser = "frames"
         /\ q.closeRcvd = NoCode /\ q.closeSent = NoCode /\ q.rcvdThenSent = "unset" /\ q.parserExc = NoCode
         /\ q.writes = <<>>
<1>1. /\ Shaped(p) /\ ~p.broken /\ p.eofSent = FALSE /\ p.closeSent = NoCode /\ p.closeRcvd = NoCode
      /\ p.rcvdThenSent = "unset" /\ p.parserExc = NoCode /\ p.state = "CONNECTING"
  BY DEF Sound, Kept, StatusTypes
<1> DEFINE c == Asserted(p, p.state = "CONNECTING")
<1> DEFINE d == [c EXCEPT !.ext = ClientAccepted(cli, r), !.sub = r.sub, !.parser = "frames", !.state = "OPEN"]
<1>2. q = d
  BY DEF ReceiveResponse
<1>3. Session(c) = Session(p) /\ c.writes = p.writes /\ SameStatus(p, c)
  BY <1>1 DEF SameStatus, StatusIs, Shaped, Asserted, Session
<1> HIDE DEF c
<1>4. /\ d.side = c.side /\ d.current = c.current /\ d.expectCont = c.expectCont
      /\ d.handshakeExc = c.handshakeExc /\ d.ext = ClientAccepted(cli, r) /\ d.sub = r.sub /\ d.enc = c.enc
      /\ d.dec = c.dec /\ d.decCont = c.decCont /\ d.writes = c.writes
      /\ StatusIs(d, "OPEN", "frames", NoCode, NoCode, "unset", FALSE, NoCode)
  BY <1>1, <1>3 DEF SameStatus, StatusIs, Shaped
<1> HIDE DEF d
<1> QED
  BY <1>2, <1>3, <1>4 DEF Session, StatusIs

\* The next item of a client that waits for the response.
LEMMA ResponseIsHere ==
  ASSUME EndpointsInv, PairInv, cfg.foreign = "none", ReceiveResponseAt
  PROVE  /\ Head(wire["client"]) = Response /\ Response \in Responses /\ Replied /\ ~Joined
         /\ Sound(ep["client"]) /\ ep["client"].writes = <<>> /\ ep["client"].side = "client"
         /\ wire["client"] # <<>> /\ wire["client"] \in Seq(Items) /\ cfg \in Configs
<1>1. /\ wire["client"] # <<>> /\ Head(wire["client"]).kind = "response" /\ ep["client"].parser = "http"
  BY DEF ReceiveResponseAt, Next1
<1>2. /\ Sound(ep["client"]) /\ ep["client"].writes = <<>> /\ ep["client"].side = "client" /\ cfg \in Configs
      /\ wire["client"] \in Seq(Items)
  BY Sides, NativeIs DEF Native, Endpoints, EndpointsInv, StreamInv, Stream
<1>3. Head(wire["client"]) \in ToSet(wire["client"]) /\ Head(wire["client"]) \in Items
  BY <1>1, <1>2, ToSetTail
<1>4. Head(wire["client"]) = Response /\ Replied /\ ~Joined
  BY <1>1, <1>3 DEF PairInv, Joint, Answering, Joined
<1> QED
  BY <1>1, <1>2, <1>3, <1>4, ItemKinds

LEMMA PairRefuse ==
  ASSUME EndpointsInv, EndpointsInv', PairInv, cfg.foreign = "none", ReceiveResponseAt,
         ResponseRefused(cfg.client, Response)
  PROVE  PairInv'
<1> DEFINE e == "client"
<1> DEFINE u == "server"
<1> DEFINE p == ep[e]
<1> DEFINE q == HandshakeFails(p)
<1> DEFINE kinds == {}
<1> DEFINE rest == Tail(wire[e])
<1>1. /\ Head(wire[e]) = Response /\ Replied /\ Sound(p) /\ p.writes = <<>> /\ p.side = e /\ wire[e] # <<>>
      /\ cfg \in Configs
  BY ResponseIsHere
<1>2. /\ Become(e, q, rest) /\ p.parser = "http" /\ UNCHANGED <<cfg, request, cut, heard, said, message, over>>
  BY <1>1 DEF ReceiveResponseAt, ReceiveResponse, history
<1>3. /\ e \in Endpoints /\ Peer(e) = u /\ u # e
  BY Sides
<1>4. p.state = "CONNECTING" /\ ~p.eofSent /\ p.parserExc = NoCode
  BY <1>1, <1>2 DEF Sound, Kept
<1>5. Leaves(p, q) /\ q.parserExc = p.parserExc
  BY <1>1, <1>2, HandshakeFailsLeaves
<1> HIDE DEF kinds
<1>6. Sound(q) /\ Wrote(p, q, kinds)
  BY <1>1, <1>4, HandshakeFailsIs DEF Output
<1> HIDE DEF q, rest
<1>7. Response.status # 101
  BY <1>1, NegotiationAgrees DEF Response
<1>8. ~Silent("server") /\ ep["server"].eofSent
  BY <1>1, <1>7 DEF Replied
<1>9. q.handshakeExc /\ Excused(q, Peer(e) \in over)
  BY <1>2, <1>4, <1>5 DEF Leaves, Excused
<1>10. ep'[u] = ep[u]
  <2> HIDE DEF e, u
  <2> QED
    BY <1>2, <1>3, <1>6, BecomeIs
<1>11. ServerFirst'
  <2>1. Response' = Response
    BY <1>2 DEF Response
  <2> QED
    BY <1>7, <1>8, <1>10, <2>1 DEF ServerFirst
<1>12. kinds = {} /\ rest = Tail(wire[e])
  BY DEF kinds, rest
<1> HIDE DEF e, u
<1> QED
  BY <1>1, <1>2, <1>3, <1>5, <1>6, <1>8, <1>9, <1>11, <1>12, EndKeeps

LEMMA PairJoin ==
  ASSUME EndpointsInv, EndpointsInv', PairInv, cfg.foreign = "none", ReceiveResponseAt,
         ~ResponseRefused(cfg.client, Response)
  PROVE  PairInv'
<1> DEFINE e == "client"
<1> DEFINE u == "server"
<1> DEFINE p == ep[e]
<1> DEFINE f == Response
<1> DEFINE q == ReceiveResponse(p, cfg.client, f)
<1> DEFINE kinds == {}
<1> DEFINE rest == Tail(wire[e])
<1>0. "eof" \notin kinds
  OBVIOUS
<1>1. /\ Head(wire[e]) = f /\ f \in Responses /\ Replied /\ ~Joined /\ Sound(p) /\ p.writes = <<>> /\ p.side = e
      /\ wire[e] # <<>> /\ wire[e] \in Seq(Items) /\ cfg \in Configs
  BY ResponseIsHere
<1>2. /\ e \in Endpoints /\ u \in Endpoints /\ u # e /\ Peer(e) = u /\ Peer(u) = e
      /\ \A x \in Endpoints : x = e \/ x = u
  BY Sides
<1>3. /\ Become(e, q, rest) /\ p.parser = "http" /\ UNCHANGED <<cfg, request, cut, heard, said, message, over>>
  BY <1>1 DEF ReceiveResponseAt, history
<1>4. /\ p.eofSent = FALSE /\ p.closeSent = NoCode /\ p.closeRcvd = NoCode /\ p.parserExc = NoCode
      /\ p.rcvdThenSent = "unset" /\ p.state = "CONNECTING"
  BY <1>1, <1>3 DEF Sound, Kept, StatusTypes
<1>5. ToSet(wire[e]) = {f} \cup ToSet(rest)
  BY <1>1, ToSetTail
<1>6. f.kind = "response" /\ f.status = 101 /\ ~Silent("server")
  <2>1. f.kind = "response"
    BY <1>1 DEF Responses
  <2>2. ~Silent("server")
    BY <1>1 DEF Replied
  <2>3. f.status = 101
    BY DEF ResponseRefused
  <2> QED
    BY <2>1, <2>2, <2>3
<1> HIDE DEF kinds
<1>7. Sound(q) /\ Wrote(p, q, kinds)
  <2>1. ClientAccepted(cfg.client, f) \in Exts
    BY <1>1, ClientAcceptedTyped
  <2> QED
    BY <1>1, <1>3, <2>1, ReceiveResponseIsSound DEF Output
<1>9. /\ q.side = e /\ q.current = p.current /\ q.expectCont = p.expectCont /\ q.enc = p.enc
      /\ q.dec = p.dec /\ q.decCont = p.decCont /\ q.handshakeExc = p.handshakeExc
      /\ q.ext = ClientAccepted(cfg.client, f) /\ q.sub = f.sub /\ q.state = "OPEN" /\ q.parser = "frames"
      /\ q.closeRcvd = NoCode /\ q.closeSent = NoCode /\ q.rcvdThenSent = "unset" /\ q.parserExc = NoCode
      /\ q.eofSent = FALSE /\ q.writes = <<>>
  <2>1. p.side = e /\ q = ReceiveResponse(p, cfg.client, f)
    BY <1>1
  <2>2. q.parser = "frames" /\ q.state = "OPEN"
    BY <1>1, <1>3, ResponseTaken
  <2>3. q.eofSent = FALSE
    BY <1>7, <2>2 DEF Sound, Kept, StatusTypes
  <2> QED
    BY <1>1, <1>3, <2>1, <2>3, ResponseTaken
<1> HIDE DEF q, rest, f
<1>10. /\ ep'[u] = ep[u] /\ wire'[e] = rest /\ wire'[u] = IF cut = {} THEN wire[u] \o q.writes ELSE wire[u]
       /\ Session(ep'[e]) = Session(q) /\ SameStatus(q, ep'[e])
  <2> HIDE DEF e, u
  <2> QED
    BY <1>2, <1>3, <1>7, BecomeIs
<1>11. /\ ep'[e].parser = "frames" /\ ep'[e].eofSent = FALSE /\ ep'[e].state = "OPEN" /\ ep'[e].ext = q.ext
       /\ ep'[e].sub = q.sub /\ ep'[e].handshakeExc = p.handshakeExc
       /\ ep'[e].expectCont = p.expectCont /\ ep'[e].enc = p.enc /\ ep'[e].dec = p.dec /\ ep'[e].current = p.current
  BY <1>9, <1>10 DEF SameStatus, StatusIs, Session
<1>12. Joint /\ PathInv(e) /\ PathInv(u) /\ Own(e) /\ Own(u)
  BY <1>2 DEF PairInv
<1>13. wire'[u] = wire[u]
  <2>1. wire[u] \in Seq(Items)
    BY <1>2 DEF EndpointsInv, StreamInv, Stream
  <2>2. wire[u] \o <<>> = wire[u]
    BY <2>1, ConcatEmptySeq
  <2> QED
    BY <1>9, <1>10, <2>2
<1>14. ToSet(wire'[e]) \subseteq ToSet(wire[e])
  BY <1>5, <1>10
<1>15. \A x \in ToSet(wire[u]) : x.kind \in {"request", "eof"}
  BY <1>1, <1>12 DEF Joint, Early
<1>16. Joint'
  <2>1. Response' = Response /\ ~Silent("server")' /\ (Replied' <=> Replied)
    BY <1>3, <1>6, <1>10 DEF Response, Silent, Replied
  <2>2. Asking'
    BY <1>3, <1>12, <1>13 DEF Joint, Asking
  <2>3. Answering'
    <3>1. \A x \in ToSet(wire'["client"]) : x.kind = "response" => x = Response /\ Replied
      BY <1>12, <1>14 DEF Joint, Answering
    <3>2. /\ ep'["client"].ext = ClientAccepted(cfg.client, Response) /\ ep'["client"].sub = Response.sub
          /\ Response.status = 101 /\ cfg' = cfg
      BY <1>3, <1>6, <1>9, <1>11 DEF f
    <3> QED
      BY <1>1, <2>1, <3>1, <3>2 DEF Answering
  <2>4. Early'
    BY <1>13, <1>15, <2>1 DEF Early
  <2>5. ServerFirst'
    BY <1>3, <1>10, <1>11, <1>12, <2>1 DEF Joint, ServerFirst
  <2> QED
    BY <2>2, <2>3, <2>4, <2>5 DEF Joint
<1>17. PathInv(u)'
  <2>1. Told(e)' = Told(e)
    BY <1>3, <1>10, <1>11, <1>13 DEF Told, ToldOf, Silent
  <2>2. heard'[u] = heard[u] /\ over \subseteq over' /\ said'[e] = said[e]
    BY <1>3
  <2>3. Tells(q, said'[e], over', Told(e), Told(e)')
    BY <1>9, <2>1 DEF Tells
  <2>4. \A x \in ToSet(wire[u]) : x.kind \notin {"text", "cont"}
    BY <1>15
  <2> HIDE DEF e, u
  <2> QED
    BY <1>2, <1>3, <1>4, <1>7, <1>9, <1>12, <2>2, <2>3, <2>4, OutKeeps
<1>18. PathInv(e)'
  <2>1. Mark(e)' = [Mark(e) EXCEPT !.at = "frames"]
    BY <1>3, <1>11 DEF Mark, MarkOf
  <2>2. Told(u)' = Told(u)
    BY <1>3, <1>10 DEF Told, ToldOf, Silent
  <2>3. over \subseteq over' /\ said'[u] = said[u] /\ p.parser # "discard"
    BY <1>3
  <2>4. Hears(e, Mark(e)')
    BY <1>1, <1>6, <2>1, EofIsItem DEF Hears, Reads
  <2> HIDE DEF e, u
  <2> QED
    BY <1>2, <1>3, <1>7, <1>12, <2>2, <2>3, <2>4, InKeeps DEF rest
<1>19. Own(u)'
  <2>1. Closing(wire[e]) => Closing(rest)
    BY <1>5, <1>6 DEF Closing
  <2>2. heard'[u] = heard[u] /\ over \subseteq over' /\ said'[e] = said[e] /\ p.parser # "discard"
    BY <1>3
  <2> HIDE DEF e, u
  <2> QED
    BY <1>2, <1>3, <1>4, <1>7, <1>9, <1>12, <2>1, <2>2, OthersKeep
<1>20. Own(e)'
  <2>1. Ending(e) /\ Unfinished(p)
    BY <1>12 DEF Own
  <2>2. Unfinished(q)
    BY <1>3, <1>4, <1>9, <2>1 DEF Unfinished
  <2>3. q.handshakeExc => q.eofSent
    BY <1>4, <1>9, <2>1 DEF Ending
  <2>4. Excused(q, u \in over)
    BY <1>9 DEF Excused
  <2>5. said'[u] = said[u] /\ over \subseteq over'
    BY <1>3
  <2> HIDE DEF e, u
  <2> QED
    BY <1>0, <1>2, <1>3, <1>7, <1>9, <2>1, <2>2, <2>3, <2>4, <2>5, OwnKeeps
<1> QED
  BY <1>2, <1>16, <1>17, <1>18, <1>19, <1>20 DEF PairInv

LEMMA CfgStays == [Next]_vars => cfg' = cfg
<1> SUFFICES ASSUME [Next]_vars PROVE cfg' = cfg
  OBVIOUS
<1>1. ASSUME NEW e \in Endpoints, NEW q, Call(e, q) PROVE cfg' = cfg
  BY <1>1 DEF Call
<1>2. ASSUME NEW e \in Endpoints, Serve(e) PROVE cfg' = cfg
  BY <1>2 DEF Serve, SendRequest, ReceiveResponseAt, ReceiveRequestAt, Respond, ReceiveFrameAt, DiscardAt,
     ReceiveEofAt, Call
<1>3. ASSUME NEW e \in Endpoints, Apply(e) PROVE cfg' = cfg
  BY <1>3 DEF Apply, Send, SendPingAt, SendCloseAt, FailAt, Call
<1>4. ASSUME NEW e \in Endpoints, Abort(e) \/ Foreign(e) PROVE cfg' = cfg
  BY <1>4 DEF Abort, Foreign
<1> QED
  BY <1>2, <1>3, <1>4 DEF Next, vars

LEMMA PairInvInit == Init => PairInv
<1> SUFFICES ASSUME Init PROVE Joint /\ \A e \in Endpoints : PathInv(e) /\ Own(e)
  BY DEF PairInv
<1>1. /\ \A e \in Endpoints : /\ ep[e] = InitProtocol(e) /\ wire[e] = <<>> /\ heard[e] = 0 /\ said[e] = 0
                              /\ ToSet(wire[e]) = {}
      /\ request = NoRequest
  BY ToSetIs DEF Init
<1>2. ASSUME NEW e \in Endpoints
      PROVE  /\ ep[e].parser = "http" /\ ep[e].current = NoSize /\ ep[e].expectCont = FALSE /\ ep[e].eofSent = FALSE
             /\ ep[e].handshakeExc = FALSE /\ ep[e].enc = 0 /\ ep[e].dec = 0 /\ ep[e].decCont = FALSE
             /\ ep[e].parserExc = NoCode /\ ep[e].closeSent = NoCode /\ ep[e].closeRcvd = NoCode
             /\ ep[e].rcvdThenSent = "unset"
  <2>1. ep[e] = InitProtocol(e)
    BY <1>1
  <2> QED
    BY <2>1 DEF InitProtocol
<1>3. "client" \in Endpoints /\ "server" \in Endpoints
  BY DEF Endpoints
<1>4. Joint
  <2>1. Asking
    BY <1>1, <1>3 DEF Asking
  <2>2. Answering
    BY <1>1, <1>2, <1>3 DEF Answering, Joined
  <2>3. Early
    BY <1>1, <1>3 DEF Early
  <2>4. ServerFirst
    BY <1>2, <1>3 DEF ServerFirst
  <2> QED
    BY <2>1, <2>2, <2>3, <2>4 DEF Joint
<1>5. ASSUME NEW e \in Endpoints PROVE PathInv(e) /\ Own(e)
  <2>1. Peer(e) \in Endpoints
    BY PeerIs
  <2> DEFINE m == [at |-> "http", cur |-> NoSize, dec |-> 0, heard |-> 0]
  <2>2. m \in Marks
    BY DEF Marks
  <2>3. Mark(e) = m
    BY <1>1, <1>2 DEF Mark, MarkOf
  <2>4. Silent(Peer(e))
    BY <1>1, <1>2, <1>3 DEF Silent
  <2>5. Told(Peer(e)) = m
    BY <1>1, <1>2, <2>1, <2>4 DEF Told, ToldOf
  <2> HIDE DEF m
  <2>6. Path(wire[e], ep[Peer(e)], said[Peer(e)], over, m, m)
    BY <1>1, <2>2, PathEmpty
  <2>7. PathInv(e)
    BY <2>2, <2>3, <2>5, <2>6 DEF PathInv
  <2>8. Unfinished(ep[e]) /\ Ending(e) /\ Clean(e) /\ Lossless(e)
    BY <1>2 DEF Unfinished, Ending, Clean, Excused, Lossless
  <2> QED
    BY <2>7, <2>8 DEF Own
<1> QED
  BY <1>4, <1>5

LEMMA PairInvStutters == PairInv /\ UNCHANGED vars => PairInv'
<1> SUFFICES ASSUME PairInv, UNCHANGED vars, cfg.foreign = "none"
             PROVE  Joint' /\ \A e \in Endpoints : PathInv(e)' /\ Own(e)'
  BY DEF vars, PairInv
<1>1. UNCHANGED <<cfg, ep, wire, request, cut, said, heard, closes, message, over>>
  BY DEF vars
<1>2. Joint /\ \A e \in Endpoints : PathInv(e) /\ Own(e)
  BY DEF PairInv
<1>3. Joint'
  BY <1>1, <1>2 DEF Joint, Asking, Answering, Early, ServerFirst, Replied, Joined, Silent, Response
<1>4. ASSUME NEW e \in Endpoints PROVE PathInv(e)'
  <2>1. Mark(e)' = Mark(e) /\ Told(Peer(e))' = Told(Peer(e))
    BY <1>1 DEF Mark, Told, Silent
  <2> QED
    BY <1>1, <1>2, <2>1 DEF PathInv
<1>5. ASSUME NEW e \in Endpoints PROVE Own(e)'
  BY <1>1, <1>2 DEF Own, Unfinished, Ending, Clean, Lossless
<1> QED
  BY <1>3, <1>4, <1>5

LEMMA PairInvNext == EndpointsInv /\ PairInv /\ [Next]_vars => PairInv'
<1> SUFFICES ASSUME EndpointsInv, PairInv, [Next]_vars PROVE PairInv'
  OBVIOUS
<1>1. EndpointsInv'
  BY EndpointsInvNext
<1>2. cfg' = cfg
  BY CfgStays
<1>3. CASE cfg.foreign # "none"
  BY <1>2, <1>3 DEF PairInv
<1>4. CASE cfg.foreign = "none"
  <2>1. CASE UNCHANGED vars
    BY <2>1, PairInvStutters
  <2>2. ASSUME NEW e \in Endpoints, Serve(e) PROVE PairInv'
    <3>1. ReceiveResponseAt => PairInv'
      BY <1>1, <1>4, PairRefuse, PairJoin
    <3> QED
      BY <1>1, <1>4, <2>2, <3>1, PairSendRequest, PairReceiveRequest, PairRespond, PairFrame, PairDiscard, PairEof
         DEF Serve
  <2>3. ASSUME NEW e \in Endpoints, Apply(e) PROVE PairInv'
    <3>1. ASSUME NEW fin \in cfg.fins, NEW size \in cfg.sizes, Send(e, fin, size) PROVE PairInv'
      BY <1>1, <1>4, <3>1, PairSend
    <3>2. ASSUME NEW code \in {1000, NoStatus}, SendCloseAt(e, code) PROVE PairInv'
      BY <1>1, <1>4, <3>2, PairClose
    <3> QED
      BY <1>1, <1>4, <2>3, <3>1, <3>2, PairPing, PairFail DEF Apply
  <2>4. ASSUME NEW e \in Endpoints, Foreign(e) PROVE FALSE
    BY <1>4, <2>4 DEF Foreign, Endpoints
  <2> QED
    BY <1>1, <1>4, <2>1, <2>2, <2>3, <2>4, PairAbort DEF Next
<1> QED
  BY <1>3, <1>4

\* What holds of the two whatever the applications' pings carry.
PairJoined == NegotiatedAlike /\ CloseLosesNothing /\ ServerClosesFirst

\* The invariant says all that PairAgrees does.
LEMMA PairInvImplies == EndpointsInv /\ PairInv => PairJoined /\ (QuietPings => CleanUnlessCut)
<1> SUFFICES ASSUME EndpointsInv, PairInv PROVE PairJoined /\ (QuietPings => CleanUnlessCut)
  OBVIOUS
<1>1. cfg.foreign = "none" => Joint /\ \A e \in Endpoints : Own(e)
  BY DEF PairInv
<1>2. ASSUME cfg.foreign = "none", NEW e \in Endpoints PROVE Sound(ep[e]) /\ cfg \in Configs
  <2>1. Native(e)
    BY <1>2 DEF Native, Endpoints
  <2> QED
    BY <2>1, NativeIs
<1>3. NegotiatedAlike
  <2> SUFFICES ASSUME cfg.foreign = "none", ep["client"].parser = "frames"
               PROVE  /\ Compatible(ep["client"].ext, ep["server"].ext)
                      /\ Compatible(ep["server"].ext, ep["client"].ext)
                      /\ ep["client"].sub = ep["server"].sub
    BY DEF NegotiatedAlike
  <2>1. ~ep["client"].eofSent /\ cfg \in Configs
    BY <1>2, Sides DEF Sound, Kept
  <2>2. ~ep["client"].handshakeExc
    BY <1>1, <2>1, Sides DEF Own, Ending
  <2>3. /\ Replied /\ Response.status = 101
        /\ ep["client"].ext = ClientAccepted(cfg.client, Response) /\ ep["client"].sub = Response.sub
    BY <1>1, <2>2 DEF Joint, Answering, Joined
  <2>4. ep["server"].ext = Accepted(Response) /\ ep["server"].sub = Response.sub
    BY <2>3 DEF Replied
  <2>5. /\ Compatible(ClientAccepted(cfg.client, Response), Accepted(Response))
        /\ Compatible(Accepted(Response), ClientAccepted(cfg.client, Response))
    BY <2>1, <2>3, NegotiationAgrees DEF Response
  <2> QED
    BY <2>3, <2>4, <2>5
<1>4. QuietPings => CleanUnlessCut
  BY <1>1 DEF CleanUnlessCut, Own, Clean, Excused
<1>5. CloseLosesNothing
  <2> SUFFICES ASSUME cfg.foreign = "none", NEW e \in Endpoints
               PROVE  LET p == ep[e]  q == ep[Peer(e)] IN
                      /\ p.closeRcvd # NoCode => p.closeRcvd = q.closeSent /\ heard[e] = said[Peer(e)]
                      /\ p.rcvdThenSent = "yes" => q.rcvdThenSent # "yes"
                      /\ (cut = {} /\ p.state = "CLOSED" /\ p.closeSent # NoCode /\ q.state = "CLOSED"
                            /\ p.parserExc = NoCode /\ p.closeSent \in OkCodes) => p.closeRcvd # NoCode
    BY DEF CloseLosesNothing
  <2>1. Lossless(e)
    BY <1>1 DEF Own
  <2>2. (ep[e].state = "CLOSED" /\ ep[e].parserExc = NoCode /\ ep[e].closeSent \in OkCodes) => ep[e].closeRcvd # NoCode
    BY <1>2 DEF Sound, Kept
  <2> QED
    BY <2>1, <2>2 DEF Lossless
<1>6. ServerClosesFirst
  BY <1>1 DEF ServerClosesFirst, Joint, ServerFirst
<1> QED
  BY <1>3, <1>4, <1>5, <1>6 DEF PairJoined

\* The two inductive invariants hold in every state.
LEMMA PairInvariant == Spec => [](EndpointsInv /\ PairInv)
<1>1. Init => EndpointsInv /\ PairInv
  BY EndpointsInvInit, PairInvInit
<1>2. EndpointsInv /\ PairInv /\ [Next]_vars => EndpointsInv' /\ PairInv'
  BY EndpointsInvNext, PairInvNext
<1> QED
  BY <1>1, <1>2, PTL DEF Spec

\* Two endpoints of this library, whatever the configurations, the sizes of
\* messages and pings and the place where the TCP connection is cut: what one
\* compresses the other inflates, although the client finds out which of its
\* offers was taken from the response alone; whoever received a close has
\* heard every data frame that preceded it, and they know who closed first;
\* and the server ends its stream before the client does.
THEOREM PairAlwaysJoined == Spec => []PairJoined
<1>1. EndpointsInv /\ PairInv => PairJoined
  BY PairInvImplies
<1> QED
  BY <1>1, PairInvariant, PTL

\* If in addition the applications' pings carry no payload, an endpoint whose
\* TCP connection is not aborted blames its peer only for a message over
\* max_size or for a close in the middle of a message.  A ping with a payload
\* between two fragments is measured against what is left of max_size for the
\* message (protocol.py, parse), so that a peer within its limits can be blamed.
THEOREM PairAlwaysAgrees == QuietPings => (Spec => []PairAgrees)
<1> SUFFICES ASSUME QuietPings PROVE Spec => []PairAgrees
  OBVIOUS
<1>1. EndpointsInv /\ PairInv => PairAgrees
  BY PairInvImplies DEF PairJoined, PairAgrees
<1> QED
  BY <1>1, PairInvariant, PTL

================================================================================
