--------------------------- MODULE PeerStreamProofs ---------------------------
(***************************************************************************)
(* What the methods of the protocol leave after the opening handshake,     *)
(* without compression, and what feeding any number of frames leaves: the  *)
(* lemmas that the proofs about both connections rest on.                  *)
(***************************************************************************)
EXTENDS PeerStream, FiniteSetTheorems, SequenceTheorems, WellFoundedInduction, TLAPS

--------------------------------------------------------------------------------
(* Induction over the numbers, stated of a set.                            *)

Less == {ss \in Nat \X Nat : ss[1] < ss[2]}

LEMMA LessWellFounded == IsWellFoundedOn(Less, Nat)
BY NatLessThanWellFounded DEF OpToRel, Less

LEMMA NatSetInduction ==
  ASSUME NEW S \in SUBSET Nat, 0 \in S, \A n \in S : n + 1 \in S
  PROVE  S = Nat
<1> SUFFICES ASSUME Nat \ S # {} PROVE FALSE
  OBVIOUS
<1>1. PICK x \in Nat \ S : \A y \in Nat \ S : <<y, x>> \notin Less
  BY LessWellFounded, WFMin
<1>2. x # 0 /\ x - 1 \in Nat \ S
  <2>1. x # 0
    OBVIOUS
  <2>2. x - 1 \in Nat
    BY <2>1
  <2>3. x - 1 \notin S
    BY <2>2
  <2> QED
    BY <2>1, <2>2, <2>3
<1>3. <<x - 1, x>> \in Less
  BY <1>2 DEF Less
<1> QED
  BY <1>1, <1>2, <1>3

--------------------------------------------------------------------------------
(* A protocol after the handshake.                                         *)

PeerItems == {Item(op, n) : op \in PeerOps, n \in Nat}

Shaped(q) ==
  DOMAIN q = {"side", "state", "parser", "current", "expectCont", "closeRcvd", "closeSent",
              "rcvdThenSent", "eofSent", "handshakeExc", "parserExc", "ext", "sub", "enc", "dec",
              "decCont", "writes", "broken"}

Running(q) ==
  /\ Shaped(q)
  /\ q.side \in {"client", "server"} /\ q.state \in {"OPEN", "CLOSING", "CLOSED"}
  /\ q.parser \in {"frames", "discard"} /\ q.current \in {NoSize, 0} /\ q.expectCont \in BOOLEAN
  /\ q.ext = NoExt /\ q.eofSent \in BOOLEAN /\ ~q.broken
  /\ q.state = "OPEN" => q.parser = "frames"
  /\ q.state = "CLOSED" => q.parser = "discard"
  /\ q.eofSent <=> q.parser = "discard" /\ (q.side = "server" \/ q.state = "CLOSED")
  /\ q.parser = "frames" => q.closeRcvd = NoCode /\ q.parserExc = NoCode

\* A method that changes neither the closing handshake nor the parser.
Alike(q, r) ==
  /\ r.side = q.side /\ r.state = q.state /\ r.parser = q.parser /\ r.current = q.current
  /\ r.closeSent = q.closeSent /\ r.closeRcvd = q.closeRcvd

\* 1000 is sent to answer a close frame of the peer, or by close().
NotByItself(q, r) == r.closeSent = q.closeSent \/ r.closeSent # 1000 \/ r.closeRcvd # NoCode

LEMMA RunningInit ==
  ASSUME NEW side \in {"client", "server"}
  PROVE  LET q == [InitProtocol(side) EXCEPT !.state = "OPEN", !.parser = "frames"]
         IN  Running(q) /\ q.state = "OPEN" /\ q.parser = "frames" /\ q.current = NoSize
             /\ q.closeSent = NoCode /\ ~q.expectCont
BY DEF Running, Shaped, InitProtocol, NoExt, NoCode, NoSize

LEMMA WrittenIs ==
  ASSUME NEW q, Running(q)
  PROVE  Running(Written(q)) /\ Alike(q, Written(q)) /\ Written(q).expectCont = q.expectCont
BY DEF Running, Shaped, Written, Alike

LEMMA AssertedIs ==
  ASSUME NEW q, Running(q), NEW holds, holds
  PROVE  Running(Asserted(q, holds)) /\ Alike(q, Asserted(q, holds))
         /\ Asserted(q, holds).expectCont = q.expectCont
BY DEF Running, Shaped, Asserted, Alike

LEMMA SendDataIs ==
  ASSUME NEW q, Running(q), NEW first \in BOOLEAN, NEW fin \in BOOLEAN
  PROVE  LET r == SendData(q, first, fin, 0)
         IN  Running(r) /\ Alike(q, r) /\ r.expectCont = ~fin
BY DEF Running, Shaped, SendData, Alike, NoExt, Write

LEMMA SendPingIs ==
  ASSUME NEW q, Running(q)
  PROVE  /\ Running(SendPing(q, 0)) /\ Alike(q, SendPing(q, 0)) /\ SendPing(q, 0).expectCont = q.expectCont
         /\ Running(SendPong(q, 0)) /\ Alike(q, SendPong(q, 0)) /\ SendPong(q, 0).expectCont = q.expectCont
         /\ SendPong(q, 0).parserExc = q.parserExc
BY DEF Running, Shaped, SendPing, SendPong, Alike, Write

LEMMA SendCloseIs ==
  ASSUME NEW q, Running(q), q.state = "OPEN", NEW code
  PROVE  LET r == SendClose(q, code)
         IN  /\ Running(r) /\ r.state = "CLOSING" /\ r.closeSent = code /\ r.side = q.side
             /\ r.parser = q.parser /\ r.current = q.current
BY DEF Running, Shaped, SendClose, Asserted, Write

\* The fields that the methods below write, and the others.
StatusIs(r, state, parser, rcvd, sent, eof) ==
  /\ Shaped(r) /\ ~r.broken /\ r.state = state /\ r.parser = parser /\ r.closeRcvd = rcvd
  /\ r.closeSent = sent /\ r.eofSent \in BOOLEAN /\ (r.eofSent <=> eof)
Others(q) == <<q.side, q.current, q.expectCont, q.ext>>

LEMMA SendEofIs ==
  ASSUME NEW q, Shaped(q), ~q.broken, ~q.eofSent
  PROVE  /\ Others(SendEof(q)) = Others(q) /\ SendEof(q).parserExc = q.parserExc
         /\ StatusIs(SendEof(q), q.state, q.parser, q.closeRcvd, q.closeSent, TRUE)
BY DEF Shaped, Write, StatusIs, SendEof, Asserted, Others

LEMMA DiscardIs ==
  ASSUME NEW q, Shaped(q), ~q.broken, q.eofSent \in BOOLEAN, (q.side = "server" \/ q.state = "CONNECTING") <=> q.eofSent
  PROVE  /\ Others(Discard(q)) = Others(q) /\ Discard(q).parserExc = q.parserExc
         /\ StatusIs(Discard(q), q.state, "discard", q.closeRcvd, q.closeSent, q.eofSent)
BY DEF Shaped, StatusIs, Discard, Asserted, Others

\* fail() of a protocol that is not closed, with any code.
Failable(q) ==
  /\ Shaped(q) /\ ~q.broken /\ q.state \in {"OPEN", "CLOSING"} /\ q.eofSent \in BOOLEAN
  /\ q.eofSent => q.side = "server"

LEMMA RunningIsFailable == ASSUME NEW q, Running(q), q.state # "CLOSED" PROVE Failable(q)
BY DEF Running, Failable

LEMMA FailStatus ==
  ASSUME NEW q, Failable(q), NEW code
  PROVE  LET r == Fail(q, code)
             sends == q.state = "OPEN" /\ code # EofError
         IN  /\ Others(r) = Others(q)
             /\ StatusIs(r, IF sends THEN "CLOSING" ELSE q.state, "discard", q.closeRcvd,
                         IF sends THEN code ELSE q.closeSent, r.eofSent)
             /\ (r.eofSent <=> r.side = "server")
<1> DEFINE sends == q.state = "OPEN" /\ code # EofError
<1> DEFINE c == [Write(q, Close(code)) EXCEPT !.closeSent = code, !.state = "CLOSING",
                   !.rcvdThenSent = IF q.closeRcvd # NoCode THEN "yes" ELSE @]
<1> DEFINE a == IF sends THEN c ELSE q
<1> DEFINE b == IF a.side = "server" /\ ~a.eofSent THEN SendEof(a) ELSE a
<1>1. Fail(q, code) = Discard(b)
  BY DEF Fail
<1>2. /\ Others(a) = Others(q)
      /\ StatusIs(a, IF sends THEN "CLOSING" ELSE q.state, q.parser, q.closeRcvd,
                  IF sends THEN code ELSE q.closeSent, q.eofSent)
  <2>1. CASE sends
    BY <2>1 DEF Failable, Shaped, Write, StatusIs, Others
  <2>2. CASE ~sends
    BY <2>2 DEF Failable, StatusIs, Others
  <2> QED
    BY <2>1, <2>2
<1>3. a.side = q.side /\ a.state # "CONNECTING" /\ (a.eofSent => a.side = "server") /\ Shaped(a) /\ ~a.broken
      /\ a.eofSent \in BOOLEAN
  BY <1>2 DEF Failable, StatusIs, Others
<1> HIDE DEF a
<1>4. /\ Others(b) = Others(a) /\ StatusIs(b, a.state, a.parser, a.closeRcvd, a.closeSent, b.eofSent)
      /\ (b.eofSent <=> b.side = "server")
  <2>1. CASE a.side = "server" /\ ~a.eofSent
    BY <2>1, <1>3, SendEofIs DEF StatusIs, Others
  <2>2. CASE ~(a.side = "server" /\ ~a.eofSent)
    BY <2>2, <1>3 DEF StatusIs, Others
  <2> QED
    BY <2>1, <2>2
<1> HIDE DEF b
<1>5. /\ Others(Discard(b)) = Others(b)
      /\ StatusIs(Discard(b), b.state, "discard", b.closeRcvd, b.closeSent, b.eofSent)
  BY <1>3, <1>4, DiscardIs DEF StatusIs
<1> QED
  BY <1>1, <1>2, <1>4, <1>5 DEF StatusIs, Others

LEMMA FailIs ==
  ASSUME NEW q, Running(q), q.state # "CLOSED", NEW code, code # EofError
  PROVE  LET r == Fail(q, code)
         IN  /\ Running(r) /\ r.state = "CLOSING" /\ r.parser = "discard" /\ r.side = q.side
             /\ r.expectCont = q.expectCont /\ r.closeRcvd = q.closeRcvd
             /\ r.closeSent = (IF q.state = "OPEN" THEN code ELSE q.closeSent)
<1> DEFINE r == Fail(q, code)
<1> DEFINE sends == q.state = "OPEN" /\ code # EofError
<1>1. /\ Others(r) = Others(q) /\ (r.eofSent <=> r.side = "server")
      /\ StatusIs(r, IF sends THEN "CLOSING" ELSE q.state, "discard", q.closeRcvd,
                  IF sends THEN code ELSE q.closeSent, r.eofSent)
  BY FailStatus, RunningIsFailable
<1> HIDE DEF r
<1>2. r.side = q.side /\ r.current = q.current /\ r.expectCont = q.expectCont /\ r.ext = q.ext
  BY <1>1 DEF Others
<1> QED
  BY <1>1, <1>2 DEF StatusIs, Running, r

LEMMA ParserFailsIs ==
  ASSUME NEW q, Running(q), q.state # "CLOSED", NEW code, code # EofError, code # 1000, code # NoCode
  PROVE  LET r == ParserFails(q, code)
         IN  /\ Running(r) /\ r.state = "CLOSING" /\ r.parser = "discard" /\ r.side = q.side
             /\ r.expectCont = q.expectCont /\ r.closeRcvd = q.closeRcvd /\ r.parserExc # NoCode
             /\ NotByItself(q, r)
<1> DEFINE b == Fail(q, code)
<1>1. /\ Running(b) /\ b.state = "CLOSING" /\ b.parser = "discard" /\ b.side = q.side
      /\ b.expectCont = q.expectCont /\ b.closeRcvd = q.closeRcvd
      /\ b.closeSent = (IF q.state = "OPEN" THEN code ELSE q.closeSent)
  BY FailIs
<1>2. ParserFails(q, code) = [b EXCEPT !.parserExc = code]
  BY DEF ParserFails
<1> HIDE DEF b
<1> QED
  BY <1>1, <1>2 DEF Running, Shaped, NotByItself

\* receive_eof(), before or after the parser failed.
LEMMA ReceiveEofIs ==
  ASSUME NEW q, Running(q), q.state # "CLOSED"
  PROVE  LET r == ReceiveEof(q)
         IN  /\ Running(r) /\ r.state = "CLOSED" /\ r.side = q.side /\ r.expectCont = q.expectCont
             /\ r.closeRcvd = q.closeRcvd /\ r.closeSent = q.closeSent
<1> DEFINE b == IF q.parser = "frames" THEN ParserFails(q, EofError) ELSE q
<1>1. ReceiveEof(q) = DiscardEof(b)
  BY DEF ReceiveEof, Running
<1>2. /\ Others(b) = Others(q) /\ (b.eofSent <=> b.side = "server")
      /\ StatusIs(b, q.state, "discard", q.closeRcvd, q.closeSent, b.eofSent)
  <2>1. CASE q.parser = "frames"
    <3> DEFINE a == Fail(q, EofError)
    <3>1. /\ Others(a) = Others(q) /\ (a.eofSent <=> a.side = "server")
          /\ StatusIs(a, q.state, "discard", q.closeRcvd, q.closeSent, a.eofSent)
      BY FailStatus, RunningIsFailable
    <3>2. b = [a EXCEPT !.parserExc = EofError]
      BY <2>1 DEF ParserFails
    <3> HIDE DEF a, b
    <3> QED
      BY <3>1, <3>2 DEF StatusIs, Others, Shaped
  <2>2. CASE q.parser # "frames"
    BY <2>2 DEF Running, StatusIs, Others
  <2> QED
    BY <2>1, <2>2
<1>3. b.side = q.side /\ b.current = q.current /\ b.expectCont = q.expectCont /\ b.ext = q.ext
  BY <1>2 DEF Others
<1> HIDE DEF b
<1> DEFINE c == IF b.side = "client" /\ b.state # "CONNECTING" THEN SendEof(b) ELSE b
<1>4. /\ Others(c) = Others(b) /\ c.eofSent = TRUE
      /\ StatusIs(c, q.state, "discard", q.closeRcvd, q.closeSent, TRUE)
  <2>1. CASE b.side = "client"
    BY <2>1, <1>2, <1>3, SendEofIs DEF StatusIs, Running
  <2>2. CASE b.side # "client"
    BY <2>2, <1>2, <1>3 DEF StatusIs, Running
  <2> QED
    BY <2>1, <2>2
<1>5. DiscardEof(b) = [c EXCEPT !.state = "CLOSED"]
  BY DEF DiscardEof
<1>6. c.side = q.side /\ c.current = q.current /\ c.expectCont = q.expectCont /\ c.ext = q.ext
  BY <1>3, <1>4 DEF Others
<1> HIDE DEF c
<1>7. DiscardEof(b).side = q.side /\ DiscardEof(b).current = q.current /\ DiscardEof(b).expectCont = q.expectCont
      /\ DiscardEof(b).ext = q.ext /\ StatusIs(DiscardEof(b), "CLOSED", "discard", q.closeRcvd, q.closeSent, TRUE)
  BY <1>4, <1>5, <1>6 DEF StatusIs, Shaped
<1> QED
  BY <1>1, <1>7 DEF StatusIs, Running

LEMMA EofOnceIs ==
  ASSUME NEW q, Running(q)
  PROVE  LET r == EofOnce(q)
         IN  /\ Running(r) /\ r.state = "CLOSED" /\ r.side = q.side /\ r.expectCont = q.expectCont
             /\ r.closeRcvd = q.closeRcvd /\ r.closeSent = q.closeSent
BY ReceiveEofIs DEF EofOnce

--------------------------------------------------------------------------------
(* What one frame of the peer does.                                        *)

LEMMA PeerFrameIs ==
  ASSUME NEW op \in PeerOps
  PROVE  LET f == PeerFrame(op)
         IN  /\ f.kind \in {"text", "cont", "ping", "pong", "close", "bad"} /\ f.size = 0 /\ ~f.rsv
             /\ f.fin \in BOOLEAN /\ (f.kind = "close" => f.code = 1000)
             /\ (f.kind \in {"text", "cont"} <=> op \in {"msg", "junk", "first", "last"})
<1>1. CASE op \in {"msg", "junk"}
  <2> DEFINE f == PeerFrame(op)
  <2>1. f = Frame("text", TRUE, 0, NoCode, FALSE, 0, 0)
    BY ZenonT(30), <1>1 DEF PeerFrame
  <2> HIDE DEF f
  <2>2. f.kind = "text" /\ f.size = 0 /\ ~f.rsv /\ f.fin = TRUE /\ f.code = NoCode
    BY <2>1 DEF Frame
  <2> QED
    BY ZenonT(30), <1>1, <2>2 DEF f, NoCode
<1>2. CASE op = "first"
  <2> DEFINE f == PeerFrame(op)
  <2>1. f = Frame("text", FALSE, 0, NoCode, FALSE, 0, 0)
    BY <1>2 DEF PeerFrame
  <2> HIDE DEF f
  <2>2. f.kind = "text" /\ f.size = 0 /\ ~f.rsv /\ f.fin = FALSE /\ f.code = NoCode
    BY <2>1 DEF Frame
  <2> QED
    BY <1>2, <2>2 DEF f, NoCode
<1>3. CASE op = "last"
  <2> DEFINE f == PeerFrame(op)
  <2>1. f = Frame("cont", TRUE, 0, NoCode, FALSE, 0, 0)
    BY <1>3 DEF PeerFrame
  <2> HIDE DEF f
  <2>2. f.kind = "cont" /\ f.size = 0 /\ ~f.rsv /\ f.fin = TRUE /\ f.code = NoCode
    BY <2>1 DEF Frame
  <2> QED
    BY <1>3, <2>2 DEF f, NoCode
<1>4. CASE op = "ping"
  <2> DEFINE f == PeerFrame(op)
  <2>1. f = Ping(0)
    BY <1>4 DEF PeerFrame
  <2> HIDE DEF f
  <2>2. f.kind = "ping" /\ f.size = 0 /\ ~f.rsv /\ f.fin = TRUE /\ f.code = NoCode
    BY <2>1 DEF Ping, Control, Frame
  <2> QED
    BY <1>4, <2>2 DEF f, NoCode
<1>5. CASE op = "pong"
  <2> DEFINE f == PeerFrame(op)
  <2>1. f = Pong(0)
    BY <1>5 DEF PeerFrame
  <2> HIDE DEF f
  <2>2. f.kind = "pong" /\ f.size = 0 /\ ~f.rsv /\ f.fin = TRUE /\ f.code = NoCode
    BY <2>1 DEF Pong, Control, Frame
  <2> QED
    BY <1>5, <2>2 DEF f, NoCode
<1>6. CASE op = "close"
  <2> DEFINE f == PeerFrame(op)
  <2>1. f = Close(1000)
    BY <1>6 DEF PeerFrame
  <2> HIDE DEF f
  <2>2. f.kind = "close" /\ f.size = 0 /\ ~f.rsv /\ f.fin = TRUE /\ f.code = 1000
    BY <2>1 DEF Close, Control, Frame
  <2> QED
    BY <1>6, <2>2 DEF f, NoCode
<1>7. CASE op \in {"bad", "eof"}
  <2> DEFINE f == PeerFrame(op)
  <2>1. f = Control("bad", 0, NoCode)
    BY <1>7 DEF PeerFrame
  <2> HIDE DEF f
  <2>2. f.kind = "bad" /\ f.size = 0 /\ ~f.rsv /\ f.fin = TRUE /\ f.code = NoCode
    BY <2>1 DEF Control, Frame
  <2> QED
    BY <1>7, <2>2 DEF f, NoCode
<1> QED
  BY <1>1, <1>2, <1>3, <1>4, <1>5, <1>6, <1>7 DEF PeerOps

LEMMA ItemIs ==
  ASSUME NEW op \in PeerOps, NEW n \in Nat
  PROVE  /\ Item(op, n).op = op /\ Item(op, n).n = n /\ Item(op, n).f = PeerFrame(op)
         /\ (IsData(Item(op, n)) <=> op \in {"msg", "junk", "first", "last"})
BY PeerFrameIs DEF Item, IsData

\* Running, after a frame that was accepted or not.
Onward(q, r) ==
  /\ Running(r) /\ r.side = q.side /\ r.expectCont = q.expectCont /\ NotByItself(q, r)
  /\ r.state # "CLOSED" /\ (r.state = "OPEN" => q.state = "OPEN")

LEMMA ReceiveCloseIs ==
  ASSUME NEW q, Running(q), q.parser = "frames", NEW f, f.code = 1000
  PROVE  LET r == ReceiveClose(q, f)
         IN  Onward(q, r) /\ r.parser = "discard"
<1> DEFINE b == [q EXCEPT !.closeRcvd = f.code, !.rcvdThenSent = IF q.state = "CLOSING" THEN "no" ELSE @]
<1> DEFINE c == [Write(b, Close(f.code)) EXCEPT !.closeSent = f.code, !.rcvdThenSent = "yes",
                   !.state = "CLOSING"]
<1> DEFINE r == IF b.state = "OPEN" THEN c ELSE b
<1> DEFINE d == IF r.side = "server" THEN SendEof(r) ELSE r
<1>1. ReceiveClose(q, f) = IF q.current # NoSize THEN ParserFails(b, 1002) ELSE Discard(d)
  BY DEF ReceiveClose
<1>2. q.state \in {"OPEN", "CLOSING"} /\ q.eofSent = FALSE /\ Shaped(q) /\ ~q.broken
  BY DEF Running
<1>3. Others(b) = Others(q) /\ StatusIs(b, q.state, "frames", 1000, q.closeSent, FALSE)
      /\ b.parserExc = q.parserExc
  BY ZenonT(30), <1>2 DEF Shaped, StatusIs, Others
<1>4. b.side = q.side /\ b.current = q.current /\ b.expectCont = q.expectCont /\ b.ext = q.ext
  BY <1>3 DEF Others
<1>5. CASE q.current # NoSize
  <2> DEFINE a == Fail(b, 1002)
  <2>1. ReceiveClose(q, f) = [a EXCEPT !.parserExc = 1002]
    BY <1>1, <1>5 DEF ParserFails
  <2> HIDE DEF b
  <2>2. Failable(b)
    BY <1>2, <1>3 DEF StatusIs, Failable
  <2>3. /\ Others(a) = Others(b) /\ (a.eofSent <=> a.side = "server")
        /\ StatusIs(a, "CLOSING", "discard", 1000, IF q.state = "OPEN" THEN 1002 ELSE q.closeSent, a.eofSent)
    BY <1>2, <1>3, <2>2, FailStatus DEF StatusIs, EofError
  <2>4. a.side = q.side /\ a.current = q.current /\ a.expectCont = q.expectCont /\ a.ext = q.ext
    BY <2>3, <1>4 DEF Others
  <2> HIDE DEF a
  <2>5. LET z == [a EXCEPT !.parserExc = 1002]
        IN  /\ z.side = q.side /\ z.current = q.current /\ z.expectCont = q.expectCont /\ z.ext = q.ext
            /\ z.eofSent \in BOOLEAN /\ (z.eofSent <=> z.side = "server")
            /\ StatusIs(z, "CLOSING", "discard", 1000, IF q.state = "OPEN" THEN 1002 ELSE q.closeSent, z.eofSent)
    BY <2>3, <2>4 DEF StatusIs, Shaped
  <2>6. LET x == ReceiveClose(q, f)
        IN  Running(x) /\ x.state = "CLOSING" /\ x.closeRcvd # NoCode /\ x.expectCont = q.expectCont
            /\ x.parser = "discard" /\ x.side = q.side
    BY <2>1, <2>5, <1>2 DEF StatusIs, Running, NoCode
  <2> QED
    BY <2>6, <1>2 DEF Onward, NotByItself
<1>6. CASE q.current = NoSize
  <2> DEFINE sent == IF q.state = "OPEN" THEN 1000 ELSE q.closeSent
  <2>1. r.side = q.side /\ r.current = q.current /\ r.expectCont = q.expectCont /\ r.ext = q.ext
        /\ StatusIs(r, "CLOSING", "frames", 1000, sent, FALSE)
    <3>1. CASE b.state = "OPEN"
      BY <3>1, <1>3, <1>4 DEF Write, StatusIs, Shaped
    <3>2. CASE b.state # "OPEN"
      BY <3>2, <1>2, <1>3, <1>4 DEF StatusIs
    <3> QED
      BY <3>1, <3>2
  <2> HIDE DEF r, b, sent
  <2>2. d.side = q.side /\ d.current = q.current /\ d.expectCont = q.expectCont /\ d.ext = q.ext
        /\ d.eofSent \in BOOLEAN /\ (d.eofSent <=> d.side = "server") /\ StatusIs(d, "CLOSING", "frames", 1000, sent, d.eofSent)
    <3>1. CASE r.side = "server"
      <4>1. Shaped(r) /\ ~r.broken /\ ~r.eofSent
        BY <2>1 DEF StatusIs
      <4>2. /\ Others(SendEof(r)) = Others(r)
            /\ StatusIs(SendEof(r), r.state, r.parser, r.closeRcvd, r.closeSent, TRUE)
        BY ZenonT(30), <4>1, SendEofIs
      <4>3. /\ Others(SendEof(r)) = Others(r)
            /\ StatusIs(SendEof(r), "CLOSING", "frames", 1000, sent, TRUE)
        BY <4>2, <2>1 DEF StatusIs
      <4>4. SendEof(r).side = q.side /\ SendEof(r).current = q.current
            /\ SendEof(r).expectCont = q.expectCont /\ SendEof(r).ext = q.ext
        BY <4>3, <2>1 DEF Others
      <4>5. d = SendEof(r)
        BY <3>1
      <4> HIDE DEF d
      <4> QED
        BY <4>3, <4>4, <4>5, <3>1, <2>1 DEF StatusIs
    <3>2. CASE r.side # "server"
      BY <3>2, <2>1 DEF StatusIs
    <3> QED
      BY <3>1, <3>2
  <2> HIDE DEF d
  <2>3. Shaped(d) /\ ~d.broken /\ d.eofSent \in BOOLEAN /\ (d.side = "server" \/ d.state = "CONNECTING" <=> d.eofSent)
    BY <2>2 DEF StatusIs
  <2>4. Others(Discard(d)) = Others(d)
        /\ StatusIs(Discard(d), d.state, "discard", d.closeRcvd, d.closeSent, d.eofSent)
    BY <2>3, DiscardIs
  <2>5. Others(Discard(d)) = Others(d) /\ StatusIs(Discard(d), "CLOSING", "discard", 1000, sent, d.eofSent)
    BY <2>4, <2>2 DEF StatusIs
  <2>6. Discard(d).side = q.side /\ Discard(d).current = q.current /\ Discard(d).expectCont = q.expectCont
        /\ Discard(d).ext = q.ext
    BY <2>2, <2>5 DEF Others
  <2>7. ReceiveClose(q, f) = Discard(d)
    BY <1>1, <1>6
  <2>8. LET x == ReceiveClose(q, f)
        IN  Running(x) /\ x.state = "CLOSING" /\ x.closeRcvd # NoCode /\ x.expectCont = q.expectCont
            /\ x.parser = "discard" /\ x.side = q.side
    BY <2>2, <2>5, <2>6, <2>7, <1>2 DEF StatusIs, Running, NoCode
  <2> QED
    BY <2>8, <1>2 DEF Onward, NotByItself
<1> QED
  BY <1>5, <1>6

\* The frames among the events, and what the parser knows of the message
\* they are part of.
LEMMA ReceiveFrameIs ==
  ASSUME NEW q, Running(q), q.parser = "frames", NEW op \in PeerOps, NEW n \in Nat
  PROVE  LET item == Item(op, n)
             r == ReceiveFrame(q, item.f)
         IN  /\ Onward(q, r)
             /\ r.parserExc = NoCode /\ IsData(item) =>
                  /\ r.parser = "frames"
                  /\ item.f.kind = "text" <=> q.current = NoSize
                  /\ item.f.fin <=> r.current = NoSize
             /\ r.parserExc = NoCode /\ ~IsData(item) /\ r.parser = "frames" => r.current = q.current
<1> DEFINE f == PeerFrame(op)
<1> DEFINE r == ReceiveFrame(q, f)
<1>1. Item(op, n).f = f /\ (IsData(Item(op, n)) <=> f.kind \in {"text", "cont"})
  BY ItemIs, PeerFrameIs
<1>2. /\ f.kind \in {"text", "cont", "ping", "pong", "close", "bad"} /\ f.size = 0 /\ ~f.rsv
      /\ f.fin \in BOOLEAN /\ (f.kind = "close" => f.code = 1000)
  BY PeerFrameIs
<1> HIDE DEF f
<1>3. q.state \in {"OPEN", "CLOSING"} /\ q.current \in {NoSize, 0} /\ q.ext = NoExt
      /\ q.closeRcvd = NoCode /\ q.parserExc = NoCode /\ Shaped(q)
  BY DEF Running
<1>4. ~Compressed(q, f)
  BY <1>3 DEF Compressed, NoExt
<1>5. FrameError(q, f) = IF f.kind = "bad" THEN 1002 ELSE NoCode
  <2>1. 0 <= Limit(q)
    BY <1>3, MaxSizeAssumption DEF Limit, NoSize
  <2>2. CASE f.kind = "bad"
    BY <2>2 DEF FrameError
  <2>3. CASE f.kind # "bad"
    <3>1. f.size <= Limit(q) /\ ~(f.size > Limit(q))
      BY <1>2, <2>1, <1>3, MaxSizeAssumption DEF Limit, NoSize
    <3> QED
      BY <1>2, <1>4, <2>3, <3>1 DEF FrameError
  <2> QED
    BY <2>2, <2>3
<1>6. CASE f.kind = "bad"
  <2>1. r = ParserFails(q, 1002)
    BY <1>5, <1>6 DEF ReceiveFrame, NoCode
  <2>2. Onward(q, r) /\ r.parserExc # NoCode
    BY <2>1, <1>3, ParserFailsIs DEF Onward, EofError, NoCode
  <2> QED
    BY <1>1, <2>2 DEF r
<1>7. CASE f.kind = "close"
  <2>1. r = ReceiveClose(q, f)
    BY <1>5, <1>7 DEF ReceiveFrame
  <2>2. Onward(q, r) /\ r.parser = "discard"
    BY <2>1, <1>2, <1>7, ReceiveCloseIs
  <2> QED
    BY <1>1, <1>7, <2>2
<1>8. CASE f.kind \notin {"bad", "close"}
  <2>1. r = ReceiveOther(q, f)
    BY <1>4, <1>5, <1>8 DEF ReceiveFrame
  <2>2. CASE f.kind = "text"
    <3>1. CASE q.current # NoSize
      <4>1. r = ParserFails(q, 1002)
        BY <2>1, <2>2, <3>1 DEF ReceiveOther
      <4>2. Onward(q, r) /\ r.parserExc # NoCode
        BY <4>1, <1>3, ParserFailsIs DEF Onward, EofError, NoCode
      <4> QED
        BY <1>1, <4>2
    <3>2. CASE q.current = NoSize
      <4>1. r = IF f.fin THEN q ELSE [q EXCEPT !.current = 0]
        BY <1>2, <2>1, <2>2, <3>2 DEF ReceiveOther
      <4> HIDE DEF r
      <4>2. Onward(q, r) /\ r.parser = "frames" /\ (f.fin <=> r.current = NoSize)
        BY <1>2, <1>3, <3>2, <4>1 DEF Onward, Running, Shaped, NotByItself, NoSize
      <4> QED
        BY <1>1, <2>2, <3>2, <4>2 DEF r
    <3> QED
      BY <3>1, <3>2
  <2>3. CASE f.kind = "cont"
    <3>1. CASE q.current = NoSize
      <4>1. r = ParserFails(q, 1002)
        BY <2>1, <2>3, <3>1 DEF ReceiveOther
      <4>2. Onward(q, r) /\ r.parserExc # NoCode
        BY <4>1, <1>3, ParserFailsIs DEF Onward, EofError, NoCode
      <4> QED
        BY <1>1, <4>2
    <3>2. CASE q.current # NoSize
      <4>1. r = [q EXCEPT !.current = IF f.fin THEN NoSize ELSE 0]
        BY <1>2, <1>3, <2>1, <2>3, <3>2 DEF ReceiveOther
      <4> HIDE DEF r
      <4>2. Onward(q, r) /\ r.parser = "frames" /\ (f.fin <=> r.current = NoSize)
        BY <1>2, <1>3, <3>2, <4>1 DEF Onward, Running, Shaped, NotByItself, NoSize
      <4> QED
        BY <1>1, <2>3, <3>2, <4>2 DEF r
    <3> QED
      BY <3>1, <3>2
  <2>4. CASE f.kind = "ping"
    <3>1. r = SendPong(q, 0)
      BY <1>2, <2>1, <2>4 DEF ReceiveOther
    <3>2. Onward(q, r) /\ r.current = q.current
      BY <3>1, <1>3, SendPingIs DEF Onward, Alike, NotByItself
    <3> QED
      BY <1>1, <2>4, <3>2
  <2>5. CASE f.kind = "pong"
    <3>1. r = q
      BY <2>1, <2>5 DEF ReceiveOther
    <3> QED
      BY <1>1, <1>3, <2>5, <3>1 DEF Onward, NotByItself
  <2> QED
    BY <1>2, <1>8, <2>2, <2>3, <2>4, <2>5
<1> QED
  BY <1>6, <1>7, <1>8

--------------------------------------------------------------------------------
(* Feeding several frames.                                                 *)

\* receive_data() is a fold.
LEMMA FedIs ==
  ASSUME NEW q, NEW items, Len(items) \in Nat
  PROVE  \E g : /\ g[0] = [p |-> q, events |-> <<>>, data |-> <<>>]
                /\ \A k \in 1..Len(items) : g[k] = Feed(g[k - 1], items[k])
                /\ Fed(q, items) = g[Len(items)]
<1> DEFINE base == [p |-> q, events |-> <<>>, data |-> <<>>]
<1> DEFINE Is(g, n) == g = [k \in 0..n |-> IF k = 0 THEN base ELSE Feed(g[k - 1], items[k])]
<1> DEFINE Has == {n \in Nat : \E g : Is(g, n)}
<1>1. 0 \in Has
  <2> DEFINE g == [k \in 0..0 |-> base]
  <2>1. Is(g, 0)
    OBVIOUS
  <2> QED
    BY <2>1
<1>2. ASSUME NEW n \in Has PROVE n + 1 \in Has
  <2>1. PICK g : Is(g, n)
    OBVIOUS
  <2> DEFINE h == [k \in 0..(n + 1) |-> IF k <= n THEN g[k] ELSE Feed(g[n], items[n + 1])]
  <2>2. \A k \in 0..n : h[k] = g[k]
    BY <1>2
  <2>3. h[n + 1] = Feed(g[n], items[n + 1])
    BY <1>2
  <2>4. ASSUME NEW k \in 0..(n + 1)
        PROVE  h[k] = IF k = 0 THEN base ELSE Feed(h[k - 1], items[k])
    <3>1. CASE k = n + 1
      <4>1. k # 0 /\ k - 1 = n /\ n \in 0..n
        BY <3>1, <1>2
      <4> HIDE DEF h, base
      <4> QED
        BY <4>1, <2>2, <2>3, <3>1
    <3>2. CASE k # n + 1
      <4>1. k \in 0..n /\ (k # 0 => k - 1 \in 0..n)
        BY <3>2, <1>2
      <4>2. g[k] = IF k = 0 THEN base ELSE Feed(g[k - 1], items[k])
        BY <2>1, <4>1
      <4> HIDE DEF h, base
      <4> QED
        BY <4>1, <4>2, <2>2
    <3> QED
      BY <3>1, <3>2
  <2>5. Is(h, n + 1)
    <3>1. h = [k \in 0..(n + 1) |-> h[k]]
      OBVIOUS
    <3> HIDE DEF h, base
    <3> QED
      BY <3>1, <2>4
  <2> HIDE DEF h, Is
  <2> QED
    BY <2>5, <1>2
<1>3. Has = Nat
  <2> HIDE DEF Is
  <2>1. Has \in SUBSET Nat
    OBVIOUS
  <2> HIDE DEF Has
  <2> QED
    BY <1>1, <1>2, <2>1, NatSetInduction
<1> DEFINE n == Len(items)
<1> DEFINE f == CHOOSE g : Is(g, n)
<1>4. Is(f, n)
  BY <1>3
<1>5. Fed(q, items) = f[n]
  BY DEF Fed
<1>6. f[0] = base /\ \A k \in 1..n : f[k] = Feed(f[k - 1], items[k])
  <2> HIDE DEF f, base
  <2> QED
    BY <1>4
<1> HIDE DEF f, base
<1> QED
  BY <1>5, <1>6 DEF base

QueueFrames == [n: Nat, starts: BOOLEAN, fin: BOOLEAN, utf8: BOOLEAN]

\* What r = [p, events, data] owes to the protocol q that was fed.
Fine(q, r) ==
  /\ DOMAIN r = {"p", "events", "data"}
  /\ Running(r.p) /\ r.p.side = q.side /\ r.p.expectCont = q.expectCont /\ NotByItself(q, r.p)
  /\ (r.p.state = "CLOSED" <=> q.state = "CLOSED") /\ (r.p.state = "OPEN" => q.state = "OPEN")
  /\ r.events \in Seq(PeerItems) /\ r.data \in Seq(QueueFrames)

LEMMA QueuedIs ==
  ASSUME NEW item \in PeerItems
  PROVE  /\ Queued(item) \in QueueFrames /\ Queued(item).n = item.n /\ item.n \in Nat
         /\ (Queued(item).starts <=> item.f.kind = "text") /\ (Queued(item).fin <=> item.f.fin)
<1>1. PICK op \in PeerOps, n \in Nat : item = Item(op, n)
  BY DEF PeerItems
<1>2. item.n = n /\ item.op = op /\ item.f.fin \in BOOLEAN
  BY <1>1, ItemIs, PeerFrameIs
<1> QED
  BY <1>2 DEF Queued, QueueFrames

LEMMA FeedKeeps ==
  ASSUME NEW q, NEW r, Fine(q, r), NEW item \in PeerItems
  PROVE  Fine(q, Feed(r, item))
<1>1. CASE r.p.parser = "discard"
  BY <1>1 DEF Feed
<1>2. CASE r.p.parser # "discard"
  <2> DEFINE z == ReceiveFrame(r.p, item.f)
  <2>1. PICK op \in PeerOps, n \in Nat : item = Item(op, n)
    BY DEF PeerItems
  <2>2. Running(r.p) /\ r.p.parser = "frames" /\ r.p.closeRcvd = NoCode /\ r.p.state # "CLOSED"
    BY <1>2 DEF Fine, Running
  <2>3. Onward(r.p, z)
    BY <2>1, <2>2, ReceiveFrameIs
  <2>4. Feed(r, item) = IF z.parserExc # NoCode THEN [r EXCEPT !.p = z]
                        ELSE [p |-> z, events |-> Append(r.events, item),
                              data |-> IF IsData(item) THEN Append(r.data, Queued(item)) ELSE r.data]
    BY <1>2 DEF Feed
  <2> HIDE DEF z
  <2>5. /\ Running(z) /\ z.side = q.side /\ z.expectCont = q.expectCont /\ NotByItself(q, z)
        /\ (z.state = "CLOSED" <=> q.state = "CLOSED") /\ (z.state = "OPEN" => q.state = "OPEN")
    BY <2>2, <2>3 DEF Fine, Onward, NotByItself
  <2>6. Queued(item) \in QueueFrames
    BY QueuedIs
  <2>7. CASE z.parserExc # NoCode
    BY <2>4, <2>5, <2>7 DEF Fine
  <2>8. CASE z.parserExc = NoCode
    BY <2>4, <2>5, <2>6, <2>8 DEF Fine
  <2> QED
    BY <2>7, <2>8
<1> QED
  BY <1>1, <1>2

LEMMA FedKeeps ==
  ASSUME NEW q, Running(q), NEW items \in Seq(PeerItems)
  PROVE  Fine(q, Fed(q, items))
<1> DEFINE n == Len(items)
<1>1. PICK g : /\ g[0] = [p |-> q, events |-> <<>>, data |-> <<>>]
               /\ \A k \in 1..n : g[k] = Feed(g[k - 1], items[k])
               /\ Fed(q, items) = g[n]
  <2>1. Len(items) \in Nat
    OBVIOUS
  <2> QED
    BY <2>1, FedIs
<1> DEFINE Good == {k \in Nat : k <= n => Fine(q, g[k])}
<1>2. 0 \in Good
  <2> DEFINE base == [p |-> q, events |-> <<>>, data |-> <<>>]
  <2>1. DOMAIN base = {"p", "events", "data"} /\ base.p = q /\ base.events = <<>> /\ base.data = <<>>
    OBVIOUS
  <2>2. <<>> \in Seq(PeerItems) /\ <<>> \in Seq(QueueFrames)
    OBVIOUS
  <2> HIDE DEF base
  <2>3. Fine(q, base)
    BY <2>1, <2>2 DEF Fine, NotByItself
  <2> QED
    BY <1>1, <2>3 DEF base
<1>3. ASSUME NEW k \in Good PROVE k + 1 \in Good
  <2> SUFFICES ASSUME k + 1 <= n PROVE Fine(q, g[k + 1])
    OBVIOUS
  <2>1. k \in Nat /\ k + 1 \in 1..n /\ (k + 1) - 1 = k /\ Fine(q, g[k])
    OBVIOUS
  <2>2. g[k + 1] = Feed(g[k], items[k + 1]) /\ items[k + 1] \in PeerItems
    BY <1>1, <2>1
  <2> QED
    BY <2>1, <2>2, FeedKeeps
<1>4. Good = Nat
  <2>1. Good \in SUBSET Nat
    OBVIOUS
  <2> HIDE DEF Good
  <2> QED
    BY <1>2, <1>3, <2>1, NatSetInduction
<1>5. n \in Nat
  OBVIOUS
<1> QED
  BY <1>1, <1>4, <1>5

--------------------------------------------------------------------------------
(* The frames that are queued form messages, in order.                     *)

Line(q, s) ==
  /\ s \in Seq(QueueFrames)
  /\ \A i, j \in DOMAIN s : i < j => s[i].n < s[j].n
  /\ s # <<>> => s[1].starts
  /\ \A i \in 1..(Len(s) - 1) : s[i + 1].starts <=> s[i].fin
  /\ q.parser = "frames" => (q.current = NoSize <=> s = <<>> \/ s[Len(s)].fin)

LEMMA FeedLine ==
  ASSUME NEW q, NEW r, Fine(q, r), NEW s \in Seq(QueueFrames), Line(r.p, s \o r.data),
         NEW item \in PeerItems,
         IsData(item) => \A i \in DOMAIN (s \o r.data) : (s \o r.data)[i].n < item.n
  PROVE  LET z == Feed(r, item)
         IN  /\ Line(z.p, s \o z.data)
             /\ z.data = r.data \/ (IsData(item) /\ z.data = Append(r.data, Queued(item)))
<1>1. CASE r.p.parser = "discard"
  BY <1>1 DEF Feed
<1>2. CASE r.p.parser # "discard"
  <2> DEFINE z == ReceiveFrame(r.p, item.f)
  <2> DEFINE l == s \o r.data
  <2>1. PICK op \in PeerOps, n \in Nat : item = Item(op, n)
    BY DEF PeerItems
  <2>2. Running(r.p) /\ r.p.parser = "frames" /\ DOMAIN r = {"p", "events", "data"} /\ r.data \in Seq(QueueFrames)
    BY <1>2 DEF Fine, Running
  <2>3. /\ Onward(r.p, z)
        /\ z.parserExc = NoCode /\ IsData(item) =>
             /\ z.parser = "frames"
             /\ item.f.kind = "text" <=> r.p.current = NoSize
             /\ item.f.fin <=> z.current = NoSize
        /\ z.parserExc = NoCode /\ ~IsData(item) /\ z.parser = "frames" => z.current = r.p.current
    BY <2>1, <2>2, ReceiveFrameIs
  <2>4. Feed(r, item) = IF z.parserExc # NoCode THEN [r EXCEPT !.p = z]
                        ELSE [p |-> z, events |-> Append(r.events, item),
                              data |-> IF IsData(item) THEN Append(r.data, Queued(item)) ELSE r.data]
    BY <1>2 DEF Feed
  <2>5. z.parserExc # NoCode => z.parser # "frames"
    BY <2>3 DEF Onward, Running
  <2> HIDE DEF z
  <2>6. CASE z.parserExc # NoCode
    <3>1. Feed(r, item).p = z /\ Feed(r, item).data = r.data
      BY <2>2, <2>4, <2>6
    <3> QED
      BY <2>5, <2>6, <3>1 DEF Line
  <2>7. CASE z.parserExc = NoCode /\ ~IsData(item)
    <3>1. Feed(r, item).p = z /\ Feed(r, item).data = r.data
      BY <2>2, <2>4, <2>7
    <3> QED
      BY <2>2, <2>3, <2>7, <3>1 DEF Line
  <2>8. CASE z.parserExc = NoCode /\ IsData(item)
    <3> DEFINE x == Queued(item)
    <3>1. Feed(r, item).p = z /\ Feed(r, item).data = Append(r.data, x)
      BY <2>2, <2>4, <2>8
    <3>2. x \in QueueFrames /\ x.n = item.n /\ (x.starts <=> item.f.kind = "text") /\ (x.fin <=> item.f.fin)
      BY QueuedIs
    <3> HIDE DEF x
    <3>3. s \o Append(r.data, x) = Append(l, x)
      BY <2>2, <3>2
    <3>4. \A i \in DOMAIN l : l[i].n < x.n
      BY <2>8, <3>2
    <3>5. Line(r.p, l) /\ l \in Seq(QueueFrames)
      BY <2>2
    <3> HIDE DEF l
    <3> DEFINE m == Append(l, x)
    <3>6. /\ m \in Seq(QueueFrames) /\ Len(m) = Len(l) + 1 /\ m[Len(l) + 1] = x /\ Len(l) \in Nat
          /\ DOMAIN m = 1..(Len(l) + 1) /\ DOMAIN l = 1..Len(l) /\ \A i \in 1..Len(l) : m[i] = l[i]
      BY <3>2, <3>5
    <3> HIDE DEF m
    <3>7. Line(z, m)
      <4>1. \A i, j \in DOMAIN m : i < j => m[i].n < m[j].n
        <5> SUFFICES ASSUME NEW i \in DOMAIN m, NEW j \in DOMAIN m, i < j PROVE m[i].n < m[j].n
          OBVIOUS
        <5>1. CASE j = Len(l) + 1
          BY <3>4, <3>6, <5>1
        <5>2. CASE j # Len(l) + 1
          <6>1. i \in DOMAIN l /\ j \in DOMAIN l
            BY <3>6, <5>2
          <6> QED
            BY <3>5, <3>6, <6>1 DEF Line
        <5> QED
          BY <5>1, <5>2
      <4>2. x.starts <=> (l = <<>> \/ l[Len(l)].fin)
        BY <2>2, <2>3, <2>8, <3>2, <3>5 DEF Line
      <4>3. m # <<>> => m[1].starts
        <5>1. CASE l = <<>>
          BY <3>6, <4>2, <5>1
        <5>2. CASE l # <<>>
          BY <3>5, <3>6, <5>2 DEF Line
        <5> QED
          BY <5>1, <5>2
      <4>4. \A i \in 1..(Len(m) - 1) : m[i + 1].starts <=> m[i].fin
        <5> SUFFICES ASSUME NEW i \in 1..(Len(m) - 1) PROVE m[i + 1].starts <=> m[i].fin
          OBVIOUS
        <5>1. CASE i = Len(l)
          <6>1. l # <<>> /\ m[i + 1] = x /\ m[i] = l[Len(l)]
            BY <3>6, <5>1
          <6> QED
            BY <4>2, <6>1
        <5>2. CASE i # Len(l)
          <6>1. i \in 1..(Len(l) - 1) /\ m[i + 1] = l[i + 1] /\ m[i] = l[i]
            BY <3>6, <5>2
          <6> QED
            BY <3>5, <6>1 DEF Line
        <5> QED
          BY <5>1, <5>2
      <4>5. z.current = NoSize <=> m = <<>> \/ m[Len(m)].fin
        BY <2>3, <2>8, <3>2, <3>6
      <4> QED
        BY <3>6, <4>1, <4>3, <4>4, <4>5 DEF Line
    <3> QED
      BY <2>8, <3>1, <3>3, <3>7 DEF m, x
  <2> QED
    BY <2>6, <2>7, <2>8
<1> QED
  BY <1>1, <1>2

\* The numbers of the data frames of items grow, and are above those of t.
Numbered(items, t) ==
  /\ \A i, j \in DOMAIN items : i < j /\ IsData(items[i]) /\ IsData(items[j]) => items[i].n < items[j].n
  /\ \A i \in DOMAIN items : IsData(items[i]) => \A x \in t : x < items[i].n

Numbers(s) == {s[i].n : i \in DOMAIN s}

LEMMA FedLine ==
  ASSUME NEW q, Running(q), NEW s, Line(q, s), NEW items \in Seq(PeerItems), NEW t \in SUBSET Nat,
         Numbered(items, t), \A x \in Numbers(s) : x \in t
  PROVE  LET r == Fed(q, items)
         IN  /\ Line(r.p, s \o r.data)
             /\ \A i \in DOMAIN r.data : \E j \in DOMAIN items : IsData(items[j]) /\ r.data[i].n = items[j].n
<1> DEFINE n == Len(items)
<1>1. PICK g : /\ g[0] = [p |-> q, events |-> <<>>, data |-> <<>>]
               /\ \A k \in 1..n : g[k] = Feed(g[k - 1], items[k])
               /\ Fed(q, items) = g[n]
  <2>1. Len(items) \in Nat
    OBVIOUS
  <2> QED
    BY <2>1, FedIs
<1>2. s \in Seq(QueueFrames) /\ DOMAIN items = 1..n /\ n \in Nat
  BY DEF Line
<1> DEFINE From(k) == {i \in 1..k : IsData(items[i])}
<1> DEFINE Sound(k) ==
      /\ Fine(q, g[k]) /\ Line(g[k].p, s \o g[k].data)
      /\ \A i \in DOMAIN g[k].data : \E j \in From(k) : g[k].data[i].n = items[j].n
<1> DEFINE Good == {k \in Nat : k <= n => Sound(k)}
<1>3. 0 \in Good
  <2> DEFINE base == [p |-> q, events |-> <<>>, data |-> <<>>]
  <2>1. DOMAIN base = {"p", "events", "data"} /\ base.p = q /\ base.events = <<>> /\ base.data = <<>>
    OBVIOUS
  <2>2. <<>> \in Seq(PeerItems) /\ <<>> \in Seq(QueueFrames) /\ s \o <<>> = s
    BY <1>2
  <2> HIDE DEF base
  <2>3. Fine(q, base)
    BY <2>1, <2>2 DEF Fine, NotByItself
  <2>4. Line(base.p, s \o base.data) /\ DOMAIN base.data = {}
    BY <2>1, <2>2
  <2>5. g[0] = base
    BY <1>1 DEF base
  <2> QED
    BY <2>3, <2>4, <2>5
<1>4. ASSUME NEW k \in Good PROVE k + 1 \in Good
  <2> SUFFICES ASSUME k + 1 <= n PROVE Sound(k + 1)
    OBVIOUS
  <2>1. k \in Nat /\ k + 1 \in 1..n /\ (k + 1) - 1 = k /\ Sound(k)
    OBVIOUS
  <2> DEFINE r == g[k]
  <2> DEFINE z == g[k + 1]
  <2> DEFINE item == items[k + 1]
  <2>2. z = Feed(r, item) /\ item \in PeerItems
    BY <1>1, <2>1
  <2>3. r.data \in Seq(QueueFrames)
    BY <2>1 DEF Fine
  <2>4. ASSUME IsData(item), NEW i \in DOMAIN (s \o r.data) PROVE (s \o r.data)[i].n < item.n
    <3>1. CASE i \in 1..Len(s)
      <4>1. (s \o r.data)[i].n \in Numbers(s)
        BY <1>2, <2>3, <3>1 DEF Numbers
      <4> QED
        BY <1>2, <2>1, <2>4, <4>1 DEF Numbered
    <3>2. CASE i \notin 1..Len(s)
      <4>1. i - Len(s) \in DOMAIN r.data /\ (s \o r.data)[i] = r.data[i - Len(s)]
        BY <1>2, <2>3, <2>4, <3>2
      <4>2. PICK j \in From(k) : r.data[i - Len(s)].n = items[j].n
        BY <2>1, <4>1
      <4>3. j < k + 1 /\ IsData(items[j]) /\ j \in DOMAIN items /\ k + 1 \in DOMAIN items
        BY <1>2, <2>1, <4>2
      <4> QED
        BY <2>4, <4>1, <4>2, <4>3 DEF Numbered
    <3> QED
      BY <3>1, <3>2
  <2>5. /\ Line(z.p, s \o z.data)
        /\ z.data = r.data \/ (IsData(item) /\ z.data = Append(r.data, Queued(item)))
    <3> HIDE DEF r, z, item
    <3>1. Fine(q, r) /\ Line(r.p, s \o r.data)
      BY <2>1 DEF r
    <3> QED
      BY <1>2, <2>2, <2>4, <3>1, FeedLine
  <2>6. Fine(q, z)
    BY <2>1, <2>2, FeedKeeps
  <2>7. ASSUME NEW i \in DOMAIN z.data PROVE \E j \in From(k + 1) : z.data[i].n = items[j].n
    <3>1. From(k) \subseteq From(k + 1)
      BY <2>1
    <3>2. CASE i \in DOMAIN r.data /\ z.data[i] = r.data[i]
      BY <2>1, <3>1, <3>2
    <3>3. CASE ~(i \in DOMAIN r.data /\ z.data[i] = r.data[i])
      <4>1. IsData(item) /\ z.data = Append(r.data, Queued(item))
        BY <2>5, <2>7, <3>3
      <4>2. z.data[i] = Queued(item)
        BY <2>3, <2>7, <3>3, <4>1
      <4>3. k + 1 \in From(k + 1)
        BY <2>1, <4>1
      <4> QED
        BY <2>2, <4>2, <4>3, QueuedIs
    <3> QED
      BY <3>2, <3>3
  <2> QED
    BY <2>5, <2>6, <2>7
<1>5. Good = Nat
  <2>1. Good \in SUBSET Nat
    OBVIOUS
  <2> HIDE DEF Good
  <2> QED
    BY ZenonT(30), <1>3, <1>4, <2>1, NatSetInduction
<1>6. n \in Nat /\ n \in Good
  <2> HIDE DEF Good
  <2> QED
    BY <1>2, <1>5
<1>7. Sound(n)
  <2> HIDE DEF Sound
  <2> QED
    BY <1>6
<1>8. Fed(q, items) = g[n] /\ DOMAIN items = 1..n
  BY <1>1, <1>2
<1> HIDE DEF n, Good
<1> QED
  BY <1>7, <1>8

\* The messages in a line of frames, as frames arrive and as the first
\* message is taken.
LEMMA MessagesAreNumbers ==
  ASSUME NEW s
  PROVE  Messages(s) \subseteq Numbers(s) /\ (Fins(s) = {} => Messages(s) = {})
BY DEF Messages, Numbers, Fins

LEMMA MessagesRise ==
  ASSUME NEW s \in Seq(QueueFrames), NEW d \in Seq(QueueFrames),
         \A i, j \in DOMAIN (s \o d) : i < j => (s \o d)[i].n < (s \o d)[j].n
  PROVE  /\ Messages(s) \subseteq Messages(s \o d)
         /\ \A a \in Messages(s), m \in Messages(s \o d) \ Messages(s) : a < m
<1> DEFINE l == s \o d
<1>1. /\ Len(s) \in Nat /\ DOMAIN s = 1..Len(s) /\ DOMAIN l = 1..(Len(s) + Len(d)) /\ Len(d) \in Nat
      /\ \A i \in 1..Len(s) : l[i] = s[i]
  OBVIOUS
<1>2. \A i, j \in DOMAIN l : i < j => l[i].n < l[j].n
  OBVIOUS
<1> HIDE DEF l
<1>3. DOMAIN s \subseteq DOMAIN l
  BY <1>1
<1>4. ASSUME NEW a \in Messages(s)
      PROVE  \E i \in DOMAIN s, j \in Fins(s) : i <= j /\ s[i].n = a /\ s[i].starts
  BY <1>1 DEF Messages, Fins
<1>5. Fins(s) \subseteq Fins(l)
  BY <1>1, <1>3 DEF Fins
<1>6. ASSUME NEW a \in Messages(s) PROVE a \in Messages(l)
  <2>1. PICK i \in DOMAIN s, j \in Fins(s) : i <= j /\ s[i].n = a /\ s[i].starts
    BY <1>4
  <2>2. i \in DOMAIN l /\ l[i] = s[i] /\ j \in Fins(l) /\ j >= i
    BY <1>1, <1>3, <1>5, <2>1 DEF Fins
  <2> QED
    BY <2>1, <2>2 DEF Messages
<1>7. ASSUME NEW a \in Messages(s), NEW m \in Messages(l) \ Messages(s) PROVE a < m
  <2>1. PICK i \in DOMAIN s, j \in Fins(s) : i <= j /\ s[i].n = a /\ s[i].starts
    BY <1>4
  <2>2. PICK k \in DOMAIN l : l[k].n = m /\ l[k].starts
    BY DEF Messages
  <2>3. i < k
    <3>1. CASE k \in DOMAIN s
      <4>1. s[k].starts /\ s[k].n = m
        BY <1>1, <2>2, <3>1
      <4>2. ~(j >= k)
        BY <2>1, <3>1, <4>1 DEF Messages
      <4> QED
        BY <1>1, <2>1, <3>1, <4>2 DEF Fins
    <3>2. CASE k \notin DOMAIN s
      BY <1>1, <2>1, <2>2, <3>2
    <3> QED
      BY <3>1, <3>2
  <2> QED
    BY <1>1, <1>2, <1>3, <2>1, <2>2, <2>3
<1> QED
  BY <1>6, <1>7 DEF l

LEMMA MessagesGrow ==
  ASSUME NEW q, NEW s \in Seq(QueueFrames), NEW d \in Seq(QueueFrames), Line(q, s \o d)
  PROVE  /\ Messages(s) \subseteq Messages(s \o d)
         /\ \A a \in Messages(s), m \in Messages(s \o d) \ Messages(s) : a < m
BY MessagesRise DEF Line

LEMMA TakeKeeps ==
  ASSUME NEW q, NEW l, Line(q, l), NEW i \in Fins(l), \A j \in Fins(l) : i <= j
  PROVE  LET rest == SubSeq(l, i + 1, Len(l))
         IN  /\ Line(q, rest) /\ Numbers(rest) \subseteq Numbers(l)
             /\ Messages(l) = {l[1].n} \cup Messages(rest)
             /\ l[1].n \in Numbers(l) /\ \A x \in Numbers(rest) : l[1].n < x
<1> DEFINE rest == SubSeq(l, i + 1, Len(l))
<1> DEFINE n == Len(l)
<1>1. l \in Seq(QueueFrames) /\ n \in Nat /\ DOMAIN l = 1..n /\ i \in 1..n /\ l[i].fin
  BY DEF Line, Fins
<1>2. /\ rest \in Seq(QueueFrames) /\ Len(rest) = n - i /\ DOMAIN rest = 1..(n - i)
      /\ \A k \in 1..(n - i) : rest[k] = l[k + i]
  <2>1. i + 1 \in 1..(n + 1) /\ n \in 0..n /\ n - i \in Nat
    BY <1>1
  <2>2. rest \in Seq(QueueFrames)
    BY <1>1
  <2>3. \A k \in (i + 1)..n : l[k] \in QueueFrames
    BY <1>1
  <2>4. i + 1 \in Int /\ n \in Int
    BY <1>1
  <2>5. /\ Len(rest) = IF i + 1 <= n THEN n - (i + 1) + 1 ELSE 0
        /\ \A k \in 1..(n - (i + 1) + 1) : rest[k] = l[(i + 1) + k - 1]
    BY <2>3, <2>4, SubSeqProperties
  <2> HIDE DEF rest, n
  <2>6. Len(rest) = n - i
    BY <1>1, <2>5
  <2>7. \A k \in 1..(n - i) : rest[k] = l[(i + 1) + k - 1]
    BY <1>1, <2>5
  <2>8. \A k \in 1..(n - i) : (i + 1) + k - 1 = k + i
    BY <1>1
  <2> QED
    BY <2>1, <2>2, <2>6, <2>7, <2>8
<1>3. \A j, k \in DOMAIN l : j < k => l[j].n < l[k].n
  BY DEF Line
<1>4. l[1].starts /\ 1 \in DOMAIN l
  BY <1>1 DEF Line
<1>5. \A k \in 1..(n - 1) : l[k + 1].starts <=> l[k].fin
  BY DEF Line
<1> HIDE DEF rest, n
<1>6. \A k \in 1..(i - 1) : ~l[k].fin
  BY <1>1 DEF Fins
<1>7. \A k \in 2..i : ~l[k].starts
  <2> SUFFICES ASSUME NEW k \in 2..i PROVE ~l[k].starts
    OBVIOUS
  <2>1. k - 1 \in 1..(i - 1) /\ k - 1 \in 1..(n - 1) /\ (k - 1) + 1 = k
    BY <1>1
  <2> QED
    BY <1>5, <1>6, <2>1
<1>8. Line(q, rest)
  <2>1. \A j, k \in DOMAIN rest : j < k => rest[j].n < rest[k].n
    <3> SUFFICES ASSUME NEW j \in 1..(n - i), NEW k \in 1..(n - i), j < k PROVE rest[j].n < rest[k].n
      BY <1>2
    <3>1. j + i \in DOMAIN l /\ k + i \in DOMAIN l /\ j + i < k + i
      BY <1>1
    <3> QED
      BY <1>2, <1>3, <3>1
  <2>2. rest # <<>> => rest[1].starts
    <3> SUFFICES ASSUME rest # <<>> PROVE rest[1].starts
      OBVIOUS
    <3>1. n - i >= 1 /\ i \in 1..(n - 1) /\ rest[1] = l[i + 1]
      <4>1. n - i # 0
        BY <1>2
      <4>2. n - i >= 1 /\ i \in 1..(n - 1)
        BY <1>1, <4>1
      <4> QED
        BY <1>1, <1>2, <4>2
    <3> QED
      BY <1>1, <1>5, <3>1
  <2>3. \A k \in 1..(Len(rest) - 1) : rest[k + 1].starts <=> rest[k].fin
    <3> SUFFICES ASSUME NEW k \in 1..((n - i) - 1) PROVE rest[k + 1].starts <=> rest[k].fin
      BY <1>2
    <3>1. k + i \in 1..(n - 1) /\ (k + 1) + i = (k + i) + 1 /\ k \in 1..(n - i) /\ k + 1 \in 1..(n - i)
      BY <1>1
    <3> QED
      BY <1>2, <1>5, <3>1
  <2>4. (rest = <<>> \/ rest[Len(rest)].fin) <=> (l = <<>> \/ l[n].fin)
    <3>1. l # <<>>
      BY <1>1
    <3>2. CASE n = i
      BY <1>1, <1>2, <3>1, <3>2
    <3>3. CASE n # i
      <4> HIDE DEF n
      <4>1. n - i \in 1..(n - i) /\ (n - i) + i = n /\ n - i # 0
        BY <1>1, <3>3
      <4> QED
        BY <1>2, <3>1, <4>1
    <3> QED
      BY <3>2, <3>3
  <2> QED
    BY <1>2, <2>1, <2>2, <2>3, <2>4 DEF Line, n
<1>9. ASSUME NEW x \in Numbers(rest) PROVE x \in Numbers(l) /\ l[1].n < x
  <2>1. PICK k \in 1..(n - i) : x = rest[k].n
    BY <1>2 DEF Numbers
  <2>2. k + i \in DOMAIN l /\ 1 < k + i /\ rest[k] = l[k + i]
    BY <1>1, <1>2, <2>1
  <2> QED
    BY <1>3, <1>4, <2>1, <2>2 DEF Numbers
<1>10. Messages(l) = {l[1].n} \cup Messages(rest)
  <2>1. ASSUME NEW x \in Messages(l), x # l[1].n PROVE x \in Messages(rest)
    <3>1. PICK k \in DOMAIN l, j \in Fins(l) : x = l[k].n /\ l[k].starts /\ j >= k
      BY DEF Messages
    <3>2. k \in 1..n /\ k # 1
      BY <1>1, <2>1, <3>1
    <3>3. ~(k <= i)
      BY <1>1, <1>7, <3>1, <3>2
    <3>4. j \in 1..n /\ l[j].fin
      BY <1>1, <3>1 DEF Fins
    <3>5. /\ k - i \in 1..(n - i) /\ (k - i) + i = k /\ j - i \in 1..(n - i) /\ (j - i) + i = j
          /\ j - i >= k - i
      BY <1>1, <3>1, <3>2, <3>3, <3>4
    <3>6. rest[k - i] = l[k] /\ rest[j - i] = l[j]
      BY <1>2, <3>5
    <3> QED
      BY <1>2, <3>1, <3>4, <3>5, <3>6 DEF Messages, Fins
  <2>2. l[1].n \in Messages(l)
    BY <1>1, <1>4 DEF Messages, Fins
  <2>3. ASSUME NEW x \in Messages(rest) PROVE x \in Messages(l)
    <3>1. PICK k \in DOMAIN rest, j \in Fins(rest) : x = rest[k].n /\ rest[k].starts /\ j >= k
      BY DEF Messages
    <3>2. k \in 1..(n - i) /\ j \in 1..(n - i) /\ rest[j].fin
      BY <1>2, <3>1 DEF Fins
    <3>3. k + i \in 1..n /\ j + i \in 1..n /\ j + i >= k + i /\ rest[k] = l[k + i] /\ rest[j] = l[j + i]
      BY <1>1, <1>2, <3>1, <3>2
    <3> QED
      BY <1>1, <3>1, <3>2, <3>3 DEF Messages, Fins
  <2> QED
    BY <2>1, <2>2, <2>3
<1> QED
  BY <1>4, <1>8, <1>9, <1>10 DEF rest, n, Numbers

\* Data frames alone move the parser from message to message.
Calm(q, r) == r.parser = "frames" => q.parser = "frames" /\ r.current = q.current

LEMMA CalmAlike ==
  ASSUME NEW q, NEW r, Alike(q, r)
  PROVE  Calm(q, r) /\ NotByItself(q, r)
BY DEF Alike, Calm, NotByItself

LEMMA CalmLine ==
  ASSUME NEW q, NEW r, NEW s, Line(q, s), Calm(q, r)
  PROVE  Line(r, s)
BY DEF Line, Calm

LEMMA Associates ==
  ASSUME NEW S, NEW a \in Seq(S), NEW b \in Seq(S), NEW c \in Seq(S)
  PROVE  a \o (b \o c) = (a \o b) \o c
<1> DEFINE x == a \o (b \o c)
<1> DEFINE y == (a \o b) \o c
<1> DEFINE m == Len(a)
<1> DEFINE n == Len(b)
<1> DEFINE k == Len(c)
<1>1. m \in Nat /\ n \in Nat /\ k \in Nat /\ a \o b \in Seq(S) /\ b \o c \in Seq(S)
  OBVIOUS
<1>2. Len(a \o b) = m + n /\ Len(b \o c) = n + k
  OBVIOUS
<1>3. x \in Seq(S) /\ y \in Seq(S) /\ Len(x) = m + (n + k) /\ Len(y) = (m + n) + k
  BY <1>1, <1>2
<1>4. ASSUME NEW i \in 1..Len(x) PROVE x[i] = y[i]
  BY <1>1, <1>2, <1>3
<1> QED
  BY SMTT(20), <1>1, <1>3, <1>4, SeqEqual

=============================================================================
