------------------------------ MODULE PeerStream ------------------------------
(***************************************************************************)
(* What a peer puts into a connection after the opening handshake, without *)
(* compression, and what the two connections of the library, asyncio and   *)
(* threads, make of it: the protocol is fed, the data frames are queued.   *)
(***************************************************************************)
EXTENDS WsProtocol, FiniteSets

(* What the peer does: "msg" is a message in one frame, "junk" one that is  *)
(* not UTF-8, "first" and "last" the two fragments of one.  Things are      *)
(* numbered.                                                                *)
PeerOps == {"msg", "junk", "first", "last", "ping", "pong", "close", "bad", "eof"}

PeerFrame(op) ==
  CASE op \in {"msg", "junk"} -> Frame("text", TRUE, 0, NoCode, FALSE, 0, 0)
    [] op = "first" -> Frame("text", FALSE, 0, NoCode, FALSE, 0, 0)
    [] op = "last"  -> Frame("cont", TRUE, 0, NoCode, FALSE, 0, 0)
    [] op = "ping"  -> Ping(0)
    [] op = "pong"  -> Pong(0)
    [] op = "close" -> Close(1000)
    [] op \in {"bad", "eof"} -> Control("bad", 0, NoCode)
Item(op, n) == [op |-> op, n |-> n, f |-> PeerFrame(op)]

IsData(item) == item.f.kind \in {"text", "cont"}
Queued(item) == [n |-> item.n, starts |-> item.f.kind = "text", fin |-> item.f.fin,
                 utf8 |-> item.op # "junk"]

\* Protocol.receive_data of one frame, and the event it leaves; data are the
\* frames among the events, as process_event() queues them.
Feed(r, item) ==
  IF r.p.parser = "discard" THEN r
  ELSE LET q == ReceiveFrame(r.p, item.f)
       IN  IF q.parserExc # NoCode THEN [r EXCEPT !.p = q]
           ELSE [p |-> q, events |-> Append(r.events, item),
                 data |-> IF IsData(item) THEN Append(r.data, Queued(item)) ELSE r.data]

\* receive_data and events_received of several frames.
Fed(q, items) ==
  LET fed[k \in 0..Len(items)] ==
        IF k = 0 THEN [p |-> q, events |-> <<>>, data |-> <<>>] ELSE Feed(fed[k - 1], items[k])
  IN  fed[Len(items)]

\* receive_eof, which is idempotent.
EofOnce(q) == IF q.state = "CLOSED" THEN q ELSE ReceiveEof(q)

Written(q) == [q EXCEPT !.writes = <<>>]
HasFrame(q) == \E i \in DOMAIN q.writes : q.writes[i] # Eof
HasEof(q) == \E i \in DOMAIN q.writes : q.writes[i] = Eof

\* The messages that are complete in a sequence of queued frames.
Fins(frames) == {i \in DOMAIN frames : frames[i].fin}
Messages(frames) ==
  {frames[i].n : i \in {k \in DOMAIN frames : frames[k].starts /\ \E j \in Fins(frames) : j >= k}}

\* acknowledge_pings(): a pong acknowledges every ping up to its own.
Acknowledge(pings, ids) ==
  [i \in DOMAIN pings |->
     IF pings[i] = "pending" /\ \E j \in ids : pings[j] = "pending" /\ j >= i
     THEN "done" ELSE pings[i]]
================================================================================
