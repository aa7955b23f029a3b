-------------------------- MODULE MCLegacyProtocol --------------------------
(* Instances of LegacyProtocol: families of scenarios, one per question.   *)
EXTENDS LegacyProtocol

Scenario(client, eof, ops, calls, pieces, pause, n) ==
  [client |-> client, eof |-> eof, ops |-> ops, calls |-> calls, pause |-> pause, load |-> n,
   pieces |-> [s \in Senders |-> IF s \in pieces THEN 1 ELSE 0]]

\* Reading: messages, fragments and what is wrong with them, a full queue.
Reading == {Scenario(FALSE, FALSE, {"msg", "first", "last", "bad"}, {"r1"}, {}, FALSE, 4)}

\* Writing: two senders, one of fragments, a broadcast, a full buffer, a close.
Writing == {Scenario(FALSE, FALSE, {}, {"s1", "s2", "broadcast"}, {"s1"}, TRUE, 3),
            Scenario(FALSE, FALSE, {"close"}, {"s1", "s2", "c1", "broadcast"}, {"s1"}, FALSE, 3)}

\* Watching: the keepalive against close(), on a buffer that fills.
Watching == {Scenario(TRUE, TRUE, {"pong", "close"}, {"r1", "c1", "keepalive"}, {}, TRUE, 3)}

\* Closing: close() against the peer's close and failures.
Closing == {Scenario(client, client, {"ping", "close", "bad"}, {"c1"}, {}, TRUE, 3)
               : client \in BOOLEAN}
           \cup {Scenario(TRUE, TRUE, {"msg", "close"}, {"r1", "c1"}, {}, FALSE, 3)}

MCConfigs == Reading \cup Writing \cup Watching \cup Closing
=============================================================================
