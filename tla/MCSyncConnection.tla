--------------------------- MODULE MCSyncConnection ---------------------------
(***************************************************************************)
(* Instances of SyncConnection: families of scenarios, one per question.   *)
(***************************************************************************)
EXTENDS SyncConnection

Scenario(side, ops, calls, reads, pieces, clogs, n) ==
  [side |-> side, high |-> 1, low |-> 0, chunk |-> 2, ops |-> ops,
   pieces |-> [s \in Senders |-> IF s \in pieces THEN 1 ELSE 0], calls |-> calls,
   reads |-> reads, clogs |-> clogs, load |-> n]

\* Reading: messages in fragments, recv() with a timeout, recv_streaming(),
\* flow control.
Reading == {Scenario("server", {"msg", "first", "last"}, {Reader}, {"recv", "timed"}, {}, FALSE, 4),
            Scenario("server", {"junk", "first", "last"}, {Reader}, {"timed", "iter"}, {}, FALSE, 4),
            Scenario("client", {"msg", "close", "eof"}, {Reader, "c1"}, {"recv"}, {}, FALSE, 4)}

\* Writing: two senders, a close, writes that block.
Writing == {Scenario("client", {"close", "reset"}, {"s1", "s2", "c1"}, {}, {"s1"}, TRUE, 3),
            Scenario("server", {"ping"}, {"s1", "s2", "c1"}, {}, {"s1", "s2"}, FALSE, 3)}

\* Closing: keepalive, close(), the peer's close and failures.
Closing == {Scenario("server", {"pong", "close", "reset"}, {"c1", Keeper}, {}, {}, FALSE, 3),
            Scenario("client", {"pong", "bad"}, {"c1", Keeper}, {}, {}, TRUE, 3)}

MCConfigs == Reading \cup Writing \cup Closing
================================================================================
