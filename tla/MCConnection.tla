----------------------------- MODULE MCConnection ------------------------------
(***************************************************************************)
(* Instances of Connection: families of scenarios, one per question.       *)
(***************************************************************************)
EXTENDS Connection

Scenario(side, ops, calls, pieces, mayPause, cancels, n) ==
  [side |-> side, canEof |-> side = "client", high |-> 1, low |-> 0, chunk |-> 2, ops |-> ops,
   pieces |-> [s \in Senders |-> IF s \in pieces THEN 1 ELSE 0], calls |-> calls,
   mayPause |-> mayPause, cancels |-> cancels, load |-> n]

\* Reading: messages in fragments, cancelled calls, flow control; then the
\* end of the stream and a message that is not text.
Reading == {Scenario("server", {"msg", "first", "last"}, {Reader}, {}, FALSE, TRUE, 6),
            Scenario("server", {"msg", "junk", "close", "eof"}, {Reader}, {}, FALSE, TRUE, 4)}

\* Writing: two senders, a broadcast, a full buffer, a close.
Writing == {Scenario("client", {"close"}, {"s1", "s2", "c1", "broadcast"}, {"s1"}, TRUE, TRUE, 5),
            Scenario("server", {"close"}, {"s1", "s2", "c1"}, {"s1", "s2"}, FALSE, TRUE, 5)}

\* Closing: keepalive, close(), the peer's close and failures.
Closing == {Scenario(side, {"ping", "pong", "close", "bad", "eof"}, {Reader, "c1", Keeper},
                     {}, pause, FALSE, 3) : side \in {"client", "server"}, pause \in BOOLEAN}
           \cup {Scenario(side, {"msg", "close", "eof"}, {Reader, "c1", "s2"},
                     {}, pause, FALSE, 3) : side \in {"client", "server"}, pause \in BOOLEAN}

MCConfigs == Reading \cup Writing \cup Closing

================================================================================
