---------------------------- MODULE MessageStream ----------------------------
(***************************************************************************)
(* What recv() promises its caller, whichever implementation of the        *)
(* library runs below it: the complete messages of the peer, each once, in *)
(* the order they were sent; after the end of the stream nothing arrives   *)
(* any more but what arrived before can still be taken.  Messages are the  *)
(* positions of their frames in the peer's stream.                         *)
(***************************************************************************)
EXTENDS Naturals, Sequences

CONSTANT Msgs   \* positions: numbers

VARIABLES arrived,  \* the complete messages that arrived
          taken,    \* those recv() returned, in order
          ended     \* no message will arrive any more

vars == <<arrived, taken, ended>>

Init == arrived = {} /\ taken = <<>> /\ ended = FALSE

\* One or several messages arrive, after all those that arrived before.
Arrive ==
  /\ ~ended
  /\ arrived' \in SUBSET Msgs /\ arrived \subseteq arrived' /\ arrived # arrived'
  /\ \A m \in arrived, n \in arrived' \ arrived : m < n
  /\ UNCHANGED <<taken, ended>>

\* recv() returns the first of those it did not return before.
Waiting == {m \in arrived : \A i \in DOMAIN taken : m # taken[i]}

Take ==
  /\ \E m \in Waiting : taken' = Append(taken, m) /\ \A n \in Waiting : m <= n
  /\ UNCHANGED <<arrived, ended>>

End == ~ended /\ ended' = TRUE /\ UNCHANGED <<arrived, taken>>

Next == Take \/ End \/ Arrive

Spec == Init /\ [][Next]_vars
=============================================================================
