---------------------------- MODULE FallibleStream ----------------------------
(***************************************************************************)
(* What the recv() of asyncio keeps of MessageStream when its callers may  *)
(* cancel it: it may fail, and then the message that it was fetching may   *)
(* be gone.  No message is lost in another way, none behind the caller's   *)
(* back, and none but the first of those that wait.                        *)
(***************************************************************************)
EXTENDS MessageStream

VARIABLE failed   \* recv() has failed and was not called again

fallibleVars == <<arrived, taken, ended, failed>>

FallibleInit == Init /\ failed = FALSE

\* recv() raises its error and drops the message it was fetching, if that one
\* was complete.
Fail ==
  /\ ~failed /\ failed' = TRUE
  /\ \/ arrived' = arrived
     \/ \E m \in Waiting : arrived' = arrived \ {m} /\ \A n \in Waiting : m <= n
  /\ UNCHANGED <<taken, ended>>

\* recv() is called again.
Retry == failed /\ failed' = FALSE /\ UNCHANGED <<arrived, taken, ended>>

FallibleNext ==
  \/ (Arrive \/ End) /\ UNCHANGED failed
  \/ Take /\ failed' = FALSE
  \/ Fail \/ Retry

FallibleSpec == FallibleInit /\ [][FallibleNext]_fallibleVars
=============================================================================
