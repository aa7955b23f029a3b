----------------------------- MODULE MCAsyncSession ----------------------------
(***************************************************************************)
(* Instances of AsyncSession: families of scenarios, one per question.     *)
(***************************************************************************)
EXTENDS AsyncSession

Plain  == [secure |-> FALSE, origin |-> "a"]
Secure == [secure |-> TRUE, origin |-> "a"]
Other  == [secure |-> TRUE, origin |-> "b"]
MCUris == {Plain, Secure, Other}

Nowhere == [u \in MCUris |-> NoUri]

Scenario(start, moved, awaits, trouble, keep, bound, f, s) ==
  [start |-> start, moved |-> moved, awaits |-> awaits, trouble |-> trouble, keep |-> keep,
   detaches |-> ~keep, bound |-> bound, faults |-> f, servers |-> s]

\* Closing: the server stops while connections open, run and close.
Closing == {Scenario(Plain, Nowhere, awaits, {}, FALSE, "none", 1, 1) :
              awaits \in {{}, {"request"}, {"request", "response"}}}
           \cup {Scenario(Plain, Nowhere, {"response"}, {"raise"}, TRUE, "none", 1, 1)}

\* Reconnecting: the network cuts and stalls, the server restarts.
Reconnecting == {Scenario(Plain, Nowhere, {}, {"raise"}, FALSE, "none", 2, 0),
                 Scenario(Plain, Nowhere, {}, {}, FALSE, "none", 1, 2)}

\* Redirecting: to TLS, across origins, back to no TLS, in a circle.
Redirecting ==
  {Scenario(Plain, [Nowhere EXCEPT ![Plain] = Secure, ![Secure] = Other], {}, {"refuse"},
            FALSE, bound, 0, 0) : bound \in {"none", "sock", "unix", "host"}}
  \cup {Scenario(Other, [Nowhere EXCEPT ![Other] = u], {}, {}, FALSE, "none", 0, 0) :
          u \in {Plain, Secure, Other}}

MCSetups == Closing \cup Reconnecting \cup Redirecting
================================================================================
