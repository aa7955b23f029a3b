--------------------------- MODULE DailyAllowance ---------------------------
(***************************************************************************)
(* What the War Score ledger promises: on each calendar day a player earns *)
(* at most CAP, nothing earned is handed back before midnight, and         *)
(* midnight alone opens a new allowance, unless the record itself is lost, *)
(* in whole or in part, which `lost' counts.                               *)
(***************************************************************************)
EXTENDS Naturals

CONSTANT CAP

VARIABLES day, earned, lost

Init == day \in Nat /\ earned = 0 /\ lost = 0

Earn ==
  /\ \E amount \in 1..CAP : earned' = earned + amount
  /\ earned' <= CAP
  /\ UNCHANGED <<day, lost>>

NewDay == day' > day /\ earned' = 0 /\ UNCHANGED lost

\* Another record of the day, or none, takes its place.
Lose == lost' = lost + 1 /\ earned' \in 0..CAP /\ UNCHANGED day

Spec == Init /\ [][Earn \/ NewDay \/ Lose]_<<day, earned, lost>>
=============================================================================
