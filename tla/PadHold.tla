------------------------------ MODULE PadHold ------------------------------
(***************************************************************************)
(* What a pad promises about its owner.  A free pad is claimed by a side;  *)
(* after that it always has an owner.  The owner changes only by way of a  *)
(* contest, which keeps the owner until it is resolved for one side, the   *)
(* old owner included.  If OwnerOps, the owner himself or the host may     *)
(* hand the pad over as well.                                              *)
(***************************************************************************)
CONSTANTS Sides, NoOwner, OwnerOps

VARIABLES owner, contested

vars == <<owner, contested>>

Init == owner = NoOwner /\ contested = FALSE

ClaimFree ==
  /\ owner = NoOwner
  /\ owner' \in Sides
  /\ UNCHANGED contested

OpenContest ==
  /\ owner \in Sides
  /\ ~contested
  /\ contested' = TRUE
  /\ UNCHANGED owner

Resolve ==
  /\ contested
  /\ contested' = FALSE
  /\ owner' \in Sides

HandOver ==
  /\ OwnerOps
  /\ owner' \in Sides
  /\ contested' \in BOOLEAN
  /\ contested' => owner \in {owner', NoOwner}

Next == ClaimFree \/ OpenContest \/ Resolve \/ HandOver

Spec == Init /\ [][Next]_vars
=============================================================================
