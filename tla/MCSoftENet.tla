----------------------------- MODULE MCSoftENet -----------------------------
(* Instances of SoftENet for TLC: clients and ports are interchangeable.   *)
EXTENDS SoftENet, TLC

Symmetry == Permutations(Clients) \cup Permutations(Ports)
=============================================================================
