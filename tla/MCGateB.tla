------------------------------ MODULE MCGateB ------------------------------
(* Small instances of GateB. *)
EXTENDS GateB, TLC

Symmetry == Permutations(Pilots) \cup Permutations(Approvals)
=============================================================================
