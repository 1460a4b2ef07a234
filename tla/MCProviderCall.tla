--------------------------- MODULE MCProviderCall ---------------------------
(* Small instances of ProviderCall. *)
EXTENDS ProviderCall, TLC

Symmetry == Permutations(Calls)
=============================================================================
