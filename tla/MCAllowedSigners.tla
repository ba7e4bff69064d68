-------------------------- MODULE MCAllowedSigners --------------------------
(* Model-checking instance of AllowedSigners. *)
EXTENDS AllowedSigners, TLC

\* Handler tasks and identities are interchangeable model values.
Symmetry == Permutations(Proc) \cup Permutations(Identity)
=============================================================================
