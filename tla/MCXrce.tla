-------------------------------- MODULE MCXrce --------------------------------
(* Model-checking instances of XrceProvider. *)
EXTENDS XrceProvider, TLC

Symmetry == Permutations(Schemas)
=============================================================================
