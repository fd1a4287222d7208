--------------------------- MODULE MCDependencies ---------------------------
(* Bounded instances of Dependencies for TLC. *)
EXTENDS Dependencies
=============================================================================
