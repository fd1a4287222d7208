---------------------------- MODULE MCContainer ----------------------------
(* Bounded instances of Container for TLC. *)
EXTENDS Container
============================================================================
