---------------------------- MODULE MCExecutable ----------------------------
(* Bounded instances of Executable for TLC. *)
EXTENDS Executable
=============================================================================
