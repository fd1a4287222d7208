--------------------------- MODULE MCServiceTable ---------------------------
(* Bounded instances of ServiceTable for TLC. *)
EXTENDS ServiceTable
=============================================================================
