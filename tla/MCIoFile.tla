------------------------------ MODULE MCIoFile ------------------------------
(* Bounded instances of IoFile for TLC. *)
EXTENDS IoFile
=============================================================================
