------------------------------- MODULE MCOta -------------------------------
(* Instances of Ota for TLC. *)
EXTENDS Ota
=============================================================================
