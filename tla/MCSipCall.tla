------------------------------ MODULE MCSipCall ------------------------------
(* Instances of SipCall for TLC. *)
EXTENDS SipCall
==============================================================================
