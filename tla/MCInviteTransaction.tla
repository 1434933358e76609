-------------------------- MODULE MCInviteTransaction --------------------------
(* Instances of InviteTransaction for TLC. *)
EXTENDS InviteTransaction
================================================================================
