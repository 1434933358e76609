------------------------------- MODULE MCZrtp -------------------------------
(* Zrtp for TLC: model values for the endpoints, see the configurations.   *)
EXTENDS Zrtp
=============================================================================
