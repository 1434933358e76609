---------------------------- MODULE KeyHandover ----------------------------
(***************************************************************************)
(* What the ZRTP exchange promises the media streams: one key, agreed      *)
(* before anybody uses it, and an order in which the two sides get the     *)
(* secrets to receive and to send, such that nothing is ever sent that the *)
(* peer cannot decrypt.                                                    *)
(***************************************************************************)
CONSTANTS Alice, Bob, None

VARIABLES
  key,   \* the agreed key, named by its initiator, or None
  rx,    \* the sides that hold the secrets to receive
  tx     \* the sides that hold the secrets to send

vars == <<key, rx, tx>>

Both == {Alice, Bob}
Responders == Both \ {key}

Init == key = None /\ rx = {} /\ tx = {}

Agree == key = None /\ key' \in Both /\ UNCHANGED <<rx, tx>>

\* The initiator listens before it confirms.
InitiatorListens ==
  key \in Both /\ rx = {} /\ rx' = {key} /\ UNCHANGED <<key, tx>>

\* The responder listens, and talks at once unless its answer failed.
ResponderConfirms ==
  rx = {key} /\ rx' = Both /\ tx' \in {{}, Responders} /\ UNCHANGED key

ResponderTalks ==
  rx = Both /\ tx = {} /\ tx' = Responders /\ UNCHANGED <<key, rx>>

\* The initiator talks only after the responder's acknowledgement.
InitiatorTalks ==
  rx = Both /\ tx = Responders /\ tx' = Both /\ UNCHANGED <<key, rx>>

Next == Agree \/ InitiatorListens \/ ResponderConfirms \/ ResponderTalks \/ InitiatorTalks

Spec == Init /\ [][Next]_vars
=============================================================================
