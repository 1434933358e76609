------------------------------ MODULE CallView ------------------------------
(***************************************************************************)
(* What the users at the two ends of a call are shown: the states of their *)
(* LinphoneCall.  Nobody is shown a running call before it was answered,   *)
(* a call that is over stays over, and only such a call is released.       *)
(***************************************************************************)
VARIABLES
  caller,    \* what the caller is shown
  callee,    \* what the callee is shown
  answered   \* has the callee accepted the call?

vars == <<caller, callee, answered>>

Init == caller = "Idle" /\ callee = "Idle" /\ answered = FALSE

Call ==
  /\ caller = "Idle" /\ caller' = "Outgoing"
  /\ UNCHANGED <<callee, answered>>

Ring ==
  /\ caller # "Idle"
  /\ callee = "Idle" /\ callee' = "Incoming"
  /\ UNCHANGED <<caller, answered>>

Answer ==
  /\ callee = "Incoming" /\ callee' = "Running"
  /\ answered' = TRUE
  /\ UNCHANGED caller

Connect ==
  /\ answered
  /\ caller = "Outgoing" /\ caller' = "Running"
  /\ UNCHANGED <<callee, answered>>

\* A call that fails before it has a dialog is shown as failed and released
\* in one step.
CallerEnds ==
  /\ \/ caller = "Outgoing" /\ caller' \in {"End", "Error", "Released"}
     \/ caller = "Running" /\ caller' = "End"
     \/ caller \in {"End", "Error"} /\ caller' = "Released"
  /\ UNCHANGED <<callee, answered>>

CalleeEnds ==
  /\ \/ callee \in {"Incoming", "Running"} /\ callee' = "End"
     \/ callee = "End" /\ callee' = "Released"
  /\ UNCHANGED <<caller, answered>>

Next == Call \/ Ring \/ Answer \/ Connect \/ CallerEnds \/ CalleeEnds

Spec == Init /\ [][Next]_vars
=============================================================================
