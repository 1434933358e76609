---------------------------- MODULE InviteOutcome ----------------------------
(* What the two ends of an INVITE transaction of belle-sip promise to their  *)
(* users: the callee answers, the caller's listener is told at most one      *)
(* ending, and only an answer that the callee gave.                          *)
EXTENDS Naturals

CONSTANT Codes      \* the status codes the callee may send

VARIABLES
  answers,          \* the final codes the callee has answered with
  told              \* the last thing the caller's listener was told

vars == <<answers, told>>

NotTold  == 0
TimedOut == 1       \* process_timeout
IoError  == 2       \* process_io_error

Provisional(c) == c \in 100..199
Success(c)     == c \in 200..299
Failure(c)     == c \in 300..699

\* The caller still waits for an ending.
Waiting == told = NotTold \/ Provisional(told)

Init == answers = {} /\ told = NotTold

Answer(c) ==
  /\ Success(c) \/ Failure(c)
  /\ answers' = answers \cup {c}
  /\ UNCHANGED told

TellProvisional(c) ==
  /\ Waiting
  /\ Provisional(c)
  /\ told' = c
  /\ UNCHANGED answers

\* A 2xx may be told again: the dialog layer sorts out its retransmissions.
TellSuccess(c) ==
  /\ Waiting \/ Success(told)
  /\ Success(c)
  /\ c \in answers
  /\ told' = c
  /\ UNCHANGED answers

TellFailure(c) ==
  /\ Waiting
  /\ Failure(c)
  /\ c \in answers
  /\ told' = c
  /\ UNCHANGED answers

\* Only a caller that has heard nothing times out.
TellTimeout ==
  /\ told = NotTold
  /\ told' = TimedOut
  /\ UNCHANGED answers

TellIoError ==
  /\ Waiting
  /\ told' = IoError
  /\ UNCHANGED answers

Next ==
  \/ \E c \in Codes :
       \/ Answer(c)
       \/ TellProvisional(c)
       \/ TellSuccess(c)
       \/ TellFailure(c)
  \/ TellTimeout
  \/ TellIoError

Spec == Init /\ [][Next]_vars
==============================================================================
