-------------------------- MODULE InviteTransaction --------------------------
(* The INVITE transaction of belle-sip: the client state machine of ict.c,   *)
(* the server one of ist.c, what transaction.c does around them, and the     *)
(* network between them. Timers are armed and fire in any order; messages    *)
(* are delivered in any order and, unless the transport is reliable, may be  *)
(* lost or delivered more than once.                                         *)
EXTENDS Naturals

CONSTANTS
  Reliable,         \* belle_sip_channel_is_reliable: TCP or TLS
  Codes,            \* the status codes of the responses
  MaxCalls          \* bound: server transactions made for the one INVITE

ASSUME InviteAssumption ==
  /\ Reliable \in BOOLEAN
  /\ Codes \subseteq 100..699
  /\ 100 \in Codes
  /\ MaxCalls \in Nat \ {0}

VARIABLES
  chan,             \* the client's channel
  cst,              \* state of the client transaction
  ctimers,          \* its armed timers, among A, B, D and M
  told,             \* the last thing its listener was told
  endings,          \* how many failures its listener was told
  up,               \* requests in flight to the server
  down,             \* responses in flight to the client
  calls,            \* server transactions created so far
  sst,              \* state of the server transaction
  stimers,          \* its armed timers, among G, H, I and L
  last,             \* its last_response
  answers           \* final codes the server's user has sent

clientVars  == <<chan, cst, ctimers, told, endings>>
serverVars  == <<calls, sst, stimers, last, answers>>
vars == <<clientVars, up, down, serverVars>>

NotTold  == 0
TimedOut == 1
IoError  == 2

Provisional(c) == c \in 100..199
Success(c)     == c \in 200..299
Failure(c)     == c \in 300..699

Requests  == {"INVITE", "ACK"}
Responses == [code : Codes, call : 1..MaxCalls]
\* Mutant: a repeated response is taken for one of the next call.
ResponseOfNext(c) == [code |-> c, call |-> calls + 1]

Response(c) == [code |-> c, call |-> calls]

\* What is left in flight when m has been delivered.
AfterDelivery(net, m) == {net \ {m}} \cup (IF Reliable THEN {} ELSE {net})

Init ==
  /\ chan = "NONE"
  /\ cst = "INIT"
  /\ ctimers = {}
  /\ told = NotTold
  /\ endings = 0
  /\ up = {}
  /\ down = {}
  /\ calls = 0
  /\ sst = "NONE"
  /\ stimers = {}
  /\ last = 0
  /\ answers = {}
------------------------------------------------------------------------------
(* The client transaction. *)

\* Mutant: an unreliable transport is given no timer B.
IctSendRequestA ==
  /\ cst' = "CALLING"
  /\ ctimers' = {IF Reliable THEN "B" ELSE "A"}
  /\ up' = up \cup {"INVITE"}

IctSendRequest ==
  /\ cst' = "CALLING"
  /\ ctimers' = {"B"} \cup (IF Reliable THEN {} ELSE {"A"})
  /\ up' = up \cup {"INVITE"}

ClientTerminate ==
  /\ cst' = "TERMINATED"
  /\ ctimers' = {}

\* belle_sip_client_transaction_send_request_to: the channel is ready, has
\* yet to be prepared, or cannot be made.
SendRequest ==
  /\ cst = "INIT"
  /\ chan = "NONE"
  /\ \/ chan' = "READY" /\ IctSendRequest
     \/ chan' = "CONNECTING" /\ UNCHANGED <<cst, ctimers, up>>
     \/ ClientTerminate /\ UNCHANGED <<chan, up>>
  /\ UNCHANGED <<told, endings, down, serverVars>>

ChannelReady ==
  /\ chan = "CONNECTING"
  /\ cst = "INIT"
  /\ chan' = "READY"
  /\ IctSendRequest
  /\ UNCHANGED <<told, endings, down, serverVars>>

\* on_channel_state_changed with DISCONNECTED or ERROR.
ChannelError ==
  /\ chan \in {"CONNECTING", "READY"}
  /\ chan' = "ERROR"
  /\ IF cst \in {"COMPLETED", "ACCEPTED", "TERMINATED"}
       THEN UNCHANGED <<told, endings>>
       ELSE told' = IoError /\ endings' = endings + 1
  /\ ClientTerminate
  /\ UNCHANGED <<up, down, serverVars>>

\* ict_on_response, in CALLING and PROCEEDING.
ReceiveProvisional(c) ==
  /\ cst \in {"CALLING", "PROCEEDING"}
  /\ Provisional(c)
  /\ cst' = "PROCEEDING"
  /\ told' = c
  /\ UNCHANGED <<ctimers, endings, up>>

ReceiveSuccess(c) ==
  /\ cst \in {"CALLING", "PROCEEDING"}
  /\ Success(c)
  /\ cst' = "ACCEPTED"
  /\ ctimers' = ctimers \cup {"M"}
  /\ told' = c
  /\ UNCHANGED <<endings, up>>

ReceiveFailure(c) ==
  /\ cst \in {"CALLING", "PROCEEDING"}
  /\ Failure(c)
  /\ cst' = "COMPLETED"
  /\ up' = up \cup {"ACK"}
  /\ told' = c
  /\ endings' = endings + 1
  /\ ctimers' = ctimers \cup {"D"}

\* Mutant: a failure is acknowledged in any state that is over.
ReceiveLateAck(c) ==
  /\ cst \in {"ACCEPTED", "COMPLETED", "TERMINATED"}
  /\ IF Failure(c) THEN up' = up \cup {"ACK"} ELSE UNCHANGED up
  /\ UNCHANGED <<cst, ctimers, told, endings>>

\* ict_on_response once a final response is there: a 2xx is passed on, an
\* error is acknowledged again, anything else is dropped.
ReceiveLate(c) ==
  \/ /\ cst = "ACCEPTED"
     /\ Success(c)
     /\ told' = c
     /\ UNCHANGED <<cst, ctimers, endings, up>>
  \/ /\ cst = "COMPLETED"
     /\ Failure(c)
     /\ up' = up \cup {"ACK"}
     /\ UNCHANGED <<cst, ctimers, told, endings>>
  \/ /\ \/ cst = "ACCEPTED" /\ ~Success(c)
        \/ cst = "COMPLETED" /\ ~Failure(c)
        \/ cst = "TERMINATED"
     /\ UNCHANGED <<cst, ctimers, told, endings, up>>

ReceiveResponse(r) ==
  /\ r \in down
  /\ down' \in AfterDelivery(down, r)
  /\ \/ ReceiveProvisional(r.code)
     \/ ReceiveSuccess(r.code)
     \/ ReceiveFailure(r.code)
     \/ ReceiveLate(r.code)
  /\ UNCHANGED <<chan, serverVars>>

\* ict_on_timer_A: the timer stays armed and does nothing out of CALLING.
TimerA ==
  /\ "A" \in ctimers
  /\ cst = "CALLING"
  /\ up' = up \cup {"INVITE"}
  /\ UNCHANGED <<clientVars, down, serverVars>>

\* Mutant: the time-out is reported whatever has been received.
TimerBAnyState ==
  /\ "B" \in ctimers
  /\ told' = TimedOut
  /\ endings' = endings + 1
  /\ ClientTerminate
  /\ UNCHANGED <<chan, up, down, serverVars>>

\* Mutant: a caller that knows of a provisional response times out as well.
TimerBProceeding ==
  /\ "B" \in ctimers
  /\ \/ /\ cst \in {"CALLING", "PROCEEDING"}
        /\ told' = TimedOut
        /\ endings' = endings + 1
        /\ ClientTerminate
     \/ /\ cst \notin {"CALLING", "PROCEEDING"}
        /\ ctimers' = ctimers \ {"B"}
        /\ UNCHANGED <<cst, told, endings>>
  /\ UNCHANGED <<chan, up, down, serverVars>>

\* ict_on_timer_B, and belle_sip_transaction_notify_timeout for a method
\* other than REGISTER.
TimerB ==
  /\ "B" \in ctimers
  /\ \/ /\ cst = "CALLING"
        /\ told' = TimedOut
        /\ endings' = endings + 1
        /\ ClientTerminate
     \/ /\ cst # "CALLING"
        /\ ctimers' = ctimers \ {"B"}
        /\ UNCHANGED <<cst, told, endings>>
  /\ UNCHANGED <<chan, up, down, serverVars>>

TimerD ==
  /\ "D" \in ctimers
  /\ cst = "COMPLETED"
  /\ ClientTerminate
  /\ UNCHANGED <<chan, told, endings, up, down, serverVars>>

TimerM ==
  /\ "M" \in ctimers
  /\ cst = "ACCEPTED"
  /\ ClientTerminate
  /\ UNCHANGED <<chan, told, endings, up, down, serverVars>>
------------------------------------------------------------------------------
(* The server transaction. *)

\* belle_sip_provider_dispatch_request with an INVITE. No live transaction
\* has its branch: the listener makes one, and belle_sip_ist_new answers 100.
\* Otherwise ist_on_request_retransmission.
ReceiveInvite ==
  /\ "INVITE" \in up
  /\ up' \in AfterDelivery(up, "INVITE")
  /\ \/ /\ sst \in {"NONE", "TERMINATED"}
        /\ calls < MaxCalls
        /\ calls' = calls + 1
        /\ sst' = "PROCEEDING"
        /\ last' = 100
        /\ down' = down \cup {[code |-> 100, call |-> calls + 1]}
        /\ UNCHANGED <<stimers, answers>>
     \/ /\ sst \in {"PROCEEDING", "COMPLETED"}
        /\ down' = down \cup {Response(last)}
        /\ UNCHANGED serverVars
     \/ /\ sst \in {"CONFIRMED", "ACCEPTED"}
        /\ UNCHANGED <<down, serverVars>>
  /\ UNCHANGED clientVars

\* Mutant: the ACK clears the timers and starts none.
ReceiveAckNoTimerI ==
  /\ "ACK" \in up
  /\ up' \in AfterDelivery(up, "ACK")
  /\ IF sst = "COMPLETED"
       THEN sst' = "CONFIRMED" /\ stimers' = {}
       ELSE UNCHANGED <<sst, stimers>>
  /\ UNCHANGED <<clientVars, down, calls, last, answers>>

\* belle_sip_ist_process_ack.
ReceiveAck ==
  /\ "ACK" \in up
  /\ up' \in AfterDelivery(up, "ACK")
  /\ \/ /\ sst = "COMPLETED"
        /\ ~Reliable
        /\ sst' = "CONFIRMED"
        /\ stimers' = (stimers \ {"G"}) \cup {"I"}
     \/ /\ sst = "COMPLETED"
        /\ Reliable
        /\ sst' = "TERMINATED"
        /\ stimers' = {}
     \/ /\ sst # "COMPLETED"
        /\ UNCHANGED <<sst, stimers>>
  /\ UNCHANGED <<clientVars, down, calls, last, answers>>

\* belle_sip_server_transaction_send_response by the server's user, where
\* ist_send_new_response lets it: any response in PROCEEDING, and in ACCEPTED
\* a 2xx, which becomes last_response and is not queued on the channel.
SendResponse(c) ==
  /\ \/ /\ sst = "PROCEEDING"
        /\ down' = down \cup {Response(c)}
        /\ \/ /\ Provisional(c)
              /\ UNCHANGED <<sst, stimers, answers>>
           \/ /\ Success(c)
              /\ sst' = "ACCEPTED"
              /\ stimers' = {"L"}
              /\ answers' = answers \cup {c}
           \/ /\ Failure(c)
              /\ sst' = "COMPLETED"
              /\ stimers' = {"H"} \cup (IF Reliable THEN {} ELSE {"G"})
              /\ answers' = answers \cup {c}
     \/ /\ sst = "ACCEPTED"
        /\ Success(c)
        /\ UNCHANGED <<down, sst, stimers, answers>>
  /\ last' = c
  /\ UNCHANGED <<clientVars, up, calls>>

\* ist_on_timer_G.
TimerG ==
  /\ "G" \in stimers
  /\ sst = "COMPLETED"
  /\ down' = down \cup {Response(last)}
  /\ UNCHANGED <<clientVars, up, serverVars>>

ServerTerminate ==
  /\ sst' = "TERMINATED"
  /\ stimers' = {}

\* ist_on_timer_H: armed with the answer and left armed by the ACK.
TimerH ==
  /\ "H" \in stimers
  /\ \/ sst = "COMPLETED" /\ ServerTerminate
     \/ sst # "COMPLETED" /\ stimers' = stimers \ {"H"} /\ UNCHANGED sst
  /\ UNCHANGED <<clientVars, up, down, calls, last, answers>>

\* ist_on_timer_I and ist_on_timer_L.
TimerIL ==
  /\ stimers \cap {"I", "L"} # {}
  /\ ServerTerminate
  /\ UNCHANGED <<clientVars, up, down, calls, last, answers>>
------------------------------------------------------------------------------
\* An unreliable network loses messages.
Lose ==
  /\ ~Reliable
  /\ \/ \E m \in up : up' = up \ {m} /\ UNCHANGED down
     \/ \E r \in down : down' = down \ {r} /\ UNCHANGED up
  /\ UNCHANGED <<clientVars, serverVars>>

ClientTimer == TimerA \/ TimerB \/ TimerD \/ TimerM
ServerTimer == TimerG \/ TimerH \/ TimerIL

Next ==
  \/ SendRequest
  \/ ChannelReady
  \/ ChannelError
  \/ \E r \in Responses : ReceiveResponse(r)
  \/ ClientTimer
  \/ ReceiveInvite
  \/ ReceiveAck
  \/ \E c \in Codes : SendResponse(c)
  \/ ServerTimer
  \/ Lose

Spec == Init /\ [][Next]_vars

\* The main loop fires every timer that expires and a reliable transport
\* delivers: nothing is asked of an unreliable one, nor of the two users.
Fairness ==
  /\ WF_vars(TimerB)
  /\ WF_vars(TimerD)
  /\ WF_vars(TimerM)
  /\ WF_vars(TimerH)
  /\ WF_vars(TimerIL)
  /\ Reliable => /\ \A r \in Responses : WF_vars(ReceiveResponse(r))
                 /\ WF_vars(ReceiveInvite)
                 /\ WF_vars(ReceiveAck)

FairSpec == Spec /\ Fairness
------------------------------------------------------------------------------
(* Properties. *)

\* Types: every variable keeps to its states, timers, codes and messages.
TypeOK ==
  /\ chan \in {"NONE", "CONNECTING", "READY", "ERROR"}
  /\ cst \in {"INIT", "CALLING", "PROCEEDING", "COMPLETED", "ACCEPTED", "TERMINATED"}
  /\ ctimers \subseteq {"A", "B", "D", "M"}
  /\ told \in Codes \cup {NotTold, TimedOut, IoError}
  /\ endings \in Nat
  /\ up \subseteq Requests
  /\ down \subseteq Responses
  /\ calls \in 0..MaxCalls
  /\ sst \in {"NONE", "PROCEEDING", "COMPLETED", "CONFIRMED", "ACCEPTED", "TERMINATED"}
  /\ stimers \subseteq {"G", "H", "I", "L"}
  /\ last \in Codes \cup {0}
  /\ answers \subseteq Codes

\* The caller's listener is told one ending at most, whatever is repeated,
\* lost or late: a failure, a time-out or a dead channel, and none of them
\* once it was told a success (ict_on_response, ict_on_timer_B,
\* on_channel_state_changed).
OneEnding ==
  /\ endings <= 1
  /\ Success(told) => endings = 0

\* A server transaction takes an ACK only if the caller was told a failure:
\* nothing but a failure is acknowledged by the transaction itself
\* (belle_sip_ist_process_ack, make_ack).
AckMeansFailure == sst = "CONFIRMED" => Failure(told)

\* An answered server transaction has the timer armed that ends it, also
\* after the ACK stopped timer G (H, then I; L after a 2xx).
AnsweredHasTimer ==
  /\ sst = "COMPLETED" => "H" \in stimers
  /\ sst = "CONFIRMED" => "I" \in stimers
  /\ sst = "ACCEPTED" => "L" \in stimers

\* The INVITE transaction does what its users are promised.
Outcome == INSTANCE InviteOutcome
OutcomeSpec == Outcome!Spec

\* Whatever the network does, an answered server transaction ends.
AnsweredEnds == sst \in {"COMPLETED", "CONFIRMED", "ACCEPTED"} ~> sst = "TERMINATED"

\* Whatever the network does, a caller whose request was sent hears of it
\* (a response, the time-out of timer B, or the channel's error).
CallingEnds == cst = "CALLING" ~> told # NotTold
==============================================================================
