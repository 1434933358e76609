----------------------- MODULE InviteTransactionProofs -----------------------
(***************************************************************************)
(* Machine-checked proofs about InviteTransaction, for both transports,    *)
(* any status codes and any number of calls.                               *)
(*                                                                         *)
(* The client's state says what its listener was told (ToldByState); an    *)
(* ACK in flight, or taken, says that the listener was told a failure      *)
(* (AckProvenance); a final response in flight was given by the callee     *)
(* (AnswerProvenance).                                                     *)
(***************************************************************************)
EXTENDS InviteTransaction, TLAPS

ToldByState ==
  /\ cst \in {"INIT", "CALLING"} => told = NotTold /\ endings = 0
  /\ cst = "PROCEEDING" => Provisional(told) /\ endings = 0
  /\ cst = "ACCEPTED" => Success(told) /\ endings = 0
  /\ cst = "COMPLETED" => Failure(told) /\ endings = 1
  /\ OneEnding

AckProvenance ==
  /\ "ACK" \in up => Failure(told)
  /\ AckMeansFailure

AnswerProvenance ==
  /\ \A r \in down : Provisional(r.code) \/ r.code \in answers
  /\ sst \in {"PROCEEDING", "COMPLETED"} => Provisional(last) \/ last \in answers
  /\ sst # "NONE" => calls \in 1..MaxCalls /\ last \in Codes
  /\ sst = "NONE" => stimers = {}

IInv ==
  /\ TypeOK
  /\ ToldByState
  /\ AckProvenance
  /\ AnswerProvenance
  /\ AnsweredHasTimer

USE DEF NotTold, TimedOut, IoError

\* A status code is one of three kinds, and of one only.
LEMMA CodeKinds ==
  ASSUME NEW c \in Codes
  PROVE  /\ c \in Nat \ {0, 1, 2}
         /\ Provisional(c) \/ Success(c) \/ Failure(c)
         /\ ~(Provisional(c) /\ Success(c))
         /\ ~(Provisional(c) /\ Failure(c))
         /\ ~(Success(c) /\ Failure(c))
  BY InviteAssumption DEF Provisional, Success, Failure

\* The notices that are no status code are of no kind.
LEMMA NoticeKinds ==
  \A n \in {NotTold, TimedOut, IoError} : ~Provisional(n) /\ ~Success(n) /\ ~Failure(n)
  BY DEF Provisional, Success, Failure

LEMMA Delivery ==
  ASSUME NEW net, NEW m, NEW rest \in AfterDelivery(net, m)
  PROVE  rest \subseteq net
  BY DEF AfterDelivery

-----------------------------------------------------------------------------
(* The client's steps: the server keeps what it has. *)

ClientStep ==
  \/ SendRequest
  \/ ChannelReady
  \/ ChannelError
  \/ \E r \in Responses : ReceiveResponse(r)
  \/ ClientTimer

ServerStep ==
  \/ ReceiveInvite
  \/ ReceiveAck
  \/ \E c \in Codes : SendResponse(c)
  \/ ServerTimer

\* What the client's listener is told once the client has got a failure stays.
LEMMA SendingStep ==
  ASSUME IInv, SendRequest \/ ChannelReady \/ ChannelError
  PROVE  TypeOK' /\ ToldByState' /\ AckProvenance'
<1> USE DEF IInv, TypeOK, ToldByState, AckProvenance, OneEnding, AckMeansFailure,
            serverVars, ClientTerminate, IctSendRequest, Requests
<1>1. CASE SendRequest
  BY <1>1 DEF SendRequest
<1>2. CASE ChannelReady
  BY <1>2 DEF ChannelReady
<1>3. CASE ChannelError
  <2>1. CASE cst \in {"COMPLETED", "ACCEPTED", "TERMINATED"}
    BY <1>3, <2>1 DEF ChannelError
  <2>2. CASE cst \in {"INIT", "CALLING", "PROCEEDING"}
    BY <1>3, <2>2, NoticeKinds, CodeKinds DEF ChannelError
  <2> QED BY <2>1, <2>2
<1> QED BY <1>1, <1>2, <1>3

LEMMA ResponseStep ==
  ASSUME IInv, NEW r \in Responses, ReceiveResponse(r)
  PROVE  TypeOK' /\ ToldByState' /\ AckProvenance'
<1> USE DEF IInv, TypeOK, ToldByState, AckProvenance, OneEnding, AckMeansFailure, serverVars,
            Requests
<1>1. r.code \in Codes /\ down' \subseteq down
  BY Delivery DEF Responses, ReceiveResponse
<1>2. UNCHANGED <<chan, serverVars>>
  BY DEF ReceiveResponse
<1>3. CASE ReceiveProvisional(r.code)
  BY <1>1, <1>2, <1>3, CodeKinds, NoticeKinds DEF ReceiveProvisional
<1>4. CASE ReceiveSuccess(r.code)
  BY <1>1, <1>2, <1>4, CodeKinds, NoticeKinds DEF ReceiveSuccess
<1>5. CASE ReceiveFailure(r.code)
  BY <1>1, <1>2, <1>5, CodeKinds, NoticeKinds DEF ReceiveFailure
<1>6. CASE ReceiveLate(r.code)
  BY <1>1, <1>2, <1>6, CodeKinds, NoticeKinds DEF ReceiveLate
<1> QED BY <1>3, <1>4, <1>5, <1>6 DEF ReceiveResponse

LEMMA ClientTimerStep ==
  ASSUME IInv, ClientTimer
  PROVE  TypeOK' /\ ToldByState' /\ AckProvenance'
<1> USE DEF IInv, TypeOK, ToldByState, AckProvenance, OneEnding, AckMeansFailure,
            serverVars, clientVars, ClientTerminate, Requests
<1>1. CASE TimerA
  BY <1>1 DEF TimerA
<1>2. CASE TimerB
  <2>1. CASE cst = "CALLING"
    BY <1>2, <2>1, NoticeKinds DEF TimerB
  <2>2. CASE cst # "CALLING"
    BY <1>2, <2>2 DEF TimerB
  <2> QED BY <2>1, <2>2
<1>3. CASE TimerD \/ TimerM
  BY <1>3 DEF TimerD, TimerM
<1> QED BY <1>1, <1>2, <1>3 DEF ClientTimer

\* A client's step only takes messages from the server out of the network.
LEMMA ClientKeepsServer ==
  ASSUME IInv, ClientStep
  PROVE  AnswerProvenance' /\ AnsweredHasTimer'
<1>1. down' \subseteq down /\ UNCHANGED serverVars
  <2>1. ASSUME NEW r \in Responses, ReceiveResponse(r)
        PROVE  down' \subseteq down /\ UNCHANGED serverVars
    BY <2>1, Delivery DEF ReceiveResponse
  <2>2. CASE SendRequest \/ ChannelReady \/ ChannelError \/ ClientTimer
    BY <2>2 DEF SendRequest, ChannelReady, ChannelError, ClientTimer, TimerA, TimerB, TimerD, TimerM
  <2> QED BY <2>1, <2>2 DEF ClientStep
<1> QED BY <1>1 DEF IInv, AnswerProvenance, AnsweredHasTimer, serverVars

-----------------------------------------------------------------------------
(* The server's steps: the client keeps what it has. *)

\* A response that the server repeats, or makes now, is well formed.
LEMMA ResponseType ==
  ASSUME IInv, NEW c \in Codes, sst # "NONE"
  PROVE  Response(c) \in Responses /\ Response(c).code = c
  BY DEF IInv, AnswerProvenance, Response, Responses

LEMMA InviteStep ==
  ASSUME IInv, ReceiveInvite
  PROVE  TypeOK' /\ AnswerProvenance' /\ AnsweredHasTimer' /\ AckMeansFailure'
<1> USE DEF IInv, TypeOK, AnswerProvenance, AnsweredHasTimer, AckMeansFailure,
            serverVars, clientVars
<1>1. up' \subseteq up /\ UNCHANGED clientVars
  BY Delivery DEF ReceiveInvite
<1>2. CASE sst \in {"NONE", "TERMINATED"}
  <2>1. calls' = calls + 1 /\ calls' \in 1..MaxCalls /\ 100 \in Codes /\ Provisional(100)
    BY <1>2, InviteAssumption DEF ReceiveInvite, Provisional
  <2>2. /\ down' = down \cup {[code |-> 100, call |-> calls']}
        /\ sst' = "PROCEEDING" /\ last' = 100 /\ UNCHANGED <<stimers, answers>>
    BY <1>2, <2>1 DEF ReceiveInvite
  <2>3. [code |-> 100, call |-> calls'] \in Responses
    BY <2>1 DEF Responses
  <2> QED BY <1>1, <2>1, <2>2, <2>3
<1>3. CASE sst \in {"PROCEEDING", "COMPLETED"}
  <2>1. down' = down \cup {Response(last)} /\ UNCHANGED serverVars
    BY <1>3 DEF ReceiveInvite
  <2> QED BY <1>1, <1>3, <2>1, ResponseType
<1>4. CASE sst \in {"CONFIRMED", "ACCEPTED"}
  <2>1. UNCHANGED <<down, calls, sst, stimers, last, answers>>
    <3> HIDE DEF IInv, TypeOK, AnswerProvenance, AnsweredHasTimer, AckMeansFailure
    <3>1. sst \notin {"NONE", "TERMINATED"} /\ sst \notin {"PROCEEDING", "COMPLETED"}
      BY <1>4
    <3> QED BY <3>1 DEF ReceiveInvite
  <2> QED BY <1>1, <1>4, <2>1 DEF AckProvenance
<1> QED BY <1>2, <1>3, <1>4

LEMMA AckStep ==
  ASSUME IInv, ReceiveAck
  PROVE  TypeOK' /\ AnswerProvenance' /\ AnsweredHasTimer' /\ AckMeansFailure'
<1> USE DEF IInv, TypeOK, AnswerProvenance, AnsweredHasTimer, AckMeansFailure, AckProvenance,
            serverVars, clientVars
<1>1. up' \subseteq up
  BY Delivery DEF ReceiveAck
<1> QED BY <1>1 DEF ReceiveAck

LEMMA SendResponseStep ==
  ASSUME IInv, NEW c \in Codes, SendResponse(c)
  PROVE  TypeOK' /\ AnswerProvenance' /\ AnsweredHasTimer' /\ AckMeansFailure'
<1> USE DEF IInv, TypeOK, AnswerProvenance, AnsweredHasTimer, AckMeansFailure,
            serverVars, clientVars
<1>1. CASE sst = "PROCEEDING"
  BY <1>1, ResponseType, CodeKinds DEF SendResponse
<1>2. CASE sst = "ACCEPTED"
  BY <1>2, CodeKinds DEF SendResponse
<1> QED BY <1>1, <1>2 DEF SendResponse

LEMMA ServerTimerStep ==
  ASSUME IInv, ServerTimer
  PROVE  TypeOK' /\ AnswerProvenance' /\ AnsweredHasTimer' /\ AckMeansFailure'
<1> USE DEF IInv, TypeOK, AnswerProvenance, AnsweredHasTimer, AckMeansFailure,
            serverVars, clientVars, ServerTerminate
<1>1. CASE TimerG
  BY <1>1, ResponseType DEF TimerG
<1>2. CASE TimerH
  <2>1. CASE sst = "COMPLETED"
    BY <1>2, <2>1 DEF TimerH
  <2>2. CASE sst # "COMPLETED"
    <3>1. stimers' = stimers \ {"H"} /\ UNCHANGED <<clientVars, up, down, calls, sst, last, answers>>
      BY <1>2, <2>2 DEF TimerH
    <3> QED BY <2>2, <3>1 DEF AckProvenance
  <2> QED BY <2>1, <2>2
<1>3. CASE TimerIL
  BY <1>3 DEF TimerIL
<1> QED BY <1>1, <1>2, <1>3 DEF ServerTimer

\* A server's step only takes messages of the client out of the network.
LEMMA ServerKeepsClient ==
  ASSUME IInv, ServerStep
  PROVE  up' \subseteq up /\ UNCHANGED clientVars
<1>1. CASE ReceiveInvite \/ ReceiveAck
  BY <1>1, Delivery DEF ReceiveInvite, ReceiveAck
<1>2. CASE ServerTimer \/ \E c \in Codes : SendResponse(c)
  BY <1>2 DEF SendResponse, ServerTimer, TimerG, TimerH, TimerIL
<1> QED BY <1>1, <1>2 DEF ServerStep

-----------------------------------------------------------------------------
(* The invariant. *)

LEMMA InitIInv == Init => IInv
  BY InviteAssumption, NoticeKinds
  DEF Init, IInv, TypeOK, ToldByState, AckProvenance, AnswerProvenance, AnsweredHasTimer,
      OneEnding, AckMeansFailure

LEMMA StepIInv == IInv /\ [Next]_vars => IInv'
<1> SUFFICES ASSUME IInv, [Next]_vars PROVE IInv'
  OBVIOUS
<1>1. CASE ClientStep
  <2>1. TypeOK' /\ ToldByState' /\ AckProvenance'
    BY <1>1, SendingStep, ResponseStep, ClientTimerStep DEF ClientStep
  <2> QED BY <1>1, <2>1, ClientKeepsServer DEF IInv
<1>2. CASE ServerStep
  <2>1. TypeOK' /\ AnswerProvenance' /\ AnsweredHasTimer' /\ AckMeansFailure'
    BY <1>2, InviteStep, AckStep, SendResponseStep, ServerTimerStep DEF ServerStep
  <2>2. up' \subseteq up /\ UNCHANGED clientVars
    BY <1>2, ServerKeepsClient
  <2>3. ToldByState' /\ AckProvenance'
    BY <2>1, <2>2 DEF IInv, ToldByState, AckProvenance, OneEnding, clientVars
  <2> QED BY <2>1, <2>3 DEF IInv
<1>3. CASE Lose
  BY <1>3 DEF Lose, IInv, TypeOK, ToldByState, AckProvenance, AnswerProvenance, AnsweredHasTimer,
              OneEnding, AckMeansFailure, clientVars, serverVars
<1>4. CASE UNCHANGED vars
  BY <1>4 DEF IInv, TypeOK, ToldByState, AckProvenance, AnswerProvenance, AnsweredHasTimer,
              OneEnding, AckMeansFailure, vars, clientVars, serverVars
<1> QED BY <1>1, <1>2, <1>3, <1>4 DEF Next, ClientStep, ServerStep

THEOREM InductiveInvariant == Spec => []IInv
  BY InitIInv, StepIInv, PTL DEF Spec

\* Every variable keeps its type, for any status codes.
THEOREM TypeCorrect == Spec => []TypeOK
<1>1. IInv => TypeOK
  BY DEF IInv
<1> QED BY <1>1, InductiveInvariant, PTL

\* The listener of ict.c is told one ending at most.
THEOREM EndsOnce == Spec => []OneEnding
<1>1. IInv => OneEnding
  BY DEF IInv, ToldByState
<1> QED BY <1>1, InductiveInvariant, PTL

\* Only a caller that was told a failure acknowledges one.
THEOREM AcksAreForFailures == Spec => []AckMeansFailure
<1>1. IInv => AckMeansFailure
  BY DEF IInv, AckProvenance
<1> QED BY <1>1, InductiveInvariant, PTL

\* An answered server transaction has the timer that ends it.
THEOREM AnsweredIsTimed == Spec => []AnsweredHasTimer
<1>1. IInv => AnsweredHasTimer
  BY DEF IInv
<1> QED BY <1>1, InductiveInvariant, PTL

-----------------------------------------------------------------------------
(* The refinement. *)

USE DEF Outcome!NotTold, Outcome!TimedOut, Outcome!IoError

LEMMA SameKinds ==
  \A n : /\ Outcome!Provisional(n) <=> Provisional(n)
         /\ Outcome!Success(n) <=> Success(n)
         /\ Outcome!Failure(n) <=> Failure(n)
  BY DEF Outcome!Provisional, Outcome!Success, Outcome!Failure, Provisional, Success, Failure

\* A caller that has not ended is one that waits.
LEMMA WaitingByState ==
  ASSUME IInv, cst \in {"INIT", "CALLING", "PROCEEDING"}
  PROVE  Outcome!Waiting
  BY SameKinds DEF IInv, ToldByState, Outcome!Waiting

LEMMA StepRefines == IInv /\ [Next]_vars => [Outcome!Next]_(Outcome!vars)
<1> SUFFICES ASSUME IInv, [Next]_vars PROVE Outcome!Next \/ UNCHANGED Outcome!vars
  OBVIOUS
<1> USE DEF Outcome!vars
<1>1. ASSUME NEW r \in Responses, ReceiveResponse(r)
      PROVE  Outcome!Next \/ UNCHANGED Outcome!vars
  <2>1. /\ r.code \in Codes /\ UNCHANGED answers
        /\ Provisional(r.code) \/ r.code \in answers
    BY <1>1 DEF Responses, ReceiveResponse, serverVars, IInv, AnswerProvenance
  <2>2. CASE ReceiveProvisional(r.code)
    <3>1. Outcome!TellProvisional(r.code)
      BY <2>1, <2>2, WaitingByState, SameKinds DEF ReceiveProvisional, Outcome!TellProvisional
    <3> QED BY <3>1, <2>1 DEF Outcome!Next
  <2>3. CASE told' # told /\ Success(r.code) /\ told' = r.code /\ cst \in {"CALLING", "PROCEEDING", "ACCEPTED"}
    <3>1. Outcome!Waiting \/ Outcome!Success(told)
      BY <2>3, WaitingByState, SameKinds DEF IInv, ToldByState
    <3>2. r.code \in answers
      BY <2>1, <2>3, CodeKinds
    <3>3. Outcome!TellSuccess(r.code)
      BY <2>1, <2>3, <3>1, <3>2, SameKinds DEF Outcome!TellSuccess
    <3> QED BY <3>3, <2>1 DEF Outcome!Next
  <2>4. CASE ReceiveFailure(r.code)
    <3>1. r.code \in answers
      BY <2>1, <2>4, CodeKinds DEF ReceiveFailure
    <3>2. Outcome!TellFailure(r.code)
      BY <2>1, <2>4, <3>1, WaitingByState, SameKinds DEF ReceiveFailure, Outcome!TellFailure
    <3> QED BY <3>2, <2>1 DEF Outcome!Next
  <2>5. CASE ReceiveSuccess(r.code) \/ ReceiveLate(r.code)
    BY <2>1, <2>3, <2>5 DEF ReceiveSuccess, ReceiveLate
  <2> QED BY <1>1, <2>2, <2>4, <2>5 DEF ReceiveResponse
<1>2. CASE ChannelError
  <2>1. CASE cst \in {"COMPLETED", "ACCEPTED", "TERMINATED"}
    BY <1>2, <2>1 DEF ChannelError, serverVars
  <2>2. CASE cst \in {"INIT", "CALLING", "PROCEEDING"}
    <3>1. Outcome!TellIoError
      BY <1>2, <2>2, WaitingByState DEF ChannelError, serverVars, Outcome!TellIoError
    <3> QED BY <3>1 DEF Outcome!Next
  <2> QED BY <2>1, <2>2 DEF IInv, TypeOK
<1>3. CASE TimerB
  <2>1. CASE cst = "CALLING"
    <3>1. Outcome!TellTimeout
      BY <1>3, <2>1 DEF TimerB, serverVars, Outcome!TellTimeout, IInv, ToldByState
    <3> QED BY <3>1 DEF Outcome!Next
  <2>2. CASE cst # "CALLING"
    BY <1>3, <2>2 DEF TimerB, serverVars
  <2> QED BY <2>1, <2>2
<1>4. ASSUME NEW c \in Codes, SendResponse(c)
      PROVE  Outcome!Next \/ UNCHANGED Outcome!vars
  <2>1. UNCHANGED told
    BY <1>4 DEF SendResponse, clientVars
  <2>2. CASE answers' = answers \cup {c} /\ (Success(c) \/ Failure(c))
    <3>1. Outcome!Answer(c)
      BY <2>1, <2>2, SameKinds DEF Outcome!Answer
    <3> QED BY <3>1 DEF Outcome!Next
  <2>3. CASE UNCHANGED answers
    BY <2>1, <2>3
  <2> QED BY <1>4, <2>2, <2>3 DEF SendResponse
<1>5. CASE SendRequest \/ ChannelReady \/ TimerA \/ TimerD \/ TimerM
  BY <1>5 DEF SendRequest, ChannelReady, TimerA, TimerD, TimerM, serverVars, clientVars
<1>6. CASE ReceiveInvite \/ ReceiveAck \/ ServerTimer \/ Lose
  BY <1>6 DEF ReceiveInvite, ReceiveAck, ServerTimer, TimerG, TimerH, TimerIL, Lose, serverVars, clientVars
<1>7. CASE UNCHANGED vars
  BY <1>7 DEF vars, serverVars, clientVars
<1> QED BY <1>1, <1>2, <1>3, <1>4, <1>5, <1>6, <1>7 DEF Next, ClientTimer

\* The two transactions and the network do what InviteOutcome promises.
THEOREM Refinement == Spec => OutcomeSpec
<1>1. Init => Outcome!Init
  BY DEF Init, Outcome!Init
<1> QED BY <1>1, StepRefines, InductiveInvariant, PTL DEF Spec, OutcomeSpec, Outcome!Spec

-----------------------------------------------------------------------------
(* Liveness.  The provers do not know ENABLED.  So the fairness that is     *)
(* needed is stated with the guards of the timers' callbacks instead: a     *)
(* timer that stays armed in a state in which its callback does something   *)
(* fires.  It is what FairSpec says of actions that their guards enable.    *)

\* The main loop calls the callback of a timer whose guard stays true.
TimersFire ==
  /\ []<>~("B" \in ctimers) \/ []<><<TimerB>>_vars
  /\ []<>~("H" \in stimers) \/ []<><<TimerH>>_vars
  /\ []<>~(stimers \cap {"I", "L"} # {} /\ sst # "TERMINATED") \/ []<><<TimerIL>>_vars

\* A callback whose guard is true can be called.
GuardsEnable ==
  /\ "B" \in ctimers => ENABLED <<TimerB>>_vars
  /\ "H" \in stimers => ENABLED <<TimerH>>_vars
  /\ stimers \cap {"I", "L"} # {} /\ sst # "TERMINATED" => ENABLED <<TimerIL>>_vars

\* The fairness of the runs is the fairness of the proofs.
THEOREM FairTimersFire == FairSpec /\ []GuardsEnable => TimersFire
  BY PTL DEF FairSpec, Fairness, GuardsEnable, TimersFire

Answered == sst \in {"COMPLETED", "CONFIRMED", "ACCEPTED"}

\* An answer in ist.c is taken back by nobody: the next state is the end.
LEMMA AnsweredStep ==
  ASSUME IInv, [Next]_vars, Answered
  PROVE  /\ sst = "COMPLETED" => sst' \in {"COMPLETED", "CONFIRMED", "TERMINATED"}
         /\ sst = "CONFIRMED" => sst' \in {"CONFIRMED", "TERMINATED"}
         /\ sst = "ACCEPTED" => sst' \in {"ACCEPTED", "TERMINATED"}
<1> USE DEF Answered, serverVars, ServerTerminate
<1>1. CASE SendRequest \/ ChannelReady \/ ChannelError \/ ClientTimer \/ Lose
  BY <1>1 DEF SendRequest, ChannelReady, ChannelError, ClientTimer, TimerA, TimerB, TimerD,
              TimerM, Lose
<1>2. CASE (\E r \in Responses : ReceiveResponse(r)) \/ UNCHANGED vars
  BY <1>2 DEF ReceiveResponse, vars
<1>3. CASE ReceiveInvite \/ ReceiveAck
  BY <1>3 DEF ReceiveInvite, ReceiveAck
<1>4. CASE \E c \in Codes : SendResponse(c)
  BY <1>4 DEF SendResponse
<1>5. CASE ServerTimer
  BY <1>5 DEF ServerTimer, TimerG, TimerH, TimerIL, clientVars
<1> QED BY <1>1, <1>2, <1>3, <1>4, <1>5 DEF Next

\* Whatever the network does, an answered server transaction ends: timer H
\* ends one that gets no ACK, timers I and L the others (ist.c).
THEOREM AnsweredAlwaysEnds == Spec /\ TimersFire => AnsweredEnds
<1>1. IInv /\ sst = "COMPLETED" /\ [Next]_vars
        => (sst = "COMPLETED")' \/ (sst = "CONFIRMED")' \/ (sst = "TERMINATED")'
  BY AnsweredStep DEF Answered
<1>2. IInv /\ sst = "CONFIRMED" /\ [Next]_vars => (sst = "CONFIRMED")' \/ (sst = "TERMINATED")'
  BY AnsweredStep DEF Answered
<1>3. IInv /\ sst = "ACCEPTED" /\ [Next]_vars => (sst = "ACCEPTED")' \/ (sst = "TERMINATED")'
  BY AnsweredStep DEF Answered
<1>4. sst = "COMPLETED" /\ <<TimerH>>_vars => (sst = "TERMINATED")'
  BY DEF TimerH, ServerTerminate
<1>5. <<TimerIL>>_vars => (sst = "TERMINATED")'
  BY DEF TimerIL, ServerTerminate
<1>6. IInv => /\ sst = "COMPLETED" => "H" \in stimers
              /\ sst = "CONFIRMED" => stimers \cap {"I", "L"} # {} /\ sst # "TERMINATED"
              /\ sst = "ACCEPTED" => stimers \cap {"I", "L"} # {} /\ sst # "TERMINATED"
  BY DEF IInv, AnsweredHasTimer
<1>7. Answered <=> sst = "COMPLETED" \/ sst = "CONFIRMED" \/ sst = "ACCEPTED"
  BY DEF Answered
<1>8. Spec /\ TimersFire => (sst = "COMPLETED" ~> sst = "CONFIRMED" \/ sst = "TERMINATED")
  BY <1>1, <1>4, <1>6, InductiveInvariant, PTL DEF Spec, TimersFire
<1>9. Spec /\ TimersFire => (sst = "CONFIRMED" ~> sst = "TERMINATED")
  BY <1>2, <1>5, <1>6, InductiveInvariant, PTL DEF Spec, TimersFire
<1>10. Spec /\ TimersFire => (sst = "ACCEPTED" ~> sst = "TERMINATED")
  BY <1>3, <1>5, <1>6, InductiveInvariant, PTL DEF Spec, TimersFire
<1>11. Spec /\ TimersFire => (Answered ~> sst = "TERMINATED")
  BY <1>7, <1>8, <1>9, <1>10, PTL
<1> QED BY <1>11, PTL DEF Answered, AnsweredEnds

\* A caller whose request was sent has timer B (ict_on_calling).
CallingHasTimer == cst = "CALLING" => "B" \in ctimers

LEMMA CallingTimerStep == IInv /\ CallingHasTimer /\ [Next]_vars => CallingHasTimer'
<1> SUFFICES ASSUME IInv, CallingHasTimer, [Next]_vars PROVE CallingHasTimer'
  OBVIOUS
<1> USE DEF CallingHasTimer, clientVars, ClientTerminate
<1>1. CASE ServerStep
  BY <1>1, ServerKeepsClient
<1>2. CASE SendRequest \/ ChannelReady \/ ChannelError
  BY <1>2 DEF SendRequest, ChannelReady, ChannelError, IctSendRequest
<1>3. CASE \E r \in Responses : ReceiveResponse(r)
  BY <1>3 DEF ReceiveResponse, ReceiveProvisional, ReceiveSuccess, ReceiveFailure, ReceiveLate
<1>4. CASE ClientTimer
  BY <1>4 DEF ClientTimer, TimerA, TimerB, TimerD, TimerM
<1>5. CASE Lose \/ UNCHANGED vars
  BY <1>5 DEF Lose, vars
<1> QED BY <1>1, <1>2, <1>3, <1>4, <1>5 DEF Next, ServerStep

LEMMA CallingIsTimed == Spec => []CallingHasTimer
<1>1. Init => CallingHasTimer
  BY DEF Init, CallingHasTimer
<1> QED BY <1>1, CallingTimerStep, InductiveInvariant, PTL DEF Spec

\* A caller in CALLING leaves it only by telling its listener something.
LEMMA CallingStep ==
  ASSUME IInv, [Next]_vars, cst = "CALLING"
  PROVE  cst' = "CALLING" \/ told' # NotTold
<1> USE DEF clientVars, ClientTerminate
<1>1. CASE ServerStep
  BY <1>1, ServerKeepsClient
<1>2. CASE SendRequest \/ ChannelReady \/ ChannelError
  BY <1>2 DEF SendRequest, ChannelReady, ChannelError
<1>3. ASSUME NEW r \in Responses, ReceiveResponse(r)
      PROVE  told' # NotTold
  <2>1. r.code # NotTold
    BY CodeKinds DEF Responses
  <2> QED BY <1>3, <2>1 DEF ReceiveResponse, ReceiveProvisional, ReceiveSuccess,
                           ReceiveFailure, ReceiveLate
<1>4. CASE ClientTimer
  BY <1>4 DEF ClientTimer, TimerA, TimerB, TimerD, TimerM
<1>5. CASE Lose \/ UNCHANGED vars
  BY <1>5 DEF Lose, vars
<1> QED BY <1>1, <1>2, <1>3, <1>4, <1>5 DEF Next, ServerStep

\* Whatever the network does, a caller whose request was sent hears of it:
\* timer B ends a wait that nothing else has ended (ict.c).
THEOREM CallingAlwaysEnds == Spec /\ TimersFire => CallingEnds
<1>1. IInv /\ cst = "CALLING" /\ [Next]_vars => (cst = "CALLING")' \/ (told # NotTold)'
  BY CallingStep
<1>2. cst = "CALLING" /\ <<TimerB>>_vars => (told # NotTold)'
  BY DEF TimerB
<1>3. CallingHasTimer /\ cst = "CALLING" => "B" \in ctimers
  BY DEF CallingHasTimer
<1> QED BY <1>1, <1>2, <1>3, InductiveInvariant, CallingIsTimed, PTL
           DEF Spec, TimersFire, CallingEnds
==============================================================================
