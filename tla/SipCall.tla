------------------------------ MODULE SipCall ------------------------------
(***************************************************************************)
(* One call between two phones, from the INVITE to the release of both     *)
(* ends: the op of sal_op_call.c, the dialog of belle-sip and the state    *)
(* liblinphone shows the user, at either end.                              *)
(*                                                                         *)
(* A message stands for all its retransmissions by a transaction: one that *)
(* is lost makes the transaction time out.  At most MaxFaults messages are *)
(* lost or overtaken by the next one.  InviteTransaction has the details   *)
(* of the transactions of an INVITE; here they are their states.           *)
(***************************************************************************)
EXTENDS Naturals, Sequences

CONSTANT MaxFaults  \* how many messages may be lost or overtaken

ASSUME FaultAssumption == MaxFaults \in Nat

Caller == "caller"
Callee == "callee"
Ends == {Caller, Callee}
Peer(e) == IF e = Caller THEN Callee ELSE Caller

\* The BYE of the op, and the one belle-sip sends by itself.
Byes == {"BYE", "internal BYE"}

VARIABLES
  user,      \* LinphoneCall: state of each end
  op,        \* SalOp: state
  dlg,       \* belle_sip_dialog_t: state
  prev,      \* its previous_state
  linked,    \* does op->dialog point to it, and its appdata to the op?
  due,       \* callbacks handed to belle_sip_main_loop_do_later
  missed,    \* was the end of its dialog told to nobody, though it has an op?
  bye,       \* client transactions of the BYEs of an end
  served,    \* is there a server transaction of an answered BYE?
  ict,       \* state of the caller's INVITE transaction
  cancel,    \* state of its CANCEL transaction
  needsAck,  \* dialog of the caller: needs_ack
  acked,     \* dialog of the caller: last_out_ack is set
  ist,       \* state of the callee's INVITE transaction
  okTimer,   \* dialog of the callee: timer_200Ok and timer_200Ok_end run
  net,       \* the messages on their way to each end
  lost,      \* the messages lost on the way to each end
  faults     \* how many messages were lost or overtaken

endVars == <<user, op, dlg, prev, linked, due, missed>>
byeVars == <<bye, served>>
callerVars == <<ict, cancel, needsAck, acked>>
calleeVars == <<ist, okTimer>>
faultVars == <<lost, faults>>
vars == <<endVars, byeVars, callerVars, calleeVars, net, faultVars>>

Request(m) == [of |-> m, code |-> 0]
Response(m, c) == [of |-> m, code |-> c]
Messages == [of : {"INVITE", "CANCEL", "ACK"} \cup Byes, code : {0, 100, 180, 200, 481, 487, 501, 603}]

Send(e, ms) == net' = [net EXCEPT ![Peer(e)] = @ \o ms]

\* An end takes the next message that comes to it, and answers.
Receive(e, m, answers) ==
  /\ net[e] # <<>> /\ Head(net[e]) = m
  /\ net' = [net EXCEPT ![e] = Tail(@), ![Peer(e)] = @ \o answers]

OnItsWay(e, m) == \E i \in DOMAIN net[e] : net[e][i] = m

Alive(e) == op[e] # "Terminated"

Init ==
  /\ user = [e \in Ends |-> "Idle"]
  /\ op = [e \in Ends |-> "None"]
  /\ dlg = [e \in Ends |-> "None"]
  /\ prev = [e \in Ends |-> "None"]
  /\ linked = [e \in Ends |-> FALSE]
  /\ due = [e \in Ends |-> {}]
  /\ missed = [e \in Ends |-> FALSE]
  /\ bye = [e \in Ends |-> [b \in Byes |-> "None"]]
  /\ served = [e \in Ends |-> FALSE]
  /\ ict = "None" /\ cancel = "None" /\ needsAck = FALSE /\ acked = FALSE
  /\ ist = "None" /\ okTimer = FALSE
  /\ net = [e \in Ends |-> <<>>] /\ lost = [e \in Ends |-> {}] /\ faults = 0
------------------------------------------------------------------------------
(* What happens at one end.                                                  *)

SetDialog(e, s) ==
  /\ dlg' = [dlg EXCEPT ![e] = s]
  /\ prev' = [prev EXCEPT ![e] = dlg[e]]

\* belle_sip_dialog_delete: the listeners hear of it later.
Delete(e) ==
  /\ SetDialog(e, "TERMINATED")
  /\ due' = [due EXCEPT ![e] = @ \cup {"notice"}]

KeepDialog == UNCHANGED <<dlg, prev, due>>

Link(e, b) == linked' = [linked EXCEPT ![e] = b]

\* linphone_call_set_state_base: from End and Error only to Released.
User(e, s) ==
  user' = [user EXCEPT ![e] = IF @ \in {"End", "Error"} /\ s # "Released" THEN @ ELSE s]

Op(e, s) == op' = [op EXCEPT ![e] = s]

\* call_set_released.
Released(e) ==
  /\ Op(e, "Terminated")
  /\ User(e, "Released")
  /\ Link(e, FALSE)

SendBye(e, b) == bye' = [bye EXCEPT ![e][b] = "TRYING"]

\* linphone_core_invite and sal_call.
Call ==
  /\ user[Caller] = "Idle"
  /\ User(Caller, "Outgoing")
  /\ Op(Caller, "Early")
  /\ ict' = "CALLING"
  /\ Send(Caller, <<Request("INVITE")>>)
  /\ UNCHANGED <<missed, dlg, prev, linked, due, byeVars, cancel, needsAck, acked, calleeVars, faultVars>>

\* cancelling_invite.
Cancelling ==
  /\ cancel' = "TRYING"
  /\ Op(Caller, "Terminating")
  /\ Send(Caller, <<Request("CANCEL")>>)
  /\ UNCHANGED bye

\* linphone_core_terminate_call of a call that is outgoing or running: what
\* sal_call_terminate does depends on the dialog.
HangUp(e) ==
  /\ user[e] \in {"Outgoing", "Running"}
  /\ User(e, "End")
  /\ \/ /\ linked[e] /\ dlg[e] = "CONFIRMED"
        /\ SendBye(e, "BYE")
        /\ Op(e, "Terminating")
        /\ Send(e, <<Request("BYE")>>)
        /\ UNCHANGED cancel
     \/ /\ e = Caller
        /\ ~linked[e] \/ dlg[e] = "EARLY"
        /\ IF ict = "PROCEEDING"
             THEN Cancelling
             ELSE Op(e, "Terminating") /\ UNCHANGED <<bye, cancel, net>>
     \/ /\ linked[e] /\ dlg[e] = "TERMINATED"
        /\ UNCHANGED <<op, bye, cancel, net>>
  /\ KeepDialog
  /\ UNCHANGED <<missed, linked, served, ict, needsAck, acked, calleeVars, faultVars>>
------------------------------------------------------------------------------
(* The caller: call_process_response for the INVITE, after the dialog was    *)
(* updated (belle_sip_client_transaction_notify_response).                   *)

\* Mutant: a call that was hung up before anything came is not cancelled.
ReceiveProvisionalUncancelled(c) ==
  LET d == IF c = 180 /\ dlg[Caller] = "None" THEN "EARLY" ELSE dlg[Caller] IN
  /\ ict \in {"CALLING", "PROCEEDING"}
  /\ ict' = "PROCEEDING"
  /\ IF d = dlg[Caller] THEN UNCHANGED <<dlg, prev>> ELSE SetDialog(Caller, d)
  /\ IF Alive(Caller) THEN Link(Caller, d # "None") ELSE UNCHANGED linked
  /\ Receive(Caller, Response("INVITE", c), <<>>)
  /\ UNCHANGED <<missed, user, op, due, byeVars, cancel, needsAck, acked, calleeVars, faultVars>>

\* 100 and 180: the first 180 makes the dialog.  A call that was hung up
\* before is cancelled now.
ReceiveProvisional(c) ==
  LET d == IF c = 180 /\ dlg[Caller] = "None" THEN "EARLY" ELSE dlg[Caller]
      cancels == op[Caller] = "Terminating" /\ cancel = "None"
  IN
  /\ ict \in {"CALLING", "PROCEEDING"}
  /\ ict' = "PROCEEDING"
  /\ IF d = dlg[Caller] THEN UNCHANGED <<dlg, prev>> ELSE SetDialog(Caller, d)
  /\ IF Alive(Caller) THEN Link(Caller, d # "None") ELSE UNCHANGED linked
  /\ Receive(Caller, Response("INVITE", c), IF cancels THEN <<Request("CANCEL")>> ELSE <<>>)
  /\ cancel' = IF cancels THEN "TRYING" ELSE cancel
  /\ UNCHANGED <<missed, user, op, due, byeVars, needsAck, acked, calleeVars, faultVars>>

\* A 2xx confirms the dialog, and is told again until it was acknowledged.
\* belle_sip_dialog_check_ack_sent: who did not acknowledge it sends a BYE.
NewSuccess == dlg[Caller] # "TERMINATED" /\ ~acked

Confirmed ==
  /\ ict' = "ACCEPTED"
  /\ IF dlg[Caller] = "CONFIRMED" THEN UNCHANGED <<dlg, prev>>
                                  ELSE SetDialog(Caller, "CONFIRMED")
  /\ UNCHANGED <<missed, due, served, cancel, calleeVars, faultVars>>

\* The op is not over: ACK, call_accepted.
ReceiveAnswer ==
  /\ ict \in {"CALLING", "PROCEEDING", "ACCEPTED"}
  /\ NewSuccess /\ op[Caller] = "Early"
  /\ Receive(Caller, Response("INVITE", 200), <<Request("ACK")>>)
  /\ Confirmed
  /\ Link(Caller, TRUE)
  /\ Op(Caller, "Active")
  /\ User(Caller, "Running")
  /\ needsAck' = FALSE
  /\ acked' = TRUE
  /\ UNCHANGED bye

\* The user hung up before: a BYE of the op, and, as there was no ACK, an
\* internal one.
ReceiveAnswerTooLate ==
  /\ ict \in {"CALLING", "PROCEEDING", "ACCEPTED"}
  /\ NewSuccess /\ op[Caller] = "Terminating"
  /\ Receive(Caller, Response("INVITE", 200), <<Request("BYE"), Request("internal BYE")>>)
  /\ Confirmed
  /\ Link(Caller, TRUE)
  /\ bye' = [bye EXCEPT ![Caller] = [b \in Byes |-> "TRYING"]]
  /\ needsAck' = TRUE
  /\ UNCHANGED <<user, op, acked>>

\* Mutant: the 2xx is acknowledged, and no BYE is sent.
ReceiveAnswerAbandonedAck ==
  /\ ict \in {"CALLING", "PROCEEDING", "ACCEPTED"}
  /\ NewSuccess /\ ~Alive(Caller)
  /\ Receive(Caller, Response("INVITE", 200), <<Request("ACK")>>)
  /\ Confirmed
  /\ needsAck' = FALSE /\ acked' = TRUE
  /\ UNCHANGED <<user, op, linked, bye>>

\* The op is released already: the internal BYE only.
ReceiveAnswerAbandoned ==
  /\ ict \in {"CALLING", "PROCEEDING", "ACCEPTED"}
  /\ NewSuccess /\ ~Alive(Caller)
  /\ Receive(Caller, Response("INVITE", 200), <<Request("internal BYE")>>)
  /\ Confirmed
  /\ SendBye(Caller, "internal BYE")
  /\ needsAck' = TRUE
  /\ UNCHANGED <<user, op, linked, acked>>

\* A 2xx again: belle_sip_dialog_handle_200Ok repeats the ACK.  Where the
\* dialog is over it is told all the same, which does nothing but link it.
\* One whose transaction is over is discarded.
ReceiveAnswerAgain ==
  LET again == Response("INVITE", 200)
      same == <<missed, user, op, dlg, prev, due, byeVars, callerVars, calleeVars, faultVars>>
  IN
  \/ /\ ict = "ACCEPTED" /\ dlg[Caller] = "CONFIRMED" /\ acked
     /\ Receive(Caller, again, <<Request("ACK")>>)
     /\ UNCHANGED <<linked, same>>
  \/ /\ ict = "ACCEPTED" /\ dlg[Caller] = "TERMINATED"
     /\ Receive(Caller, again, <<>>)
     /\ IF Alive(Caller) THEN Link(Caller, TRUE) ELSE UNCHANGED linked
     /\ UNCHANGED same
  \/ /\ ict \notin {"CALLING", "PROCEEDING", "ACCEPTED"}
     /\ Receive(Caller, again, <<>>)
     /\ UNCHANGED <<linked, same>>

\* An early dialog ends with the call, and its end is told later; without a
\* dialog the op is released at once.
Failure(c) == IF c = 603 THEN "End" ELSE "Error"

ReceiveFailure(c) ==
  /\ ict \in {"CALLING", "PROCEEDING"}
  /\ ict' = "TERMINATED"
  /\ Receive(Caller, Response("INVITE", c), <<>>)
  /\ \/ /\ dlg[Caller] = "EARLY"
        /\ Delete(Caller)
        /\ \/ /\ Alive(Caller) /\ Link(Caller, TRUE) /\ UNCHANGED op
              /\ IF op[Caller] = "Terminating" THEN UNCHANGED user ELSE User(Caller, Failure(c))
           \/ ~Alive(Caller) /\ UNCHANGED <<linked, op, user>>
     \/ /\ dlg[Caller] = "None"
        /\ KeepDialog
        /\ IF Alive(Caller) THEN Released(Caller) ELSE UNCHANGED <<user, op, linked>>
  /\ UNCHANGED <<missed, byeVars, cancel, needsAck, acked, calleeVars, faultVars>>

\* 1xx and failures of a transaction that is past them.
ReceiveStale(c) ==
  /\ c # 200
  /\ ict \notin {"CALLING", "PROCEEDING"}
  /\ Receive(Caller, Response("INVITE", c), <<>>)
  /\ UNCHANGED <<endVars, byeVars, callerVars, calleeVars, faultVars>>

\* A CANCEL has no dialog: its response takes the dialog away from the op.
ReceiveCancelAnswer(c) ==
  /\ Receive(Caller, Response("CANCEL", c), <<>>)
  /\ IF cancel = "TRYING"
       THEN /\ cancel' = "Done"
            /\ IF Alive(Caller) THEN Link(Caller, FALSE) ELSE UNCHANGED linked
       ELSE UNCHANGED <<cancel, linked>>
  /\ UNCHANGED <<missed, user, op, dlg, prev, due, byeVars, ict, needsAck, acked, calleeVars, faultVars>>
------------------------------------------------------------------------------
(* The callee.                                                               *)

\* A new op, call_received; the server transaction answers 100.
ReceiveInvite ==
  /\ ist = "None"
  /\ Receive(Callee, Request("INVITE"), <<Response("INVITE", 100)>>)
  /\ ist' = "PROCEEDING"
  /\ Op(Callee, "Early")
  /\ SetDialog(Callee, "NULL")
  /\ Link(Callee, TRUE)
  /\ User(Callee, "Incoming")
  /\ UNCHANGED <<missed, due, byeVars, callerVars, okTimer, faultVars>>

\* sal_call_notify_ringing, at once or when the addresses are gathered.
Ring ==
  /\ user[Callee] = "Incoming" /\ dlg[Callee] = "NULL"
  /\ SetDialog(Callee, "EARLY")
  /\ Send(Callee, <<Response("INVITE", 180)>>)
  /\ UNCHANGED <<missed, user, op, linked, due, byeVars, callerVars, calleeVars, faultVars>>

\* linphone_core_accept_call and sal_call_accept.  The op stays Early.
Accept ==
  /\ user[Callee] = "Incoming"
  /\ ist' = "ACCEPTED"
  /\ SetDialog(Callee, "CONFIRMED")
  /\ okTimer' = TRUE
  /\ Send(Callee, <<Response("INVITE", 200)>>)
  /\ User(Callee, "Running")
  /\ UNCHANGED <<missed, op, linked, due, byeVars, callerVars, faultVars>>

\* linphone_core_decline_call and sal_call_decline.
Decline ==
  /\ user[Callee] = "Incoming"
  /\ ist' = "COMPLETED"
  /\ Delete(Callee)
  /\ Send(Callee, <<Response("INVITE", 603)>>)
  /\ User(Callee, "End")
  /\ UNCHANGED <<missed, op, linked, byeVars, callerVars, okTimer, faultVars>>

\* A CANCEL ends the call that was not answered, and no other.  Of a dialog that
\* is over it finds the rest until the op is released, and goes unanswered;
\* then there is no call leg.
ReceiveCancel ==
  LET request == Request("CANCEL") IN
  /\ \/ /\ dlg[Callee] \in {"NULL", "EARLY"}
        /\ Receive(Callee, request, <<Response("CANCEL", 200), Response("INVITE", 487)>>)
        /\ ist' = "COMPLETED"
        /\ Delete(Callee)
        /\ User(Callee, "End")
     \/ /\ dlg[Callee] = "CONFIRMED" \/ (dlg[Callee] = "TERMINATED" /\ ~linked[Callee])
        /\ Receive(Callee, request, <<Response("CANCEL", 481)>>)
        /\ KeepDialog
        /\ UNCHANGED <<ist, user>>
     \/ /\ dlg[Callee] = "TERMINATED" /\ linked[Callee]
        /\ Receive(Callee, request, <<>>)
        /\ KeepDialog
        /\ UNCHANGED <<ist, user>>
  /\ UNCHANGED <<missed, op, linked, byeVars, callerVars, okTimer, faultVars>>

\* belle_sip_dialog_handle_ack.
ReceiveAck ==
  /\ Receive(Callee, Request("ACK"), <<>>)
  /\ okTimer' = (okTimer /\ dlg[Callee] # "CONFIRMED")
  /\ UNCHANGED <<endVars, byeVars, callerVars, ist, faultVars>>

\* dialog_on_200Ok_timer.
ResendOk ==
  /\ okTimer /\ net[Callee] = <<>> /\ ~OnItsWay(Caller, Response("INVITE", 200))
  /\ Send(Callee, <<Response("INVITE", 200)>>)
  /\ UNCHANGED <<endVars, byeVars, callerVars, calleeVars, faultVars>>

\* dialog_on_200Ok_end: nobody has acknowledged the 2xx.
OkTimerEnd ==
  /\ okTimer
  /\ okTimer' = FALSE
  /\ SendBye(Callee, "internal BYE")
  /\ Send(Callee, <<Request("internal BYE")>>)
  /\ UNCHANGED <<endVars, served, callerVars, ist, faultVars>>
------------------------------------------------------------------------------
(* Either end: BYE, the end of the dialog, the release of the op.            *)

StopOkTimer(e) == okTimer' = (okTimer /\ e # Callee)
ClearNeedsAck(e) == needsAck' = (needsAck /\ e # Caller)

\* A BYE in a confirmed dialog ends the call; in an early one it is an
\* unsupported method; without a dialog there is no call leg.  Where the
\* dialog has lost its op nobody answers.
ReceiveBye(e, b) ==
  LET request == Request(b) IN
  /\ \/ /\ dlg[e] = "CONFIRMED" /\ linked[e] /\ Alive(e)
        /\ Receive(e, request, <<Response(b, 200)>>)
        /\ Delete(e)
        /\ StopOkTimer(e) /\ ClearNeedsAck(e)
        /\ served' = [served EXCEPT ![e] = TRUE]
        /\ User(e, "End")
        /\ Op(e, "Terminating")
     \/ /\ dlg[e] = "EARLY" /\ linked[e] /\ Alive(e)
        /\ Receive(e, request, <<Response(b, 501)>>)
        /\ served' = [served EXCEPT ![e] = TRUE]
        /\ KeepDialog
        /\ UNCHANGED <<user, op, okTimer, needsAck>>
     \/ /\ dlg[e] \in {"EARLY", "CONFIRMED"} /\ ~(linked[e] /\ Alive(e))
        /\ Receive(e, request, <<>>)
        /\ KeepDialog
        /\ UNCHANGED <<user, op, served, okTimer, needsAck>>
     \/ /\ dlg[e] \in {"None", "TERMINATED"}
        /\ Receive(e, request, <<Response(b, 481)>>)
        /\ KeepDialog
        /\ UNCHANGED <<user, op, served, okTimer, needsAck>>
  /\ UNCHANGED <<missed, linked, bye, ict, cancel, acked, ist, faultVars>>

\* Mutant: the answer to a BYE deletes the dialog whatever its state.
ReceiveByeAnswerAnyState(e, b, c) ==
  /\ Receive(e, Response(b, c), <<>>)
  /\ IF bye[e][b] = "TRYING"
       THEN /\ bye' = [bye EXCEPT ![e][b] = IF b = "BYE" THEN "COMPLETED" ELSE "Done"]
            /\ Delete(e) /\ StopOkTimer(e) /\ ClearNeedsAck(e)
            /\ IF b = "BYE" /\ Alive(e) THEN Link(e, TRUE) ELSE UNCHANGED linked
       ELSE /\ KeepDialog
            /\ UNCHANGED <<bye, linked, okTimer, needsAck>>
  /\ UNCHANGED <<missed, user, op, served, ict, cancel, acked, ist, faultVars>>

\* Any answer to a BYE ends a confirmed dialog.  The op hears only of its own.
ReceiveByeAnswer(e, b, c) ==
  /\ Receive(e, Response(b, c), <<>>)
  /\ IF bye[e][b] = "TRYING"
       THEN /\ bye' = [bye EXCEPT ![e][b] = IF b = "BYE" THEN "COMPLETED" ELSE "Done"]
            /\ IF dlg[e] = "CONFIRMED"
                 THEN Delete(e) /\ StopOkTimer(e) /\ ClearNeedsAck(e)
                 ELSE KeepDialog /\ UNCHANGED <<okTimer, needsAck>>
            /\ IF b = "BYE" /\ Alive(e) THEN Link(e, TRUE) ELSE UNCHANGED linked
       ELSE /\ KeepDialog
            /\ UNCHANGED <<bye, linked, okTimer, needsAck>>
  /\ UNCHANGED <<missed, user, op, served, ict, cancel, acked, ist, faultVars>>

\* call_process_transaction_terminated of the BYE of the op, or of the peer.
ReleaseUnlinked(e) ==
  IF op[e] = "Terminating" /\ ~linked[e] THEN Released(e) ELSE UNCHANGED <<user, op, linked>>

ByeOver(e) ==
  /\ \/ /\ bye[e]["BYE"] = "COMPLETED"
        /\ bye' = [bye EXCEPT ![e]["BYE"] = "Done"]
        /\ UNCHANGED served
     \/ /\ served[e]
        /\ served' = [served EXCEPT ![e] = FALSE]
        /\ UNCHANGED bye
  /\ ReleaseUnlinked(e)
  /\ KeepDialog
  /\ UNCHANGED <<missed, callerVars, calleeVars, net, faultVars>>

\* Mutant: the user is not told of the end before the release.
NoticeSilent(e) ==
  /\ "notice" \in due[e]
  /\ missed' = [missed EXCEPT ![e] = @ \/ (~linked[e] /\ Alive(e))]
  /\ due' = [due EXCEPT ![e] = (@ \ {"notice"}) \cup (IF linked[e] THEN {"release"} ELSE {})]
  /\ UNCHANGED <<user, op, dlg, prev, linked, byeVars, callerVars, calleeVars, net, faultVars>>

\* process_dialog_terminated: the end of a dialog that has lost its op is
\* told to nobody.
Notice(e) ==
  /\ "notice" \in due[e]
  /\ missed' = [missed EXCEPT ![e] = @ \/ (~linked[e] /\ Alive(e))]
  /\ due' = [due EXCEPT ![e] = (@ \ {"notice"}) \cup (IF linked[e] THEN {"release"} ELSE {})]
  /\ IF linked[e] /\ prev[e] = "CONFIRMED" /\ op[e] \notin {"Terminating", "Terminated"}
       THEN User(e, "End") /\ Op(e, "Terminating")
       ELSE UNCHANGED <<user, op>>
  /\ UNCHANGED <<dlg, prev, linked, byeVars, callerVars, calleeVars, net, faultVars>>

Release(e) ==
  /\ "release" \in due[e]
  /\ due' = [due EXCEPT ![e] = @ \ {"release"}]
  /\ IF user[e] = "Released" THEN UNCHANGED <<user, op, linked>> ELSE Released(e)
  /\ UNCHANGED <<missed, dlg, prev, byeVars, callerVars, calleeVars, net, faultVars>>
------------------------------------------------------------------------------
(* Timers, and the loss of messages.                                         *)

\* Neither a request nor an answer to it is on its way any more.
Silent(e, m) ==
  /\ ~OnItsWay(Peer(e), Request(m))
  /\ \A i \in DOMAIN net[e] : net[e][i].of = m => net[e][i].code = 0

\* Mutant: an op that is terminating is left to its dialog.
FailTerminating(e) ==
  IF Alive(e) /\ ~linked[e] /\ op[e] # "Terminating"
    THEN Released(e) ELSE UNCHANGED <<user, op, linked>>

\* call_process_timeout: with a dialog "nothing to do".
Fail(e) ==
  IF Alive(e) /\ ~linked[e] THEN Released(e) ELSE UNCHANGED <<user, op, linked>>

InviteTimeout ==
  /\ ict = "CALLING" /\ Silent(Caller, "INVITE")
  /\ ict' = "TERMINATED"
  /\ Fail(Caller)
  /\ KeepDialog
  /\ UNCHANGED <<missed, byeVars, cancel, needsAck, acked, calleeVars, net, faultVars>>

CancelTimeout ==
  /\ cancel = "TRYING" /\ Silent(Caller, "CANCEL")
  /\ cancel' = "TimedOut"
  /\ Fail(Caller)
  /\ KeepDialog
  /\ UNCHANGED <<missed, byeVars, ict, needsAck, acked, calleeVars, net, faultVars>>

ByeTimeout(e, b) ==
  /\ bye[e][b] = "TRYING" /\ Silent(e, b)
  /\ bye' = [bye EXCEPT ![e][b] = "TimedOut"]
  /\ IF b = "BYE" THEN Fail(e) ELSE UNCHANGED <<user, op, linked>>
  /\ KeepDialog
  /\ UNCHANGED <<missed, served, callerVars, calleeVars, net, faultVars>>

Lose ==
  /\ faults < MaxFaults
  /\ faults' = faults + 1
  /\ \E e \in Ends :
       /\ net[e] # <<>>
       /\ net' = [net EXCEPT ![e] = Tail(@)]
       /\ lost' = [lost EXCEPT ![e] = @ \cup {Head(net[e])}]
  /\ UNCHANGED <<endVars, byeVars, callerVars, calleeVars>>

Overtake ==
  /\ faults < MaxFaults
  /\ faults' = faults + 1
  /\ \E e \in Ends : \E i \in 2..Len(net[e]) :
       net' = [net EXCEPT ![e] = [@ EXCEPT ![i - 1] = net[e][i], ![i] = net[e][i - 1]]]
  /\ UNCHANGED <<endVars, byeVars, callerVars, calleeVars, lost>>

\* An end takes the next message from the network.
Takes(e) == \E b \in Byes : ReceiveBye(e, b) \/ \E c \in {200, 481, 501} : ReceiveByeAnswer(e, b, c)

CallerTakes ==
  \/ \E c \in {100, 180} : ReceiveProvisional(c)
  \/ ReceiveAnswer
  \/ ReceiveAnswerTooLate
  \/ ReceiveAnswerAbandoned
  \/ ReceiveAnswerAgain
  \/ \E c \in {487, 603} : ReceiveFailure(c)
  \/ \E c \in {100, 180, 487, 603} : ReceiveStale(c)
  \/ \E c \in {200, 481} : ReceiveCancelAnswer(c)
  \/ Takes(Caller)

CalleeTakes ==
  \/ ReceiveInvite
  \/ ReceiveCancel
  \/ ReceiveAck
  \/ Takes(Callee)

\* The timers of one end, and its deferred callbacks.
Timers(e) ==
  \/ \E b \in Byes : ByeTimeout(e, b)
  \/ ByeOver(e)
  \/ Notice(e)
  \/ Release(e)

Next ==
  \/ Call
  \/ \E e \in Ends : HangUp(e)
  \/ Ring \/ Accept \/ Decline
  \/ CallerTakes
  \/ CalleeTakes
  \/ InviteTimeout \/ CancelTimeout
  \/ ResendOk \/ OkTimerEnd
  \/ \E e \in Ends : Timers(e)
  \/ Lose \/ Overtake

Spec == Init /\ [][Next]_vars

\* The main loops run: messages that are not lost arrive, timers fire and
\* deferred callbacks are called.  Nothing is asked of the users.
Fairness ==
  /\ WF_vars(CallerTakes) /\ WF_vars(CalleeTakes)
  /\ WF_vars(InviteTimeout) /\ WF_vars(CancelTimeout) /\ WF_vars(OkTimerEnd)
  /\ \A e \in Ends :
       /\ \A b \in Byes : WF_vars(ByeTimeout(e, b))
       /\ WF_vars(ByeOver(e)) /\ WF_vars(Notice(e)) /\ WF_vars(Release(e))

FairSpec == Spec /\ Fairness
------------------------------------------------------------------------------
(* Properties. *)

\* Types: each end, dialog and transaction keeps to its states.
TypeOK ==
  /\ user \in [Ends -> {"Idle", "Outgoing", "Incoming", "Running", "End", "Error", "Released"}]
  /\ op \in [Ends -> {"None", "Early", "Active", "Terminating", "Terminated"}]
  /\ dlg \in [Ends -> {"None", "NULL", "EARLY", "CONFIRMED", "TERMINATED"}]
  /\ prev \in [Ends -> {"None", "NULL", "EARLY", "CONFIRMED"}]
  /\ linked \in [Ends -> BOOLEAN]
  /\ due \in [Ends -> SUBSET {"notice", "release"}]
  /\ missed \in [Ends -> BOOLEAN]
  /\ bye \in [Ends -> [Byes -> {"None", "TRYING", "COMPLETED", "TimedOut", "Done"}]]
  /\ served \in [Ends -> BOOLEAN]
  /\ ict \in {"None", "CALLING", "PROCEEDING", "ACCEPTED", "TERMINATED"}
  /\ cancel \in {"None", "TRYING", "TimedOut", "Done"}
  /\ needsAck \in BOOLEAN /\ acked \in BOOLEAN
  /\ ist \in {"None", "PROCEEDING", "ACCEPTED", "COMPLETED"}
  /\ okTimer \in BOOLEAN
  /\ net \in [Ends -> Seq(Messages)]
  /\ lost \in [Ends -> SUBSET Messages]
  /\ faults \in 0..MaxFaults

\* What the two users see is a call: see CallView.
View == INSTANCE CallView WITH
  caller <- user[Caller], callee <- user[Callee],
  answered <- "CONFIRMED" \in {dlg[Callee], prev[Callee]}
CallViewSpec == View!Spec

\* A callee that is in a call whose caller is gone has something that will
\* end it: the timer of a 2xx nobody has acknowledged, a BYE of the caller,
\* unless it was lost, or the BYE of belle-sip that the timer has sent, unless
\* nobody answered it in time.
ByeToCome == \E b \in Byes : bye[Caller][b] = "TRYING" \/ Request(b) \in lost[Callee]
NobodyTalksAlone ==
  user[Callee] = "Running" /\ (~Alive(Caller) \/ dlg[Caller] = "TERMINATED")
    => \/ okTimer
       \/ dlg[Callee] = "TERMINATED"
       \/ ByeToCome
       \/ bye[Callee]["internal BYE"] \in {"TRYING", "TimedOut"}

\* Nothing will release this end any more.
Stuck(e) ==
  \/ bye[e]["BYE"] = "TimedOut" /\ dlg[e] = "CONFIRMED"
  \/ e = Caller /\ ict = "PROCEEDING" /\ cancel = "TimedOut"
  \/ /\ e = Caller /\ ict = "PROCEEDING"
     /\ \E c \in {200, 487, 603} : Response("INVITE", c) \in lost[Caller]
  \/ missed[e]

\* Something will still move this end: a callback, the answer to its BYE or
\* that BYE's time-out, or, as long as there is no dialog to end, the caller's
\* INVITE or CANCEL.
Pending(e) ==
  \/ due[e] # {}
  \/ bye[e]["BYE"] = "TRYING"
  \/ e = Caller /\ ict = "CALLING"
  \/ /\ e = Caller /\ ict = "PROCEEDING"
     /\ \/ cancel = "TRYING"
        \/ \E c \in {200, 487, 603} : OnItsWay(Caller, Response("INVITE", c))

\* A call that is over for the user is never just forgotten: until the op is
\* released something is still to come, or it is stuck in a way Stuck names
\* (sal_call_terminate, call_process_timeout, process_dialog_terminated).
EndIsPending ==
  \A e \in Ends : user[e] \in {"End", "Error"} => Pending(e) \/ Stuck(e)

\* A call that is over for the user is released.
HangUpEnds ==
  \A e \in Ends : user[e] \in {"End", "Error"} ~> user[e] = "Released" \/ Stuck(e)

\* "or no response at all is received for the BYE (that is, a timeout is
\* returned by the client transaction), the UAC MUST consider the session
\* and the dialog terminated": the comment of dialog_update, dialog.c.
\* "dialog will terminated shortly": call_process_timeout, sal_op_call.c.
TimedOutByeEnds ==
  \A e \in Ends : bye[e]["BYE"] = "TimedOut" ~> dlg[e] # "CONFIRMED"
=============================================================================
