------------------------- MODULE SipCallEndProofs -------------------------
(***************************************************************************)
(* A call that is over for its user is never just forgotten, however many  *)
(* messages are lost or overtaken: until its op is released something is   *)
(* still to come, or it is stuck in one of the ways the model names.  The  *)
(* invariant says what each state of the dialog owes an end whose call is  *)
(* over: a dialog that is over its callbacks, a confirmed one a BYE, and   *)
(* a caller without one an INVITE or a CANCEL whose answer is on its way.  *)
(***************************************************************************)
EXTENDS SipCallByeProofs

\* What a call that is over waits for: the callbacks of its dialog, or an
\* answer to its BYE, unless it still has to end its dialog.
ToldLater(e) == dlg[e] = "TERMINATED" /\ Alive(e) => due[e] # {} \/ missed[e]
ByeOwed(e) ==
  user[e] \in {"End", "Error"} /\ dlg[e] = "CONFIRMED" => bye[e]["BYE"] \in {"TRYING", "TimedOut"}
DialogGone(e) == user[e] \in {"End", "Error"} /\ op[e] # "Terminating" => dlg[e] = "TERMINATED"
EndOver(e) == ToldLater(e) /\ ByeOwed(e) /\ DialogGone(e)

\* The dialog of the caller keeps up with its INVITE, and a caller that hung
\* up a ringing call has sent a CANCEL.
CallerOver ==
  /\ op[Caller] = "Early" => dlg[Caller] # "CONFIRMED"
  /\ dlg[Caller] # "NULL"
  /\ ict \in {"None", "CALLING"} => dlg[Caller] = "None" /\ ~linked[Caller]
  /\ ict = "PROCEEDING" => dlg[Caller] \in {"None", "EARLY"}
  /\ ict = "ACCEPTED" => dlg[Caller] \in {"CONFIRMED", "TERMINATED"}
  /\ ict = "TERMINATED" => dlg[Caller] = "TERMINATED" \/ (dlg[Caller] = "None" /\ ~Alive(Caller))
  /\ \A b \in Byes : bye[Caller][b] # "None" => ict = "ACCEPTED"
  /\ ict = "PROCEEDING" /\ op[Caller] = "Terminating" => cancel # "None"

\* The dialog of the callee keeps up with its transaction.
CalleeOver ==
  /\ dlg[Callee] = "CONFIRMED" => ist = "ACCEPTED"
  /\ dlg[Callee] = "TERMINATED" => ist \in {"ACCEPTED", "COMPLETED"}
  /\ dlg[Callee] = "None" <=> ist = "None"
  /\ ist # "None" => op[Caller] # "None"
  /\ ict = "None" <=> op[Caller] = "None"

\* A final answer that the caller has not taken is on its way or lost, and
\* nobody answers a CANCEL before it has answered the INVITE.
Final == ist \in {"ACCEPTED", "COMPLETED"}
Finals == {Response("INVITE", c) : c \in {200, 487, 603}}
Waiting == ict \in {"CALLING", "PROCEEDING"}
NetOver ==
  /\ Final /\ Waiting => \E m \in Finals : Holds(net[Caller], m) \/ m \in lost[Caller]
  /\ cancel = "Done" => Final
  /\ \A c \in {200, 481} : Holds(net[Caller], Response("CANCEL", c)) => Final

EndInvariant == (\A e \in Ends : EndOver(e)) /\ CallerOver /\ CalleeOver /\ NetOver
------------------------------------------------------------------------------
(* The messages the invariant is about, and the others.                      *)

\* No message that is sent answers a CANCEL.
Mild == {m \in Messages : m.of = "CANCEL" => m.code = 0}
MildOnes(ms) == ms \in Seq(Messages) /\ \A c \in {200, 481} : ~Holds(ms, Response("CANCEL", c))

LEMMA MildSent ==
  /\ MildOnes(<<>>)
  /\ \A a \in Mild : MildOnes(<<a>>)
  /\ \A a, b \in Mild : MildOnes(<<a, b>>)
<1>1. \A c \in {200, 481} : Response("CANCEL", c) \notin Mild
  BY DEF Mild, Response
<1> QED BY <1>1, HoldsLiteral, Literals DEF MildOnes, Mild

LEMMA MildMessages ==
  /\ Request("INVITE") \in Mild
  /\ Request("CANCEL") \in Mild
  /\ Request("ACK") \in Mild
  /\ Request("BYE") \in Mild
  /\ Request("internal BYE") \in Mild
  /\ \A c \in {100, 180, 200, 487, 603} : Response("INVITE", c) \in Mild
  /\ \A b \in Byes :
       Response(b, 200) \in Mild /\ Response(b, 481) \in Mild /\ Response(b, 501) \in Mild
<1>1. /\ Request("INVITE") \in Messages /\ Request("CANCEL") \in Messages
      /\ Request("ACK") \in Messages /\ Request("BYE") \in Messages
      /\ Request("internal BYE") \in Messages
  BY DEF Messages, Request, Byes
<1>2. \A c \in {100, 180, 200, 487, 603} :
        Response("INVITE", c) \in Messages /\ Response("INVITE", c).of = "INVITE"
  BY DEF Messages, Response
<1>3. \A b \in Byes, c \in {200, 481, 501} : Response(b, c) \in Messages /\ Response(b, c).of = b
  BY DEF Messages, Response
<1>4. "CANCEL" \notin Byes BY DEF Byes
<1>5. /\ Request("INVITE").code = 0 /\ Request("CANCEL").code = 0
      /\ Request("ACK").of = "ACK" /\ Request("BYE").of = "BYE"
      /\ Request("internal BYE").of = "internal BYE"
  BY DEF Request
<1>6. \A c \in {100, 180, 200, 487, 603} : Response("INVITE", c) \in Mild
  BY <1>2 DEF Mild
<1>7. \A b \in Byes :
        Response(b, 200) \in Mild /\ Response(b, 481) \in Mild /\ Response(b, 501) \in Mild
  BY <1>3, <1>4 DEF Mild
<1> QED BY <1>1, <1>5, <1>6, <1>7 DEF Mild

\* Only the INVITE has final answers.
LEMMA NotFinal ==
  /\ \A m \in {"INVITE", "CANCEL", "ACK"} \cup Byes : Request(m) \notin Finals
  /\ \A c : Response("CANCEL", c) \notin Finals
  /\ \A b \in Byes : \A c : Response(b, c) \notin Finals
  /\ \A c \in {100, 180} : Response("INVITE", c) \notin Finals
<1>1. \A m \in Finals : m.of = "INVITE" /\ m.code \in {200, 487, 603}
  BY DEF Finals, Response
<1>2. /\ \A m : Request(m).code = 0
      /\ \A m, c : Response(m, c).of = m /\ Response(m, c).code = c
  BY DEF Request, Response
<1>3. "INVITE" \notin Byes BY DEF Byes
<1> QED BY <1>1, <1>2, <1>3

\* The final answers that are waited for stay on their way, or are lost, and
\* the CANCEL is answered by who has answered the INVITE.
Stays ==
  /\ Waiting' => \A m \in Finals :
       Holds(net[Caller], m) => Holds(net'[Caller], m) \/ m \in lost'[Caller]
  /\ \A c \in {200, 481} :
       Holds(net'[Caller], Response("CANCEL", c)) =>
         Holds(net[Caller], Response("CANCEL", c)) \/ Final'

LEMMA SendStays ==
  ASSUME NetTyped, NEW e \in Ends, NEW ms, MildOnes(ms), Send(e, ms)
  PROVE  Stays
BY SentNet DEF Stays, MildOnes, Ends

LEMMA ReceiveStays ==
  ASSUME NetTyped, NEW e \in Ends, NEW r, NEW ms, MildOnes(ms), Receive(e, r, ms),
         e = Callee \/ r \notin Finals \/ ~Waiting'
  PROVE  Stays
<1>1. Caller # Callee /\ Caller \in Ends BY DEF Ends, Caller, Callee
<1> QED BY <1>1, ReceivedNet DEF Stays, MildOnes

LEMMA UnchangedStays == ASSUME net' = net PROVE Stays
BY DEF Stays

\* The callee answers the INVITE.
LEMMA AnswerSent ==
  ASSUME NetTyped, NEW c \in {200, 603}, Send(Callee, <<Response("INVITE", c)>>)
  PROVE  Stays /\ \E m \in Finals : Holds(net'[Caller], m)
<1> DEFINE m == Response("INVITE", c)
           ms == <<m>>
<1>0. m \in Mild
  <2>1. \A d \in {100, 180, 200, 487, 603} : Response("INVITE", d) \in Mild BY MildMessages
  <2>2. c \in {100, 180, 200, 487, 603} OBVIOUS
  <2> QED BY <2>1, <2>2
<1>1. MildOnes(ms) BY <1>0, MildSent
<1>2. Holds(ms, m) BY HoldsLiteral
<1>3. m \in Finals BY DEF Finals
<1>4. Send(Callee, ms) OBVIOUS
<1>5. Callee \in Ends /\ Caller \in Ends /\ Peer(Callee) = Caller
  BY DEF Ends, Peer, Caller, Callee
<1> HIDE DEF m, ms
<1>6. Holds(net'[Caller], m) BY <1>1, <1>2, <1>4, <1>5, SentNet DEF MildOnes
<1> QED BY <1>1, <1>3, <1>4, <1>5, <1>6, SendStays

\* The callee answers a CANCEL.
LEMMA CancelAnswered ==
  ASSUME NetTyped, NEW r, NEW ms \in Seq(Messages), Receive(Callee, r, ms), Final'
  PROVE  Stays /\ \A m : Holds(ms, m) => Holds(net'[Caller], m)
<1>1. Callee \in Ends /\ Caller \in Ends /\ Peer(Callee) = Caller /\ Caller # Callee
  BY DEF Ends, Peer, Caller, Callee
<1> QED BY <1>1, ReceivedNet DEF Stays

\* What keeps the messages meaningful.
Advances ==
  /\ lost[Caller] \subseteq lost'[Caller]
  /\ Final => Final'
  /\ Final' => Final \/ \E m \in Finals : Holds(net'[Caller], m)
  /\ Waiting' /\ Final => Waiting
  /\ cancel' = "Done" => cancel = "Done" \/ Final

LEMMA NetOverKept == ASSUME NetOver, Stays, Advances PROVE NetOver'
BY DEF NetOver, Stays, Advances
------------------------------------------------------------------------------
(* The steps.                                                                *)

\* An end that does nothing.
LEMMA OtherEnd ==
  ASSUME EndInvariant, NEW e \in Ends,
         UNCHANGED <<user[e], op[e], dlg[e], due[e], missed[e], bye[e]["BYE"]>>
  PROVE  EndOver(e)'
BY DEF EndInvariant, EndOver, ToldLater, ByeOwed, DialogGone, Alive

LEMMA CallEnds ==
  ASSUME IInv, EndInvariant, Call
  PROVE  EndInvariant'
<1> USE DEF Ends, Caller, Callee, byeVars, calleeVars, faultVars, Call, User, Op
<1>1. EndOver(Caller)'
  <2>1. ToldLater(Caller)'
    BY DEF IInv, Local, EndInv, ToldLater
  <2>2. ByeOwed(Caller)'
    BY DEF ByeOwed
  <2>3. DialogGone(Caller)'
    BY DEF DialogGone
  <2> QED BY <2>1, <2>2, <2>3 DEF EndOver
<1>2. EndOver(Callee)'
  <2>1. UNCHANGED <<user[Callee], op[Callee], dlg[Callee], due[Callee], missed[Callee],
                  bye[Callee]["BYE"]>>
    OBVIOUS
  <2> QED BY <2>1, OtherEnd
<1>3. CallerOver'
  BY DEF IInv, Local, EndInv, CallerInv, EndInvariant, CallerOver
<1>4. CalleeOver'
  BY DEF IInv, Local, Typed, UserTyped, EndInvariant, CalleeOver
<1>5. NetOver'
  <2>1. MildOnes(<<Request("INVITE")>>) BY MildSent, MildMessages
  <2>2. Send(Caller, <<Request("INVITE")>>) OBVIOUS
  <2>3. Stays BY <2>1, <2>2, SendStays DEF IInv
  <2>4. Advances BY DEF IInv, Local, EndInv, EndInvariant, CalleeOver, Advances, Final
  <2> QED BY <2>3, <2>4, NetOverKept DEF EndInvariant
<1> QED BY <1>1, <1>2, <1>3, <1>4, <1>5 DEF EndInvariant

LEMMA RingEnds ==
  ASSUME IInv, EndInvariant, Ring
  PROVE  EndInvariant'
<1> USE DEF Ends, Caller, Callee, Alive, byeVars, callerVars, calleeVars, faultVars, Ring, SetDialog
<1>1. EndOver(Caller)'
  <2>1. UNCHANGED <<user[Caller], op[Caller], dlg[Caller], due[Caller], missed[Caller],
                  bye[Caller]["BYE"]>>
    OBVIOUS
  <2> QED BY <2>1, OtherEnd
<1>2. EndOver(Callee)'
  <2>1. ToldLater(Callee)'
    BY DEF ToldLater
  <2>2. ByeOwed(Callee)'
    BY DEF ByeOwed
  <2>3. DialogGone(Callee)'
    BY DEF DialogGone
  <2> QED BY <2>1, <2>2, <2>3 DEF EndOver
<1>3. CallerOver'
  BY DEF IInv, Local, Typed, DialogTyped, EndInvariant, CallerOver
<1>4. CalleeOver'
  BY DEF EndInvariant, CalleeOver
<1>5. NetOver'
  <2>1. MildOnes(<<Response("INVITE", 180)>>) BY MildSent, MildMessages
  <2>2. Send(Callee, <<Response("INVITE", 180)>>) OBVIOUS
  <2>3. Stays BY <2>1, <2>2, SendStays DEF IInv
  <2>4. Advances BY DEF Advances, Final, Waiting
  <2> QED BY <2>3, <2>4, NetOverKept DEF EndInvariant
<1> QED BY <1>1, <1>2, <1>3, <1>4, <1>5 DEF EndInvariant

LEMMA AcceptEnds ==
  ASSUME IInv, EndInvariant, Accept
  PROVE  EndInvariant'
<1> USE DEF Ends, Caller, Callee, Alive, byeVars, callerVars, faultVars, Accept, SetDialog, User
<1>1. EndOver(Caller)'
  <2>1. UNCHANGED <<user[Caller], op[Caller], dlg[Caller], due[Caller], missed[Caller],
                  bye[Caller]["BYE"]>>
    OBVIOUS
  <2> QED BY <2>1, OtherEnd
<1>2. EndOver(Callee)'
  <2>1. ToldLater(Callee)'
    BY DEF IInv, Local, Typed, DialogTyped, ToldLater
  <2>2. ByeOwed(Callee)'
    BY DEF ByeOwed
  <2>3. DialogGone(Callee)'
    BY DEF DialogGone
  <2> QED BY <2>1, <2>2, <2>3 DEF EndOver
<1>3. CallerOver'
  BY DEF IInv, Local, Typed, DialogTyped, EndInvariant, CallerOver
<1>4. CalleeOver'
  BY DEF IInv, Local, CalleeInv, EndInvariant, CalleeOver
<1>5. NetOver'
  <2>1. Send(Callee, <<Response("INVITE", 200)>>) OBVIOUS
  <2>2. Stays /\ \E m \in Finals : Holds(net'[Caller], m) BY <2>1, AnswerSent DEF IInv
  <2>3. Stays BY <2>2
  <2>4. Advances BY <2>2 DEF Advances, Final, Waiting
  <2> QED BY <2>3, <2>4, NetOverKept DEF EndInvariant
<1> QED BY <1>1, <1>2, <1>3, <1>4, <1>5 DEF EndInvariant

LEMMA DeclineEnds ==
  ASSUME IInv, EndInvariant, Decline
  PROVE  EndInvariant'
<1> USE DEF Ends, Caller, Callee, Alive, byeVars, callerVars, faultVars, Decline, Delete, SetDialog,
     User
<1>1. EndOver(Caller)'
  <2>1. UNCHANGED <<user[Caller], op[Caller], dlg[Caller], due[Caller], missed[Caller],
                  bye[Caller]["BYE"]>>
    OBVIOUS
  <2> QED BY <2>1, OtherEnd
<1>2. EndOver(Callee)'
  <2>1. ToldLater(Callee)'
    BY DEF IInv, Local, Typed, DialogTyped, ToldLater
  <2>2. ByeOwed(Callee)'
    BY DEF IInv, Local, Typed, DialogTyped, ByeOwed
  <2>3. DialogGone(Callee)'
    BY DEF IInv, Local, Typed, DialogTyped, DialogGone
  <2> QED BY <2>1, <2>2, <2>3 DEF EndOver
<1>3. CallerOver'
  BY DEF IInv, Local, Typed, DialogTyped, EndInvariant, CallerOver
<1>4. CalleeOver'
  BY DEF IInv, Local, CalleeInv, EndInvariant, CalleeOver
<1>5. NetOver'
  <2>1. Send(Callee, <<Response("INVITE", 603)>>) OBVIOUS
  <2>2. Stays /\ \E m \in Finals : Holds(net'[Caller], m) BY <2>1, AnswerSent DEF IInv
  <2>3. Stays BY <2>2
  <2>4. Advances BY <2>2 DEF Advances, Final, Waiting
  <2> QED BY <2>3, <2>4, NetOverKept DEF EndInvariant
<1> QED BY <1>1, <1>2, <1>3, <1>4, <1>5 DEF EndInvariant

LEMMA ReceiveAnswerEnds ==
  ASSUME IInv, EndInvariant, ReceiveAnswer
  PROVE  EndInvariant'
<1> USE DEF Ends, Caller, Callee, calleeVars, faultVars, ReceiveAnswer, Confirmed, NewSuccess,
     SetDialog, Op, User
<1>1. EndOver(Caller)'
  <2>1. ToldLater(Caller)'
    BY DEF IInv, Local, Typed, DialogTyped, ToldLater
  <2>2. ByeOwed(Caller)'
    BY DEF EndInvariant, EndOver, ByeOwed, DialogGone
  <2>3. DialogGone(Caller)'
    BY DEF EndInvariant, EndOver, DialogGone
  <2> QED BY <2>1, <2>2, <2>3 DEF EndOver
<1>2. EndOver(Callee)'
  <2>1. UNCHANGED <<user[Callee], op[Callee], dlg[Callee], due[Callee], missed[Callee],
                  bye[Callee]["BYE"]>>
    BY DEF IInv, Local, Typed, DialogTyped
  <2> QED BY <2>1, OtherEnd
<1>3. CallerOver'
  BY DEF IInv, Local, Typed, UserTyped, DialogTyped, CallerOver
<1>4. CalleeOver'
  BY DEF IInv, Local, Typed, DialogTyped, EndInvariant, CalleeOver
<1>5. NetOver'
  <2>1. MildOnes(<<Request("ACK")>>) BY MildSent, MildMessages
  <2>2. Receive(Caller, Response("INVITE", 200), <<Request("ACK")>>) OBVIOUS
  <2>w. ~Waiting' BY DEF Waiting
  <2>3. Stays BY <2>1, <2>2, <2>w, ReceiveStays DEF IInv
  <2>4. Advances BY DEF Advances, Final, Waiting
  <2> QED BY <2>3, <2>4, NetOverKept DEF EndInvariant
<1> QED BY <1>1, <1>2, <1>3, <1>4, <1>5 DEF EndInvariant

LEMMA ReceiveAnswerTooLateEnds ==
  ASSUME IInv, EndInvariant, ReceiveAnswerTooLate
  PROVE  EndInvariant'
<1> USE DEF Ends, Caller, Callee, Byes, calleeVars, faultVars, ReceiveAnswerTooLate, Confirmed,
     SetDialog
<1>1. EndOver(Caller)'
  <2>1. ToldLater(Caller)'
    BY DEF IInv, Local, Typed, DialogTyped, ToldLater
  <2>2. ByeOwed(Caller)'
    BY DEF IInv, Local, TypedRest, ByeTyped, ByeOwed
  <2>3. DialogGone(Caller)'
    BY DEF DialogGone
  <2> QED BY <2>1, <2>2, <2>3 DEF EndOver
<1>2. EndOver(Callee)'
  <2>1. UNCHANGED <<user[Callee], op[Callee], dlg[Callee], due[Callee], missed[Callee],
                  bye[Callee]["BYE"]>>
    BY DEF IInv, Local, Typed, DialogTyped, TypedRest, ByeTyped
  <2> QED BY <2>1, OtherEnd
<1>3. CallerOver'
  BY DEF IInv, Local, Typed, DialogTyped, CallerOver
<1>4. CalleeOver'
  BY DEF IInv, Local, Typed, DialogTyped, EndInvariant, CalleeOver
<1>5. NetOver'
  <2>1. MildOnes(<<Request("BYE"), Request("internal BYE")>>) BY MildSent, MildMessages
  <2>2. Receive(Caller, Response("INVITE", 200),
                <<Request("BYE"), Request("internal BYE")>>)
    OBVIOUS
  <2>w. ~Waiting' BY DEF Waiting
  <2>3. Stays BY <2>1, <2>2, <2>w, ReceiveStays DEF IInv
  <2>4. Advances BY DEF Advances, Final, Waiting
  <2> QED BY <2>3, <2>4, NetOverKept DEF EndInvariant
<1> QED BY <1>1, <1>2, <1>3, <1>4, <1>5 DEF EndInvariant

LEMMA ReceiveAnswerAbandonedEnds ==
  ASSUME IInv, EndInvariant, ReceiveAnswerAbandoned
  PROVE  EndInvariant'
<1> USE DEF Ends, Caller, Callee, Alive, calleeVars, faultVars, ReceiveAnswerAbandoned, Confirmed,
     NewSuccess, SetDialog, SendBye
<1>1. EndOver(Caller)'
  <2>1. ToldLater(Caller)'
    BY DEF ToldLater
  <2>2. ByeOwed(Caller)'
    BY DEF IInv, Local, EndInv, ByeOwed
  <2>3. DialogGone(Caller)'
    BY DEF EndInvariant, EndOver, DialogGone
  <2> QED BY <2>1, <2>2, <2>3 DEF EndOver
<1>2. EndOver(Callee)'
  <2>1. UNCHANGED <<user[Callee], op[Callee], dlg[Callee], due[Callee], missed[Callee],
                  bye[Callee]["BYE"]>>
    BY DEF IInv, Local, Typed, DialogTyped, TypedRest, ByeTyped
  <2> QED BY <2>1, OtherEnd
<1>3. CallerOver'
  BY DEF IInv, Local, Typed, DialogTyped, CallerOver
<1>4. CalleeOver'
  BY DEF IInv, Local, Typed, DialogTyped, EndInvariant, CalleeOver
<1>5. NetOver'
  <2>1. MildOnes(<<Request("internal BYE")>>) BY MildSent, MildMessages
  <2>2. Receive(Caller, Response("INVITE", 200), <<Request("internal BYE")>>) OBVIOUS
  <2>w. ~Waiting' BY DEF Waiting
  <2>3. Stays BY <2>1, <2>2, <2>w, ReceiveStays DEF IInv
  <2>4. Advances BY DEF Advances, Final, Waiting
  <2> QED BY <2>3, <2>4, NetOverKept DEF EndInvariant
<1> QED BY <1>1, <1>2, <1>3, <1>4, <1>5 DEF EndInvariant

LEMMA ReceiveFailureEnds ==
  ASSUME IInv, EndInvariant, NEW c \in {487, 603}, ReceiveFailure(c)
  PROVE  EndInvariant'
<1> USE DEF Ends, Caller, Callee, Alive
<1>1. /\ ict \in {"CALLING", "PROCEEDING"} /\ ict' = "TERMINATED"
      /\ UNCHANGED <<bye, cancel, ist, missed, lost>>
  BY DEF ReceiveFailure, byeVars, calleeVars, faultVars
<1>2. UNCHANGED <<user[Callee], op[Callee], dlg[Callee], due[Callee]>>
  BY DEF ReceiveFailure, Delete, SetDialog, KeepDialog, Link, User, Released, Op, IInv, Local,
         Typed, UserTyped, DialogTyped
<1>3. op[Caller] # "None" BY <1>1 DEF IInv, Local, CallerInv
<1>4. \/ /\ dlg'[Caller] = "TERMINATED" /\ "notice" \in due'[Caller]
         /\ op'[Caller] = op[Caller]
      \/ /\ dlg[Caller] = "None" /\ dlg'[Caller] = "None"
         /\ op'[Caller] = "Terminated" /\ user'[Caller] = "Released"
  BY DEF ReceiveFailure, Delete, SetDialog, KeepDialog, Link, User, Released, Op, IInv, Local,
         Typed, UserTyped, DialogTyped, EndInv
<1>5. EndOver(Caller)' BY <1>4 DEF EndOver, ToldLater, ByeOwed, DialogGone
<1>6. EndOver(Callee)' BY <1>1, <1>2, OtherEnd
<1>7. CallerOver'
  BY <1>1, <1>4 DEF EndInvariant, CallerOver
<1>8. CalleeOver' BY <1>1, <1>2, <1>3, <1>4 DEF EndInvariant, CalleeOver
<1>9. NetOver'
  <2>1. MildOnes(<<>>) BY MildSent
  <2>2. Receive(Caller, Response("INVITE", c), <<>>) BY DEF ReceiveFailure
  <2>3. ~Waiting' BY <1>1 DEF Waiting
  <2>4. Stays BY <2>1, <2>2, <2>3, ReceiveStays DEF IInv
  <2>5. Advances BY <1>1 DEF Advances, Final, Waiting
  <2> QED BY <2>4, <2>5, NetOverKept DEF EndInvariant
<1> QED BY <1>5, <1>6, <1>7, <1>8, <1>9 DEF EndInvariant

LEMMA ReceiveStaleEnds ==
  ASSUME IInv, EndInvariant, NEW c \in {100, 180, 487, 603}, ReceiveStale(c)
  PROVE  EndInvariant'
<1>1. UNCHANGED <<user, op, dlg, linked, due, missed, bye, ict, cancel, ist, lost>>
  BY DEF ReceiveStale, endVars, byeVars, callerVars, calleeVars, faultVars
<1>2. ict \notin {"CALLING", "PROCEEDING"} /\ Receive(Caller, Response("INVITE", c), <<>>)
  BY DEF ReceiveStale
<1>3. \A e \in Ends : EndOver(e)' BY <1>1, OtherEnd
<1>4. CallerOver' /\ CalleeOver' BY <1>1 DEF EndInvariant, CallerOver, CalleeOver, Alive
<1>5. NetOver'
  <2>1. MildOnes(<<>>) BY MildSent
  <2>2. ~Waiting' BY <1>1, <1>2 DEF Waiting
  <2>3. Stays BY <1>2, <2>1, <2>2, ReceiveStays DEF IInv, Ends
  <2>4. Advances BY <1>1 DEF Advances, Final, Waiting
  <2> QED BY <2>3, <2>4, NetOverKept DEF EndInvariant
<1> QED BY <1>3, <1>4, <1>5 DEF EndInvariant

LEMMA ReceiveInviteEnds ==
  ASSUME IInv, EndInvariant, ReceiveInvite
  PROVE  EndInvariant'
<1> USE DEF Ends, Caller, Callee, Alive, byeVars, callerVars, faultVars, ReceiveInvite, Op,
     SetDialog, Link, User
<1>1. EndOver(Caller)'
  <2>1. UNCHANGED <<user[Caller], op[Caller], dlg[Caller], due[Caller], missed[Caller],
                  bye[Caller]["BYE"]>>
    OBVIOUS
  <2> QED BY <2>1, OtherEnd
<1>2. EndOver(Callee)'
  <2>1. ToldLater(Callee)'
    BY DEF IInv, Local, Typed, DialogTyped, ToldLater
  <2>2. ByeOwed(Callee)'
    BY DEF IInv, Local, Typed, DialogTyped, ByeOwed
  <2>3. DialogGone(Callee)'
    BY DEF IInv, Local, EndInv, DialogGone, CalleeInv
  <2> QED BY <2>1, <2>2, <2>3 DEF EndOver
<1>3. CallerOver'
  BY DEF IInv, Local, Typed, UserTyped, DialogTyped, LinkTyped, EndInvariant, CallerOver
<1>4. CalleeOver'
  <2>1. Called
    <3>1. <<Response("INVITE", 100)>> \in Seq(Messages) BY HarmlessSent, OtherMessages DEF Harmless
    <3>2. Holds(net[Callee], Request("INVITE")) BY <3>1, ReceiveNet DEF IInv
    <3> QED BY <3>2 DEF IInv, Genuine, Invited
  <2> QED BY <2>1 DEF IInv, Local, Typed, DialogTyped, EndInv, Called, EndInvariant, CalleeOver
<1>5. NetOver'
  <2>1. MildOnes(<<Response("INVITE", 100)>>) BY MildSent, MildMessages
  <2>2. Receive(Callee, Request("INVITE"), <<Response("INVITE", 100)>>) OBVIOUS
  <2>3. Stays BY <2>1, <2>2, ReceiveStays DEF IInv
  <2>4. Advances BY DEF Advances, Final
  <2> QED BY <2>3, <2>4, NetOverKept DEF EndInvariant
<1> QED BY <1>1, <1>2, <1>3, <1>4, <1>5 DEF EndInvariant

LEMMA ReceiveAckEnds ==
  ASSUME IInv, EndInvariant, ReceiveAck
  PROVE  EndInvariant'
<1> USE DEF Ends, Alive, endVars, byeVars, callerVars, faultVars, ReceiveAck
<1>1. EndOver(Caller)'
  <2>1. UNCHANGED <<user[Caller], op[Caller], dlg[Caller], due[Caller], missed[Caller],
                  bye[Caller]["BYE"]>>
    OBVIOUS
  <2> QED BY <2>1, OtherEnd
<1>2. EndOver(Callee)'
  <2>1. UNCHANGED <<user[Callee], op[Callee], dlg[Callee], due[Callee], missed[Callee],
                  bye[Callee]["BYE"]>>
    OBVIOUS
  <2> QED BY <2>1, OtherEnd
<1>3. CallerOver'
  BY DEF EndInvariant, CallerOver
<1>4. CalleeOver'
  BY DEF EndInvariant, CalleeOver
<1>5. NetOver'
  <2>1. MildOnes(<<>>) BY MildSent, MildMessages
  <2>2. Receive(Callee, Request("ACK"), <<>>) OBVIOUS
  <2>3. Stays BY <2>1, <2>2, ReceiveStays DEF IInv
  <2>4. Advances BY DEF Advances, Final, Waiting
  <2> QED BY <2>3, <2>4, NetOverKept DEF EndInvariant
<1> QED BY <1>1, <1>2, <1>3, <1>4, <1>5 DEF EndInvariant

LEMMA ResendOkEnds ==
  ASSUME IInv, EndInvariant, ResendOk
  PROVE  EndInvariant'
<1> USE DEF Ends, Alive, endVars, byeVars, callerVars, calleeVars, faultVars, ResendOk
<1>1. EndOver(Caller)'
  <2>1. UNCHANGED <<user[Caller], op[Caller], dlg[Caller], due[Caller], missed[Caller],
                  bye[Caller]["BYE"]>>
    OBVIOUS
  <2> QED BY <2>1, OtherEnd
<1>2. EndOver(Callee)'
  <2>1. UNCHANGED <<user[Callee], op[Callee], dlg[Callee], due[Callee], missed[Callee],
                  bye[Callee]["BYE"]>>
    OBVIOUS
  <2> QED BY <2>1, OtherEnd
<1>3. CallerOver'
  BY DEF EndInvariant, CallerOver
<1>4. CalleeOver'
  BY DEF EndInvariant, CalleeOver
<1>5. NetOver'
  <2>1. MildOnes(<<Response("INVITE", 200)>>) BY MildSent, MildMessages
  <2>2. Send(Callee, <<Response("INVITE", 200)>>) OBVIOUS
  <2>3. Stays BY <2>1, <2>2, SendStays DEF IInv
  <2>4. Advances BY DEF Advances, Final, Waiting
  <2> QED BY <2>3, <2>4, NetOverKept DEF EndInvariant
<1> QED BY <1>1, <1>2, <1>3, <1>4, <1>5 DEF EndInvariant

LEMMA OkTimerEndEnds ==
  ASSUME IInv, EndInvariant, OkTimerEnd
  PROVE  EndInvariant'
<1> USE DEF Ends, Caller, Callee, Byes, Alive, endVars, callerVars, faultVars, OkTimerEnd, SendBye
<1>1. EndOver(Caller)'
  <2>1. UNCHANGED <<user[Caller], op[Caller], dlg[Caller], due[Caller], missed[Caller],
                  bye[Caller]["BYE"]>>
    BY DEF IInv, Local, TypedRest, ByeTyped
  <2> QED BY <2>1, OtherEnd
<1>2. EndOver(Callee)'
  <2>1. UNCHANGED <<user[Callee], op[Callee], dlg[Callee], due[Callee], missed[Callee],
                  bye[Callee]["BYE"]>>
    BY DEF IInv, Local, TypedRest, ByeTyped
  <2> QED BY <2>1, OtherEnd
<1>3. CallerOver'
  BY DEF IInv, Local, TypedRest, ByeTyped, EndInvariant, CallerOver
<1>4. CalleeOver'
  BY DEF EndInvariant, CalleeOver
<1>5. NetOver'
  <2>1. MildOnes(<<Request("internal BYE")>>) BY MildSent, MildMessages
  <2>2. Send(Callee, <<Request("internal BYE")>>) OBVIOUS
  <2>3. Stays BY <2>1, <2>2, SendStays DEF IInv
  <2>4. Advances BY DEF Advances, Final, Waiting
  <2> QED BY <2>3, <2>4, NetOverKept DEF EndInvariant
<1> QED BY <1>1, <1>2, <1>3, <1>4, <1>5 DEF EndInvariant

LEMMA InviteTimeoutEnds ==
  ASSUME IInv, EndInvariant, InviteTimeout
  PROVE  EndInvariant'
<1> USE DEF Ends, Caller, Callee, Alive, byeVars, calleeVars, faultVars, InviteTimeout, Fail,
     KeepDialog, Released, User, Op
<1>1. EndOver(Caller)'
  <2>1. ToldLater(Caller)'
    BY DEF EndInvariant, EndOver, ToldLater
  <2>2. ByeOwed(Caller)'
    BY DEF IInv, Local, Typed, UserTyped, EndInvariant, EndOver, ByeOwed
  <2>3. DialogGone(Caller)'
    BY DEF IInv, Local, Typed, UserTyped, EndInvariant, EndOver, DialogGone
  <2> QED BY <2>1, <2>2, <2>3 DEF EndOver
<1>2. EndOver(Callee)'
  <2>1. UNCHANGED <<user[Callee], op[Callee], dlg[Callee], due[Callee], missed[Callee],
                  bye[Callee]["BYE"]>>
    BY DEF IInv, Local, Typed, UserTyped
  <2> QED BY <2>1, OtherEnd
<1>3. CallerOver'
  BY DEF IInv, Local, Typed, UserTyped, EndInvariant, CallerOver
<1>4. CalleeOver'
  BY DEF IInv, Local, Typed, UserTyped, EndInvariant, CalleeOver
<1>5. NetOver'
  <2>3. Stays BY UnchangedStays
  <2>4. Advances BY DEF Advances, Final, Waiting
  <2> QED BY <2>3, <2>4, NetOverKept DEF EndInvariant
<1> QED BY <1>1, <1>2, <1>3, <1>4, <1>5 DEF EndInvariant

LEMMA CancelTimeoutEnds ==
  ASSUME IInv, EndInvariant, CancelTimeout
  PROVE  EndInvariant'
<1> USE DEF Ends, Caller, Callee, Alive, byeVars, calleeVars, faultVars, CancelTimeout, Fail,
     KeepDialog, Released, User, Op, Link
<1>1. EndOver(Caller)'
  <2>1. ToldLater(Caller)'
    BY DEF EndInvariant, EndOver, ToldLater
  <2>2. ByeOwed(Caller)'
    BY DEF IInv, Local, Typed, UserTyped, EndInvariant, EndOver, ByeOwed
  <2>3. DialogGone(Caller)'
    BY DEF IInv, Local, Typed, UserTyped, EndInvariant, EndOver, DialogGone
  <2> QED BY <2>1, <2>2, <2>3 DEF EndOver
<1>2. EndOver(Callee)'
  <2>1. UNCHANGED <<user[Callee], op[Callee], dlg[Callee], due[Callee], missed[Callee],
                  bye[Callee]["BYE"]>>
    BY DEF IInv, Local, Typed, UserTyped
  <2> QED BY <2>1, OtherEnd
<1>3. CallerOver'
  BY DEF IInv, Local, Typed, UserTyped, LinkTyped, EndInvariant, CallerOver
<1>4. CalleeOver'
  BY DEF IInv, Local, Typed, UserTyped, CallerInv, EndInvariant, CalleeOver
<1>5. NetOver'
  <2>3. Stays BY UnchangedStays
  <2>4. Advances BY DEF Advances, Final, Waiting
  <2> QED BY <2>3, <2>4, NetOverKept DEF EndInvariant
<1> QED BY <1>1, <1>2, <1>3, <1>4, <1>5 DEF EndInvariant

LEMMA NoticeEnds ==
  ASSUME IInv, EndInvariant, NEW e \in Ends, Notice(e)
  PROVE  EndInvariant'
<1> USE DEF Ends, Callee, Alive, byeVars, callerVars, calleeVars, faultVars, Notice, User, Op
<1>1. EndOver(e)'
  <2>1. ToldLater(e)'
    BY DEF IInv, Local, Typed, DialogTyped, TypedRest, FlagsTyped, ToldLater
  <2>2. ByeOwed(e)'
    BY DEF IInv, Local, EndInv, ByeOwed
  <2>3. DialogGone(e)'
    BY DEF IInv, Local, Typed, UserTyped, EndInvariant, EndOver, DialogGone
  <2> QED BY <2>1, <2>2, <2>3 DEF EndOver
<1>2. \A f \in Ends : f # e => EndOver(f)'
  <2> SUFFICES ASSUME NEW f \in Ends, f # e PROVE EndOver(f)' OBVIOUS
  <2>1. UNCHANGED <<user[f], op[f], dlg[f], due[f], missed[f], bye[f]["BYE"]>>
    BY DEF IInv, Local, Typed, UserTyped, FlagsTyped
  <2> QED BY <2>1, OtherEnd
<1>3. CallerOver'
  BY DEF IInv, Local, Typed, UserTyped, EndInv, EndInvariant, CallerOver
<1>4. CalleeOver'
  BY DEF IInv, Local, Typed, UserTyped, EndInv, EndInvariant, CalleeOver
<1>5. NetOver'
  <2>3. Stays BY UnchangedStays
  <2>4. Advances BY DEF Advances, Final, Waiting
  <2> QED BY <2>3, <2>4, NetOverKept DEF EndInvariant
<1> QED BY <1>1, <1>2, <1>3, <1>4, <1>5 DEF EndInvariant

LEMMA ReleaseEnds ==
  ASSUME IInv, EndInvariant, NEW e \in Ends, Release(e)
  PROVE  EndInvariant'
<1> USE DEF Ends, Callee, Alive, byeVars, callerVars, calleeVars, faultVars, Release, Released,
     User, Op, Link
<1>1. EndOver(e)'
  <2>1. ToldLater(e)'
    BY DEF IInv, Local, Typed, UserTyped, EndInv, ToldLater
  <2>2. ByeOwed(e)'
    BY DEF IInv, Local, Typed, UserTyped, ByeOwed
  <2>3. DialogGone(e)'
    BY DEF IInv, Local, Typed, UserTyped, DialogGone
  <2> QED BY <2>1, <2>2, <2>3 DEF EndOver
<1>2. \A f \in Ends : f # e => EndOver(f)'
  <2> SUFFICES ASSUME NEW f \in Ends, f # e PROVE EndOver(f)' OBVIOUS
  <2>1. UNCHANGED <<user[f], op[f], dlg[f], due[f], missed[f], bye[f]["BYE"]>>
    BY DEF IInv, Local, Typed, UserTyped
  <2> QED BY <2>1, OtherEnd
<1>3. CallerOver'
  BY DEF IInv, Local, Typed, UserTyped, LinkTyped, EndInvariant, CallerOver
<1>4. CalleeOver'
  BY DEF IInv, Local, Typed, UserTyped, EndInv, EndInvariant, CalleeOver, Over
<1>5. NetOver'
  <2>3. Stays BY UnchangedStays
  <2>4. Advances BY DEF Advances, Final, Waiting
  <2> QED BY <2>3, <2>4, NetOverKept DEF EndInvariant
<1> QED BY <1>1, <1>2, <1>3, <1>4, <1>5 DEF EndInvariant

LEMMA ByeOverEnds ==
  ASSUME IInv, EndInvariant, NEW e \in Ends, ByeOver(e)
  PROVE  EndInvariant'
<1> USE DEF Ends, Alive, callerVars, calleeVars, faultVars, ByeOver, ReleaseUnlinked, KeepDialog,
     Released, User, Op, Link
<1>1. EndOver(e)'
  <2>1. ToldLater(e)'
    BY DEF EndInvariant, EndOver, ToldLater
  <2>2. ByeOwed(e)'
    BY DEF IInv, Local, Typed, UserTyped, EndInvariant, EndOver, ByeOwed
  <2>3. DialogGone(e)'
    BY DEF IInv, Local, Typed, UserTyped, EndInvariant, EndOver, DialogGone
  <2> QED BY <2>1, <2>2, <2>3 DEF EndOver
<1>2. \A f \in Ends : f # e => EndOver(f)'
  <2> SUFFICES ASSUME NEW f \in Ends, f # e PROVE EndOver(f)' OBVIOUS
  <2>1. UNCHANGED <<user[f], op[f], dlg[f], due[f], missed[f], bye[f]["BYE"]>>
    BY DEF IInv, Local, Typed, UserTyped, TypedRest, ByeTyped
  <2> QED BY <2>1, OtherEnd
<1>3. CallerOver'
  BY DEF IInv, Local, Typed, UserTyped, LinkTyped, TypedRest, ByeTyped, EndInvariant, CallerOver
<1>4. CalleeOver'
  BY DEF IInv, Local, Typed, UserTyped, EndInvariant, CalleeOver
<1>5. NetOver'
  <2>3. Stays BY UnchangedStays
  <2>4. Advances BY DEF Advances, Final, Waiting
  <2> QED BY <2>3, <2>4, NetOverKept DEF EndInvariant
<1> QED BY <1>1, <1>2, <1>3, <1>4, <1>5 DEF EndInvariant

LEMMA ByeTimeoutEnds ==
  ASSUME IInv, EndInvariant, NEW e \in Ends, NEW b \in Byes, ByeTimeout(e, b)
  PROVE  EndInvariant'
<1> USE DEF Ends, Alive, callerVars, calleeVars, faultVars, ByeTimeout, Fail, KeepDialog, Released,
     User, Op, Link
<1>1. EndOver(e)'
  <2>1. ToldLater(e)'
    BY DEF EndInvariant, EndOver, ToldLater
  <2>2. ByeOwed(e)'
    BY DEF IInv, Local, TypedRest, ByeTyped, EndInvariant, EndOver, ByeOwed
  <2>3. DialogGone(e)'
    BY DEF IInv, Local, Typed, UserTyped, EndInvariant, EndOver, DialogGone
  <2> QED BY <2>1, <2>2, <2>3 DEF EndOver
<1>2. \A f \in Ends : f # e => EndOver(f)'
  <2> SUFFICES ASSUME NEW f \in Ends, f # e PROVE EndOver(f)' OBVIOUS
  <2>1. UNCHANGED <<user[f], op[f], dlg[f], due[f], missed[f], bye[f]["BYE"]>>
    BY DEF IInv, Local, Typed, UserTyped, TypedRest, ByeTyped
  <2> QED BY <2>1, OtherEnd
<1>3. CallerOver'
  BY DEF IInv, Local, Typed, UserTyped, LinkTyped, TypedRest, ByeTyped, EndInvariant, CallerOver
<1>4. CalleeOver'
  BY DEF IInv, Local, Typed, UserTyped, EndInvariant, CallerOver, CalleeOver
<1>5. NetOver'
  <2>3. Stays BY UnchangedStays
  <2>4. Advances BY DEF Advances, Final, Waiting
  <2> QED BY <2>3, <2>4, NetOverKept DEF EndInvariant
<1> QED BY <1>1, <1>2, <1>3, <1>4, <1>5 DEF EndInvariant

LEMMA ReceiveProvisionalEnds ==
  ASSUME IInv, EndInvariant, NEW c \in {100, 180}, ReceiveProvisional(c)
  PROVE  EndInvariant'
<1> USE DEF Ends, Caller, Callee
<1> DEFINE cancels == op[Caller] = "Terminating" /\ cancel = "None"
           request == IF cancels THEN <<Request("CANCEL")>> ELSE <<>>
<1>1. /\ ict \in {"CALLING", "PROCEEDING"} /\ ict' = "PROCEEDING"
      /\ cancel' = IF cancels THEN "TRYING" ELSE cancel
      /\ Receive(Caller, Response("INVITE", c), request)
      /\ UNCHANGED <<user, op, due, missed, bye, ist, lost>>
  BY DEF ReceiveProvisional, byeVars, calleeVars, faultVars
<1>2. UNCHANGED dlg[Callee]
  BY DEF ReceiveProvisional, SetDialog, IInv, Local, Typed, DialogTyped
<1>3. dlg[Caller] \in {"None", "EARLY"} /\ dlg'[Caller] \in {"None", "EARLY"}
  BY <1>1
  DEF ReceiveProvisional, SetDialog, IInv, Local, Typed, DialogTyped, EndInvariant, CallerOver
<1>4. EndOver(Caller)'
  BY <1>1, <1>3 DEF EndInvariant, EndOver, ToldLater, ByeOwed, DialogGone
<1>5. EndOver(Callee)' BY <1>1, <1>2, OtherEnd
<1>6. op[Caller] # "None" BY <1>1 DEF IInv, Local, CallerInv
<1>7. CallerOver' BY <1>1, <1>3 DEF EndInvariant, CallerOver
<1>8. CalleeOver' BY <1>1, <1>2, <1>6 DEF EndInvariant, CalleeOver
<1>9. NetOver'
  <2>1. MildOnes(request) BY MildSent, MildMessages
  <2> HIDE DEF request
  <2>2. Stays BY <1>1, <2>1, NotFinal, ReceiveStays DEF IInv
  <2>3. Advances BY <1>1 DEF Advances, Final, Waiting
  <2> QED BY <2>2, <2>3, NetOverKept DEF EndInvariant
<1> QED BY <1>4, <1>5, <1>7, <1>8, <1>9 DEF EndInvariant

\* The answer to a CANCEL comes from a callee that has answered the INVITE.
LEMMA ReceiveCancelAnswerEnds ==
  ASSUME IInv, EndInvariant, NEW k \in {200, 481}, ReceiveCancelAnswer(k)
  PROVE  EndInvariant'
<1>1. /\ Receive(Caller, Response("CANCEL", k), <<>>)
      /\ cancel' \in {cancel, "Done"} /\ (cancel' = "None" <=> cancel = "None")
      /\ linked' = linked \/ linked' = [linked EXCEPT ![Caller] = FALSE]
      /\ UNCHANGED <<user, op, dlg, due, missed, bye, ict, ist, lost>>
  BY DEF ReceiveCancelAnswer, Link, byeVars, calleeVars, faultVars
<1>2. \A e \in Ends : EndOver(e)' BY <1>1, OtherEnd
<1>3. CallerOver'
  <2>1. linked'[Caller] => linked[Caller] BY <1>1 DEF IInv, Local, Typed, LinkTyped
  <2>2. /\ UNCHANGED <<op, dlg, bye, ict>>
        /\ cancel # "None" => cancel' # "None"
    BY <1>1
  <2> QED BY <2>1, <2>2 DEF EndInvariant, CallerOver, Alive
<1>4. CalleeOver' BY <1>1 DEF EndInvariant, CalleeOver
<1>5. NetOver'
  <2>1. MildOnes(<<>>) BY MildSent
  <2>2. Stays
    <3>1. \A x : Response("CANCEL", x) \notin Finals BY NotFinal
    <3> QED BY <1>1, <2>1, <3>1, ReceiveStays DEF IInv, Ends
  <2>3. Final BY <1>1, TakenNet DEF IInv, EndInvariant, NetOver, Ends
  <2>4. Advances BY <1>1, <2>3 DEF Advances, Final, Waiting
  <2> QED BY <2>2, <2>4, NetOverKept DEF EndInvariant
<1> QED BY <1>2, <1>3, <1>4, <1>5 DEF EndInvariant

LEMMA ReceiveAnswerAgainEnds ==
  ASSUME IInv, EndInvariant, ReceiveAnswerAgain
  PROVE  EndInvariant'
<1> USE DEF Ends, Alive
<1>1. /\ \/ Receive(Caller, Response("INVITE", 200), <<Request("ACK")>>)
         \/ Receive(Caller, Response("INVITE", 200), <<>>)
      /\ ict \notin {"CALLING", "PROCEEDING"}
      /\ UNCHANGED <<user, op, dlg, due, missed, bye, ict, cancel, ist, lost>>
  BY DEF ReceiveAnswerAgain, byeVars, callerVars, calleeVars, faultVars
<1>2. linked' = linked \/ ict = "ACCEPTED" BY DEF ReceiveAnswerAgain
<1>3. \A e \in Ends : EndOver(e)' BY <1>1, OtherEnd
<1>4. CallerOver' BY <1>1, <1>2 DEF EndInvariant, CallerOver
<1>5. CalleeOver' BY <1>1 DEF EndInvariant, CalleeOver
<1>6. NetOver'
  <2>1. MildOnes(<<>>) /\ MildOnes(<<Request("ACK")>>) BY MildSent, MildMessages
  <2>2. ~Waiting' BY <1>1 DEF Waiting
  <2>3. Stays BY <1>1, <2>1, <2>2, ReceiveStays DEF IInv
  <2>4. Advances BY <1>1 DEF Advances, Final, Waiting
  <2> QED BY <2>3, <2>4, NetOverKept DEF EndInvariant
<1> QED BY <1>3, <1>4, <1>5, <1>6 DEF EndInvariant

LEMMA ReceiveCancelEnds ==
  ASSUME IInv, EndInvariant, ReceiveCancel
  PROVE  EndInvariant'
<1> USE DEF Ends, Caller, Callee, Alive
<1> DEFINE request == Request("CANCEL")
           both == <<Response("CANCEL", 200), Response("INVITE", 487)>>
<1>1. UNCHANGED <<op, linked, missed, bye, ict, cancel, lost>>
  BY DEF ReceiveCancel, byeVars, callerVars, faultVars
<1>2. UNCHANGED <<user[Caller], dlg[Caller], due[Caller]>>
  BY DEF ReceiveCancel, Delete, SetDialog, KeepDialog, User, IInv, Local, Typed, UserTyped,
         DialogTyped
<1>3. EndOver(Caller)' BY <1>1, <1>2, OtherEnd
<1>4. CallerOver' BY <1>1, <1>2 DEF EndInvariant, CallerOver
<1>5. CASE dlg[Callee] \in {"NULL", "EARLY"}
  <2>1. ist' = "COMPLETED" /\ Receive(Callee, request, both) BY <1>5 DEF ReceiveCancel
  <2>2. dlg'[Callee] = "TERMINATED" /\ "notice" \in due'[Callee]
    BY <1>5 DEF ReceiveCancel, Delete, SetDialog, IInv, Local, Typed, DialogTyped
  <2>3. EndOver(Callee)' BY <2>2 DEF EndOver, ToldLater, ByeOwed, DialogGone
  <2>4. CalleeOver' BY <1>1, <1>5, <2>1, <2>2 DEF EndInvariant, CalleeOver
  <2>5. Response("INVITE", 487) \in Finals BY DEF Finals
  <2>6. both \in Seq(Messages) /\ Holds(both, Response("INVITE", 487))
    BY HoldsLiteral DEF Messages, Response
  <2> HIDE DEF request, both
  <2>7. Final' BY <2>1 DEF Final
  <2>8. Stays /\ Holds(net'[Caller], Response("INVITE", 487))
    BY <2>1, <2>6, <2>7, CancelAnswered DEF IInv
  <2>9. Advances BY <1>1, <2>5, <2>7, <2>8 DEF Advances, Waiting
  <2> QED BY <1>3, <1>4, <2>3, <2>4, <2>8, <2>9, NetOverKept DEF EndInvariant
<1>6. CASE dlg[Callee] \notin {"NULL", "EARLY"}
  <2>1. /\ UNCHANGED <<user, dlg, due, ist>>
        /\ \/ /\ Receive(Callee, request, <<Response("CANCEL", 481)>>)
              /\ dlg[Callee] \in {"CONFIRMED", "TERMINATED"}
           \/ Receive(Callee, request, <<>>)
    BY <1>6 DEF ReceiveCancel, KeepDialog
  <2>2. EndOver(Callee)' BY <1>1, <2>1, OtherEnd
  <2>3. CalleeOver' BY <1>1, <2>1 DEF EndInvariant, CalleeOver
  <2>4. Stays
    <3>1. CASE Receive(Callee, request, <<>>)
      <4>1. MildOnes(<<>>) BY MildSent
      <4> QED BY <3>1, <4>1, ReceiveStays DEF IInv
    <3>2. CASE /\ Receive(Callee, request, <<Response("CANCEL", 481)>>)
               /\ dlg[Callee] \in {"CONFIRMED", "TERMINATED"}
      <4>1. Final' BY <2>1, <3>2 DEF Final, EndInvariant, CalleeOver
      <4>2. <<Response("CANCEL", 481)>> \in Seq(Messages) BY DEF Messages, Response
      <4> QED BY <3>2, <4>1, <4>2, CancelAnswered DEF IInv
    <3> QED BY <2>1, <3>1, <3>2
  <2>5. Advances BY <1>1, <2>1 DEF Advances, Final, Waiting
  <2> QED BY <1>3, <1>4, <2>2, <2>3, <2>4, <2>5, NetOverKept DEF EndInvariant
<1> QED BY <1>5, <1>6

\* A caller or a callee in the call sends a BYE, a caller without a dialog a
\* CANCEL if it can, and one whose dialog is over is told so later.
LEMMA HangingUpEnds ==
  ASSUME IInv, EndInvariant, NEW e \in Ends, HangUp(e)
  PROVE  EndInvariant'
<1> USE DEF Ends, Caller, Callee, Byes, Alive
<1>1. /\ user[e] \in {"Outgoing", "Running"} /\ Alive(e) /\ op[e] # "None"
      /\ UNCHANGED <<dlg, due, missed, linked, ict, ist, lost>>
  BY DEF HangUp, KeepDialog, calleeVars, faultVars, IInv, Local, EndInv
<1>2. CASE linked[e] /\ dlg[e] = "CONFIRMED"
  <2>1. /\ op' = [op EXCEPT ![e] = "Terminating"] /\ bye' = [bye EXCEPT ![e]["BYE"] = "TRYING"]
        /\ Send(e, <<Request("BYE")>>) /\ UNCHANGED cancel
    BY <1>2 DEF HangUp, SendBye, Op
  <2>2. \A f \in Ends : /\ op'[f] = IF f = e THEN "Terminating" ELSE op[f]
                        /\ bye'[f]["BYE"] = IF f = e THEN "TRYING" ELSE bye[f]["BYE"]
                        /\ f # e => UNCHANGED <<user[f], bye[f]>>
    BY <2>1 DEF HangUp, User, IInv, Local, Typed, UserTyped, TypedRest, ByeTyped
  <2>3. EndOver(e)' BY <1>1, <1>2, <2>2 DEF EndOver, ToldLater, ByeOwed, DialogGone
  <2>4. \A f \in Ends : f # e => EndOver(f)' BY <1>1, <2>2, OtherEnd
  <2>5. e = Caller => ict = "ACCEPTED"
    BY <1>2 DEF IInv, Local, TypedRest, StateTyped, EndInvariant, CallerOver
  <2>6. CallerOver'
    <3>1. CASE e = Caller BY <1>1, <1>2, <2>1, <2>2, <2>5, <3>1 DEF CallerOver
    <3>2. CASE e # Caller BY <1>1, <2>1, <2>2, <3>2 DEF EndInvariant, CallerOver
    <3> QED BY <3>1, <3>2
  <2>7. CalleeOver' BY <1>1, <2>2 DEF EndInvariant, CalleeOver
  <2>8. MildOnes(<<Request("BYE")>>) BY MildSent, MildMessages
  <2>9. Stays BY <2>1, <2>8, SendStays DEF IInv
  <2>10. Advances BY <1>1, <2>1 DEF Advances, Final, Waiting
  <2> QED BY <2>3, <2>4, <2>6, <2>7, <2>9, <2>10, NetOverKept DEF EndInvariant
<1>3. CASE e = Caller /\ (~linked[e] \/ dlg[e] = "EARLY")
  <2>0. ~(linked[e] /\ dlg[e] = "CONFIRMED") /\ ~(linked[e] /\ dlg[e] = "TERMINATED") BY <1>3
  <2>1. /\ op' = [op EXCEPT ![e] = "Terminating"] /\ UNCHANGED bye
        /\ cancel' = "TRYING" \/ (ict # "PROCEEDING" /\ cancel' = cancel)
        /\ Send(Caller, <<Request("CANCEL")>>) \/ net' = net
        /\ cancel' # "Done" \/ cancel' = cancel
    BY <1>3, <2>0 DEF HangUp, Cancelling, Op
  <2>2. /\ op'[Caller] = "Terminating" /\ UNCHANGED <<user[Callee], op[Callee]>>
    BY <1>3, <2>1 DEF HangUp, User, IInv, Local, Typed, UserTyped
  <2>3. dlg[Caller] # "CONFIRMED"
    BY <1>1, <1>3 DEF IInv, Local, EndInv, CallerInv, EndInvariant, CallerOver
  <2>4. EndOver(Caller)'
    BY <1>1, <1>3, <2>2, <2>3 DEF EndInvariant, EndOver, ToldLater, ByeOwed, DialogGone
  <2>5. EndOver(Callee)' BY <1>1, <2>1, <2>2, OtherEnd
  <2>6. CallerOver' BY <1>1, <1>3, <2>1, <2>2 DEF EndInvariant, CallerOver
  <2>7. CalleeOver' BY <1>1, <1>3, <2>2 DEF EndInvariant, CalleeOver
  <2>8. MildOnes(<<Request("CANCEL")>>) BY MildSent, MildMessages
  <2>9. Stays BY <2>1, <2>8, SendStays, UnchangedStays DEF IInv
  <2>10. Advances BY <1>1, <2>1 DEF Advances, Final, Waiting
  <2> QED BY <2>4, <2>5, <2>6, <2>7, <2>9, <2>10, NetOverKept DEF EndInvariant
<1>4. CASE linked[e] /\ dlg[e] = "TERMINATED"
  <2>1. UNCHANGED <<op, bye, cancel, net>> BY <1>4 DEF HangUp
  <2>2. \A f \in Ends : f # e => user'[f] = user[f]
    BY DEF HangUp, User
  <2>3. EndOver(e)'
    BY <1>1, <1>4, <2>1 DEF EndInvariant, EndOver, ToldLater, ByeOwed, DialogGone
  <2>4. \A f \in Ends : f # e => EndOver(f)' BY <1>1, <2>1, <2>2, OtherEnd
  <2>5. CallerOver' /\ CalleeOver' BY <1>1, <2>1 DEF EndInvariant, CallerOver, CalleeOver
  <2>6. NetOver'
    BY <1>1, <2>1 DEF EndInvariant, NetOver, Final, Waiting
  <2> QED BY <2>3, <2>4, <2>5, <2>6 DEF EndInvariant
<1> QED BY <1>2, <1>3, <1>4 DEF HangUp

LEMMA ReceiveByeEnds ==
  ASSUME IInv, EndInvariant, NEW e \in Ends, NEW b \in Byes, ReceiveBye(e, b)
  PROVE  EndInvariant'
<1>1. UNCHANGED <<missed, linked, bye, ict, cancel, ist, lost>> BY DEF ReceiveBye, faultVars
<1>2. PICK ms : Receive(e, Request(b), ms)
               /\ \/ ms = <<>> \/ ms = <<Response(b, 200)>>
                  \/ ms = <<Response(b, 481)>> \/ ms = <<Response(b, 501)>>
  BY DEF ReceiveBye
<1>3. \/ UNCHANGED <<user, op, dlg, due>>
      \/ dlg[e] = "CONFIRMED" /\ Alive(e) /\ Delete(e) /\ User(e, "End") /\ Op(e, "Terminating")
  BY DEF ReceiveBye, KeepDialog
<1>4. \A f \in Ends : f # e => UNCHANGED <<user[f], op[f], dlg[f], due[f]>>
  BY <1>3 DEF Delete, SetDialog, User, Op, IInv, Local, Typed, UserTyped, DialogTyped
<1>5. \/ UNCHANGED <<user[e], op[e], dlg[e], due[e]>>
      \/ /\ dlg[e] = "CONFIRMED" /\ dlg'[e] = "TERMINATED" /\ "notice" \in due'[e]
         /\ op'[e] = "Terminating" /\ op[e] # "None"
  <2>1. CASE UNCHANGED <<user, op, dlg, due>> BY <2>1
  <2>2. CASE dlg[e] = "CONFIRMED" /\ Delete(e) /\ Op(e, "Terminating")
    BY <2>2 DEF Delete, SetDialog, Op, IInv, Local, Typed, UserTyped, DialogTyped, EndInv
  <2> QED BY <1>3, <2>1, <2>2
<1>6. \A f \in Ends : f # e => EndOver(f)' BY <1>1, <1>4, OtherEnd
<1>7. EndOver(e)'
  <2>1. CASE UNCHANGED <<user[e], op[e], dlg[e], due[e]>> BY <1>1, <2>1, OtherEnd
  <2>2. CASE dlg'[e] = "TERMINATED" /\ "notice" \in due'[e]
    BY <2>2 DEF EndOver, ToldLater, ByeOwed, DialogGone
  <2> QED BY <1>5, <2>1, <2>2
<1>8. CallerOver'
  <2>1. CASE e = Caller
    BY <1>1, <1>5, <2>1 DEF EndInvariant, CallerOver, Alive
  <2>2. CASE e # Caller BY <1>1, <1>4, <2>2 DEF EndInvariant, CallerOver, Ends, Alive
  <2> QED BY <2>1, <2>2
<1>9. CalleeOver' BY <1>1, <1>4, <1>5 DEF EndInvariant, CalleeOver, Ends
<1>10. NetOver'
  <2>1. MildOnes(ms)
    <3> DEFINE mild(x) ==
          Response(x, 200) \in Mild /\ Response(x, 481) \in Mild /\ Response(x, 501) \in Mild
    <3>0. \A x \in Byes : mild(x) BY MildMessages
    <3>1. mild(b) BY <3>0
    <3> QED BY <1>2, <3>1, MildSent
  <2>2. Request(b) \notin Finals BY NotFinal
  <2>3. Receive(e, Request(b), ms) BY <1>2
  <2>4. Stays BY <2>1, <2>2, <2>3, ReceiveStays DEF IInv
  <2>5. Advances BY <1>1 DEF Advances, Final, Waiting
  <2> QED BY <2>4, <2>5, NetOverKept DEF EndInvariant
<1> QED BY <1>6, <1>7, <1>8, <1>9, <1>10 DEF EndInvariant

\* The answer to a BYE ends a confirmed dialog: nothing is owed any more.
LEMMA ReceiveByeAnswerEnds ==
  ASSUME IInv, EndInvariant, NEW e \in Ends, NEW b \in Byes, NEW k \in {200, 481, 501},
         ReceiveByeAnswer(e, b, k)
  PROVE  EndInvariant'
<1> DEFINE answer == Response(b, k)
<1>1. /\ Receive(e, answer, <<>>)
      /\ UNCHANGED <<missed, user, op, ict, cancel, ist, lost>>
  BY DEF ReceiveByeAnswer, faultVars
<1>2. \/ UNCHANGED <<dlg, due, bye, linked>>
      \/ /\ bye[e][b] = "TRYING"
         /\ \E s \in {"COMPLETED", "Done"} : bye' = [bye EXCEPT ![e][b] = s]
         /\ \/ dlg[e] = "CONFIRMED" /\ Delete(e)
            \/ dlg[e] # "CONFIRMED" /\ UNCHANGED <<dlg, due>>
         /\ linked' = linked \/ linked' = [linked EXCEPT ![e] = TRUE]
  <2>1. CASE bye[e][b] = "TRYING" BY <2>1 DEF ReceiveByeAnswer, KeepDialog, Link
  <2>2. CASE bye[e][b] # "TRYING" BY <2>2 DEF ReceiveByeAnswer, KeepDialog
  <2> QED BY <2>1, <2>2
<1>r. answer \notin Finals
  <2>1. \A x : Response(b, x) \notin Finals BY NotFinal
  <2> QED BY <2>1
<1> HIDE DEF answer
<1>3. \A f \in Ends : f # e => UNCHANGED <<dlg[f], due[f], bye[f], linked[f]>>
  <2> SUFFICES ASSUME NEW f \in Ends, f # e
               PROVE  UNCHANGED <<dlg[f], due[f], bye[f], linked[f]>>
    OBVIOUS
  <2>1. UNCHANGED <<dlg[f], due[f]>>
    BY <1>2 DEF Delete, SetDialog, IInv, Local, Typed, DialogTyped
  <2>2. bye'[f] = bye[f] BY <1>2 DEF IInv, Local, TypedRest, ByeTyped
  <2>3. linked'[f] = linked[f] BY <1>2 DEF IInv, Local, Typed, LinkTyped
  <2> QED BY <2>1, <2>2, <2>3
<1>4. \/ UNCHANGED <<dlg[e], due[e], bye[e], linked[e]>>
      \/ /\ bye[e][b] = "TRYING"
         /\ \A x \in Byes : bye[e][x] = "None" => bye'[e][x] = "None"
         /\ \/ dlg[e] = "CONFIRMED" /\ dlg'[e] = "TERMINATED" /\ "notice" \in due'[e]
            \/ dlg[e] # "CONFIRMED" /\ UNCHANGED <<dlg[e], due[e]>>
  <2>1. CASE UNCHANGED <<dlg, due, bye, linked>> BY <2>1
  <2>2. ASSUME NEW s \in {"COMPLETED", "Done"}, bye[e][b] = "TRYING",
               bye' = [bye EXCEPT ![e][b] = s]
        PROVE  \A x \in Byes : bye[e][x] = "None" => bye'[e][x] = "None"
    BY <2>2
  <2>3. CASE dlg[e] = "CONFIRMED" /\ Delete(e)
    <3>1. dlg'[e] = "TERMINATED" /\ "notice" \in due'[e]
      BY <2>3 DEF Delete, SetDialog, IInv, Local, Typed, DialogTyped
    <3> QED BY <1>2, <2>1, <2>2, <2>3, <3>1
  <2> QED BY <1>2, <2>1, <2>2, <2>3
<1>5. \A f \in Ends : f # e => EndOver(f)' BY <1>1, <1>3, OtherEnd
<1>6. EndOver(e)'
  <2>1. CASE UNCHANGED <<dlg[e], due[e], bye[e], linked[e]>> BY <1>1, <2>1, OtherEnd
  <2>2. CASE dlg'[e] = "TERMINATED" /\ "notice" \in due'[e]
    BY <2>2 DEF EndOver, ToldLater, ByeOwed, DialogGone
  <2>3. CASE dlg[e] # "CONFIRMED" /\ UNCHANGED <<dlg[e], due[e]>>
    BY <1>1, <2>3 DEF Alive, EndInvariant, EndOver, ToldLater, ByeOwed, DialogGone
  <2> QED BY <1>4, <2>1, <2>2, <2>3
<1>7. CallerOver'
  <2>1. CASE e = Caller /\ bye[e][b] = "TRYING"
    <3>1. ict = "ACCEPTED" BY <2>1 DEF EndInvariant, CallerOver
    <3>2. dlg[Caller] \in {"CONFIRMED", "TERMINATED"} BY <3>1 DEF EndInvariant, CallerOver
    <3>3. dlg'[Caller] \in {"CONFIRMED", "TERMINATED"} BY <1>4, <2>1, <3>2
    <3>4. op[Caller] = "Early" => dlg'[Caller] # "CONFIRMED"
      BY <1>4, <2>1 DEF EndInvariant, CallerOver
    <3> QED BY <1>1, <3>1, <3>3, <3>4 DEF CallerOver
  <2>2. CASE ~(e = Caller /\ bye[e][b] = "TRYING")
    <3>1. UNCHANGED <<dlg[Caller], bye[Caller], linked[Caller]>>
      BY <1>3, <1>4, <2>2 DEF Ends
    <3> QED BY <1>1, <3>1 DEF EndInvariant, CallerOver, Alive
  <2> QED BY <2>1, <2>2
<1>8. CalleeOver'
  <2>1. \/ dlg'[Callee] = dlg[Callee]
        \/ dlg[Callee] = "CONFIRMED" /\ dlg'[Callee] = "TERMINATED"
    BY <1>3, <1>4 DEF Ends
  <2> QED BY <1>1, <2>1 DEF EndInvariant, CalleeOver
<1>9. NetOver'
  <2>1. MildOnes(<<>>) BY MildSent
  <2>3. Stays BY <1>1, <1>r, <2>1, ReceiveStays DEF IInv
  <2>4. Advances BY <1>1 DEF Advances, Final, Waiting
  <2> QED BY <2>3, <2>4, NetOverKept DEF EndInvariant
<1> QED BY <1>5, <1>6, <1>7, <1>8, <1>9 DEF EndInvariant

LEMMA LosingEnds ==
  ASSUME IInv, EndInvariant, Lose
  PROVE  EndInvariant'
<1>1. UNCHANGED <<user, op, dlg, linked, due, missed, bye, ict, cancel, ist>>
  BY DEF Lose, endVars, byeVars, callerVars, calleeVars
<1>2. PICK e \in Ends : /\ net[e] # <<>>
                       /\ net' = [net EXCEPT ![e] = Tail(net[e])]
                       /\ lost' = [lost EXCEPT ![e] = lost[e] \cup {Head(net[e])}]
  BY DEF Lose
<1>3. \A d \in Ends : net[d] \in Seq(Messages) BY DEF IInv, NetTyped
<1>4. \A d \in Ends : net'[d] = IF d = e THEN Tail(net[e]) ELSE net[d]
  BY <1>2 DEF IInv, NetTyped
<1>5. \A d \in Ends : \A m : Holds(net'[d], m) => Holds(net[d], m) BY <1>2, <1>3, <1>4, HoldsTail
<1>6. \A d \in Ends : lost[d] \subseteq lost'[d]
  BY <1>2
<1>7. \A d \in Ends : \A m : Holds(net[d], m) => Holds(net'[d], m) \/ m \in lost'[d]
  <2>1. \A m : m = Head(net[e]) => m \in lost'[e]
    BY <1>2 DEF IInv, Local, TypedRest, FaultTyped
  <2> QED BY <1>2, <1>3, <1>4, <2>1, HoldsRest
<1>8. \A f \in Ends : EndOver(f)' BY <1>1, OtherEnd
<1>9. CallerOver' /\ CalleeOver' BY <1>1 DEF EndInvariant, CallerOver, CalleeOver, Alive
<1>10. NetOver'
  <2>1. Stays BY <1>5, <1>7 DEF Stays, Ends
  <2>2. Advances BY <1>1, <1>6 DEF Advances, Final, Waiting, Ends
  <2> QED BY <2>1, <2>2, NetOverKept DEF EndInvariant
<1> QED BY <1>8, <1>9, <1>10 DEF EndInvariant

LEMMA OvertakingEnds ==
  ASSUME IInv, EndInvariant, Overtake
  PROVE  EndInvariant'
<1>1. UNCHANGED <<user, op, dlg, linked, due, missed, bye, ict, cancel, ist, lost>>
  BY DEF Overtake, endVars, byeVars, callerVars, calleeVars
<1>2. PICK e \in Ends : \E i \in 2..Len(net[e]) :
        net' = [net EXCEPT ![e] = [net[e] EXCEPT ![i - 1] = net[e][i], ![i] = net[e][i - 1]]]
  BY DEF Overtake
<1>3. PICK i \in 2..Len(net[e]) :
        net' = [net EXCEPT ![e] = [net[e] EXCEPT ![i - 1] = net[e][i], ![i] = net[e][i - 1]]]
  BY <1>2
<1> DEFINE s == net[e]
           t == [s EXCEPT ![i - 1] = s[i], ![i] = s[i - 1]]
<1>4. s \in Seq(Messages) /\ Len(s) \in Nat /\ DOMAIN s = 1..Len(s)
  BY LenProperties DEF IInv, NetTyped
<1>5. i - 1 \in DOMAIN s /\ i \in DOMAIN s /\ i - 1 # i BY <1>4
<1>6. \A m : Holds(t, m) <=> Holds(s, m)
  <2>1. DOMAIN t = DOMAIN s BY <1>4
  <2>2. \A k \in DOMAIN s : t[k] = IF k = i THEN s[i - 1] ELSE IF k = i - 1 THEN s[i] ELSE s[k]
    BY <1>4, <1>5
  <2> QED BY <1>5, <2>1, <2>2 DEF Holds
<1>7. \A d \in Ends : \A m : Holds(net'[d], m) <=> Holds(net[d], m)
  <2>1. net' = [net EXCEPT ![e] = t] BY <1>3
  <2> HIDE DEF t
  <2>2. \A d \in Ends : net'[d] = IF d = e THEN t ELSE net[d] BY <2>1 DEF IInv, NetTyped
  <2> QED BY <1>6, <2>2
<1>8. \A f \in Ends : EndOver(f)' BY <1>1, OtherEnd
<1>9. CallerOver' /\ CalleeOver' BY <1>1 DEF EndInvariant, CallerOver, CalleeOver, Alive
<1>10. NetOver'
  <2>1. Stays BY <1>7 DEF Stays, Ends
  <2>2. Advances BY <1>1 DEF Advances, Final, Waiting
  <2> QED BY <2>1, <2>2, NetOverKept DEF EndInvariant
<1> QED BY <1>8, <1>9, <1>10 DEF EndInvariant
------------------------------------------------------------------------------
(* The theorem.                                                              *)

LEMMA FirstOwes == Init => EndInvariant
<1> SUFFICES ASSUME Init PROVE EndInvariant OBVIOUS
<1>1. \A e \in Ends : EndOver(e) BY DEF Init, EndOver, ToldLater, ByeOwed, DialogGone
<1>2. CallerOver BY DEF Init, CallerOver, Ends
<1>3. CalleeOver BY DEF Init, CalleeOver, Ends
<1>4. NetOver
  <2>1. \A m : ~Holds(net[Caller], m) BY HoldsLiteral DEF Init, Ends
  <2> QED BY <2>1 DEF Init, NetOver, Final
<1> QED BY <1>1, <1>2, <1>3, <1>4 DEF EndInvariant

LEMMA NextOwes == IInv /\ EndInvariant /\ [Next]_vars => EndInvariant'
<1> SUFFICES ASSUME IInv, EndInvariant, [Next]_vars PROVE EndInvariant' OBVIOUS
<1>1. CASE Call \/ Ring \/ Accept \/ Decline
  BY <1>1, CallEnds, RingEnds, AcceptEnds, DeclineEnds
<1>2. ASSUME NEW e \in Ends, HangUp(e) PROVE EndInvariant' BY <1>2, HangingUpEnds
<1>3. ASSUME NEW e \in Ends, Takes(e) PROVE EndInvariant'
  BY <1>3, ReceiveByeEnds, ReceiveByeAnswerEnds DEF Takes
<1>4. CASE CallerTakes
  <2>1. ASSUME NEW c \in {100, 180}, ReceiveProvisional(c) PROVE EndInvariant'
    BY <2>1, ReceiveProvisionalEnds
  <2>2. CASE ReceiveAnswer \/ ReceiveAnswerTooLate \/ ReceiveAnswerAbandoned \/ ReceiveAnswerAgain
    BY <2>2, ReceiveAnswerEnds, ReceiveAnswerTooLateEnds, ReceiveAnswerAbandonedEnds,
       ReceiveAnswerAgainEnds
  <2>3. ASSUME NEW c \in {487, 603}, ReceiveFailure(c) PROVE EndInvariant'
    BY <2>3, ReceiveFailureEnds
  <2>4. ASSUME NEW c \in {100, 180, 487, 603}, ReceiveStale(c) PROVE EndInvariant'
    BY <2>4, ReceiveStaleEnds
  <2>5. ASSUME NEW c \in {200, 481}, ReceiveCancelAnswer(c) PROVE EndInvariant'
    BY <2>5, ReceiveCancelAnswerEnds
  <2> QED BY <1>3, <1>4, <2>1, <2>2, <2>3, <2>4, <2>5 DEF CallerTakes, Ends
<1>5. CASE CalleeTakes
  BY <1>3, <1>5, ReceiveInviteEnds, ReceiveCancelEnds, ReceiveAckEnds DEF CalleeTakes, Ends
<1>6. CASE InviteTimeout \/ CancelTimeout \/ ResendOk \/ OkTimerEnd
  BY <1>6, InviteTimeoutEnds, CancelTimeoutEnds, ResendOkEnds, OkTimerEndEnds
<1>7. ASSUME NEW e \in Ends, Timers(e) PROVE EndInvariant'
  BY <1>7, ByeTimeoutEnds, ByeOverEnds, NoticeEnds, ReleaseEnds DEF Timers
<1>8. CASE Lose \/ Overtake BY <1>8, LosingEnds, OvertakingEnds
<1>9. CASE UNCHANGED vars
  BY <1>9
  DEF vars, endVars, byeVars, callerVars, calleeVars, faultVars, EndInvariant, EndOver, ToldLater,
      ByeOwed, DialogGone, CallerOver, CalleeOver, NetOver, Alive, Final, Waiting
<1> QED BY <1>1, <1>2, <1>4, <1>5, <1>6, <1>7, <1>8, <1>9 DEF Next

\* An end whose call is over and whose dialog is not waits for the answer to a
\* BYE, or is a caller whose INVITE, CANCEL or final answer is on its way.
LEMMA SomethingIsPending == IInv /\ EndInvariant => EndIsPending
<1> SUFFICES ASSUME IInv, EndInvariant, NEW e \in Ends, user[e] \in {"End", "Error"}
             PROVE  Pending(e) \/ Stuck(e)
  BY DEF EndIsPending
<1>1. Alive(e) /\ op[e] # "None" /\ (op[e] = "Terminating" \/ dlg[e] = "TERMINATED")
  BY DEF IInv, Local, EndInv, Alive, EndInvariant, EndOver, DialogGone
<1>2. CASE dlg[e] = "TERMINATED"
  BY <1>1, <1>2 DEF EndInvariant, EndOver, ToldLater, Pending, Stuck
<1>3. CASE dlg[e] = "CONFIRMED"
  BY <1>3 DEF EndInvariant, EndOver, ByeOwed, Pending, Stuck
<1>4. CASE dlg[e] \notin {"CONFIRMED", "TERMINATED"}
  <2>1. e = Caller
    <3>1. user[Callee] \in {"End", "Error"} => dlg[Callee] \notin {"None", "NULL", "EARLY"}
      BY DEF IInv, Local, CalleeInv, EndInv, EndInvariant, CalleeOver, Ends
    <3>2. dlg[Callee] \in {"None", "NULL", "EARLY", "CONFIRMED", "TERMINATED"}
      BY DEF IInv, Local, Typed, DialogTyped, Ends
    <3> QED BY <1>4, <3>1, <3>2 DEF Ends
  <2>2. op[Caller] = "Terminating" BY <1>1, <1>4, <2>1
  <2>3. ict \in {"CALLING", "PROCEEDING"}
    BY <1>1, <1>4, <2>1, <2>2
    DEF IInv, Local, TypedRest, StateTyped, EndInvariant, CallerOver, CalleeOver
  <2>4. CASE ict = "CALLING" BY <2>1, <2>4 DEF Pending
  <2>5. CASE ict = "PROCEEDING"
    <3>1. cancel \in {"TRYING", "TimedOut", "Done"}
      BY <2>2, <2>5 DEF IInv, Local, TypedRest, StateTyped, EndInvariant, CallerOver
    <3>2. CASE cancel = "TRYING" BY <2>1, <2>5, <3>2 DEF Pending
    <3>3. CASE cancel = "TimedOut" BY <2>1, <2>5, <3>3 DEF Stuck
    <3>4. CASE cancel = "Done"
      <4>1. PICK m \in Finals : Holds(net[Caller], m) \/ m \in lost[Caller]
        BY <2>5, <3>4 DEF EndInvariant, NetOver, Waiting
      <4>2. PICK c \in {200, 487, 603} : m = Response("INVITE", c) BY DEF Finals
      <4>3. OnItsWay(Caller, m) \/ m \in lost[Caller] BY <4>1 DEF Holds, OnItsWay
      <4> QED BY <2>1, <2>5, <4>2, <4>3 DEF Pending, Stuck
    <3> QED BY <3>1, <3>2, <3>3, <3>4
  <2> QED BY <2>3, <2>4, <2>5
<1> QED BY <1>2, <1>3, <1>4

\* Whatever is lost or overtaken, an end whose call is over has a callback, a
\* message or a time-out to come, or is stuck in a way that Stuck names.
THEOREM EndIsAlwaysPending == Spec => []EndIsPending
BY Initial, Inductive, FirstOwes, NextOwes, SomethingIsPending, PTL DEF Spec
==============================================================================
