--------------------------- MODULE SipCallProofs ---------------------------
(***************************************************************************)
(* SipCall keeps its types and implements CallView, whatever is lost and   *)
(* overtaken.  The inductive invariant ties what the user is shown to the  *)
(* op and the dialog of each end, and the two messages that cross from one *)
(* end to the other, the INVITE and its 2xx, to what their sender did.     *)
(***************************************************************************)
EXTENDS SipCall, SequenceTheorems, TLAPS

Over == {"End", "Error", "Released"}

\* Either end: the op is over exactly when its user is told so.
EndInv(e) ==
  /\ user[e] = "Idle" <=> op[e] = "None"
  /\ user[e] = "Released" <=> op[e] = "Terminated"
  /\ op[e] = "Terminating" => user[e] \in {"End", "Error"}
  /\ op[e] = "None" => dlg[e] = "None"
  /\ user[e] = "Running" => linked[e]
  /\ "notice" \in due[e] => dlg[e] = "TERMINATED"
  /\ "release" \in due[e] => user[e] \in Over
  /\ dlg[e] = "TERMINATED" /\ prev[e] # "CONFIRMED" => user[e] \in Over

CallerInv ==
  /\ user[Caller] # "Incoming"
  /\ user[Caller] = "Outgoing" => op[Caller] = "Early"
  /\ user[Caller] = "Running" => op[Caller] = "Active"
  /\ op[Caller] = "Active" => dlg[Caller] \in {"CONFIRMED", "TERMINATED"}
  /\ cancel # "None" => op[Caller] \in {"Terminating", "Terminated"}
  /\ ict # "None" => op[Caller] # "None"

CalleeInv ==
  /\ user[Callee] \notin {"Outgoing", "Error"}
  /\ ist = "None" => op[Callee] = "None"
  /\ user[Callee] = "Incoming" <=> dlg[Callee] \in {"NULL", "EARLY"}
  /\ dlg[Callee] \in {"None", "NULL", "EARLY"} => prev[Callee] # "CONFIRMED"

CalleeLinked == op[Callee] \notin {"None", "Terminated"} => linked[Callee]
OkInv == okTimer => dlg[Callee] = "CONFIRMED"

\* Who has sent a BYE has a call.
ByeInv == \A e \in Ends : \A b \in Byes : bye[e][b] # "None" => op[e] # "None"

Called == user[Caller] # "Idle"
Answered == "CONFIRMED" \in {dlg[Callee], prev[Callee]}

\* Every INVITE on its way was sent, and every 2xx is an answer.
Holds(q, m) == \E i \in DOMAIN q : q[i] = m
Invited == Holds(net[Callee], Request("INVITE"))
Accepted == Holds(net[Caller], Response("INVITE", 200))
Genuine == (Invited => Called) /\ (Accepted => Answered)

\* The types, but for the messages on their way.
UserTyped ==
  /\ user \in [Ends -> {"Idle", "Outgoing", "Incoming", "Running", "End", "Error", "Released"}]
  /\ op \in [Ends -> {"None", "Early", "Active", "Terminating", "Terminated"}]
DialogTyped ==
  /\ dlg \in [Ends -> {"None", "NULL", "EARLY", "CONFIRMED", "TERMINATED"}]
  /\ prev \in [Ends -> {"None", "NULL", "EARLY", "CONFIRMED"}]
  /\ due \in [Ends -> SUBSET {"notice", "release"}]
LinkTyped == linked \in [Ends -> BOOLEAN]
ByeTyped == bye \in [Ends -> [Byes -> {"None", "TRYING", "COMPLETED", "TimedOut", "Done"}]]
FlagsTyped ==
  /\ missed \in [Ends -> BOOLEAN]
  /\ served \in [Ends -> BOOLEAN]
StateTyped ==
  /\ ict \in {"None", "CALLING", "PROCEEDING", "ACCEPTED", "TERMINATED"}
  /\ cancel \in {"None", "TRYING", "TimedOut", "Done"}
  /\ ist \in {"None", "PROCEEDING", "ACCEPTED", "COMPLETED"}
AckTyped == needsAck \in BOOLEAN /\ acked \in BOOLEAN /\ okTimer \in BOOLEAN
FaultTyped == lost \in [Ends -> SUBSET Messages] /\ faults \in 0..MaxFaults
Typed == UserTyped /\ DialogTyped /\ LinkTyped
TypedRest == ByeTyped /\ FlagsTyped /\ StateTyped /\ AckTyped /\ FaultTyped
NetTyped == net \in [Ends -> Seq(Messages)]

\* What the ends know, without the messages between them.
Local ==
  /\ Typed
  /\ TypedRest
  /\ \A e \in Ends : EndInv(e)
  /\ CallerInv
  /\ CalleeInv
  /\ CalleeLinked
  /\ OkInv
  /\ ByeInv

IInv == Local /\ NetTyped /\ Genuine

ViewStep ==
  \/ UNCHANGED <<user, Answered>>
  \/ View!Next
------------------------------------------------------------------------------
(* The messages.                                                             *)

LEMMA HoldsLiteral ==
  /\ \A m : ~Holds(<<>>, m)
  /\ \A a, m : Holds(<<a>>, m) <=> a = m
  /\ \A a, b, m : Holds(<<a, b>>, m) <=> a = m \/ b = m
<1>1. \A m : ~Holds(<<>>, m) BY DEF Holds
<1>2. \A a, m : Holds(<<a>>, m) <=> a = m BY DEF Holds
<1>3. \A a, b, m : Holds(<<a, b>>, m) <=> a = m \/ b = m BY DEF Holds
<1> QED BY <1>1, <1>2, <1>3

LEMMA HoldsConcat ==
  ASSUME NEW s \in Seq(Messages), NEW t \in Seq(Messages), NEW m, Holds(s \o t, m)
  PROVE  Holds(s, m) \/ Holds(t, m)
<1>1. PICK i \in DOMAIN (s \o t) : (s \o t)[i] = m BY DEF Holds
<1>2. /\ s \o t \in Seq(Messages)
      /\ Len(s \o t) = Len(s) + Len(t)
      /\ \A j \in 1..Len(s) + Len(t) : (s \o t)[j] = IF j <= Len(s) THEN s[j] ELSE t[j - Len(s)]
  BY ConcatProperties
<1>3. /\ Len(s) \in Nat /\ DOMAIN s = 1..Len(s)
      /\ Len(t) \in Nat /\ DOMAIN t = 1..Len(t)
      /\ DOMAIN (s \o t) = 1..Len(s \o t)
  BY <1>2, LenProperties
<1>4. i \in 1..Len(s) + Len(t) BY <1>1, <1>2, <1>3
<1>5. CASE i <= Len(s)
  <2>1. i \in DOMAIN s /\ s[i] = m BY <1>1, <1>2, <1>3, <1>4, <1>5
  <2> QED BY <2>1 DEF Holds
<1>6. CASE ~(i <= Len(s))
  <2>1. i - Len(s) \in DOMAIN t /\ t[i - Len(s)] = m BY <1>1, <1>2, <1>3, <1>4, <1>6
  <2> QED BY <2>1 DEF Holds
<1> QED BY <1>5, <1>6

LEMMA HoldsTail ==
  ASSUME NEW s \in Seq(Messages), s # <<>>, NEW m, Holds(Tail(s), m)
  PROVE  Holds(s, m)
<1>1. PICK i \in DOMAIN Tail(s) : Tail(s)[i] = m BY DEF Holds
<1>2. /\ Tail(s) \in Seq(Messages)
      /\ Len(Tail(s)) = Len(s) - 1
      /\ \A j \in 1..Len(Tail(s)) : Tail(s)[j] = s[j + 1]
  BY HeadTailProperties
<1>3. /\ Len(s) \in Nat /\ DOMAIN s = 1..Len(s)
      /\ DOMAIN Tail(s) = 1..Len(Tail(s))
  BY <1>2, LenProperties
<1>4. i + 1 \in DOMAIN s /\ s[i + 1] = m BY <1>1, <1>2, <1>3
<1> QED BY <1>4 DEF Holds

\* The head of a queue is in it.
LEMMA HoldsHead ==
  ASSUME NEW s \in Seq(Messages), s # <<>>
  PROVE  Holds(s, Head(s))
<1>1. Len(s) \in Nat /\ DOMAIN s = 1..Len(s) BY LenProperties
<1>2. 1 \in DOMAIN s /\ s[1] = Head(s) BY <1>1
<1> QED BY <1>2 DEF Holds

LEMMA Literals ==
  /\ <<>> \in Seq(Messages)
  /\ \A a \in Messages : <<a>> \in Seq(Messages)
  /\ \A a, b \in Messages : <<a, b>> \in Seq(Messages)
OBVIOUS

\* What a message that is sent adds to a queue.
LEMMA SendNet ==
  ASSUME NEW e \in Ends, NEW ms \in Seq(Messages), NetTyped, Send(e, ms)
  PROVE  /\ NetTyped'
         /\ \A d \in Ends : \A m : Holds(net'[d], m) =>
              Holds(net[d], m) \/ (d = Peer(e) /\ Holds(ms, m))
<1>1. Peer(e) \in Ends BY DEF Peer, Ends
<1>2. net[Peer(e)] \in Seq(Messages) BY <1>1 DEF NetTyped
<1>3. net[Peer(e)] \o ms \in Seq(Messages) BY <1>2
<1>4. net' = [net EXCEPT ![Peer(e)] = net[Peer(e)] \o ms] BY DEF Send
<1>5. NetTyped' BY <1>1, <1>3, <1>4 DEF NetTyped
<1>6. \A d \in Ends : net'[d] = IF d = Peer(e) THEN net[Peer(e)] \o ms ELSE net[d]
  BY <1>1, <1>4 DEF NetTyped
<1>7. \A d \in Ends : \A m : Holds(net'[d], m) =>
        Holds(net[d], m) \/ (d = Peer(e) /\ Holds(ms, m))
  BY <1>2, <1>6, HoldsConcat
<1> QED BY <1>5, <1>7

LEMMA ReceiveNet ==
  ASSUME NEW e \in Ends, NEW ms \in Seq(Messages), NEW r, NetTyped, Receive(e, r, ms)
  PROVE  /\ NetTyped'
         /\ Holds(net[e], r)
         /\ \A d \in Ends : \A m : Holds(net'[d], m) =>
              Holds(net[d], m) \/ (d = Peer(e) /\ Holds(ms, m))
<1>1. Peer(e) \in Ends /\ Peer(e) # e BY DEF Peer, Ends, Caller, Callee
<1>2. net[Peer(e)] \in Seq(Messages) /\ net[e] \in Seq(Messages) BY <1>1 DEF NetTyped
<1>3. net[e] # <<>> /\ Head(net[e]) = r BY DEF Receive
<1>4. net[Peer(e)] \o ms \in Seq(Messages) /\ Tail(net[e]) \in Seq(Messages)
  BY <1>2, <1>3
<1>5. /\ NetTyped'
      /\ \A d \in Ends : net'[d] = IF d = e THEN Tail(net[e])
                                    ELSE IF d = Peer(e) THEN net[Peer(e)] \o ms ELSE net[d]
  BY <1>1, <1>4 DEF NetTyped, Receive
<1>6. \A d \in Ends : \A m : Holds(net'[d], m) =>
        Holds(net[d], m) \/ (d = Peer(e) /\ Holds(ms, m))
  BY <1>2, <1>3, <1>5, HoldsConcat, HoldsTail
<1> QED BY <1>2, <1>3, <1>5, <1>6, HoldsHead

\* One entry of linked, or of bye, may change.
LEMMA LinkKept ==
  ASSUME LinkTyped, NEW e \in Ends,
         linked' = linked \/ \E b \in BOOLEAN : linked' = [linked EXCEPT ![e] = b]
  PROVE  LinkTyped'
BY DEF LinkTyped

LEMMA ByeKept ==
  ASSUME ByeTyped, NEW e \in Ends, NEW b \in Byes,
         \/ bye' = bye
         \/ \E s \in {"TRYING", "COMPLETED", "TimedOut", "Done"} :
                 bye' = [bye EXCEPT ![e][b] = s]
  PROVE  ByeTyped'
BY DEF ByeTyped


LEMMA ByeInvKept ==
  ASSUME ByeTyped, ByeInv, NEW e \in Ends, NEW b \in Byes,
         \A f \in Ends : op[f] # "None" => op'[f] # "None",
         \/ bye' = bye
         \/ /\ op[e] # "None"
            /\ \E s \in {"TRYING", "COMPLETED", "TimedOut", "Done"} :
                 bye' = [bye EXCEPT ![e][b] = s]
  PROVE  ByeInv'
BY DEF ByeTyped, ByeInv

LEMMA StopKept ==
  ASSUME AckTyped, NEW e \in Ends, StopOkTimer(e), ClearNeedsAck(e), acked' = acked
  PROVE  AckTyped' /\ (okTimer' => okTimer /\ e # Callee)
BY DEF AckTyped, StopOkTimer, ClearNeedsAck


\* The two messages the invariant is about are sent by who may send them.
Quiet == NetTyped' /\ (Invited' => Invited \/ Called') /\ (Accepted' => Accepted \/ Answered')

Other == Messages \ {Request("INVITE"), Response("INVITE", 200)}
Harmless(ms) ==
  /\ ms \in Seq(Messages)
  /\ ~Holds(ms, Request("INVITE")) /\ ~Holds(ms, Response("INVITE", 200))

LEMMA OtherMessages ==
  /\ Request("CANCEL") \in Other
  /\ Request("ACK") \in Other
  /\ Request("BYE") \in Other
  /\ Request("internal BYE") \in Other
  /\ Response("INVITE", 100) \in Other
  /\ Response("INVITE", 180) \in Other
  /\ Response("INVITE", 487) \in Other
  /\ Response("INVITE", 603) \in Other
  /\ Response("CANCEL", 200) \in Other
  /\ Response("CANCEL", 481) \in Other
<1>1. Request("CANCEL") \in Other
  BY DEF Other, Messages, Request, Response, Byes
<1>2. Request("ACK") \in Other
  BY DEF Other, Messages, Request, Response, Byes
<1>3. Request("BYE") \in Other
  BY DEF Other, Messages, Request, Response, Byes
<1>4. Request("internal BYE") \in Other
  BY DEF Other, Messages, Request, Response, Byes
<1>5. Response("INVITE", 100) \in Other
  BY DEF Other, Messages, Request, Response, Byes
<1>6. Response("INVITE", 180) \in Other
  BY DEF Other, Messages, Request, Response, Byes
<1>7. Response("INVITE", 487) \in Other
  BY DEF Other, Messages, Request, Response, Byes
<1>8. Response("INVITE", 603) \in Other
  BY DEF Other, Messages, Request, Response, Byes
<1>9. Response("CANCEL", 200) \in Other
  BY DEF Other, Messages, Request, Response, Byes
<1>10. Response("CANCEL", 481) \in Other
  BY DEF Other, Messages, Request, Response, Byes
<1> QED BY <1>1, <1>2, <1>3, <1>4, <1>5, <1>6, <1>7, <1>8, <1>9, <1>10

LEMMA ByeAnswers ==
  ASSUME NEW b \in Byes, NEW c \in {200, 481, 501}
  PROVE  Response(b, c) \in Other
<1>1. Response(b, c) \in Messages BY DEF Messages, Response
<1> QED BY <1>1 DEF Other, Request, Response, Byes

LEMMA HarmlessSent ==
  /\ Harmless(<<>>)
  /\ \A a \in Other : Harmless(<<a>>)
  /\ \A a, b \in Other : Harmless(<<a, b>>)
BY HoldsLiteral, Literals DEF Harmless, Other

LEMMA QuietSend ==
  ASSUME NetTyped, NEW e \in Ends, NEW ms, Harmless(ms), Send(e, ms)
  PROVE  Quiet
BY SendNet DEF Quiet, Harmless, Invited, Accepted, Ends

LEMMA QuietReceive ==
  ASSUME NetTyped, NEW e \in Ends, NEW r, NEW ms, Harmless(ms), Receive(e, r, ms)
  PROVE  Quiet
BY ReceiveNet DEF Quiet, Harmless, Invited, Accepted, Ends

LEMMA QuietUnchanged ==
  ASSUME NetTyped, net' = net
  PROVE  Quiet
BY DEF Quiet, NetTyped, Invited, Accepted

\* What the users are shown, and what is on its way, stay together.
LEMMA GenuineKept ==
  ASSUME Genuine, ViewStep, Quiet
  PROVE  Genuine'
<1>1. Called => Called'
  BY DEF Called, ViewStep, View!Next, View!Call, View!Ring, View!Answer, View!Connect,
         View!CallerEnds, View!CalleeEnds
<1>2. Answered => Answered'
  BY DEF Answered, ViewStep, View!Next, View!Call, View!Ring, View!Answer, View!Connect,
         View!CallerEnds, View!CalleeEnds
<1> QED BY <1>1, <1>2 DEF Genuine, Quiet

------------------------------------------------------------------------------
(* The steps.  Each keeps the invariant of the ends, shows the users a step  *)
(* of CallView, and sends nothing that was not meant.                        *)

LEMMA CallStep ==
  ASSUME IInv, Call
  PROVE  Local' /\ ViewStep /\ Quiet
<1> USE DEF IInv, Local, Ends, Caller, Callee, endVars, byeVars, callerVars, calleeVars,
      faultVars, Call, User, Op
<1>1. Typed'
  <2>1. UserTyped' BY DEF UserTyped, Typed
  <2>2. DialogTyped' BY DEF DialogTyped, Typed
  <2>3. LinkTyped' BY DEF LinkTyped, Typed
  <2> QED BY <2>1, <2>2, <2>3 DEF Typed
<1>2. TypedRest'
  <2>1. ByeTyped' BY DEF ByeTyped, Byes, TypedRest
  <2>2. FlagsTyped' BY DEF FlagsTyped, TypedRest
  <2>3. StateTyped' BY DEF StateTyped, TypedRest
  <2>4. AckTyped' BY DEF AckTyped, TypedRest
  <2>5. FaultTyped' BY DEF FaultTyped, TypedRest
  <2> QED BY <2>1, <2>2, <2>3, <2>4, <2>5 DEF TypedRest
<1>3. EndInv(Caller)' BY DEF Typed, UserTyped, DialogTyped, LinkTyped, EndInv, Over, CallerInv
<1>4. EndInv(Callee)'
  BY DEF Typed, UserTyped, DialogTyped, LinkTyped, EndInv, Over, CalleeInv, CalleeLinked
<1>5. CallerInv'
  BY DEF Typed, UserTyped, DialogTyped, LinkTyped, TypedRest, StateTyped, AckTyped, CallerInv,
         EndInv
<1>6. CalleeInv'
  BY DEF Typed, UserTyped, DialogTyped, LinkTyped, TypedRest, StateTyped, AckTyped, CalleeInv,
         EndInv
<1>7. CalleeLinked' BY DEF Typed, UserTyped, LinkTyped, CalleeInv, CalleeLinked, EndInv
<1>8. OkInv' BY DEF Typed, UserTyped, DialogTyped, CalleeInv, OkInv
<1>9. ByeInv' BY DEF ByeInv, Typed, UserTyped, DialogTyped, TypedRest, ByeTyped, Byes, EndInv, OkInv
<1>10. ViewStep
  BY DEF ViewStep, View!Next, View!Call, View!Ring, View!Answer, View!Connect,
         View!CallerEnds, View!CalleeEnds, Answered, Typed, UserTyped, DialogTyped, EndInv,
         Over, CallerInv, CalleeInv, CalleeLinked
<1>11. Quiet
  <2>1. <<Request("INVITE")>> \in Seq(Messages) BY Literals DEF Messages, Request
  <2>2. ~Holds(<<Request("INVITE")>>, Response("INVITE", 200)) BY HoldsLiteral DEF Request, Response
  <2>3. Called' BY DEF Called, Typed, UserTyped
  <2> QED BY <2>1, <2>2, <2>3, SendNet DEF Quiet, Invited, Accepted
<1> QED BY <1>1, <1>2, <1>3, <1>4, <1>5, <1>6, <1>7, <1>8, <1>9, <1>10, <1>11

LEMMA HangUpStep ==
  ASSUME NEW e \in Ends, IInv, HangUp(e)
  PROVE  Local' /\ ViewStep /\ Quiet
<1> USE DEF IInv, Local, Ends, Caller, Callee, endVars, byeVars, callerVars, calleeVars,
      faultVars, HangUp, User, Op, SendBye, Cancelling, KeepDialog
<1>1. Typed'
  <2>1. UserTyped' BY DEF UserTyped, Typed
  <2>2. DialogTyped' BY DEF DialogTyped, Typed
  <2>3. LinkTyped' BY DEF LinkTyped, Typed
  <2> QED BY <2>1, <2>2, <2>3 DEF Typed
<1>2. TypedRest'
  <2>1. ByeTyped'
    <3>1. bye' = bye \/ bye' = [bye EXCEPT ![e]["BYE"] = "TRYING"]
      OBVIOUS
    <3> QED BY <3>1, ByeKept DEF TypedRest, Byes
  <2>2. FlagsTyped' BY DEF FlagsTyped, TypedRest
  <2>3. StateTyped' BY DEF StateTyped, TypedRest
  <2>4. AckTyped' BY DEF AckTyped, TypedRest
  <2>5. FaultTyped' BY DEF FaultTyped, TypedRest
  <2> QED BY <2>1, <2>2, <2>3, <2>4, <2>5 DEF TypedRest
<1>3. EndInv(Caller)' BY DEF Typed, UserTyped, DialogTyped, LinkTyped, EndInv, Over, CallerInv
<1>4. EndInv(Callee)'
  BY DEF Typed, UserTyped, DialogTyped, LinkTyped, EndInv, Over, CalleeInv, CalleeLinked
<1>5. CallerInv'
  BY DEF Typed, UserTyped, DialogTyped, LinkTyped, TypedRest, StateTyped, AckTyped, CallerInv,
         EndInv
<1>6. CalleeInv'
  BY DEF Typed, UserTyped, DialogTyped, LinkTyped, TypedRest, StateTyped, AckTyped, CalleeInv,
         EndInv
<1>7. CalleeLinked' BY DEF Typed, UserTyped, LinkTyped, CalleeInv, CalleeLinked, EndInv
<1>8. OkInv' BY DEF Typed, UserTyped, DialogTyped, CalleeInv, OkInv
<1>9. ByeInv'
  <2>1. \A f \in Ends : op[f] # "None" => op'[f] # "None" BY DEF Typed, UserTyped
  <2>2. bye' = bye \/ bye' = [bye EXCEPT ![e]["BYE"] = "TRYING"]
    OBVIOUS
  <2>3. bye' # bye => op[e] # "None" BY DEF EndInv, ByeInv, Byes
  <2> QED BY <2>1, <2>2, <2>3, ByeInvKept DEF TypedRest, Byes
<1>10. ViewStep
  BY DEF ViewStep, View!Next, View!Call, View!Ring, View!Answer, View!Connect,
         View!CallerEnds, View!CalleeEnds, Answered, Typed, UserTyped, DialogTyped, EndInv,
         Over, CallerInv, CalleeInv, CalleeLinked
<1>11. Quiet
  <2>1. Harmless(<<Request("BYE")>>) BY HarmlessSent, OtherMessages
  <2>2. Harmless(<<Request("CANCEL")>>) BY HarmlessSent, OtherMessages
  <2>3. CASE Send(e, <<Request("BYE")>>) BY <2>3, <2>1, QuietSend
  <2>4. CASE Send(Caller, <<Request("CANCEL")>>) BY <2>4, <2>2, QuietSend
  <2>5. CASE net' = net BY <2>5, QuietUnchanged
  <2> QED BY <2>3, <2>4, <2>5
<1> QED BY <1>1, <1>2, <1>3, <1>4, <1>5, <1>6, <1>7, <1>8, <1>9, <1>10, <1>11

LEMMA ReceiveProvisionalStep ==
  ASSUME NEW c \in {100, 180}, IInv, ReceiveProvisional(c)
  PROVE  Local' /\ ViewStep /\ Quiet
<1> USE DEF IInv, Local, Ends, Caller, Callee, endVars, byeVars, callerVars, calleeVars,
      faultVars, ReceiveProvisional, SetDialog, Link, Alive
<1>1. Typed'
  <2>1. UserTyped' BY DEF UserTyped, Typed
  <2>2. DialogTyped' BY DEF DialogTyped, Typed
  <2>3. LinkTyped'
    <3>1. \/ linked' = linked
         \/ linked' = [linked EXCEPT ![Caller] = TRUE]
         \/ linked' = [linked EXCEPT ![Caller] = FALSE]
      OBVIOUS
    <3> QED BY <3>1, LinkKept DEF Typed
  <2> QED BY <2>1, <2>2, <2>3 DEF Typed
<1>2. TypedRest'
  <2>1. ByeTyped' BY DEF ByeTyped, Byes, TypedRest
  <2>2. FlagsTyped' BY DEF FlagsTyped, TypedRest
  <2>3. StateTyped' BY DEF StateTyped, TypedRest
  <2>4. AckTyped' BY DEF AckTyped, TypedRest
  <2>5. FaultTyped' BY DEF FaultTyped, TypedRest
  <2> QED BY <2>1, <2>2, <2>3, <2>4, <2>5 DEF TypedRest
<1>3. EndInv(Caller)' BY DEF Typed, UserTyped, DialogTyped, LinkTyped, EndInv, Over, CallerInv
<1>4. EndInv(Callee)'
  BY DEF Typed, UserTyped, DialogTyped, LinkTyped, EndInv, Over, CalleeInv, CalleeLinked
<1>5. CallerInv'
  BY DEF Typed, UserTyped, DialogTyped, LinkTyped, TypedRest, StateTyped, AckTyped, CallerInv,
         EndInv
<1>6. CalleeInv'
  BY DEF Typed, UserTyped, DialogTyped, LinkTyped, TypedRest, StateTyped, AckTyped, CalleeInv,
         EndInv
<1>7. CalleeLinked' BY DEF Typed, UserTyped, LinkTyped, CalleeInv, CalleeLinked, EndInv
<1>8. OkInv' BY DEF Typed, UserTyped, DialogTyped, CalleeInv, OkInv
<1>9. ByeInv' BY DEF ByeInv, Typed, UserTyped, DialogTyped, TypedRest, ByeTyped, Byes, EndInv, OkInv
<1>10. ViewStep
  BY DEF ViewStep, View!Next, View!Call, View!Ring, View!Answer, View!Connect,
         View!CallerEnds, View!CalleeEnds, Answered, Typed, UserTyped, DialogTyped, EndInv,
         Over, CallerInv, CalleeInv, CalleeLinked
<1>11. Quiet
  <2>1. Harmless(<<>>) BY HarmlessSent, OtherMessages
  <2>2. Harmless(<<Request("CANCEL")>>) BY HarmlessSent, OtherMessages
  <2>3. CASE Receive(Caller, Response("INVITE", c), <<>>) BY <2>3, <2>1, QuietReceive
  <2>4. CASE Receive(Caller, Response("INVITE", c), <<Request("CANCEL")>>) BY <2>4, <2>2,
           QuietReceive
  <2> QED BY <2>3, <2>4
<1> QED BY <1>1, <1>2, <1>3, <1>4, <1>5, <1>6, <1>7, <1>8, <1>9, <1>10, <1>11

LEMMA ReceiveAnswerStep ==
  ASSUME IInv, ReceiveAnswer
  PROVE  Local' /\ ViewStep /\ Quiet
<1> USE DEF IInv, Local, Ends, Caller, Callee, endVars, byeVars, callerVars, calleeVars,
      faultVars, ReceiveAnswer, Confirmed, NewSuccess, SetDialog, Link, Op, User
<1>1. Typed'
  <2>1. UserTyped' BY DEF UserTyped, Typed
  <2>2. DialogTyped' BY DEF DialogTyped, Typed
  <2>3. LinkTyped' BY DEF LinkTyped, Typed
  <2> QED BY <2>1, <2>2, <2>3 DEF Typed
<1>2. TypedRest'
  <2>1. ByeTyped' BY DEF ByeTyped, Byes, TypedRest
  <2>2. FlagsTyped' BY DEF FlagsTyped, TypedRest
  <2>3. StateTyped' BY DEF StateTyped, TypedRest
  <2>4. AckTyped' BY DEF AckTyped, TypedRest
  <2>5. FaultTyped' BY DEF FaultTyped, TypedRest
  <2> QED BY <2>1, <2>2, <2>3, <2>4, <2>5 DEF TypedRest
<1>3. EndInv(Caller)' BY DEF Typed, UserTyped, DialogTyped, LinkTyped, EndInv, Over, CallerInv
<1>4. EndInv(Callee)'
  BY DEF Typed, UserTyped, DialogTyped, LinkTyped, EndInv, Over, CalleeInv, CalleeLinked
<1>5. CallerInv'
  BY DEF Typed, UserTyped, DialogTyped, LinkTyped, TypedRest, StateTyped, AckTyped, CallerInv,
         EndInv
<1>6. CalleeInv'
  BY DEF Typed, UserTyped, DialogTyped, LinkTyped, TypedRest, StateTyped, AckTyped, CalleeInv,
         EndInv
<1>7. CalleeLinked' BY DEF Typed, UserTyped, LinkTyped, CalleeInv, CalleeLinked, EndInv
<1>8. OkInv' BY DEF Typed, UserTyped, DialogTyped, CalleeInv, OkInv
<1>9. ByeInv' BY DEF ByeInv, Typed, UserTyped, DialogTyped, TypedRest, ByeTyped, Byes, EndInv, OkInv
<1>10. Answered
  <2>1. <<Request("ACK")>> \in Seq(Messages) BY HarmlessSent, OtherMessages DEF Harmless
  <2>2. Holds(net[Caller], Response("INVITE", 200)) BY <2>1, ReceiveNet
  <2> QED BY <2>2 DEF Genuine, Accepted
<1>11. ViewStep
  BY <1>10 DEF ViewStep, View!Next, View!Call, View!Ring, View!Answer, View!Connect,
         View!CallerEnds, View!CalleeEnds, Answered, Typed, UserTyped, DialogTyped, EndInv,
         Over, CallerInv, CalleeInv, CalleeLinked
<1>12. Quiet
  <2>1. Harmless(<<Request("ACK")>>) BY HarmlessSent, OtherMessages
  <2> QED BY <2>1, QuietReceive DEF Ends
<1> QED BY <1>1, <1>2, <1>3, <1>4, <1>5, <1>6, <1>7, <1>8, <1>9, <1>11, <1>12

LEMMA ReceiveAnswerTooLateStep ==
  ASSUME IInv, ReceiveAnswerTooLate
  PROVE  Local' /\ ViewStep /\ Quiet
<1> USE DEF IInv, Local, Ends, Caller, Callee, endVars, byeVars, callerVars, calleeVars,
      faultVars, ReceiveAnswerTooLate, Confirmed, NewSuccess, SetDialog, Link
<1>1. Typed'
  <2>1. UserTyped' BY DEF UserTyped, Typed
  <2>2. DialogTyped' BY DEF DialogTyped, Typed
  <2>3. LinkTyped' BY DEF LinkTyped, Typed
  <2> QED BY <2>1, <2>2, <2>3 DEF Typed
<1>2. TypedRest'
  <2>1. ByeTyped' BY DEF ByeTyped, Byes, TypedRest
  <2>2. FlagsTyped' BY DEF FlagsTyped, TypedRest
  <2>3. StateTyped' BY DEF StateTyped, TypedRest
  <2>4. AckTyped' BY DEF AckTyped, TypedRest
  <2>5. FaultTyped' BY DEF FaultTyped, TypedRest
  <2> QED BY <2>1, <2>2, <2>3, <2>4, <2>5 DEF TypedRest
<1>3. EndInv(Caller)' BY DEF Typed, UserTyped, DialogTyped, LinkTyped, EndInv, Over, CallerInv
<1>4. EndInv(Callee)'
  BY DEF Typed, UserTyped, DialogTyped, LinkTyped, EndInv, Over, CalleeInv, CalleeLinked
<1>5. CallerInv'
  BY DEF Typed, UserTyped, DialogTyped, LinkTyped, TypedRest, StateTyped, AckTyped, CallerInv,
         EndInv
<1>6. CalleeInv'
  BY DEF Typed, UserTyped, DialogTyped, LinkTyped, TypedRest, StateTyped, AckTyped, CalleeInv,
         EndInv
<1>7. CalleeLinked' BY DEF Typed, UserTyped, LinkTyped, CalleeInv, CalleeLinked, EndInv
<1>8. OkInv' BY DEF Typed, UserTyped, DialogTyped, CalleeInv, OkInv
<1>9. ByeInv' BY DEF ByeInv, Typed, UserTyped, DialogTyped, TypedRest, ByeTyped, Byes, EndInv, OkInv
<1>10. ViewStep
  BY DEF ViewStep, View!Next, View!Call, View!Ring, View!Answer, View!Connect,
         View!CallerEnds, View!CalleeEnds, Answered, Typed, UserTyped, DialogTyped, EndInv,
         Over, CallerInv, CalleeInv, CalleeLinked
<1>11. Quiet
  <2>1. Harmless(<<Request("BYE"), Request("internal BYE")>>) BY HarmlessSent, OtherMessages
  <2> QED BY <2>1, QuietReceive DEF Ends
<1> QED BY <1>1, <1>2, <1>3, <1>4, <1>5, <1>6, <1>7, <1>8, <1>9, <1>10, <1>11

LEMMA ReceiveAnswerAbandonedStep ==
  ASSUME IInv, ReceiveAnswerAbandoned
  PROVE  Local' /\ ViewStep /\ Quiet
<1> USE DEF IInv, Local, Ends, Caller, Callee, endVars, byeVars, callerVars, calleeVars,
      faultVars, ReceiveAnswerAbandoned, Confirmed, NewSuccess, SetDialog, SendBye, Alive
<1>1. Typed'
  <2>1. UserTyped' BY DEF UserTyped, Typed
  <2>2. DialogTyped' BY DEF DialogTyped, Typed
  <2>3. LinkTyped' BY DEF LinkTyped, Typed
  <2> QED BY <2>1, <2>2, <2>3 DEF Typed
<1>2. TypedRest'
  <2>1. ByeTyped' BY DEF ByeTyped, Byes, TypedRest
  <2>2. FlagsTyped' BY DEF FlagsTyped, TypedRest
  <2>3. StateTyped' BY DEF StateTyped, TypedRest
  <2>4. AckTyped' BY DEF AckTyped, TypedRest
  <2>5. FaultTyped' BY DEF FaultTyped, TypedRest
  <2> QED BY <2>1, <2>2, <2>3, <2>4, <2>5 DEF TypedRest
<1>3. EndInv(Caller)' BY DEF Typed, UserTyped, DialogTyped, LinkTyped, EndInv, Over, CallerInv
<1>4. EndInv(Callee)'
  BY DEF Typed, UserTyped, DialogTyped, LinkTyped, EndInv, Over, CalleeInv, CalleeLinked
<1>5. CallerInv'
  BY DEF Typed, UserTyped, DialogTyped, LinkTyped, TypedRest, StateTyped, AckTyped, CallerInv,
         EndInv
<1>6. CalleeInv'
  BY DEF Typed, UserTyped, DialogTyped, LinkTyped, TypedRest, StateTyped, AckTyped, CalleeInv,
         EndInv
<1>7. CalleeLinked' BY DEF Typed, UserTyped, LinkTyped, CalleeInv, CalleeLinked, EndInv
<1>8. OkInv' BY DEF Typed, UserTyped, DialogTyped, CalleeInv, OkInv
<1>9. ByeInv' BY DEF ByeInv, Typed, UserTyped, DialogTyped, TypedRest, ByeTyped, Byes, EndInv, OkInv
<1>10. ViewStep
  BY DEF ViewStep, View!Next, View!Call, View!Ring, View!Answer, View!Connect,
         View!CallerEnds, View!CalleeEnds, Answered, Typed, UserTyped, DialogTyped, EndInv,
         Over, CallerInv, CalleeInv, CalleeLinked
<1>11. Quiet
  <2>1. Harmless(<<Request("internal BYE")>>) BY HarmlessSent, OtherMessages
  <2> QED BY <2>1, QuietReceive DEF Ends
<1> QED BY <1>1, <1>2, <1>3, <1>4, <1>5, <1>6, <1>7, <1>8, <1>9, <1>10, <1>11

LEMMA ReceiveAnswerAgainStep ==
  ASSUME IInv, ReceiveAnswerAgain
  PROVE  Local' /\ ViewStep /\ Quiet
<1> USE DEF IInv, Local, Ends, Caller, Callee, endVars, byeVars, callerVars, calleeVars,
      faultVars, ReceiveAnswerAgain, Link, Alive
<1>1. Typed'
  <2>1. UserTyped' BY DEF UserTyped, Typed
  <2>2. DialogTyped' BY DEF DialogTyped, Typed
  <2>3. LinkTyped' BY DEF LinkTyped, Typed
  <2> QED BY <2>1, <2>2, <2>3 DEF Typed
<1>2. TypedRest'
  <2>1. ByeTyped' BY DEF ByeTyped, Byes, TypedRest
  <2>2. FlagsTyped' BY DEF FlagsTyped, TypedRest
  <2>3. StateTyped' BY DEF StateTyped, TypedRest
  <2>4. AckTyped' BY DEF AckTyped, TypedRest
  <2>5. FaultTyped' BY DEF FaultTyped, TypedRest
  <2> QED BY <2>1, <2>2, <2>3, <2>4, <2>5 DEF TypedRest
<1>3. EndInv(Caller)' BY DEF Typed, UserTyped, DialogTyped, LinkTyped, EndInv, Over, CallerInv
<1>4. EndInv(Callee)'
  BY DEF Typed, UserTyped, DialogTyped, LinkTyped, EndInv, Over, CalleeInv, CalleeLinked
<1>5. CallerInv'
  BY DEF Typed, UserTyped, DialogTyped, LinkTyped, TypedRest, StateTyped, AckTyped, CallerInv,
         EndInv
<1>6. CalleeInv'
  BY DEF Typed, UserTyped, DialogTyped, LinkTyped, TypedRest, StateTyped, AckTyped, CalleeInv,
         EndInv
<1>7. CalleeLinked' BY DEF Typed, UserTyped, LinkTyped, CalleeInv, CalleeLinked, EndInv
<1>8. OkInv' BY DEF Typed, UserTyped, DialogTyped, CalleeInv, OkInv
<1>9. ByeInv' BY DEF ByeInv, Typed, UserTyped, DialogTyped, TypedRest, ByeTyped, Byes, EndInv, OkInv
<1>10. ViewStep
  BY DEF ViewStep, View!Next, View!Call, View!Ring, View!Answer, View!Connect,
         View!CallerEnds, View!CalleeEnds, Answered, Typed, UserTyped, DialogTyped, EndInv,
         Over, CallerInv, CalleeInv, CalleeLinked
<1>11. Quiet
  <2>1. Harmless(<<Request("ACK")>>) BY HarmlessSent, OtherMessages
  <2>2. Harmless(<<>>) BY HarmlessSent, OtherMessages
  <2>3. CASE Receive(Caller, Response("INVITE", 200), <<Request("ACK")>>) BY <2>3, <2>1,
           QuietReceive
  <2>4. CASE Receive(Caller, Response("INVITE", 200), <<>>) BY <2>4, <2>2, QuietReceive
  <2> QED BY <2>3, <2>4
<1> QED BY <1>1, <1>2, <1>3, <1>4, <1>5, <1>6, <1>7, <1>8, <1>9, <1>10, <1>11

LEMMA ReceiveFailureStep ==
  ASSUME NEW c \in {487, 603}, IInv, ReceiveFailure(c)
  PROVE  Local' /\ ViewStep /\ Quiet
<1> USE DEF IInv, Local, Ends, Caller, Callee, endVars, byeVars, callerVars, calleeVars,
      faultVars, ReceiveFailure, Failure, Delete, SetDialog, KeepDialog, Link, User, Op,
      Released, Alive
<1>1. Typed'
  <2>1. UserTyped' BY DEF UserTyped, Typed
  <2>2. DialogTyped' BY DEF DialogTyped, Typed
  <2>3. LinkTyped'
    <3>1. \/ linked' = linked
         \/ linked' = [linked EXCEPT ![Caller] = TRUE]
         \/ linked' = [linked EXCEPT ![Caller] = FALSE]
      OBVIOUS
    <3> QED BY <3>1, LinkKept DEF Typed
  <2> QED BY <2>1, <2>2, <2>3 DEF Typed
<1>2. TypedRest'
  <2>1. ByeTyped' BY DEF ByeTyped, Byes, TypedRest
  <2>2. FlagsTyped' BY DEF FlagsTyped, TypedRest
  <2>3. StateTyped' BY DEF StateTyped, TypedRest
  <2>4. AckTyped' BY DEF AckTyped, TypedRest
  <2>5. FaultTyped' BY DEF FaultTyped, TypedRest
  <2> QED BY <2>1, <2>2, <2>3, <2>4, <2>5 DEF TypedRest
<1>3. EndInv(Caller)' BY DEF Typed, UserTyped, DialogTyped, LinkTyped, EndInv, Over, CallerInv
<1>4. EndInv(Callee)'
  BY DEF Typed, UserTyped, DialogTyped, LinkTyped, EndInv, Over, CalleeInv, CalleeLinked
<1>5. CallerInv'
  BY DEF Typed, UserTyped, DialogTyped, LinkTyped, TypedRest, StateTyped, AckTyped, CallerInv,
         EndInv
<1>6. CalleeInv'
  BY DEF Typed, UserTyped, DialogTyped, LinkTyped, TypedRest, StateTyped, AckTyped, CalleeInv,
         EndInv
<1>7. CalleeLinked' BY DEF Typed, UserTyped, LinkTyped, CalleeInv, CalleeLinked, EndInv
<1>8. OkInv' BY DEF Typed, UserTyped, DialogTyped, CalleeInv, OkInv
<1>9. ByeInv'
  <2>1. \A f \in Ends : op[f] # "None" => op'[f] # "None" BY DEF Typed, UserTyped
  <2>2. bye' = bye
    OBVIOUS
  <2> QED BY <2>1, <2>2, ByeInvKept DEF TypedRest, Byes
<1>10. ViewStep
  BY DEF ViewStep, View!Next, View!Call, View!Ring, View!Answer, View!Connect,
         View!CallerEnds, View!CalleeEnds, Answered, Typed, UserTyped, DialogTyped, EndInv,
         Over, CallerInv, CalleeInv, CalleeLinked
<1>11. Quiet
  <2>1. Harmless(<<>>) BY HarmlessSent, OtherMessages
  <2> QED BY <2>1, QuietReceive DEF Ends
<1> QED BY <1>1, <1>2, <1>3, <1>4, <1>5, <1>6, <1>7, <1>8, <1>9, <1>10, <1>11

LEMMA ReceiveStaleStep ==
  ASSUME NEW c \in {100, 180, 487, 603}, IInv, ReceiveStale(c)
  PROVE  Local' /\ ViewStep /\ Quiet
<1> USE DEF IInv, Local, Ends, Caller, Callee, endVars, byeVars, callerVars, calleeVars,
      faultVars, ReceiveStale
<1>1. Typed'
  <2>1. UserTyped' BY DEF UserTyped, Typed
  <2>2. DialogTyped' BY DEF DialogTyped, Typed
  <2>3. LinkTyped' BY DEF LinkTyped, Typed
  <2> QED BY <2>1, <2>2, <2>3 DEF Typed
<1>2. TypedRest'
  <2>1. ByeTyped' BY DEF ByeTyped, Byes, TypedRest
  <2>2. FlagsTyped' BY DEF FlagsTyped, TypedRest
  <2>3. StateTyped' BY DEF StateTyped, TypedRest
  <2>4. AckTyped' BY DEF AckTyped, TypedRest
  <2>5. FaultTyped' BY DEF FaultTyped, TypedRest
  <2> QED BY <2>1, <2>2, <2>3, <2>4, <2>5 DEF TypedRest
<1>3. EndInv(Caller)' BY DEF Typed, UserTyped, DialogTyped, LinkTyped, EndInv, Over, CallerInv
<1>4. EndInv(Callee)'
  BY DEF Typed, UserTyped, DialogTyped, LinkTyped, EndInv, Over, CalleeInv, CalleeLinked
<1>5. CallerInv'
  BY DEF Typed, UserTyped, DialogTyped, LinkTyped, TypedRest, StateTyped, AckTyped, CallerInv,
         EndInv
<1>6. CalleeInv'
  BY DEF Typed, UserTyped, DialogTyped, LinkTyped, TypedRest, StateTyped, AckTyped, CalleeInv,
         EndInv
<1>7. CalleeLinked' BY DEF Typed, UserTyped, LinkTyped, CalleeInv, CalleeLinked, EndInv
<1>8. OkInv' BY DEF Typed, UserTyped, DialogTyped, CalleeInv, OkInv
<1>9. ByeInv'
  <2>1. \A f \in Ends : op[f] # "None" => op'[f] # "None" BY DEF Typed, UserTyped
  <2>2. bye' = bye
    OBVIOUS
  <2> QED BY <2>1, <2>2, ByeInvKept DEF TypedRest, Byes
<1>10. ViewStep
  BY DEF ViewStep, View!Next, View!Call, View!Ring, View!Answer, View!Connect,
         View!CallerEnds, View!CalleeEnds, Answered, Typed, UserTyped, DialogTyped, EndInv,
         Over, CallerInv, CalleeInv, CalleeLinked
<1>11. Quiet
  <2>1. Harmless(<<>>) BY HarmlessSent, OtherMessages
  <2> QED BY <2>1, QuietReceive DEF Ends
<1> QED BY <1>1, <1>2, <1>3, <1>4, <1>5, <1>6, <1>7, <1>8, <1>9, <1>10, <1>11

LEMMA ReceiveCancelAnswerStep ==
  ASSUME NEW c \in {200, 481}, IInv, ReceiveCancelAnswer(c)
  PROVE  Local' /\ ViewStep /\ Quiet
<1> USE DEF IInv, Local, Ends, Caller, Callee, endVars, byeVars, callerVars, calleeVars,
      faultVars, ReceiveCancelAnswer, Link, Alive
<1>1. Typed'
  <2>1. UserTyped' BY DEF UserTyped, Typed
  <2>2. DialogTyped' BY DEF DialogTyped, Typed
  <2>3. LinkTyped'
    <3>1. linked' = linked \/ linked' = [linked EXCEPT ![Caller] = FALSE]
      OBVIOUS
    <3> QED BY <3>1, LinkKept DEF Typed
  <2> QED BY <2>1, <2>2, <2>3 DEF Typed
<1>2. TypedRest'
  <2>1. ByeTyped' BY DEF ByeTyped, Byes, TypedRest
  <2>2. FlagsTyped' BY DEF FlagsTyped, TypedRest
  <2>3. StateTyped' BY DEF StateTyped, TypedRest
  <2>4. AckTyped' BY DEF AckTyped, TypedRest
  <2>5. FaultTyped' BY DEF FaultTyped, TypedRest
  <2> QED BY <2>1, <2>2, <2>3, <2>4, <2>5 DEF TypedRest
<1>3. EndInv(Caller)' BY DEF Typed, UserTyped, DialogTyped, LinkTyped, EndInv, Over, CallerInv
<1>4. EndInv(Callee)'
  BY DEF Typed, UserTyped, DialogTyped, LinkTyped, EndInv, Over, CalleeInv, CalleeLinked
<1>5. CallerInv'
  BY DEF Typed, UserTyped, DialogTyped, LinkTyped, TypedRest, StateTyped, AckTyped, CallerInv,
         EndInv
<1>6. CalleeInv'
  BY DEF Typed, UserTyped, DialogTyped, LinkTyped, TypedRest, StateTyped, AckTyped, CalleeInv,
         EndInv
<1>7. CalleeLinked' BY DEF Typed, UserTyped, LinkTyped, CalleeInv, CalleeLinked, EndInv
<1>8. OkInv' BY DEF Typed, UserTyped, DialogTyped, CalleeInv, OkInv
<1>9. ByeInv'
  <2>1. \A f \in Ends : op[f] # "None" => op'[f] # "None" BY DEF Typed, UserTyped
  <2>2. bye' = bye
    OBVIOUS
  <2> QED BY <2>1, <2>2, ByeInvKept DEF TypedRest, Byes
<1>10. ViewStep
  BY DEF ViewStep, View!Next, View!Call, View!Ring, View!Answer, View!Connect,
         View!CallerEnds, View!CalleeEnds, Answered, Typed, UserTyped, DialogTyped, EndInv,
         Over, CallerInv, CalleeInv, CalleeLinked
<1>11. Quiet
  <2>1. Harmless(<<>>) BY HarmlessSent, OtherMessages
  <2> QED BY <2>1, QuietReceive DEF Ends
<1> QED BY <1>1, <1>2, <1>3, <1>4, <1>5, <1>6, <1>7, <1>8, <1>9, <1>10, <1>11

LEMMA ReceiveInviteStep ==
  ASSUME IInv, ReceiveInvite
  PROVE  Local' /\ ViewStep /\ Quiet
<1> USE DEF IInv, Local, Ends, Caller, Callee, endVars, byeVars, callerVars, calleeVars,
      faultVars, ReceiveInvite, SetDialog, Link, User, Op
<1>1. Typed'
  <2>1. UserTyped' BY DEF UserTyped, Typed
  <2>2. DialogTyped' BY DEF DialogTyped, UserTyped, Typed, CalleeInv, EndInv
  <2>3. LinkTyped' BY DEF LinkTyped, Typed
  <2> QED BY <2>1, <2>2, <2>3 DEF Typed
<1>2. TypedRest'
  <2>1. ByeTyped' BY DEF ByeTyped, Byes, TypedRest
  <2>2. FlagsTyped' BY DEF FlagsTyped, TypedRest
  <2>3. StateTyped' BY DEF StateTyped, TypedRest
  <2>4. AckTyped' BY DEF AckTyped, TypedRest
  <2>5. FaultTyped' BY DEF FaultTyped, TypedRest
  <2> QED BY <2>1, <2>2, <2>3, <2>4, <2>5 DEF TypedRest
<1>3. EndInv(Caller)' BY DEF Typed, UserTyped, DialogTyped, LinkTyped, EndInv, Over, CallerInv
<1>4. EndInv(Callee)'
  BY DEF Typed, UserTyped, DialogTyped, LinkTyped, EndInv, Over, CalleeInv, CalleeLinked
<1>5. CallerInv'
  BY DEF Typed, UserTyped, DialogTyped, LinkTyped, TypedRest, StateTyped, AckTyped, CallerInv,
         EndInv
<1>6. CalleeInv'
  BY DEF Typed, UserTyped, DialogTyped, LinkTyped, TypedRest, StateTyped, AckTyped, CalleeInv,
         EndInv
<1>7. CalleeLinked' BY DEF Typed, UserTyped, LinkTyped, CalleeInv, CalleeLinked, EndInv
<1>8. OkInv' BY DEF Typed, UserTyped, DialogTyped, CalleeInv, EndInv, OkInv
<1>9. ByeInv' BY DEF ByeInv, Typed, UserTyped, DialogTyped, TypedRest, ByeTyped, Byes, EndInv, OkInv
<1>10. Called
  <2>1. <<Response("INVITE", 100)>> \in Seq(Messages) BY HarmlessSent, OtherMessages DEF Harmless
  <2>2. Holds(net[Callee], Request("INVITE")) BY <2>1, ReceiveNet
  <2> QED BY <2>2 DEF Genuine, Invited
<1>11. ViewStep
  BY <1>10 DEF Called, ViewStep, View!Next, View!Call, View!Ring, View!Answer, View!Connect,
         View!CallerEnds, View!CalleeEnds, Answered, Typed, UserTyped, DialogTyped, EndInv,
         Over, CallerInv, CalleeInv, CalleeLinked
<1>12. Quiet
  <2>1. Harmless(<<Response("INVITE", 100)>>) BY HarmlessSent, OtherMessages
  <2> QED BY <2>1, QuietReceive DEF Ends
<1> QED BY <1>1, <1>2, <1>3, <1>4, <1>5, <1>6, <1>7, <1>8, <1>9, <1>11, <1>12

LEMMA RingStep ==
  ASSUME IInv, Ring
  PROVE  Local' /\ ViewStep /\ Quiet
<1> USE DEF IInv, Local, Ends, Caller, Callee, endVars, byeVars, callerVars, calleeVars,
      faultVars, Ring, SetDialog
<1>1. Typed'
  <2>1. UserTyped' BY DEF UserTyped, Typed
  <2>2. DialogTyped' BY DEF DialogTyped, Typed
  <2>3. LinkTyped' BY DEF LinkTyped, Typed
  <2> QED BY <2>1, <2>2, <2>3 DEF Typed
<1>2. TypedRest'
  <2>1. ByeTyped' BY DEF ByeTyped, Byes, TypedRest
  <2>2. FlagsTyped' BY DEF FlagsTyped, TypedRest
  <2>3. StateTyped' BY DEF StateTyped, TypedRest
  <2>4. AckTyped' BY DEF AckTyped, TypedRest
  <2>5. FaultTyped' BY DEF FaultTyped, TypedRest
  <2> QED BY <2>1, <2>2, <2>3, <2>4, <2>5 DEF TypedRest
<1>3. EndInv(Caller)' BY DEF Typed, UserTyped, DialogTyped, LinkTyped, EndInv, Over, CallerInv
<1>4. EndInv(Callee)'
  BY DEF Typed, UserTyped, DialogTyped, LinkTyped, EndInv, Over, CalleeInv, CalleeLinked
<1>5. CallerInv'
  BY DEF Typed, UserTyped, DialogTyped, LinkTyped, TypedRest, StateTyped, AckTyped, CallerInv,
         EndInv
<1>6. CalleeInv'
  BY DEF Typed, UserTyped, DialogTyped, LinkTyped, TypedRest, StateTyped, AckTyped, CalleeInv,
         EndInv
<1>7. CalleeLinked' BY DEF Typed, UserTyped, LinkTyped, CalleeInv, CalleeLinked, EndInv
<1>8. OkInv' BY DEF Typed, UserTyped, DialogTyped, CalleeInv, OkInv
<1>9. ByeInv' BY DEF ByeInv, Typed, UserTyped, DialogTyped, TypedRest, ByeTyped, Byes, EndInv, OkInv
<1>10. ViewStep
  BY DEF ViewStep, View!Next, View!Call, View!Ring, View!Answer, View!Connect,
         View!CallerEnds, View!CalleeEnds, Answered, Typed, UserTyped, DialogTyped, EndInv,
         Over, CallerInv, CalleeInv, CalleeLinked
<1>11. Quiet
  <2>1. Harmless(<<Response("INVITE", 180)>>) BY HarmlessSent, OtherMessages
  <2> QED BY <2>1, QuietSend DEF Ends
<1> QED BY <1>1, <1>2, <1>3, <1>4, <1>5, <1>6, <1>7, <1>8, <1>9, <1>10, <1>11

LEMMA AcceptStep ==
  ASSUME IInv, Accept
  PROVE  Local' /\ ViewStep /\ Quiet
<1> USE DEF IInv, Local, Ends, Caller, Callee, endVars, byeVars, callerVars, calleeVars,
      faultVars, Accept, SetDialog, User
<1>1. Typed'
  <2>1. UserTyped' BY DEF UserTyped, Typed
  <2>2. DialogTyped' BY DEF DialogTyped, UserTyped, Typed, CalleeInv, EndInv
  <2>3. LinkTyped' BY DEF LinkTyped, Typed
  <2> QED BY <2>1, <2>2, <2>3 DEF Typed
<1>2. TypedRest'
  <2>1. ByeTyped' BY DEF ByeTyped, Byes, TypedRest
  <2>2. FlagsTyped' BY DEF FlagsTyped, TypedRest
  <2>3. StateTyped' BY DEF StateTyped, TypedRest
  <2>4. AckTyped' BY DEF AckTyped, TypedRest
  <2>5. FaultTyped' BY DEF FaultTyped, TypedRest
  <2> QED BY <2>1, <2>2, <2>3, <2>4, <2>5 DEF TypedRest
<1>3. EndInv(Caller)' BY DEF Typed, UserTyped, DialogTyped, LinkTyped, EndInv, Over, CallerInv
<1>4. EndInv(Callee)'
  BY DEF Typed, UserTyped, DialogTyped, LinkTyped, EndInv, Over, CalleeInv, CalleeLinked
<1>5. CallerInv'
  BY DEF Typed, UserTyped, DialogTyped, LinkTyped, TypedRest, StateTyped, AckTyped, CallerInv,
         EndInv
<1>6. CalleeInv'
  BY DEF Typed, UserTyped, DialogTyped, LinkTyped, TypedRest, StateTyped, AckTyped, CalleeInv,
         EndInv
<1>7. CalleeLinked' BY DEF Typed, UserTyped, LinkTyped, CalleeInv, CalleeLinked, EndInv
<1>8. OkInv' BY DEF Typed, UserTyped, DialogTyped, CalleeInv, OkInv
<1>9. ByeInv' BY DEF ByeInv, Typed, UserTyped, DialogTyped, TypedRest, ByeTyped, Byes, EndInv, OkInv
<1>10. ViewStep
  BY DEF ViewStep, View!Next, View!Call, View!Ring, View!Answer, View!Connect,
         View!CallerEnds, View!CalleeEnds, Answered, Typed, UserTyped, DialogTyped, EndInv,
         Over, CallerInv, CalleeInv, CalleeLinked
<1>11. Quiet
  <2>1. <<Response("INVITE", 200)>> \in Seq(Messages) BY Literals DEF Messages, Response
  <2>2. ~Holds(<<Response("INVITE", 200)>>, Request("INVITE")) BY HoldsLiteral DEF Request, Response
  <2>3. Answered' BY DEF Answered, Typed, DialogTyped, OkInv
  <2> QED BY <2>1, <2>2, <2>3, SendNet DEF Quiet, Invited, Accepted
<1> QED BY <1>1, <1>2, <1>3, <1>4, <1>5, <1>6, <1>7, <1>8, <1>9, <1>10, <1>11

LEMMA DeclineStep ==
  ASSUME IInv, Decline
  PROVE  Local' /\ ViewStep /\ Quiet
<1> USE DEF IInv, Local, Ends, Caller, Callee, endVars, byeVars, callerVars, calleeVars,
      faultVars, Decline, Delete, SetDialog, User
<1>1. Typed'
  <2>1. UserTyped' BY DEF UserTyped, Typed
  <2>2. DialogTyped' BY DEF DialogTyped, UserTyped, Typed, CalleeInv, EndInv
  <2>3. LinkTyped' BY DEF LinkTyped, Typed
  <2> QED BY <2>1, <2>2, <2>3 DEF Typed
<1>2. TypedRest'
  <2>1. ByeTyped' BY DEF ByeTyped, Byes, TypedRest
  <2>2. FlagsTyped' BY DEF FlagsTyped, TypedRest
  <2>3. StateTyped' BY DEF StateTyped, TypedRest
  <2>4. AckTyped' BY DEF AckTyped, TypedRest
  <2>5. FaultTyped' BY DEF FaultTyped, TypedRest
  <2> QED BY <2>1, <2>2, <2>3, <2>4, <2>5 DEF TypedRest
<1>3. EndInv(Caller)' BY DEF Typed, UserTyped, DialogTyped, LinkTyped, EndInv, Over, CallerInv
<1>4. EndInv(Callee)'
  BY DEF Typed, UserTyped, DialogTyped, LinkTyped, EndInv, Over, CalleeInv, CalleeLinked
<1>5. CallerInv'
  BY DEF Typed, UserTyped, DialogTyped, LinkTyped, TypedRest, StateTyped, AckTyped, CallerInv,
         EndInv
<1>6. CalleeInv'
  BY DEF Typed, UserTyped, DialogTyped, LinkTyped, TypedRest, StateTyped, AckTyped, CalleeInv,
         EndInv
<1>7. CalleeLinked' BY DEF Typed, UserTyped, LinkTyped, CalleeInv, CalleeLinked, EndInv
<1>8. OkInv' BY DEF Typed, UserTyped, DialogTyped, CalleeInv, OkInv
<1>9. ByeInv' BY DEF ByeInv, Typed, UserTyped, DialogTyped, TypedRest, ByeTyped, Byes, EndInv, OkInv
<1>10. ViewStep
  BY DEF ViewStep, View!Next, View!Call, View!Ring, View!Answer, View!Connect,
         View!CallerEnds, View!CalleeEnds, Answered, Typed, UserTyped, DialogTyped, EndInv,
         Over, CallerInv, CalleeInv, CalleeLinked
<1>11. Quiet
  <2>1. Harmless(<<Response("INVITE", 603)>>) BY HarmlessSent, OtherMessages
  <2> QED BY <2>1, QuietSend DEF Ends
<1> QED BY <1>1, <1>2, <1>3, <1>4, <1>5, <1>6, <1>7, <1>8, <1>9, <1>10, <1>11

LEMMA ReceiveCancelStep ==
  ASSUME IInv, ReceiveCancel
  PROVE  Local' /\ ViewStep /\ Quiet
<1> USE DEF IInv, Local, Ends, Caller, Callee, endVars, byeVars, callerVars, calleeVars,
      faultVars, ReceiveCancel, Delete, SetDialog, KeepDialog, User
<1>1. Typed'
  <2>1. UserTyped' BY DEF UserTyped, Typed
  <2>2. DialogTyped' BY DEF DialogTyped, Typed
  <2>3. LinkTyped' BY DEF LinkTyped, Typed
  <2> QED BY <2>1, <2>2, <2>3 DEF Typed
<1>2. TypedRest'
  <2>1. ByeTyped' BY DEF ByeTyped, Byes, TypedRest
  <2>2. FlagsTyped' BY DEF FlagsTyped, TypedRest
  <2>3. StateTyped' BY DEF StateTyped, TypedRest
  <2>4. AckTyped' BY DEF AckTyped, TypedRest
  <2>5. FaultTyped' BY DEF FaultTyped, TypedRest
  <2> QED BY <2>1, <2>2, <2>3, <2>4, <2>5 DEF TypedRest
<1>3. EndInv(Caller)' BY DEF Typed, UserTyped, DialogTyped, LinkTyped, EndInv, Over, CallerInv
<1>4. EndInv(Callee)'
  BY DEF Typed, UserTyped, DialogTyped, LinkTyped, EndInv, Over, CalleeInv, CalleeLinked
<1>5. CallerInv'
  BY DEF Typed, UserTyped, DialogTyped, LinkTyped, TypedRest, StateTyped, AckTyped, CallerInv,
         EndInv
<1>6. CalleeInv'
  BY DEF Typed, UserTyped, DialogTyped, LinkTyped, TypedRest, StateTyped, AckTyped, CalleeInv,
         EndInv
<1>7. CalleeLinked' BY DEF Typed, UserTyped, LinkTyped, CalleeInv, CalleeLinked, EndInv
<1>8. OkInv' BY DEF Typed, UserTyped, DialogTyped, CalleeInv, OkInv
<1>9. ByeInv' BY DEF ByeInv, Typed, UserTyped, DialogTyped, TypedRest, ByeTyped, Byes, EndInv, OkInv
<1>10. ViewStep
  BY DEF ViewStep, View!Next, View!Call, View!Ring, View!Answer, View!Connect,
         View!CallerEnds, View!CalleeEnds, Answered, Typed, UserTyped, DialogTyped, EndInv,
         Over, CallerInv, CalleeInv, CalleeLinked
<1>11. Quiet
  <2>1. Harmless(<<Response("CANCEL", 200), Response("INVITE", 487)>>)
    BY HarmlessSent, OtherMessages
  <2>2. Harmless(<<Response("CANCEL", 481)>>) BY HarmlessSent, OtherMessages
  <2>3. Harmless(<<>>) BY HarmlessSent, OtherMessages
  <2>4. CASE Receive(Callee, Request("CANCEL"), <<Response("CANCEL", 200),
           Response("INVITE", 487)>>) BY <2>4, <2>1, QuietReceive
  <2>5. CASE Receive(Callee, Request("CANCEL"), <<Response("CANCEL", 481)>>) BY <2>5, <2>2,
           QuietReceive
  <2>6. CASE Receive(Callee, Request("CANCEL"), <<>>) BY <2>6, <2>3, QuietReceive
  <2> QED BY <2>4, <2>5, <2>6
<1> QED BY <1>1, <1>2, <1>3, <1>4, <1>5, <1>6, <1>7, <1>8, <1>9, <1>10, <1>11

LEMMA ReceiveAckStep ==
  ASSUME IInv, ReceiveAck
  PROVE  Local' /\ ViewStep /\ Quiet
<1> USE DEF IInv, Local, Ends, Caller, Callee, endVars, byeVars, callerVars, calleeVars,
      faultVars, ReceiveAck
<1>1. Typed'
  <2>1. UserTyped' BY DEF UserTyped, Typed
  <2>2. DialogTyped' BY DEF DialogTyped, Typed
  <2>3. LinkTyped' BY DEF LinkTyped, Typed
  <2> QED BY <2>1, <2>2, <2>3 DEF Typed
<1>2. TypedRest'
  <2>1. ByeTyped' BY DEF ByeTyped, Byes, TypedRest
  <2>2. FlagsTyped' BY DEF FlagsTyped, TypedRest
  <2>3. StateTyped' BY DEF StateTyped, TypedRest
  <2>4. AckTyped' BY DEF AckTyped, TypedRest
  <2>5. FaultTyped' BY DEF FaultTyped, TypedRest
  <2> QED BY <2>1, <2>2, <2>3, <2>4, <2>5 DEF TypedRest
<1>3. EndInv(Caller)' BY DEF Typed, UserTyped, DialogTyped, LinkTyped, EndInv, Over, CallerInv
<1>4. EndInv(Callee)'
  BY DEF Typed, UserTyped, DialogTyped, LinkTyped, EndInv, Over, CalleeInv, CalleeLinked
<1>5. CallerInv'
  BY DEF Typed, UserTyped, DialogTyped, LinkTyped, TypedRest, StateTyped, AckTyped, CallerInv,
         EndInv
<1>6. CalleeInv'
  BY DEF Typed, UserTyped, DialogTyped, LinkTyped, TypedRest, StateTyped, AckTyped, CalleeInv,
         EndInv
<1>7. CalleeLinked' BY DEF Typed, UserTyped, LinkTyped, CalleeInv, CalleeLinked, EndInv
<1>8. OkInv' BY DEF Typed, UserTyped, DialogTyped, CalleeInv, OkInv
<1>9. ByeInv' BY DEF ByeInv, Typed, UserTyped, DialogTyped, TypedRest, ByeTyped, Byes, EndInv, OkInv
<1>10. ViewStep
  BY DEF ViewStep, View!Next, View!Call, View!Ring, View!Answer, View!Connect,
         View!CallerEnds, View!CalleeEnds, Answered, Typed, UserTyped, DialogTyped, EndInv,
         Over, CallerInv, CalleeInv, CalleeLinked
<1>11. Quiet
  <2>1. Harmless(<<>>) BY HarmlessSent, OtherMessages
  <2> QED BY <2>1, QuietReceive DEF Ends
<1> QED BY <1>1, <1>2, <1>3, <1>4, <1>5, <1>6, <1>7, <1>8, <1>9, <1>10, <1>11

LEMMA ResendOkStep ==
  ASSUME IInv, ResendOk
  PROVE  Local' /\ ViewStep /\ Quiet
<1> USE DEF IInv, Local, Ends, Caller, Callee, endVars, byeVars, callerVars, calleeVars,
      faultVars, ResendOk
<1>1. Typed'
  <2>1. UserTyped' BY DEF UserTyped, Typed
  <2>2. DialogTyped' BY DEF DialogTyped, Typed
  <2>3. LinkTyped' BY DEF LinkTyped, Typed
  <2> QED BY <2>1, <2>2, <2>3 DEF Typed
<1>2. TypedRest'
  <2>1. ByeTyped' BY DEF ByeTyped, Byes, TypedRest
  <2>2. FlagsTyped' BY DEF FlagsTyped, TypedRest
  <2>3. StateTyped' BY DEF StateTyped, TypedRest
  <2>4. AckTyped' BY DEF AckTyped, TypedRest
  <2>5. FaultTyped' BY DEF FaultTyped, TypedRest
  <2> QED BY <2>1, <2>2, <2>3, <2>4, <2>5 DEF TypedRest
<1>3. EndInv(Caller)' BY DEF Typed, UserTyped, DialogTyped, LinkTyped, EndInv, Over, CallerInv
<1>4. EndInv(Callee)'
  BY DEF Typed, UserTyped, DialogTyped, LinkTyped, EndInv, Over, CalleeInv, CalleeLinked
<1>5. CallerInv'
  BY DEF Typed, UserTyped, DialogTyped, LinkTyped, TypedRest, StateTyped, AckTyped, CallerInv,
         EndInv
<1>6. CalleeInv'
  BY DEF Typed, UserTyped, DialogTyped, LinkTyped, TypedRest, StateTyped, AckTyped, CalleeInv,
         EndInv
<1>7. CalleeLinked' BY DEF Typed, UserTyped, LinkTyped, CalleeInv, CalleeLinked, EndInv
<1>8. OkInv' BY DEF Typed, UserTyped, DialogTyped, CalleeInv, OkInv
<1>9. ByeInv' BY DEF ByeInv, Typed, UserTyped, DialogTyped, TypedRest, ByeTyped, Byes, EndInv, OkInv
<1>10. ViewStep
  BY DEF ViewStep, View!Next, View!Call, View!Ring, View!Answer, View!Connect,
         View!CallerEnds, View!CalleeEnds, Answered, Typed, UserTyped, DialogTyped, EndInv,
         Over, CallerInv, CalleeInv, CalleeLinked
<1>11. Quiet
  <2>1. <<Response("INVITE", 200)>> \in Seq(Messages) BY Literals DEF Messages, Response
  <2>2. ~Holds(<<Response("INVITE", 200)>>, Request("INVITE")) BY HoldsLiteral DEF Request, Response
  <2>3. Answered' BY DEF Answered, Typed, DialogTyped, OkInv
  <2> QED BY <2>1, <2>2, <2>3, SendNet DEF Quiet, Invited, Accepted
<1> QED BY <1>1, <1>2, <1>3, <1>4, <1>5, <1>6, <1>7, <1>8, <1>9, <1>10, <1>11

LEMMA OkTimerEndStep ==
  ASSUME IInv, OkTimerEnd
  PROVE  Local' /\ ViewStep /\ Quiet
<1> USE DEF IInv, Local, Ends, Caller, Callee, endVars, byeVars, callerVars, calleeVars,
      faultVars, OkTimerEnd, SendBye
<1>1. Typed'
  <2>1. UserTyped' BY DEF UserTyped, Typed
  <2>2. DialogTyped' BY DEF DialogTyped, Typed
  <2>3. LinkTyped' BY DEF LinkTyped, Typed
  <2> QED BY <2>1, <2>2, <2>3 DEF Typed
<1>2. TypedRest'
  <2>1. ByeTyped' BY DEF ByeTyped, Byes, TypedRest
  <2>2. FlagsTyped' BY DEF FlagsTyped, TypedRest
  <2>3. StateTyped' BY DEF StateTyped, TypedRest
  <2>4. AckTyped' BY DEF AckTyped, TypedRest
  <2>5. FaultTyped' BY DEF FaultTyped, TypedRest
  <2> QED BY <2>1, <2>2, <2>3, <2>4, <2>5 DEF TypedRest
<1>3. EndInv(Caller)' BY DEF Typed, UserTyped, DialogTyped, LinkTyped, EndInv, Over, CallerInv
<1>4. EndInv(Callee)'
  BY DEF Typed, UserTyped, DialogTyped, LinkTyped, EndInv, Over, CalleeInv, CalleeLinked
<1>5. CallerInv'
  BY DEF Typed, UserTyped, DialogTyped, LinkTyped, TypedRest, StateTyped, AckTyped, CallerInv,
         EndInv
<1>6. CalleeInv'
  BY DEF Typed, UserTyped, DialogTyped, LinkTyped, TypedRest, StateTyped, AckTyped, CalleeInv,
         EndInv
<1>7. CalleeLinked' BY DEF Typed, UserTyped, LinkTyped, CalleeInv, CalleeLinked, EndInv
<1>8. OkInv' BY DEF Typed, UserTyped, DialogTyped, CalleeInv, OkInv
<1>9. ByeInv' BY DEF ByeInv, Typed, UserTyped, DialogTyped, TypedRest, ByeTyped, Byes, EndInv, OkInv
<1>10. ViewStep
  BY DEF ViewStep, View!Next, View!Call, View!Ring, View!Answer, View!Connect,
         View!CallerEnds, View!CalleeEnds, Answered, Typed, UserTyped, DialogTyped, EndInv,
         Over, CallerInv, CalleeInv, CalleeLinked
<1>11. Quiet
  <2>1. Harmless(<<Request("internal BYE")>>) BY HarmlessSent, OtherMessages
  <2> QED BY <2>1, QuietSend DEF Ends
<1> QED BY <1>1, <1>2, <1>3, <1>4, <1>5, <1>6, <1>7, <1>8, <1>9, <1>10, <1>11

LEMMA ReceiveByeStep ==
  ASSUME NEW e \in Ends, NEW b \in Byes, IInv, ReceiveBye(e, b)
  PROVE  Local' /\ ViewStep /\ Quiet
<1> USE DEF IInv, Local, Ends, Caller, Callee, endVars, byeVars, callerVars, calleeVars,
      faultVars, ReceiveBye, Delete, SetDialog, KeepDialog, User, Op, Alive
<1>1. Typed'
  <2>1. UserTyped' BY DEF UserTyped, Typed
  <2>2. DialogTyped' BY DEF DialogTyped, Typed
  <2>3. LinkTyped' BY DEF LinkTyped, Typed
  <2> QED BY <2>1, <2>2, <2>3 DEF Typed
<1>2. TypedRest'
  <2>1. ByeTyped' BY DEF ByeTyped, Byes, TypedRest
  <2>2. FlagsTyped' BY DEF FlagsTyped, TypedRest
  <2>3. StateTyped' BY DEF StateTyped, TypedRest
  <2>4. AckTyped'
    <3>1. acked' = acked OBVIOUS
    <3>2. UNCHANGED <<okTimer, needsAck>> \/ (StopOkTimer(e) /\ ClearNeedsAck(e)) OBVIOUS
    <3>3. CASE UNCHANGED <<okTimer, needsAck>> BY <3>1, <3>3 DEF AckTyped, TypedRest
    <3> QED BY <3>1, <3>2, <3>3, StopKept DEF TypedRest
  <2>5. FaultTyped' BY DEF FaultTyped, TypedRest
  <2> QED BY <2>1, <2>2, <2>3, <2>4, <2>5 DEF TypedRest
<1>3. EndInv(Caller)' BY DEF Typed, UserTyped, DialogTyped, LinkTyped, EndInv, Over, CallerInv
<1>4. EndInv(Callee)'
  BY DEF Typed, UserTyped, DialogTyped, LinkTyped, EndInv, Over, CalleeInv, CalleeLinked
<1>5. CallerInv'
  BY DEF Typed, UserTyped, DialogTyped, LinkTyped, TypedRest, StateTyped, AckTyped, CallerInv,
         EndInv
<1>6. CalleeInv'
  BY DEF Typed, UserTyped, DialogTyped, LinkTyped, TypedRest, StateTyped, AckTyped, CalleeInv,
         EndInv
<1>7. CalleeLinked' BY DEF Typed, UserTyped, LinkTyped, CalleeInv, CalleeLinked, EndInv
<1>8. OkInv'
  <2>1. CASE UNCHANGED <<okTimer, dlg>> BY <2>1 DEF OkInv
  <2>2. CASE StopOkTimer(e) /\ ClearNeedsAck(e)
    <3>1. acked' = acked OBVIOUS
    <3>2. okTimer' => okTimer /\ e # Callee BY <2>2, <3>1, StopKept DEF TypedRest
    <3>3. e # Callee => UNCHANGED dlg[Callee] BY DEF Typed, DialogTyped
    <3> QED BY <3>2, <3>3 DEF OkInv
  <2> QED BY <2>1, <2>2
<1>9. ByeInv'
  <2>1. \A f \in Ends : op[f] # "None" => op'[f] # "None" BY DEF Typed, UserTyped
  <2>2. bye' = bye
    OBVIOUS
  <2> QED BY <2>1, <2>2, ByeInvKept DEF TypedRest, Byes
<1>10. ViewStep
  BY DEF ViewStep, View!Next, View!Call, View!Ring, View!Answer, View!Connect,
         View!CallerEnds, View!CalleeEnds, Answered, Typed, UserTyped, DialogTyped, EndInv,
         Over, CallerInv, CalleeInv, CalleeLinked
<1>11. Quiet
  <2>1. Harmless(<<Response(b, 200)>>) BY HarmlessSent, ByeAnswers
  <2>2. Harmless(<<Response(b, 501)>>) BY HarmlessSent, ByeAnswers
  <2>3. Harmless(<<Response(b, 481)>>) BY HarmlessSent, ByeAnswers
  <2>4. Harmless(<<>>) BY HarmlessSent, OtherMessages
  <2>5. CASE Receive(e, Request(b), <<Response(b, 200)>>) BY <2>5, <2>1, QuietReceive
  <2>6. CASE Receive(e, Request(b), <<Response(b, 501)>>) BY <2>6, <2>2, QuietReceive
  <2>7. CASE Receive(e, Request(b), <<Response(b, 481)>>) BY <2>7, <2>3, QuietReceive
  <2>8. CASE Receive(e, Request(b), <<>>) BY <2>8, <2>4, QuietReceive
  <2> QED BY <2>5, <2>6, <2>7, <2>8
<1> QED BY <1>1, <1>2, <1>3, <1>4, <1>5, <1>6, <1>7, <1>8, <1>9, <1>10, <1>11

LEMMA ReceiveByeAnswerStep ==
  ASSUME NEW e \in Ends, NEW b \in Byes, NEW c \in {200, 481, 501}, IInv, ReceiveByeAnswer(e, b, c)
  PROVE  Local' /\ ViewStep /\ Quiet
<1> USE DEF IInv, Local, Ends, Caller, Callee, endVars, byeVars, callerVars, calleeVars,
      faultVars, ReceiveByeAnswer, Delete, SetDialog, KeepDialog, Link, Alive
<1>1. Typed'
  <2>1. UserTyped' BY DEF UserTyped, Typed
  <2>2. DialogTyped' BY DEF DialogTyped, Typed
  <2>3. LinkTyped'
    <3>1. linked' = linked \/ linked' = [linked EXCEPT ![e] = TRUE]
      OBVIOUS
    <3> QED BY <3>1, LinkKept DEF Typed
  <2> QED BY <2>1, <2>2, <2>3 DEF Typed
<1>2. TypedRest'
  <2>1. ByeTyped'
    <3>1. bye' = bye \/
            \E s \in {"TRYING", "COMPLETED", "TimedOut", "Done"} : bye' = [bye EXCEPT ![e][b] = s]
      OBVIOUS
    <3> HIDE DEF ReceiveByeAnswer
    <3> QED BY <3>1, ByeKept DEF TypedRest, Byes
  <2>2. FlagsTyped' BY DEF FlagsTyped, TypedRest
  <2>3. StateTyped' BY DEF StateTyped, TypedRest
  <2>4. AckTyped'
    <3>1. acked' = acked OBVIOUS
    <3>2. UNCHANGED <<okTimer, needsAck>> \/ (StopOkTimer(e) /\ ClearNeedsAck(e)) OBVIOUS
    <3>3. CASE UNCHANGED <<okTimer, needsAck>> BY <3>1, <3>3 DEF AckTyped, TypedRest
    <3> QED BY <3>1, <3>2, <3>3, StopKept DEF TypedRest
  <2>5. FaultTyped' BY DEF FaultTyped, TypedRest
  <2> QED BY <2>1, <2>2, <2>3, <2>4, <2>5 DEF TypedRest
<1>3. EndInv(Caller)' BY DEF Typed, UserTyped, DialogTyped, LinkTyped, EndInv, Over, CallerInv
<1>4. EndInv(Callee)'
  BY DEF Typed, UserTyped, DialogTyped, LinkTyped, EndInv, Over, CalleeInv, CalleeLinked
<1>5. CallerInv'
  BY DEF Typed, UserTyped, DialogTyped, LinkTyped, TypedRest, StateTyped, AckTyped, CallerInv,
         EndInv
<1>6. CalleeInv'
  BY DEF Typed, UserTyped, DialogTyped, LinkTyped, TypedRest, StateTyped, AckTyped, CalleeInv,
         EndInv
<1>7. CalleeLinked' BY DEF Typed, UserTyped, LinkTyped, CalleeInv, CalleeLinked, EndInv
<1>8. OkInv'
  <2>1. CASE UNCHANGED <<okTimer, dlg>> BY <2>1 DEF OkInv
  <2>2. CASE StopOkTimer(e) /\ ClearNeedsAck(e)
    <3>1. acked' = acked OBVIOUS
    <3>2. okTimer' => okTimer /\ e # Callee BY <2>2, <3>1, StopKept DEF TypedRest
    <3>3. e # Callee => UNCHANGED dlg[Callee] BY DEF Typed, DialogTyped
    <3> QED BY <3>2, <3>3 DEF OkInv
  <2> QED BY <2>1, <2>2
<1>9. ByeInv'
  <2>1. \A f \in Ends : op[f] # "None" => op'[f] # "None" BY DEF Typed, UserTyped
  <2>2. bye' = bye \/
          \E s \in {"TRYING", "COMPLETED", "TimedOut", "Done"} : bye' = [bye EXCEPT ![e][b] = s]
    OBVIOUS
  <2>3. bye' # bye => op[e] # "None" BY DEF EndInv, ByeInv, Byes
  <2>4. ByeTyped /\ ByeInv BY DEF TypedRest
  <2>5. bye' = bye \/ (op[e] # "None" /\
          \E s \in {"TRYING", "COMPLETED", "TimedOut", "Done"} : bye' = [bye EXCEPT ![e][b] = s])
    BY <2>2, <2>3
  <2> HIDE DEF ReceiveByeAnswer, IInv
  <2> QED BY <2>1, <2>4, <2>5, ByeInvKept
<1>10. ViewStep
  BY DEF ViewStep, View!Next, View!Call, View!Ring, View!Answer, View!Connect,
         View!CallerEnds, View!CalleeEnds, Answered, Typed, UserTyped, DialogTyped, EndInv,
         Over, CallerInv, CalleeInv, CalleeLinked
<1>11. Quiet
  <2>1. Harmless(<<>>) BY HarmlessSent, OtherMessages
  <2> QED BY <2>1, QuietReceive DEF Ends
<1> QED BY <1>1, <1>2, <1>3, <1>4, <1>5, <1>6, <1>7, <1>8, <1>9, <1>10, <1>11

LEMMA ByeOverStep ==
  ASSUME NEW e \in Ends, IInv, ByeOver(e)
  PROVE  Local' /\ ViewStep /\ Quiet
<1> USE DEF IInv, Local, Ends, Caller, Callee, endVars, byeVars, callerVars, calleeVars,
      faultVars, ByeOver, ReleaseUnlinked, Released, KeepDialog, User, Op, Link
<1>1. Typed'
  <2>1. UserTyped' BY DEF UserTyped, Typed
  <2>2. DialogTyped' BY DEF DialogTyped, Typed
  <2>3. LinkTyped' BY DEF LinkTyped, Typed
  <2> QED BY <2>1, <2>2, <2>3 DEF Typed
<1>2. TypedRest'
  <2>1. ByeTyped'
    <3>1. bye' = bye \/ bye' = [bye EXCEPT ![e]["BYE"] = "Done"]
      OBVIOUS
    <3> QED BY <3>1, ByeKept DEF TypedRest, Byes
  <2>2. FlagsTyped' BY DEF FlagsTyped, TypedRest
  <2>3. StateTyped' BY DEF StateTyped, TypedRest
  <2>4. AckTyped' BY DEF AckTyped, TypedRest
  <2>5. FaultTyped' BY DEF FaultTyped, TypedRest
  <2> QED BY <2>1, <2>2, <2>3, <2>4, <2>5 DEF TypedRest
<1>3. EndInv(Caller)' BY DEF Typed, UserTyped, DialogTyped, LinkTyped, EndInv, Over, CallerInv
<1>4. EndInv(Callee)'
  BY DEF Typed, UserTyped, DialogTyped, LinkTyped, EndInv, Over, CalleeInv, CalleeLinked
<1>5. CallerInv'
  BY DEF Typed, UserTyped, DialogTyped, LinkTyped, TypedRest, StateTyped, AckTyped, CallerInv,
         EndInv
<1>6. CalleeInv'
  BY DEF Typed, UserTyped, DialogTyped, LinkTyped, TypedRest, StateTyped, AckTyped, CalleeInv,
         EndInv
<1>7. CalleeLinked' BY DEF Typed, UserTyped, LinkTyped, CalleeInv, CalleeLinked, EndInv
<1>8. OkInv' BY DEF Typed, UserTyped, DialogTyped, CalleeInv, OkInv
<1>9. ByeInv'
  <2>1. \A f \in Ends : op[f] # "None" => op'[f] # "None" BY DEF Typed, UserTyped
  <2>2. bye' = bye \/ bye' = [bye EXCEPT ![e]["BYE"] = "Done"]
    OBVIOUS
  <2>3. bye' # bye => op[e] # "None" BY DEF EndInv, ByeInv, Byes
  <2> QED BY <2>1, <2>2, <2>3, ByeInvKept DEF TypedRest, Byes
<1>10. ViewStep
  BY DEF ViewStep, View!Next, View!Call, View!Ring, View!Answer, View!Connect,
         View!CallerEnds, View!CalleeEnds, Answered, Typed, UserTyped, DialogTyped, EndInv,
         Over, CallerInv, CalleeInv, CalleeLinked
<1>11. Quiet BY QuietUnchanged
<1> QED BY <1>1, <1>2, <1>3, <1>4, <1>5, <1>6, <1>7, <1>8, <1>9, <1>10, <1>11

LEMMA NoticeStep ==
  ASSUME NEW e \in Ends, IInv, Notice(e)
  PROVE  Local' /\ ViewStep /\ Quiet
<1> USE DEF IInv, Local, Ends, Caller, Callee, endVars, byeVars, callerVars, calleeVars,
      faultVars, Notice, User, Op, Alive
<1>1. Typed'
  <2>1. UserTyped' BY DEF UserTyped, Typed
  <2>2. DialogTyped' BY DEF DialogTyped, Typed
  <2>3. LinkTyped' BY DEF LinkTyped, Typed
  <2> QED BY <2>1, <2>2, <2>3 DEF Typed
<1>2. TypedRest'
  <2>1. ByeTyped' BY DEF ByeTyped, Byes, TypedRest
  <2>2. FlagsTyped' BY DEF FlagsTyped, TypedRest
  <2>3. StateTyped' BY DEF StateTyped, TypedRest
  <2>4. AckTyped' BY DEF AckTyped, TypedRest
  <2>5. FaultTyped' BY DEF FaultTyped, TypedRest
  <2> QED BY <2>1, <2>2, <2>3, <2>4, <2>5 DEF TypedRest
<1>3. EndInv(Caller)' BY DEF Typed, UserTyped, DialogTyped, LinkTyped, EndInv, Over, CallerInv
<1>4. EndInv(Callee)'
  BY DEF Typed, UserTyped, DialogTyped, LinkTyped, EndInv, Over, CalleeInv, CalleeLinked
<1>5. CallerInv'
  BY DEF Typed, UserTyped, DialogTyped, LinkTyped, TypedRest, StateTyped, AckTyped, CallerInv,
         EndInv
<1>6. CalleeInv'
  BY DEF Typed, UserTyped, DialogTyped, LinkTyped, TypedRest, StateTyped, AckTyped, CalleeInv,
         EndInv
<1>7. CalleeLinked' BY DEF Typed, UserTyped, LinkTyped, CalleeInv, CalleeLinked, EndInv
<1>8. OkInv' BY DEF Typed, UserTyped, DialogTyped, CalleeInv, OkInv
<1>9. ByeInv' BY DEF ByeInv, Typed, UserTyped, DialogTyped, TypedRest, ByeTyped, Byes, EndInv, OkInv
<1>10. ViewStep
  BY DEF ViewStep, View!Next, View!Call, View!Ring, View!Answer, View!Connect,
         View!CallerEnds, View!CalleeEnds, Answered, Typed, UserTyped, DialogTyped, EndInv,
         Over, CallerInv, CalleeInv, CalleeLinked
<1>11. Quiet BY QuietUnchanged
<1> QED BY <1>1, <1>2, <1>3, <1>4, <1>5, <1>6, <1>7, <1>8, <1>9, <1>10, <1>11

LEMMA ReleaseStep ==
  ASSUME NEW e \in Ends, IInv, Release(e)
  PROVE  Local' /\ ViewStep /\ Quiet
<1> USE DEF IInv, Local, Ends, Caller, Callee, endVars, byeVars, callerVars, calleeVars,
      faultVars, Release, Released, User, Op, Link
<1>1. Typed'
  <2>1. UserTyped' BY DEF UserTyped, Typed
  <2>2. DialogTyped' BY DEF DialogTyped, Typed
  <2>3. LinkTyped' BY DEF LinkTyped, Typed
  <2> QED BY <2>1, <2>2, <2>3 DEF Typed
<1>2. TypedRest'
  <2>1. ByeTyped' BY DEF ByeTyped, Byes, TypedRest
  <2>2. FlagsTyped' BY DEF FlagsTyped, TypedRest
  <2>3. StateTyped' BY DEF StateTyped, TypedRest
  <2>4. AckTyped' BY DEF AckTyped, TypedRest
  <2>5. FaultTyped' BY DEF FaultTyped, TypedRest
  <2> QED BY <2>1, <2>2, <2>3, <2>4, <2>5 DEF TypedRest
<1>3. EndInv(Caller)' BY DEF Typed, UserTyped, DialogTyped, LinkTyped, EndInv, Over, CallerInv
<1>4. EndInv(Callee)'
  BY DEF Typed, UserTyped, DialogTyped, LinkTyped, EndInv, Over, CalleeInv, CalleeLinked
<1>5. CallerInv'
  BY DEF Typed, UserTyped, DialogTyped, LinkTyped, TypedRest, StateTyped, AckTyped, CallerInv,
         EndInv
<1>6. CalleeInv'
  BY DEF Typed, UserTyped, DialogTyped, LinkTyped, TypedRest, StateTyped, AckTyped, CalleeInv,
         EndInv, Over
<1>7. CalleeLinked' BY DEF Typed, UserTyped, LinkTyped, CalleeInv, CalleeLinked, EndInv
<1>8. OkInv' BY DEF Typed, UserTyped, DialogTyped, CalleeInv, OkInv
<1>9. ByeInv' BY DEF ByeInv, Typed, UserTyped, DialogTyped, TypedRest, ByeTyped, Byes, EndInv, OkInv
<1>10. ViewStep
  BY DEF ViewStep, View!Next, View!Call, View!Ring, View!Answer, View!Connect,
         View!CallerEnds, View!CalleeEnds, Answered, Typed, UserTyped, DialogTyped, EndInv,
         Over, CallerInv, CalleeInv, CalleeLinked
<1>11. Quiet BY QuietUnchanged
<1> QED BY <1>1, <1>2, <1>3, <1>4, <1>5, <1>6, <1>7, <1>8, <1>9, <1>10, <1>11

LEMMA InviteTimeoutStep ==
  ASSUME IInv, InviteTimeout
  PROVE  Local' /\ ViewStep /\ Quiet
<1> USE DEF IInv, Local, Ends, Caller, Callee, endVars, byeVars, callerVars, calleeVars,
      faultVars, InviteTimeout, Fail, Released, KeepDialog, User, Op, Link, Alive
<1>1. Typed'
  <2>1. UserTyped' BY DEF UserTyped, Typed
  <2>2. DialogTyped' BY DEF DialogTyped, Typed
  <2>3. LinkTyped' BY DEF LinkTyped, Typed
  <2> QED BY <2>1, <2>2, <2>3 DEF Typed
<1>2. TypedRest'
  <2>1. ByeTyped' BY DEF ByeTyped, Byes, TypedRest
  <2>2. FlagsTyped' BY DEF FlagsTyped, TypedRest
  <2>3. StateTyped' BY DEF StateTyped, TypedRest
  <2>4. AckTyped' BY DEF AckTyped, TypedRest
  <2>5. FaultTyped' BY DEF FaultTyped, TypedRest
  <2> QED BY <2>1, <2>2, <2>3, <2>4, <2>5 DEF TypedRest
<1>3. EndInv(Caller)' BY DEF Typed, UserTyped, DialogTyped, LinkTyped, EndInv, Over, CallerInv
<1>4. EndInv(Callee)'
  BY DEF Typed, UserTyped, DialogTyped, LinkTyped, EndInv, Over, CalleeInv, CalleeLinked
<1>5. CallerInv'
  BY DEF Typed, UserTyped, DialogTyped, LinkTyped, TypedRest, StateTyped, AckTyped, CallerInv,
         EndInv
<1>6. CalleeInv'
  BY DEF Typed, UserTyped, DialogTyped, LinkTyped, TypedRest, StateTyped, AckTyped, CalleeInv,
         EndInv
<1>7. CalleeLinked' BY DEF Typed, UserTyped, LinkTyped, CalleeInv, CalleeLinked, EndInv
<1>8. OkInv' BY DEF Typed, UserTyped, DialogTyped, CalleeInv, OkInv
<1>9. ByeInv' BY DEF ByeInv, Typed, UserTyped, DialogTyped, TypedRest, ByeTyped, Byes, EndInv, OkInv
<1>10. ViewStep
  BY DEF ViewStep, View!Next, View!Call, View!Ring, View!Answer, View!Connect,
         View!CallerEnds, View!CalleeEnds, Answered, Typed, UserTyped, DialogTyped, EndInv,
         Over, CallerInv, CalleeInv, CalleeLinked
<1>11. Quiet BY QuietUnchanged
<1> QED BY <1>1, <1>2, <1>3, <1>4, <1>5, <1>6, <1>7, <1>8, <1>9, <1>10, <1>11

LEMMA CancelTimeoutStep ==
  ASSUME IInv, CancelTimeout
  PROVE  Local' /\ ViewStep /\ Quiet
<1> USE DEF IInv, Local, Ends, Caller, Callee, endVars, byeVars, callerVars, calleeVars,
      faultVars, CancelTimeout, Fail, Released, KeepDialog, User, Op, Link, Alive
<1>1. Typed'
  <2>1. UserTyped' BY DEF UserTyped, Typed
  <2>2. DialogTyped' BY DEF DialogTyped, Typed
  <2>3. LinkTyped' BY DEF LinkTyped, Typed
  <2> QED BY <2>1, <2>2, <2>3 DEF Typed
<1>2. TypedRest'
  <2>1. ByeTyped' BY DEF ByeTyped, Byes, TypedRest
  <2>2. FlagsTyped' BY DEF FlagsTyped, TypedRest
  <2>3. StateTyped' BY DEF StateTyped, TypedRest
  <2>4. AckTyped' BY DEF AckTyped, TypedRest
  <2>5. FaultTyped' BY DEF FaultTyped, TypedRest
  <2> QED BY <2>1, <2>2, <2>3, <2>4, <2>5 DEF TypedRest
<1>3. EndInv(Caller)' BY DEF Typed, UserTyped, DialogTyped, LinkTyped, EndInv, Over, CallerInv
<1>4. EndInv(Callee)'
  BY DEF Typed, UserTyped, DialogTyped, LinkTyped, EndInv, Over, CalleeInv, CalleeLinked
<1>5. CallerInv'
  BY DEF Typed, UserTyped, DialogTyped, LinkTyped, TypedRest, StateTyped, AckTyped, CallerInv,
         EndInv
<1>6. CalleeInv'
  BY DEF Typed, UserTyped, DialogTyped, LinkTyped, TypedRest, StateTyped, AckTyped, CalleeInv,
         EndInv
<1>7. CalleeLinked' BY DEF Typed, UserTyped, LinkTyped, CalleeInv, CalleeLinked, EndInv
<1>8. OkInv' BY DEF Typed, UserTyped, DialogTyped, CalleeInv, OkInv
<1>9. ByeInv' BY DEF ByeInv, Typed, UserTyped, DialogTyped, TypedRest, ByeTyped, Byes, EndInv, OkInv
<1>10. ViewStep
  BY DEF ViewStep, View!Next, View!Call, View!Ring, View!Answer, View!Connect,
         View!CallerEnds, View!CalleeEnds, Answered, Typed, UserTyped, DialogTyped, EndInv,
         Over, CallerInv, CalleeInv, CalleeLinked
<1>11. Quiet BY QuietUnchanged
<1> QED BY <1>1, <1>2, <1>3, <1>4, <1>5, <1>6, <1>7, <1>8, <1>9, <1>10, <1>11

LEMMA ByeTimeoutStep ==
  ASSUME NEW e \in Ends, NEW b \in Byes, IInv, ByeTimeout(e, b)
  PROVE  Local' /\ ViewStep /\ Quiet
<1> USE DEF IInv, Local, Ends, Caller, Callee, endVars, byeVars, callerVars, calleeVars,
      faultVars, ByeTimeout, Fail, Released, KeepDialog, User, Op, Link, Alive
<1>1. Typed'
  <2>1. UserTyped' BY DEF UserTyped, Typed
  <2>2. DialogTyped' BY DEF DialogTyped, Typed
  <2>3. LinkTyped' BY DEF LinkTyped, Typed
  <2> QED BY <2>1, <2>2, <2>3 DEF Typed
<1>2. TypedRest'
  <2>1. ByeTyped' BY DEF ByeTyped, Byes, TypedRest
  <2>2. FlagsTyped' BY DEF FlagsTyped, TypedRest
  <2>3. StateTyped' BY DEF StateTyped, TypedRest
  <2>4. AckTyped' BY DEF AckTyped, TypedRest
  <2>5. FaultTyped' BY DEF FaultTyped, TypedRest
  <2> QED BY <2>1, <2>2, <2>3, <2>4, <2>5 DEF TypedRest
<1>3. EndInv(Caller)' BY DEF Typed, UserTyped, DialogTyped, LinkTyped, EndInv, Over, CallerInv
<1>4. EndInv(Callee)'
  BY DEF Typed, UserTyped, DialogTyped, LinkTyped, EndInv, Over, CalleeInv, CalleeLinked
<1>5. CallerInv'
  BY DEF Typed, UserTyped, DialogTyped, LinkTyped, TypedRest, StateTyped, AckTyped, CallerInv,
         EndInv
<1>6. CalleeInv'
  <2>1. op[e] # "None" BY DEF ByeInv
  <2>2. CASE UNCHANGED <<user, op>> BY <2>2 DEF CalleeInv, AckTyped, TypedRest
  <2>3. CASE ~UNCHANGED <<user, op>>
    <3>1. e = Caller BY <2>1, <2>3 DEF CalleeLinked
    <3> QED BY <3>1 DEF Typed, UserTyped, DialogTyped, CalleeInv
  <2> QED BY <2>2, <2>3
<1>7. CalleeLinked' BY DEF Typed, UserTyped, LinkTyped, CalleeInv, CalleeLinked, EndInv
<1>8. OkInv' BY DEF Typed, UserTyped, DialogTyped, CalleeInv, OkInv
<1>9. ByeInv'
  <2>1. \A f \in Ends : op[f] # "None" => op'[f] # "None" BY DEF Typed, UserTyped
  <2>2. bye' = bye \/ bye' = [bye EXCEPT ![e][b] = "TimedOut"]
    OBVIOUS
  <2>3. bye' # bye => op[e] # "None" BY DEF EndInv, ByeInv, Byes
  <2> QED BY <2>1, <2>2, <2>3, ByeInvKept DEF TypedRest, Byes
<1>10. op[e] # "None" BY DEF ByeInv
<1>11. ViewStep
  BY <1>10 DEF ViewStep, View!Next, View!Call, View!Ring, View!Answer, View!Connect,
         View!CallerEnds, View!CalleeEnds, Answered, Typed, UserTyped, DialogTyped, EndInv,
         Over, CallerInv, CalleeInv, CalleeLinked
<1>12. Quiet BY QuietUnchanged
<1> QED BY <1>1, <1>2, <1>3, <1>4, <1>5, <1>6, <1>7, <1>8, <1>9, <1>11, <1>12

LEMMA LoseStep ==
  ASSUME IInv, Lose
  PROVE  Local' /\ ViewStep /\ Quiet
<1> USE DEF IInv, Local, endVars, byeVars, callerVars, calleeVars
<1>1. PICK e \in Ends : /\ net[e] # <<>>
                       /\ net' = [net EXCEPT ![e] = Tail(@)]
                       /\ lost' = [lost EXCEPT ![e] = @ \cup {Head(net[e])}]
  BY DEF Lose
<1>2. net[e] \in Seq(Messages) BY DEF NetTyped
<1>3. Head(net[e]) \in Messages /\ Tail(net[e]) \in Seq(Messages) BY <1>1, <1>2
<1>4. FaultTyped'
  <2>1. faults' \in 0..MaxFaults BY FaultAssumption DEF Lose, TypedRest, FaultTyped
  <2>2. lost' \in [Ends -> SUBSET Messages] BY <1>1, <1>3 DEF TypedRest, FaultTyped
  <2> QED BY <2>1, <2>2 DEF FaultTyped
<1>5. Local'
  <2>1. Typed' BY DEF Lose, Typed, UserTyped, DialogTyped, LinkTyped
  <2>2. TypedRest' BY <1>4 DEF Lose, TypedRest, ByeTyped, FlagsTyped, StateTyped, AckTyped
  <2>3. (\A f \in Ends : EndInv(f))' BY DEF Lose, EndInv
  <2>4. (CallerInv /\ CalleeInv /\ CalleeLinked /\ OkInv /\ ByeInv)'
    BY DEF Lose, CallerInv, CalleeInv, CalleeLinked, OkInv, ByeInv
  <2> QED BY <2>1, <2>2, <2>3, <2>4
<1>6. ViewStep BY DEF Lose, ViewStep, Answered
<1>7. Quiet
  <2>1. NetTyped' BY <1>1, <1>3 DEF NetTyped
  <2>2. \A d \in Ends : net'[d] = IF d = e THEN Tail(net[e]) ELSE net[d] BY <1>1 DEF NetTyped
  <2>3. \A d \in Ends : \A m : Holds(net'[d], m) => Holds(net[d], m) BY <1>1, <1>2, <2>2, HoldsTail
  <2> QED BY <2>1, <2>3 DEF Quiet, Invited, Accepted, Ends
<1> QED BY <1>5, <1>6, <1>7

LEMMA OvertakeStep ==
  ASSUME IInv, Overtake
  PROVE  Local' /\ ViewStep /\ Quiet
<1> USE DEF IInv, Local, endVars, byeVars, callerVars, calleeVars
<1>1. PICK e \in Ends : \E i \in 2..Len(net[e]) :
        net' = [net EXCEPT ![e] = [@ EXCEPT ![i - 1] = net[e][i], ![i] = net[e][i - 1]]]
  BY DEF Overtake
<1>2. PICK i \in 2..Len(net[e]) :
        net' = [net EXCEPT ![e] = [@ EXCEPT ![i - 1] = net[e][i], ![i] = net[e][i - 1]]]
  BY <1>1
<1> DEFINE s == net[e]
           t == [s EXCEPT ![i - 1] = s[i], ![i] = s[i - 1]]
<1>3. s \in Seq(Messages) /\ Len(s) \in Nat /\ DOMAIN s = 1..Len(s)
  BY LenProperties DEF NetTyped
<1>4. i - 1 \in DOMAIN s /\ i \in DOMAIN s BY <1>3
<1>5. t \in Seq(Messages)
  <2>1. s[i] \in Messages /\ s[i - 1] \in Messages BY <1>3, <1>4
  <2>2. s \in [1..Len(s) -> Messages] BY <1>3, LenProperties
  <2>3. t \in [1..Len(s) -> Messages] BY <2>1, <2>2
  <2> QED BY <1>3, <2>3
<1>6. \A m : Holds(t, m) => Holds(s, m)
  <2>1. DOMAIN t = DOMAIN s BY <1>3
  <2>2. \A k \in DOMAIN s : t[k] \in {s[k], s[i], s[i - 1]} BY <1>3, <1>4
  <2> QED BY <1>4, <2>1, <2>2 DEF Holds
<1>7. net' = [net EXCEPT ![e] = t] BY <1>2
<1>8. Local'
  <2>1. Typed' BY DEF Overtake, Typed, UserTyped, DialogTyped, LinkTyped
  <2>2. FaultTyped'
    <3>1. faults' \in 0..MaxFaults BY FaultAssumption DEF Overtake, TypedRest, FaultTyped
    <3> QED BY <3>1 DEF Overtake, TypedRest, FaultTyped
  <2>3. TypedRest' BY <2>2 DEF Overtake, TypedRest, ByeTyped, FlagsTyped, StateTyped, AckTyped
  <2>4. (\A f \in Ends : EndInv(f))' BY DEF Overtake, EndInv
  <2>5. (CallerInv /\ CalleeInv /\ CalleeLinked /\ OkInv /\ ByeInv)'
    BY DEF Overtake, CallerInv, CalleeInv, CalleeLinked, OkInv, ByeInv
  <2> QED BY <2>1, <2>3, <2>4, <2>5
<1>9. ViewStep BY DEF Overtake, ViewStep, Answered
<1>10. Quiet
  <2> HIDE DEF t
  <2>1. NetTyped' BY <1>5, <1>7 DEF NetTyped
  <2>2. \A d \in Ends : net'[d] = IF d = e THEN t ELSE net[d] BY <1>7 DEF NetTyped
  <2>3. \A d \in Ends : \A m : Holds(net'[d], m) => Holds(net[d], m) BY <1>6, <2>2
  <2> QED BY <2>1, <2>3 DEF Quiet, Invited, Accepted, Ends
<1> QED BY <1>8, <1>9, <1>10
------------------------------------------------------------------------------
(* The theorems.                                                             *)

LEMMA Initial == Init => IInv
<1> SUFFICES ASSUME Init PROVE IInv OBVIOUS
<1> USE DEF Init, Ends
<1>1. Typed BY DEF Typed, UserTyped, DialogTyped, LinkTyped
<1>2. TypedRest
  <2>1. ByeTyped BY DEF ByeTyped
  <2>2. FlagsTyped BY DEF FlagsTyped
  <2>3. StateTyped /\ AckTyped BY DEF StateTyped, AckTyped
  <2>4. FaultTyped BY FaultAssumption DEF FaultTyped
  <2> QED BY <2>1, <2>2, <2>3, <2>4 DEF TypedRest
<1>3. \A e \in Ends : EndInv(e) BY DEF EndInv
<1>4. CallerInv /\ CalleeInv /\ CalleeLinked /\ OkInv /\ ByeInv
  BY DEF CallerInv, CalleeInv, CalleeLinked, OkInv, ByeInv, Byes, Caller, Callee
<1>5. NetTyped BY Literals DEF NetTyped
<1>6. Genuine BY HoldsLiteral DEF Genuine, Invited, Accepted
<1> QED BY <1>1, <1>2, <1>3, <1>4, <1>5, <1>6 DEF IInv, Local

LEMMA TakesStep ==
  ASSUME IInv, NEW e \in Ends, Takes(e)
  PROVE  Local' /\ ViewStep /\ Quiet
BY ReceiveByeStep, ReceiveByeAnswerStep DEF Takes

\* One step per action of Next.
LEMMA Inductive == IInv /\ [Next]_vars => IInv' /\ ViewStep
<1> SUFFICES ASSUME IInv, [Next]_vars PROVE IInv' /\ ViewStep OBVIOUS
<1>1. ASSUME Local', ViewStep, Quiet PROVE IInv' /\ ViewStep
  BY <1>1, GenuineKept DEF IInv, Quiet
<1>2. CASE Call BY <1>1, <1>2, CallStep
<1>3. ASSUME NEW e \in Ends, HangUp(e) PROVE IInv' /\ ViewStep BY <1>1, <1>3, HangUpStep
<1>4. CASE Ring \/ Accept \/ Decline BY <1>1, <1>4, RingStep, AcceptStep, DeclineStep
<1>5. CASE CallerTakes
  <2>1. ASSUME NEW c \in {100, 180}, ReceiveProvisional(c) PROVE IInv' /\ ViewStep
    BY <1>1, <2>1, ReceiveProvisionalStep
  <2>2. CASE ReceiveAnswer BY <1>1, <2>2, ReceiveAnswerStep
  <2>3. CASE ReceiveAnswerTooLate BY <1>1, <2>3, ReceiveAnswerTooLateStep
  <2>4. CASE ReceiveAnswerAbandoned BY <1>1, <2>4, ReceiveAnswerAbandonedStep
  <2>5. CASE ReceiveAnswerAgain BY <1>1, <2>5, ReceiveAnswerAgainStep
  <2>6. ASSUME NEW c \in {487, 603}, ReceiveFailure(c) PROVE IInv' /\ ViewStep
    BY <1>1, <2>6, ReceiveFailureStep
  <2>7. ASSUME NEW c \in {100, 180, 487, 603}, ReceiveStale(c) PROVE IInv' /\ ViewStep
    BY <1>1, <2>7, ReceiveStaleStep
  <2>8. ASSUME NEW c \in {200, 481}, ReceiveCancelAnswer(c) PROVE IInv' /\ ViewStep
    BY <1>1, <2>8, ReceiveCancelAnswerStep
  <2>9. CASE Takes(Caller) BY <1>1, <2>9, TakesStep DEF Ends
  <2> QED BY <1>5, <2>1, <2>2, <2>3, <2>4, <2>5, <2>6, <2>7, <2>8, <2>9 DEF CallerTakes
<1>6. CASE CalleeTakes
  <2>1. CASE Takes(Callee) BY <1>1, <2>1, TakesStep DEF Ends
  <2> QED BY <1>1, <1>6, <2>1, ReceiveInviteStep, ReceiveCancelStep, ReceiveAckStep DEF CalleeTakes
<1>7. CASE InviteTimeout \/ CancelTimeout BY <1>1, <1>7, InviteTimeoutStep, CancelTimeoutStep
<1>8. CASE ResendOk \/ OkTimerEnd BY <1>1, <1>8, ResendOkStep, OkTimerEndStep
<1>9. ASSUME NEW e \in Ends, Timers(e) PROVE IInv' /\ ViewStep
  BY <1>1, <1>9, ByeTimeoutStep, ByeOverStep, NoticeStep, ReleaseStep DEF Timers
<1>10. CASE Lose \/ Overtake BY <1>1, <1>10, LoseStep, OvertakeStep
<1>11. CASE UNCHANGED vars
  <2> USE <1>11 DEF vars, endVars, byeVars, callerVars, calleeVars, faultVars, IInv, Local
  <2>1. Typed' BY DEF Typed, UserTyped, DialogTyped, LinkTyped
  <2>2. TypedRest'
    BY DEF TypedRest, ByeTyped, FlagsTyped, StateTyped, AckTyped, FaultTyped
  <2>3. (\A f \in Ends : EndInv(f))' BY DEF EndInv
  <2>4. (CallerInv /\ CalleeInv /\ CalleeLinked /\ OkInv /\ ByeInv)'
    BY DEF CallerInv, CalleeInv, CalleeLinked, OkInv, ByeInv
  <2>5. ViewStep BY DEF ViewStep, Answered
  <2>6. Quiet BY QuietUnchanged
  <2> QED BY <1>1, <2>1, <2>2, <2>3, <2>4, <2>5, <2>6
<1> QED BY <1>2, <1>3, <1>4, <1>5, <1>6, <1>7, <1>8, <1>9, <1>10, <1>11 DEF Next

\* The states of both ends, and the messages between them, keep their
\* types: no dialog ends twice, whatever is lost and overtaken.
THEOREM TypeCorrect == Spec => []TypeOK
<1>1. IInv => TypeOK
  BY DEF IInv, Local, NetTyped, Typed, UserTyped, DialogTyped, LinkTyped, TypedRest,
         ByeTyped, FlagsTyped, StateTyped, AckTyped, FaultTyped, TypeOK
<1> QED BY <1>1, Initial, Inductive, PTL DEF Spec

\* What the two users are shown is a call of CallView.
THEOREM Refinement == Spec => CallViewSpec
<1>1. Init => View!Init BY DEF Init, View!Init, Ends
<1>2. ViewStep => [View!Next]_View!vars BY DEF ViewStep, View!vars, Answered
<1> QED BY <1>1, <1>2, Initial, Inductive, PTL DEF Spec, CallViewSpec, View!Spec
============================================================================
