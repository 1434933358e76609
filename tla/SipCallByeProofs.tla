------------------------- MODULE SipCallByeProofs -------------------------
(***************************************************************************)
(* No callee is left talking alone, however many messages are lost or      *)
(* overtaken.  To the invariant of SipCallProofs this one adds where the   *)
(* BYEs are: who has sent one, on which way it is lost, and that nobody    *)
(* answers a BYE of the caller but a callee whose dialog is over.          *)
(***************************************************************************)
EXTENDS SipCallProofs

Ended == dlg[Callee] = "TERMINATED"
Quit == \E e \in Ends, b \in Byes : bye[e][b] # "None"
InCall == dlg[Caller] = "CONFIRMED" /\ op[Caller] = "Active" /\ linked[Caller]

\* A caller that has acknowledged the 2xx is in the call until there is a BYE.
CallerKnows ==
  /\ dlg[Caller] = "CONFIRMED" => Answered
  /\ "release" \in due[Caller] => dlg[Caller] = "TERMINATED"
  /\ acked => InCall \/ Quit

\* Something will end the dialog of a callee: a timer, an ACK or its own BYE.
Ending == dlg[Callee] = "CONFIRMED" /\ ~okTimer => acked \/ bye[Callee]["internal BYE"] # "None"

\* A callee in the call keeps its op, and who has said BYE is over.
CalleeKnows ==
  /\ dlg[Callee] = "CONFIRMED" => op[Callee] \notin {"None", "Terminated"}
  /\ Ending
  /\ "release" \in due[Callee] => Ended
  /\ op[Callee] # "None" => dlg[Callee] # "None"
  /\ bye[Callee]["BYE"] # "None" => user[Callee] \in Over
  /\ bye[Callee]["internal BYE"] \in {"COMPLETED", "Done"} => Ended

EndsKnow == CallerKnows /\ CalleeKnows /\ (Quit => Answered)

\* Where a BYE of the caller is.
CallerByes ==
  \A b \in Byes : bye[Caller][b] # "None" =>
    \/ Ended
    \/ Request(b) \in lost[Callee]
    \/ bye[Caller][b] = "TRYING" /\ Holds(net[Callee], Request(b))

\* What a message on its way says: a BYE that somebody has sent it, its answer
\* that the callee is out of the call, an ACK that the caller has sent it.
Marked == {m \in Messages : m.of \in Byes \cup {"ACK"}}
Meant(d, m) ==
  /\ m.of \in Byes /\ m.code = 0 => bye[Peer(d)][m.of] # "None"
  /\ m.of \in Byes /\ m.code # 0 /\ d = Caller => Ended
  /\ m.of = "ACK" /\ d = Callee => acked
AllMeant == \A d \in Ends : \A m \in Marked : Holds(net[d], m) => Meant(d, m)

NetKnows == CallerByes /\ AllMeant

ByeInvariant == EndsKnow /\ NetKnows

Step == IInv /\ ByeInvariant /\ IInv' /\ ViewStep
------------------------------------------------------------------------------
(* The messages the invariant is about, and the others.                      *)

Plain(ms) == ms \in Seq(Messages) /\ \A m \in Marked : ~Holds(ms, m)

\* Nothing that is marked is sent or taken.
NetCalm == \A d \in Ends : \A m \in Marked : Holds(net'[d], m) <=> Holds(net[d], m)

LEMMA HoldsAppended ==
  ASSUME NEW s \in Seq(Messages), NEW t \in Seq(Messages), NEW m, Holds(s, m) \/ Holds(t, m)
  PROVE  Holds(s \o t, m)
<1>1. /\ s \o t \in Seq(Messages)
      /\ Len(s \o t) = Len(s) + Len(t)
      /\ \A j \in 1..Len(s) + Len(t) : (s \o t)[j] = IF j <= Len(s) THEN s[j] ELSE t[j - Len(s)]
  BY ConcatProperties
<1>2. /\ Len(s) \in Nat /\ DOMAIN s = 1..Len(s)
      /\ Len(t) \in Nat /\ DOMAIN t = 1..Len(t)
      /\ DOMAIN (s \o t) = 1..Len(s) + Len(t)
  BY <1>1, LenProperties
<1>3. CASE Holds(s, m)
  <2>1. PICK i \in DOMAIN s : s[i] = m BY <1>3 DEF Holds
  <2>2. i \in DOMAIN (s \o t) /\ (s \o t)[i] = m BY <1>1, <1>2, <2>1
  <2> QED BY <2>2 DEF Holds
<1>4. CASE Holds(t, m)
  <2>1. PICK i \in DOMAIN t : t[i] = m BY <1>4 DEF Holds
  <2>2. i + Len(s) \in DOMAIN (s \o t) /\ (s \o t)[i + Len(s)] = m BY <1>1, <1>2, <2>1
  <2> QED BY <2>2 DEF Holds
<1> QED BY <1>3, <1>4

\* Only the head leaves a queue.
LEMMA HoldsRest ==
  ASSUME NEW s \in Seq(Messages), s # <<>>, NEW m, Holds(s, m), m # Head(s)
  PROVE  Holds(Tail(s), m)
<1>1. PICK i \in DOMAIN s : s[i] = m BY DEF Holds
<1>2. /\ Tail(s) \in Seq(Messages)
      /\ Len(Tail(s)) = Len(s) - 1
      /\ \A j \in 1..Len(Tail(s)) : Tail(s)[j] = s[j + 1]
  BY HeadTailProperties
<1>3. /\ Len(s) \in Nat /\ DOMAIN s = 1..Len(s)
      /\ DOMAIN Tail(s) = 1..Len(Tail(s))
  BY <1>2, LenProperties
<1>4. i # 1
  <2>1. Head(s) = s[1] BY HeadTailProperties
  <2> QED BY <1>1, <2>1
<1>5. i - 1 \in DOMAIN Tail(s) /\ Tail(s)[i - 1] = m BY <1>1, <1>2, <1>3, <1>4
<1> QED BY <1>5 DEF Holds

LEMMA SentNet ==
  ASSUME NEW e \in Ends, NEW ms \in Seq(Messages), NetTyped, Send(e, ms)
  PROVE  \A d \in Ends : \A m :
           Holds(net'[d], m) <=> Holds(net[d], m) \/ (d = Peer(e) /\ Holds(ms, m))
<1>1. Peer(e) \in Ends /\ net[Peer(e)] \in Seq(Messages) BY DEF Peer, Ends, NetTyped
<1>2. \A d \in Ends : net'[d] = IF d = Peer(e) THEN net[Peer(e)] \o ms ELSE net[d]
  BY <1>1 DEF NetTyped, Send
<1> QED BY <1>1, <1>2, SendNet, HoldsAppended

\* What is taken was there; what is sent is there; nothing else moves.
LEMMA ReceivedNet ==
  ASSUME NEW e \in Ends, NEW ms \in Seq(Messages), NEW r, NetTyped, Receive(e, r, ms)
  PROVE  /\ Holds(net[e], r)
         /\ \A d \in Ends : \A m :
              /\ Holds(net'[d], m) => Holds(net[d], m) \/ (d = Peer(e) /\ Holds(ms, m))
              /\ Holds(net[d], m) /\ (d # e \/ m # r) => Holds(net'[d], m)
              /\ d = Peer(e) /\ Holds(ms, m) => Holds(net'[d], m)
<1>1. Peer(e) \in Ends /\ Peer(e) # e BY DEF Peer, Ends, Caller, Callee
<1>2. net[Peer(e)] \in Seq(Messages) /\ net[e] \in Seq(Messages) BY <1>1 DEF NetTyped
<1>3. net[e] # <<>> /\ Head(net[e]) = r BY DEF Receive
<1>4. \A d \in Ends : net'[d] = IF d = e THEN Tail(net[e])
                                 ELSE IF d = Peer(e) THEN net[Peer(e)] \o ms ELSE net[d]
  BY <1>1 DEF NetTyped, Receive
<1>5. \A d \in Ends : \A m : Holds(net[d], m) /\ (d # e \/ m # r) => Holds(net'[d], m)
  BY <1>2, <1>3, <1>4, HoldsAppended, HoldsRest
<1>6. \A d \in Ends : \A m : d = Peer(e) /\ Holds(ms, m) => Holds(net'[d], m)
  BY <1>1, <1>2, <1>4, HoldsAppended
<1> QED BY <1>5, <1>6, ReceiveNet

\* Taken and not answered.
LEMMA TakenNet ==
  ASSUME NEW e \in Ends, NEW r, NetTyped, Receive(e, r, <<>>)
  PROVE  /\ Holds(net[e], r)
         /\ \A d \in Ends : \A m :
              /\ Holds(net'[d], m) => Holds(net[d], m)
              /\ Holds(net[d], m) /\ (d # e \/ m # r) => Holds(net'[d], m)
<1> DEFINE none == <<>>
<1>1. none \in Seq(Messages) /\ \A m : ~Holds(none, m) BY Literals, HoldsLiteral
<1>2. Receive(e, r, none) OBVIOUS
<1> HIDE DEF none
<1> QED BY <1>1, <1>2, ReceivedNet

LEMMA MarkedOrNot ==
  /\ \A c \in {100, 180, 200, 481, 487, 603} :
       /\ Response("INVITE", c) \in Messages \ Marked
       /\ Response("CANCEL", c) \in Messages \ Marked
  /\ Request("INVITE") \in Messages \ Marked
  /\ Request("CANCEL") \in Messages \ Marked
  /\ Request("ACK") \in Marked
  /\ \A b \in Byes : Request(b) \in Marked
  /\ \A b \in Byes, c \in {200, 481, 501} : Response(b, c) \in Marked
<1>1. /\ \A c \in {100, 180, 200, 481, 487, 603} :
           /\ Response("INVITE", c) \in Messages /\ Response("INVITE", c).of = "INVITE"
           /\ Response("CANCEL", c) \in Messages /\ Response("CANCEL", c).of = "CANCEL"
      /\ Request("INVITE") \in Messages /\ Request("INVITE").of = "INVITE"
      /\ Request("CANCEL") \in Messages /\ Request("CANCEL").of = "CANCEL"
  BY DEF Messages, Response, Request
<1>2. "INVITE" \notin Byes \cup {"ACK"} /\ "CANCEL" \notin Byes \cup {"ACK"} BY DEF Byes
<1>3. Request("ACK") \in Messages /\ Request("ACK").of = "ACK" BY DEF Messages, Request
<1>4. \A b \in Byes : Request(b) \in Messages /\ Request(b).of = b BY DEF Messages, Request
<1>5. \A b \in Byes, c \in {200, 481, 501} : Response(b, c) \in Messages /\ Response(b, c).of = b
  BY DEF Messages, Response
<1> QED BY <1>1, <1>2, <1>3, <1>4, <1>5 DEF Marked

LEMMA PlainSent ==
  /\ Plain(<<>>)
  /\ \A a \in Messages \ Marked : Plain(<<a>>)
  /\ \A a, b \in Messages \ Marked : Plain(<<a, b>>)
BY HoldsLiteral, Literals DEF Plain

LEMMA MarkedSent ==
  /\ \A a \in Marked : <<a>> \in Seq(Messages)
  /\ \A a, b \in Marked : <<a, b>> \in Seq(Messages)
<1>1. \A a \in Marked : a \in Messages BY DEF Marked
<1> QED BY <1>1, Literals

LEMMA RequestsSent ==
  /\ <<Request("ACK")>> \in Seq(Messages)
  /\ <<Request("BYE")>> \in Seq(Messages)
  /\ <<Request("internal BYE")>> \in Seq(Messages)
  /\ <<Request("BYE"), Request("internal BYE")>> \in Seq(Messages)
<1>1. "BYE" \in Byes /\ "internal BYE" \in Byes BY DEF Byes
<1>2. \A b \in Byes : Request(b) \in Marked BY MarkedOrNot
<1>3. Request("ACK") \in Marked BY MarkedOrNot
<1>4. Request("BYE") \in Marked /\ Request("internal BYE") \in Marked BY <1>1, <1>2
<1> QED BY <1>3, <1>4, MarkedSent

LEMMA CalmSend ==
  ASSUME NetTyped, NEW e \in Ends, NEW ms, Plain(ms), Send(e, ms)
  PROVE  NetCalm
BY SentNet DEF NetCalm, Plain

LEMMA CalmReceive ==
  ASSUME NetTyped, NEW e \in Ends, NEW ms, NEW r \in Messages \ Marked, Plain(ms), Receive(e, r, ms)
  PROVE  NetCalm
BY ReceivedNet DEF NetCalm, Plain

\* What a message says stays true.
BooksKept ==
  /\ \A e \in Ends, b \in Byes : bye[e][b] # "None" => bye'[e][b] # "None"
  /\ Ended => Ended'
  /\ acked => acked'

LEMMA MeantKept ==
  ASSUME NetKnows, BooksKept,
         \A d \in Ends : \A m \in Marked : Holds(net'[d], m) => Holds(net[d], m) \/ Meant(d, m)'
  PROVE  AllMeant'
<1>1. \A d \in Ends : Peer(d) \in Ends BY DEF Ends, Peer
<1>2. \A d \in Ends : \A m : Meant(d, m) => Meant(d, m)' BY <1>1 DEF Meant, BooksKept
<1> QED BY <1>2 DEF NetKnows, AllMeant

\* A step that sends and takes no marked message, and changes no BYE.
LEMMA CalmKept ==
  ASSUME NetKnows, NetCalm, UNCHANGED <<bye, lost, acked>>, Ended => Ended'
  PROVE  NetKnows'
<1>1. AllMeant' BY MeantKept DEF NetCalm, BooksKept
<1>2. CallerByes' BY MarkedOrNot DEF CallerByes, NetKnows, NetCalm, Ends
<1> QED BY <1>1, <1>2 DEF NetKnows

\* What is sent and what is taken, as far as it is marked.
NetAdds(e, ms) ==
  \A d \in Ends : \A m \in Marked :
    Holds(net'[d], m) <=> Holds(net[d], m) \/ (d = Peer(e) /\ Holds(ms, m))

LEMMA SendAdds ==
  ASSUME NetTyped, NEW e \in Ends, NEW ms \in Seq(Messages), Send(e, ms)
  PROVE  NetAdds(e, ms)
BY SentNet DEF NetAdds

LEMMA ReceiveAdds ==
  ASSUME NetTyped, NEW e \in Ends, NEW ms \in Seq(Messages), NEW r \in Messages \ Marked,
         Receive(e, r, ms)
  PROVE  NetAdds(e, ms)
BY ReceivedNet DEF NetAdds

LEMMA MeantBye ==
  ASSUME NEW d \in Ends, NEW b \in Byes, bye'[Peer(d)][b] # "None"
  PROVE  Meant(d, Request(b))'
BY DEF Meant, Request, Byes

LEMMA MeantAnswer ==
  ASSUME NEW d \in Ends, NEW b \in Byes, NEW c \in {200, 481, 501}, d = Caller => Ended'
  PROVE  Meant(d, Response(b, c))'
<1>1. Response(b, c).of = b /\ Response(b, c).code = c BY DEF Response
<1>2. b # "ACK" BY DEF Byes
<1>3. c # 0 OBVIOUS
<1> QED BY <1>1, <1>2, <1>3 DEF Meant

LEMMA MeantAck ==
  ASSUME NEW d \in Ends, d = Callee => acked'
  PROVE  Meant(d, Request("ACK"))'
BY DEF Meant, Request, Byes

\* BYEs are sent as their transactions start.
LEMMA ByesKept ==
  ASSUME NetKnows, NEW e \in Ends, NEW B \in SUBSET Byes, NEW ms, NetAdds(e, ms),
         \A m \in Marked : Holds(ms, m) => \E b \in B : m = Request(b),
         \A b \in B : Holds(ms, Request(b)),
         \A f \in Ends : \A b \in Byes :
           bye'[f][b] = IF f = e /\ b \in B THEN "TRYING" ELSE bye[f][b],
         UNCHANGED <<lost, acked>>, Ended => Ended'
  PROVE  NetKnows'
<1>1. Peer(Peer(e)) = e /\ Peer(Caller) = Callee /\ Caller \in Ends /\ Callee \in Ends
  BY DEF Ends, Peer, Caller, Callee
<1>2. AllMeant'
  <2>1. BooksKept BY DEF BooksKept
  <2>2. ASSUME NEW d \in Ends, NEW m \in Marked, d = Peer(e), Holds(ms, m)
        PROVE  Meant(d, m)'
    <3>1. PICK b \in B : m = Request(b) BY <2>2
    <3>2. bye'[e][b] = "TRYING" OBVIOUS
    <3> QED BY <1>1, <2>2, <3>1, <3>2, MeantBye
  <2> QED BY <2>1, <2>2, MeantKept DEF NetAdds
<1>3. CallerByes'
  <2> SUFFICES ASSUME NEW b \in Byes, bye'[Caller][b] # "None"
               PROVE  \/ Ended'
                      \/ Request(b) \in lost'[Callee]
                      \/ bye'[Caller][b] = "TRYING" /\ Holds(net'[Callee], Request(b))
    BY DEF CallerByes
  <2>1. Request(b) \in Marked BY MarkedOrNot
  <2>2. CASE Caller = e /\ b \in B
    BY <1>1, <2>1, <2>2 DEF NetAdds
  <2>3. CASE ~(Caller = e /\ b \in B)
    <3>1. bye'[Caller][b] = bye[Caller][b] BY <1>1, <2>3
    <3> QED BY <1>1, <2>1, <3>1 DEF NetAdds, NetKnows, CallerByes
  <2> QED BY <2>2, <2>3
<1> QED BY <1>2, <1>3 DEF NetKnows

\* The ACK is sent as last_out_ack is set.
LEMMA AckKept ==
  ASSUME NetKnows, NetAdds(Caller, <<Request("ACK")>>), UNCHANGED <<bye, lost>>, acked',
         Ended => Ended'
  PROVE  NetKnows'
<1>1. AllMeant'
  <2>1. BooksKept BY DEF BooksKept
  <2>2. \A m : Holds(<<Request("ACK")>>, m) <=> m = Request("ACK") BY HoldsLiteral
  <2> QED BY <2>1, <2>2, MeantKept, MeantAck DEF NetAdds
<1>2. CallerByes'
  <2>1. Callee \in Ends /\ \A b \in Byes : Request(b) \in Marked BY MarkedOrNot DEF Ends
  <2> QED BY <2>1 DEF NetAdds, NetKnows, CallerByes
<1> QED BY <1>1, <1>2 DEF NetKnows

\* A step of the caller.
LEMMA CalleeAlone ==
  ASSUME CalleeKnows, UNCHANGED <<user[Callee], op[Callee], dlg[Callee], due[Callee]>>,
         UNCHANGED <<bye[Callee]["BYE"], bye[Callee]["internal BYE"], okTimer, acked>>
  PROVE  CalleeKnows'
BY DEF CalleeKnows, Ended, Ending

\* Who does not confirm the dialog and leaves the timer alone.
LEMMA EndingKept ==
  ASSUME Ending, UNCHANGED <<bye, okTimer, acked>>,
         dlg'[Callee] = "CONFIRMED" => dlg[Callee] = "CONFIRMED"
  PROVE  Ending'
BY DEF Ending

\* A callee that has answered has answered.
LEMMA AnsweredStays == ASSUME ViewStep, Answered PROVE Answered'
BY DEF Answered, ViewStep, View!Next, View!Call, View!Ring, View!Answer, View!Connect,
       View!CallerEnds, View!CalleeEnds
------------------------------------------------------------------------------
(* The steps that send and take no marked message, and change no BYE.         *)

LEMMA CallKeeps ==
  ASSUME Step, Call
  PROVE  ByeInvariant'
<1> USE DEF Ends, Caller, Callee, endVars, byeVars, callerVars, calleeVars, faultVars,
      Call, User, Op
<1>1. Answered => Answered' BY AnsweredStays DEF Step
<1>2. UNCHANGED <<bye, lost, acked>> OBVIOUS
<1>3. Ended => Ended'
  BY DEF Step, IInv, Local, Typed, UserTyped, DialogTyped, CalleeInv, EndInv, Ended
<1>4. CallerKnows'
  BY <1>1, <1>2 DEF Step, ByeInvariant, EndsKnow, CallerKnows, InCall, Quit, IInv, Local,
     Typed, UserTyped, DialogTyped, LinkTyped, CallerInv, EndInv
<1>5. CalleeKnows'
  <2>1. UNCHANGED <<user[Callee], op[Callee], dlg[Callee], due[Callee]>>
    BY DEF Step, IInv, Local, Typed, UserTyped, DialogTyped
  <2>2. UNCHANGED okTimer OBVIOUS
  <2> QED BY <1>2, <2>1, <2>2, CalleeAlone DEF Step, ByeInvariant, EndsKnow
<1>6. NetCalm
  <2>1. Plain(<<Request("INVITE")>>) BY PlainSent, MarkedOrNot
  <2>2. Send(Caller, <<Request("INVITE")>>) OBVIOUS
  <2> QED BY <2>1, <2>2, CalmSend DEF Step, IInv
<1>7. NetKnows' BY <1>2, <1>3, <1>6, CalmKept DEF Step, ByeInvariant
<1> QED BY <1>1, <1>2, <1>4, <1>5, <1>7 DEF Step, ByeInvariant, EndsKnow, Quit

LEMMA RingKeeps ==
  ASSUME Step, Ring
  PROVE  ByeInvariant'
<1> USE DEF Ends, Caller, Callee, endVars, byeVars, callerVars, calleeVars, faultVars,
      Ring, SetDialog
<1>1. Answered => Answered' BY AnsweredStays DEF Step
<1>2. UNCHANGED <<bye, lost, acked>> OBVIOUS
<1>3. Ended => Ended'
  BY DEF Step, IInv, Local, Typed, UserTyped, DialogTyped, CalleeInv, EndInv, Ended
<1>4. CallerKnows'
  BY <1>1, <1>2 DEF Step, ByeInvariant, EndsKnow, CallerKnows, InCall, Quit, IInv, Local,
     Typed, UserTyped, DialogTyped, LinkTyped, CallerInv, EndInv
<1>5. CalleeKnows'
  BY <1>2, <1>3 DEF Step, ByeInvariant, EndsKnow, CalleeKnows, Ending, Ended, IInv, Local,
     Typed, UserTyped, DialogTyped, CalleeInv, EndInv, OkInv, CalleeLinked, Over
<1>6. NetCalm
  <2>1. Plain(<<Response("INVITE", 180)>>) BY PlainSent, MarkedOrNot
  <2>2. Send(Callee, <<Response("INVITE", 180)>>) OBVIOUS
  <2> QED BY <2>1, <2>2, CalmSend DEF Step, IInv
<1>7. NetKnows' BY <1>2, <1>3, <1>6, CalmKept DEF Step, ByeInvariant
<1> QED BY <1>1, <1>2, <1>4, <1>5, <1>7 DEF Step, ByeInvariant, EndsKnow, Quit

LEMMA AcceptKeeps ==
  ASSUME Step, Accept
  PROVE  ByeInvariant'
<1> USE DEF Ends, Caller, Callee, endVars, byeVars, callerVars, calleeVars, faultVars,
      Accept, SetDialog, User
<1>1. Answered => Answered' BY AnsweredStays DEF Step
<1>2. UNCHANGED <<bye, lost, acked>> OBVIOUS
<1>3. Ended => Ended'
  BY DEF Step, IInv, Local, Typed, UserTyped, DialogTyped, CalleeInv, EndInv, Ended
<1>4. CallerKnows'
  BY <1>1, <1>2 DEF Step, ByeInvariant, EndsKnow, CallerKnows, InCall, Quit, IInv, Local,
     Typed, UserTyped, DialogTyped, LinkTyped, CallerInv, EndInv
<1>5. CalleeKnows'
  BY <1>2, <1>3 DEF Step, ByeInvariant, EndsKnow, CalleeKnows, Ending, Ended, IInv, Local,
     Typed, UserTyped, DialogTyped, CalleeInv, EndInv, OkInv, CalleeLinked, Over
<1>6. NetCalm
  <2>1. Plain(<<Response("INVITE", 200)>>) BY PlainSent, MarkedOrNot
  <2>2. Send(Callee, <<Response("INVITE", 200)>>) OBVIOUS
  <2> QED BY <2>1, <2>2, CalmSend DEF Step, IInv
<1>7. NetKnows' BY <1>2, <1>3, <1>6, CalmKept DEF Step, ByeInvariant
<1> QED BY <1>1, <1>2, <1>4, <1>5, <1>7 DEF Step, ByeInvariant, EndsKnow, Quit

LEMMA DeclineKeeps ==
  ASSUME Step, Decline
  PROVE  ByeInvariant'
<1> USE DEF Ends, Caller, Callee, endVars, byeVars, callerVars, calleeVars, faultVars,
      Decline, Delete, SetDialog, User
<1>1. Answered => Answered' BY AnsweredStays DEF Step
<1>2. UNCHANGED <<bye, lost, acked>> OBVIOUS
<1>3. Ended => Ended'
  BY DEF Step, IInv, Local, Typed, UserTyped, DialogTyped, CalleeInv, EndInv, Ended
<1>4. CallerKnows'
  BY <1>1, <1>2 DEF Step, ByeInvariant, EndsKnow, CallerKnows, InCall, Quit, IInv, Local,
     Typed, UserTyped, DialogTyped, LinkTyped, CallerInv, EndInv
<1>5. CalleeKnows'
  BY <1>2, <1>3 DEF Step, ByeInvariant, EndsKnow, CalleeKnows, Ending, Ended, IInv, Local,
     Typed, UserTyped, DialogTyped, CalleeInv, EndInv, OkInv, CalleeLinked, Over
<1>6. NetCalm
  <2>1. Plain(<<Response("INVITE", 603)>>) BY PlainSent, MarkedOrNot
  <2>2. Send(Callee, <<Response("INVITE", 603)>>) OBVIOUS
  <2> QED BY <2>1, <2>2, CalmSend DEF Step, IInv
<1>7. NetKnows' BY <1>2, <1>3, <1>6, CalmKept DEF Step, ByeInvariant
<1> QED BY <1>1, <1>2, <1>4, <1>5, <1>7 DEF Step, ByeInvariant, EndsKnow, Quit

LEMMA ReceiveProvisionalKeeps ==
  ASSUME NEW c \in {100, 180}, Step, ReceiveProvisional(c)
  PROVE  ByeInvariant'
<1> USE DEF Ends, Caller, Callee, endVars, byeVars, callerVars, calleeVars, faultVars,
      ReceiveProvisional, SetDialog, Link, Alive
<1>1. Answered => Answered' BY AnsweredStays DEF Step
<1>2. UNCHANGED <<bye, lost, acked>> OBVIOUS
<1>3. Ended => Ended'
  BY DEF Step, IInv, Local, Typed, UserTyped, DialogTyped, CalleeInv, EndInv, Ended
<1>4. CallerKnows'
  BY <1>1, <1>2 DEF Step, ByeInvariant, EndsKnow, CallerKnows, InCall, Quit, IInv, Local,
     Typed, UserTyped, DialogTyped, LinkTyped, CallerInv, EndInv
<1>5. CalleeKnows'
  <2>1. UNCHANGED <<user[Callee], op[Callee], dlg[Callee], due[Callee]>>
    BY DEF Step, IInv, Local, Typed, UserTyped, DialogTyped
  <2>2. UNCHANGED okTimer OBVIOUS
  <2> QED BY <1>2, <2>1, <2>2, CalleeAlone DEF Step, ByeInvariant, EndsKnow
<1>6. NetCalm
  <2>0. Response("INVITE", c) \in Messages \ Marked BY MarkedOrNot
  <2>1. CASE Receive(Caller, Response("INVITE", c), <<Request("CANCEL")>>)
    <3>1. Plain(<<Request("CANCEL")>>) BY PlainSent, MarkedOrNot
    <3> QED BY <2>0, <2>1, <3>1, CalmReceive DEF Step, IInv
  <2>2. CASE Receive(Caller, Response("INVITE", c), <<>>)
    <3>1. Plain(<<>>) BY PlainSent, MarkedOrNot
    <3> QED BY <2>0, <2>2, <3>1, CalmReceive DEF Step, IInv
  <2> QED BY <2>1, <2>2
<1>7. NetKnows' BY <1>2, <1>3, <1>6, CalmKept DEF Step, ByeInvariant
<1> QED BY <1>1, <1>2, <1>4, <1>5, <1>7 DEF Step, ByeInvariant, EndsKnow, Quit

LEMMA ReceiveFailureKeeps ==
  ASSUME NEW c \in {487, 603}, Step, ReceiveFailure(c)
  PROVE  ByeInvariant'
<1> USE DEF Ends, Caller, Callee, endVars, byeVars, callerVars, calleeVars, faultVars,
      ReceiveFailure, Failure, Delete, SetDialog, KeepDialog, Released, User, Op, Link, Alive
<1>1. Answered => Answered' BY AnsweredStays DEF Step
<1>2. UNCHANGED <<bye, lost, acked>> OBVIOUS
<1>3. Ended => Ended'
  BY DEF Step, IInv, Local, Typed, UserTyped, DialogTyped, CalleeInv, EndInv, Ended
<1>4. CallerKnows'
  BY <1>1, <1>2 DEF Step, ByeInvariant, EndsKnow, CallerKnows, InCall, Quit, IInv, Local,
     Typed, UserTyped, DialogTyped, LinkTyped, CallerInv, EndInv
<1>5. CalleeKnows'
  <2>1. UNCHANGED <<user[Callee], op[Callee], dlg[Callee], due[Callee]>>
    BY DEF Step, IInv, Local, Typed, UserTyped, DialogTyped
  <2>2. UNCHANGED okTimer OBVIOUS
  <2> QED BY <1>2, <2>1, <2>2, CalleeAlone DEF Step, ByeInvariant, EndsKnow
<1>6. NetCalm
  <2>0. Response("INVITE", c) \in Messages \ Marked BY MarkedOrNot
  <2>1. Plain(<<>>) BY PlainSent, MarkedOrNot
  <2>2. Receive(Caller, Response("INVITE", c), <<>>) OBVIOUS
  <2> QED BY <2>0, <2>1, <2>2, CalmReceive DEF Step, IInv
<1>7. NetKnows' BY <1>2, <1>3, <1>6, CalmKept DEF Step, ByeInvariant
<1> QED BY <1>1, <1>2, <1>4, <1>5, <1>7 DEF Step, ByeInvariant, EndsKnow, Quit

LEMMA ReceiveStaleKeeps ==
  ASSUME NEW c \in {100, 180, 487, 603}, Step, ReceiveStale(c)
  PROVE  ByeInvariant'
<1> USE DEF Ends, Caller, Callee, endVars, byeVars, callerVars, calleeVars, faultVars,
      ReceiveStale
<1>1. Answered => Answered' BY AnsweredStays DEF Step
<1>2. UNCHANGED <<bye, lost, acked>> OBVIOUS
<1>3. Ended => Ended'
  BY DEF Step, IInv, Local, Typed, UserTyped, DialogTyped, CalleeInv, EndInv, Ended
<1>4. CallerKnows'
  BY <1>1, <1>2 DEF Step, ByeInvariant, EndsKnow, CallerKnows, InCall, Quit, IInv, Local,
     Typed, UserTyped, DialogTyped, LinkTyped, CallerInv, EndInv
<1>5. CalleeKnows'
  <2>1. UNCHANGED <<user[Callee], op[Callee], dlg[Callee], due[Callee]>>
    BY DEF Step, IInv, Local, Typed, UserTyped, DialogTyped
  <2>2. UNCHANGED okTimer OBVIOUS
  <2> QED BY <1>2, <2>1, <2>2, CalleeAlone DEF Step, ByeInvariant, EndsKnow
<1>6. NetCalm
  <2>0. Response("INVITE", c) \in Messages \ Marked BY MarkedOrNot
  <2>1. Plain(<<>>) BY PlainSent, MarkedOrNot
  <2>2. Receive(Caller, Response("INVITE", c), <<>>) OBVIOUS
  <2> QED BY <2>0, <2>1, <2>2, CalmReceive DEF Step, IInv
<1>7. NetKnows' BY <1>2, <1>3, <1>6, CalmKept DEF Step, ByeInvariant
<1> QED BY <1>1, <1>2, <1>4, <1>5, <1>7 DEF Step, ByeInvariant, EndsKnow, Quit

LEMMA ReceiveCancelAnswerKeeps ==
  ASSUME NEW c \in {200, 481}, Step, ReceiveCancelAnswer(c)
  PROVE  ByeInvariant'
<1> USE DEF Ends, Caller, Callee, endVars, byeVars, callerVars, calleeVars, faultVars,
      ReceiveCancelAnswer, Link, Alive
<1>1. Answered => Answered' BY AnsweredStays DEF Step
<1>2. UNCHANGED <<bye, lost, acked>> OBVIOUS
<1>3. Ended => Ended'
  BY DEF Step, IInv, Local, Typed, UserTyped, DialogTyped, CalleeInv, EndInv, Ended
<1>4. CallerKnows'
  BY <1>1, <1>2 DEF Step, ByeInvariant, EndsKnow, CallerKnows, InCall, Quit, IInv, Local,
     Typed, UserTyped, DialogTyped, LinkTyped, CallerInv, EndInv
<1>5. CalleeKnows'
  <2>1. UNCHANGED <<user[Callee], op[Callee], dlg[Callee], due[Callee]>>
    BY DEF Step, IInv, Local, Typed, UserTyped, DialogTyped
  <2>2. UNCHANGED okTimer OBVIOUS
  <2> QED BY <1>2, <2>1, <2>2, CalleeAlone DEF Step, ByeInvariant, EndsKnow
<1>6. NetCalm
  <2>0. Response("CANCEL", c) \in Messages \ Marked BY MarkedOrNot
  <2>1. Plain(<<>>) BY PlainSent, MarkedOrNot
  <2>2. Receive(Caller, Response("CANCEL", c), <<>>) OBVIOUS
  <2> QED BY <2>0, <2>1, <2>2, CalmReceive DEF Step, IInv
<1>7. NetKnows' BY <1>2, <1>3, <1>6, CalmKept DEF Step, ByeInvariant
<1> QED BY <1>1, <1>2, <1>4, <1>5, <1>7 DEF Step, ByeInvariant, EndsKnow, Quit

LEMMA ReceiveInviteKeeps ==
  ASSUME Step, ReceiveInvite
  PROVE  ByeInvariant'
<1> USE DEF Ends, Caller, Callee, endVars, byeVars, callerVars, calleeVars, faultVars,
      ReceiveInvite, SetDialog, User, Op, Link
<1>1. Answered => Answered' BY AnsweredStays DEF Step
<1>2. UNCHANGED <<bye, lost, acked>> OBVIOUS
<1>3. Ended => Ended'
  BY DEF Step, IInv, Local, Typed, UserTyped, DialogTyped, CalleeInv, EndInv, Ended
<1>4. CallerKnows'
  BY <1>1, <1>2 DEF Step, ByeInvariant, EndsKnow, CallerKnows, InCall, Quit, IInv, Local,
     Typed, UserTyped, DialogTyped, LinkTyped, CallerInv, EndInv
<1>5. CalleeKnows'
  BY <1>2, <1>3 DEF Step, ByeInvariant, EndsKnow, CalleeKnows, Ending, Ended, IInv, Local,
     Typed, UserTyped, DialogTyped, CalleeInv, EndInv, OkInv, CalleeLinked, Over
<1>6. NetCalm
  <2>0. Request("INVITE") \in Messages \ Marked BY MarkedOrNot
  <2>1. Plain(<<Response("INVITE", 100)>>) BY PlainSent, MarkedOrNot
  <2>2. Receive(Callee, Request("INVITE"), <<Response("INVITE", 100)>>) OBVIOUS
  <2> QED BY <2>0, <2>1, <2>2, CalmReceive DEF Step, IInv
<1>7. NetKnows' BY <1>2, <1>3, <1>6, CalmKept DEF Step, ByeInvariant
<1> QED BY <1>1, <1>2, <1>4, <1>5, <1>7 DEF Step, ByeInvariant, EndsKnow, Quit

LEMMA ReceiveCancelKeeps ==
  ASSUME Step, ReceiveCancel
  PROVE  ByeInvariant'
<1> USE DEF Ends, Caller, Callee, endVars, byeVars, callerVars, calleeVars, faultVars,
      ReceiveCancel, Delete, SetDialog, KeepDialog, User
<1>1. Answered => Answered' BY AnsweredStays DEF Step
<1>2. UNCHANGED <<bye, lost, acked>> OBVIOUS
<1>3. Ended => Ended'
  BY DEF Step, IInv, Local, Typed, UserTyped, DialogTyped, CalleeInv, EndInv, Ended
<1>4. CallerKnows'
  BY <1>1, <1>2 DEF Step, ByeInvariant, EndsKnow, CallerKnows, InCall, Quit, IInv, Local,
     Typed, UserTyped, DialogTyped, LinkTyped, CallerInv, EndInv
<1>5. CalleeKnows'
  <2>1. (dlg[Callee] = "CONFIRMED" => op[Callee] \notin {"None", "Terminated"})'
    BY DEF Step, ByeInvariant, EndsKnow, CalleeKnows, Ended, IInv, Local, Typed, UserTyped,
       DialogTyped, LinkTyped, CalleeInv, EndInv, CalleeLinked
  <2>2. Ending'
    <3>1. dlg'[Callee] = "CONFIRMED" => dlg[Callee] = "CONFIRMED"
      BY DEF Step, IInv, Local, Typed, DialogTyped
    <3>2. okTimer' = okTimer OBVIOUS
    <3> QED BY <1>2, <3>1, <3>2, EndingKept DEF Step, ByeInvariant, EndsKnow, CalleeKnows
  <2>3. ("release" \in due[Callee] => Ended)'
    BY <1>3 DEF Step, ByeInvariant, EndsKnow, CalleeKnows, Ended, IInv, Local, Typed, DialogTyped,
       EndInv
  <2>4. (op[Callee] # "None" => dlg[Callee] # "None")'
    BY DEF Step, ByeInvariant, EndsKnow, CalleeKnows, Ended, IInv, Local, Typed, UserTyped,
       DialogTyped, EndInv
  <2>5. (bye[Callee]["BYE"] # "None" => user[Callee] \in Over)'
    <3>1. user[Callee] \in Over => user'[Callee] \in Over
      BY DEF Step, IInv, Local, Typed, UserTyped, Over
    <3> QED BY <1>2, <3>1 DEF Step, ByeInvariant, EndsKnow, CalleeKnows
  <2>6. (bye[Callee]["internal BYE"] \in {"COMPLETED", "Done"} => Ended)'
    BY <1>2, <1>3 DEF Step, ByeInvariant, EndsKnow, CalleeKnows
  <2> QED BY <2>1, <2>2, <2>3, <2>4, <2>5, <2>6 DEF CalleeKnows
<1>6. NetCalm
  <2>0. Request("CANCEL") \in Messages \ Marked BY MarkedOrNot
  <2>1. CASE Receive(Callee, Request("CANCEL"),
       <<Response("CANCEL", 200), Response("INVITE", 487)>>)
    <3>1. Plain(<<Response("CANCEL", 200), Response("INVITE", 487)>>) BY PlainSent, MarkedOrNot
    <3> QED BY <2>0, <2>1, <3>1, CalmReceive DEF Step, IInv
  <2>2. CASE Receive(Callee, Request("CANCEL"), <<Response("CANCEL", 481)>>)
    <3>1. Plain(<<Response("CANCEL", 481)>>) BY PlainSent, MarkedOrNot
    <3> QED BY <2>0, <2>2, <3>1, CalmReceive DEF Step, IInv
  <2>3. CASE Receive(Callee, Request("CANCEL"), <<>>)
    <3>1. Plain(<<>>) BY PlainSent, MarkedOrNot
    <3> QED BY <2>0, <2>3, <3>1, CalmReceive DEF Step, IInv
  <2> QED BY <2>1, <2>2, <2>3
<1>7. NetKnows' BY <1>2, <1>3, <1>6, CalmKept DEF Step, ByeInvariant
<1> QED BY <1>1, <1>2, <1>4, <1>5, <1>7 DEF Step, ByeInvariant, EndsKnow, Quit

LEMMA ResendOkKeeps ==
  ASSUME Step, ResendOk
  PROVE  ByeInvariant'
<1> USE DEF Ends, Caller, Callee, endVars, byeVars, callerVars, calleeVars, faultVars,
      ResendOk
<1>1. Answered => Answered' BY AnsweredStays DEF Step
<1>2. UNCHANGED <<bye, lost, acked>> OBVIOUS
<1>3. Ended => Ended'
  BY DEF Step, IInv, Local, Typed, UserTyped, DialogTyped, CalleeInv, EndInv, Ended
<1>4. CallerKnows'
  BY <1>1, <1>2 DEF Step, ByeInvariant, EndsKnow, CallerKnows, InCall, Quit, IInv, Local,
     Typed, UserTyped, DialogTyped, LinkTyped, CallerInv, EndInv
<1>5. CalleeKnows'
  BY <1>2, <1>3 DEF Step, ByeInvariant, EndsKnow, CalleeKnows, Ending, Ended, IInv, Local,
     Typed, UserTyped, DialogTyped, CalleeInv, EndInv, OkInv, CalleeLinked, Over
<1>6. NetCalm
  <2>1. Plain(<<Response("INVITE", 200)>>) BY PlainSent, MarkedOrNot
  <2>2. Send(Callee, <<Response("INVITE", 200)>>) OBVIOUS
  <2> QED BY <2>1, <2>2, CalmSend DEF Step, IInv
<1>7. NetKnows' BY <1>2, <1>3, <1>6, CalmKept DEF Step, ByeInvariant
<1> QED BY <1>1, <1>2, <1>4, <1>5, <1>7 DEF Step, ByeInvariant, EndsKnow, Quit

LEMMA InviteTimeoutKeeps ==
  ASSUME Step, InviteTimeout
  PROVE  ByeInvariant'
<1> USE DEF Ends, Caller, Callee, endVars, byeVars, callerVars, calleeVars, faultVars,
      InviteTimeout, Fail, Released, KeepDialog, User, Op, Link, Alive
<1>1. Answered => Answered' BY AnsweredStays DEF Step
<1>2. UNCHANGED <<bye, lost, acked>> OBVIOUS
<1>3. Ended => Ended'
  BY DEF Step, IInv, Local, Typed, UserTyped, DialogTyped, CalleeInv, EndInv, Ended
<1>4. CallerKnows'
  BY <1>1, <1>2 DEF Step, ByeInvariant, EndsKnow, CallerKnows, InCall, Quit, IInv, Local,
     Typed, UserTyped, DialogTyped, LinkTyped, CallerInv, EndInv
<1>5. CalleeKnows'
  <2>1. UNCHANGED <<user[Callee], op[Callee], dlg[Callee], due[Callee]>>
    BY DEF Step, IInv, Local, Typed, UserTyped, DialogTyped
  <2>2. UNCHANGED okTimer OBVIOUS
  <2> QED BY <1>2, <2>1, <2>2, CalleeAlone DEF Step, ByeInvariant, EndsKnow
<1>6. NetCalm
  BY DEF NetCalm
<1>7. NetKnows' BY <1>2, <1>3, <1>6, CalmKept DEF Step, ByeInvariant
<1> QED BY <1>1, <1>2, <1>4, <1>5, <1>7 DEF Step, ByeInvariant, EndsKnow, Quit

LEMMA CancelTimeoutKeeps ==
  ASSUME Step, CancelTimeout
  PROVE  ByeInvariant'
<1> USE DEF Ends, Caller, Callee, endVars, byeVars, callerVars, calleeVars, faultVars,
      CancelTimeout, Fail, Released, KeepDialog, User, Op, Link, Alive
<1>1. Answered => Answered' BY AnsweredStays DEF Step
<1>2. UNCHANGED <<bye, lost, acked>> OBVIOUS
<1>3. Ended => Ended'
  BY DEF Step, IInv, Local, Typed, UserTyped, DialogTyped, CalleeInv, EndInv, Ended
<1>4. CallerKnows'
  BY <1>1, <1>2 DEF Step, ByeInvariant, EndsKnow, CallerKnows, InCall, Quit, IInv, Local,
     Typed, UserTyped, DialogTyped, LinkTyped, CallerInv, EndInv
<1>5. CalleeKnows'
  <2>1. UNCHANGED <<user[Callee], op[Callee], dlg[Callee], due[Callee]>>
    BY DEF Step, IInv, Local, Typed, UserTyped, DialogTyped
  <2>2. UNCHANGED okTimer OBVIOUS
  <2> QED BY <1>2, <2>1, <2>2, CalleeAlone DEF Step, ByeInvariant, EndsKnow
<1>6. NetCalm
  BY DEF NetCalm
<1>7. NetKnows' BY <1>2, <1>3, <1>6, CalmKept DEF Step, ByeInvariant
<1> QED BY <1>1, <1>2, <1>4, <1>5, <1>7 DEF Step, ByeInvariant, EndsKnow, Quit

LEMMA NoticeKeeps ==
  ASSUME NEW e \in Ends, Step, Notice(e)
  PROVE  ByeInvariant'
<1> USE DEF Ends, Caller, Callee, endVars, byeVars, callerVars, calleeVars, faultVars,
      Notice, User, Op
<1>1. Answered => Answered' BY AnsweredStays DEF Step
<1>2. UNCHANGED <<bye, lost, acked>> OBVIOUS
<1>3. Ended => Ended'
  BY DEF Step, IInv, Local, Typed, UserTyped, DialogTyped, CalleeInv, EndInv, Ended
<1>4. CallerKnows'
  BY <1>1, <1>2 DEF Step, ByeInvariant, EndsKnow, CallerKnows, InCall, Quit, IInv, Local,
     Typed, UserTyped, DialogTyped, LinkTyped, CallerInv, EndInv
<1>5. CalleeKnows'
  <2>1. (dlg[Callee] = "CONFIRMED" => op[Callee] \notin {"None", "Terminated"})'
    BY DEF Step, ByeInvariant, EndsKnow, CalleeKnows, Ended, IInv, Local, Typed, UserTyped,
       DialogTyped, LinkTyped, CalleeInv, EndInv, CalleeLinked
  <2>2. Ending'
    <3>1. dlg'[Callee] = "CONFIRMED" => dlg[Callee] = "CONFIRMED"
      BY DEF Step, IInv, Local, Typed, DialogTyped
    <3>2. okTimer' = okTimer OBVIOUS
    <3> QED BY <1>2, <3>1, <3>2, EndingKept DEF Step, ByeInvariant, EndsKnow, CalleeKnows
  <2>3. ("release" \in due[Callee] => Ended)'
    BY <1>3 DEF Step, ByeInvariant, EndsKnow, CalleeKnows, Ended, IInv, Local, Typed, DialogTyped,
       EndInv
  <2>4. (op[Callee] # "None" => dlg[Callee] # "None")'
    BY DEF Step, ByeInvariant, EndsKnow, CalleeKnows, Ended, IInv, Local, Typed, UserTyped,
       DialogTyped, EndInv
  <2>5. (bye[Callee]["BYE"] # "None" => user[Callee] \in Over)'
    <3>1. user[Callee] \in Over => user'[Callee] \in Over
      BY DEF Step, IInv, Local, Typed, UserTyped, Over
    <3> QED BY <1>2, <3>1 DEF Step, ByeInvariant, EndsKnow, CalleeKnows
  <2>6. (bye[Callee]["internal BYE"] \in {"COMPLETED", "Done"} => Ended)'
    BY <1>2, <1>3 DEF Step, ByeInvariant, EndsKnow, CalleeKnows
  <2> QED BY <2>1, <2>2, <2>3, <2>4, <2>5, <2>6 DEF CalleeKnows
<1>6. NetCalm
  BY DEF NetCalm
<1>7. NetKnows' BY <1>2, <1>3, <1>6, CalmKept DEF Step, ByeInvariant
<1> QED BY <1>1, <1>2, <1>4, <1>5, <1>7 DEF Step, ByeInvariant, EndsKnow, Quit

LEMMA ReleaseKeeps ==
  ASSUME NEW e \in Ends, Step, Release(e)
  PROVE  ByeInvariant'
<1> USE DEF Ends, Caller, Callee, endVars, byeVars, callerVars, calleeVars, faultVars,
      Release, Released, User, Op, Link
<1>1. Answered => Answered' BY AnsweredStays DEF Step
<1>2. UNCHANGED <<bye, lost, acked>> OBVIOUS
<1>3. Ended => Ended'
  BY DEF Step, IInv, Local, Typed, UserTyped, DialogTyped, CalleeInv, EndInv, Ended
<1>4. CallerKnows'
  BY <1>1, <1>2 DEF Step, ByeInvariant, EndsKnow, CallerKnows, InCall, Quit, IInv, Local,
     Typed, UserTyped, DialogTyped, LinkTyped, CallerInv, EndInv
<1>5. CalleeKnows'
  <2>1. (dlg[Callee] = "CONFIRMED" => op[Callee] \notin {"None", "Terminated"})'
    BY DEF Step, ByeInvariant, EndsKnow, CalleeKnows, Ended, IInv, Local, Typed, UserTyped,
       DialogTyped, LinkTyped, CalleeInv, EndInv, CalleeLinked
  <2>2. Ending'
    <3>1. dlg'[Callee] = "CONFIRMED" => dlg[Callee] = "CONFIRMED"
      BY DEF Step, IInv, Local, Typed, DialogTyped
    <3>2. okTimer' = okTimer OBVIOUS
    <3> QED BY <1>2, <3>1, <3>2, EndingKept DEF Step, ByeInvariant, EndsKnow, CalleeKnows
  <2>3. ("release" \in due[Callee] => Ended)'
    BY <1>3 DEF Step, ByeInvariant, EndsKnow, CalleeKnows, Ended, IInv, Local, Typed, DialogTyped,
       EndInv
  <2>4. (op[Callee] # "None" => dlg[Callee] # "None")'
    BY DEF Step, ByeInvariant, EndsKnow, CalleeKnows, Ended, IInv, Local, Typed, UserTyped,
       DialogTyped, EndInv
  <2>5. (bye[Callee]["BYE"] # "None" => user[Callee] \in Over)'
    <3>1. user[Callee] \in Over => user'[Callee] \in Over
      BY DEF Step, IInv, Local, Typed, UserTyped, Over
    <3> QED BY <1>2, <3>1 DEF Step, ByeInvariant, EndsKnow, CalleeKnows
  <2>6. (bye[Callee]["internal BYE"] \in {"COMPLETED", "Done"} => Ended)'
    BY <1>2, <1>3 DEF Step, ByeInvariant, EndsKnow, CalleeKnows
  <2> QED BY <2>1, <2>2, <2>3, <2>4, <2>5, <2>6 DEF CalleeKnows
<1>6. NetCalm
  BY DEF NetCalm
<1>7. NetKnows' BY <1>2, <1>3, <1>6, CalmKept DEF Step, ByeInvariant
<1> QED BY <1>1, <1>2, <1>4, <1>5, <1>7 DEF Step, ByeInvariant, EndsKnow, Quit
------------------------------------------------------------------------------
(* The steps that do.                                                        *)

LEMMA ReceiveAnswerAgainKeeps ==
  ASSUME Step, ReceiveAnswerAgain
  PROVE  ByeInvariant'
<1> DEFINE again == Response("INVITE", 200)
<1>1. Answered => Answered' BY AnsweredStays DEF Step
<1>2. UNCHANGED <<user, op, dlg, due, bye, lost, acked, okTimer>>
  BY DEF ReceiveAnswerAgain, byeVars, callerVars, calleeVars, faultVars
<1>3. InCall => InCall'
  BY <1>2 DEF Step, IInv, Local, Typed, LinkTyped, ReceiveAnswerAgain, InCall, Link, Ends
<1>4. CallerKnows'
  BY <1>1, <1>2, <1>3 DEF Step, ByeInvariant, EndsKnow, CallerKnows, Quit
<1>5. CalleeKnows' BY <1>2, CalleeAlone DEF Step, ByeInvariant, EndsKnow
<1>6. NetKnows'
  <2>1. Ended => Ended' BY <1>2 DEF Ended
  <2>2. CASE Receive(Caller, again, <<Request("ACK")>>) /\ acked
    <3>1. <<Request("ACK")>> \in Seq(Messages) BY RequestsSent
    <3>2. again \in Messages \ Marked BY MarkedOrNot
    <3> HIDE DEF again
    <3>3. NetAdds(Caller, <<Request("ACK")>>)
      BY <2>2, <3>1, <3>2, ReceiveAdds DEF Step, IInv, Ends
    <3> QED BY <1>2, <2>1, <2>2, <3>3, AckKept DEF Step, ByeInvariant
  <2>3. CASE Receive(Caller, again, <<>>)
    <3>1. NetCalm BY <2>3, CalmReceive, PlainSent, MarkedOrNot DEF Step, IInv, Ends
    <3> QED BY <1>2, <2>1, <3>1, CalmKept DEF Step, ByeInvariant
  <2> QED BY <2>2, <2>3 DEF ReceiveAnswerAgain
<1> QED BY <1>1, <1>2, <1>4, <1>5, <1>6 DEF Step, ByeInvariant, EndsKnow, Quit

\* The 2xx was sent by a callee that has answered; now it is acknowledged.
LEMMA ReceiveAnswerKeeps ==
  ASSUME Step, ReceiveAnswer
  PROVE  ByeInvariant'
<1>0. Receive(Caller, Response("INVITE", 200), <<Request("ACK")>>) BY DEF ReceiveAnswer
<1>1. Answered
  <2> DEFINE ms == <<Request("ACK")>>
  <2>1. ms \in Seq(Messages) BY RequestsSent
  <2>2. NetTyped /\ Caller \in Ends BY DEF Step, IInv, Ends
  <2>3. Receive(Caller, Response("INVITE", 200), ms) BY <1>0
  <2> HIDE DEF ms
  <2>4. Holds(net[Caller], Response("INVITE", 200)) BY <2>1, <2>2, <2>3, ReceivedNet
  <2> QED BY <2>4 DEF Step, IInv, Genuine, Accepted
<1>2. Answered' BY <1>1, AnsweredStays DEF Step
<1>3. UNCHANGED <<due, bye, lost, okTimer>> /\ acked' = TRUE
  BY DEF ReceiveAnswer, Confirmed, calleeVars, faultVars
<1>4. InCall' /\ dlg[Caller] # "TERMINATED"
  BY DEF Step, IInv, Local, Typed, UserTyped, DialogTyped, LinkTyped, ReceiveAnswer, Confirmed,
     NewSuccess, SetDialog, Link, Op, InCall, Ends
<1>5. CallerKnows' BY <1>2, <1>3, <1>4 DEF Step, ByeInvariant, EndsKnow, CallerKnows
<1>6. UNCHANGED <<user[Callee], op[Callee], dlg[Callee]>>
  BY DEF Step, IInv, Local, Typed, UserTyped, DialogTyped, ReceiveAnswer, Confirmed, SetDialog,
     User, Op, Ends, Caller, Callee
<1>7. CalleeKnows'
  BY <1>3, <1>6 DEF Step, ByeInvariant, EndsKnow, CalleeKnows, Ending, Ended
<1>8. NetKnows'
  <2>1. <<Request("ACK")>> \in Seq(Messages) BY RequestsSent
  <2>2. Response("INVITE", 200) \in Messages \ Marked BY MarkedOrNot
  <2>3. NetAdds(Caller, <<Request("ACK")>>)
    BY <1>0, <2>1, <2>2, ReceiveAdds DEF Step, IInv, Ends
  <2> QED BY <1>3, <1>6, <2>3, AckKept DEF Step, ByeInvariant, Ended
<1> QED BY <1>2, <1>5, <1>7, <1>8 DEF ByeInvariant, EndsKnow

\* A 2xx that comes too late is answered with BYEs.
LEMMA TooLateKeeps ==
  ASSUME Step, NEW B \in SUBSET Byes, NEW ms \in Seq(Messages), B # {},
         Receive(Caller, Response("INVITE", 200), ms),
         \A m : Holds(ms, m) <=> \E b \in B : m = Request(b),
         \A f \in Ends : \A b \in Byes :
           bye'[f][b] = IF f = Caller /\ b \in B THEN "TRYING" ELSE bye[f][b],
         NewSuccess, Confirmed, UNCHANGED <<user, op, acked>>
  PROVE  ByeInvariant'
<1>1. Answered
  BY ReceivedNet DEF Step, IInv, Genuine, Accepted, Ends
<1>2. Answered' BY <1>1, AnsweredStays DEF Step
<1>3. UNCHANGED <<due, lost, okTimer>>
  BY DEF Confirmed, calleeVars, faultVars
<1>4. Quit'
  <2>1. PICK b \in B : TRUE OBVIOUS
  <2>2. bye'[Caller][b] = "TRYING" BY DEF Ends
  <2> QED BY <2>2 DEF Quit, Ends
<1>5. dlg[Caller] # "TERMINATED" BY DEF NewSuccess
<1>6. CallerKnows'
  BY <1>2, <1>3, <1>4, <1>5 DEF Step, ByeInvariant, EndsKnow, CallerKnows
<1>7. UNCHANGED dlg[Callee]
  BY DEF Step, IInv, Local, Typed, DialogTyped, Confirmed, SetDialog, Ends, Caller, Callee
<1>8. /\ bye'[Callee]["BYE"] = bye[Callee]["BYE"]
      /\ bye'[Callee]["internal BYE"] = bye[Callee]["internal BYE"]
  BY DEF Ends, Byes, Caller, Callee
<1>9. CalleeKnows'
  BY <1>3, <1>7, <1>8 DEF Step, ByeInvariant, EndsKnow, CalleeKnows, Ending, Ended
<1>10. NetKnows'
  <2>1. NetAdds(Caller, ms) BY ReceiveAdds, MarkedOrNot DEF Step, IInv, Ends
  <2>2. Caller \in Ends BY DEF Ends
  <2> QED BY <1>3, <1>7, <2>1, <2>2, ByesKept DEF Step, ByeInvariant, Ended
<1> QED BY <1>2, <1>6, <1>9, <1>10 DEF ByeInvariant, EndsKnow

LEMMA ReceiveAnswerTooLateKeeps ==
  ASSUME Step, ReceiveAnswerTooLate
  PROVE  ByeInvariant'
<1> DEFINE ms == <<Request("BYE"), Request("internal BYE")>>
<1>1. ms \in Seq(Messages) BY RequestsSent
<1>2. \A m : Holds(ms, m) <=> \E b \in Byes : m = Request(b)
  <2>1. \A m : Holds(ms, m) <=> Request("BYE") = m \/ Request("internal BYE") = m
    BY HoldsLiteral
  <2> HIDE DEF ms
  <2> QED BY <2>1 DEF Byes
<1>3. \A f \in Ends : \A b \in Byes :
        bye'[f][b] = IF f = Caller /\ b \in Byes THEN "TRYING" ELSE bye[f][b]
  BY DEF ReceiveAnswerTooLate, Step, IInv, Local, TypedRest, ByeTyped
<1>4. Byes # {} BY DEF Byes
<1> QED BY <1>1, <1>2, <1>3, <1>4, TooLateKeeps DEF ReceiveAnswerTooLate

LEMMA ReceiveAnswerAbandonedKeeps ==
  ASSUME Step, ReceiveAnswerAbandoned
  PROVE  ByeInvariant'
<1> DEFINE ms == <<Request("internal BYE")>>
           B == {"internal BYE"}
<1>1. ms \in Seq(Messages) BY RequestsSent
<1>2. \A m : Holds(ms, m) <=> \E b \in B : m = Request(b) BY HoldsLiteral
<1>3. \A f \in Ends : \A b \in Byes :
        bye'[f][b] = IF f = Caller /\ b \in B THEN "TRYING" ELSE bye[f][b]
  BY DEF ReceiveAnswerAbandoned, SendBye, Step, IInv, Local, TypedRest, ByeTyped
<1>4. B # {} /\ B \in SUBSET Byes BY DEF Byes
<1> QED BY <1>1, <1>2, <1>3, <1>4, TooLateKeeps DEF ReceiveAnswerAbandoned

\* Who hangs up in a confirmed dialog sends a BYE; who does not is not InCall.
LEMMA HangUpKeeps ==
  ASSUME Step, NEW e \in Ends, HangUp(e)
  PROVE  ByeInvariant'
<1>1. Answered => Answered' BY AnsweredStays DEF Step
<1>2. UNCHANGED <<dlg, due, linked, acked, okTimer, lost>>
  BY DEF HangUp, KeepDialog, calleeVars, faultVars
<1>3. Ended => Ended' BY <1>2 DEF Ended
<1>4. /\ \A f \in Ends : op'[f] \in {op[f], "Terminating"}
      /\ \A f \in Ends : op'[f] = "None" <=> op[f] = "None"
      /\ \A f \in Ends : f # e => op'[f] = op[f]
  <2>1. op[e] # "None" BY DEF HangUp, Step, IInv, Local, EndInv
  <2>2. op' = op \/ op' = [op EXCEPT ![e] = "Terminating"] BY DEF HangUp, Cancelling, Op
  <2> QED BY <2>1, <2>2 DEF Step, IInv, Local, Typed, UserTyped
<1>5. user[Callee] \in Over => user'[Callee] \in Over
  BY DEF Step, IInv, Local, Typed, UserTyped, HangUp, User, Over, Ends
<1>6. CASE linked[e] /\ dlg[e] = "CONFIRMED"
  <2>1. bye' = [bye EXCEPT ![e]["BYE"] = "TRYING"] /\ Send(e, <<Request("BYE")>>)
    BY <1>6 DEF HangUp, SendBye
  <2>2. \A f \in Ends : \A b \in Byes :
          bye'[f][b] = IF f = e /\ b \in {"BYE"} THEN "TRYING" ELSE bye[f][b]
    BY <2>1 DEF Step, IInv, Local, TypedRest, ByeTyped
  <2>3. Quit' BY <2>2 DEF Quit, Byes
  <2>4. Answered'
    <3>1. CASE e = Caller BY <1>1, <1>6, <3>1 DEF Step, ByeInvariant, EndsKnow, CallerKnows
    <3>2. CASE e = Callee BY <1>1, <1>6, <3>2 DEF Answered
    <3> QED BY <3>1, <3>2 DEF Ends
  <2>5. CallerKnows' BY <1>2, <2>3, <2>4 DEF Step, ByeInvariant, EndsKnow, CallerKnows
  <2>6. CalleeKnows'
    <3>1. user'[e] \in Over
      BY DEF Step, IInv, Local, Typed, UserTyped, HangUp, User, Over
    <3>2. /\ bye'[Callee]["internal BYE"] = bye[Callee]["internal BYE"]
          /\ bye'[Callee]["BYE"] = bye[Callee]["BYE"] \/ e = Callee
      BY <2>2 DEF Byes, Ends
    <3> QED BY <1>2, <1>3, <1>4, <1>5, <3>1, <3>2
        DEF Step, ByeInvariant, EndsKnow, CalleeKnows, Ending, Ended, Ends
  <2>7. NetKnows'
    <3>1. <<Request("BYE")>> \in Seq(Messages) BY RequestsSent
    <3>2. NetAdds(e, <<Request("BYE")>>) BY <2>1, <3>1, SendAdds DEF Step, IInv
    <3>3. \A m : Holds(<<Request("BYE")>>, m) <=> m = Request("BYE") BY HoldsLiteral
    <3>4. {"BYE"} \in SUBSET Byes BY DEF Byes
    <3> QED BY <1>2, <1>3, <2>2, <3>2, <3>3, <3>4, ByesKept DEF Step, ByeInvariant
  <2> QED BY <2>4, <2>5, <2>6, <2>7 DEF ByeInvariant, EndsKnow
<1>7. CASE ~(linked[e] /\ dlg[e] = "CONFIRMED")
  <2>1. bye' = bye BY <1>7 DEF HangUp, Cancelling
  <2>2. InCall => InCall'
    <3>1. CASE e = Caller
      BY <1>2, <1>7, <3>1 DEF InCall
    <3>2. CASE e # Caller BY <1>2, <1>4, <3>2 DEF InCall, Ends
    <3> QED BY <3>1, <3>2
  <2>3. CallerKnows' BY <1>1, <1>2, <2>1, <2>2 DEF Step, ByeInvariant, EndsKnow, CallerKnows, Quit
  <2>4. CalleeKnows'
    BY <1>2, <1>3, <1>4, <1>5, <2>1
    DEF Step, ByeInvariant, EndsKnow, CalleeKnows, Ending, Ended, Ends
  <2>5. NetCalm
    <3>1. Plain(<<Request("CANCEL")>>) BY PlainSent, MarkedOrNot
    <3>2. CASE Send(Caller, <<Request("CANCEL")>>)
      BY <3>1, <3>2, CalmSend DEF Step, IInv, Ends
    <3>3. CASE net' = net BY <3>3 DEF NetCalm
    <3> QED BY <1>7, <3>2, <3>3 DEF HangUp, Cancelling
  <2>6. NetKnows' BY <1>2, <1>3, <2>1, <2>5, CalmKept DEF Step, ByeInvariant
  <2> QED BY <1>1, <2>1, <2>3, <2>4, <2>6 DEF Step, ByeInvariant, EndsKnow, Quit
<1> QED BY <1>6, <1>7

\* The timer stops for an ACK that was sent.
LEMMA ReceiveAckKeeps ==
  ASSUME Step, ReceiveAck
  PROVE  ByeInvariant'
<1>0. Receive(Callee, Request("ACK"), <<>>) BY DEF ReceiveAck
<1>1. UNCHANGED <<user, op, dlg, linked, due, prev, bye, lost, acked>>
  BY DEF ReceiveAck, endVars, byeVars, callerVars, faultVars
<1>2. acked
  <2>1. Holds(net[Callee], Request("ACK"))
    BY <1>0, ReceivedNet, Literals DEF Step, IInv, Ends
  <2>2. Meant(Callee, Request("ACK"))
    BY <2>1, MarkedOrNot DEF Step, ByeInvariant, NetKnows, AllMeant, Ends
  <2> QED BY <2>2 DEF Meant, Request
<1>3. CallerKnows' /\ (Quit => Answered)'
  BY <1>1 DEF Step, ByeInvariant, EndsKnow, CallerKnows, InCall, Quit, Answered
<1>4. CalleeKnows'
  BY <1>1, <1>2 DEF Step, ByeInvariant, EndsKnow, CalleeKnows, Ending, Ended
<1>5. NetKnows'
  <2>1. \A d \in Ends : \A m \in Marked :
          /\ Holds(net'[d], m) => Holds(net[d], m)
          /\ Holds(net[d], m) /\ m # Request("ACK") => Holds(net'[d], m)
    <3>1. NetTyped /\ Callee \in Ends BY DEF Step, IInv, Ends
    <3> QED BY <1>0, <3>1, TakenNet
  <2>2. AllMeant' BY <1>1, <2>1, MeantKept DEF Step, ByeInvariant, BooksKept, Ended
  <2>3. \A b \in Byes : Request(b) \in Marked /\ Request(b) # Request("ACK")
    <3>1. \A b \in Byes : Request(b).of = b /\ b # "ACK" BY DEF Request, Byes
    <3>2. Request("ACK").of = "ACK" BY DEF Request
    <3> QED BY <3>1, <3>2, MarkedOrNot
  <2>4. CallerByes'
    BY <1>1, <2>1, <2>3 DEF Step, ByeInvariant, NetKnows, CallerByes, Ended, Ends
  <2> QED BY <2>2, <2>4 DEF NetKnows
<1> QED BY <1>3, <1>4, <1>5 DEF ByeInvariant, EndsKnow

LEMMA OkTimerEndKeeps ==
  ASSUME Step, OkTimerEnd
  PROVE  ByeInvariant'
<1> DEFINE ms == <<Request("internal BYE")>>
           B == {"internal BYE"}
<1>1. UNCHANGED <<user, op, dlg, linked, due, prev, lost, acked>>
  BY DEF OkTimerEnd, endVars, callerVars, faultVars
<1>2. \A f \in Ends : \A b \in Byes :
        bye'[f][b] = IF f = Callee /\ b \in B THEN "TRYING" ELSE bye[f][b]
  BY DEF OkTimerEnd, SendBye, Step, IInv, Local, TypedRest, ByeTyped
<1>3. Answered' BY <1>1 DEF OkTimerEnd, Step, IInv, Local, OkInv, Answered
<1>4. Quit' BY <1>2 DEF Quit, Byes, Ends
<1>5. CallerKnows' BY <1>1, <1>3, <1>4 DEF Step, ByeInvariant, EndsKnow, CallerKnows
<1>6. bye'[Callee]["internal BYE"] = "TRYING" /\ bye'[Callee]["BYE"] = bye[Callee]["BYE"]
  BY <1>2 DEF Byes, Ends
<1>7. CalleeKnows'
  BY <1>1, <1>6 DEF Step, ByeInvariant, EndsKnow, CalleeKnows, Ending, Ended
<1>8. NetKnows'
  <2>1. ms \in Seq(Messages) BY RequestsSent
  <2>2. NetAdds(Callee, ms) BY <2>1, SendAdds DEF OkTimerEnd, Step, IInv, Ends
  <2>3. \A m : Holds(ms, m) <=> m = Request("internal BYE") BY HoldsLiteral
  <2>4. B \in SUBSET Byes /\ Callee \in Ends BY DEF Byes, Ends
  <2>5. Ended => Ended' BY <1>1 DEF Ended
  <2> QED BY <1>1, <1>2, <2>2, <2>3, <2>4, <2>5, ByesKept DEF Step, ByeInvariant
<1> QED BY <1>3, <1>5, <1>7, <1>8 DEF ByeInvariant, EndsKnow

\* A callee out of the call answers a BYE of the caller, and no other does.
LEMMA ReceiveByeKeeps ==
  ASSUME Step, NEW e \in Ends, NEW b \in Byes, ReceiveBye(e, b)
  PROVE  ByeInvariant'
<1>1. Answered => Answered' BY AnsweredStays DEF Step
<1>2. UNCHANGED <<linked, bye, acked, lost>> BY DEF ReceiveBye, faultVars
<1>3. \E ms \in {<<>>, <<Response(b, 200)>>, <<Response(b, 501)>>, <<Response(b, 481)>>} :
        Receive(e, Request(b), ms)
  BY DEF ReceiveBye
<1>4. PICK ms \in {<<>>, <<Response(b, 200)>>, <<Response(b, 501)>>, <<Response(b, 481)>>} :
        Receive(e, Request(b), ms)
  BY <1>3
<1>5. /\ ms \in Seq(Messages)
      /\ \A m : Holds(ms, m) => \E c \in {200, 481, 501} : m = Response(b, c)
  <2>1. ASSUME NEW c \in {200, 481, 501}, ms = <<Response(b, c)>>
        PROVE  /\ ms \in Seq(Messages)
               /\ \A m : Holds(ms, m) => m = Response(b, c)
    BY <2>1, MarkedSent, MarkedOrNot, HoldsLiteral
  <2>2. CASE ms = <<>> BY <2>2, Literals, HoldsLiteral
  <2> QED BY <2>1, <2>2
<1>6. Holds(net[e], Request(b)) BY <1>4, <1>5, ReceivedNet DEF Step, IInv
<1>7. bye[Peer(e)][b] # "None"
  <2>1. Meant(e, Request(b)) BY <1>6, MarkedOrNot DEF Step, ByeInvariant, NetKnows, AllMeant
  <2> QED BY <2>1 DEF Meant, Request
<1>8. Peer(e) \in Ends BY DEF Ends, Peer
<1>9. Quit /\ Answered /\ Quit' /\ Answered'
  BY <1>1, <1>2, <1>7, <1>8 DEF Quit, Step, ByeInvariant, EndsKnow
<1>10. \/ /\ dlg[e] = "CONFIRMED" /\ linked[e] /\ Alive(e)
          /\ Delete(e) /\ StopOkTimer(e) /\ User(e, "End") /\ Op(e, "Terminating")
       \/ /\ KeepDialog /\ UNCHANGED <<user, op, okTimer>>
          /\ dlg[e] = "CONFIRMED" => ~(linked[e] /\ Alive(e))
  BY DEF ReceiveBye
<1>11. Ended => Ended'
  BY <1>10 DEF Step, IInv, Local, Typed, DialogTyped, Delete, SetDialog, KeepDialog, Ended, Ends
<1>12. e = Callee => Ended'
  <2> SUFFICES ASSUME e = Callee PROVE Ended' OBVIOUS
  <2>1. dlg[Callee] \in {"CONFIRMED", "TERMINATED"}
    BY <1>9 DEF Step, IInv, Local, Typed, DialogTyped, CalleeInv, Answered, Ends
  <2>2. dlg[Callee] = "CONFIRMED" => linked[Callee] /\ Alive(Callee)
    BY DEF Step, ByeInvariant, EndsKnow, CalleeKnows, IInv, Local, CalleeLinked, Alive
  <2>3. dlg[Callee] = "CONFIRMED" => Ended'
    BY <1>10, <2>2 DEF Step, IInv, Local, Typed, DialogTyped, Delete, SetDialog, Ended
  <2> QED BY <1>11, <2>1, <2>3 DEF Ended
<1>13. CallerKnows'
  BY <1>9, <1>10 DEF Step, ByeInvariant, EndsKnow, CallerKnows, IInv, Local, Typed, DialogTyped,
     Delete, SetDialog, KeepDialog, EndInv, Ends
<1>14. CalleeKnows'
  <2>1. CASE e = Callee
    <3>1. dlg'[Callee] = "TERMINATED" BY <1>12, <2>1 DEF Ended
    <3>2. user[Callee] \in Over => user'[Callee] \in Over
      BY <1>10 DEF Step, IInv, Local, Typed, UserTyped, User, Over, Ends
    <3> QED BY <1>2, <1>12, <2>1, <3>1, <3>2
        DEF Step, ByeInvariant, EndsKnow, CalleeKnows, Ending, Ended
  <2>2. CASE e # Callee
    <3>1. UNCHANGED <<user[Callee], op[Callee], dlg[Callee], due[Callee]>>
      BY <1>10, <2>2 DEF Step, IInv, Local, Typed, UserTyped, DialogTyped, Delete, SetDialog,
         KeepDialog, User, Op, Ends
    <3>2. okTimer' = okTimer
      BY <1>10, <2>2 DEF Step, IInv, Local, TypedRest, AckTyped, StopOkTimer
    <3> QED BY <1>2, <3>1, <3>2, CalleeAlone DEF Step, ByeInvariant, EndsKnow
  <2> QED BY <2>1, <2>2
<1>15. NetKnows'
  <2>1. \A d \in Ends : \A m \in Marked : Holds(net'[d], m) => Holds(net[d], m) \/ Meant(d, m)'
    <3> SUFFICES ASSUME NEW d \in Ends, NEW m \in Marked, d = Peer(e), Holds(ms, m)
                 PROVE  Meant(d, m)'
      BY <1>4, <1>5, ReceivedNet DEF Step, IInv
    <3>1. d = Caller => e = Callee BY DEF Peer, Ends, Caller, Callee
    <3> QED BY <1>5, <1>12, <3>1, MeantAnswer
  <2>2. AllMeant' BY <1>2, <1>11, <2>1, MeantKept DEF Step, ByeInvariant, BooksKept
  <2>3. CallerByes'
    <3>1. CASE e = Callee BY <1>12, <3>1 DEF CallerByes
    <3>2. CASE e # Callee
      <4>1. \A m : Holds(net[Callee], m) => Holds(net'[Callee], m)
        BY <1>4, <1>5, <3>2, ReceivedNet DEF Step, IInv, Ends
      <4> QED BY <1>2, <1>11, <4>1 DEF Step, ByeInvariant, NetKnows, CallerByes
    <3> QED BY <3>1, <3>2
  <2> QED BY <2>2, <2>3 DEF NetKnows
<1> QED BY <1>9, <1>13, <1>14, <1>15 DEF ByeInvariant, EndsKnow

\* Any answer to a BYE ends a confirmed dialog.
LEMMA ReceiveByeAnswerKeeps ==
  ASSUME Step, NEW e \in Ends, NEW b \in Byes, NEW c \in {200, 481, 501}, ReceiveByeAnswer(e, b, c)
  PROVE  ByeInvariant'
<1> DEFINE r == Response(b, c)
<1>1. Answered => Answered' BY AnsweredStays DEF Step
<1>2. Receive(e, r, <<>>) /\ UNCHANGED <<user, op, acked, lost>>
  BY DEF ReceiveByeAnswer, faultVars
<1>3. \A d \in Ends : \A m :
        /\ Holds(net'[d], m) => Holds(net[d], m)
        /\ Holds(net[d], m) /\ (d # e \/ m # r) => Holds(net'[d], m)
  <2>1. NetTyped BY DEF Step, IInv
  <2> HIDE DEF r
  <2> QED BY <1>2, <2>1, TakenNet
<1>4. Holds(net[e], r)
  <2>1. NetTyped BY DEF Step, IInv
  <2> HIDE DEF r
  <2> QED BY <1>2, <2>1, TakenNet
<1>5. e = Caller => Ended
  <2> SUFFICES ASSUME e = Caller PROVE Ended OBVIOUS
  <2>1. Meant(Caller, r)
    BY <1>4, MarkedOrNot DEF Step, ByeInvariant, NetKnows, AllMeant
  <2>2. r.of = b /\ r.code = c /\ c # 0 BY DEF Response
  <2> QED BY <2>1, <2>2 DEF Meant
<1> HIDE DEF r
<1>6. \A f \in Ends : \A x \in Byes :
           /\ bye'[f][x] = "None" <=> bye[f][x] = "None"
           /\ f # e => bye'[f][x] = bye[f][x]
           /\ bye'[f][x] \in {bye[f][x], "COMPLETED", "Done"}
  <2>1. CASE bye' = bye BY <2>1
  <2>2. ASSUME NEW s \in {"COMPLETED", "Done"}, bye[e][b] = "TRYING",
               bye' = [bye EXCEPT ![e][b] = s]
        PROVE  \A f \in Ends : \A x \in Byes :
                 bye'[f][x] = IF f = e /\ x = b THEN s ELSE bye[f][x]
    BY <2>2 DEF Step, IInv, Local, TypedRest, ByeTyped
  <2>3. \/ bye' = bye
        \/ \E s \in {"COMPLETED", "Done"} :
             bye[e][b] = "TRYING" /\ bye' = [bye EXCEPT ![e][b] = s]
    BY DEF ReceiveByeAnswer
  <2> QED BY <2>1, <2>2, <2>3
<1>7. Quit' <=> Quit BY <1>6 DEF Quit
<1>8. \/ /\ bye[e][b] = "TRYING" /\ dlg[e] = "CONFIRMED"
         /\ Delete(e) /\ StopOkTimer(e)
      \/ /\ bye[e][b] = "TRYING" /\ dlg[e] # "CONFIRMED"
         /\ KeepDialog /\ UNCHANGED okTimer
      \/ /\ bye[e][b] # "TRYING"
         /\ KeepDialog /\ UNCHANGED <<okTimer, bye, linked>>
  <2>1. CASE bye[e][b] = "TRYING" /\ dlg[e] = "CONFIRMED" BY <2>1 DEF ReceiveByeAnswer
  <2>2. CASE bye[e][b] = "TRYING" /\ dlg[e] # "CONFIRMED" BY <2>2 DEF ReceiveByeAnswer
  <2>3. CASE bye[e][b] # "TRYING" BY <2>3 DEF ReceiveByeAnswer
  <2> QED BY <2>1, <2>2, <2>3
<1>9. Ended => Ended'
  BY <1>8 DEF Step, IInv, Local, Typed, DialogTyped, Delete, SetDialog, KeepDialog, Ended, Ends
<1>10. CallerKnows'
  <2>1. bye[e][b] = "TRYING" => Quit BY <1>6 DEF Quit
  <2>2. bye[e][b] # "TRYING" => (InCall => InCall')
    BY <1>2, <1>8 DEF InCall, KeepDialog
  <2>3. (acked => InCall \/ Quit)'
    BY <1>2, <1>7, <2>1, <2>2 DEF Step, ByeInvariant, EndsKnow, CallerKnows
  <2>4. /\ dlg'[Caller] = "CONFIRMED" => dlg[Caller] = "CONFIRMED"
        /\ "release" \in due'[Caller] => "release" \in due[Caller]
        /\ dlg[Caller] = "TERMINATED" => dlg'[Caller] = "TERMINATED"
    BY <1>8 DEF Step, IInv, Local, Typed, DialogTyped, Delete, SetDialog, KeepDialog, Ends
  <2> QED BY <1>1, <2>3, <2>4 DEF Step, ByeInvariant, EndsKnow, CallerKnows
<1>11. CalleeKnows'
  <2>1. CASE e = Callee /\ bye[e][b] = "TRYING"
    <3>1. Quit /\ Answered BY <2>1 DEF Quit, Step, ByeInvariant, EndsKnow
    <3>2. dlg[Callee] \in {"CONFIRMED", "TERMINATED"}
      BY <3>1 DEF Step, IInv, Local, Typed, DialogTyped, CalleeInv, Answered, Ends
    <3>3. dlg'[Callee] = "TERMINATED"
      BY <1>8, <2>1, <3>2 DEF Step, IInv, Local, Typed, DialogTyped, Delete, SetDialog, KeepDialog
    <3>4. bye'[Callee]["BYE"] # "None" => bye[Callee]["BYE"] # "None"
      BY <1>6 DEF Byes, Ends
    <3> QED BY <1>2, <3>3, <3>4 DEF Step, ByeInvariant, EndsKnow, CalleeKnows, Ending, Ended
  <2>2. CASE ~(e = Callee /\ bye[e][b] = "TRYING")
    <3>1. UNCHANGED <<dlg[Callee], due[Callee]>>
      BY <1>8, <2>2 DEF Step, IInv, Local, Typed, DialogTyped, Delete, SetDialog, KeepDialog, Ends
    <3>2. okTimer' = okTimer
      BY <1>8, <2>2 DEF Step, IInv, Local, TypedRest, AckTyped, StopOkTimer
    <3>3. /\ bye'[Callee]["BYE"] = bye[Callee]["BYE"]
          /\ bye'[Callee]["internal BYE"] = bye[Callee]["internal BYE"]
      BY <1>6, <1>8, <2>2 DEF Byes, Ends
    <3> QED BY <1>2, <3>1, <3>2, <3>3, CalleeAlone DEF Step, ByeInvariant, EndsKnow
  <2> QED BY <2>1, <2>2
<1>12. NetKnows'
  <2>1. BooksKept BY <1>2, <1>6, <1>9 DEF BooksKept
  <2>2. AllMeant' BY <1>3, <2>1, MeantKept DEF Step, ByeInvariant
  <2>3. CallerByes'
    <3>1. CASE e = Caller BY <1>5, <1>9, <3>1 DEF CallerByes
    <3>2. CASE e # Caller
      <4>1. \A x \in Byes : Request(x) # r
        <5>1. r.code # 0 BY DEF r, Response
        <5>2. \A x \in Byes : Request(x).code = 0 BY DEF Request
        <5> QED BY <5>1, <5>2
      <4>2. \A x \in Byes : Holds(net[Callee], Request(x)) => Holds(net'[Callee], Request(x))
        BY <1>3, <4>1 DEF Ends
      <4>3. \A x \in Byes : bye'[Caller][x] = bye[Caller][x] BY <1>6, <3>2 DEF Ends
      <4> QED BY <1>2, <1>9, <4>2, <4>3 DEF Step, ByeInvariant, NetKnows, CallerByes
    <3> QED BY <3>1, <3>2
  <2> QED BY <2>2, <2>3 DEF NetKnows
<1> QED BY <1>1, <1>7, <1>10, <1>11, <1>12 DEF Step, ByeInvariant, EndsKnow

\* The transactions of the BYEs end: of the peer's, and of one that was answered.
LEMMA ByeOverKeeps ==
  ASSUME Step, NEW e \in Ends, ByeOver(e)
  PROVE  ByeInvariant'
<1>1. Answered => Answered' BY AnsweredStays DEF Step
<1>2. UNCHANGED <<dlg, due, net, lost, acked, okTimer>>
  BY DEF ByeOver, KeepDialog, callerVars, calleeVars, faultVars
<1>3. \/ bye' = bye
      \/ bye[e]["BYE"] = "COMPLETED" /\ bye' = [bye EXCEPT ![e]["BYE"] = "Done"]
  BY DEF ByeOver
<1>4. /\ \A f \in Ends : \A b \in Byes :
           /\ bye'[f][b] = "None" <=> bye[f][b] = "None"
           /\ bye[f][b] = "TRYING" => bye'[f][b] = "TRYING"
      /\ bye'[Callee]["internal BYE"] = bye[Callee]["internal BYE"]
  <2>1. CASE bye' = bye BY <2>1
  <2>2. CASE bye[e]["BYE"] = "COMPLETED" /\ bye' = [bye EXCEPT ![e]["BYE"] = "Done"]
    <3>1. \A f \in Ends : \A b \in Byes :
            bye'[f][b] = IF f = e /\ b = "BYE" THEN "Done" ELSE bye[f][b]
      BY <2>2 DEF Step, IInv, Local, TypedRest, ByeTyped
    <3>2. Callee \in Ends /\ "internal BYE" \in Byes /\ "internal BYE" # "BYE" BY DEF Ends, Byes
    <3>3. bye[e]["BYE"] = "COMPLETED" BY <2>2
    <3> QED BY <3>1, <3>2, <3>3
  <2> QED BY <1>3, <2>1, <2>2
<1>5. Quit' <=> Quit BY <1>4 DEF Quit
<1>6. \/ UNCHANGED <<user, op, linked>>
      \/ op[e] = "Terminating" /\ ~linked[e] /\ Released(e)
  BY DEF ByeOver, ReleaseUnlinked
<1>7. InCall => InCall'
  BY <1>2, <1>6 DEF Step, IInv, Local, Typed, UserTyped, LinkTyped, Released, Op, Link, InCall, Ends
<1>8. CallerKnows' BY <1>1, <1>2, <1>5, <1>7 DEF Step, ByeInvariant, EndsKnow, CallerKnows
<1>9. UNCHANGED <<user[Callee], op[Callee]>>
  BY <1>6 DEF Step, IInv, Local, Typed, UserTyped, CalleeLinked, Released, User, Op, Ends
<1>10. CalleeKnows'
  <2>1. bye'[Callee]["BYE"] # "None" => bye[Callee]["BYE"] # "None" BY <1>4 DEF Byes, Ends
  <2> QED BY <1>2, <1>4, <1>9, <2>1
      DEF Step, ByeInvariant, EndsKnow, CalleeKnows, Ending, Ended
<1>11. NetKnows'
  <2>1. AllMeant' BY <1>2, <1>4, MeantKept DEF Step, ByeInvariant, BooksKept, Ended
  <2>2. CallerByes' BY <1>2, <1>4 DEF Step, ByeInvariant, NetKnows, CallerByes, Ended, Ends
  <2> QED BY <2>1, <2>2 DEF NetKnows
<1> QED BY <1>1, <1>5, <1>8, <1>10, <1>11 DEF Step, ByeInvariant, EndsKnow

\* A BYE of the caller that timed out is not on its way any more.
LEMMA ByeTimeoutKeeps ==
  ASSUME Step, NEW e \in Ends, NEW b \in Byes, ByeTimeout(e, b)
  PROVE  ByeInvariant'
<1>1. Answered => Answered' BY AnsweredStays DEF Step
<1>2. UNCHANGED <<dlg, due, net, lost, acked, okTimer>>
  BY DEF ByeTimeout, KeepDialog, callerVars, calleeVars, faultVars
<1>3. bye[e][b] = "TRYING" /\ bye' = [bye EXCEPT ![e][b] = "TimedOut"] BY DEF ByeTimeout
<1>4. \A f \in Ends : \A x \in Byes :
        bye'[f][x] = IF f = e /\ x = b THEN "TimedOut" ELSE bye[f][x]
  BY <1>3 DEF Step, IInv, Local, TypedRest, ByeTyped
<1>5. Quit /\ Quit' BY <1>3, <1>4 DEF Quit
<1>6. \/ UNCHANGED <<user, op, linked>>
      \/ Alive(e) /\ ~linked[e] /\ Released(e)
  BY DEF ByeTimeout, Fail
<1>7. CallerKnows' BY <1>1, <1>2, <1>5 DEF Step, ByeInvariant, EndsKnow, CallerKnows
<1>8. UNCHANGED <<user[Callee], op[Callee]>>
  <2>1. op[e] # "None" BY <1>3 DEF Step, IInv, Local, ByeInv
  <2> QED BY <1>6, <2>1
      DEF Step, IInv, Local, Typed, UserTyped, CalleeLinked, Released, User, Op, Alive, Ends
<1>9. CalleeKnows'
  <2>1. /\ bye'[Callee]["BYE"] # "None" => bye[Callee]["BYE"] # "None"
        /\ bye[Callee]["internal BYE"] # "None" => bye'[Callee]["internal BYE"] # "None"
        /\ bye'[Callee]["internal BYE"] \in {"COMPLETED", "Done"} =>
             bye[Callee]["internal BYE"] \in {"COMPLETED", "Done"}
    <3>1. Callee \in Ends /\ "BYE" \in Byes /\ "internal BYE" \in Byes BY DEF Ends, Byes
    <3>2. \A x \in Byes : bye'[Callee][x] # bye[Callee][x] =>
            bye[Callee][x] = "TRYING" /\ bye'[Callee][x] = "TimedOut"
      <4>1. bye[e][b] = "TRYING" BY <1>3
      <4> QED BY <1>4, <3>1, <4>1
    <3> QED BY <3>1, <3>2
  <2> QED BY <1>2, <1>8, <2>1
      DEF Step, ByeInvariant, EndsKnow, CalleeKnows, Ending, Ended
<1>10. NetKnows'
  <2>1. BooksKept BY <1>2, <1>4 DEF BooksKept, Ended
  <2>2. AllMeant' BY <1>2, <2>1, MeantKept DEF Step, ByeInvariant
  <2>3. e = Caller => ~Holds(net[Callee], Request(b))
    BY DEF ByeTimeout, Silent, OnItsWay, Peer, Holds
  <2>4. CallerByes'
    BY <1>2, <1>3, <1>4, <2>3 DEF Step, ByeInvariant, NetKnows, CallerByes, Ended, Ends
  <2> QED BY <2>2, <2>4 DEF NetKnows
<1> QED BY <1>1, <1>5, <1>7, <1>9, <1>10 DEF Step, ByeInvariant, EndsKnow

LEMMA LoseKeeps ==
  ASSUME Step, Lose
  PROVE  ByeInvariant'
<1>1. UNCHANGED <<user, op, dlg, prev, linked, due, bye, acked, okTimer>>
  BY DEF Lose, endVars, byeVars, callerVars, calleeVars
<1>2. PICK e \in Ends : /\ net[e] # <<>>
                       /\ net' = [net EXCEPT ![e] = Tail(net[e])]
                       /\ lost' = [lost EXCEPT ![e] = lost[e] \cup {Head(net[e])}]
  BY DEF Lose
<1>3. EndsKnow'
  BY <1>1 DEF Step, ByeInvariant, EndsKnow, CallerKnows, CalleeKnows, InCall, Quit, Answered,
     Ending, Ended
<1>4. \A d \in Ends : net[d] \in Seq(Messages) BY DEF Step, IInv, NetTyped
<1>5. \A d \in Ends : net'[d] = IF d = e THEN Tail(net[e]) ELSE net[d]
  BY <1>2 DEF Step, IInv, NetTyped
<1>6. \A d \in Ends : \A m : Holds(net'[d], m) => Holds(net[d], m) BY <1>2, <1>4, <1>5, HoldsTail
<1>7. \A d \in Ends : \A m : Holds(net[d], m) => Holds(net'[d], m) \/ m \in lost'[d]
  <2>1. \A m : m = Head(net[e]) => m \in lost'[e]
    BY <1>2 DEF Step, IInv, Local, TypedRest, FaultTyped
  <2> QED BY <1>2, <1>4, <1>5, <2>1, HoldsRest
<1>8. \A d \in Ends : lost[d] \subseteq lost'[d]
  BY <1>2 DEF Step, IInv, Local, TypedRest, FaultTyped
<1>9. AllMeant' BY <1>1, <1>6, MeantKept DEF Step, ByeInvariant, BooksKept, Ended
<1>10. CallerByes' BY <1>1, <1>7, <1>8 DEF Step, ByeInvariant, NetKnows, CallerByes, Ended, Ends
<1> QED BY <1>3, <1>9, <1>10 DEF ByeInvariant, NetKnows

LEMMA OvertakeKeeps ==
  ASSUME Step, Overtake
  PROVE  ByeInvariant'
<1>1. UNCHANGED <<user, op, dlg, prev, linked, due, bye, acked, okTimer, lost>>
  BY DEF Overtake, endVars, byeVars, callerVars, calleeVars
<1>e. PICK e \in Ends : \E i \in 2..Len(net[e]) :
        net' = [net EXCEPT ![e] = [net[e] EXCEPT ![i - 1] = net[e][i], ![i] = net[e][i - 1]]]
  BY DEF Overtake
<1>2. PICK i \in 2..Len(net[e]) :
        net' = [net EXCEPT ![e] = [net[e] EXCEPT ![i - 1] = net[e][i], ![i] = net[e][i - 1]]]
  BY <1>e
<1> DEFINE s == net[e]
           t == [s EXCEPT ![i - 1] = s[i], ![i] = s[i - 1]]
<1>3. s \in Seq(Messages) /\ Len(s) \in Nat /\ DOMAIN s = 1..Len(s)
  BY LenProperties DEF Step, IInv, NetTyped
<1>4. i - 1 \in DOMAIN s /\ i \in DOMAIN s /\ i - 1 # i BY <1>3
<1>5. \A m : Holds(t, m) <=> Holds(s, m)
  <2>1. DOMAIN t = DOMAIN s BY <1>3
  <2>2. \A k \in DOMAIN s : t[k] = IF k = i THEN s[i - 1] ELSE IF k = i - 1 THEN s[i] ELSE s[k]
    BY <1>3, <1>4
  <2> QED BY <1>4, <2>1, <2>2 DEF Holds
<1>6. NetCalm
  <2>1. net' = [net EXCEPT ![e] = t] BY <1>2
  <2> HIDE DEF t
  <2>2. \A d \in Ends : net'[d] = IF d = e THEN t ELSE net[d]
    BY <2>1 DEF Step, IInv, NetTyped
  <2> QED BY <1>5, <2>2 DEF NetCalm
<1>7. EndsKnow'
  BY <1>1 DEF Step, ByeInvariant, EndsKnow, CallerKnows, CalleeKnows, InCall, Quit, Answered,
     Ending, Ended
<1>8. NetKnows' BY <1>1, <1>6, CalmKept DEF Step, ByeInvariant, Ended
<1> QED BY <1>7, <1>8 DEF ByeInvariant
------------------------------------------------------------------------------
(* The theorem.                                                              *)

LEMMA FirstKnows == Init => ByeInvariant
<1> SUFFICES ASSUME Init PROVE ByeInvariant OBVIOUS
<1>1. EndsKnow
  BY DEF Init, Ends, Byes, EndsKnow, CallerKnows, CalleeKnows, Quit, Ending, Ended, Answered
<1>2. CallerByes BY DEF Init, Ends, CallerByes
<1>3. AllMeant BY HoldsLiteral DEF Init, AllMeant
<1> QED BY <1>1, <1>2, <1>3 DEF ByeInvariant, NetKnows

LEMMA NextKnows == IInv /\ ByeInvariant /\ [Next]_vars => ByeInvariant'
<1> SUFFICES ASSUME IInv, ByeInvariant, [Next]_vars PROVE ByeInvariant' OBVIOUS
<1>0. Step BY Inductive DEF Step
<1>1. CASE Call \/ Ring \/ Accept \/ Decline
  BY <1>0, <1>1, CallKeeps, RingKeeps, AcceptKeeps, DeclineKeeps
<1>2. ASSUME NEW e \in Ends, HangUp(e) PROVE ByeInvariant' BY <1>0, <1>2, HangUpKeeps
<1>3. ASSUME NEW e \in Ends, Takes(e) PROVE ByeInvariant'
  BY <1>0, <1>3, ReceiveByeKeeps, ReceiveByeAnswerKeeps DEF Takes
<1>4. CASE CallerTakes
  <2>1. ASSUME NEW c \in {100, 180}, ReceiveProvisional(c) PROVE ByeInvariant'
    BY <1>0, <2>1, ReceiveProvisionalKeeps
  <2>2. CASE ReceiveAnswer \/ ReceiveAnswerTooLate \/ ReceiveAnswerAbandoned \/ ReceiveAnswerAgain
    BY <1>0, <2>2, ReceiveAnswerKeeps, ReceiveAnswerTooLateKeeps, ReceiveAnswerAbandonedKeeps,
       ReceiveAnswerAgainKeeps
  <2>3. ASSUME NEW c \in {487, 603}, ReceiveFailure(c) PROVE ByeInvariant'
    BY <1>0, <2>3, ReceiveFailureKeeps
  <2>4. ASSUME NEW c \in {100, 180, 487, 603}, ReceiveStale(c) PROVE ByeInvariant'
    BY <1>0, <2>4, ReceiveStaleKeeps
  <2>5. ASSUME NEW c \in {200, 481}, ReceiveCancelAnswer(c) PROVE ByeInvariant'
    BY <1>0, <2>5, ReceiveCancelAnswerKeeps
  <2> QED BY <1>3, <1>4, <2>1, <2>2, <2>3, <2>4, <2>5 DEF CallerTakes, Ends
<1>5. CASE CalleeTakes
  BY <1>0, <1>3, <1>5, ReceiveInviteKeeps, ReceiveCancelKeeps, ReceiveAckKeeps DEF CalleeTakes, Ends
<1>6. CASE InviteTimeout \/ CancelTimeout \/ ResendOk \/ OkTimerEnd
  BY <1>0, <1>6, InviteTimeoutKeeps, CancelTimeoutKeeps, ResendOkKeeps, OkTimerEndKeeps
<1>7. ASSUME NEW e \in Ends, Timers(e) PROVE ByeInvariant'
  BY <1>0, <1>7, ByeTimeoutKeeps, ByeOverKeeps, NoticeKeeps, ReleaseKeeps DEF Timers
<1>8. CASE Lose \/ Overtake BY <1>0, <1>8, LoseKeeps, OvertakeKeeps
<1>9. CASE UNCHANGED vars
  <2>1. EndsKnow'
    BY <1>9 DEF vars, endVars, byeVars, callerVars, calleeVars, ByeInvariant, EndsKnow, CallerKnows,
       CalleeKnows, InCall, Quit, Answered, Ending, Ended
  <2>2. NetKnows'
    BY <1>9, CalmKept
    DEF vars, endVars, byeVars, callerVars, faultVars, ByeInvariant, NetCalm, Ended
  <2> QED BY <2>1, <2>2 DEF ByeInvariant
<1> QED BY <1>1, <1>2, <1>4, <1>5, <1>6, <1>7, <1>8, <1>9 DEF Next

\* A callee whose timer is off has an acknowledged call or has said BYE by
\* itself; a caller that has acknowledged leaves the call with a BYE.
LEMMA NobodyAlone == IInv /\ ByeInvariant => NobodyTalksAlone
<1> SUFFICES ASSUME IInv, ByeInvariant, user[Callee] = "Running",
                    ~Alive(Caller) \/ dlg[Caller] = "TERMINATED",
                    ~okTimer, ~Ended, bye[Callee]["internal BYE"] \notin {"TRYING", "TimedOut"}
             PROVE  ByeToCome
  BY DEF NobodyTalksAlone, Ended
<1>1. dlg[Callee] = "CONFIRMED"
  <2>1. op[Callee] # "None" BY DEF IInv, Local, EndInv, Ends
  <2>2. dlg[Callee] \notin {"None", "NULL", "EARLY", "TERMINATED"}
    BY <2>1 DEF IInv, Local, CalleeInv, ByeInvariant, EndsKnow, CalleeKnows, Ended
  <2> QED BY <2>2 DEF IInv, Local, Typed, DialogTyped, Ends
<1>2. bye[Callee]["internal BYE"] = "None"
  <2>1. bye[Callee]["internal BYE"] \in {"None", "TRYING", "COMPLETED", "TimedOut", "Done"}
    BY DEF IInv, Local, TypedRest, ByeTyped, Ends, Byes
  <2> QED BY <2>1 DEF ByeInvariant, EndsKnow, CalleeKnows
<1>3. bye[Callee]["BYE"] = "None"
  BY DEF ByeInvariant, EndsKnow, CalleeKnows, Over
<1>4. ~InCall BY DEF InCall, Alive
<1>5. Quit BY <1>1, <1>2, <1>4 DEF ByeInvariant, EndsKnow, CallerKnows, CalleeKnows, Ending
<1>6. PICK b \in Byes : bye[Caller][b] # "None" BY <1>2, <1>3, <1>5 DEF Quit, Ends, Byes
<1> QED BY <1>6 DEF ByeInvariant, NetKnows, CallerByes, ByeToCome

\* Whatever is lost or overtaken, a callee whose caller is gone is out of the
\* call, or a timer or a BYE that was not lost will end it, unless nobody
\* answered its own BYE in time.
THEOREM NobodyIsLeftAlone == Spec => []NobodyTalksAlone
BY Initial, Inductive, FirstKnows, NextKnows, NobodyAlone, PTL DEF Spec
==============================================================================
