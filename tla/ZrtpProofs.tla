----------------------------- MODULE ZrtpProofs -----------------------------
(***************************************************************************)
(* Proofs about Zrtp for every Mode, every bound on the retransmissions    *)
(* and any loss, duplication and reordering of the packets.                *)
(*                                                                         *)
(* The invariant says how far the peer of each endpoint must have come:    *)
(* from the state of the endpoint, and from the packets that are in flight *)
(* to it.                                                                  *)
(***************************************************************************)
EXTENDS Zrtp, TLAPS

InFlight(e) == {net[e][i] : i \in DOMAIN net[e]}

Early == {"off", "init", "waitingForHello", "waitingForHelloAck"}
Greeting == {"off", "init", "waitingForHello"}
Initiating == {"initiatorSendingDHPart2", "initiatorSendingConfirm2"}
Responding == {"responderSendingDHPart1", "responderSendingConfirm1"}

\* Nobody is past the Hello of a peer that has not received his.
GreetingOrder(e, p) ==
  /\ "HelloACK" \in InFlight(e) => state[p] \notin Greeting
  /\ state[e] = "waitingForHello" => state[p] \notin Greeting
  /\ state[e] \in Greeting => state[p] \in Early
  /\ state[e] \in Early => "Commit" \notin InFlight(p)

\* One responder, and only Low sent a Commit before it became one.
RoleOrder(e, p) ==
  /\ state[e] \in Early \cup {"sendingCommit"} \cup Initiating => role[e] = "initiator"
  /\ state[e] \in Responding => role[e] = "responder"
  /\ "Commit" \in InFlight(e) /\ role[p] = "responder" => p = Low
  /\ role[e] = "responder" =>
       /\ role[p] = "initiator"
       /\ state[p] \in {"sendingCommit", "secure"} \cup Initiating
  /\ role[e] = "initiator" /\ state[e] \in Initiating \cup {"secure"} =>
       role[p] = "responder"

\* The secrets each state has, and who is the initiator in them.
Secrets(e, p) ==
  /\ s0[e] \in {None, IF role[e] = "responder" THEN p ELSE e}
  /\ s0[e] # None <=> state[e] \in Initiating \cup {"responderSendingConfirm1", "secure"}
  /\ rx[e] => state[e] \in {"responderSendingConfirm1", "initiatorSendingConfirm2", "secure"}
  /\ state[e] \in {"initiatorSendingConfirm2", "secure"} => rx[e]
  /\ tx[e] <=> state[e] = "secure"

\* What each packet in flight to e says of its sender p.
Provenance(e, p) ==
  /\ "DHPart1" \in InFlight(e) => role[p] = "responder"
  /\ "DHPart2" \in InFlight(e) => state[p] \in Initiating \cup {"secure"} /\ role[p] = "initiator"
  /\ "Confirm1" \in InFlight(e) =>
       state[p] \in {"responderSendingConfirm1", "secure"} /\ role[p] = "responder"
  /\ "Confirm2" \in InFlight(e) =>
       state[p] \in {"initiatorSendingConfirm2", "secure"} /\ role[p] = "initiator"
  /\ "Conf2ACK" \in InFlight(e) => state[p] = "secure" /\ role[p] = "responder"

\* The order of the confirmations: the initiator has s0 only from a responder
\* in the same mode, and each confirms what the other one has.
ConfirmOrder(e, p) ==
  /\ role[e] = "responder" /\ rx[e] => state[p] \in {"initiatorSendingConfirm2", "secure"}
  /\ role[e] = "responder" /\ state[e] = "secure" => rx[e]
  /\ state[e] = "initiatorSendingConfirm2" => s0[p] # None
  /\ role[e] = "initiator" /\ state[e] = "secure" => state[p] = "secure"

\* The timer of a state that has one.
TimerRule(e) ==
  state[e] \in DOMAIN Retransmitted =>
    \/ timer[e] \/ fires[e] > MaxFires(state[e])
    \/ SendErrors /\ state[e] = "initiatorSendingConfirm2"

Side(e) ==
  /\ GreetingOrder(e, Peer(e)) /\ RoleOrder(e, Peer(e)) /\ Secrets(e, Peer(e))
  /\ Provenance(e, Peer(e)) /\ ConfirmOrder(e, Peer(e)) /\ TimerRule(e)

IInv == TypeOK /\ \A e \in Endpoint : Side(e)

-----------------------------------------------------------------------------
(* The two endpoints, and what an exchange does to the packets in flight.  *)

\* Each endpoint is the peer of the other one.
LEMMA Peers ==
  ASSUME NEW e \in Endpoint
  PROVE  /\ Peer(e) \in Endpoint /\ Peer(e) # e /\ Peer(Peer(e)) = e
         /\ \A f \in Endpoint : f = e \/ f = Peer(e)
  BY EndpointAssumption DEF Endpoint, Peer

\* The elements of the end of a sequence are elements of it.
LEMMA Suffix ==
  ASSUME NEW s \in Seq(Message), NEW i \in 1..Len(s)
  PROVE  /\ SubSeq(s, i + 1, Len(s)) \in Seq(Message)
         /\ \A k \in DOMAIN SubSeq(s, i + 1, Len(s)) :
              \E j \in DOMAIN s : SubSeq(s, i + 1, Len(s))[k] = s[j]
  <1> DEFINE r == SubSeq(s, i + 1, Len(s))
  <1>1. r \in Seq(Message) /\ Len(r) = Len(s) - i
    OBVIOUS
  <1>2. ASSUME NEW k \in DOMAIN r PROVE \E j \in DOMAIN s : r[k] = s[j]
    <2>1. k \in 1..(Len(s) - i)
      BY <1>1
    <2>2. i + k \in DOMAIN s /\ r[k] = s[i + k]
      BY <2>1
    <2> QED BY <2>2
  <1> QED BY <1>1, <1>2

\* The packets still receivable after the i-th one were so before.
LEMMA LaterIsInFlight ==
  ASSUME TypeOK, NEW e \in Endpoint, NEW i \in DOMAIN net[e]
  PROVE  /\ Later(e, i) \in Seq(Message)
         /\ \A k \in DOMAIN Later(e, i) : Later(e, i)[k] \in InFlight(e)
  <1>1. net[e] \in Seq(Message) /\ i \in 1..Len(net[e])
    BY DEF TypeOK
  <1> QED BY <1>1, Suffix DEF Later, InFlight

\* Whatever is lost: nothing appears at e, and at the peer only what e sent.
Sent(e, S) ==
  /\ net' \in [Endpoint -> Seq(Message)]
  /\ lost' \in 0..MaxLoss
  /\ \A m \in Message : m \in InFlight(e)' => m \in InFlight(e)
  /\ \A m \in Message : m \in InFlight(Peer(e))' => m \in InFlight(Peer(e)) \cup S

\* What survives the losses is part of what was sent.
LEMMA LossesArePart ==
  ASSUME TypeOK, NEW e \in Endpoint, NEW ts \in Seq(Message),
         NEW sent \in Losses(ts, e)
  PROVE  /\ sent \in Seq(Message) /\ Len(sent) \in Nat /\ Len(sent) <= Len(ts)
         /\ \A k \in DOMAIN sent : \E j \in DOMAIN ts : sent[k] = ts[j]
         /\ sent = ts \/ state[Peer(e)] = "off" \/ lost + Len(ts) - Len(sent) <= MaxLoss
  <1>1. CASE sent = ts
    BY <1>1
  <1>2. CASE sent = <<>>
    BY <1>2 DEF Losses
  <1>3. CASE \E k \in DOMAIN ts : sent = <<ts[k]>>
    BY <1>3 DEF Losses
  <1> QED BY <1>1, <1>2, <1>3 DEF Losses

\* An exchange that keeps packets in flight to e and sends ts.
LEMMA ExchangeSends ==
  ASSUME TypeOK, NEW e \in Endpoint, NEW kept \in Seq(Message), NEW ts \in Seq(Message),
         \A k \in DOMAIN kept : kept[k] \in InFlight(e),
         Exchange(e, kept, ts)
  PROVE  Sent(e, {ts[k] : k \in DOMAIN ts})
  <1> DEFINE p == Peer(e)
  <1>1. p \in Endpoint /\ p # e
    BY Peers
  <1>2. PICK sent \in Losses(ts, e) :
          /\ net' = [net EXCEPT ![e] = kept, ![p] = @ \o sent]
          /\ lost' = IF state[p] = "off" THEN lost ELSE lost + Len(ts) - Len(sent)
    BY DEF Exchange
  <1>3. /\ sent \in Seq(Message) /\ Len(sent) \in Nat /\ Len(sent) <= Len(ts)
        /\ \A k \in DOMAIN sent : \E j \in DOMAIN ts : sent[k] = ts[j]
        /\ sent = ts \/ state[p] = "off" \/ lost + Len(ts) - Len(sent) <= MaxLoss
    BY LossesArePart
  <1>4. /\ net[p] \in Seq(Message) /\ net[p] \o sent \in Seq(Message)
        /\ net' \in [Endpoint -> Seq(Message)]
        /\ net'[e] = kept /\ net'[p] = net[p] \o sent
    <2>1. net \in [Endpoint -> Seq(Message)]
      BY DEF TypeOK
    <2>2. net[p] \in Seq(Message)
      BY <1>1, <2>1
    <2>3. net[p] \o sent \in Seq(Message)
      BY <2>2, <1>3
    <2> QED BY <1>1, <1>2, <2>1, <2>2, <2>3
  <1>5. lost' \in 0..MaxLoss
    BY <1>2, <1>3, BoundAssumption DEF TypeOK
  <1>6. ASSUME NEW m, m \in InFlight(e)'
        PROVE  m \in InFlight(e)
    BY <1>4, <1>6 DEF InFlight
  <1>7. ASSUME NEW m, m \in InFlight(p)'
        PROVE  m \in InFlight(p) \cup {ts[k] : k \in DOMAIN ts}
    <2>1. PICK k \in DOMAIN (net[p] \o sent) : m = (net[p] \o sent)[k]
      BY <1>4, <1>7 DEF InFlight
    <2>2. k \in DOMAIN net[p] \/ k - Len(net[p]) \in DOMAIN sent
      BY <2>1, <1>3, <1>4
    <2>3. CASE k \in DOMAIN net[p]
      BY <2>1, <2>3, <1>3, <1>4 DEF InFlight
    <2>4. CASE k \notin DOMAIN net[p] /\ k - Len(net[p]) \in DOMAIN sent
      <3>1. m = sent[k - Len(net[p])]
        BY <2>1, <2>4, <1>3, <1>4
      <3> QED BY <3>1, <2>4, <1>3
    <2> QED BY <2>2, <2>3, <2>4
  <1> QED BY <1>4, <1>5, <1>6, <1>7 DEF Sent

\* The forms in which the handlers exchange packets.
LEMMA Answers ==
  ASSUME TypeOK, NEW e \in Endpoint, NEW i \in DOMAIN net[e]
  PROVE  /\ Exchange(e, Later(e, i), <<>>) => Sent(e, {})
         /\ \A m \in Message : Exchange(e, Later(e, i), <<m>>) => Sent(e, {m})
         /\ \A m, n \in Message : Exchange(e, Later(e, i), <<m, n>>) => Sent(e, {m, n})
  <1>1. ASSUME NEW ts \in Seq(Message), Exchange(e, Later(e, i), ts)
        PROVE  Sent(e, {ts[k] : k \in DOMAIN ts})
    BY <1>1, LaterIsInFlight, ExchangeSends
  <1>2. ASSUME Exchange(e, Later(e, i), <<>>) PROVE Sent(e, {})
    <2>1. {<<>>[k] : k \in DOMAIN <<>>} = {} /\ <<>> \in Seq(Message)
      OBVIOUS
    <2> QED BY <1>1, <1>2, <2>1
  <1>3. ASSUME NEW m \in Message, Exchange(e, Later(e, i), <<m>>) PROVE Sent(e, {m})
    <2>1. {<<m>>[k] : k \in DOMAIN <<m>>} = {m} /\ <<m>> \in Seq(Message)
      OBVIOUS
    <2> QED BY <1>1, <1>3, <2>1
  <1>4. ASSUME NEW m \in Message, NEW n \in Message, Exchange(e, Later(e, i), <<m, n>>)
        PROVE  Sent(e, {m, n})
    <2>1. {<<m, n>>[k] : k \in DOMAIN <<m, n>>} = {m, n} /\ <<m, n>> \in Seq(Message)
      OBVIOUS
    <2> QED BY <1>1, <1>4, <2>1
  <1> QED BY <1>2, <1>3, <1>4

-----------------------------------------------------------------------------
(* The invariant, one action at a time.                                    *)

\* Both sides of the invariant, named by the endpoint e that moves.
Relations(e, p) ==
  /\ GreetingOrder(e, p) /\ RoleOrder(e, p) /\ Secrets(e, p)
  /\ Provenance(e, p) /\ ConfirmOrder(e, p) /\ TimerRule(e)

\* The invariant is that of the endpoint that moves and that of its peer.
LEMMA BothSides ==
  ASSUME NEW e \in Endpoint, NEW p \in Endpoint, p = Peer(e)
  PROVE  /\ IInv <=> TypeOK /\ Relations(e, p) /\ Relations(p, e)
         /\ IInv' <=> TypeOK' /\ Relations(e, p)' /\ Relations(p, e)'
  <1>1. p # e /\ Peer(p) = e /\ \A f \in Endpoint : f = e \/ f = p
    BY Peers
  <1>2. Side(e) <=> Relations(e, p)
    BY DEF Side, Relations
  <1>3. Side(p) <=> Relations(p, e)
    BY <1>1 DEF Side, Relations
  <1>4. Side(e)' <=> Relations(e, p)'
    BY DEF Side, Relations
  <1>5. Side(p)' <=> Relations(p, e)'
    BY <1>1 DEF Side, Relations
  <1> QED BY <1>1, <1>2, <1>3, <1>4, <1>5 DEF IInv

\* Starting sends nothing yet.
LEMMA StartKeeps ==
  ASSUME IInv, NEW e \in Endpoint, Start(e)
  PROVE  IInv'
  <1>1. PICK p \in Endpoint : p = Peer(e) /\ p # e /\ Peer(p) = e /\ Endpoint = {e, p}
    BY Peers
  <1>2. TypeOK /\ Relations(e, p) /\ Relations(p, e)
    BY <1>1, BothSides
  <1>3. net' = net /\ lost' = lost
    BY DEF Start
  <1>4. /\ state[e] = "off" /\ state'[e] = "init" /\ state'[p] = state[p]
        /\ timer'[e] = TRUE /\ timer'[p] = timer[p] /\ fires'[p] = fires[p]
        /\ role' = role /\ s0' = s0 /\ rx' = rx /\ tx' = tx
        /\ InFlight(e)' = InFlight(e) /\ InFlight(p)' = InFlight(p)
    BY <1>1, <1>2 DEF Start, Enter, Arm, Keys, TypeOK, InFlight
  <1>5. TypeOK'
    BY <1>2, <1>3, <1>4, <1>1 DEF Start, Enter, Arm, Keys, Sent, TypeOK, Expected, Retransmitted
  <1>6. Relations(e, p)'
    BY <1>1, <1>2, <1>3, <1>4, EndpointAssumption, ModeAssumption
    DEF Relations, GreetingOrder, RoleOrder, Secrets, Provenance, ConfirmOrder, TimerRule,
      Sent, Message, Early, Greeting, Initiating, Responding, MaxFires, Retransmitted
  <1>7. Relations(p, e)'
    BY <1>1, <1>2, <1>3, <1>4, EndpointAssumption, ModeAssumption
    DEF Relations, GreetingOrder, RoleOrder, Secrets, Provenance, ConfirmOrder, TimerRule,
      Sent, Message, Early, Greeting, Initiating, Responding, MaxFires, Retransmitted
  <1> QED BY <1>1, <1>5, <1>6, <1>7, BothSides

\* The first Hello, met before the HelloACK.
LEMMA InitHelloKeeps ==
  ASSUME IInv, NEW e \in Endpoint, NEW i \in DOMAIN net[e], InitHello(e, i)
  PROVE  IInv'
  <1>1. PICK p \in Endpoint : p = Peer(e) /\ p # e /\ Peer(p) = e /\ Endpoint = {e, p}
    BY Peers
  <1>2. TypeOK /\ Relations(e, p) /\ Relations(p, e)
    BY <1>1, BothSides
  <1>3. Sent(e, {"HelloACK"})
    BY <1>2, Answers DEF InitHello, Message
  <1>4. /\ state[e] = "init" /\ state'[e] = "waitingForHelloAck" /\ state'[p] = state[p]
        /\ timer'[e] = TRUE /\ timer'[p] = timer[p] /\ fires'[p] = fires[p]
        /\ "Hello" \in InFlight(e)
        /\ role' = role /\ s0' = s0 /\ rx' = rx /\ tx' = tx
    BY <1>1, <1>2 DEF InitHello, Receives, Enter, Arm, Keys, TypeOK, InFlight
  <1>5. TypeOK'
    BY <1>2, <1>3, <1>4, <1>1 DEF InitHello, Enter, Arm, Keys, Sent, TypeOK, Expected, Retransmitted
  <1>6. Relations(e, p)'
    BY <1>1, <1>2, <1>3, <1>4, EndpointAssumption, ModeAssumption
    DEF Relations, GreetingOrder, RoleOrder, Secrets, Provenance, ConfirmOrder, TimerRule,
      Sent, Message, Early, Greeting, Initiating, Responding, MaxFires, Retransmitted
  <1>7. Relations(p, e)'
    BY <1>1, <1>2, <1>3, <1>4, EndpointAssumption, ModeAssumption
    DEF Relations, GreetingOrder, RoleOrder, Secrets, Provenance, ConfirmOrder, TimerRule,
      Sent, Message, Early, Greeting, Initiating, Responding, MaxFires, Retransmitted
  <1> QED BY <1>1, <1>5, <1>6, <1>7, BothSides

\* The HelloACK, met before the Hello.
LEMMA InitHelloACKKeeps ==
  ASSUME IInv, NEW e \in Endpoint, NEW i \in DOMAIN net[e], InitHelloACK(e, i)
  PROVE  IInv'
  <1>1. PICK p \in Endpoint : p = Peer(e) /\ p # e /\ Peer(p) = e /\ Endpoint = {e, p}
    BY Peers
  <1>2. TypeOK /\ Relations(e, p) /\ Relations(p, e)
    BY <1>1, BothSides
  <1>3. Sent(e, {})
    BY <1>2, Answers DEF InitHelloACK, Message
  <1>4. /\ state[e] = "init" /\ state'[e] = "waitingForHello" /\ state'[p] = state[p]
        /\ timer'[e] = FALSE /\ timer'[p] = timer[p] /\ fires' = fires
        /\ "HelloACK" \in InFlight(e)
        /\ role' = role /\ s0' = s0 /\ rx' = rx /\ tx' = tx
    BY <1>1, <1>2 DEF InitHelloACK, Receives, Enter, Disarm, Keys, TypeOK, InFlight
  <1>5. TypeOK'
    BY <1>2, <1>3, <1>4, <1>1 DEF InitHelloACK, Enter, Disarm, Keys, Sent, TypeOK, Expected, Retransmitted
  <1>6. Relations(e, p)'
    BY <1>1, <1>2, <1>3, <1>4, EndpointAssumption, ModeAssumption
    DEF Relations, GreetingOrder, RoleOrder, Secrets, Provenance, ConfirmOrder, TimerRule,
      Sent, Message, Early, Greeting, Initiating, Responding, MaxFires, Retransmitted
  <1>7. Relations(p, e)'
    BY <1>1, <1>2, <1>3, <1>4, EndpointAssumption, ModeAssumption
    DEF Relations, GreetingOrder, RoleOrder, Secrets, Provenance, ConfirmOrder, TimerRule,
      Sent, Message, Early, Greeting, Initiating, Responding, MaxFires, Retransmitted
  <1> QED BY <1>1, <1>5, <1>6, <1>7, BothSides

\* The first Hello after the HelloACK.
LEMMA WaitingHelloKeeps ==
  ASSUME IInv, NEW e \in Endpoint, NEW i \in DOMAIN net[e], WaitingHello(e, i)
  PROVE  IInv'
  <1>1. PICK p \in Endpoint : p = Peer(e) /\ p # e /\ Peer(p) = e /\ Endpoint = {e, p}
    BY Peers
  <1>2. TypeOK /\ Relations(e, p) /\ Relations(p, e)
    BY <1>1, BothSides
  <1>3. Sent(e, {"HelloACK", "Commit"})
    BY <1>2, Answers DEF WaitingHello, Message
  <1>4. /\ state[e] = "waitingForHello" /\ state'[e] = "sendingCommit" /\ state'[p] = state[p]
        /\ timer'[e] = TRUE /\ timer'[p] = timer[p] /\ fires'[p] = fires[p]
        /\ "Hello" \in InFlight(e)
        /\ role' = role /\ s0' = s0 /\ rx' = rx /\ tx' = tx
    BY <1>1, <1>2 DEF WaitingHello, Receives, Enter, Arm, Keys, TypeOK, InFlight
  <1>5. TypeOK'
    BY <1>2, <1>3, <1>4, <1>1 DEF WaitingHello, Enter, Arm, Keys, Sent, TypeOK, Expected, Retransmitted
  <1>6. Relations(e, p)'
    BY <1>1, <1>2, <1>3, <1>4, EndpointAssumption, ModeAssumption
    DEF Relations, GreetingOrder, RoleOrder, Secrets, Provenance, ConfirmOrder, TimerRule,
      Sent, Message, Early, Greeting, Initiating, Responding, MaxFires, Retransmitted
  <1>7. Relations(p, e)'
    BY <1>1, <1>2, <1>3, <1>4, EndpointAssumption, ModeAssumption
    DEF Relations, GreetingOrder, RoleOrder, Secrets, Provenance, ConfirmOrder, TimerRule,
      Sent, Message, Early, Greeting, Initiating, Responding, MaxFires, Retransmitted
  <1> QED BY <1>1, <1>5, <1>6, <1>7, BothSides

\* The HelloACK after the Hello.
LEMMA GreetedHelloACKKeeps ==
  ASSUME IInv, NEW e \in Endpoint, NEW i \in DOMAIN net[e], GreetedHelloACK(e, i)
  PROVE  IInv'
  <1>1. PICK p \in Endpoint : p = Peer(e) /\ p # e /\ Peer(p) = e /\ Endpoint = {e, p}
    BY Peers
  <1>2. TypeOK /\ Relations(e, p) /\ Relations(p, e)
    BY <1>1, BothSides
  <1>3. Sent(e, {"Commit"})
    BY <1>2, Answers DEF GreetedHelloACK, Message
  <1>4. /\ state[e] = "waitingForHelloAck" /\ state'[e] = "sendingCommit" /\ state'[p] = state[p]
        /\ timer'[e] = TRUE /\ timer'[p] = timer[p] /\ fires'[p] = fires[p]
        /\ "HelloACK" \in InFlight(e)
        /\ role' = role /\ s0' = s0 /\ rx' = rx /\ tx' = tx
    BY <1>1, <1>2 DEF GreetedHelloACK, Receives, Enter, Arm, Keys, TypeOK, InFlight
  <1>5. TypeOK'
    BY <1>2, <1>3, <1>4, <1>1 DEF GreetedHelloACK, Enter, Arm, Keys, Sent, TypeOK, Expected, Retransmitted
  <1>6. Relations(e, p)'
    BY <1>1, <1>2, <1>3, <1>4, EndpointAssumption, ModeAssumption
    DEF Relations, GreetingOrder, RoleOrder, Secrets, Provenance, ConfirmOrder, TimerRule,
      Sent, Message, Early, Greeting, Initiating, Responding, MaxFires, Retransmitted
  <1>7. Relations(p, e)'
    BY <1>1, <1>2, <1>3, <1>4, EndpointAssumption, ModeAssumption
    DEF Relations, GreetingOrder, RoleOrder, Secrets, Provenance, ConfirmOrder, TimerRule,
      Sent, Message, Early, Greeting, Initiating, Responding, MaxFires, Retransmitted
  <1> QED BY <1>1, <1>5, <1>6, <1>7, BothSides

\* An answer that is sent again, or a packet that is only noted.
LEMMA QuietKeeps ==
  ASSUME IInv, NEW e \in Endpoint, NEW S, Sent(e, S), UNCHANGED <<state, Timers, Keys>>,
         \/ S = {}
         \/ S = {"HelloACK"} /\ state[e] = "waitingForHelloAck"
         \/ S = {"DHPart1"} /\ state[e] = "responderSendingDHPart1"
         \/ S = {"Confirm1"} /\ state[e] = "responderSendingConfirm1"
         \/ S = {"Conf2ACK"} /\ state[e] = "secure" /\ role[e] = "responder"
  PROVE  IInv'
  <1>1. PICK p \in Endpoint : p = Peer(e) /\ p # e /\ Peer(p) = e /\ Endpoint = {e, p}
    BY Peers
  <1>2. TypeOK /\ Relations(e, p) /\ Relations(p, e)
    BY <1>1, BothSides
  <1>3. Sent(e, S)
    OBVIOUS
  <1>4. /\ state' = state /\ timer' = timer /\ fires' = fires
        /\ role' = role /\ s0' = s0 /\ rx' = rx /\ tx' = tx
    BY DEF Timers, Keys
  <1>5. TypeOK'
    BY <1>2, <1>3, <1>4 DEF Sent, TypeOK
  <1>6. Relations(e, p)'
    BY <1>1, <1>2, <1>3, <1>4, EndpointAssumption, ModeAssumption
    DEF Relations, GreetingOrder, RoleOrder, Secrets, Provenance, ConfirmOrder, TimerRule,
      Sent, Message, Early, Greeting, Initiating, Responding, MaxFires, Retransmitted
  <1>7. Relations(p, e)'
    BY <1>1, <1>2, <1>3, <1>4, EndpointAssumption, ModeAssumption
    DEF Relations, GreetingOrder, RoleOrder, Secrets, Provenance, ConfirmOrder, TimerRule,
      Sent, Message, Early, Greeting, Initiating, Responding, MaxFires, Retransmitted
  <1> QED BY <1>1, <1>5, <1>6, <1>7, BothSides

\* The six repetitions.
LEMMA RepetitionKeeps ==
  ASSUME IInv, NEW e \in Endpoint, NEW i \in DOMAIN net[e],
         \/ RepeatedHello(e, i) \/ RepeatedCommit(e, i) \/ RepeatedDHPart1(e, i)
         \/ RepeatedDHPart2(e, i) \/ RepeatedConfirm1(e, i) \/ RepeatedConfirm2(e, i)
  PROVE  IInv'
  <1>1. PICK p \in Endpoint : p = Peer(e) /\ p # e /\ Peer(p) = e /\ Endpoint = {e, p}
    BY Peers
  <1>2. TypeOK /\ Relations(e, p) /\ Relations(p, e)
    BY <1>1, BothSides
  <1>3. CASE RepeatedHello(e, i)
    BY <1>2, <1>3, Answers, QuietKeeps DEF RepeatedHello, Receives, Message
  <1>4. CASE RepeatedCommit(e, i)
    BY <1>2, <1>4, Answers, QuietKeeps DEF RepeatedCommit, Receives, Message
  <1>5. CASE RepeatedDHPart1(e, i)
    BY <1>2, <1>5, Answers, QuietKeeps DEF RepeatedDHPart1, Receives, Message
  <1>6. CASE RepeatedDHPart2(e, i)
    BY <1>2, <1>6, Answers, QuietKeeps DEF RepeatedDHPart2, Receives, Message
  <1>7. CASE RepeatedConfirm1(e, i)
    BY <1>2, <1>7, Answers, QuietKeeps DEF RepeatedConfirm1, Receives, Message
  <1>8. CASE RepeatedConfirm2(e, i)
    <2>1. state[e] = "secure" /\ "Confirm2" \in InFlight(e)
      BY <1>8 DEF RepeatedConfirm2, Receives, InFlight
    <2>2. role[e] = "responder"
      BY <1>2, <2>1 DEF Relations, Provenance, RoleOrder, Initiating, TypeOK
    <2> QED BY <1>2, <1>8, <2>1, <2>2, Answers, QuietKeeps DEF RepeatedConfirm2, Message
  <1> QED BY <1>3, <1>4, <1>5, <1>6, <1>7, <1>8

MayRespond(e) ==
  \/ state[e] = "waitingForHelloAck"
  \/ state[e] = "sendingCommit" /\ e = Low

\* A Commit makes a responder of a side that has sent none, or is Low.
LEMMA TurnIntoResponderKeeps ==
  ASSUME IInv, NEW e \in Endpoint, NEW i \in DOMAIN net[e], TurnIntoResponder(e, i),
         "Commit" \in InFlight(e), MayRespond(e)
  PROVE  IInv'
  <1>1. PICK p \in Endpoint : p = Peer(e) /\ p # e /\ Peer(p) = e /\ Endpoint = {e, p}
    BY Peers
  <1>2. TypeOK /\ Relations(e, p) /\ Relations(p, e)
    BY <1>1, BothSides
  <1>3. \/ Mode = "DHM" /\ Sent(e, {"DHPart1"})
        \/ Mode = "Mult" /\ Sent(e, {"Confirm1"})
    BY <1>2, Answers DEF TurnIntoResponder, Message
  <1>4. /\ \/ Mode = "DHM" /\ state'[e] = "responderSendingDHPart1" /\ s0' = s0
           \/ /\ Mode = "Mult" /\ state'[e] = "responderSendingConfirm1"
              /\ s0'[e] = p /\ s0'[p] = s0[p]
        /\ state'[p] = state[p]
        /\ timer'[e] = FALSE /\ timer'[p] = timer[p] /\ fires' = fires
        /\ role'[e] = "responder" /\ role'[p] = role[p] /\ rx' = rx /\ tx' = tx
    BY <1>1, <1>2 DEF TurnIntoResponder, Enter, Disarm, TypeOK
  <1>a. \/ state[e] = "waitingForHelloAck"
        \/ state[e] = "sendingCommit" /\ e = Low
    BY DEF MayRespond
  <1>b. role[p] = "initiator"
    BY <1>1, <1>2, <1>a DEF Relations, RoleOrder, Initiating, TypeOK
  <1>c. state[p] \in {"sendingCommit", "secure"} \cup Initiating
    BY <1>1, <1>2, <1>b DEF Relations, GreetingOrder, RoleOrder, Early, Initiating, Responding, TypeOK, Expected
  <1>5. TypeOK'
    BY <1>1, <1>2, <1>3, <1>4
    DEF TurnIntoResponder, Enter, Disarm, Sent, TypeOK, Expected, Retransmitted
  <1>6. /\ GreetingOrder(e, p)' /\ RoleOrder(e, p)'
        /\ GreetingOrder(p, e)' /\ RoleOrder(p, e)'
    BY <1>1, <1>2, <1>3, <1>4, <1>a, <1>b, <1>c, EndpointAssumption, ModeAssumption
    DEF Relations, GreetingOrder, RoleOrder, Sent, Message, Early, Greeting, Initiating, Responding
  <1>7. /\ Secrets(e, p)' /\ ConfirmOrder(e, p)'
        /\ Secrets(p, e)' /\ ConfirmOrder(p, e)'
    BY <1>1, <1>2, <1>3, <1>4, <1>a, <1>b, <1>c, EndpointAssumption, ModeAssumption
    DEF Relations, RoleOrder, Secrets, ConfirmOrder, Early, Initiating, Responding
  <1>8. Provenance(e, p)' /\ Provenance(p, e)'
    BY <1>1, <1>2, <1>3, <1>4, <1>a, <1>b, <1>c, EndpointAssumption, ModeAssumption
    DEF Relations, GreetingOrder, RoleOrder, Provenance, Sent, Message, Early, Initiating, Responding
  <1>9. TimerRule(e)' /\ TimerRule(p)'
    BY <1>1, <1>2, <1>4 DEF Relations, TimerRule, MaxFires, Retransmitted
  <1> QED BY <1>1, <1>5, <1>6, <1>7, <1>8, <1>9, BothSides DEF Relations

\* A Commit that meets no Commit, or loses, or wins the contention.
LEMMA CommitKeeps ==
  ASSUME IInv, NEW e \in Endpoint, NEW i \in DOMAIN net[e],
         GreetedCommit(e, i) \/ ContendedCommit(e, i)
  PROVE  IInv'
  <1>1. "Commit" \in InFlight(e)
    BY DEF GreetedCommit, ContendedCommit, Receives, InFlight
  <1>2. CASE GreetedCommit(e, i)
    <2>1. Receives(e, i, "waitingForHelloAck", "Commit") /\ TurnIntoResponder(e, i)
      BY <1>2 DEF GreetedCommit
    <2>2. MayRespond(e)
      BY <2>1 DEF Receives, MayRespond
    <2> QED BY <1>1, <2>1, <2>2, TurnIntoResponderKeeps
  <1>3. CASE ContendedCommit(e, i) /\ Yields(e)
    <2>1. MayRespond(e) /\ TurnIntoResponder(e, i)
      BY <1>3 DEF ContendedCommit, Yields, Receives, MayRespond
    <2> QED BY <1>1, <2>1, TurnIntoResponderKeeps
  <1>4. CASE ContendedCommit(e, i) /\ ~Yields(e)
    <2>1. TypeOK
      BY DEF IInv
    <2> QED BY <1>4, <2>1, Answers, QuietKeeps DEF ContendedCommit
  <1> QED BY <1>2, <1>3, <1>4

\* The initiator derives s0 from the responder's half.
LEMMA CommitDHPart1Keeps ==
  ASSUME IInv, NEW e \in Endpoint, NEW i \in DOMAIN net[e], CommitDHPart1(e, i)
  PROVE  IInv'
  <1>1. PICK p \in Endpoint : p = Peer(e) /\ p # e /\ Peer(p) = e /\ Endpoint = {e, p}
    BY Peers
  <1>2. TypeOK /\ Relations(e, p) /\ Relations(p, e)
    BY <1>1, BothSides
  <1>3. Sent(e, {"DHPart2"})
    BY <1>2, Answers DEF CommitDHPart1, Message
  <1>4. /\ state[e] = "sendingCommit" /\ state'[e] = "initiatorSendingDHPart2" /\ state'[p] = state[p]
        /\ timer'[e] = TRUE /\ timer'[p] = timer[p] /\ fires'[p] = fires[p]
        /\ "DHPart1" \in InFlight(e) /\ Mode = "DHM"
        /\ s0'[e] = (IF role[e] = "responder" THEN p ELSE e) /\ s0'[p] = s0[p]
        /\ role' = role /\ rx' = rx /\ tx' = tx
    BY <1>1, <1>2 DEF CommitDHPart1, Receives, Enter, Arm, SeenInitiator, TypeOK, InFlight
  <1>5. TypeOK'
    BY <1>2, <1>3, <1>4, <1>1 DEF CommitDHPart1, Enter, Arm, SeenInitiator, Sent, TypeOK, Expected, Retransmitted
  <1>6. Relations(e, p)'
    BY <1>1, <1>2, <1>3, <1>4, EndpointAssumption, ModeAssumption
    DEF Relations, GreetingOrder, RoleOrder, Secrets, Provenance, ConfirmOrder, TimerRule,
      Sent, Message, Early, Greeting, Initiating, Responding, MaxFires, Retransmitted
  <1>7. Relations(p, e)'
    BY <1>1, <1>2, <1>3, <1>4, EndpointAssumption, ModeAssumption
    DEF Relations, GreetingOrder, RoleOrder, Secrets, Provenance, ConfirmOrder, TimerRule,
      Sent, Message, Early, Greeting, Initiating, Responding, MaxFires, Retransmitted
  <1> QED BY <1>1, <1>5, <1>6, <1>7, BothSides

\* The responder derives s0 from the initiator's half.
LEMMA ResponderDHPart2Keeps ==
  ASSUME IInv, NEW e \in Endpoint, NEW i \in DOMAIN net[e], ResponderDHPart2(e, i)
  PROVE  IInv'
  <1>1. PICK p \in Endpoint : p = Peer(e) /\ p # e /\ Peer(p) = e /\ Endpoint = {e, p}
    BY Peers
  <1>2. TypeOK /\ Relations(e, p) /\ Relations(p, e)
    BY <1>1, BothSides
  <1>3. Sent(e, {"Confirm1"})
    BY <1>2, Answers DEF ResponderDHPart2, Message
  <1>4. /\ state[e] = "responderSendingDHPart1" /\ state'[e] = "responderSendingConfirm1" /\ state'[p] = state[p]
        /\ timer'[e] = FALSE /\ timer'[p] = timer[p] /\ fires' = fires
        /\ "DHPart2" \in InFlight(e)
        /\ s0'[e] = (IF role[e] = "responder" THEN p ELSE e) /\ s0'[p] = s0[p]
        /\ role' = role /\ rx' = rx /\ tx' = tx
    BY <1>1, <1>2 DEF ResponderDHPart2, Receives, Enter, Disarm, SeenInitiator, TypeOK, InFlight
  <1>5. TypeOK'
    BY <1>2, <1>3, <1>4, <1>1 DEF ResponderDHPart2, Enter, Disarm, SeenInitiator, Sent, TypeOK, Expected, Retransmitted
  <1>6. Relations(e, p)'
    BY <1>1, <1>2, <1>3, <1>4, EndpointAssumption, ModeAssumption
    DEF Relations, GreetingOrder, RoleOrder, Secrets, Provenance, ConfirmOrder, TimerRule,
      Sent, Message, Early, Greeting, Initiating, Responding, MaxFires, Retransmitted
  <1>7. Relations(p, e)'
    BY <1>1, <1>2, <1>3, <1>4, EndpointAssumption, ModeAssumption
    DEF Relations, GreetingOrder, RoleOrder, Secrets, Provenance, ConfirmOrder, TimerRule,
      Sent, Message, Early, Greeting, Initiating, Responding, MaxFires, Retransmitted
  <1> QED BY <1>1, <1>5, <1>6, <1>7, BothSides

\* The Confirm1 makes the initiator confirm, in either mode, even when the
\* Confirm2 cannot be sent.
LEMMA Confirm1Keeps ==
  ASSUME IInv, NEW e \in Endpoint, NEW i \in DOMAIN net[e],
         CommitConfirm1(e, i) \/ InitiatorConfirm1(e, i)
  PROVE  IInv'
  <1>1. PICK p \in Endpoint : p = Peer(e) /\ p # e /\ Peer(p) = e /\ Endpoint = {e, p}
    BY Peers
  <1>2. TypeOK /\ Relations(e, p) /\ Relations(p, e)
    BY <1>1, BothSides
  <1>3. \/ Sent(e, {"Confirm2"}) /\ timer'[e] = TRUE /\ fires'[p] = fires[p]
        \/ Sent(e, {}) /\ SendErrors /\ timer'[e] = FALSE /\ fires' = fires
    BY <1>1, <1>2, Answers
    DEF CommitConfirm1, InitiatorConfirm1, SendConfirm2, Arm, Disarm, Message, TypeOK
  <1>4. /\ \/ state[e] = "sendingCommit" /\ s0'[e] = (IF role[e] = "responder" THEN p ELSE e)
           \/ state[e] = "initiatorSendingDHPart2" /\ s0'[e] = s0[e]
        /\ state'[e] = "initiatorSendingConfirm2" /\ state'[p] = state[p]
        /\ "Confirm1" \in InFlight(e)
        /\ timer'[p] = timer[p] /\ s0'[p] = s0[p]
        /\ rx'[e] = TRUE /\ rx'[p] = rx[p] /\ role' = role /\ tx' = tx
    BY <1>1, <1>2
    DEF CommitConfirm1, InitiatorConfirm1, SendConfirm2, Receives, SeenInitiator,
        Enter, Arm, Disarm, TypeOK, InFlight
  <1>5. TypeOK'
    <2>1. net' \in [Endpoint -> Seq(Message)] /\ lost' \in 0..MaxLoss
      BY <1>3 DEF Sent
    <2>2. /\ state' \in [Endpoint -> DOMAIN Expected] /\ rx' \in [Endpoint -> BOOLEAN]
          /\ s0' \in [Endpoint -> Endpoint \cup {None}] /\ tx' = tx /\ role' = role
      BY <1>1, <1>2
      DEF CommitConfirm1, InitiatorConfirm1, SendConfirm2, SeenInitiator, Enter, TypeOK, Expected
    <2>3. timer' \in [Endpoint -> BOOLEAN] /\ fires' \in [Endpoint -> Nat]
      <3>1. timer \in [Endpoint -> BOOLEAN] /\ fires \in [Endpoint -> Nat]
        BY <1>2 DEF TypeOK
      <3>2. Arm(e) \/ Disarm(e)
        BY DEF CommitConfirm1, InitiatorConfirm1, SendConfirm2
      <3>3. CASE Arm(e)
        BY <3>1, <3>3 DEF Arm
      <3>4. CASE Disarm(e)
        BY <3>1, <3>4 DEF Disarm
      <3> QED BY <3>2, <3>3, <3>4
    <2>4. \A f \in Endpoint : timer'[f] => state'[f] \in DOMAIN Retransmitted
      BY <1>1, <1>2, <1>4 DEF TypeOK, Retransmitted
    <2> QED BY <1>2, <2>1, <2>2, <2>3, <2>4 DEF TypeOK
  <1>6. Relations(e, p)'
    BY <1>1, <1>2, <1>3, <1>4, EndpointAssumption, ModeAssumption
    DEF Relations, GreetingOrder, RoleOrder, Secrets, Provenance, ConfirmOrder, TimerRule,
      Sent, Message, Early, Greeting, Initiating, Responding, MaxFires, Retransmitted
  <1>7. Relations(p, e)'
    BY <1>1, <1>2, <1>3, <1>4, EndpointAssumption, ModeAssumption
    DEF Relations, GreetingOrder, RoleOrder, Secrets, Provenance, ConfirmOrder, TimerRule,
      Sent, Message, Early, Greeting, Initiating, Responding, MaxFires, Retransmitted
  <1> QED BY <1>1, <1>5, <1>6, <1>7, BothSides

\* The Confirm2 makes the responder secure, unless the Conf2ACK cannot be sent.
LEMMA ResponderConfirm2Keeps ==
  ASSUME IInv, NEW e \in Endpoint, NEW i \in DOMAIN net[e], ResponderConfirm2(e, i)
  PROVE  IInv'
  <1>1. PICK p \in Endpoint : p = Peer(e) /\ p # e /\ Peer(p) = e /\ Endpoint = {e, p}
    BY Peers
  <1>2. TypeOK /\ Relations(e, p) /\ Relations(p, e)
    BY <1>1, BothSides
  <1>3. \/ /\ Sent(e, {"Conf2ACK"}) /\ state'[e] = "secure"
           /\ tx'[e] = TRUE /\ timer'[e] = FALSE
        \/ Sent(e, {}) /\ state' = state /\ tx' = tx /\ timer' = timer
    BY <1>1, <1>2, Answers
    DEF ResponderConfirm2, Enter, Disarm, Timers, Message, TypeOK
  <1>4. /\ state[e] = "responderSendingConfirm1" /\ state'[p] = state[p]
        /\ "Confirm2" \in InFlight(e)
        /\ timer'[p] = timer[p] /\ fires' = fires
        /\ rx'[e] = TRUE /\ rx'[p] = rx[p] /\ tx'[p] = tx[p]
        /\ role' = role /\ s0' = s0
    BY <1>1, <1>2 DEF ResponderConfirm2, Receives, Enter, Disarm, Timers, TypeOK, InFlight
  <1>5. TypeOK'
    <2>1. net' \in [Endpoint -> Seq(Message)] /\ lost' \in 0..MaxLoss
      BY <1>3 DEF Sent
    <2>2. /\ state' \in [Endpoint -> DOMAIN Expected] /\ timer' \in [Endpoint -> BOOLEAN]
          /\ rx' \in [Endpoint -> BOOLEAN] /\ tx' \in [Endpoint -> BOOLEAN]
      BY <1>2 DEF ResponderConfirm2, Enter, Disarm, Timers, TypeOK, Expected
    <2>3. \A f \in Endpoint : timer'[f] => state'[f] \in DOMAIN Retransmitted
      BY <1>1, <1>2, <1>3, <1>4 DEF TypeOK, Retransmitted
    <2> QED BY <1>2, <1>4, <2>1, <2>2, <2>3 DEF TypeOK
  <1>6. Relations(e, p)'
    BY <1>1, <1>2, <1>3, <1>4, EndpointAssumption, ModeAssumption
    DEF Relations, GreetingOrder, RoleOrder, Secrets, Provenance, ConfirmOrder, TimerRule,
      Sent, Message, Early, Greeting, Initiating, Responding, MaxFires, Retransmitted
  <1>7. Relations(p, e)'
    BY <1>1, <1>2, <1>3, <1>4, EndpointAssumption, ModeAssumption
    DEF Relations, GreetingOrder, RoleOrder, Secrets, Provenance, ConfirmOrder, TimerRule,
      Sent, Message, Early, Greeting, Initiating, Responding, MaxFires, Retransmitted
  <1> QED BY <1>1, <1>5, <1>6, <1>7, BothSides

\* The Conf2ACK makes the initiator secure.
LEMMA InitiatorConf2ACKKeeps ==
  ASSUME IInv, NEW e \in Endpoint, NEW i \in DOMAIN net[e], InitiatorConf2ACK(e, i)
  PROVE  IInv'
  <1>1. PICK p \in Endpoint : p = Peer(e) /\ p # e /\ Peer(p) = e /\ Endpoint = {e, p}
    BY Peers
  <1>2. TypeOK /\ Relations(e, p) /\ Relations(p, e)
    BY <1>1, BothSides
  <1>3. net' = net /\ lost' = lost
    BY DEF InitiatorConf2ACK
  <1>4. /\ state[e] = "initiatorSendingConfirm2" /\ state'[e] = "secure" /\ state'[p] = state[p]
        /\ timer'[e] = FALSE /\ timer'[p] = timer[p] /\ fires' = fires
        /\ "Conf2ACK" \in InFlight(e)
        /\ InFlight(e)' = InFlight(e) /\ InFlight(p)' = InFlight(p)
        /\ tx'[e] = TRUE /\ tx'[p] = tx[p]
        /\ role' = role /\ s0' = s0 /\ rx' = rx
    BY <1>1, <1>2 DEF InitiatorConf2ACK, Receives, Enter, Disarm, TypeOK, InFlight
  <1>5. TypeOK'
    BY <1>2, <1>3, <1>4, <1>1 DEF InitiatorConf2ACK, Enter, Disarm, Sent, TypeOK, Expected, Retransmitted
  <1>6. Relations(e, p)'
    BY <1>1, <1>2, <1>3, <1>4, EndpointAssumption, ModeAssumption
    DEF Relations, GreetingOrder, RoleOrder, Secrets, Provenance, ConfirmOrder, TimerRule,
      Sent, Message, Early, Greeting, Initiating, Responding, MaxFires, Retransmitted
  <1>7. Relations(p, e)'
    BY <1>1, <1>2, <1>3, <1>4, EndpointAssumption, ModeAssumption
    DEF Relations, GreetingOrder, RoleOrder, Secrets, Provenance, ConfirmOrder, TimerRule,
      Sent, Message, Early, Greeting, Initiating, Responding, MaxFires, Retransmitted
  <1> QED BY <1>1, <1>5, <1>6, <1>7, BothSides

\* A timer sends the packet of its state again.
LEMMA TimerKeeps ==
  ASSUME IInv, NEW e \in Endpoint, Timer(e)
  PROVE  IInv'
  <1>1. PICK p \in Endpoint : p = Peer(e) /\ p # e /\ Peer(p) = e /\ Endpoint = {e, p}
    BY Peers
  <1>2. TypeOK /\ Relations(e, p) /\ Relations(p, e)
    BY <1>1, BothSides
  <1>3. Sent(e, {Retransmitted[state[e]]})
    <2>1. net[e] \in Seq(Message) /\ \A k \in DOMAIN net[e] : net[e][k] \in InFlight(e)
      BY <1>2 DEF TypeOK, InFlight
    <2>2. Retransmitted[state[e]] \in Message
      BY DEF Timer, Retransmitted, Message
    <2>3. PICK m \in Message : m = Retransmitted[state[e]]
      BY <2>2
    <2>4. {<<m>>[k] : k \in DOMAIN <<m>>} = {m} /\ <<m>> \in Seq(Message)
      OBVIOUS
    <2> QED BY <1>2, <2>1, <2>3, <2>4, ExchangeSends DEF Timer
  <1>4. /\ state[e] \in DOMAIN Retransmitted /\ state' = state
        /\ (timer'[e] <=> fires[e] < MaxFires(state[e])) /\ timer'[p] = timer[p]
        /\ fires'[e] = fires[e] + 1 /\ fires'[p] = fires[p]
        /\ fires[e] \in Nat /\ HelloMax \in Nat /\ NonHelloMax \in Nat
        /\ role' = role /\ s0' = s0 /\ rx' = rx /\ tx' = tx
    BY <1>1, <1>2, BoundAssumption DEF Timer, Keys, TypeOK
  <1>5. TypeOK'
    BY <1>1, <1>2, <1>3, <1>4 DEF Timer, Keys, Sent, TypeOK, Retransmitted
  <1>a. \/ Sent(e, {"Hello"})
        \/ Sent(e, {"Commit"}) /\ state[e] = "sendingCommit"
        \/ Sent(e, {"DHPart2"}) /\ state[e] = "initiatorSendingDHPart2"
        \/ Sent(e, {"Confirm2"}) /\ state[e] = "initiatorSendingConfirm2"
    <2>1. \/ Retransmitted[state[e]] = "Hello"
          \/ Retransmitted[state[e]] = "Commit" /\ state[e] = "sendingCommit"
          \/ Retransmitted[state[e]] = "DHPart2" /\ state[e] = "initiatorSendingDHPart2"
          \/ Retransmitted[state[e]] = "Confirm2" /\ state[e] = "initiatorSendingConfirm2"
      BY <1>4 DEF Retransmitted
    <2> QED BY <1>3, <2>1, Zenon
  <1>6. /\ GreetingOrder(e, p)' /\ RoleOrder(e, p)'
        /\ GreetingOrder(p, e)' /\ RoleOrder(p, e)'
    BY <1>1, <1>2, <1>a, <1>4, EndpointAssumption, ModeAssumption
    DEF Relations, GreetingOrder, RoleOrder, Sent, Message, Early, Greeting, Initiating, Responding
  <1>7. /\ Secrets(e, p)' /\ ConfirmOrder(e, p)'
        /\ Secrets(p, e)' /\ ConfirmOrder(p, e)'
    BY <1>1, <1>2, <1>a, <1>4, EndpointAssumption, ModeAssumption
    DEF Relations, RoleOrder, Secrets, ConfirmOrder, Early, Initiating, Responding
  <1>8. Provenance(e, p)' /\ Provenance(p, e)'
    BY <1>1, <1>2, <1>a, <1>4, EndpointAssumption, ModeAssumption
    DEF Relations, GreetingOrder, RoleOrder, Provenance, Sent, Message, Early, Initiating, Responding
  <1>9. TimerRule(e)' /\ TimerRule(p)'
    <2>1. MaxFires(state[e]) \in Nat
      BY <1>4 DEF MaxFires
    <2>2. timer'[e] \/ fires'[e] > MaxFires(state[e])
      BY <1>4, <2>1
    <2>3. TimerRule(e)'
      BY <1>4, <2>2 DEF TimerRule, MaxFires
    <2>4. TimerRule(p)'
      BY <1>2, <1>4 DEF Relations, TimerRule, MaxFires
    <2> QED BY <2>3, <2>4
  <1> QED BY <1>1, <1>5, <1>6, <1>7, <1>8, <1>9, BothSides DEF Relations

-----------------------------------------------------------------------------
(* The theorems.                                                           *)

\* Nothing has happened yet.
LEMMA InitEstablishes == Init => IInv
  <1> SUFFICES ASSUME Init PROVE IInv
    OBVIOUS
  <1>1. TypeOK
    BY BoundAssumption DEF Init, TypeOK, Expected
  <1>2. ASSUME NEW e \in Endpoint PROVE Side(e)
    <2>1. PICK p \in Endpoint : p = Peer(e)
      BY Peers
    <2>2. InFlight(e) = {} /\ InFlight(p) = {}
      BY DEF Init, InFlight
    <2>3. /\ state[e] = "off" /\ state[p] = "off" /\ role[e] = "initiator" /\ s0[e] = None
          /\ ~rx[e] /\ ~tx[e]
      BY DEF Init
    <2> QED BY <2>1, <2>2, <2>3
        DEF Side, GreetingOrder, RoleOrder, Secrets, Provenance, ConfirmOrder, TimerRule,
            Early, Greeting, Initiating, Responding, Retransmitted
  <1> QED BY <1>1, <1>2 DEF IInv

\* Every step keeps the invariant.
LEMMA NextKeeps == IInv /\ [Next]_vars => IInv'
  <1> SUFFICES ASSUME IInv, [Next]_vars PROVE IInv'
    OBVIOUS
  <1>1. CASE UNCHANGED vars
    BY <1>1 DEF vars, IInv, TypeOK, Side, GreetingOrder, RoleOrder, Secrets, Provenance,
                ConfirmOrder, TimerRule, InFlight
  <1>2. ASSUME NEW e \in Endpoint, Start(e) PROVE IInv'
    BY <1>2, StartKeeps
  <1>3. ASSUME NEW e \in Endpoint, Timer(e) PROVE IInv'
    BY <1>3, TimerKeeps
  <1>4. ASSUME NEW e \in Endpoint, NEW i \in DOMAIN net[e],
               Discovery(e, i) \/ KeyAgreement(e, i) \/ Confirmation(e, i)
        PROVE  IInv'
    <2>1. CASE Discovery(e, i)
      BY <2>1, InitHelloKeeps, InitHelloACKKeeps, WaitingHelloKeeps, GreetedHelloACKKeeps,
         RepetitionKeeps DEF Discovery
    <2>2. CASE KeyAgreement(e, i)
      BY <2>2, CommitKeeps, CommitDHPart1Keeps, ResponderDHPart2Keeps, RepetitionKeeps
      DEF KeyAgreement
    <2>3. CASE Confirmation(e, i)
      BY <2>3, Confirm1Keeps, ResponderConfirm2Keeps, InitiatorConf2ACKKeeps, RepetitionKeeps
      DEF Confirmation
    <2> QED BY <1>4, <2>1, <2>2, <2>3
  <1> QED BY <1>1, <1>2, <1>3, <1>4 DEF Next, Receive

\* The invariant holds in every reachable state.
THEOREM InductiveInvariant == Spec => []IInv
  <1> QED BY InitEstablishes, NextKeeps, PTL DEF Spec

\* Every variable has its type, and a timer runs only in a state with one.
THEOREM TypeCorrect == Spec => []TypeOK
  <1>1. IInv => TypeOK
    BY DEF IInv
  <1> QED BY <1>1, InductiveInvariant, PTL

\* Whatever Commits cross, both sides derive the same s0.
THEOREM SameKey == Spec => []KeysAgree
  <1>1. IInv => KeysAgree
    <2> SUFFICES ASSUME IInv, \A e \in Endpoint : s0[e] # None PROVE s0[Alice] = s0[Bob]
      BY DEF KeysAgree
    <2>1. PICK p \in Endpoint : p = Peer(Alice) /\ p = Bob /\ Alice \in Endpoint
      BY EndpointAssumption DEF Endpoint, Peer
    <2>2. TypeOK /\ Relations(Alice, p) /\ Relations(p, Alice)
      BY <2>1, BothSides
    <2> QED BY <2>1, <2>2, EndpointAssumption
        DEF Relations, Secrets, RoleOrder, Initiating, Responding, TypeOK, Endpoint
  <1> QED BY <1>1, InductiveInvariant, PTL

\* Nobody sends SRTP that the peer has no secrets for.
THEOREM SendersAreHeard == Spec => []SenderHasReceiver
  <1>1. IInv => SenderHasReceiver
    <2> SUFFICES ASSUME IInv, NEW e \in Endpoint, tx[e]
                 PROVE  rx[Peer(e)] /\ s0[Peer(e)] = s0[e]
      BY DEF SenderHasReceiver
    <2>1. PICK p \in Endpoint : p = Peer(e)
      BY Peers
    <2>2. TypeOK /\ Relations(e, p) /\ Relations(p, e)
      BY <2>1, BothSides
    <2>3. state[e] = "secure"
      BY <2>2 DEF Relations, Secrets
    <2>4. CASE role[e] = "initiator"
      BY <2>1, <2>2, <2>3, <2>4
      DEF Relations, Secrets, RoleOrder, ConfirmOrder, Initiating, TypeOK
    <2>5. CASE role[e] = "responder"
      BY <2>1, <2>2, <2>3, <2>5
      DEF Relations, Secrets, RoleOrder, ConfirmOrder, Initiating, TypeOK
    <2> QED BY <2>1, <2>2, <2>4, <2>5 DEF TypeOK
  <1> QED BY <1>1, InductiveInvariant, PTL

\* An initiator is secure only after its responder.
THEOREM ResponderIsFirst == Spec => []ResponderFirst
  <1>1. IInv => ResponderFirst
    <2> SUFFICES ASSUME IInv, NEW e \in Endpoint, state[e] = "secure", role[e] = "initiator"
                 PROVE  state[Peer(e)] = "secure" /\ role[Peer(e)] = "responder"
      BY DEF ResponderFirst
    <2> QED BY DEF IInv, Side, ConfirmOrder, RoleOrder
  <1> QED BY <1>1, InductiveInvariant, PTL

\* Both sides never wait for the other one to send again.
THEOREM SomebodyAlwaysSends == Spec => []SomebodySends
  <1>1. IInv => SomebodySends
    <2> SUFFICES ASSUME IInv, Started, ~Secure PROVE \E e \in Endpoint : Sends(e)
      BY DEF SomebodySends
    <2>1. PICK e \in Endpoint : state[e] # "secure"
      BY DEF Secure
    <2>2. PICK p \in Endpoint : p = Peer(e) /\ p # e /\ Peer(p) = e
      BY Peers
    <2>3. TypeOK /\ Relations(e, p) /\ Relations(p, e)
      BY <2>2, BothSides
    <2>4. state[e] \in DOMAIN Retransmitted => Sends(e)
      BY <2>3 DEF Relations, TimerRule, Sends
    <2>5. state[p] \in DOMAIN Retransmitted => Sends(p)
      BY <2>3 DEF Relations, TimerRule, Sends
    <2>6. state[e] \in DOMAIN Retransmitted \/ state[p] \in DOMAIN Retransmitted
      <3>1. CASE state[e] \in DOMAIN Retransmitted
        BY <3>1
      <3>2. CASE state[e] = "waitingForHello"
        <4>1. state[p] \notin Greeting /\ state[p] \in Early
          BY <2>3, <3>2 DEF Relations, GreetingOrder, Greeting
        <4> QED BY <4>1 DEF Early, Greeting, Retransmitted
      <3>3. CASE state[e] \in Responding
        <4>1. state[p] \in {"sendingCommit", "secure"} \cup Initiating /\ role[p] = "initiator"
          BY <2>3, <3>3 DEF Relations, RoleOrder
        <4>2. state[p] # "secure"
          BY <2>1, <2>3, <4>1 DEF Relations, ConfirmOrder
        <4> QED BY <4>1, <4>2 DEF Initiating, Retransmitted
      <3> QED BY <2>1, <2>3, <3>1, <3>2, <3>3
          DEF TypeOK, Expected, Started, Responding, Retransmitted
    <2> QED BY <2>4, <2>5, <2>6
  <1> QED BY <1>1, InductiveInvariant, PTL

-----------------------------------------------------------------------------
(* The exchange implements KeyHandover.                                    *)

AgreedKey == IF s0[Alice] # None THEN s0[Alice] ELSE s0[Bob]
Receivers == {e \in Endpoint : rx[e]}
Senders == {e \in Endpoint : tx[e]}

\* The abstract state, seen from any endpoint e and its peer p.
LEMMA AbstractState ==
  ASSUME NEW e \in Endpoint, NEW p \in Endpoint, p = Peer(e)
  PROVE  /\ AgreedKey = s0[e] \/ AgreedKey = s0[p]
         /\ AgreedKey = None => s0[e] = None /\ s0[p] = None
         /\ (AgreedKey = s0[e] \/ AgreedKey = s0[p])'
         /\ (AgreedKey = None => s0[e] = None /\ s0[p] = None)'
         /\ Endpoint = {e, p} /\ p # e /\ e # None /\ p # None
         /\ Endpoint = {Alice, Bob}
  BY EndpointAssumption DEF AgreedKey, Endpoint, Peer

\* The abstract state is that of one key.
LEMMA OneKey ==
  ASSUME IInv, NEW e \in Endpoint, s0[e] # None
  PROVE  AgreedKey = s0[e]
  <1>1. PICK p \in Endpoint : p = Peer(e)
    BY Peers
  <1>2. TypeOK /\ Relations(e, p) /\ Relations(p, e)
    BY <1>1, BothSides
  <1>3. s0[p] # None => s0[p] = s0[e]
    BY <1>1, <1>2, AbstractState
    DEF Relations, Secrets, RoleOrder, Initiating, Responding, TypeOK
  <1> QED BY <1>1, <1>3, AbstractState

\* So it is after a step.
LEMMA OneKeyNext ==
  ASSUME IInv', NEW e \in Endpoint, s0'[e] # None
  PROVE  AgreedKey' = s0'[e]
  <1>1. PICK p \in Endpoint : p = Peer(e)
    BY Peers
  <1>2. TypeOK' /\ Relations(e, p)' /\ Relations(p, e)'
    BY <1>1, BothSides
  <1>3. s0'[p] # None => s0'[p] = s0'[e]
    BY <1>1, <1>2, AbstractState
    DEF Relations, Secrets, RoleOrder, Initiating, Responding, TypeOK
  <1> QED BY <1>1, <1>3, AbstractState

AbstractNext == [Handover!Next]_(Handover!vars)

\* A step that hands nothing out agrees on a key, or is none at all.
LEMMA OnlyAgrees ==
  ASSUME IInv, IInv', UNCHANGED <<rx, tx>>,
         \A f \in Endpoint : s0[f] # None => s0'[f] = s0[f]
  PROVE  AbstractNext
  <1>1. PICK e, p \in Endpoint : p = Peer(e)
    BY Peers, EndpointAssumption DEF Endpoint
  <1>2. Receivers' = Receivers /\ Senders' = Senders
    BY DEF Receivers, Senders
  <1>3. CASE AgreedKey # None
    <2>1. PICK f \in Endpoint : s0[f] = AgreedKey
      BY <1>1, AbstractState
    <2>2. AgreedKey' = s0'[f]
      BY <2>1, <1>3, OneKeyNext
    <2> QED BY <1>2, <1>3, <2>1, <2>2
        DEF AbstractNext, Handover!vars, AgreedKey, Receivers, Senders
  <1>4. CASE AgreedKey = None
    <2>1. AgreedKey' \in Endpoint \cup {None}
      BY DEF AgreedKey, IInv, TypeOK, Endpoint
    <2>2. CASE AgreedKey' = None
      BY <1>2, <1>4, <2>2 DEF AbstractNext, Handover!vars, AgreedKey, Receivers, Senders
    <2>3. CASE AgreedKey' \in Endpoint
      <3>1. Handover!Agree
        BY <1>2, <1>4, <2>3
        DEF Handover!Agree, Handover!Both, Endpoint, AgreedKey, Receivers, Senders
      <3> QED BY <3>1 DEF AbstractNext, Handover!Next
    <2> QED BY <2>1, <2>2, <2>3
  <1> QED BY <1>3, <1>4

\* The initiator gets the secrets to receive.
LEMMA Confirm1Refines ==
  ASSUME IInv, IInv', NEW e \in Endpoint, NEW i \in DOMAIN net[e],
         CommitConfirm1(e, i) \/ InitiatorConfirm1(e, i)
  PROVE  AbstractNext
  <1>1. PICK p \in Endpoint : p = Peer(e) /\ p # e /\ Peer(p) = e /\ Endpoint = {e, p}
    BY Peers
  <1>2. TypeOK /\ Relations(e, p) /\ Relations(p, e) /\ Relations(e, p)' /\ Relations(p, e)'
    BY <1>1, BothSides
  <1>3. /\ state[e] \in {"sendingCommit", "initiatorSendingDHPart2"}
        /\ state'[e] = "initiatorSendingConfirm2"
        /\ s0'[p] = s0[p] /\ rx'[e] = TRUE /\ rx'[p] = rx[p] /\ role' = role /\ tx' = tx
    BY <1>1, <1>2
    DEF CommitConfirm1, InitiatorConfirm1, SendConfirm2, Receives, Enter, TypeOK
  <1>4. role[e] = "initiator" /\ role[p] = "responder" /\ s0'[e] = e /\ s0[p] = e
    BY <1>1, <1>2, <1>3, EndpointAssumption, AbstractState
    DEF Relations, RoleOrder, Secrets, ConfirmOrder, Initiating, TypeOK
  <1>5. AgreedKey = e /\ AgreedKey' = e
    BY <1>1, <1>4, AbstractState, OneKey, OneKeyNext
  <1>6. ~rx[e] /\ ~rx[p]
    BY <1>2, <1>3, <1>4 DEF Relations, Secrets, ConfirmOrder
  <1>7. Receivers = {} /\ Receivers' = {e} /\ Senders' = Senders
    BY <1>1, <1>3, <1>6 DEF Receivers, Senders
  <1>8. Handover!InitiatorListens
    BY <1>1, <1>5, <1>7, AbstractState
    DEF Handover!InitiatorListens, Handover!Both, AgreedKey, Receivers, Senders
  <1> QED BY <1>8 DEF AbstractNext, Handover!Next

\* The responder gets its secrets, all at once unless the Conf2ACK fails.
LEMMA Confirm2Refines ==
  ASSUME IInv, IInv', NEW e \in Endpoint, NEW i \in DOMAIN net[e], ResponderConfirm2(e, i)
  PROVE  AbstractNext
  <1>1. PICK p \in Endpoint : p = Peer(e) /\ p # e /\ Peer(p) = e /\ Endpoint = {e, p}
    BY Peers
  <1>2. TypeOK /\ Relations(e, p) /\ Relations(p, e)
    BY <1>1, BothSides
  <1>3. /\ state[e] = "responderSendingConfirm1" /\ "Confirm2" \in InFlight(e)
        /\ rx'[e] = TRUE /\ rx'[p] = rx[p] /\ tx'[p] = tx[p] /\ tx'[e] \in {TRUE, tx[e]}
        /\ s0' = s0
    BY <1>1, <1>2 DEF ResponderConfirm2, Receives, TypeOK, InFlight
  <1>4. s0[e] = p /\ rx[p] /\ ~tx[p] /\ ~tx[e]
    BY <1>1, <1>2, <1>3
    DEF Relations, RoleOrder, Secrets, Provenance, ConfirmOrder, Responding
  <1>5. AgreedKey = p /\ AgreedKey' = p
    BY <1>1, <1>3, <1>4, AbstractState, OneKey, OneKeyNext
  <1>6. /\ Receivers \in {{p}, Endpoint} /\ Receivers' = Endpoint
        /\ Senders = {} /\ Senders' \in {{}, {e}}
    BY <1>1, <1>3, <1>4 DEF Receivers, Senders
  <1>7. Endpoint \ {p} = {e} /\ Endpoint = {Alice, Bob}
    BY <1>1, AbstractState
  <1>8. CASE Receivers = {p}
    <2>1. Handover!ResponderConfirms
      BY <1>5, <1>6, <1>7, <1>8
      DEF Handover!ResponderConfirms, Handover!Responders, Handover!Both,
          AgreedKey, Receivers, Senders
    <2> QED BY <2>1 DEF AbstractNext, Handover!Next
  <1>9. CASE Receivers = Endpoint /\ Senders' = {e}
    <2>1. Handover!ResponderTalks
      BY <1>5, <1>6, <1>7, <1>9
      DEF Handover!ResponderTalks, Handover!Responders, Handover!Both,
          AgreedKey, Receivers, Senders
    <2> QED BY <2>1 DEF AbstractNext, Handover!Next
  <1>10. CASE Receivers = Endpoint /\ Senders' = {}
    BY <1>5, <1>6, <1>10 DEF AbstractNext, Handover!vars, AgreedKey, Receivers, Senders
  <1> QED BY <1>6, <1>8, <1>9, <1>10

\* The initiator gets the secrets to send, the last of all.
LEMMA Conf2ACKRefines ==
  ASSUME IInv, IInv', NEW e \in Endpoint, NEW i \in DOMAIN net[e], InitiatorConf2ACK(e, i)
  PROVE  AbstractNext
  <1>1. PICK p \in Endpoint : p = Peer(e) /\ p # e /\ Peer(p) = e /\ Endpoint = {e, p}
    BY Peers
  <1>2. TypeOK /\ Relations(e, p) /\ Relations(p, e)
    BY <1>1, BothSides
  <1>3. /\ state[e] = "initiatorSendingConfirm2" /\ "Conf2ACK" \in InFlight(e)
        /\ tx'[e] = TRUE /\ tx'[p] = tx[p] /\ s0' = s0 /\ rx' = rx
    BY <1>1, <1>2 DEF InitiatorConf2ACK, Receives, TypeOK, InFlight
  <1>4. s0[e] = e /\ rx[e] /\ rx[p] /\ tx[p] /\ ~tx[e]
    BY <1>1, <1>2, <1>3
    DEF Relations, RoleOrder, Secrets, Provenance, Initiating
  <1>5. AgreedKey = e /\ AgreedKey' = e
    BY <1>1, <1>3, <1>4, AbstractState, OneKey, OneKeyNext
  <1>6. /\ Receivers = Endpoint /\ Receivers' = Endpoint
        /\ Senders = {p} /\ Senders' = Endpoint
    BY <1>1, <1>3, <1>4 DEF Receivers, Senders
  <1>7. Endpoint \ {e} = {p} /\ Endpoint = {Alice, Bob}
    BY <1>1, AbstractState
  <1>8. Handover!InitiatorTalks
    BY <1>5, <1>6, <1>7
    DEF Handover!InitiatorTalks, Handover!Responders, Handover!Both,
        AgreedKey, Receivers, Senders
  <1> QED BY <1>8 DEF AbstractNext, Handover!Next

\* Every step of the exchange is a step of KeyHandover or none.
LEMMA StepRefines == IInv /\ IInv' /\ [Next]_vars => AbstractNext
  <1> SUFFICES ASSUME IInv, IInv', [Next]_vars PROVE AbstractNext
    OBVIOUS
  <1>1. CASE UNCHANGED <<rx, tx, s0>>
    BY <1>1, OnlyAgrees
  <1>2. CASE UNCHANGED vars
    BY <1>1, <1>2 DEF vars
  <1>3. ASSUME NEW e \in Endpoint, Start(e) \/ Timer(e) PROVE AbstractNext
    BY <1>1, <1>3 DEF Start, Timer, Keys
  <1>4. ASSUME NEW e \in Endpoint, NEW i \in DOMAIN net[e], Discovery(e, i)
        PROVE  AbstractNext
    BY <1>1, <1>4 DEF Discovery, InitHello, InitHelloACK, WaitingHello, RepeatedHello,
                      GreetedHelloACK, Keys
  <1>5. ASSUME NEW e \in Endpoint, NEW i \in DOMAIN net[e], KeyAgreement(e, i)
        PROVE  AbstractNext
    <2>1. TypeOK /\ Relations(e, Peer(e))
      BY Peers, BothSides
    <2>2. CASE UNCHANGED Keys
      BY <1>1, <2>2 DEF Keys
    <2>3. CASE s0[e] = None /\ UNCHANGED <<rx, tx>> /\ \E k : s0' = [s0 EXCEPT ![e] = k]
      <3>1. \A f \in Endpoint : s0[f] # None => s0'[f] = s0[f]
        BY <2>1, <2>3 DEF TypeOK
      <3> QED BY <2>3, <3>1, OnlyAgrees
    <2>4. \/ UNCHANGED Keys \/ UNCHANGED <<rx, tx, s0>>
          \/ /\ UNCHANGED <<rx, tx>> /\ \E k : s0' = [s0 EXCEPT ![e] = k]
             /\ state[e] \in {"waitingForHelloAck", "sendingCommit", "responderSendingDHPart1"}
      BY <1>5 DEF KeyAgreement, GreetedCommit, ContendedCommit, TurnIntoResponder, CommitDHPart1,
                  RepeatedCommit, ResponderDHPart2, RepeatedDHPart1, RepeatedDHPart2, Receives
    <2>5. state[e] \in {"waitingForHelloAck", "sendingCommit", "responderSendingDHPart1"}
            => s0[e] = None
      BY <2>1 DEF Relations, Secrets, Initiating
    <2> QED BY <1>1, <2>2, <2>3, <2>4, <2>5
  <1>6. ASSUME NEW e \in Endpoint, NEW i \in DOMAIN net[e], Confirmation(e, i)
        PROVE  AbstractNext
    <2>1. CASE UNCHANGED Keys
      BY <1>1, <2>1 DEF Keys
    <2>2. \/ UNCHANGED Keys \/ CommitConfirm1(e, i) \/ InitiatorConfirm1(e, i)
          \/ ResponderConfirm2(e, i) \/ InitiatorConf2ACK(e, i)
      BY <1>6 DEF Confirmation, RepeatedConfirm1, RepeatedConfirm2
    <2> QED BY <2>1, <2>2, Confirm1Refines, Confirm2Refines, Conf2ACKRefines
  <1> QED BY <1>2, <1>3, <1>4, <1>5, <1>6 DEF Next, Receive

\* The ZRTP exchange implements the promised order of the keys.
THEOREM Refinement == Spec => ImplementsKeyHandover
  <1>1. Init => Handover!Init
    BY EndpointAssumption DEF Init, Handover!Init, Endpoint
  <1> QED BY <1>1, StepRefines, InductiveInvariant, PTL
      DEF Spec, ImplementsKeyHandover, Handover!Spec, AbstractNext
=============================================================================
