-------------------------------- MODULE Zrtp --------------------------------
(***************************************************************************)
(* The ZRTP key agreement of bzrtp (src/stateMachine.c): two endpoints     *)
(* that exchange Hello, Commit, the Diffie-Hellman parts and the Confirms  *)
(* over a network that loses, duplicates and reorders packets, until both  *)
(* hold the same SRTP secrets.                                             *)
(*                                                                         *)
(* A packet carries a sequence number; an endpoint drops every packet      *)
(* whose number is not above the last one it accepted (packetCheck).  Only *)
(* the order of the numbers matters, so net[e] is the sequence of the      *)
(* packets sent to e, in sending order, that e would still not drop as     *)
(* out of order: accepting the i-th one makes it and all before it stale.  *)
(* A packet that is never received is a lost one.  A packet of a type the  *)
(* state does not expect is rejected without a trace, and a copy of it may *)
(* come again: a rejection changes nothing.                                *)
(***************************************************************************)
EXTENDS Integers, Sequences

CONSTANTS
  Alice, Bob,   \* the two endpoints
  Low,          \* the endpoint whose Commit has the lower hvi or nonce
  None,         \* no secret yet
  Mode,         \* "DHM", or "Mult" for a channel after the first one
  HelloMax,     \* HELLO_MAX_RETRANSMISSION_NUMBER
  NonHelloMax,  \* NON_HELLO_MAX_RETRANSMISSION_NUMBER
  SendErrors,   \* whether the sendData callback may return an error
  Prompt,       \* whether a packet always arrives before the next timer
  MaxLoss       \* packets lost at sending when Prompt

Endpoint == {Alice, Bob}

ASSUME EndpointAssumption == Alice # Bob /\ Low \in Endpoint /\ None \notin Endpoint
ASSUME ModeAssumption == Mode \in {"DHM", "Mult"}
ASSUME BoundAssumption ==
  HelloMax \in Nat /\ NonHelloMax \in Nat /\ MaxLoss \in Nat
ASSUME NetworkAssumption == SendErrors \in BOOLEAN /\ Prompt \in BOOLEAN

Peer(e) == IF e = Alice THEN Bob ELSE Alice

VARIABLES
  state,   \* stateMachine: the state function of the channel, "off" for NULL
  timer,   \* timer.status
  fires,   \* timer.firingCount
  role,    \* role
  s0,      \* the key s0 of the channel, told apart by who is ZIDi in it
  rx,      \* secrets handed out FOR_RECEIVER
  tx,      \* secrets handed out FOR_SENDER
  net,     \* see above
  lost     \* packets lost at sending

vars == <<state, timer, fires, role, s0, rx, tx, net, lost>>

\* What each state function accepts: the message types it does not reject.
\* (sendingCommit rejects DHPart1 only in pre-shared mode, line 443 names Prsh
\* twice, but in multistream mode no peer sends one.)
Expected ==
  [off |-> {},
   init |-> {"Hello", "HelloACK"},
   waitingForHello |-> {"Hello"},
   waitingForHelloAck |-> {"Hello", "HelloACK", "Commit"},
   sendingCommit |-> {"Commit", IF Mode = "DHM" THEN "DHPart1" ELSE "Confirm1"},
   responderSendingDHPart1 |-> {"Commit", "DHPart2"},
   initiatorSendingDHPart2 |-> {"DHPart1", "Confirm1"},
   responderSendingConfirm1 |-> {"Confirm2", IF Mode = "DHM" THEN "DHPart2" ELSE "Commit"},
   initiatorSendingConfirm2 |-> {"Confirm1", "Conf2ACK"},
   secure |-> {"Confirm2"}]

\* What the timer of each state sends again; the other states have no timer.
Retransmitted ==
  [init |-> "Hello", waitingForHelloAck |-> "Hello", sendingCommit |-> "Commit",
   initiatorSendingDHPart2 |-> "DHPart2", initiatorSendingConfirm2 |-> "Confirm2"]

MaxFires(s) == IF Retransmitted[s] = "Hello" THEN HelloMax ELSE NonHelloMax

Message == {"Hello", "HelloACK", "Commit", "DHPart1", "DHPart2",
            "Confirm1", "Confirm2", "Conf2ACK"}

TypeOK ==
  /\ state \in [Endpoint -> DOMAIN Expected]
  /\ timer \in [Endpoint -> BOOLEAN]
  /\ \A e \in Endpoint : timer[e] => state[e] \in DOMAIN Retransmitted
  /\ fires \in [Endpoint -> Nat]
  /\ role \in [Endpoint -> {"initiator", "responder"}]
  /\ s0 \in [Endpoint -> Endpoint \cup {None}]
  /\ rx \in [Endpoint -> BOOLEAN]
  /\ tx \in [Endpoint -> BOOLEAN]
  /\ net \in [Endpoint -> Seq(Message)]
  /\ lost \in 0..MaxLoss

Init ==
  /\ state = [e \in Endpoint |-> "off"]
  /\ timer = [e \in Endpoint |-> FALSE]
  /\ fires = [e \in Endpoint |-> 0]
  /\ role = [e \in Endpoint |-> "initiator"]
  /\ s0 = [e \in Endpoint |-> None]
  /\ rx = [e \in Endpoint |-> FALSE]
  /\ tx = [e \in Endpoint |-> FALSE]
  /\ net = [e \in Endpoint |-> <<>>]
  /\ lost = 0

-----------------------------------------------------------------------------
(* Packets, timers and keys                                                *)

\* Packets that do not reach the network, or a peer that is off.
Losses(ts, e) ==
  {sent \in {ts, <<>>} \cup {<<ts[k]>> : k \in DOMAIN ts} :
     \/ sent = ts
     \/ state[Peer(e)] = "off"
     \/ lost + Len(ts) - Len(sent) <= MaxLoss}

\* e keeps the packets "kept" receivable and sends the packets "ts".
Exchange(e, kept, ts) ==
  \E sent \in Losses(ts, e) :
    /\ net' = [net EXCEPT ![e] = kept, ![Peer(e)] = @ \o sent]
    /\ lost' = IF state[Peer(e)] = "off" THEN lost ELSE lost + Len(ts) - Len(sent)

Receives(e, i, s, t) == state[e] = s /\ i \in DOMAIN net[e] /\ net[e][i] = t

Later(e, i) == SubSeq(net[e], i + 1, Len(net[e]))

Enter(e, s) == state' = [state EXCEPT ![e] = s]

\* Mutant: the count of the firings goes on in the next state.
ArmKeepsCount(e) == timer' = [timer EXCEPT ![e] = TRUE] /\ UNCHANGED fires

Arm(e) == timer' = [timer EXCEPT ![e] = TRUE] /\ fires' = [fires EXCEPT ![e] = 0]

\* Mutant: a state without a timer leaves the old one on.
DisarmNot(e) == UNCHANGED <<timer, fires>>

Disarm(e) == timer' = [timer EXCEPT ![e] = FALSE] /\ UNCHANGED fires

\* The initiator as e sees it: the ZIDi of the KDF context.
SeenInitiator(e) == IF role[e] = "responder" THEN Peer(e) ELSE e

Keys == <<role, s0, rx, tx>>
Timers == <<timer, fires>>

-----------------------------------------------------------------------------
(* Discovery                                                               *)

Start(e) ==
  /\ state[e] = "off"
  /\ Enter(e, "init") /\ Arm(e)
  /\ UNCHANGED <<Keys, net, lost>>

\* The peer may have started late and lost all Hellos: begin again.
InitHello(e, i) ==
  /\ Receives(e, i, "init", "Hello")
  /\ Exchange(e, Later(e, i), <<"HelloACK">>)
  /\ Enter(e, "waitingForHelloAck") /\ Arm(e)
  /\ UNCHANGED Keys

InitHelloACK(e, i) ==
  /\ Receives(e, i, "init", "HelloACK")
  /\ Exchange(e, Later(e, i), <<>>)
  /\ Enter(e, "waitingForHello") /\ Disarm(e)
  /\ UNCHANGED Keys

WaitingHello(e, i) ==
  /\ Receives(e, i, "waitingForHello", "Hello")
  /\ Exchange(e, Later(e, i), <<"HelloACK", "Commit">>)
  /\ Enter(e, "sendingCommit") /\ Arm(e)
  /\ UNCHANGED Keys

RepeatedHello(e, i) ==
  /\ Receives(e, i, "waitingForHelloAck", "Hello")
  /\ Exchange(e, Later(e, i), <<"HelloACK">>)
  /\ UNCHANGED <<state, Timers, Keys>>

GreetedHelloACK(e, i) ==
  /\ Receives(e, i, "waitingForHelloAck", "HelloACK")
  /\ Exchange(e, Later(e, i), <<"Commit">>)
  /\ Enter(e, "sendingCommit") /\ Arm(e)
  /\ UNCHANGED Keys

-----------------------------------------------------------------------------
(* Key agreement                                                           *)

\* Mutant: the role is not changed with the state.
TurnIntoResponderAsInitiator(e, i) ==
  /\ Disarm(e)
  /\ \/ /\ Mode = "DHM"
        /\ Exchange(e, Later(e, i), <<"DHPart1">>)
        /\ Enter(e, "responderSendingDHPart1")
        /\ UNCHANGED s0
     \/ /\ Mode = "Mult"
        /\ Exchange(e, Later(e, i), <<"Confirm1">>)
        /\ Enter(e, "responderSendingConfirm1")
        /\ s0' = [s0 EXCEPT ![e] = SeenInitiator(e)]
  /\ UNCHANGED <<role, rx, tx>>

\* bzrtp_turnIntoResponder and the INIT event of the state it enters.
TurnIntoResponder(e, i) ==
  /\ role' = [role EXCEPT ![e] = "responder"]
  /\ Disarm(e)
  /\ \/ /\ Mode = "DHM"
        /\ Exchange(e, Later(e, i), <<"DHPart1">>)
        /\ Enter(e, "responderSendingDHPart1")
        /\ UNCHANGED s0
     \/ /\ Mode = "Mult"
        /\ Exchange(e, Later(e, i), <<"Confirm1">>)
        /\ Enter(e, "responderSendingConfirm1")
        /\ s0' = [s0 EXCEPT ![e] = Peer(e)]
  /\ UNCHANGED <<rx, tx>>

GreetedCommit(e, i) ==
  /\ Receives(e, i, "waitingForHelloAck", "Commit")
  /\ TurnIntoResponder(e, i)

\* Mutant: unequal values make both sides responders.
BothYield(e) == TRUE

\* Commit contention: the lower hvi or nonce becomes the responder.
Yields(e) == e = Low

ContendedCommit(e, i) ==
  /\ Receives(e, i, "sendingCommit", "Commit")
  /\ \/ Yields(e) /\ TurnIntoResponder(e, i)
     \/ /\ ~Yields(e)
        /\ Exchange(e, Later(e, i), <<>>)
        /\ UNCHANGED <<state, Timers, Keys>>

CommitDHPart1(e, i) ==
  /\ Mode = "DHM" /\ Receives(e, i, "sendingCommit", "DHPart1")
  /\ s0' = [s0 EXCEPT ![e] = SeenInitiator(e)]
  /\ Exchange(e, Later(e, i), <<"DHPart2">>)
  /\ Enter(e, "initiatorSendingDHPart2") /\ Arm(e)
  /\ UNCHANGED <<role, rx, tx>>

RepeatedCommit(e, i) ==
  /\ \/ Receives(e, i, "responderSendingDHPart1", "Commit")
        /\ Exchange(e, Later(e, i), <<"DHPart1">>)
     \/ Mode = "Mult" /\ Receives(e, i, "responderSendingConfirm1", "Commit")
        /\ Exchange(e, Later(e, i), <<"Confirm1">>)
  /\ UNCHANGED <<state, Timers, Keys>>

ResponderDHPart2(e, i) ==
  /\ Receives(e, i, "responderSendingDHPart1", "DHPart2")
  /\ s0' = [s0 EXCEPT ![e] = SeenInitiator(e)]
  /\ Exchange(e, Later(e, i), <<"Confirm1">>)
  /\ Enter(e, "responderSendingConfirm1") /\ Disarm(e)
  /\ UNCHANGED <<role, rx, tx>>

RepeatedDHPart1(e, i) ==
  /\ Receives(e, i, "initiatorSendingDHPart2", "DHPart1")
  /\ Exchange(e, Later(e, i), <<>>)
  /\ UNCHANGED <<state, Timers, Keys>>

RepeatedDHPart2(e, i) ==
  /\ Mode = "DHM" /\ Receives(e, i, "responderSendingConfirm1", "DHPart2")
  /\ Exchange(e, Later(e, i), <<"Confirm1">>)
  /\ UNCHANGED <<state, Timers, Keys>>

-----------------------------------------------------------------------------
(* Confirmation                                                            *)

\* Mutant: the receiver secrets wait for the Conf2ACK.
SendConfirm2Deaf(e, i) ==
  /\ Enter(e, "initiatorSendingConfirm2")
  /\ Exchange(e, Later(e, i), <<"Confirm2">>) /\ Arm(e)
  /\ UNCHANGED <<role, rx, tx>>

\* Mutant: both secrets are handed out with the Confirm2.
SendConfirm2Eager(e, i) ==
  /\ rx' = [rx EXCEPT ![e] = TRUE] /\ tx' = [tx EXCEPT ![e] = TRUE]
  /\ Enter(e, "initiatorSendingConfirm2")
  /\ Exchange(e, Later(e, i), <<"Confirm2">>) /\ Arm(e)
  /\ UNCHANGED role

\* The INIT event of initiatorSendingConfirm2.  When the first Confirm2
\* cannot be sent it returns before the timer is set.
SendConfirm2(e, i) ==
  /\ rx' = [rx EXCEPT ![e] = TRUE]
  /\ Enter(e, "initiatorSendingConfirm2")
  /\ \/ Exchange(e, Later(e, i), <<"Confirm2">>) /\ Arm(e)
     \/ SendErrors /\ Exchange(e, Later(e, i), <<>>) /\ Disarm(e)
  /\ UNCHANGED <<role, tx>>

CommitConfirm1(e, i) ==
  /\ Mode = "Mult" /\ Receives(e, i, "sendingCommit", "Confirm1")
  /\ s0' = [s0 EXCEPT ![e] = SeenInitiator(e)]
  /\ SendConfirm2(e, i)

InitiatorConfirm1(e, i) ==
  /\ Receives(e, i, "initiatorSendingDHPart2", "Confirm1")
  /\ SendConfirm2(e, i)
  /\ UNCHANGED s0

RepeatedConfirm1(e, i) ==
  /\ Receives(e, i, "initiatorSendingConfirm2", "Confirm1")
  /\ Exchange(e, Later(e, i), <<>>)
  /\ UNCHANGED <<state, Timers, Keys>>

\* When the Conf2ACK cannot be sent the responder stays where it is, its
\* receiver secrets handed out, and treats the next Confirm2 as the first.
ResponderConfirm2(e, i) ==
  /\ Receives(e, i, "responderSendingConfirm1", "Confirm2")
  /\ rx' = [rx EXCEPT ![e] = TRUE]
  /\ \/ /\ Exchange(e, Later(e, i), <<"Conf2ACK">>)
        /\ tx' = [tx EXCEPT ![e] = TRUE]
        /\ Enter(e, "secure") /\ Disarm(e)
     \/ /\ SendErrors
        /\ Exchange(e, Later(e, i), <<>>)
        /\ UNCHANGED <<tx, state, Timers>>
  /\ UNCHANGED <<role, s0>>

\* The sequence number of a Conf2ACK is not recorded.
InitiatorConf2ACK(e, i) ==
  /\ Receives(e, i, "initiatorSendingConfirm2", "Conf2ACK")
  /\ tx' = [tx EXCEPT ![e] = TRUE]
  /\ Enter(e, "secure") /\ Disarm(e)
  /\ UNCHANGED <<role, s0, rx, net, lost>>

RepeatedConfirm2(e, i) ==
  /\ Receives(e, i, "secure", "Confirm2")
  /\ Exchange(e, Later(e, i), <<"Conf2ACK">>)
  /\ UNCHANGED <<state, Timers, Keys>>

-----------------------------------------------------------------------------
(* Timers                                                                  *)

Pending == \E e \in Endpoint : \E i \in DOMAIN net[e] :
              net[e][i] \in Expected[state[e]]

\* bzrtp_iterate when the timer is due: the last firing still sends.
Timer(e) ==
  /\ timer[e] /\ state[e] \in DOMAIN Retransmitted
  /\ Prompt => ~Pending
  /\ fires' = [fires EXCEPT ![e] = @ + 1]
  /\ timer' = [timer EXCEPT ![e] = fires[e] < MaxFires(state[e])]
  /\ Exchange(e, net[e], <<Retransmitted[state[e]]>>)
  /\ UNCHANGED <<state, Keys>>

Discovery(e, i) ==
  \/ InitHello(e, i) \/ InitHelloACK(e, i) \/ WaitingHello(e, i)
  \/ RepeatedHello(e, i) \/ GreetedHelloACK(e, i)

KeyAgreement(e, i) ==
  \/ GreetedCommit(e, i) \/ ContendedCommit(e, i) \/ CommitDHPart1(e, i)
  \/ RepeatedCommit(e, i) \/ ResponderDHPart2(e, i)
  \/ RepeatedDHPart1(e, i) \/ RepeatedDHPart2(e, i)

Confirmation(e, i) ==
  \/ CommitConfirm1(e, i) \/ InitiatorConfirm1(e, i) \/ RepeatedConfirm1(e, i)
  \/ ResponderConfirm2(e, i) \/ InitiatorConf2ACK(e, i) \/ RepeatedConfirm2(e, i)

Receive(e) == \E i \in DOMAIN net[e] :
  Discovery(e, i) \/ KeyAgreement(e, i) \/ Confirmation(e, i)

Next == \E e \in Endpoint : Start(e) \/ Timer(e) \/ Receive(e)

Spec == Init /\ [][Next]_vars

\* Both sides are started and ticked, and a packet in flight that would be
\* accepted is received unless a later one overtakes it.
Fairness == \A e \in Endpoint :
  WF_vars(Start(e)) /\ WF_vars(Timer(e)) /\ WF_vars(Receive(e))

FairSpec == Spec /\ Fairness

-----------------------------------------------------------------------------
(* Properties                                                              *)

\* Two endpoints that both derived s0 derived the same one: they agree on
\* who the initiator is, whatever Commits crossed (contention, lines
\* 580-605, and turnIntoResponder).
KeysAgree ==
  (\A e \in Endpoint : s0[e] # None) => s0[Alice] = s0[Bob]

\* Nobody gets the secrets to send SRTP before the peer has those to
\* receive it ("as we may receive a srtp packet in response to our
\* conf2ACK", line 1121; "responder may directly send SRTP", line 1214).
SenderHasReceiver ==
  \A e \in Endpoint : tx[e] => rx[Peer(e)] /\ s0[Peer(e)] = s0[e]

Started == \A e \in Endpoint : state[e] # "off"
Secure == \A e \in Endpoint : state[e] = "secure"

\* A side whose turn it is to send again: its timer runs, or has ended with
\* MAX_RETRANSMISSION_NUMBER firings, or was never set (SendConfirm2).
Sends(e) ==
  /\ state[e] \in DOMAIN Retransmitted
  /\ \/ timer[e] \/ fires[e] > MaxFires(state[e])
     \/ SendErrors /\ state[e] = "initiatorSendingConfirm2"

\* "initiator only retransmit packets" (lines 809, 1167): in no state of
\* the exchange do both sides wait for the other one to send again.
SomebodySends ==
  Started /\ ~Secure => \E e \in Endpoint : Sends(e)

\* A side that is secure was confirmed by a peer that holds its secrets, and
\* an initiator is never the first to be secure.
ResponderFirst ==
  \A e \in Endpoint : state[e] = "secure" /\ role[e] = "initiator"
                        => state[Peer(e)] = "secure" /\ role[Peer(e)] = "responder"

\* Up to MaxLoss lost packets, any of them, are made good by the
\* retransmissions: both sides become secure.
EventuallySecure == <>Secure

\* The exchange hands the keys over as KeyHandover says.
Handover == INSTANCE KeyHandover WITH
  key <- IF s0[Alice] # None THEN s0[Alice] ELSE s0[Bob],
  rx <- {e \in Endpoint : rx[e]},
  tx <- {e \in Endpoint : tx[e]}
ImplementsKeyHandover == Handover!Spec
=============================================================================
