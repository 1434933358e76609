------------------------------ MODULE OtaProofs ------------------------------
(***************************************************************************)
(* Machine-checked proofs about Ota, for any number of devices and for any *)
(* bounds.                                                                 *)
(*                                                                         *)
(* IInv is inductive.  Most actions are quiet: they neither start nor end  *)
(* an upgrade, touch no time-out of it and drop none of its messages, and  *)
(* a quiet step keeps everything but the types for one reason (QuietStep). *)
(* The others start an upgrade, drive it or end it, and are treated one by *)
(* one.  The question of the automatic update is last: every step leaves   *)
(* it where it is or hands it on.                                          *)
(***************************************************************************)
EXTENDS Ota, SequenceTheorems, WellFoundedInduction, TLAPS

-----------------------------------------------------------------------------
(* Objects *)

\* A non-empty set of numbers has a minimum, and Min is it.
LEMMA MinIn == ASSUME NEW S, S \subseteq Nat, S # {} PROVE Min(S) \in S
<1> DEFINE R == {ss \in Nat \X Nat : ss[1] < ss[2]}
<1>1. IsWellFoundedOn(R, Nat)
  BY NatLessThanWellFounded, Zenon DEF OpToRel
<1>2. PICK x \in S : \A y \in S : ~ (<<y, x>> \in R)
  <2> HIDE DEF R
  <2> QED BY <1>1, WFMin
<1>3. \A y \in S : x <= y
  <2> SUFFICES ASSUME NEW y \in S PROVE x <= y
    OBVIOUS
  <2>1. ~ (<<y, x>> \in Nat \X Nat /\ y < x)
    BY <1>2
  <2> QED BY <2>1
<1> QED BY <1>3 DEF Min

\* getOTADevice returns an object or null, and null is no object.
LEMMA CurrentType ==
  ASSUME TypeOK, NEW d \in Dev
  PROVE  /\ Current(d) # NoObj => Current(d) \in Obj
         /\ Current(d) = NoObj <=> list[d] = 0
         /\ NoObj \notin Obj
<1>1. list[d] = 0 \/ list[d] \in 1..MaxGen
  BY BoundsAssumption DEF TypeOK, TypeOta
<1>2. NoObj \notin Obj
  BY DEF NoObj, Obj, Dev
<1>3. list[d] # 0 => <<d, list[d]>> \in Obj
  BY <1>1 DEF Obj
<1> QED BY <1>2, <1>3 DEF Current

\* The first candidate of a set of candidates is an object.
LEMMA FirstOfType ==
  ASSUME TypeOK, NEW S, S \subseteq Entries
  PROVE  FirstOf(S) # NoObj => FirstOf(S) \in Obj
<1>1. \A d \in Entries : d \in Dev /\ d \in Nat /\ Entry(d) \in Obj
  <2>1. autoMap \in [Dev -> 0..MaxGen]
    BY DEF TypeOK, TypeAuto
  <2>2. \A d \in Dev : d \in Nat /\ (autoMap[d] # 0 => autoMap[d] \in 1..MaxGen)
    BY <2>1, BoundsAssumption DEF Dev
  <2> QED BY <2>2 DEF Entries, Entry, Obj
<1>2. S # {} => Min(S) \in S
  BY <1>1, MinIn
<1> QED BY <1>1, <1>2 DEF FirstOf

\* getNextAutoUpdateDevice returns an object or null.
LEMMA NextDeviceType ==
  ASSUME TypeOK, NEW o
  PROVE  NextAutoUpdateDevice(o) # NoObj => NextAutoUpdateDevice(o) \in Obj
<1>1. \A d : After(d) \subseteq Entries
  BY DEF After
<1> QED BY <1>1, FirstOfType, Zenon DEF NextAutoUpdateDevice

-----------------------------------------------------------------------------
(* The queue *)

InQueue(s, w, o) == \E i \in 1..Len(s) : s[i].what = w /\ s[i].obj = o

Ends == {"UPGRADE_DONE", "UPGRADE_FAIL"}

\* A message that is posted goes behind the others.
LEMMA Posted ==
  ASSUME NEW s \in Seq(Message), NEW m \in Message
  PROVE  /\ Append(s, m) \in Seq(Message)
         /\ InQueue(Append(s, m), m.what, m.obj)
         /\ \A w, o : InQueue(s, w, o) => InQueue(Append(s, m), w, o)
<1>1. /\ Append(s, m) \in Seq(Message)
      /\ Len(Append(s, m)) = Len(s) + 1 /\ Len(s) \in Nat
      /\ \A i \in 1..Len(s) : Append(s, m)[i] = s[i]
      /\ Append(s, m)[Len(s) + 1] = m
  BY AppendProperties, LenProperties
<1> QED BY <1>1 DEF InQueue

\* The message that is served is one of the queue; the others stay.
LEMMA TakenOut ==
  ASSUME NEW s \in Seq(Message), s # << >>
  PROVE  /\ Head(s) \in Message /\ Tail(s) \in Seq(Message)
         /\ \A w, o : InQueue(s, w, o) /\ (Head(s).what # w \/ Head(s).obj # o)
              => InQueue(Tail(s), w, o)
<1>1. /\ Head(s) \in Message /\ Head(s) = s[1] /\ Tail(s) \in Seq(Message)
      /\ Len(Tail(s)) = Len(s) - 1 /\ Len(s) \in Nat
      /\ \A i \in 1..Len(Tail(s)) : Tail(s)[i] = s[i + 1]
  BY HeadTailProperties, LenProperties, ElementOfSeq
<1>2. SUFFICES ASSUME NEW w, NEW o, NEW i \in 1..Len(s), s[i].what = w, s[i].obj = o,
                      Head(s).what # w \/ Head(s).obj # o
               PROVE  InQueue(Tail(s), w, o)
  BY <1>1 DEF InQueue
<1>3. i # 1 /\ i - 1 \in 1..Len(Tail(s)) /\ Tail(s)[i - 1] = s[i]
  BY <1>1, <1>2
<1> QED BY <1>2, <1>3 DEF InQueue

\* What a message of each kind carries.
LEMMA Carries ==
  ASSUME NEW m \in Message
  PROVE  /\ m.what \in QueuedUuid => m.obj[1] \in Dev /\ m.arg \in Reports
         /\ m.what \in QueuedObj => m.obj \in Obj
         /\ m.what \in QueuedUuid \cup QueuedObj \cup {"AUTO_UPDATE_PREPARE"}
  BY DEF Message, QueuedUuid, QueuedObj

\* The messages the program posts.
LEMMA Posts ==
  /\ \A d \in Dev, n \in Reports, w \in {"STATE_CHANGE"} : Msg(w, Uuid(d), n) \in Message
  /\ \A d \in Dev, w \in QueuedUuid : Msg(w, Uuid(d), 0) \in Message
  /\ \A o \in Obj, w \in QueuedObj : Msg(w, o, 0) \in Message
  /\ Msg("AUTO_UPDATE_PREPARE", NoObj, 0) \in Message
  BY DEF Msg, Message, QueuedUuid, QueuedObj, Uuid, Reports

-----------------------------------------------------------------------------
(* The initial state and the quiet steps *)

\* At first there is no device and nothing is queued.
LEMMA InitIInv == Init => IInv
<1> SUFFICES ASSUME Init PROVE IInv
  OBVIOUS
<1>1. TypeOta
  BY BoundsAssumption DEF Init, TypeOta, Fresh, Fields, OTAState, Reports, NoInfo
<1>2. TypeAuto /\ TypeMsgs
  <2>1. autoMap \in [Dev -> 0..MaxGen]
    BY BoundsAssumption DEF Init
  <2>2. TypeAuto
    BY <2>1, Zenon DEF Init, TypeAuto
  <2>3. q \in Seq(Message) /\ stateTimer \in [Obj \cup {NoObj} -> Nat]
    BY DEF Init
  <2> QED BY <2>2, <2>3 DEF Init, TypeMsgs
<1>3. TypeCalls /\ looper.at = "idle"
  BY DEF Init, TypeCalls, Idle
<1>4. TypeUi
  BY BoundsAssumption DEF Init, TypeUi, Closed
<1>5. TypeRest
  <2>1. spent \in [{"adds", "reports", "opens", "logins"} -> Nat]
    BY DEF Init
  <2> QED BY <2>1, Zenon DEF Init, TypeRest
<1> QED
  BY <1>1, <1>2, <1>3, <1>4, <1>5
  DEF IInv, Init, Fresh, TypeOK, UpgradeGuarded, TimeoutHasState, StartingHasState,
     Starting, Looper, ProgressMeansUpgrading, NoInfo

\* What a step leaves alone keeps its type.
LEMMA TypesKept ==
  ASSUME TypeOK
  PROVE  /\ UNCHANGED ota => TypeOta'
         /\ UNCHANGED <<autoMap, autoState, autoStart>> => TypeAuto'
         /\ UNCHANGED <<q, stateTimer, checkTimer>> => TypeMsgs'
         /\ UNCHANGED calls => TypeCalls'
         /\ UNCHANGED ui => TypeUi'
         /\ UNCHANGED <<crashed, ignored, spent>> => TypeRest'
  BY DEF TypeOK, ota, calls, ui, TypeOta, TypeAuto, TypeMsgs, TypeCalls, TypeUi, TypeRest

\* The bookkeeping of the bounds keeps its type.
LEMMA SpendType ==
  ASSUME TypeOK, NEW k \in {"adds", "reports", "opens", "logins"}, NEW m, Spend(k, m),
         UNCHANGED <<crashed, ignored>>
  PROVE  TypeRest'
  BY DEF TypeOK, TypeRest, Spend

\* The fields f of the objects say the same of every upgrade as those of now.
QuietFields(f) ==
  \A x \in Obj :
    /\ f[x].doUpgrade = dev[x].doUpgrade /\ f[x].ustate = dev[x].ustate
    /\ f[x].state \in {"VERIFY_DONE", "UPGRADE"} => f[x].state = dev[x].state

\* The looper is as busy with x after the step as before.
LooperKept(x) ==
  /\ Starting(x)' <=> Starting(x)
  /\ Looper("beginning", x)' <=> Looper("beginning", x)
  /\ Looper("timingOut", x)' <=> Looper("timingOut", x)

\* The step changes nothing an upgrade depends on.
Quiet ==
  /\ QuietFields(dev')
  /\ \A x \in Obj :
       /\ stateTimer'[x] = stateTimer[x]
       /\ LooperKept(x)
       /\ \A w \in Ends : InQueue(q, w, x) => InQueue(q', w, x)
  /\ ignored' = ignored
  /\ crashed => crashed'

\* A quiet step keeps every part of IInv but the types.
LEMMA QuietStep == ASSUME IInv, TypeOK', Quiet PROVE IInv'
<1>1. UpgradeGuarded'
  BY DEF IInv, Quiet, QuietFields, LooperKept, UpgradeGuarded, Queued, InQueue, Ends, TypeOK, TypeRest
<1>2. TimeoutHasState' /\ StartingHasState' /\ ProgressMeansUpgrading'
  BY DEF IInv, Quiet, QuietFields, LooperKept, TimeoutHasState, StartingHasState,
         ProgressMeansUpgrading
<1> QED BY <1>1, <1>2 DEF IInv

\* What a check does to the fields of the objects, when it starts and when it ends.
LEMMA CheckFields ==
  ASSUME TypeOK, NEW o \in Obj
  PROVE  /\ StartCheck(o, dev) \in [Obj -> Fields]
         /\ QuietFields(StartCheck(o, dev))
         /\ QuietFields(dev)
  BY DEF TypeOK, TypeOta, StartCheck, Fields, OTAState, QuietFields

LEMMA EndCheckFields ==
  ASSUME TypeOK, NEW o \in Obj, NEW found \in BOOLEAN, EndCheck(o, found)
  PROVE  /\ dev' \in [Obj -> Fields] /\ QuietFields(dev') /\ dialogs' \in [Dev -> Nat]
         /\ crashed' \in BOOLEAN /\ (crashed => crashed')
<1>1. dev \in [Obj -> Fields] /\ dialogs \in [Dev -> Nat] /\ crashed \in BOOLEAN
  BY DEF TypeOK, TypeOta, TypeUi, TypeRest
<1>2. dev' \in [Obj -> Fields] /\ QuietFields(dev')
  <2> DEFINE ready == IF found THEN dev[o].state ELSE "READY"
             ended == [dev[o] EXCEPT !.info = found, !.state = ready]
  <2>1. dev' = [dev EXCEPT ![o] = ended]
    <3>1. dev' = [dev EXCEPT ![o].info = found, ![o].state = IF found THEN @ ELSE "READY"]
      BY Zenon DEF EndCheck
    <3> QED BY <1>1, <3>1
  <2>2. /\ ended \in Fields
        /\ ended.doUpgrade = dev[o].doUpgrade /\ ended.ustate = dev[o].ustate
        /\ ended.state \in {"VERIFY_DONE", "UPGRADE"} => ended.state = dev[o].state
    BY <1>1 DEF Fields, OTAState
  <2> HIDE DEF ended
  <2>3. \A x \in Obj : dev'[x] = IF x = o THEN ended ELSE dev[x]
    BY <1>1, <2>1
  <2>4. dev' \in [Obj -> Fields] BY <1>1, <2>1, <2>2
  <2>5. QuietFields(dev') BY <2>2, <2>3 DEF QuietFields
  <2> QED BY <2>4, <2>5
<1>3. dialogs' \in [Dev -> Nat]
  BY <1>1 DEF EndCheck, Obj
<1>4. crashed' \in BOOLEAN /\ (crashed => crashed')
  BY <1>1, Zenon DEF EndCheck
<1> QED BY <1>2, <1>3, <1>4

\* addDevice and UpdateRoomHubData are quiet.
LEMMA AddDeviceIInv == ASSUME IInv, NEW d \in Dev, AddDevice(d) PROVE IInv'
<1> DEFINE o == <<d, list'[d]>>
<1>0. TypeOK /\ TypeOta /\ TypeCalls
  BY DEF IInv, TypeOK
<1>1. /\ list' \in [Dev -> 0..MaxGen] /\ made' \in [Dev -> 0..MaxGen] /\ o \in Obj
  <2>1. CASE list[d] = 0
    <3>1. /\ list' = [list EXCEPT ![d] = made[d] + 1] /\ made[d] < MaxGen
          /\ made' = [made EXCEPT ![d] = made[d] + 1]
      BY <2>1 DEF AddDevice
    <3> QED BY <1>0, <3>1, BoundsAssumption DEF TypeOta, Obj
  <2>2. CASE list[d] # 0
    BY <1>0, <2>2, BoundsAssumption DEF AddDevice, TypeOta, Obj
  <2> QED BY <2>1, <2>2
<1>2. \/ dev' = StartCheck(o, dev) /\ notifier' = [at |-> "checking", obj |-> o]
      \/ UNCHANGED <<dev, notifier>>
  BY DEF AddDevice
<1>3. TypeOta' /\ TypeCalls'
  <2>1. TypeOta'
    BY <1>0, <1>1, <1>2, CheckFields DEF TypeOta
  <2>2. looper' = looper
    BY DEF AddDevice
  <2> QED BY <1>0, <1>1, <1>2, <2>1, <2>2 DEF TypeCalls
<1>4. TypeOK'
  BY <1>0, <1>3, TypesKept, SpendType DEF AddDevice, TypeOK, auto, msgs, ui
<1>5. QuietFields(dev')
  BY <1>0, <1>1, <1>2, CheckFields, Zenon
<1>6. Quiet
  BY <1>5 DEF AddDevice, Quiet, LooperKept, Starting, Looper, msgs
<1> QED BY <1>4, <1>6, QuietStep

\* The rest of RoomHubManager's notifications are quiet.
LEMMA NotifierIInv ==
  ASSUME IInv, NotifierChecked \/ RemoveDevice \/ \E d \in Dev : RemoveCheck(d)
  PROVE  IInv'
<1>0. /\ TypeOK /\ TypeOta /\ TypeMsgs /\ TypeCalls /\ TypeUi /\ TypeRest
      /\ \A o \in Obj : o[1] \in Dev
  BY DEF IInv, TypeOK, Obj
<1>1. CASE NotifierChecked
  <2>1. notifier.obj \in Obj
    BY <1>0, <1>1 DEF NotifierChecked, TypeCalls, Idle
  <2>2. PICK found \in BOOLEAN : EndCheck(notifier.obj, found)
    BY <1>1 DEF NotifierChecked
  <2>3. /\ dev' \in [Obj -> Fields] /\ QuietFields(dev') /\ dialogs' \in [Dev -> Nat]
        /\ crashed' \in BOOLEAN /\ (crashed => crashed')
    BY <1>0, <2>1, <2>2, EndCheckFields
  <2>4. TypeMsgs' /\ TypeCalls'
    BY <1>0, <1>1, <2>1 DEF NotifierChecked, TypeMsgs, TypeCalls
  <2>5. TypeOta' /\ TypeUi' /\ TypeRest'
    BY <1>0, <1>1, <2>3 DEF NotifierChecked, TypeOta, TypeUi, TypeRest
  <2>6. TypeOK'
    BY <1>0, <1>1, <2>4, <2>5, TypesKept DEF NotifierChecked, TypeOK, auto
  <2>7. Quiet
    BY <1>1, <2>3 DEF NotifierChecked, Quiet, LooperKept, Starting, Looper
  <2> QED BY <2>6, <2>7, QuietStep
<1>2. CASE RemoveDevice
  <2>1. notifier.obj[1] \in Dev
    BY <1>0, <1>2 DEF RemoveDevice, TypeCalls, Idle
  <2>2. TypeOta' /\ TypeCalls'
    BY <1>0, <1>2, <2>1, BoundsAssumption DEF RemoveDevice, TypeOta, TypeCalls
  <2>3. TypeOK'
    BY <1>0, <1>2, <2>2, TypesKept DEF RemoveDevice, TypeOK, auto, msgs
  <2>4. Quiet
    BY <1>2 DEF RemoveDevice, Quiet, QuietFields, LooperKept, Starting, Looper, msgs
  <2> QED BY <2>3, <2>4, QuietStep
<1>3. CASE \E d \in Dev : RemoveCheck(d)
  <2>1. PICK d \in Dev : RemoveCheck(d)
    BY <1>3
  <2>2. Current(d) \in Obj
    BY <1>0, <2>1, CurrentType DEF RemoveCheck
  <2>3. TypeCalls'
    BY <1>0, <2>1, <2>2 DEF RemoveCheck, TypeCalls
  <2>4. TypeOK'
    BY <1>0, <2>1, <2>3, TypesKept DEF RemoveCheck, TypeOK, auto, msgs
  <2>5. Quiet
    BY <2>1 DEF RemoveCheck, Quiet, QuietFields, LooperKept, Starting, Looper, ota, msgs
  <2> QED BY <2>4, <2>5, QuietStep
<1> QED BY <1>1, <1>2, <1>3

\* A step that posts one message, and touches no other variable an upgrade depends on, is
\* quiet.
LEMMA QuietPost ==
  ASSUME TypeOK, NEW m \in Message, Post(m), UNCHANGED <<dev, stateTimer, ignored, crashed>>,
         UNCHANGED looper
  PROVE  Quiet /\ q' \in Seq(Message)
<1>1. q \in Seq(Message)
  BY DEF TypeOK, TypeMsgs
<1>2. /\ q' \in Seq(Message)
      /\ \A w, o : InQueue(q, w, o) => InQueue(q', w, o)
  BY <1>1, Posted DEF Post
<1> QED BY <1>2 DEF Quiet, QuietFields, LooperKept, Starting, Looper

\* Reports, logins and the buttons that only post a message are quiet.
LEMMA PostIInv ==
  ASSUME IInv, NEW d \in Dev,
         \/ \E s \in Reports : StateReport(d, s)
         \/ OnLogin \/ PressCheckNow(d) \/ PressReminder(d)
  PROVE  IInv'
<1>0. TypeOK /\ TypeMsgs /\ TypeUi
  BY DEF IInv, TypeOK
<1>1. CASE \E s \in Reports : StateReport(d, s)
  <2>1. PICK s \in Reports : StateReport(d, s)
    BY <1>1
  <2>2. Quiet /\ q' \in Seq(Message)
    BY <1>0, <2>1, QuietPost, Posts DEF StateReport, ota, calls
  <2>3. TypeMsgs'
    BY <1>0, <2>1, <2>2 DEF StateReport, TypeMsgs
  <2>4. TypeOK'
    BY <1>0, <2>1, <2>3, TypesKept, SpendType DEF StateReport, TypeOK, auto
  <2> QED BY <2>2, <2>4, QuietStep
<1>2. CASE OnLogin
  <2>2. Quiet /\ q' \in Seq(Message)
    BY <1>0, <1>2, QuietPost, Posts DEF OnLogin, ota, calls
  <2>3. TypeMsgs'
    BY <1>0, <1>2, <2>2 DEF OnLogin, TypeMsgs
  <2>4. TypeOK'
    BY <1>0, <1>2, <2>3, TypesKept, SpendType DEF OnLogin, TypeOK, auto
  <2> QED BY <2>2, <2>4, QuietStep
<1>3. CASE PressCheckNow(d)
  <2>1. \/ Post(Msg("CHECK_VERSION", Uuid(d), 0)) /\ "CHECK_VERSION" \in QueuedUuid
        \/ UNCHANGED q
    BY <1>3 DEF PressCheckNow, AskForCheck, Current, QueuedUuid
  <2>a. UNCHANGED <<dev, stateTimer, ignored, crashed, looper>>
    BY <1>3 DEF PressCheckNow, ota, calls
  <2>b. UNCHANGED q => Quiet /\ q' \in Seq(Message)
    BY <1>0, <2>a DEF Quiet, QuietFields, LooperKept, Starting, Looper, TypeMsgs
  <2>2. Quiet /\ q' \in Seq(Message)
    BY <1>0, <2>1, <2>a, <2>b, QuietPost, Posts
  <2>3. TypeMsgs'
    BY <1>0, <1>3, <2>2 DEF PressCheckNow, TypeMsgs
  <2>4. TypeOK'
    BY <1>0, <1>3, <2>3, TypesKept, SpendType DEF PressCheckNow, TypeOK, auto
  <2> QED BY <2>2, <2>4, QuietStep
<1>4. CASE PressReminder(d)
  <2>2. Quiet /\ q' \in Seq(Message)
    BY <1>0, <1>4, QuietPost, Posts DEF PressReminder, ota, calls, QueuedUuid
  <2>3. TypeMsgs' /\ TypeUi'
    BY <1>0, <1>4, <2>2 DEF PressReminder, TypeMsgs, TypeUi
  <2>4. TypeOK'
    BY <1>0, <1>4, <2>3, TypesKept DEF PressReminder, TypeOK, auto
  <2> QED BY <2>2, <2>4, QuietStep
<1> QED BY <1>1, <1>2, <1>3, <1>4

-----------------------------------------------------------------------------
(* Quiet steps of the looper *)

\* A message that does not end an upgrade is served: the messages that do end one stay.
LEMMA QuietTake ==
  ASSUME TypeOK, NEW w, Take(w), w \notin Ends
  PROVE  /\ looper = Idle /\ Head(q) \in Message /\ Head(q).what = w
         /\ Tail(q) \in Seq(Message)
         /\ \A x \in Obj, e \in Ends : InQueue(q, e, x) => InQueue(Tail(q), e, x)
<1>1. q \in Seq(Message)
  BY DEF TypeOK, TypeMsgs
<1> QED BY <1>1, TakenOut DEF Take

\* deviceCheckVersionNow is quiet.
LEMMA CheckVersionIInv == ASSUME IInv, HandleCheckVersion PROVE IInv'
<1> DEFINE o == Current(Head(q).obj[1])
<1>0. TypeOK /\ TypeOta /\ TypeMsgs /\ TypeCalls
  BY DEF IInv, TypeOK
<1>1. Take("CHECK_VERSION") /\ q' = Tail(q) /\ "CHECK_VERSION" \notin Ends
  BY DEF HandleCheckVersion, Served, Ends
<1>2. /\ looper = Idle /\ Head(q).obj[1] \in Dev /\ q' \in Seq(Message)
      /\ \A x \in Obj, e \in Ends : InQueue(q, e, x) => InQueue(q', e, x)
  BY <1>0, <1>1, QuietTake, Carries DEF QueuedUuid
<1>3. o # NoObj => o \in Obj
  BY <1>0, <1>2, CurrentType
<1>4. \/ o \in Obj /\ dev' = StartCheck(o, dev) /\ looper' = [at |-> "checking", obj |-> o]
      \/ UNCHANGED <<dev, looper>>
  BY <1>3 DEF HandleCheckVersion
<1>5. UNCHANGED <<list, made, stateTimer, checkTimer, notifier, ignored, crashed>>
  BY DEF HandleCheckVersion
<1>6. TypeOta' /\ QuietFields(dev')
  <2> HIDE DEF o
  <2>1. dev' \in [Obj -> Fields] /\ QuietFields(dev')
    <3>1. CASE o \in Obj /\ dev' = StartCheck(o, dev)
      BY <1>0, <3>1, CheckFields
    <3>2. CASE dev' = dev
      BY <1>0, <3>2 DEF QuietFields, TypeOta
    <3> QED BY <1>4, <3>1, <3>2
  <2> QED BY <1>0, <1>5, <2>1 DEF TypeOta
<1>7. TypeCalls' /\ TypeMsgs' /\ \A x \in Obj : LooperKept(x)
  BY <1>0, <1>2, <1>4, <1>5 DEF TypeCalls, TypeMsgs, LooperKept, Starting, Looper, Idle
<1>8. TypeOK'
  BY <1>0, <1>6, <1>7, TypesKept DEF HandleCheckVersion, TypeOK, auto
<1>9. Quiet
  BY <1>2, <1>5, <1>6, <1>7 DEF Quiet
<1> QED BY <1>8, <1>9, QuietStep

\* The answer to a check of the looper is quiet.
LEMMA LooperCheckedIInv == ASSUME IInv, LooperChecked PROVE IInv'
<1>0. TypeOK /\ TypeOta /\ TypeCalls /\ TypeUi /\ TypeRest
  BY DEF IInv, TypeOK
<1>1. looper.obj \in Obj
  BY <1>0 DEF LooperChecked, TypeCalls, Idle
<1>2. PICK found \in BOOLEAN : EndCheck(looper.obj, found)
  BY DEF LooperChecked
<1>3. /\ dev' \in [Obj -> Fields] /\ QuietFields(dev') /\ dialogs' \in [Dev -> Nat]
      /\ crashed' \in BOOLEAN /\ (crashed => crashed')
  BY <1>0, <1>1, <1>2, EndCheckFields
<1>4. TypeOta' /\ TypeUi' /\ TypeCalls' /\ TypeRest'
  BY <1>0, <1>3 DEF LooperChecked, TypeOta, TypeUi, TypeCalls, TypeRest
<1>5. TypeOK'
  BY <1>0, <1>4, TypesKept DEF LooperChecked, TypeOK, auto, msgs
<1>6. Quiet
  BY <1>3 DEF LooperChecked, Quiet, LooperKept, Starting, Looper, msgs, Idle
<1> QED BY <1>5, <1>6, QuietStep

\* What prepareAutoUpdate does to the candidates and to the queue.
LEMMA PrepareFacts ==
  ASSUME TypeOK, NEW rest \in Seq(Message),
         NEW state \in {"IDLE", "START", "SEND_CONFIRM", "SEND_CONFIRM_DONE"},
         PrepareAutoUpdate(state, rest)
  PROVE  /\ autoMap' \in [Dev -> 0..MaxGen]
         /\ autoState' \in {"IDLE", "START", "SEND_CONFIRM", "SEND_CONFIRM_DONE"}
         /\ q' \in Seq(Message)
         /\ \A w, x : InQueue(rest, w, x) => InQueue(q', w, x)
<1> DEFINE o == FirstOf({d \in Entries : ~dev[Entry(d)].confirm})
<1>1. o # NoObj => o \in Obj /\ o[1] \in Dev
  BY FirstOfType DEF Obj
<1>2. autoMap \in [Dev -> 0..MaxGen]
  BY DEF TypeOK, TypeAuto
<1>3. CASE o = NoObj
  BY <1>2, <1>3 DEF PrepareAutoUpdate
<1>4. CASE o # NoObj /\ ~dev[o].doUpgrade
  <2>1. /\ q' = Append(rest, Msg("USER_CONFIRM", o, 0))
        /\ autoMap' = autoMap /\ autoState' = "SEND_CONFIRM"
    BY <1>4 DEF PrepareAutoUpdate
  <2>2. Msg("USER_CONFIRM", o, 0) \in Message
    BY <1>1, <1>4, Posts DEF QueuedObj
  <2> HIDE DEF o
  <2> QED BY <1>2, <2>1, <2>2, Posted
<1>5. CASE o # NoObj /\ dev[o].doUpgrade
  <2>1. autoMap' = [autoMap EXCEPT ![o[1]] = 0] /\ autoState' = state /\ q' = rest
    BY <1>5 DEF PrepareAutoUpdate
  <2> HIDE DEF o
  <2> QED BY <1>1, <1>2, <1>5, <2>1, BoundsAssumption
<1> QED BY <1>3, <1>4, <1>5

\* MESSAGE_AUTO_UPDATE_PREPARE is quiet.
LEMMA PrepareIInv == ASSUME IInv, HandlePrepare PROVE IInv'
<1>0. TypeOK /\ TypeAuto /\ TypeMsgs
  BY DEF IInv, TypeOK
<1>1. Take("AUTO_UPDATE_PREPARE") /\ "AUTO_UPDATE_PREPARE" \notin Ends
  BY DEF HandlePrepare, Ends
<1>2. /\ Tail(q) \in Seq(Message)
      /\ \A x \in Obj, e \in Ends : InQueue(q, e, x) => InQueue(Tail(q), e, x)
  BY <1>0, <1>1, QuietTake
<1>3. /\ autoMap' \in [Dev -> 0..MaxGen]
      /\ autoState' \in {"IDLE", "START", "SEND_CONFIRM", "SEND_CONFIRM_DONE"}
      /\ q' \in Seq(Message)
      /\ \A w, x : InQueue(Tail(q), w, x) => InQueue(q', w, x)
  BY <1>0, <1>2, PrepareFacts DEF HandlePrepare, TypeAuto
<1>4. TypeAuto' /\ TypeMsgs'
  BY <1>0, <1>3 DEF HandlePrepare, TypeAuto, TypeMsgs
<1>5. TypeOK'
  BY <1>0, <1>4, TypesKept DEF HandlePrepare, TypeOK
<1>6. Quiet
  BY <1>2, <1>3 DEF HandlePrepare, Quiet, QuietFields, LooperKept, Starting, Looper, ota, calls
<1> QED BY <1>5, <1>6, QuietStep

\* MESSAGE_INTERNAL_AUTO_UPDATE_START is quiet.
LEMMA AutoStartIInv == ASSUME IInv, AutoUpdateStart PROVE IInv'
<1>0. TypeOK /\ TypeAuto /\ TypeMsgs
  BY DEF IInv, TypeOK
<1>1. /\ autoMap' \in [Dev -> 0..MaxGen]
      /\ autoState' \in {"IDLE", "START", "SEND_CONFIRM", "SEND_CONFIRM_DONE"}
      /\ q' \in Seq(Message)
      /\ \A w, x : InQueue(q, w, x) => InQueue(q', w, x)
  <2>1. CASE PrepareAutoUpdate("START", q)
    BY <1>0, <2>1, PrepareFacts DEF TypeMsgs
  <2>2. CASE autoState' = "START" /\ UNCHANGED <<autoMap, q>>
    BY <1>0, <2>2 DEF TypeAuto, TypeMsgs
  <2>3. CASE UNCHANGED <<autoMap, autoState, q>>
    BY <1>0, <2>3 DEF TypeAuto, TypeMsgs
  <2> QED BY <2>1, <2>2, <2>3 DEF AutoUpdateStart
<1>2. TypeAuto' /\ TypeMsgs'
  BY <1>0, <1>1 DEF AutoUpdateStart, TypeAuto, TypeMsgs
<1>3. TypeOK'
  BY <1>0, <1>2, TypesKept DEF AutoUpdateStart, TypeOK
<1>4. Quiet
  BY <1>1 DEF AutoUpdateStart, Quiet, QuietFields, LooperKept, Starting, Looper, ota, calls
<1> QED BY <1>3, <1>4, QuietStep

\* launchOTAActivity marks the device and starts the activity.
LEMMA LaunchFacts ==
  ASSUME TypeOK, NEW o \in Obj, LaunchOTAActivity(o)
  PROVE  dev' \in [Obj -> Fields] /\ QuietFields(dev') /\ intents' \subseteq Dev
<1>1. dev \in [Obj -> Fields] /\ intents \subseteq Dev /\ o[1] \in Dev
  BY DEF TypeOK, TypeOta, TypeUi, Obj
<1>2. dev' \in [Obj -> Fields] /\ QuietFields(dev')
  <2>1. CASE dev' = [dev EXCEPT ![o].confirm = TRUE]
    BY <1>1, <2>1 DEF Fields, QuietFields
  <2>2. CASE dev' = dev
    BY <1>1, <2>2 DEF QuietFields
  <2> QED BY <2>1, <2>2 DEF LaunchOTAActivity
<1>3. intents' \subseteq Dev
  BY <1>1 DEF LaunchOTAActivity
<1> QED BY <1>2, <1>3

\* MESSAGE_AUTO_UPDATE_USER_CONFIRM is quiet.
LEMMA UserConfirmIInv == ASSUME IInv, HandleUserConfirm PROVE IInv'
<1> DEFINE o == Head(q).obj
<1>0. TypeOK /\ TypeOta /\ TypeAuto /\ TypeMsgs /\ TypeUi /\ TypeRest
  BY DEF IInv, TypeOK
<1>1. Take("USER_CONFIRM") /\ q' = Tail(q) /\ "USER_CONFIRM" \notin Ends
  BY DEF HandleUserConfirm, Served, Ends
<1>2. /\ o \in Obj /\ o[1] \in Dev /\ q' \in Seq(Message)
      /\ \A x \in Obj, e \in Ends : InQueue(q, e, x) => InQueue(q', e, x)
  BY <1>0, <1>1, QuietTake, Carries DEF QueuedObj, Obj
<1>3. UNCHANGED <<list, made, auto, stateTimer, checkTimer, calls, activity, dialogs, leaked,
                  ignored, spent>>
  BY DEF HandleUserConfirm
<1>4. \/ LaunchOTAActivity(o) /\ UNCHANGED <<reminders, crashed>>
      \/ /\ reminders' = reminders \cup {o[1]} \/ UNCHANGED reminders
         /\ crashed' = TRUE \/ UNCHANGED crashed
         /\ UNCHANGED <<dev, intents>>
  BY DEF HandleUserConfirm
<1> HIDE DEF o
<1>5. dev' \in [Obj -> Fields] /\ QuietFields(dev') /\ intents' \subseteq Dev
  <2>1. CASE LaunchOTAActivity(o)
    BY <1>0, <1>2, <2>1, LaunchFacts
  <2>2. CASE UNCHANGED <<dev, intents>>
    BY <1>0, <2>2 DEF QuietFields, TypeOta, TypeUi
  <2> QED BY <1>4, <2>1, <2>2
<1>6. /\ reminders' \subseteq Dev
      /\ crashed' \in BOOLEAN /\ (crashed => crashed')
  BY <1>0, <1>2, <1>4 DEF TypeUi, TypeRest
<1>7. TypeOta' /\ TypeUi' /\ TypeMsgs'
  BY <1>0, <1>2, <1>3, <1>5, <1>6 DEF TypeOta, TypeUi, TypeMsgs
<1>8. TypeRest'
  BY <1>0, <1>3, <1>6, Zenon DEF TypeRest
<1>9. TypeOK'
  BY <1>0, <1>3, <1>7, <1>8, TypesKept DEF TypeOK, auto
<1>10. Quiet
  BY <1>2, <1>3, <1>5, <1>6 DEF Quiet, LooperKept, Starting, Looper, calls
<1> QED BY <1>9, <1>10, QuietStep

\* MESSAGE_LAUNCH_FROM_NOTIFICATION_CENTER is quiet.
LEMMA LaunchIInv == ASSUME IInv, HandleLaunch PROVE IInv'
<1> DEFINE o == Current(Head(q).obj[1])
<1>0. TypeOK /\ TypeOta /\ TypeAuto /\ TypeMsgs /\ TypeUi
  BY DEF IInv, TypeOK
<1>1. Take("LAUNCH") /\ q' = Tail(q) /\ "LAUNCH" \notin Ends
  BY DEF HandleLaunch, Served, Ends
<1>2. /\ Head(q).obj[1] \in Dev /\ q' \in Seq(Message)
      /\ \A x \in Obj, e \in Ends : InQueue(q, e, x) => InQueue(q', e, x)
  BY <1>0, <1>1, QuietTake, Carries DEF QueuedUuid
<1>3. UNCHANGED <<list, made, auto, stateTimer, checkTimer, calls, activity, dialogs,
                  reminders, leaked, crashed, ignored, spent>>
  BY DEF HandleLaunch
<1>4. \/ o \in Obj /\ LaunchOTAActivity(o)
      \/ UNCHANGED <<dev, intents>>
  BY <1>0, <1>2, CurrentType DEF HandleLaunch
<1> HIDE DEF o
<1>5. dev' \in [Obj -> Fields] /\ QuietFields(dev') /\ intents' \subseteq Dev
  <2>1. CASE o \in Obj /\ LaunchOTAActivity(o)
    BY <1>0, <2>1, LaunchFacts
  <2>2. CASE UNCHANGED <<dev, intents>>
    BY <1>0, <2>2 DEF QuietFields, TypeOta, TypeUi
  <2> QED BY <1>4, <2>1, <2>2
<1>6. TypeOta' /\ TypeUi' /\ TypeMsgs'
  BY <1>0, <1>2, <1>3, <1>5 DEF TypeOta, TypeUi, TypeMsgs
<1>8. TypeOK'
  BY <1>0, <1>3, <1>6, TypesKept DEF TypeOK, auto
<1>9. Quiet
  BY <1>2, <1>3, <1>5 DEF Quiet, LooperKept, Starting, Looper, calls
<1> QED BY <1>8, <1>9, QuietStep

\* MESSAGE_AUTO_UPDATE_USER_FEEDBACK is quiet.
LEMMA UserFeedbackIInv == ASSUME IInv, HandleUserFeedback PROVE IInv'
<1> DEFINE o == Head(q).obj
           next == NextAutoUpdateDevice(o)
<1>0. TypeOK /\ TypeAuto /\ TypeMsgs
  BY DEF IInv, TypeOK
<1>1. Take("USER_FEEDBACK") /\ "USER_FEEDBACK" \notin Ends
  BY DEF HandleUserFeedback, Ends
<1>2. /\ o \in Obj /\ o[1] \in Dev /\ Tail(q) \in Seq(Message)
      /\ \A x \in Obj, e \in Ends : InQueue(q, e, x) => InQueue(Tail(q), e, x)
  BY <1>0, <1>1, QuietTake, Carries DEF QueuedObj, Obj
<1>3. next # NoObj => Msg("USER_CONFIRM", next, 0) \in Message
  BY <1>0, NextDeviceType, Posts DEF QueuedObj
<1>4. /\ autoMap' = [autoMap EXCEPT ![o[1]] = 0]
      /\ \/ /\ next # NoObj /\ autoState' = "SEND_CONFIRM"
            /\ q' = Append(Tail(q), Msg("USER_CONFIRM", next, 0))
         \/ autoState' = "SEND_CONFIRM_DONE" /\ q' = Tail(q)
  BY DEF HandleUserFeedback, Served, ServedThenPost
<1>5. UNCHANGED <<ota, autoStart, stateTimer, checkTimer, calls, ui, crashed, ignored, spent>>
  BY DEF HandleUserFeedback
<1> HIDE DEF o, next
<1>6. /\ q' \in Seq(Message)
      /\ \A x \in Obj, e \in Ends : InQueue(q, e, x) => InQueue(q', e, x)
  BY <1>2, <1>3, <1>4, Posted
<1>7. TypeAuto'
  <2>1. autoMap' \in [Dev -> 0..MaxGen]
    BY <1>0, <1>2, <1>4, BoundsAssumption DEF TypeAuto
  <2> QED BY <1>0, <1>4, <1>5, <2>1 DEF TypeAuto
<1>8. TypeMsgs'
  BY <1>0, <1>5, <1>6 DEF TypeMsgs
<1>9. TypeOK'
  BY <1>0, <1>5, <1>7, <1>8, TypesKept DEF TypeOK
<1>10. Quiet
  BY <1>5, <1>6 DEF Quiet, QuietFields, LooperKept, Starting, Looper, ota, calls
<1> QED BY <1>9, <1>10, QuietStep

\* The time-out of no device ends the process; the one of a check makes a candidate.
LEMMA NullDeviceTimeoutIInv == ASSUME IInv, NullDeviceTimeout PROVE IInv'
<1>0. TypeOK /\ TypeMsgs /\ TypeRest /\ NoObj \notin Obj
  BY DEF IInv, TypeOK, NoObj, Obj, Dev
<1>1. TypeMsgs' /\ \A x \in Obj : stateTimer'[x] = stateTimer[x]
  BY <1>0 DEF NullDeviceTimeout, TypeMsgs
<1>2. TypeRest'
  BY <1>0 DEF NullDeviceTimeout, TypeRest
<1>3. TypeOK'
  BY <1>0, <1>1, <1>2, TypesKept DEF NullDeviceTimeout, TypeOK, auto
<1>4. Quiet
  BY <1>1 DEF NullDeviceTimeout, Quiet, QuietFields, LooperKept, Starting, Looper, ota, calls
<1> QED BY <1>3, <1>4, QuietStep

LEMMA CheckTimeoutIInv == ASSUME IInv, NEW o \in Obj, CheckVersionTimeout(o) PROVE IInv'
<1>0. TypeOK /\ TypeMsgs /\ TypeAuto /\ o[1] \in Dev /\ o[2] \in 0..MaxGen
  BY BoundsAssumption DEF IInv, TypeOK, Obj
<1>1. TypeMsgs'
  BY <1>0 DEF CheckVersionTimeout, TypeMsgs
<1>2. TypeAuto'
  <2>1. autoMap' \in [Dev -> 0..MaxGen]
    BY <1>0 DEF CheckVersionTimeout, TypeAuto
  <2>2. autoStart' \in BOOLEAN
    BY <1>0 DEF CheckVersionTimeout, TypeAuto
  <2> QED BY <1>0, <2>1, <2>2, Zenon DEF CheckVersionTimeout, TypeAuto
<1>3. TypeOK'
  BY <1>0, <1>1, <1>2, TypesKept DEF CheckVersionTimeout, TypeOK
<1>4. Quiet
  BY DEF CheckVersionTimeout, Quiet, QuietFields, LooperKept, Starting, Looper, ota, calls
<1> QED BY <1>3, <1>4, QuietStep

-----------------------------------------------------------------------------
(* The activity *)

\* Opening the activity is quiet: it may ask for a check, or make a device READY that is
\* in VERIFY and has no new version.
LEMMA OpenIInv == ASSUME IInv, NEW d \in Dev, OpenActivity(d) PROVE IInv'
<1> DEFINE o == Current(d)
<1>0. TypeOK /\ TypeOta /\ TypeMsgs /\ TypeUi /\ TypeRest
  BY DEF IInv, TypeOK
<1>1. o # NoObj => o \in Obj
  BY <1>0, CurrentType
<1>2. /\ \/ Post(Msg("CHECK_VERSION", Uuid(d), 0))
         \/ UNCHANGED q
      /\ \/ UNCHANGED dev
         \/ /\ o # NoObj /\ dev[o].state = "VERIFY"
            /\ dev' = [dev EXCEPT ![o].state = "READY"]
      /\ dialogs' = [dialogs EXCEPT ![d] = @ + 1] \/ UNCHANGED dialogs
      /\ intents' = intents \ {d} \/ UNCHANGED intents
      /\ Spend("opens", MaxOpens) \/ UNCHANGED spent
      /\ activity' = [activity EXCEPT ![d] = list[d]]
  BY DEF OpenActivity, AskForCheck, Current
<1>3. UNCHANGED <<list, made, auto, stateTimer, checkTimer, calls, reminders, leaked, crashed,
                  ignored>>
  BY DEF OpenActivity
<1> HIDE DEF o
<1>4. dev' \in [Obj -> Fields] /\ QuietFields(dev')
  <2>1. CASE UNCHANGED dev
    BY <1>0, <2>1 DEF TypeOta, QuietFields
  <2>2. CASE o # NoObj /\ dev' = [dev EXCEPT ![o].state = "READY"]
    BY <1>0, <1>1, <2>2 DEF TypeOta, QuietFields, Fields, OTAState
  <2> QED BY <1>2, <2>1, <2>2
<1>5. q' \in Seq(Message) /\ \A w, x : InQueue(q, w, x) => InQueue(q', w, x)
  <2>1. Msg("CHECK_VERSION", Uuid(d), 0) \in Message
    BY Posts DEF QueuedUuid
  <2>2. CASE Post(Msg("CHECK_VERSION", Uuid(d), 0))
    BY <1>0, <2>1, <2>2, Posted DEF TypeMsgs, Post
  <2>3. CASE UNCHANGED q
    BY <1>0, <2>3 DEF TypeMsgs
  <2> QED BY <1>2, <2>2, <2>3
<1>6. TypeUi'
  <2>1. activity' \in [Dev -> Closed..MaxGen]
    BY <1>0, <1>2, BoundsAssumption DEF TypeUi, TypeOta, Closed
  <2>2. dialogs' \in [Dev -> Nat]
    BY <1>0, <1>2 DEF TypeUi
  <2> QED BY <1>0, <1>2, <1>3, <2>1, <2>2 DEF TypeUi
<1>7. TypeOta' /\ TypeMsgs'
  BY <1>0, <1>3, <1>4, <1>5 DEF TypeOta, TypeMsgs
<1>8. TypeRest'
  BY <1>0, <1>2, <1>3, TypesKept, SpendType
<1>9. TypeOK'
  BY <1>0, <1>3, <1>6, <1>7, <1>8, TypesKept DEF TypeOK, auto
<1>10. Quiet
  BY <1>3, <1>4, <1>5 DEF Quiet, LooperKept, Starting, Looper, calls
<1> QED BY <1>9, <1>10, QuietStep

\* Closing it, and dismissing a reminder, is quiet.
LEMMA CloseIInv ==
  ASSUME IInv, NEW d \in Dev, CloseActivity(d) \/ DismissReminder(d)
  PROVE  IInv'
<1>0. TypeOK /\ TypeUi /\ TypeOta
  BY DEF IInv, TypeOK
<1>1. TypeUi'
  <2>1. activity[d] \notin {Closed, 0} => <<d, activity[d]>> \in Obj
    BY <1>0, BoundsAssumption DEF TypeUi, Closed, Obj
  <2>2. leaked' \subseteq Obj
    BY <1>0, <2>1 DEF CloseActivity, DismissReminder, TypeUi
  <2>3. activity' \in [Dev -> Closed..MaxGen] /\ dialogs' \in [Dev -> Nat]
    BY <1>0, BoundsAssumption DEF CloseActivity, DismissReminder, TypeUi, Closed
  <2> QED BY <1>0, <2>2, <2>3 DEF CloseActivity, DismissReminder, TypeUi
<1>2. TypeOK'
  BY <1>0, <1>1, TypesKept DEF CloseActivity, DismissReminder, TypeOK, auto, msgs
<1>3. Quiet
  BY DEF CloseActivity, DismissReminder, Quiet, QuietFields, LooperKept, Starting, Looper, ota, msgs, calls
<1> QED BY <1>2, <1>3, QuietStep

\* Both answers put their messages behind the others.
LEMMA AnswerFacts ==
  ASSUME TypeOK, NEW d \in Dev, NEW others \in Seq(Message), Answer(d, others)
  PROVE  /\ q' \in Seq(Message) /\ dialogs' \in [Dev -> Nat]
         /\ \A w, x : InQueue(q, w, x) => InQueue(q', w, x)
<1> DEFINE o == Current(d)
           feedback == IF dev[o].confirm THEN <<Msg("USER_FEEDBACK", o, 0)>> ELSE << >>
<1>0. q \in Seq(Message) /\ dialogs \in [Dev -> Nat]
  BY DEF TypeOK, TypeMsgs, TypeUi
<1>1. dialogs' \in [Dev -> Nat]
  BY <1>0 DEF Answer
<1>2. q' = IF o = NoObj THEN q ELSE (q \o feedback) \o others
  BY DEF Answer
<1>3. o # NoObj => feedback \in Seq(Message)
  <2>1. o # NoObj => Msg("USER_FEEDBACK", o, 0) \in Message
    BY CurrentType, Posts DEF QueuedObj
  <2> HIDE DEF o
  <2> QED BY <2>1
<1> HIDE DEF o, feedback
<1>4. \A s, t \in Seq(Message) : /\ s \o t \in Seq(Message)
                                 /\ \A w, x : InQueue(s, w, x) => InQueue(s \o t, w, x)
  <2> SUFFICES ASSUME NEW s \in Seq(Message), NEW t \in Seq(Message)
               PROVE  /\ s \o t \in Seq(Message)
                      /\ \A w, x : InQueue(s, w, x) => InQueue(s \o t, w, x)
    OBVIOUS
  <2>1. /\ s \o t \in Seq(Message) /\ Len(s \o t) = Len(s) + Len(t)
        /\ Len(s) \in Nat /\ Len(t) \in Nat
        /\ \A i \in 1..Len(s) : (s \o t)[i] = s[i]
    BY ConcatProperties, LenProperties
  <2> QED BY <2>1 DEF InQueue
<1>5. CASE o = NoObj
  BY <1>0, <1>1, <1>2, <1>5
<1>6. CASE o # NoObj
  BY <1>0, <1>1, <1>2, <1>3, <1>4, <1>6
<1> QED BY <1>5, <1>6

\* startUpgrade and cancelUpgrade are quiet: only the message they post starts an upgrade.
LEMMA AnswerIInv == ASSUME IInv, NEW d \in Dev, PressYes(d) \/ PressNo(d) PROVE IInv'
<1> DEFINE o == Current(d)
<1>0. TypeOK /\ TypeOta /\ TypeMsgs /\ TypeUi
  BY DEF IInv, TypeOK
<1>1. PICK others \in Seq(Message) : Answer(d, others)
  <2>1. Msg("START_UPGRADE", Uuid(d), 0) \in Message
    BY Posts DEF QueuedUuid
  <2>2. <<Msg("START_UPGRADE", Uuid(d), 0)>> \in Seq(Message) /\ << >> \in Seq(Message)
    BY <2>1
  <2>3. Answer(d, <<Msg("START_UPGRADE", Uuid(d), 0)>>) \/ Answer(d, << >>)
    BY DEF PressYes, PressNo
  <2> QED BY <2>2, <2>3
<1>2. /\ q' \in Seq(Message) /\ dialogs' \in [Dev -> Nat]
      /\ \A w, x : InQueue(q, w, x) => InQueue(q', w, x)
  BY <1>0, <1>1, AnswerFacts
<1>3. UNCHANGED <<list, made, auto, stateTimer, checkTimer, calls, activity, intents,
                  reminders, leaked, crashed, ignored, spent>>
  BY <1>1 DEF Answer
<1>4. \/ UNCHANGED dev
      \/ o \in Obj /\ \/ dev' = [dev EXCEPT ![o].confirm = FALSE]
                      \/ dev' = [dev EXCEPT ![o].confirm = FALSE, ![o].state = "READY"]
  BY <1>0, CurrentType DEF PressYes, PressNo
<1> HIDE DEF o
<1>5. dev' \in [Obj -> Fields] /\ QuietFields(dev')
  <2>1. CASE UNCHANGED dev
    BY <1>0, <2>1 DEF TypeOta, QuietFields
  <2>2. CASE o \in Obj /\ dev' = [dev EXCEPT ![o].confirm = FALSE]
    BY <1>0, <2>2 DEF TypeOta, QuietFields, Fields
  <2>3. CASE o \in Obj /\ dev' = [dev EXCEPT ![o].confirm = FALSE, ![o].state = "READY"]
    BY <1>0, <2>3 DEF TypeOta, QuietFields, Fields, OTAState
  <2> QED BY <1>4, <2>1, <2>2, <2>3
<1>6. TypeOta' /\ TypeMsgs' /\ TypeUi'
  BY <1>0, <1>2, <1>3, <1>5 DEF TypeOta, TypeMsgs, TypeUi
<1>7. TypeOK'
  BY <1>0, <1>3, <1>6, TypesKept DEF TypeOK, auto
<1>8. Quiet
  BY <1>2, <1>3, <1>5 DEF Quiet, LooperKept, Starting, Looper, calls
<1> QED BY <1>7, <1>8, QuietStep

-----------------------------------------------------------------------------
(* The steps that start, drive and end an upgrade *)

\* What IInv says of one object.
Fine(x) ==
  /\ dev[x].doUpgrade /\ ~crashed
       => \/ stateTimer[x] > 0 \/ Starting(x) \/ x \in ignored
          \/ \E e \in Ends : InQueue(q, e, x)
  /\ stateTimer[x] > 0 \/ Starting(x) \/ Looper("timingOut", x) => dev[x].ustate # NoInfo
  /\ dev[x].state \in {"VERIFY_DONE", "UPGRADE"}
       => dev[x].doUpgrade \/ Looper("beginning", x) \/ Looper("timingOut", x)

LEMMA IInvIsFine == /\ IInv => TypeOK /\ \A x \in Obj : Fine(x)
                    /\ TypeOK' /\ (\A x \in Obj : Fine(x)') => IInv'
<1>1. \A x \in Obj : (\E e \in Ends : InQueue(q, e, x))
                       <=> Queued("UPGRADE_DONE", x) \/ Queued("UPGRADE_FAIL", x)
  BY DEF InQueue, Queued, Ends
<1>2. \A x \in Obj : (\E e \in Ends : InQueue(q', e, x))
                       <=> Queued("UPGRADE_DONE", x)' \/ Queued("UPGRADE_FAIL", x)'
  BY DEF InQueue, Queued, Ends
<1>3. IInv => TypeOK /\ \A x \in Obj : Fine(x)
  BY <1>1 DEF IInv, Fine, UpgradeGuarded, TimeoutHasState, StartingHasState,
              ProgressMeansUpgrading
<1>4. TypeOK' /\ (\A x \in Obj : Fine(x)') => IInv'
  BY <1>2 DEF IInv, Fine, UpgradeGuarded, TimeoutHasState, StartingHasState,
              ProgressMeansUpgrading
<1> QED BY <1>3, <1>4

\* A step that leaves an object alone leaves it fine.
LEMMA LeftAlone ==
  ASSUME NEW x, Fine(x), dev'[x] = dev[x], stateTimer'[x] = stateTimer[x],
         LooperKept(x), x \in ignored => x \in ignored', crashed => crashed',
         \A e \in Ends : InQueue(q, e, x) => InQueue(q', e, x)
  PROVE  Fine(x)'
  BY DEF Fine, LooperKept

\* The message that is served, when it is not the end of x's upgrade, leaves those in place.
LEMMA EndsStay ==
  ASSUME TypeOK, NEW w, Take(w)
  PROVE  /\ looper = Idle /\ Head(q) \in Message /\ Head(q).what = w
         /\ Tail(q) \in Seq(Message)
         /\ \A x : w \notin Ends \/ Head(q).obj # x
              => \A e \in Ends : InQueue(q, e, x) => InQueue(Tail(q), e, x)
<1>1. q \in Seq(Message)
  BY DEF TypeOK, TypeMsgs
<1> QED BY <1>1, TakenOut DEF Take

\* deviceStartUpgradeNow: doUpgrade begins, or the time-out of no device is armed.
LEMMA StartUpgradeIInv == ASSUME IInv, HandleStartUpgrade PROVE IInv'
<1>a. PICK o : o = Current(Head(q).obj[1])
  OBVIOUS
<1>0. /\ TypeOK /\ TypeOta /\ TypeMsgs /\ TypeCalls /\ TypeRest
      /\ \A x \in Obj : Fine(x)
  BY IInvIsFine DEF TypeOK
<1>1. Take("START_UPGRADE") /\ q' = Tail(q) /\ "START_UPGRADE" \notin Ends
  BY DEF HandleStartUpgrade, Served, Ends
<1>2. /\ looper = Idle /\ Head(q).obj[1] \in Dev /\ q' \in Seq(Message)
      /\ \A x \in Obj : \A e \in Ends : InQueue(q, e, x) => InQueue(q', e, x)
  BY <1>0, <1>1, EndsStay, Carries DEF QueuedUuid
<1>3. UNCHANGED <<list, made, auto, checkTimer, notifier, ui, crashed, ignored, spent>>
  BY DEF HandleStartUpgrade
<1>4. CASE o = NoObj
  <2>1. /\ stateTimer' = [stateTimer EXCEPT ![NoObj] = @ + 1]
        /\ UNCHANGED <<dev, looper>>
    BY <1>4, <1>a DEF HandleStartUpgrade
  <2>2. NoObj \notin Obj
    BY DEF NoObj, Obj, Dev
  <2>3. TypeMsgs'
    BY <1>0, <1>2, <1>3, <2>1 DEF TypeMsgs
  <2>4. TypeOK'
    BY <1>0, <1>3, <2>1, <2>3, TypesKept DEF TypeOK, ota, auto, calls
  <2>5. \A x \in Obj : stateTimer'[x] = stateTimer[x]
    BY <1>0, <2>1, <2>2 DEF TypeMsgs
  <2>6. \A x \in Obj : Fine(x)'
    BY <1>0, <1>2, <1>3, <2>1, <2>5, LeftAlone DEF LooperKept, Starting, Looper
  <2> QED BY <2>4, <2>6, IInvIsFine
<1>5. CASE o # NoObj
  <2>1. o \in Obj
    BY <1>0, <1>2, <1>5, <1>a, CurrentType
  <2>2. /\ dev' = [dev EXCEPT ![o].state = "VERIFY_DONE"]
        /\ looper' = [at |-> "beginning", obj |-> o] /\ UNCHANGED stateTimer
    BY <1>5, <1>a DEF HandleStartUpgrade
  <2>3. TypeOta' /\ TypeCalls' /\ TypeMsgs'
    <3>1. dev' \in [Obj -> Fields]
      BY <1>0, <2>1, <2>2 DEF TypeOta, Fields, OTAState
    <3>2. TypeOta'
      BY <1>0, <1>3, <3>1 DEF TypeOta
    <3> QED BY <1>0, <1>2, <1>3, <2>1, <2>2, <3>2 DEF TypeCalls, TypeMsgs
  <2>4. TypeOK'
    BY <1>0, <1>3, <2>3, TypesKept DEF TypeOK, auto
  <2>5. Fine(o)'
    <3>1. dev'[o].doUpgrade = dev[o].doUpgrade /\ dev'[o].ustate = dev[o].ustate
      BY <1>0, <2>1, <2>2 DEF TypeOta, Fields
    <3>2. Looper("beginning", o)' /\ ~Starting(o) /\ ~Starting(o)' /\ ~Looper("timingOut", o)'
      BY <1>2, <2>2 DEF Starting, Looper, Idle
    <3>3. Fine(o) /\ (\A e \in Ends : InQueue(q, e, o) => InQueue(q', e, o))
      BY <1>0, <1>2, <2>1
    <3> QED BY <1>3, <2>2, <3>1, <3>2, <3>3 DEF Fine
  <2>6. ASSUME NEW x \in Obj, x # o PROVE Fine(x)'
    <3>1. dev'[x] = dev[x] /\ stateTimer'[x] = stateTimer[x]
      BY <1>0, <2>1, <2>2, <2>6 DEF TypeOta
    <3>2. LooperKept(x)
      BY <1>2, <2>2, <2>6 DEF LooperKept, Starting, Looper, Idle
    <3> QED BY <1>0, <1>2, <1>3, <3>1, <3>2, LeftAlone
  <2> QED BY <2>4, <2>5, <2>6, IInvIsFine
<1> QED BY <1>4, <1>5

\* The rest of doUpgrade: the command is being sent, or the process is dead.
LEMMA DoUpgradeIInv == ASSUME IInv, DoUpgrade PROVE IInv'
<1>a. PICK o : o = looper.obj
  OBVIOUS
<1>0. /\ TypeOK /\ TypeOta /\ TypeMsgs /\ TypeCalls /\ TypeRest
      /\ \A x \in Obj : Fine(x)
  BY IInvIsFine DEF TypeOK
<1>1. o \in Obj /\ looper = [at |-> "beginning", obj |-> o]
  BY <1>0, <1>a DEF DoUpgrade, TypeCalls, Idle
<1>2. /\ dev' = [dev EXCEPT ![o].ustate = 0, ![o].doUpgrade = TRUE]
      /\ ignored' = ignored \ {o}
      /\ \/ looper' = [at |-> "starting", obj |-> o] /\ UNCHANGED crashed
         \/ crashed' = TRUE /\ UNCHANGED looper
      /\ UNCHANGED <<list, made, auto, msgs, notifier, ui, spent>>
  BY <1>a DEF DoUpgrade
<1>3. dev' \in [Obj -> Fields] /\ dev'[o].ustate = 0 /\ dev'[o].doUpgrade
  <2>1. 0 \in Reports \cup {NoInfo}
    BY DEF Reports
  <2> QED BY <1>0, <1>1, <1>2, <2>1 DEF TypeOta, Fields
<1>4. TypeOta' /\ TypeCalls' /\ TypeRest'
  <2>1. TypeOta'
    BY <1>0, <1>2, <1>3 DEF TypeOta
  <2>2. TypeCalls'
    BY <1>0, <1>1, <1>2 DEF TypeCalls
  <2> QED BY <1>0, <1>2, <2>1, <2>2 DEF TypeRest
<1>5. TypeOK'
  BY <1>0, <1>2, <1>4, TypesKept DEF TypeOK, auto, msgs
<1>6. Fine(o)'
  <2>1. crashed' = TRUE \/ Starting(o)'
    BY <1>2 DEF Starting, Looper
  <2> QED BY <1>3, <2>1 DEF Fine, NoInfo
<1>7. ASSUME NEW x \in Obj, x # o PROVE Fine(x)'
  <2>1. dev'[x] = dev[x] /\ (x \in ignored => x \in ignored') /\ (crashed => crashed')
    BY <1>0, <1>1, <1>2, <1>7 DEF TypeOta
  <2>2. LooperKept(x)
    BY <1>1, <1>2, <1>7 DEF LooperKept, Starting, Looper
  <2>3. stateTimer'[x] = stateTimer[x] /\ q' = q
    BY <1>2 DEF msgs
  <2> QED BY <1>0, <1>7, <2>1, <2>2, <2>3, LeftAlone
<1> QED BY <1>5, <1>6, <1>7, IInvIsFine

\* setOTAServerPath returns: the time-out takes over.
LEMMA UpgradeCommandedIInv == ASSUME IInv, UpgradeCommanded PROVE IInv'
<1>a. PICK o : o = looper.obj
  OBVIOUS
<1>0. /\ TypeOK /\ TypeOta /\ TypeMsgs /\ TypeCalls /\ TypeRest
      /\ \A x \in Obj : Fine(x)
  BY IInvIsFine DEF TypeOK
<1>1. o \in Obj /\ o[1] \in Dev /\ looper = [at |-> "starting", obj |-> o]
  BY <1>0, <1>a DEF UpgradeCommanded, TypeCalls, Idle, Obj
<1>2. /\ UNCHANGED q \/ Post(Msg("STATE_CHANGE", Uuid(o[1]), FAILED))
      /\ stateTimer' = [stateTimer EXCEPT ![o] = @ + 1]
      /\ looper' = Idle
      /\ UNCHANGED <<ota, auto, checkTimer, notifier, ui, crashed, ignored, spent>>
  BY <1>a DEF UpgradeCommanded
<1>3. q' \in Seq(Message) /\ \A w, x : InQueue(q, w, x) => InQueue(q', w, x)
  <2>1. Msg("STATE_CHANGE", Uuid(o[1]), FAILED) \in Message
    BY <1>1, Posts DEF FAILED, Reports
  <2>2. CASE UNCHANGED q
    BY <1>0, <2>2 DEF TypeMsgs
  <2>3. CASE Post(Msg("STATE_CHANGE", Uuid(o[1]), FAILED))
    BY <1>0, <2>1, <2>3, Posted DEF TypeMsgs, Post
  <2> QED BY <1>2, <2>2, <2>3
<1>4. TypeMsgs' /\ TypeCalls'
  BY <1>0, <1>1, <1>2, <1>3 DEF TypeMsgs, TypeCalls
<1>5. TypeOK'
  BY <1>0, <1>2, <1>4, TypesKept DEF TypeOK, auto
<1>6. Fine(o)'
  <2>1. stateTimer'[o] > 0 /\ dev' = dev
    BY <1>0, <1>1, <1>2 DEF TypeMsgs, ota
  <2>2. Starting(o) /\ Fine(o)
    BY <1>0, <1>1 DEF Starting, Looper
  <2>3. ~Looper("beginning", o) /\ ~Looper("timingOut", o)
    BY <1>1 DEF Looper
  <2> QED BY <2>1, <2>2, <2>3 DEF Fine
<1>7. ASSUME NEW x \in Obj, x # o PROVE Fine(x)'
  <2>1. stateTimer'[x] = stateTimer[x] /\ dev'[x] = dev[x]
    BY <1>0, <1>2, <1>7 DEF TypeMsgs, ota
  <2>2. LooperKept(x)
    BY <1>1, <1>2, <1>7 DEF LooperKept, Starting, Looper, Idle
  <2>3. \A e \in Ends : InQueue(q, e, x) => InQueue(q', e, x)
    BY <1>3
  <2>4. ignored' = ignored /\ crashed' = crashed
    BY <1>2
  <2> QED BY <1>0, <1>7, <2>1, <2>2, <2>3, <2>4, LeftAlone
<1> QED BY <1>5, <1>6, <1>7, IInvIsFine

\* updateState: a report re-arms the time-out, queues the end, or is dropped as late.
LEMMA StateChangeIInv == ASSUME IInv, HandleStateChange PROVE IInv'
<1>a. PICK o : o = Current(Head(q).obj[1])
  OBVIOUS
<1>b. PICK s : s = Head(q).arg
  OBVIOUS
<1>0. /\ TypeOK /\ TypeOta /\ TypeMsgs /\ TypeCalls /\ TypeRest
      /\ \A x \in Obj : Fine(x)
  BY IInvIsFine DEF TypeOK
<1>1. Take("STATE_CHANGE") /\ "STATE_CHANGE" \notin Ends
  BY DEF HandleStateChange, Ends
<1>2. /\ looper = Idle /\ Head(q).obj[1] \in Dev /\ Tail(q) \in Seq(Message) /\ s \in Reports
      /\ \A x \in Obj : \A e \in Ends : InQueue(q, e, x) => InQueue(Tail(q), e, x)
  BY <1>0, <1>1, <1>b, EndsStay, Carries DEF QueuedUuid
<1>3. UNCHANGED <<list, made, auto, checkTimer, calls, ui, crashed, spent>>
  BY DEF HandleStateChange
<1>4. CASE o = NoObj
  <2>1. q' = Tail(q) /\ UNCHANGED <<dev, stateTimer, ignored>>
    BY <1>4, <1>a DEF HandleStateChange, Served
  <2>2. TypeMsgs'
    BY <1>0, <1>2, <1>3, <2>1 DEF TypeMsgs
  <2>3. TypeOK'
    BY <1>0, <1>3, <2>1, <2>2, TypesKept DEF TypeOK, ota, auto
  <2>4. \A x \in Obj : Fine(x)'
    BY <1>0, <1>2, <1>3, <2>1, LeftAlone DEF LooperKept, Starting, Looper, calls
  <2> QED BY <2>3, <2>4, IInvIsFine
<1>5. CASE o # NoObj
  <2>1. o \in Obj
    BY <1>0, <1>2, <1>5, <1>a, CurrentType
  <2> DEFINE late == dev[o].ustate # NoInfo /\ s < dev[o].ustate /\ s >= 0
             upgrading == [dev EXCEPT ![o].doUpgrade = TRUE, ![o].state = "UPGRADE"]
  <2>2. CASE late
    <3>1. /\ dev' = upgrading /\ q' = Tail(q) /\ ignored' = ignored \cup {o}
          /\ stateTimer' = [stateTimer EXCEPT ![o] = 0]
      BY <1>5, <1>a, <1>b, <2>2 DEF HandleStateChange, Served
    <3>2. dev' \in [Obj -> Fields] /\ dev'[o].doUpgrade /\ dev'[o].ustate = dev[o].ustate
      BY <1>0, <2>1, <3>1 DEF TypeOta, Fields, OTAState
    <3>3. TypeOta' /\ TypeMsgs' /\ TypeRest'
      BY <1>0, <1>2, <1>3, <2>1, <3>1, <3>2 DEF TypeOta, TypeMsgs, TypeRest
    <3>4. TypeOK'
      BY <1>0, <1>3, <3>3, TypesKept DEF TypeOK, auto
    <3>5. Fine(o)'
      BY <2>1, <2>2, <3>1, <3>2 DEF Fine
    <3>6. ASSUME NEW x \in Obj, x # o PROVE Fine(x)'
      <4>1. dev'[x] = dev[x] /\ stateTimer'[x] = stateTimer[x]
        BY <1>0, <2>1, <3>1, <3>6 DEF TypeOta, TypeMsgs
      <4>2. x \in ignored => x \in ignored'
        BY <3>1
      <4>3. \A e \in Ends : InQueue(q, e, x) => InQueue(q', e, x)
        BY <1>2, <3>1
      <4> QED BY <1>0, <1>3, <4>1, <4>2, <4>3, LeftAlone DEF LooperKept, Starting, Looper, calls
    <3> QED BY <3>4, <3>5, <3>6, IInvIsFine
  <2>3. CASE ~late
    <3>1. /\ dev' = [upgrading EXCEPT ![o].ustate = s]
          /\ ignored' = ignored \ {o}
          /\ stateTimer' = [stateTimer EXCEPT ![o] = IF s \in {FAILED, DONE} THEN 0 ELSE 1]
          /\ \/ s \notin {FAILED, DONE} /\ q' = Tail(q)
             \/ \E e \in Ends : q' = Append(Tail(q), Msg(e, o, 0))
      BY <1>5, <1>a, <1>b, <2>3 DEF HandleStateChange, Served, ServedThenPost, Ends
    <3>2. dev' \in [Obj -> Fields] /\ dev'[o].doUpgrade /\ dev'[o].ustate = s
      <4>1. upgrading \in [Obj -> Fields] /\ upgrading[o].doUpgrade
        BY <1>0, <2>1 DEF TypeOta, Fields, OTAState
      <4> HIDE DEF upgrading
      <4> QED BY <1>2, <2>1, <3>1, <4>1 DEF Fields
    <3>3. \A x \in Obj : x # o => dev'[x] = dev[x] /\ stateTimer'[x] = stateTimer[x]
      BY <1>0, <2>1, <3>1 DEF TypeOta, TypeMsgs
    <3>4. /\ q' \in Seq(Message)
          /\ \A x \in Obj : \A e \in Ends : InQueue(q, e, x) => InQueue(q', e, x)
          /\ s \in {FAILED, DONE} => \E e \in Ends : InQueue(q', e, o)
      <4>1. CASE s \notin {FAILED, DONE} /\ q' = Tail(q)
        BY <1>2, <4>1
      <4>2. CASE \E e \in Ends : q' = Append(Tail(q), Msg(e, o, 0))
        <5>1. PICK e \in Ends : q' = Append(Tail(q), Msg(e, o, 0))
          BY <4>2
        <5>2. PICK m \in Message : m = Msg(e, o, 0)
          BY <2>1, <5>1, Posts DEF Ends, QueuedObj
        <5>3. m.what = e /\ m.obj = o
          BY <5>2 DEF Msg
        <5> QED BY <1>2, <5>1, <5>2, <5>3, Posted
      <4> QED BY <3>1, <4>1, <4>2
    <3>5. TypeOta'
      BY <1>0, <1>3, <3>2 DEF TypeOta
    <3>6. TypeMsgs' /\ TypeRest'
      BY <1>0, <1>3, <2>1, <3>1, <3>4 DEF TypeMsgs, TypeRest
    <3>7. TypeOK'
      BY <1>0, <1>3, <3>5, <3>6, TypesKept DEF TypeOK, auto
    <3>8. Fine(o)'
      <4>1. s # NoInfo /\ (s \notin {FAILED, DONE} => stateTimer'[o] > 0)
        BY <1>0, <1>2, <2>1, <3>1 DEF Reports, NoInfo, TypeMsgs
      <4> QED BY <3>2, <3>4, <4>1 DEF Fine
    <3>9. ASSUME NEW x \in Obj, x # o PROVE Fine(x)'
      BY <1>0, <1>3, <3>1, <3>3, <3>4, <3>9, LeftAlone DEF LooperKept, Starting, Looper, calls
    <3> QED BY <3>7, <3>8, <3>9, IInvIsFine
  <2> QED BY <2>2, <2>3
<1> QED BY <1>4, <1>5

\* upgradeDone and upgradeFail: the device no longer counts as upgrading.
LEMMA UpgradeEndIInv == ASSUME IInv, HandleUpgradeDone \/ HandleUpgradeFail PROVE IInv'
<1>a. PICK o : o = Head(q).obj
  OBVIOUS
<1>0. /\ TypeOK /\ TypeOta /\ TypeMsgs /\ TypeCalls /\ TypeRest
      /\ \A x \in Obj : Fine(x)
  BY IInvIsFine DEF TypeOK
<1>1. PICK w \in Ends : Take(w) /\ q' = Tail(q)
  BY DEF HandleUpgradeDone, HandleUpgradeFail, Served, Ends
<1>2. /\ o \in Obj /\ q' \in Seq(Message)
      /\ \A x \in Obj : x # o => \A e \in Ends : InQueue(q, e, x) => InQueue(q', e, x)
  BY <1>0, <1>1, <1>a, EndsStay, Carries DEF QueuedObj, Ends
<1>3. UNCHANGED <<list, made, auto, stateTimer, checkTimer, calls, ui, crashed, ignored, spent>>
  BY DEF HandleUpgradeDone, HandleUpgradeFail
<1>4. \/ dev' = [dev EXCEPT ![o].state = "READY", ![o].info = FALSE, ![o].doUpgrade = FALSE]
      \/ dev' = [dev EXCEPT ![o].state = "READY", ![o].doUpgrade = FALSE]
  BY <1>a DEF HandleUpgradeDone, HandleUpgradeFail
<1>5. /\ dev' \in [Obj -> Fields] /\ ~dev'[o].doUpgrade
      /\ dev'[o].state = "READY" /\ dev'[o].ustate = dev[o].ustate
      /\ \A x \in Obj : x # o => dev'[x] = dev[x]
  <2>1. CASE dev' = [dev EXCEPT ![o].state = "READY", ![o].info = FALSE, ![o].doUpgrade = FALSE]
    BY <1>0, <1>2, <2>1 DEF TypeOta, Fields, OTAState
  <2>2. CASE dev' = [dev EXCEPT ![o].state = "READY", ![o].doUpgrade = FALSE]
    BY <1>0, <1>2, <2>2 DEF TypeOta, Fields, OTAState
  <2> QED BY <1>4, <2>1, <2>2
<1>6. TypeOta' /\ TypeMsgs'
  BY <1>0, <1>2, <1>3, <1>5 DEF TypeOta, TypeMsgs
<1>7. TypeOK'
  BY <1>0, <1>3, <1>6, TypesKept DEF TypeOK, auto
<1>8. Fine(o)'
  BY <1>0, <1>1, <1>2, <1>3, <1>5, EndsStay DEF Fine, Starting, Looper, calls, Idle
<1>9. ASSUME NEW x \in Obj, x # o PROVE Fine(x)'
  BY <1>0, <1>2, <1>3, <1>5, <1>9, LeftAlone DEF LooperKept, Starting, Looper, calls
<1> QED BY <1>7, <1>8, <1>9, IInvIsFine

\* deviceUpgradeTimeout: the device no longer counts as upgrading, and its time-out is
\* being handled.
LEMMA TimeoutIInv == ASSUME IInv, NEW o \in Obj, StateChangeTimeout(o) PROVE IInv'
<1>0. /\ TypeOK /\ TypeOta /\ TypeMsgs /\ TypeCalls /\ TypeRest
      /\ \A x \in Obj : Fine(x)
  BY IInvIsFine DEF TypeOK
<1>1. /\ stateTimer' = [stateTimer EXCEPT ![o] = @ - 1] /\ stateTimer[o] > 0
      /\ dev' = [dev EXCEPT ![o].doUpgrade = FALSE]
      /\ looper = Idle /\ looper' = [at |-> "timingOut", obj |-> o]
      /\ UNCHANGED <<list, made, auto, q, checkTimer, notifier, ui, crashed, ignored, spent>>
  BY DEF StateChangeTimeout, Due
<1>2. /\ dev' \in [Obj -> Fields] /\ ~dev'[o].doUpgrade /\ dev'[o].ustate = dev[o].ustate
      /\ \A x \in Obj : x # o => dev'[x] = dev[x]
  BY <1>0, <1>1 DEF TypeOta, Fields
<1>3. TypeOta' /\ TypeMsgs' /\ TypeCalls'
  BY <1>0, <1>1, <1>2 DEF TypeOta, TypeMsgs, TypeCalls
<1>4. TypeOK'
  BY <1>0, <1>1, <1>3, TypesKept DEF TypeOK, auto
<1>5. Fine(o)'
  <2>1. dev[o].ustate # NoInfo
    BY <1>0, <1>1 DEF Fine
  <2>2. Looper("timingOut", o)'
    BY <1>1 DEF Looper
  <2> QED BY <1>2, <2>1, <2>2 DEF Fine
<1>6. ASSUME NEW x \in Obj, x # o PROVE Fine(x)'
  <2>1. stateTimer'[x] = stateTimer[x] /\ dev'[x] = dev[x]
    BY <1>0, <1>1, <1>2, <1>6 DEF TypeMsgs
  <2>2. LooperKept(x)
    BY <1>1, <1>6 DEF LooperKept, Starting, Looper, Idle
  <2> QED BY <1>0, <1>1, <1>6, <2>1, <2>2, LeftAlone
<1> QED BY <1>4, <1>5, <1>6, IInvIsFine

\* The rest of it: the device is READY; another object of that uuid may become so too.
LEMMA TimedOutIInv == ASSUME IInv, UpgradeTimedOut PROVE IInv'
<1>a. PICK o : o = looper.obj
  OBVIOUS
<1>0. /\ TypeOK /\ TypeOta /\ TypeMsgs /\ TypeCalls /\ TypeRest
      /\ \A x \in Obj : Fine(x)
  BY IInvIsFine DEF TypeOK
<1>1. o \in Obj /\ looper = [at |-> "timingOut", obj |-> o]
  BY <1>0, <1>a DEF UpgradeTimedOut, TypeCalls, Idle
<1>2. /\ dev' = AfterTimeout(o) /\ looper' = Idle
      /\ crashed' = (crashed \/ o \in leaked)
      /\ UNCHANGED <<list, made, auto, msgs, notifier, ui, ignored, spent>>
  BY <1>a DEF UpgradeTimedOut
<1>3. /\ dev' \in [Obj -> Fields] /\ dev'[o].state = "READY"
      /\ \A x \in Obj : /\ dev'[x].doUpgrade = dev[x].doUpgrade
                         /\ dev'[x].ustate = dev[x].ustate
                         /\ dev'[x].state \in {dev[x].state, "READY"}
  BY <1>0, <1>1, <1>2 DEF AfterTimeout, TypeOta, Fields, OTAState
<1>4. crashed' \in BOOLEAN /\ (crashed => crashed')
  BY <1>0, <1>2, Zenon DEF TypeRest
<1>5. TypeOta' /\ TypeCalls' /\ TypeRest'
  BY <1>0, <1>2, <1>3, <1>4 DEF TypeOta, TypeCalls, TypeRest
<1>6. TypeOK'
  BY <1>0, <1>2, <1>5, TypesKept DEF TypeOK, auto, msgs
<1>7. \A x \in Obj : ~Starting(x) /\ ~Starting(x)' /\ ~Looper("timingOut", x)'
  BY <1>1, <1>2 DEF Starting, Looper, Idle
<1>8. UNCHANGED <<q, stateTimer, ignored>>
  BY <1>2 DEF msgs
<1>9. ASSUME NEW x \in Obj PROVE Fine(x)'
  <2>1. Fine(x)
    BY <1>0, <1>9
  <2>2. x # o => ~Looper("timingOut", x) /\ ~Looper("beginning", x)
    BY <1>1 DEF Looper
  <2> QED BY <1>3, <1>4, <1>7, <1>8, <2>1, <2>2 DEF Fine
<1> QED BY <1>6, <1>9, IInvIsFine

-----------------------------------------------------------------------------
(* The theorems *)

\* Every step of the program keeps IInv.
LEMMA NextIInv == ASSUME IInv, [Next]_vars PROVE IInv'
<1>1. CASE UNCHANGED vars
  <2>1. TypeOK
    BY DEF IInv
  <2>2. TypeOK'
    BY <1>1, <2>1, TypesKept DEF vars, ota, auto, msgs, TypeOK
  <2>3. Quiet
    BY <1>1 DEF vars, ota, msgs, calls, Quiet, QuietFields, LooperKept, Starting, Looper
  <2> QED BY <2>2, <2>3, QuietStep
<1>2. CASE Serve
  BY <1>2, CheckVersionIInv, StartUpgradeIInv, StateChangeIInv, UpgradeEndIInv, PrepareIInv,
     UserConfirmIInv, LaunchIInv, UserFeedbackIInv DEF Serve
<1>3. CASE Return
  BY <1>3, LooperCheckedIInv, DoUpgradeIInv, UpgradeCommandedIInv, TimedOutIInv DEF Return
<1>4. CASE Timers
  BY <1>4, TimeoutIInv, CheckTimeoutIInv, NullDeviceTimeoutIInv, AutoStartIInv DEF Timers
<1>5. CASE Notifier
  BY <1>5, NotifierIInv, AddDeviceIInv DEF Notifier
<1>6. CASE User
  BY <1>6, OpenIInv, PostIInv, CloseIInv, AnswerIInv DEF User
<1>7. CASE Environment
  <2>1. 1 \in Dev
    BY BoundsAssumption DEF Dev
  <2> QED BY <1>7, <2>1, PostIInv DEF Environment
<1> QED BY <1>1, <1>2, <1>3, <1>4, <1>5, <1>6, <1>7 DEF Next, Step

\* IInv holds in every state the program reaches.
THEOREM InductiveInvariant == Spec => []IInv
  BY InitIInv, NextIInv, PTL DEF Spec

\* The variables keep their types, whatever the order of the threads' steps.
THEOREM TypeCorrect == Spec => []TypeOK
<1>1. IInv => TypeOK
  BY DEF IInv
<1> QED BY <1>1, InductiveInvariant, PTL

\* An upgrade is never left to itself: a time-out, a running command or a queued end
\* watches it, unless its last report was dropped as late.
THEOREM UpgradesAreGuarded == Spec => []UpgradeGuarded
<1>1. IInv => UpgradeGuarded
  BY DEF IInv
<1> QED BY <1>1, InductiveInvariant, PTL

\* The time-out of an upgrade never meets a missing upgradeStateInfo.
THEOREM TimeoutsHaveState == Spec => []TimeoutHasState
<1>1. IInv => TimeoutHasState
  BY DEF IInv
<1> QED BY <1>1, InductiveInvariant, PTL

\* The progress bar without a button is shown only during an upgrade.
THEOREM ProgressBarsEnd == Spec => []ProgressMeansUpgrading
<1>1. IInv => ProgressMeansUpgrading
  BY DEF IInv
<1> QED BY <1>1, InductiveInvariant, PTL

-----------------------------------------------------------------------------
(* The question to the user *)

Asking == {"USER_CONFIRM", "USER_FEEDBACK", "LAUNCH"}
Asks(s) == \E i \in 1..Len(s) : s[i].what \in Asking

\* The user can answer for d, now or after the activity or the check that is on its way.
Answerable(d) == Asked(d) /\ (dialogs[d] > 0 \/ d \in intents \/ CheckComing(d))

LEMMA Places ==
  /\ QuestionOpen <=> Asks(q) \/ (\E d \in Dev : Answerable(d)) \/ reminders # {}
  /\ QuestionOpen' <=> Asks(q') \/ (\E d \in Dev : Answerable(d)') \/ reminders' # {}
  BY DEF QuestionOpen, Asks, Asking, Answerable

\* A message that asks is in the queue behind whatever was posted before it.
LEMMA AsksPosted ==
  ASSUME NEW s \in Seq(Message), NEW m \in Message, m.what \in Asking
  PROVE  Asks(Append(s, m))
<1>1. InQueue(Append(s, m), m.what, m.obj)
  BY Posted
<1> QED BY <1>1 DEF InQueue, Asks

-----------------------------------------------------------------------------
(* Patient steps *)

\* The messages the question depends on.
Told == Asking \cup {"CHECK_VERSION"}

\* The messages of t that the question depends on are in u as well.
Keeps(t, u) == \A w \in Told : \A x : InQueue(t, w, x) => InQueue(u, w, x)

LEMMA AsksKept == ASSUME NEW t, NEW u, Keeps(t, u) PROVE Asks(t) => Asks(u)
<1> SUFFICES ASSUME NEW i \in 1..Len(t), t[i].what \in Asking PROVE Asks(u)
  BY DEF Asks
<1>1. InQueue(t, t[i].what, t[i].obj) /\ t[i].what \in Told
  BY DEF InQueue, Told
<1>2. InQueue(u, t[i].what, t[i].obj)
  BY <1>1 DEF Keeps
<1> QED BY <1>2 DEF InQueue, Asks

\* A step that asks nothing new, and leaves the question somewhere if it was open.
Patient ==
  /\ autoState' = "SEND_CONFIRM" => autoState = "SEND_CONFIRM"
  /\ QuestionOpen => QuestionOpen'

\* What the step must say so that nothing is lost.
Settled == Patient \/ QuestionOpen' \/ crashed' \/ autoState' # "SEND_CONFIRM" \/ Drops

LEMMA SettledStep == ASSUME Settled PROVE QuestionKept
  BY DEF Settled, Patient, QuestionKept

\* A check that an activity will hear of goes on as long as nobody takes its message or
\* ends it.
LEMMA ComingKept ==
  ASSUME NEW d, CheckComing(d), UNCHANGED <<activity, list>>, Keeps(q, q'),
         Looper("checking", Current(d)) => Looper("checking", Current(d))',
         notifier = [at |-> "checking", obj |-> Current(d)] => notifier' = notifier
  PROVE  CheckComing(d)'
<1>1. InQueue(q, "CHECK_VERSION", Uuid(d)) => InQueue(q', "CHECK_VERSION", Uuid(d))
  BY DEF Keeps, Told
<1>2. Current(d)' = Current(d)
  BY DEF Current
<1> QED BY <1>1, <1>2 DEF CheckComing, InQueue, Looper

\* A check of the looper goes on while the looper stays in it.
LEMMA LooperSame ==
  ASSUME UNCHANGED <<list, looper>>
  PROVE  \A d \in Dev : Looper("checking", Current(d)) => Looper("checking", Current(d))'
  BY DEF Looper, Current

\* A step is patient when, for every device, it leaves alone what the question depends on.
LEMMA LeftOpen ==
  ASSUME Keeps(q, q'), reminders \subseteq reminders',
         autoState' = "SEND_CONFIRM" => autoState = "SEND_CONFIRM",
         \A d \in Dev : Answerable(d) => Answerable(d)' \/ QuestionOpen'
  PROVE  Patient
<1>1. Asks(q) => Asks(q')
  BY AsksKept
<1>2. (\E d \in Dev : Answerable(d)) => QuestionOpen'
  BY Places
<1> QED BY <1>1, <1>2, Places DEF Patient

\* A step that changes neither the list nor what the activities show, keeps the flag of
\* every device and no check that is under way.
LEMMA Aside ==
  ASSUME Keeps(q, q'), UNCHANGED <<list, activity, dialogs, intents, reminders>>,
         autoState' = "SEND_CONFIRM" => autoState = "SEND_CONFIRM",
         \A d \in Dev : Asked(d) => dev'[Current(d)].confirm,
         \A d \in Dev : Looper("checking", Current(d)) => Looper("checking", Current(d))',
         notifier.at = "checking" => notifier' = notifier
  PROVE  Patient
<1>1. ASSUME NEW d \in Dev, Answerable(d) PROVE Answerable(d)'
  <2>1. Asked(d) /\ Asked(d)'
    BY <1>1 DEF Answerable, Asked, Current
  <2>2. CheckComing(d) => CheckComing(d)'
    BY ComingKept
  <2> QED BY <1>1, <2>1, <2>2 DEF Answerable
<1> QED BY <1>1, LeftOpen

\* No step but an answer takes the flag from a device.
LEMMA ConfirmKept ==
  ASSUME TypeOK, \A x \in Obj : dev[x].confirm => dev'[x].confirm
  PROVE  \A d \in Dev : Asked(d) => dev'[Current(d)].confirm
<1> SUFFICES ASSUME NEW d \in Dev, Asked(d) PROVE dev'[Current(d)].confirm
  OBVIOUS
<1>1. Current(d) \in Obj
  BY CurrentType DEF Asked
<1> QED BY <1>1 DEF Asked

\* A message the question does not depend on is served, and others are posted behind it.
LEMMA OtherServed ==
  ASSUME TypeOK, NEW w, Take(w), w \notin Told
  PROVE  /\ looper = Idle /\ Head(q) \in Message /\ Head(q).what = w
         /\ Tail(q) \in Seq(Message) /\ Keeps(q, Tail(q))
         /\ \A m \in Message : Keeps(q, Append(Tail(q), m))
<1>1. q \in Seq(Message) /\ q # << >>
  BY DEF TypeOK, TypeMsgs, Take
<1>2. Tail(q) \in Seq(Message) /\ Head(q) \in Message /\ Keeps(q, Tail(q))
  BY <1>1, TakenOut DEF Take, Keeps
<1>3. ASSUME NEW m \in Message PROVE Keeps(q, Append(Tail(q), m))
  <2>1. \A v, x : InQueue(Tail(q), v, x) => InQueue(Append(Tail(q), m), v, x)
    BY <1>2, Posted
  <2> QED BY <1>2, <2>1 DEF Keeps
<1> QED BY <1>2, <1>3 DEF Take

\* A step that posts at most one message keeps those that are there.
LEMMA OtherPosted ==
  ASSUME TypeOK, NEW m \in Message, Post(m) \/ UNCHANGED q
  PROVE  Keeps(q, q')
<1>1. q \in Seq(Message)
  BY DEF TypeOK, TypeMsgs
<1>2. CASE UNCHANGED q
  BY <1>2 DEF Keeps
<1>3. CASE Post(m)
  BY <1>1, <1>3, Posted DEF Post, Keeps
<1> QED BY <1>2, <1>3

-----------------------------------------------------------------------------
(* The looper's upgrades *)

\* updateState marks the device and may queue the end of its upgrade.
LEMMA StateChangeSettled == ASSUME TypeOK, HandleStateChange PROVE Settled
<1>a. PICK o : o = Current(Head(q).obj[1])
  OBVIOUS
<1>b. PICK s : s = Head(q).arg
  OBVIOUS
<1>0. dev \in [Obj -> Fields]
  BY DEF TypeOK, TypeOta
<1>1. Take("STATE_CHANGE") /\ "STATE_CHANGE" \notin Told
  BY DEF HandleStateChange, Told, Asking
<1>2. /\ Head(q) \in Message /\ Head(q).what = "STATE_CHANGE"
      /\ Keeps(q, Tail(q)) /\ \A m \in Message : Keeps(q, Append(Tail(q), m))
  BY <1>1, OtherServed
<1>3. UNCHANGED <<list, activity, dialogs, intents, reminders, autoState, looper, notifier>>
  BY DEF HandleStateChange, auto, ui, calls
<1>4. Keeps(q, q') /\ \A x \in Obj : dev[x].confirm => dev'[x].confirm
  <2>1. CASE o = NoObj
    <3>1. q' = Tail(q) /\ dev' = dev
      BY <2>1, <1>a DEF HandleStateChange, Served
    <3> QED BY <1>2, <3>1
  <2>2. CASE o # NoObj
    <3> DEFINE late == dev[o].ustate # NoInfo /\ s < dev[o].ustate /\ s >= 0
               upgrading == [dev EXCEPT ![o].doUpgrade = TRUE, ![o].state = "UPGRADE"]
    <3>1. Head(q).obj[1] \in Dev
      BY <1>2, Carries DEF QueuedUuid
    <3>2. o \in Obj /\ \A e \in Ends : Msg(e, o, 0) \in Message
      BY <2>2, <1>a, <3>1, CurrentType, Posts DEF QueuedObj, Ends
    <3>3. CASE late
      <4>1. /\ dev' = upgrading /\ q' = Tail(q) /\ ignored' = ignored \cup {o}
            /\ stateTimer' = [stateTimer EXCEPT ![o] = 0]
        BY <2>2, <1>a, <1>b, <3>3, ZenonT(30) DEF HandleStateChange, Served
      <4>2. \A x \in Obj : dev'[x].confirm = dev[x].confirm
        BY <1>0, <3>2, <4>1 DEF Fields
      <4> HIDE DEF late, upgrading
      <4> QED BY <1>2, <4>1, <4>2
    <3>4. CASE ~late
      <4>1. /\ dev' = [upgrading EXCEPT ![o].ustate = s]
            /\ ignored' = ignored \ {o}
            /\ stateTimer' = [stateTimer EXCEPT ![o] = IF s \in {FAILED, DONE} THEN 0 ELSE 1]
            /\ \/ s \notin {FAILED, DONE} /\ q' = Tail(q)
               \/ \E e \in Ends : q' = Append(Tail(q), Msg(e, o, 0))
        BY <2>2, <1>a, <1>b, <3>4, ZenonT(30)
        DEF HandleStateChange, Served, ServedThenPost, Ends
      <4>2. \A x \in Obj : dev'[x].confirm = dev[x].confirm
        BY <1>0, <3>2, <4>1 DEF Fields
      <4>3. Keeps(q, q')
        BY <1>2, <3>2, <4>1
      <4> HIDE DEF late, upgrading
      <4> QED BY <4>2, <4>3
    <3> QED BY <3>3, <3>4
  <2> QED BY <2>1, <2>2
<1>5. Patient
  <2>1. \A d \in Dev : Asked(d) => dev'[Current(d)].confirm
    BY <1>4, ConfirmKept
  <2> QED BY <1>3, <1>4, <2>1, LooperSame, Aside
<1> QED BY <1>5 DEF Settled

\* deviceStartUpgradeNow, upgradeDone and upgradeFail leave the flag alone.
LEMMA ServeSettled ==
  ASSUME TypeOK, HandleStartUpgrade \/ HandleUpgradeDone \/ HandleUpgradeFail
  PROVE  Settled
<1>0. dev \in [Obj -> Fields]
  BY DEF TypeOK, TypeOta
<1>1. PICK w \in {"START_UPGRADE", "UPGRADE_DONE", "UPGRADE_FAIL"} : Take(w) /\ q' = Tail(q)
  BY DEF HandleStartUpgrade, HandleUpgradeDone, HandleUpgradeFail, Served
<1>2. Keeps(q, q') /\ looper = Idle
  BY <1>1, OtherServed DEF Told, Asking
<1>3. UNCHANGED <<list, activity, dialogs, intents, reminders, autoState, notifier>>
  BY DEF HandleStartUpgrade, HandleUpgradeDone, HandleUpgradeFail, auto, ui, calls
<1>4. \A x \in Obj : dev[x].confirm => dev'[x].confirm
  BY <1>0 DEF HandleStartUpgrade, HandleUpgradeDone, HandleUpgradeFail, Fields
<1>5. \A d \in Dev : Asked(d) => dev'[Current(d)].confirm
  BY <1>4, ConfirmKept
<1>6. \A d \in Dev : ~Looper("checking", Current(d))
  BY <1>2 DEF Looper, Idle
<1> QED BY <1>2, <1>3, <1>5, <1>6, Aside DEF Settled

\* The steps of the looper inside an upgrade or a time-out, and the other delayed messages.
LEMMA UpgradeSettled ==
  ASSUME TypeOK, NEW o \in Obj,
         \/ DoUpgrade \/ UpgradeCommanded \/ StateChangeTimeout(o) \/ UpgradeTimedOut
         \/ NullDeviceTimeout \/ CheckVersionTimeout(o)
  PROVE  Settled
<1>0. dev \in [Obj -> Fields]
  BY DEF TypeOK, TypeOta
<1>1. Keeps(q, q')
  <2>1. CASE UpgradeCommanded
    <3>1. looper.obj[1] \in Dev
      BY <2>1 DEF UpgradeCommanded, TypeOK, TypeCalls, Idle, Obj
    <3>2. Msg("STATE_CHANGE", Uuid(looper.obj[1]), FAILED) \in Message
      BY <3>1, Posts DEF FAILED, Reports
    <3> QED BY <2>1, <3>2, OtherPosted DEF UpgradeCommanded
  <2>2. CASE ~UpgradeCommanded
    <3>1. q' = q
      BY <2>2 DEF DoUpgrade, StateChangeTimeout, UpgradeTimedOut, NullDeviceTimeout,
                  CheckVersionTimeout, msgs
    <3> QED BY <3>1 DEF Keeps
  <2> QED BY <2>1, <2>2
<1>2. UNCHANGED <<list, activity, dialogs, intents, reminders, autoState, notifier>>
  BY DEF DoUpgrade, UpgradeCommanded, StateChangeTimeout, UpgradeTimedOut,
         NullDeviceTimeout, CheckVersionTimeout, ota, auto, ui, calls
<1>3. \A x \in Obj : dev[x].confirm => dev'[x].confirm
  <2>1. CASE UpgradeTimedOut
    BY <1>0, <2>1 DEF UpgradeTimedOut, AfterTimeout, Fields
  <2>2. CASE DoUpgrade
    BY <1>0, <2>2 DEF DoUpgrade, Fields
  <2>3. CASE StateChangeTimeout(o)
    BY <1>0, <2>3 DEF StateChangeTimeout, Fields
  <2>4. CASE UpgradeCommanded \/ NullDeviceTimeout \/ CheckVersionTimeout(o)
    BY <2>4 DEF UpgradeCommanded, NullDeviceTimeout, CheckVersionTimeout, ota
  <2> QED BY <2>1, <2>2, <2>3, <2>4
<1>4. \A d \in Dev : Asked(d) => dev'[Current(d)].confirm
  BY <1>3, ConfirmKept
<1>5. looper.at # "checking"
  BY DEF DoUpgrade, UpgradeCommanded, StateChangeTimeout, UpgradeTimedOut,
         NullDeviceTimeout, CheckVersionTimeout, Due, Idle
<1>6. \A d \in Dev : ~Looper("checking", Current(d))
  BY <1>5 DEF Looper
<1> QED BY <1>1, <1>2, <1>4, <1>6, Aside DEF Settled

-----------------------------------------------------------------------------
(* Checks *)

\* deviceCheckVersionNow: the check an activity waits for is begun.
LEMMA CheckSettled == ASSUME TypeOK, HandleCheckVersion PROVE Settled
<1>a. PICK o : o = Current(Head(q).obj[1])
  OBVIOUS
<1>0. dev \in [Obj -> Fields] /\ q \in Seq(Message)
  BY DEF TypeOK, TypeOta, TypeMsgs
<1>1. /\ Take("CHECK_VERSION") /\ q' = Tail(q) /\ q # << >>
      /\ looper = Idle /\ Head(q).what = "CHECK_VERSION"
  BY DEF HandleCheckVersion, Served, Take
<1>2. UNCHANGED <<list, activity, dialogs, intents, reminders, autoState, notifier>>
  BY DEF HandleCheckVersion, auto, ui
<1>3. \A w, x : InQueue(q, w, x) /\ (w # "CHECK_VERSION" \/ x # Head(q).obj)
        => InQueue(q', w, x)
  BY <1>0, <1>1, TakenOut
<1>4. \A x \in Obj : dev[x].confirm => dev'[x].confirm
  BY <1>0 DEF HandleCheckVersion, StartCheck, Fields
<1>5. Asks(q) => Asks(q')
  <2> SUFFICES ASSUME NEW i \in 1..Len(q), q[i].what \in Asking PROVE Asks(q')
    BY DEF Asks
  <2>1. InQueue(q, q[i].what, q[i].obj) /\ q[i].what # "CHECK_VERSION"
    BY DEF InQueue, Asking
  <2>2. InQueue(q', q[i].what, q[i].obj)
    BY <1>3, <2>1
  <2> QED BY <2>2 DEF InQueue, Asks
<1>6. ASSUME NEW d \in Dev, Answerable(d) PROVE Answerable(d)'
  <2>1. Asked(d) /\ Asked(d)' /\ Current(d)' = Current(d) /\ Current(d) # NoObj
    <3>1. Asked(d) /\ dev'[Current(d)].confirm
      BY <1>4, <1>6, ConfirmKept DEF Answerable
    <3> QED BY <1>2, <3>1, CurrentType DEF Asked, Current
  <2>2. CheckComing(d) => CheckComing(d)'
    <3>1. CASE InQueue(q, "CHECK_VERSION", Uuid(d)) /\ Head(q).obj = Uuid(d)
      <4>1. o = Current(d)
        BY <1>a, <3>1 DEF Uuid
      <4>2. Looper("checking", Current(d))'
        BY <1>a, <2>1, <4>1 DEF HandleCheckVersion, Looper
      <4> QED BY <1>2, <2>1, <4>2 DEF CheckComing
    <3>2. CASE InQueue(q, "CHECK_VERSION", Uuid(d)) /\ Head(q).obj # Uuid(d)
      <4>1. InQueue(q', "CHECK_VERSION", Uuid(d))
        BY <1>3, <3>2
      <4> QED BY <1>2, <4>1 DEF CheckComing, InQueue
    <3>3. CASE ~InQueue(q, "CHECK_VERSION", Uuid(d))
      <4>1. ~Looper("checking", Current(d))
        BY <1>1 DEF Looper, Idle
      <4> QED BY <1>2, <2>1, <3>3, <4>1 DEF CheckComing, InQueue
    <3> QED BY <3>1, <3>2, <3>3
  <2> QED BY <1>2, <1>6, <2>1, <2>2 DEF Answerable
<1>7. QuestionOpen => QuestionOpen'
  BY <1>2, <1>5, <1>6, Places
<1> QED BY <1>2, <1>7 DEF Settled, Patient

\* A check ends with a dialog for whoever waited for it, or the question is dropped.
LEMMA CheckedSettled ==
  ASSUME TypeOK, LooperChecked \/ NotifierChecked
  PROVE  Settled
<1>0. dev \in [Obj -> Fields] /\ dialogs \in [Dev -> Nat]
  BY DEF TypeOK, TypeOta, TypeUi
<1>1. PICK p \in Obj : /\ \E found \in BOOLEAN : EndCheck(p, found)
                       /\ \/ LooperChecked /\ looper.obj = p
                          \/ NotifierChecked /\ notifier.obj = p
  BY DEF LooperChecked, NotifierChecked, TypeOK, TypeCalls, Idle
<1>2. UNCHANGED <<list, activity, intents, reminders, autoState>> /\ Keeps(q, q')
  BY DEF LooperChecked, NotifierChecked, auto, msgs, Keeps
<1>3. CASE UNCHANGED dialogs
  BY <1>3 DEF Settled, Drops
<1>4. CASE dialogs' # dialogs
  <2>1. p[1] \in Dev /\ dialogs' = [dialogs EXCEPT ![p[1]] = @ + 1]
    BY <1>1, <1>4 DEF EndCheck, Obj
  <2>2. \A x \in Obj : dev[x].confirm => dev'[x].confirm
    BY <1>0, <1>1 DEF EndCheck, Fields
  <2>3. ASSUME NEW d \in Dev, Answerable(d) PROVE Answerable(d)'
    <3>1. Asked(d) /\ Asked(d)' /\ Current(d) = <<d, list[d]>>
      <4>1. Asked(d) /\ dev'[Current(d)].confirm
        BY <2>2, <2>3, ConfirmKept DEF Answerable
      <4> QED BY <1>2, <4>1 DEF Asked, Current
    <3>2. CASE d = p[1]
      <4>1. dialogs'[d] > 0
        BY <1>0, <2>1, <3>2
      <4> QED BY <3>1, <4>1 DEF Answerable
    <3>3. CASE d # p[1]
      <4>1. dialogs'[d] = dialogs[d] /\ Current(d) # p
        BY <1>0, <2>1, <3>1, <3>3
      <4>2. /\ Looper("checking", Current(d)) => Looper("checking", Current(d))'
            /\ notifier = [at |-> "checking", obj |-> Current(d)] => notifier' = notifier
        BY <1>1, <1>2, <3>1, <4>1 DEF LooperChecked, NotifierChecked, Looper, Current
      <4>3. CheckComing(d) => CheckComing(d)'
        BY <1>2, <4>2, ComingKept
      <4> QED BY <1>2, <2>3, <3>1, <4>1, <4>3 DEF Answerable
    <3> QED BY <3>2, <3>3
  <2> QED BY <1>2, <2>3, LeftOpen DEF Settled
<1> QED BY <1>3, <1>4

-----------------------------------------------------------------------------
(* RoomHubManager and the messages that are only posted *)

\* addDevice makes or checks an object; removeDevice of a device that is asked about is
\* among the drops.
LEMMA NotifierSettled ==
  ASSUME TypeOK, NEW d0 \in Dev, AddDevice(d0) \/ RemoveCheck(d0) \/ RemoveDevice
  PROVE  Settled
<1>0. dev \in [Obj -> Fields] /\ list \in [Dev -> 0..MaxGen]
  BY DEF TypeOK, TypeOta
<1>1. CASE RemoveDevice
  BY <1>1 DEF Settled, Drops
<1>2. CASE RemoveCheck(d0)
  <2>1. /\ UNCHANGED <<list, dev, activity, dialogs, intents, reminders, autoState, q, looper>>
        /\ notifier = Idle
    BY <1>2 DEF RemoveCheck, ota, auto, msgs, ui
  <2>2. Keeps(q, q') /\ notifier.at # "checking"
    BY <2>1 DEF Keeps, Idle
  <2>3. \A d \in Dev : Asked(d) => dev'[Current(d)].confirm
    BY <2>1 DEF Asked
  <2> QED BY <2>1, <2>2, <2>3, LooperSame, Aside DEF Settled
<1>3. CASE AddDevice(d0)
  <2>1. /\ UNCHANGED <<activity, dialogs, intents, reminders, autoState, q, looper>>
        /\ notifier = Idle
    BY <1>3 DEF AddDevice, auto, msgs, ui
  <2>2. \A d \in Dev : list[d] # 0 => list'[d] = list[d]
    BY <1>0, <1>3 DEF AddDevice
  <2>3. \A x \in Obj : dev[x].confirm => dev'[x].confirm
    BY <1>0, <1>3 DEF AddDevice, StartCheck, Fields
  <2>4. ASSUME NEW d \in Dev, Answerable(d) PROVE Answerable(d)'
    <3>1. Asked(d) /\ dev'[Current(d)].confirm
      BY <2>3, <2>4, ConfirmKept DEF Answerable
    <3>2. Asked(d)' /\ list'[d] = list[d] /\ Current(d)' = Current(d)
      BY <2>2, <3>1 DEF Asked, Current
    <3>3. CheckComing(d) => CheckComing(d)'
      BY <2>1, <3>2 DEF CheckComing, Looper, Idle
    <3> QED BY <2>1, <2>4, <3>2, <3>3 DEF Answerable
  <2>5. Keeps(q, q')
    BY <2>1 DEF Keeps
  <2> QED BY <2>1, <2>4, <2>5, LeftOpen DEF Settled
<1> QED BY <1>1, <1>2, <1>3

\* Whoever posts a message leaves the question where it is; the update button of a
\* reminder passes it on.
LEMMA PostSettled ==
  ASSUME TypeOK, NEW d \in Dev,
         \/ \E s \in Reports : StateReport(d, s)
         \/ OnLogin \/ PressCheckNow(d) \/ PressReminder(d)
  PROVE  Settled
<1>0. q \in Seq(Message)
  BY DEF TypeOK, TypeMsgs
<1>1. CASE PressReminder(d)
  <2>1. Msg("LAUNCH", Uuid(d), 0) \in Message /\ Msg("LAUNCH", Uuid(d), 0).what \in Asking
    BY Posts DEF QueuedUuid, Msg, Asking
  <2>2. Asks(q')
    BY <1>0, <1>1, <2>1, AsksPosted DEF PressReminder, Post
  <2> QED BY <2>2, Places DEF Settled
<1>2. CASE ~PressReminder(d)
  <2>1. PICK m \in Message : Post(m) \/ UNCHANGED q
    <3>1. CASE \E s \in Reports : StateReport(d, s)
      BY <3>1, Posts DEF StateReport
    <3>2. CASE OnLogin
      BY <3>2, Posts DEF OnLogin
    <3>3. CASE PressCheckNow(d)
      <4>1. Msg("CHECK_VERSION", Uuid(d), 0) \in Message
        BY Posts DEF QueuedUuid
      <4>2. Post(Msg("CHECK_VERSION", Uuid(d), 0)) \/ UNCHANGED q
        BY <3>3 DEF PressCheckNow, AskForCheck, Current
      <4> QED BY <4>1, <4>2
    <3> QED BY <1>2, <3>1, <3>2, <3>3
  <2>2. Keeps(q, q')
    BY <2>1, OtherPosted
  <2>3. UNCHANGED <<list, dev, activity, dialogs, intents, reminders, autoState, looper,
                    notifier>>
    BY <1>2 DEF StateReport, OnLogin, PressCheckNow, ota, auto, calls, ui
  <2>4. \A x \in Dev : Asked(x) => dev'[Current(x)].confirm
    BY <2>3 DEF Asked
  <2> QED BY <2>2, <2>3, <2>4, LooperSame, Aside DEF Settled
<1> QED BY <1>1, <1>2

-----------------------------------------------------------------------------
(* The question is asked, shown and answered *)

\* prepareAutoUpdate asks, or leaves mAutoUpdateState and the messages alone.
LEMMA PrepareSettled == ASSUME TypeOK, HandlePrepare \/ AutoUpdateStart PROVE Settled
<1> DEFINE o == FirstOf({d \in Entries : ~dev[Entry(d)].confirm})
           m == Msg("USER_CONFIRM", o, 0)
<1>0. q \in Seq(Message)
  BY DEF TypeOK, TypeMsgs
<1>1. o # NoObj => m \in Message /\ m.what \in Asking
  <2>1. o # NoObj => o \in Obj
    BY FirstOfType
  <2> HIDE DEF o
  <2> QED BY <2>1, Posts DEF QueuedObj, Msg, Asking
<1>2. UNCHANGED <<list, dev, activity, dialogs, intents, reminders, looper, notifier>>
  BY DEF HandlePrepare, AutoUpdateStart, ota, calls, ui
<1>3. \A d \in Dev : Asked(d) => dev'[Current(d)].confirm
  BY <1>2 DEF Asked
<1>4. CASE HandlePrepare
  <2>1. Tail(q) \in Seq(Message) /\ Keeps(q, Tail(q))
    BY <1>4, OtherServed DEF HandlePrepare, Told, Asking
  <2>2. \/ autoState' = autoState /\ q' = Tail(q)
        \/ o # NoObj /\ q' = Append(Tail(q), m)
    BY <1>4, Zenon DEF HandlePrepare, PrepareAutoUpdate
  <2> HIDE DEF o, m
  <2>3. CASE o # NoObj /\ q' = Append(Tail(q), m)
    <3>1. Asks(q')
      BY <1>1, <2>1, <2>3, AsksPosted
    <3> QED BY <3>1, Places DEF Settled
  <2>4. CASE autoState' = autoState /\ q' = Tail(q)
    <3>1. Patient
      BY <1>2, <1>3, <2>1, <2>4, LooperSame, Aside
    <3> QED BY <3>1 DEF Settled
  <2> QED BY <2>2, <2>3, <2>4
<1>5. CASE AutoUpdateStart
  <2>1. \/ autoState' \in {autoState, "START"} /\ q' = q
        \/ o # NoObj /\ q' = Append(q, m)
    BY <1>5, Zenon DEF AutoUpdateStart, PrepareAutoUpdate
  <2> HIDE DEF o, m
  <2>2. CASE o # NoObj /\ q' = Append(q, m)
    <3>1. Asks(q')
      BY <1>0, <1>1, <2>2, AsksPosted
    <3> QED BY <3>1, Places DEF Settled
  <2>3. CASE autoState' \in {autoState, "START"} /\ q' = q
    <3>1. Keeps(q, q')
      BY <2>3 DEF Keeps
    <3>2. Patient
      BY <1>2, <1>3, <2>3, <3>1, LooperSame, Aside
    <3> QED BY <3>2 DEF Settled
  <2> QED BY <2>1, <2>2, <2>3
<1> QED BY <1>4, <1>5

\* launchOTAActivity marks the device, and its activity is on its way, or nothing happens.
LEMMA LaunchOpens ==
  ASSUME TypeOK, NEW o \in Obj, o = Current(o[1]), UNCHANGED list, LaunchOTAActivity(o)
  PROVE  QuestionOpen' \/ UNCHANGED dev
<1>1. dev \in [Obj -> Fields] /\ o[1] \in Dev
  BY DEF TypeOK, TypeOta, Obj
<1>2. SUFFICES ASSUME dev' = [dev EXCEPT ![o].confirm = TRUE], intents' = intents \cup {o[1]}
               PROVE  Answerable(o[1])'
  BY <1>1, Places DEF LaunchOTAActivity
<1>3. dev'[o].confirm
  BY <1>1, <1>2 DEF Fields
<1>4. list[o[1]] # 0 /\ Current(o[1])' = o
  BY <1>1, CurrentType DEF Current
<1> QED BY <1>2, <1>3, <1>4 DEF Answerable, Asked

\* The question changes its place: it reaches the user, or goes to the next device.
LEMMA QuestionMoves ==
  ASSUME TypeOK, HandleUserConfirm \/ HandleLaunch \/ HandleUserFeedback
  PROVE  Settled
<1>0. /\ q \in Seq(Message) /\ q # << >>
      /\ Head(q) \in Message /\ Tail(q) \in Seq(Message)
  BY TakenOut DEF TypeOK, TypeMsgs, HandleUserConfirm, HandleLaunch, HandleUserFeedback, Take
<1>1. CASE HandleUserConfirm
  <2>1. Head(q).obj \in Obj
    BY <1>0, <1>1, Carries DEF HandleUserConfirm, Take, QueuedObj
  <2>2. CASE Head(q).obj # Current(Head(q).obj[1])
    BY <1>1, <2>2 DEF Settled, Drops
  <2>3. CASE Head(q).obj = Current(Head(q).obj[1])
    <3>1. \/ LaunchOTAActivity(Head(q).obj) /\ UNCHANGED reminders
          \/ reminders' = reminders \cup {Head(q).obj[1]} \/ crashed' = TRUE
      BY <1>1 DEF HandleUserConfirm
    <3>2. CASE LaunchOTAActivity(Head(q).obj) /\ UNCHANGED reminders
      <4>1. QuestionOpen' \/ UNCHANGED dev
        BY <1>1, <2>1, <2>3, <3>2, LaunchOpens DEF HandleUserConfirm
      <4> QED BY <1>1, <3>2, <4>1 DEF Settled, Drops
    <3>3. CASE reminders' = reminders \cup {Head(q).obj[1]}
      BY <3>3, Places DEF Settled
    <3> QED BY <3>1, <3>2, <3>3 DEF Settled
  <2> QED BY <2>2, <2>3
<1>2. CASE HandleLaunch
  <2> DEFINE o == Current(Head(q).obj[1])
  <2>1. Head(q).obj[1] \in Dev
    BY <1>0, <1>2, Carries DEF HandleLaunch, Take, QueuedUuid
  <2>2. UNCHANGED <<list, reminders>>
    BY <1>2 DEF HandleLaunch
  <2>3. \/ o # NoObj /\ LaunchOTAActivity(o)
        \/ UNCHANGED dev
    BY <1>2 DEF HandleLaunch
  <2>4. o # NoObj => o \in Obj /\ o = Current(o[1])
    BY <2>1, CurrentType DEF Current
  <2> HIDE DEF o
  <2>5. QuestionOpen' \/ UNCHANGED dev
    BY <2>2, <2>3, <2>4, LaunchOpens
  <2> QED BY <1>2, <2>2, <2>5 DEF Settled, Drops
<1>3. CASE HandleUserFeedback
  <2> DEFINE next == NextAutoUpdateDevice(Head(q).obj)
             m == Msg("USER_CONFIRM", next, 0)
  <2>1. \/ next # NoObj /\ q' = Append(Tail(q), m)
        \/ autoState' = "SEND_CONFIRM_DONE"
    BY <1>3 DEF HandleUserFeedback, ServedThenPost
  <2>2. next # NoObj => next \in Obj
    BY NextDeviceType
  <2> HIDE DEF next
  <2>3. next # NoObj => m \in Message /\ m.what \in Asking
    BY <2>2, Posts DEF QueuedObj, Msg, Asking
  <2> HIDE DEF m
  <2>4. next # NoObj => Asks(Append(Tail(q), m))
    BY <1>0, <2>3, AsksPosted
  <2> QED BY <2>1, <2>4, Places DEF Settled
<1> QED BY <1>1, <1>2, <1>3

\* Opening the activity shows the dialog, asks for a check, or drops the question.
LEMMA OpenSettled == ASSUME TypeOK, NEW d0 \in Dev, OpenActivity(d0) PROVE Settled
<1>0. /\ dev \in [Obj -> Fields] /\ q \in Seq(Message) /\ dialogs \in [Dev -> Nat]
      /\ activity \in [Dev -> Closed..MaxGen] /\ list \in [Dev -> 0..MaxGen]
  BY DEF TypeOK, TypeOta, TypeMsgs, TypeUi
<1> DEFINE m == Msg("CHECK_VERSION", Uuid(d0), 0)
<1>1. /\ activity[d0] = Closed /\ activity' = [activity EXCEPT ![d0] = list[d0]]
      /\ intents' = intents \ {d0} \/ UNCHANGED intents
      /\ dialogs' = [dialogs EXCEPT ![d0] = @ + 1] \/ UNCHANGED dialogs
      /\ q' = Append(q, m) \/ UNCHANGED q
      /\ UNCHANGED dev \/ dev' = [dev EXCEPT ![Current(d0)].state = "READY"]
  BY DEF OpenActivity, AskForCheck, Post, Current
<1>2. UNCHANGED <<list, autoState, reminders, looper, notifier>>
  BY DEF OpenActivity, auto, calls
<1>3. m \in Message
  BY Posts DEF QueuedUuid
<1>4. Keeps(q, q')
  BY <1>1, <1>3, OtherPosted DEF Post
<1>5. \A x \in Obj : dev[x].confirm => dev'[x].confirm
  BY <1>0, <1>1 DEF Fields
<1>6. CASE UNCHANGED <<dialogs, q>>
  BY <1>6 DEF Settled, Drops
<1>7. CASE ~UNCHANGED <<dialogs, q>>
  <2>1. ASSUME NEW d \in Dev, Answerable(d) PROVE Answerable(d)'
    <3>1. Asked(d) /\ Asked(d)' /\ Current(d)' = Current(d)
      <4>1. Asked(d) /\ dev'[Current(d)].confirm
        BY <1>5, <2>1, ConfirmKept DEF Answerable
      <4> QED BY <1>2, <4>1 DEF Asked, Current
    <3>2. CASE d # d0
      <4>1. activity'[d] = activity[d] /\ dialogs'[d] = dialogs[d]
        BY <1>0, <1>1, <3>2
      <4>2. InQueue(q, "CHECK_VERSION", Uuid(d)) => InQueue(q', "CHECK_VERSION", Uuid(d))
        BY <1>4 DEF Keeps, Told
      <4>3. CheckComing(d) => CheckComing(d)'
        BY <1>2, <3>1, <4>1, <4>2 DEF CheckComing, InQueue, Looper
      <4> QED BY <1>1, <2>1, <3>1, <3>2, <4>1, <4>3 DEF Answerable
    <3>3. CASE d = d0 /\ dialogs' # dialogs
      <4>1. dialogs'[d] > 0
        BY <1>0, <1>1, <3>3
      <4> QED BY <3>1, <4>1 DEF Answerable
    <3>4. CASE d = d0 /\ q' # q
      <4>1. InQueue(q', "CHECK_VERSION", Uuid(d))
        <5>1. q' = Append(q, m) /\ m.what = "CHECK_VERSION" /\ m.obj = Uuid(d)
          BY <1>1, <3>4 DEF Msg
        <5> HIDE DEF m
        <5> QED BY <1>0, <1>3, <5>1, Posted
      <4>2. CheckComing(d)'
        BY <1>0, <1>1, <1>2, <3>4, <4>1 DEF CheckComing, InQueue
      <4> QED BY <3>1, <4>2 DEF Answerable
    <3> QED BY <1>7, <3>2, <3>3, <3>4
  <2> QED BY <1>2, <1>4, <2>1, LeftOpen DEF Settled
<1> QED BY <1>6, <1>7

\* The answer of the user posts the feedback of a device that was asked.
LEMMA AnswerSettled == ASSUME TypeOK, NEW d0 \in Dev, PressYes(d0) \/ PressNo(d0) PROVE Settled
<1> DEFINE o == Current(d0)
           f == Msg("USER_FEEDBACK", o, 0)
<1>0. /\ q \in Seq(Message) /\ dev \in [Obj -> Fields] /\ dialogs \in [Dev -> Nat]
      /\ list \in [Dev -> 0..MaxGen]
  BY DEF TypeOK, TypeMsgs, TypeOta, TypeUi
<1>1. PICK others \in Seq(Message) : Answer(d0, others)
  <2>1. Msg("START_UPGRADE", Uuid(d0), 0) \in Message
    BY Posts DEF QueuedUuid
  <2>2. <<Msg("START_UPGRADE", Uuid(d0), 0)>> \in Seq(Message) /\ << >> \in Seq(Message)
    BY <2>1
  <2>3. Answer(d0, <<Msg("START_UPGRADE", Uuid(d0), 0)>>) \/ Answer(d0, << >>)
    BY DEF PressYes, PressNo
  <2> QED BY <2>2, <2>3
<1>2. Keeps(q, q')
  BY <1>1, AnswerFacts DEF Keeps
<1>3. /\ UNCHANGED <<list, autoState, reminders, activity, intents, looper, notifier>>
      /\ dialogs' = [dialogs EXCEPT ![d0] = @ - 1]
  BY <1>1 DEF Answer, auto, calls
<1>4. (o = NoObj <=> list[d0] = 0) /\ (o # NoObj => o \in Obj /\ o[1] = d0)
  BY CurrentType DEF Current
<1>5. CASE o # NoObj /\ dev[o].confirm
  <2>1. q' = (q \o <<f>>) \o others
    BY <1>1, <1>5 DEF Answer
  <2>2. f \in Message /\ f.what \in Asking
    BY <1>4, <1>5, Posts DEF QueuedObj, Msg, Asking
  <2> HIDE DEF f
  <2>3. /\ Len(q) \in Nat /\ Len(q') = Len(q) + 1 + Len(others) /\ Len(others) \in Nat
        /\ q'[Len(q) + 1] = f
    BY <1>0, <1>1, <2>1, <2>2
  <2>4. Asks(q')
    BY <2>2, <2>3 DEF Asks
  <2> QED BY <2>4, Places DEF Settled
<1>6. CASE o = NoObj \/ ~dev[o].confirm
  <2>1. ~Asked(d0)
    BY <1>4, <1>6 DEF Asked
  <2>2. \A d \in Dev : d # d0 /\ Asked(d) => dev'[Current(d)].confirm
    <3> SUFFICES ASSUME NEW d \in Dev, d # d0, Asked(d) PROVE dev'[Current(d)].confirm
      OBVIOUS
    <3>1. Current(d) \in Obj /\ Current(d)[1] = d /\ dev[Current(d)].confirm
      BY CurrentType DEF Asked, Current
    <3>2. \/ dev' = dev
          \/ /\ o \in Obj /\ o[1] = d0
             /\ \/ dev' = [dev EXCEPT ![o].confirm = FALSE]
                \/ dev' = [dev EXCEPT ![o].confirm = FALSE, ![o].state = "READY"]
      BY <1>4 DEF PressYes, PressNo
    <3> HIDE DEF o
    <3>3. Current(d) # o \/ dev' = dev
      BY <3>1, <3>2
    <3> QED BY <1>0, <3>1, <3>2, <3>3
  <2>3. ASSUME NEW d \in Dev, Answerable(d) PROVE Answerable(d)'
    <3>1. d # d0 /\ Asked(d)
      BY <2>1, <2>3 DEF Answerable
    <3>2. Asked(d)' /\ dialogs'[d] = dialogs[d]
      BY <1>0, <1>3, <2>2, <3>1 DEF Asked, Current
    <3>3. CheckComing(d) => CheckComing(d)'
      BY <1>2, <1>3, LooperSame, ComingKept
    <3> QED BY <1>3, <2>3, <3>2, <3>3 DEF Answerable
  <2> QED BY <1>2, <1>3, <2>3, LeftOpen DEF Settled
<1> QED BY <1>5, <1>6

\* Every step of the program keeps the question, or is one of those that drop it.
LEMMA NextKeepsQuestion == ASSUME TypeOK, [Next]_vars PROVE [QuestionKept]_vars
<1>0. PICK x \in Obj, e \in Dev : TRUE
  <2>1. 1 \in Dev /\ <<1, 1>> \in Obj
    BY BoundsAssumption DEF Dev, Obj
  <2> QED BY <2>1
<1>1. CASE UNCHANGED vars
  BY <1>1
<1>2. CASE Serve
  BY <1>2, CheckSettled, ServeSettled, StateChangeSettled, PrepareSettled, QuestionMoves,
     SettledStep DEF Serve
<1>3. CASE Return
  BY <1>0, <1>3, CheckedSettled, UpgradeSettled, SettledStep DEF Return
<1>4. CASE Timers
  BY <1>0, <1>4, UpgradeSettled, PrepareSettled, SettledStep DEF Timers
<1>5. CASE Notifier
  BY <1>0, <1>5, CheckedSettled, NotifierSettled, SettledStep DEF Notifier
<1>6. CASE User
  <2>1. PICK d \in Dev : \/ OpenActivity(d) \/ PressCheckNow(d) \/ CloseActivity(d)
                         \/ PressYes(d) \/ PressNo(d) \/ PressReminder(d) \/ DismissReminder(d)
    BY <1>6 DEF User
  <2>2. CASE CloseActivity(d) \/ DismissReminder(d)
    BY <2>2 DEF QuestionKept, Drops
  <2> QED BY <2>1, <2>2, OpenSettled, PostSettled, AnswerSettled, SettledStep
<1>7. CASE Environment
  BY <1>0, <1>7, PostSettled, SettledStep DEF Environment
<1> QED BY <1>1, <1>2, <1>3, <1>4, <1>5, <1>6, <1>7 DEF Next, Step

\* While the automatic update waits for the user no step loses the question but those that
\* drop it by name (Drops), for any number of RoomHubs: an upgrade, a report, a time-out, a
\* check that finds a version, another device or an answer never does.
THEOREM QuestionsAreNotLost == Spec => QuestionNotLost
  BY TypeCorrect, NextKeepsQuestion, PTL DEF Spec, QuestionNotLost
=============================================================================
