-------------------------------- MODULE Ota --------------------------------
(***************************************************************************)
(* Firmware upgrade of the RoomHub devices (qhome OTAManager, OTADevice    *)
(* and the part of OTAActivity that drives them).                          *)
(*                                                                         *)
(* Threads: the looper of mBackgroundHandler serves the queue q and the    *)
(* delayed messages; RoomHubManager notifies addDevice and removeDevice    *)
(* while it holds mRoomHubListener, so one such call runs at a time; the   *)
(* UI thread runs OTAActivity; MQTT posts state reports.  A version check  *)
(* and the upgrade command are blocking network calls: the other threads   *)
(* run while they wait.                                                    *)
(*                                                                         *)
(* OTADevice objects have an identity of their own: a message keeps the    *)
(* object it was posted with, although the list may meanwhile hold no      *)
(* object, or another one, for that uuid.  A null pointer on the looper,   *)
(* or a dialog of an activity that is gone, ends the process (crashed).    *)
(*                                                                         *)
(* The setters of OTADevice are synchronized one by one: where another     *)
(* thread can tell, the step ends between two of them.                     *)
(***************************************************************************)
EXTENDS Integers, Sequences, FiniteSetsExt

CONSTANTS NDev,        \* number of RoomHubs; they are numbered in HashMap order
          MaxGen,      \* bound: OTADevice objects made for one uuid
          MaxAdds,     \* bound: addDevice and UpdateRoomHubData notifications
          MaxReports,  \* bound: state reports that MQTT delivers
          MaxOpens,    \* bound: times OTAActivity is opened by the user, or a check asked for
          MaxLogins    \* bound: onLogin notifications

ASSUME BoundsAssumption ==
  /\ NDev \in Nat \ {0} /\ MaxGen \in Nat \ {0}
  /\ {MaxAdds, MaxReports, MaxOpens, MaxLogins} \subseteq Nat

Dev == 1..NDev
Obj == Dev \X (1..MaxGen)
NoObj == <<0, 0>>

\* states of OTAState that the code sets; READY stands for everything below VERIFY
OTAState == {"READY", "VERIFY", "VERIFY_DONE", "UPGRADE"}

NoInfo == -2                    \* upgradeStateInfo == null
Reports == -1 .. 3              \* -1 failed, 3 done
FAILED == -1
DONE == 3

VARIABLES
  list,         \* mOTADeviceList: the current object of each uuid, 0 if none
  made,         \* objects made for each uuid
  dev,          \* the fields of every OTADevice object
  autoMap,      \* autoUpdateDeviceHashMap, 0 where the uuid is no key
  autoState,    \* mAutoUpdateState
  q,            \* messages of mBackgroundHandler that are due, in order
  stateTimer,   \* delayed MESSAGE_STATE_CHANGE_TIMEOUT messages per object
  checkTimer,   \* delayed MESSAGE_INTERNAL_CHECK_VERSION_TIMEOUT messages per object
  autoStart,    \* a delayed MESSAGE_INTERNAL_AUTO_UPDATE_START is queued
  looper,       \* what the looper thread is blocked in, and for which object
  notifier,     \* the same of the thread that holds mRoomHubListener
  activity,     \* OTAActivity of a uuid: closed, or the object it listens to
  dialogs,      \* confirmation dialogs it shows
  intents,      \* uuids whose OTAActivity was started and is not created yet
  reminders,    \* uuids with an update notification
  crashed,      \* the process died of a null pointer
  leaked,       \* objects that still hold the listener of an activity that is gone
  ignored,      \* history: objects whose last report was dropped as out of order
  spent         \* bookkeeping of the bounds

ota   == <<list, made, dev>>
auto  == <<autoMap, autoState, autoStart>>
msgs  == <<q, stateTimer, checkTimer>>
calls == <<looper, notifier>>
ui    == <<activity, dialogs, intents, reminders, leaked>>
vars  == <<ota, auto, msgs, calls, ui, crashed, ignored, spent>>

Closed == -1
Idle == [at |-> "idle", obj |-> NoObj]

Msg(w, o, n) == [what |-> w, obj |-> o, arg |-> n]
Post(m) == q' = Append(q, m)
\* mutant: the message carries the object that is current when it is posted
UuidOfObject(d) == <<d, list[d]>>

Uuid(d) == <<d, 0>>              \* a message that carries the uuid, not the object

Current(d) == IF list[d] = 0 THEN NoObj ELSE <<d, list[d]>>     \* getOTADevice

Fresh == [state |-> "READY", info |-> FALSE, ustate |-> NoInfo,
          doUpgrade |-> FALSE, confirm |-> FALSE]

\* checkOTACapability: login, ownership, reachability, onboarding and IR pairing are
\* the environment's; only isUpgrading is the manager's own
Capable(o) == ~dev[o].doUpgrade

Spend(k, max) == spent[k] < max /\ spent' = [spent EXCEPT ![k] = @ + 1]

-----------------------------------------------------------------------------
Init ==
  /\ list = [d \in Dev |-> 0]
  /\ made = [d \in Dev |-> 0]
  /\ dev = [o \in Obj |-> Fresh]
  /\ autoMap = [d \in Dev |-> 0]
  /\ autoState = "IDLE"
  /\ q = <<>>
  /\ stateTimer = [o \in Obj \cup {NoObj} |-> 0]
  /\ checkTimer = [o \in Obj |-> 0]
  /\ autoStart = FALSE
  /\ looper = Idle
  /\ notifier = Idle
  /\ activity = [d \in Dev |-> Closed]
  /\ dialogs = [d \in Dev |-> 0]
  /\ intents = {}
  /\ reminders = {}
  /\ crashed = FALSE
  /\ leaked = {}
  /\ ignored = {}
  /\ spent = [adds |-> 0, reports |-> 0, opens |-> 0, logins |-> 0]

-----------------------------------------------------------------------------
(* The version check, in whichever thread runs it (OTADevice.checkVersion) *)

StartCheck(o, fields) == [fields EXCEPT ![o].state = "VERIFY"]

\* the server answered: setNewVersionInfo, READY if there is none, and the listeners; an
\* activity that is gone cannot show a dialog
EndCheck(o, found) ==
  /\ dev' = [dev EXCEPT ![o].info = found,
                        ![o].state = IF found THEN @ ELSE "READY"]
  /\ dialogs' = IF found /\ activity[o[1]] = o[2]
                THEN [dialogs EXCEPT ![o[1]] = @ + 1] ELSE dialogs
  /\ crashed' = (crashed \/ o \in leaked)

-----------------------------------------------------------------------------
(* RoomHubManager's notifications *)

\* addDevice, also called by UpdateRoomHubData: make or update the object, then
\* autoCheckAndUpdate up to the blocking call
AddDevice(d) ==
  /\ notifier = Idle
  /\ Spend("adds", MaxAdds)
  /\ \/ /\ list[d] = 0 /\ made[d] < MaxGen
        /\ made' = [made EXCEPT ![d] = @ + 1]
        /\ list' = [list EXCEPT ![d] = made[d] + 1]
     \/ /\ list[d] # 0
        /\ UNCHANGED <<made, list>>
  /\ LET o == <<d, list'[d]>>
     IN \/ /\ Capable(o)
           /\ dev' = StartCheck(o, dev)
           /\ notifier' = [at |-> "checking", obj |-> o]
        \/ UNCHANGED <<dev, notifier>>
  /\ UNCHANGED <<auto, msgs, looper, ui, crashed, ignored>>

\* the check of autoCheckAndUpdate returns
NotifierChecked ==
  /\ notifier.at = "checking"
  /\ \E found \in BOOLEAN : EndCheck(notifier.obj, found)
  /\ checkTimer' = [checkTimer EXCEPT ![notifier.obj] = @ + 1]
  /\ notifier' = Idle
  /\ UNCHANGED <<list, made, auto, q, stateTimer, looper, activity, intents, reminders,
                 leaked, ignored, spent>>

\* removeDevice looks at the flags of the object ...
RemoveCheck(d) ==
  /\ notifier = Idle
  /\ list[d] # 0
  /\ ~dev[Current(d)].doUpgrade /\ ~dev[Current(d)].confirm
  /\ notifier' = [at |-> "removing", obj |-> Current(d)]
  /\ UNCHANGED <<ota, auto, msgs, looper, ui, crashed, ignored, spent>>

\* ... and then takes it out of the list
RemoveDevice ==
  /\ notifier.at = "removing"
  /\ list' = [list EXCEPT ![notifier.obj[1]] = 0]
  /\ notifier' = Idle
  /\ UNCHANGED <<made, dev, auto, msgs, looper, ui, crashed, ignored, spent>>

-----------------------------------------------------------------------------
(* MQTT and the account *)

\* otaStateChangeListener.stateChange
StateReport(d, s) ==
  /\ Spend("reports", MaxReports)
  /\ Post(Msg("STATE_CHANGE", Uuid(d), s))
  /\ UNCHANGED <<ota, auto, stateTimer, checkTimer, calls, ui, crashed, ignored>>

OnLogin ==
  /\ Spend("logins", MaxLogins)
  /\ \E d \in Dev : autoMap[d] # 0
  /\ autoState \in {"IDLE", "SEND_CONFIRM_DONE"}
  /\ Post(Msg("AUTO_UPDATE_PREPARE", NoObj, 0))
  /\ UNCHANGED <<ota, auto, stateTimer, checkTimer, calls, ui, crashed, ignored>>

-----------------------------------------------------------------------------
(* The looper: messages that are due *)

\* the looper takes the first message, of this kind
Take(w) == looper = Idle /\ q # <<>> /\ Head(q).what = w

Served == q' = Tail(q)
ServedThenPost(m) == q' = Append(Tail(q), m)

\* deviceCheckVersionNow, up to the blocking call
HandleCheckVersion ==
  /\ Take("CHECK_VERSION") /\ Served
  /\ LET o == Current(Head(q).obj[1])
     IN \/ /\ o # NoObj
           /\ dev' = StartCheck(o, dev)
           /\ looper' = [at |-> "checking", obj |-> o]
        \/ o = NoObj /\ UNCHANGED <<dev, looper>>
  /\ UNCHANGED <<list, made, auto, stateTimer, checkTimer, notifier, ui, crashed, ignored, spent>>

LooperChecked ==
  /\ looper.at = "checking"
  /\ \E found \in BOOLEAN : EndCheck(looper.obj, found)
  /\ looper' = Idle
  /\ UNCHANGED <<list, made, auto, msgs, notifier, activity, intents, reminders, leaked,
                 ignored, spent>>

\* deviceStartUpgradeNow, and the first setter of OTADevice.doUpgrade; without a device
\* only the time-out is posted
HandleStartUpgrade ==
  /\ Take("START_UPGRADE") /\ Served
  /\ LET o == Current(Head(q).obj[1])
     IN \/ /\ o = NoObj
           /\ stateTimer' = [stateTimer EXCEPT ![NoObj] = @ + 1]
           /\ UNCHANGED <<dev, looper>>
        \/ /\ o # NoObj
           /\ dev' = [dev EXCEPT ![o].state = "VERIFY_DONE"]
           /\ looper' = [at |-> "beginning", obj |-> o]
           /\ UNCHANGED stateTimer
  /\ UNCHANGED <<list, made, auto, checkTimer, notifier, ui, crashed, ignored, spent>>

\* the rest of doUpgrade up to the blocking call; the url of no version is a null pointer
DoUpgrade ==
  /\ looper.at = "beginning"
  /\ LET o == looper.obj
     IN /\ dev' = [dev EXCEPT ![o].ustate = 0, ![o].doUpgrade = TRUE]
        /\ ignored' = ignored \ {o}
        /\ IF dev[o].info
           THEN looper' = [at |-> "starting", obj |-> o] /\ UNCHANGED crashed
           ELSE crashed' = TRUE /\ UNCHANGED looper
  /\ UNCHANGED <<list, made, auto, msgs, notifier, ui, spent>>

\* mutant: no time-out is armed
UpgradeCommandedUnarmed ==
  /\ looper.at = "starting"
  /\ looper' = Idle
  /\ UNCHANGED <<ota, auto, msgs, notifier, ui, crashed, ignored, spent>>

\* setOTAServerPath returns: a failure is posted as a report, and the time-out is armed
\* in either case
UpgradeCommanded ==
  /\ looper.at = "starting"
  /\ \/ UNCHANGED q
     \/ Post(Msg("STATE_CHANGE", Uuid(looper.obj[1]), FAILED))
  /\ stateTimer' = [stateTimer EXCEPT ![looper.obj] = @ + 1]
  /\ looper' = Idle
  /\ UNCHANGED <<ota, auto, checkTimer, notifier, ui, crashed, ignored, spent>>

\* updateState: the time-out is removed and the device marked as upgrading before the
\* report is compared with the state known so far
HandleStateChange ==
  /\ Take("STATE_CHANGE")
  /\ LET o == Current(Head(q).obj[1])
         s == Head(q).arg
         u == dev[o].ustate
         late == u # NoInfo /\ s < u /\ s >= 0
         upgrading == [dev EXCEPT ![o].doUpgrade = TRUE, ![o].state = "UPGRADE"]
     IN \/ /\ o = NoObj
           /\ Served
           /\ UNCHANGED <<dev, stateTimer, ignored>>
        \/ /\ o # NoObj /\ late
           /\ Served
           /\ dev' = upgrading
           /\ stateTimer' = [stateTimer EXCEPT ![o] = 0]
           /\ ignored' = ignored \cup {o}
        \/ /\ o # NoObj /\ ~late
           /\ dev' = [upgrading EXCEPT ![o].ustate = s]
           /\ ignored' = ignored \ {o}
           /\ stateTimer' = [stateTimer EXCEPT ![o] = IF s \in {FAILED, DONE} THEN 0 ELSE 1]
           /\ CASE s = FAILED -> ServedThenPost(Msg("UPGRADE_FAIL", o, 0))
                [] s = DONE   -> ServedThenPost(Msg("UPGRADE_DONE", o, 0))
                [] OTHER      -> Served
  /\ UNCHANGED <<list, made, auto, checkTimer, calls, ui, crashed, spent>>

\* mutant: the end of an upgrade also drops upgradeStateInfo
HandleUpgradeDoneClears ==
  /\ Take("UPGRADE_DONE") /\ Served
  /\ dev' = [dev EXCEPT ![Head(q).obj] = [Fresh EXCEPT !.confirm = dev[Head(q).obj].confirm]]
  /\ UNCHANGED <<list, made, auto, stateTimer, checkTimer, calls, ui, crashed, ignored, spent>>

\* OTADevice.upgradeDone
HandleUpgradeDone ==
  /\ Take("UPGRADE_DONE") /\ Served
  /\ dev' = [dev EXCEPT ![Head(q).obj].state = "READY", ![Head(q).obj].info = FALSE,
                        ![Head(q).obj].doUpgrade = FALSE]
  /\ UNCHANGED <<list, made, auto, stateTimer, checkTimer, calls, ui, crashed, ignored, spent>>

\* OTADevice.upgradeFail
HandleUpgradeFail ==
  /\ Take("UPGRADE_FAIL") /\ Served
  /\ dev' = [dev EXCEPT ![Head(q).obj].state = "READY", ![Head(q).obj].doUpgrade = FALSE]
  /\ UNCHANGED <<list, made, auto, stateTimer, checkTimer, calls, ui, crashed, ignored, spent>>

-----------------------------------------------------------------------------
(* The looper: delayed messages.  Any of them may be due. *)

Due == looper = Idle

\* the time-out makes o READY; a listener of o asks for the new version of the current
\* object of that uuid, which makes it READY too if it has none
AfterTimeout(o) ==
  LET cur == Current(o[1])
      asked == (activity[o[1]] = o[2] \/ o \in leaked) /\ cur # NoObj
  IN [x \in Obj |-> IF x = o \/ (asked /\ x = cur /\ ~dev[x].info)
                    THEN [dev[x] EXCEPT !.state = "READY"] ELSE dev[x]]

\* mutant: the time-out of an object that left the list is dropped
StateChangeTimeoutListed(o) ==
  /\ Due /\ stateTimer[o] > 0
  /\ stateTimer' = [stateTimer EXCEPT ![o] = @ - 1]
  /\ IF Current(o[1]) = o
     THEN /\ dev' = [dev EXCEPT ![o].doUpgrade = FALSE]
          /\ looper' = [at |-> "timingOut", obj |-> o]
     ELSE UNCHANGED <<dev, looper>>
  /\ UNCHANGED <<list, made, auto, q, checkTimer, notifier, ui, crashed, ignored, spent>>

\* deviceUpgradeTimeout, and the first setter of handleUpgradeTimeout ...
StateChangeTimeout(o) ==
  /\ Due /\ stateTimer[o] > 0
  /\ stateTimer' = [stateTimer EXCEPT ![o] = @ - 1]
  /\ dev' = [dev EXCEPT ![o].doUpgrade = FALSE]
  /\ looper' = [at |-> "timingOut", obj |-> o]
  /\ UNCHANGED <<list, made, auto, q, checkTimer, notifier, ui, crashed, ignored, spent>>

\* mutant: the device stays in the state that shows a progress bar
UpgradeTimedOutKeepsState ==
  /\ looper.at = "timingOut"
  /\ looper' = Idle
  /\ crashed' = (crashed \/ looper.obj \in leaked)
  /\ UNCHANGED <<ota, auto, msgs, notifier, ui, ignored, spent>>

\* ... its second setter and the listeners, which show a dialog
UpgradeTimedOut ==
  /\ looper.at = "timingOut"
  /\ dev' = AfterTimeout(looper.obj)
  /\ looper' = Idle
  /\ crashed' = (crashed \/ looper.obj \in leaked)
  /\ UNCHANGED <<list, made, auto, msgs, notifier, ui, ignored, spent>>

\* the time-out of an upgrade that was started for no device
NullDeviceTimeout ==
  /\ Due /\ stateTimer[NoObj] > 0
  /\ stateTimer' = [stateTimer EXCEPT ![NoObj] = @ - 1]
  /\ crashed' = TRUE
  /\ UNCHANGED <<ota, auto, q, checkTimer, calls, ui, ignored, spent>>

\* MESSAGE_INTERNAL_CHECK_VERSION_TIMEOUT: a new version makes the device a candidate
CheckVersionTimeout(o) ==
  /\ Due /\ checkTimer[o] > 0
  /\ checkTimer' = [checkTimer EXCEPT ![o] = @ - 1]
  /\ \/ /\ dev[o].info
        /\ autoMap' = [autoMap EXCEPT ![o[1]] = o[2]]
        /\ autoStart' = TRUE
     \/ ~dev[o].info /\ UNCHANGED <<autoMap, autoStart>>
  /\ UNCHANGED <<ota, autoState, q, stateTimer, calls, ui, crashed, ignored, spent>>

-----------------------------------------------------------------------------
(* The looper: asking the user about one candidate after the other *)

Entries == {d \in Dev : autoMap[d] # 0}
Entry(d) == <<d, autoMap[d]>>
After(d) == {e \in Entries : e > d}
FirstOf(S) == IF S = {} THEN NoObj ELSE Entry(Min(S))

\* prepareAutoUpdate: the first candidate not asked yet; state is what mAutoUpdateState
\* was set to before
PrepareAutoUpdate(state, rest) ==
  LET o == FirstOf({d \in Entries : ~dev[Entry(d)].confirm})
  IN \/ /\ o = NoObj
        /\ autoState' = state /\ q' = rest
        /\ UNCHANGED autoMap
     \/ /\ o # NoObj /\ ~dev[o].doUpgrade
        /\ autoState' = "SEND_CONFIRM"
        /\ q' = Append(rest, Msg("USER_CONFIRM", o, 0))
        /\ UNCHANGED autoMap
     \/ /\ o # NoObj /\ dev[o].doUpgrade
        /\ autoMap' = [autoMap EXCEPT ![o[1]] = 0]
        /\ autoState' = state /\ q' = rest

\* MESSAGE_AUTO_UPDATE_PREPARE
HandlePrepare ==
  /\ Take("AUTO_UPDATE_PREPARE")
  /\ PrepareAutoUpdate(autoState, Tail(q))
  /\ UNCHANGED <<ota, autoStart, stateTimer, checkTimer, calls, ui, crashed, ignored, spent>>

\* MESSAGE_INTERNAL_AUTO_UPDATE_START; nothing happens while a RoomHub is onboarding
AutoUpdateStart ==
  /\ Due /\ autoStart
  /\ autoStart' = FALSE
  /\ \/ /\ autoState \in {"IDLE", "SEND_CONFIRM_DONE"}
        /\ \/ Entries # {} /\ PrepareAutoUpdate("START", q)
           \/ Entries = {} /\ autoState' = "START" /\ UNCHANGED <<autoMap, q>>
     \/ UNCHANGED <<autoMap, autoState, q>>
  /\ UNCHANGED <<ota, stateTimer, checkTimer, calls, ui, crashed, ignored, spent>>

\* launchOTAActivity does nothing while the app is onboarding or pairing IR
LaunchOTAActivity(o) ==
  \/ /\ dev' = [dev EXCEPT ![o].confirm = TRUE]
     /\ intents' = intents \cup {o[1]}
  \/ UNCHANGED <<dev, intents>>

\* MESSAGE_AUTO_UPDATE_USER_CONFIRM: in the foreground the activity, else a reminder
\* that names the new version
HandleUserConfirm ==
  /\ Take("USER_CONFIRM") /\ Served
  /\ LET o == Head(q).obj
     IN \/ LaunchOTAActivity(o) /\ UNCHANGED <<reminders, crashed>>
        \/ /\ IF dev[o].info THEN reminders' = reminders \cup {o[1]} /\ UNCHANGED crashed
                             ELSE crashed' = TRUE /\ UNCHANGED reminders
           /\ UNCHANGED <<dev, intents>>
  /\ UNCHANGED <<list, made, auto, stateTimer, checkTimer, calls, activity, dialogs, leaked,
                 ignored, spent>>

\* MESSAGE_LAUNCH_FROM_NOTIFICATION_CENTER
HandleLaunch ==
  /\ Take("LAUNCH") /\ Served
  /\ LET o == Current(Head(q).obj[1])
     IN \/ o # NoObj /\ Capable(o) /\ LaunchOTAActivity(o)
        \/ UNCHANGED <<dev, intents>>
  /\ UNCHANGED <<list, made, auto, stateTimer, checkTimer, calls, activity, dialogs,
                 reminders, leaked, crashed, ignored, spent>>

\* getNextAutoUpdateDevice: the entry behind current; else the entry behind the first
\* other one that is not asked yet
NextAutoUpdateDevice(current) ==
  LET d == current[1]
      behind == IF Entry(d) = current THEN FirstOf(After(d)) ELSE NoObj
      others == {e \in Entries : Entry(e) # current /\ ~dev[Entry(e)].confirm}
  IN IF behind # NoObj THEN behind
     ELSE IF others = {} THEN NoObj ELSE FirstOf(After(Min(others)))

\* sendNextAutoUpdate
HandleUserFeedback ==
  /\ Take("USER_FEEDBACK")
  /\ LET o == Head(q).obj
         next == NextAutoUpdateDevice(o)
     IN /\ autoMap' = [autoMap EXCEPT ![o[1]] = 0]
        /\ \/ /\ next # NoObj
              /\ autoState' = "SEND_CONFIRM"
              /\ ServedThenPost(Msg("USER_CONFIRM", next, 0))
           \/ /\ next = NoObj
              /\ autoState' = "SEND_CONFIRM_DONE"
              /\ Served
  /\ UNCHANGED <<ota, autoStart, stateTimer, checkTimer, calls, ui, crashed, ignored, spent>>

-----------------------------------------------------------------------------
(* OTAActivity on the UI thread *)

\* checkVersion(uuid): posted only if the device is capable of an upgrade now
AskForCheck(o) ==
  \/ o # NoObj /\ Capable(o) /\ Post(Msg("CHECK_VERSION", Uuid(o[1]), 0))
  \/ UNCHANGED q

\* onCreate, for an intent or because the user opens it: below VERIFY a check is asked
\* for, in VERIFY the version found so far is shown (getFirmwareNewVersion), READY if none
OpenActivity(d) ==
  /\ activity[d] = Closed
  /\ \/ d \in intents /\ intents' = intents \ {d} /\ UNCHANGED spent
     \/ Spend("opens", MaxOpens) /\ UNCHANGED intents
  /\ activity' = [activity EXCEPT ![d] = list[d]]
  /\ LET o == Current(d)
     IN \/ /\ o # NoObj => dev[o].state \in {"VERIFY_DONE", "UPGRADE"}
           /\ UNCHANGED <<q, dev, dialogs>>
        \/ /\ o # NoObj /\ dev[o].state = "READY"
           /\ AskForCheck(o)
           /\ UNCHANGED <<dev, dialogs>>
        \/ /\ o # NoObj /\ dev[o].state = "VERIFY"
           /\ \/ dev[o].info /\ dialogs' = [dialogs EXCEPT ![d] = @ + 1] /\ UNCHANGED dev
              \/ ~dev[o].info /\ dev' = [dev EXCEPT ![o].state = "READY"] /\ UNCHANGED dialogs
           /\ UNCHANGED q
  /\ UNCHANGED <<list, made, auto, stateTimer, checkTimer, calls, reminders, leaked, crashed,
                 ignored>>

PressCheckNow(d) ==
  /\ activity[d] # Closed
  /\ Spend("opens", MaxOpens)
  /\ AskForCheck(Current(d))
  /\ UNCHANGED <<ota, auto, stateTimer, checkTimer, calls, ui, crashed, ignored>>

\* the user leaves it, or autoExit does after a dialog, with or without an answer; onDestroy
\* takes the listener from the current object only
CloseActivity(d) ==
  /\ activity[d] # Closed
  /\ activity' = [activity EXCEPT ![d] = Closed]
  /\ dialogs' = [dialogs EXCEPT ![d] = 0]
  /\ leaked' = IF activity[d] \in {0, list[d]} THEN leaked ELSE leaked \cup {<<d, activity[d]>>}
  /\ UNCHANGED <<ota, auto, msgs, calls, intents, reminders, crashed, ignored, spent>>

\* mutant: the confirm flag is not looked at, and no feedback is given
AnswerWithoutFeedback(d, others) ==
  /\ dialogs[d] > 0
  /\ dialogs' = [dialogs EXCEPT ![d] = @ - 1]
  /\ q' = IF Current(d) = NoObj THEN q ELSE q \o others
  /\ UNCHANGED <<list, made, auto, stateTimer, checkTimer, calls, activity, intents,
                 reminders, leaked, crashed, ignored, spent>>

\* a button of the confirmation dialog: the dialog goes, and a device that was asked
\* because of the automatic update gives its feedback before the other messages
Answer(d, others) ==
  LET o == Current(d)
      feedback == IF dev[o].confirm THEN <<Msg("USER_FEEDBACK", o, 0)>> ELSE <<>>
  IN /\ dialogs[d] > 0
     /\ dialogs' = [dialogs EXCEPT ![d] = @ - 1]
     /\ q' = IF o = NoObj THEN q ELSE q \o feedback \o others
     /\ UNCHANGED <<list, made, auto, stateTimer, checkTimer, calls, activity, intents,
                    reminders, leaked, crashed, ignored, spent>>

\* startUpgrade
PressYes(d) ==
  /\ Answer(d, <<Msg("START_UPGRADE", Uuid(d), 0)>>)
  /\ dev' = IF list[d] = 0 THEN dev ELSE [dev EXCEPT ![Current(d)].confirm = FALSE]

\* cancelUpgrade
PressNo(d) ==
  /\ Answer(d, <<>>)
  /\ dev' = IF list[d] = 0 THEN dev
            ELSE [dev EXCEPT ![Current(d)].confirm = FALSE, ![Current(d)].state = "READY"]

\* the update button of the reminder
PressReminder(d) ==
  /\ d \in reminders
  /\ reminders' = reminders \ {d}
  /\ Post(Msg("LAUNCH", Uuid(d), 0))
  /\ UNCHANGED <<ota, auto, stateTimer, checkTimer, calls, activity, dialogs, intents,
                 leaked, crashed, ignored, spent>>

\* its other button, which does nothing
DismissReminder(d) ==
  /\ d \in reminders
  /\ reminders' = reminders \ {d}
  /\ UNCHANGED <<ota, auto, msgs, calls, activity, dialogs, intents, leaked, crashed,
                 ignored, spent>>

-----------------------------------------------------------------------------
Serve == \/ HandleCheckVersion \/ HandleStartUpgrade \/ HandleStateChange
         \/ HandleUpgradeDone \/ HandleUpgradeFail \/ HandlePrepare
         \/ HandleUserConfirm \/ HandleLaunch \/ HandleUserFeedback

Return == LooperChecked \/ DoUpgrade \/ UpgradeCommanded \/ UpgradeTimedOut

Timers == \/ \E o \in Obj : StateChangeTimeout(o) \/ CheckVersionTimeout(o)
          \/ NullDeviceTimeout \/ AutoUpdateStart

Notifier == NotifierChecked \/ RemoveDevice \/ \E d \in Dev : AddDevice(d) \/ RemoveCheck(d)

User == \E d \in Dev : \/ OpenActivity(d) \/ PressCheckNow(d) \/ CloseActivity(d)
                       \/ PressYes(d) \/ PressNo(d) \/ PressReminder(d) \/ DismissReminder(d)

Environment == OnLogin \/ \E d \in Dev, s \in Reports : StateReport(d, s)

Step == Serve \/ Return \/ Timers \/ Notifier \/ User \/ Environment

\* an exception that nobody catches ends the process and every thread of it
Next == ~crashed /\ Step

Spec == Init /\ [][Next]_vars

\* The looper serves its queue, delayed messages become due, and what the looper has begun,
\* the two network calls among it, ends.  Nothing is assumed of the user, of MQTT or of RoomHubManager.
Fairness ==
  /\ WF_vars(~crashed /\ Serve)
  /\ WF_vars(~crashed /\ Return)
  /\ \A o \in Obj : SF_vars(~crashed /\ StateChangeTimeout(o))

FairSpec == Spec /\ Fairness

-----------------------------------------------------------------------------
(* Properties *)

QueuedUuid == {"STATE_CHANGE", "CHECK_VERSION", "START_UPGRADE", "LAUNCH"}
QueuedObj  == {"UPGRADE_DONE", "UPGRADE_FAIL", "USER_CONFIRM", "USER_FEEDBACK"}

Message == [what : QueuedUuid, obj : Dev \X {0}, arg : Reports]
             \cup [what : QueuedObj, obj : Obj, arg : {0}]
             \cup [what : {"AUTO_UPDATE_PREPARE"}, obj : {NoObj}, arg : {0}]

Fields == [state : OTAState, info : BOOLEAN, ustate : Reports \cup {NoInfo},
           doUpgrade : BOOLEAN, confirm : BOOLEAN]

TypeOta == /\ list \in [Dev -> 0..MaxGen] /\ made \in [Dev -> 0..MaxGen]
           /\ dev \in [Obj -> Fields]
TypeAuto == /\ autoMap \in [Dev -> 0..MaxGen]
            /\ autoState \in {"IDLE", "START", "SEND_CONFIRM", "SEND_CONFIRM_DONE"}
            /\ autoStart \in BOOLEAN
TypeMsgs == /\ q \in Seq(Message)
            /\ stateTimer \in [Obj \cup {NoObj} -> Nat] /\ checkTimer \in [Obj -> Nat]
TypeCalls == /\ looper \in {Idle} \cup [at : {"checking", "beginning", "starting", "timingOut"}, obj : Obj]
             /\ notifier \in {Idle} \cup [at : {"checking", "removing"}, obj : Obj]
TypeUi == /\ activity \in [Dev -> Closed..MaxGen] /\ dialogs \in [Dev -> Nat]
          /\ intents \subseteq Dev /\ reminders \subseteq Dev /\ leaked \subseteq Obj
TypeRest == /\ crashed \in BOOLEAN /\ ignored \subseteq Obj
            /\ spent \in [{"adds", "reports", "opens", "logins"} -> Nat]

\* Every variable holds values of its type, and a blocked thread is blocked for an object
TypeOK == TypeOta /\ TypeAuto /\ TypeMsgs /\ TypeCalls /\ TypeUi /\ TypeRest

Queued(w, o) == \E i \in 1..Len(q) : q[i].what = w /\ q[i].obj = o
Looper(at, o) == looper = [at |-> at, obj |-> o]
Starting(o) == Looper("starting", o)

\* A device that counts as upgrading is never left to itself: its command is being sent,
\* a time-out is armed, or its end is queued.  The only exception is a device whose last
\* report was dropped as out of order.
UpgradeGuarded ==
  \A o \in Obj : dev[o].doUpgrade /\ ~crashed
    => \/ stateTimer[o] > 0
       \/ Starting(o)
       \/ Queued("UPGRADE_DONE", o) \/ Queued("UPGRADE_FAIL", o)
       \/ o \in ignored

\* Whoever handles a time-out reads the message of upgradeStateInfo: it is there, although
\* a second start may have left a time-out behind when the first upgrade ended.
TimeoutHasState ==
  \A o \in Obj : stateTimer[o] > 0 \/ Looper("timingOut", o) => dev[o].ustate # NoInfo

\* The activity shows a progress bar, and no button, for the states from VERIFY_DONE on:
\* a device is in one of them only while it counts as upgrading, or while the looper is
\* between the setters that begin or end the upgrade.
ProgressMeansUpgrading ==
  \A o \in Obj : dev[o].state \in {"VERIFY_DONE", "UPGRADE"}
    => dev[o].doUpgrade \/ Looper("beginning", o) \/ Looper("timingOut", o)

\* The automatic update has asked about the device the list holds: its next answer is
\* passed on (startUpgrade, cancelUpgrade).
Asked(d) == list[d] # 0 /\ dev[Current(d)].confirm

\* An activity that listens to the current object will hear of a check of it
CheckComing(d) ==
  /\ activity[d] = list[d]
  /\ \/ \E i \in 1..Len(q) : q[i].what = "CHECK_VERSION" /\ q[i].obj = Uuid(d)
     \/ Looper("checking", Current(d))
     \/ notifier = [at |-> "checking", obj |-> Current(d)]

\* The question is on its way to the user, can be answered, or its answer is on its way
QuestionOpen ==
  \/ \E i \in 1..Len(q) : q[i].what \in {"USER_CONFIRM", "USER_FEEDBACK", "LAUNCH"}
  \/ \E d \in Dev : Asked(d) /\ (dialogs[d] > 0 \/ d \in intents \/ CheckComing(d))
  \/ reminders # {}

\* The steps by which the code does lose a question
Drops ==
  \/ \E d \in Dev : DismissReminder(d) \/ CloseActivity(d)
  \/ \E d \in Dev : OpenActivity(d) /\ UNCHANGED <<dialogs, q>>
  \/ (HandleUserConfirm \/ HandleLaunch) /\ UNCHANGED <<dev, reminders>>
  \/ HandleUserConfirm /\ Head(q).obj # Current(Head(q).obj[1])
  \/ (LooperChecked \/ NotifierChecked) /\ UNCHANGED dialogs
  \/ RemoveDevice

QuestionKept ==
  autoState' = "SEND_CONFIRM" /\ (autoState = "SEND_CONFIRM" => QuestionOpen) /\ ~Drops
    => QuestionOpen' \/ crashed'

\* While mAutoUpdateState is SEND_CONFIRM only the user's answer moves it on.  The question
\* is not lost on its way: it is open when the state is entered, and no step closes it
\* except that the user dismisses the reminder or leaves the activity, that the activity
\* has nothing to show or the check finds no new version, that the app is busy or the
\* device unfit when the activity is to be launched, and that the device is replaced or
\* removed under the question.  After those the state stays SEND_CONFIRM.
QuestionNotLost == [][QuestionKept]_vars

\* Every upgrade comes to an end, by a report or by the time-out, except one whose last
\* report was dropped as out of order.
UpgradeEnds ==
  \A o \in Obj : dev[o].doUpgrade ~> (~dev[o].doUpgrade \/ o \in ignored \/ crashed)

\* Added for the proof in OtaProofs: an upgrade that is being started has its state.
StartingHasState == \A o \in Obj : Starting(o) => dev[o].ustate # NoInfo

IInv == /\ TypeOK /\ UpgradeGuarded /\ TimeoutHasState /\ StartingHasState
        /\ ProgressMeansUpgrading

HandlesLateReport(d) ==
  /\ list[d] # 0
  /\ Take("STATE_CHANGE") /\ Head(q).obj = Uuid(d) /\ q' = Tail(q)
  /\ Head(q).arg >= 0 /\ Head(q).arg < dev[Current(d)].ustate

\* getNextAutoUpdateDevice looks over the other candidates: when the looper handles an
\* answer of the user, the device it asks about next is not the one just answered for.
NextIsAnother ==
  Take("USER_FEEDBACK") => NextAutoUpdateDevice(Head(q).obj) # Head(q).obj
=============================================================================
