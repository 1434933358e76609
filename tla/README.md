# Lechee: a TLA+ model of the protocols in the code

The repository holds two programs: **qhome** (`src/qhome`), the Android client of
the RoomHub home controllers, written in Java, and **linlivehd**
(`src/linlivehd`), a Linphone application with the C libraries it is built on
(liblinphone, belle-sip, bzrtp, oRTP, mediastreamer2).  This directory models the
parts in which several actors meet: threads, time-outs, the user, a lossy network.
TLC checks small instances; TLAPS proves the safety properties, and four of the eight
liveness properties, for every value of the constants.

Six components are modelled.

| Component | Code | Modules |
| --- | --- | --- |
| Appliance commands | `BaseAssetManager.java` | `AssetCommand`, `MCAssetCommand`, `AssetCommandProofs` |
| Firmware upgrade | `OTAManager.java`, `OTADevice.java`, `OTAActivity.java`, `OTAState.java` | `Ota`, `MCOta`, `OtaProofs` |
| ZRTP key agreement | `bzrtp/src/stateMachine.c`, `bzrtp/src/bzrtp.c` | `Zrtp`, `KeyHandover`, `MCZrtp`, `ZrtpProofs` |
| INVITE transactions | `belle-sip/src/ict.c`, `ist.c`, `transaction.c`, `provider.c` | `InviteTransaction`, `InviteOutcome`, `MCInviteTransaction`, `InviteTransactionProofs` |
| SIP registration | `belle-sip/src/refresher.c`, `nict.c`, `channel.c`; liblinphone's `proxy.c`, `callbacks.c` | `Registration`, `MCRegistration`, `RegistrationProofs` |
| Calls | `belle-sip/src/dialog.c`; liblinphone's `sal_op_call.c`, `linphonecall.c`, `callbacks.c` | `SipCall`, `CallView`, `MCSipCall`, `SipCallProofs`, `SipCallByeProofs`, `SipCallEndProofs` |

`KeyHandover`, `InviteOutcome` and `CallView` are abstract specifications: what the
users of the component are promised.  Each is shown to be implemented, by TLC on a
small instance and by a proof for every value of the constants.

## Inventory

### qhome

* **BaseAssetManager** and its subclasses (AC, fan, TV, bulb, air purifier, PM2.5).
  State: the appliance lists, `mCmdResult` (the commands under way), the handler
  thread `mCommandHandler`.  A command runs in a thread of its own, makes a blocking
  call through the middleware and reports to listeners.  Hard: the answer races the
  time-out, and all threads share a `HashMap` without a lock.  Correct when: every
  command is reported, and who comes late finds nothing left to report.
* **OTAManager / OTADevice / OTAActivity**.  State: a list of device objects with
  their upgrade state, a map of devices for the automatic update and the state of
  that update, one background looper with delayed messages.  RoomHubManager's
  threads, MQTT, the UI and the looper all call in.  Hard: objects are removed and
  made again while messages and time-outs still hold the old ones; reports come late
  or twice; the network calls block.  Correct when: no upgrade is left without a
  time-out, each one ends, no question to the user is lost on its way.
* **RoomHubManager**: the devices, login, onboarding flags; notifies OTAManager and
  the asset managers.  Hard: callbacks under locks from several threads.
* **OnBoardingManager, BLEPairController, RoomHubBLEController**: sequences of steps
  with time-outs and a peer that may vanish.
* **IRController, AccountManager, HealthDeviceManager, ACNoticeManager,
  MicroLocationManager, ReminderService**: mostly requests to the cloud, or local
  storage, with little state that two actors share.
* **middleware** (`MiddlewareApi`, `CloudApi`, the AllJoyn handlers): blocking calls
  that return an error code; the environment of the managers.

### linlivehd

* **bzrtp**.  State per channel: a function pointer (the state), a retransmission
  timer, the role, the stored packets, the secrets.  Driven by `bzrtp_iterate` (time)
  and `bzrtp_processMessage` (packets), talks back through callbacks.  Hard: lost,
  late and repeated packets, both ends starting at once, sends that fail, timers that
  run out.  Correct when: both ends hold the same key, each can decrypt what the other
  one sends, and lost packets do not stop the exchange.
* **belle-sip**, transactions (ICT, IST, NICT, NIST).  State: the state of each
  transaction, its timers, the last response, the channel.  Hard: messages are lost,
  repeated and late, timers race answers, the channel fails at any time.  Correct
  when: the user of a transaction is told one ending and only what happened, and every
  transaction ends.
* **belle-sip**, refreshers and channels.  State: the refresher's timer, target and
  failures, its transaction, the channel with its queue and its deferred notices.
  Hard: a failure may be reported by the response, a timer, the channel or a deferred
  notice.  Correct when: a refresher that should register always has something that
  wakes it, and one attempt runs at a time.
* **belle-sip**, dialogs.  State: the dialog's state, whether the 2xx was acknowledged,
  its timers.  The end of a dialog is told by a deferred callback.
* **liblinphone**.  State: the op of a call (`SalOp`) with its dialog, the state of the
  `LinphoneCall`, the state of an account.  Calls into belle-sip, which calls back.
  Hard: the user hangs up while the answer is on its way, requests time out, the op
  and its dialog are unlinked while the end of the dialog is still to be told.  Correct
  when: what the users are shown is a call, nobody goes on talking alone, and every
  call that is over is released.
* **oRTP, mediastreamer2, Android UI, `externals`**: signal processing, screens,
  third-party code.

`PROJECT.json` lists each part with its files and, where it is not modelled, the
reason; its `hazards` are the places where the code is hard to test.

## AssetCommand: a command, its answer and its time-out

`pc[c]` is the position of the thread that `SendCommand` starts for command `c`;
`hpc`/`hcmd` the position of the handler thread in `BaseAsset_CommandTimeOut`;
`timer` the `MESSAGE_COMMAND_TIMEOUT` messages in the queue; `mCmdResult` the keys of
the map.  Each access to shared state is a step of its own: `PutBegin`/`PutEnd`,
`ArmTimeout`, `Reply` (the blocking call returns, with any code, or never),
`CancelTimeout`, `Lookup`, `Take`, `Tell`, and the same look-up in the handler thread.
A command enters by `sendCommandMessage` and the handler, or directly, as in
`PMManager.setPMNoticeSetting`.

`HashMap` is not synchronised.  The model lets an insertion or removal that overlaps
another one get lost, and a look-up that overlaps an insertion miss an entry; `raceHit`
remembers the commands this happened to.  The properties are stated up to `raceHit`:
they say what holds of the protocol itself, and that the races of the map are the
only way to lose a report.

* `NoSilentCommand`, `ToldMeansTaken`, `NoStrayTimeout` (invariants) and
  `LateLookupFindsNothing` (action property), `TypeOK`, and `EveryCommandReported`
  (liveness): run `asset_command`, two commands, the least at which two threads race
  on the map; the safety properties are proved for any number.
* Two reports of one command stay possible: the look-up and the removal are two calls
  (`BaseAssetManager.java:255-257`), and when the answer and the time-out both look up
  before either removes, both report.  `LateLookupFindsNothing` confines a second report
  to this window: after a removal or a report neither side finds the entry.  Nothing in
  the repository says that there is only one report.
* Fairness: threads are scheduled (WF on each step) and the looper serves its FIFO
  queue (SF on the two actions that take a message, since the looper may be busy in
  between).  Nothing is assumed of `Reply`.
* Seen in the code, not checked by a run: a time-out is reported with code 0,
  `ErrorKey.Success`, since `obtainMessage(what, obj)` leaves `arg1` at 0
  (`BaseAssetManager.java:291`).

## Ota: checks, upgrades and the automatic update

`list[d]` is the current `OTADevice` object of a uuid, `dev` the fields of every
object ever made (`MaxGen` per uuid): a message keeps the object it was posted with.
`q` is the looper's queue, `stateTimer` and `checkTimer` count the delayed messages
per object (they are armed more than once and never removed by their object).
`looper` and `notifier` say what a thread is in the middle of: a blocking call, or two
setters of `OTADevice`, which are synchronized one by one.  The steps of other threads
interleave with it, so `checkVersion` has a start and an end, and `doUpgrade` and
`handleUpgradeTimeout` also stop behind their first setter (`beginning`, `timingOut`).
Each message of `BackgroundHandler.handleMessage` is an action.  `crashed` ends the
process, nothing runs after it: `doUpgrade` reads `newVersionInfo` after it was taken
away, `deviceUpgradeTimeout` may get a null device, and an activity that is gone is made
to show a dialog.  The last happens when its object was replaced or removed meanwhile:
`onDestroy` takes the listener from the current object of the uuid only, and the old one
keeps it (`leaked`).

* Run `ota_upgrade`: `TypeOK`, `UpgradeGuarded`, `TimeoutHasState`,
  `ProgressMeansUpgrading` and `UpgradeEnds` (liveness), with one RoomHub that is
  removed while its object is still held by messages and time-outs, and two reports.
  Fairness: the looper serves its queue, delayed messages fall due, the network calls
  return.  Nothing of the user, MQTT or RoomHubManager.  That a RoomHub is added again
  (a second object, `MaxGen` = 2) is covered by the proofs, which hold for all bounds.
* Run `ota_auto`: `QuestionNotLost`, two RoomHubs with new versions, one login.  While
  `mAutoUpdateState` is SEND_CONFIRM only the user's answer moves it on.  `QuestionOpen`
  says that the answer can still come: a message on its way to the dialog or back, a
  reminder, an activity about to be created, a dialog, or a check that will bring one,
  the last three for a device whose `confirm` flag passes the answer on.  The flag alone
  is nothing: it survives the activity.  The property: the question is open when the
  state is entered, and no step takes the last of these away but the ones in `Drops`.
  Those are the ways the code does lose a question: the user dismisses the reminder or
  leaves the activity, with or without an answer (`onDestroy` and `autoExit` give none);
  the activity is created with nothing to show; the app is busy or the device unfit when
  the activity is to be launched; the check finds no version; the device was replaced or
  is removed.  After one of them the state stays SEND_CONFIRM and the automatic update is
  stuck for the life of the process: the property does not claim the opposite.
* Finding, run `ota_next`: the second search of `getNextAutoUpdateDevice` returns the
  element behind the one it found, and the device just answered for is asked about
  again.
* Seen in the code, not checked by a run: a report that is logged as ignored has
  already removed the time-out (`OTAManager.java:315`).  `UpgradeGuarded` and
  `UpgradeEnds` therefore except the objects this happened to, which the history
  variable `ignored` collects.

Abstractions.  One activity per uuid.  `autoExit`'s `finish()` is a later
`CloseActivity`.  Where no other thread can tell, the setters of a method are one step.  The messages of the activity's own handler are delivered with the
end of the check that posts them.  Whether a RoomHub is logged in, owned, onboarding or
pairing infrared is decided by the environment (a nondeterministic choice); the
upgrade flag that RoomHubManager keeps as well is not modelled.  The periodic check is
off (`config_ota_auto_update` is false) and left out.  `HashMap` order is the order
of the device numbers.

Bounds: `NDev` devices, `MaxGen` objects each, `MaxAdds`, `MaxReports`, `MaxOpens`,
`MaxLogins` events of the environment.  Two reports are what it takes for one to be
late.  The proofs hold for all bounds.

## Zrtp: the exchange of one channel

`state[e]` is the state function of end `e`, `timer`, `fires` its retransmission
timer, `role`, `s0`, `rx`, `tx` its role, its key and the secrets handed to the media
stream.  Every message handler and every INIT event of `stateMachine.c` is an action;
a handler that enters a new state includes the INIT event of that state, as in the
code.  `Timer` is `bzrtp_iterate` on a due timer.

Network.  A packet carries a sequence number and `bzrtp_packetCheck` drops every
packet not above the last accepted one.  `net[e]` is therefore the ordered list of
packets that `e` would not yet drop: accepting the i-th discards all before it.
A packet that is never received is lost, one received late was delayed, and one that
is rejected changes nothing, so copies of it are covered too.  (Conf2ACK is the one
packet whose number the code does not record.)  With `SendErrors` the `sendData`
callback may fail where the code looks at its result.

Abstractions.  The contents of packets, the cryptography and the secret cache; time
(any armed timer may fire, except with `Prompt`); `s0` is told apart by who is ZIDi in
the key derivation, which is what the two ends could disagree on; the hvi (or nonce)
values of the two Commits differ and `Low` has the lower one; both ends use the same
`Mode`.  Not modelled: several channels at once, `bzrtp_resetRetransmissionTimer`,
PING, pre-shared mode.

* Run `zrtp_dhm`: `TypeOK`, `KeysAgree`, `SenderHasReceiver`, `SomebodySends`,
  `ResponderFirst`, and `ImplementsKeyHandover`: the exchange refines `KeyHandover`,
  the order in which key and secrets come out, with key, receivers and senders as the
  refinement mapping.  Two retransmissions per state; sends may fail.
* Run `zrtp_mult`: `KeysAgree` for a further channel, with the key derived from the
  session and no Diffie-Hellman parts.  The other safety properties are proved for
  both modes.
* Run `zrtp_live`: `EventuallySecure`, with the limits of the code (20 Hellos, 10 of
  the others).  Here a packet arrives before the next timer (`Prompt`, the timers
  start at 50 ms and 150 ms) and at most `MaxLoss` = 11 packets are lost; any 11.
  Packets sent to an end that is not started are lost for nothing, so the start may be
  arbitrarily late.  Fairness: both ends are started, ticked and receive.
* Seen in the code, not checked by a run: the INIT event of
  `initiatorSendingConfirm2` returns when its first send fails, before it arms the
  timer, although the comment above it promises Confirm2 "until timer's end"
  (`stateMachine.c:1181`, `1229`).  `SomebodySends` makes this exception.

## InviteTransaction: both ends of an INVITE transaction

`cst`/`ctimers` are the state and the armed timers (A, B, D, M) of the client
transaction, `sst`/`stimers` (G, H, I, L) those of the server transaction, `last` its
`last_response`; `told` is the last thing the caller's listener heard, `endings` how
many failures.  `SendRequest` is `belle_sip_client_transaction_send_request_to` with
its three outcomes (no channel, a channel that connects, one that is ready);
`ReceiveResponse` goes through `belle_sip_provider_dispatch_response` and
`ict_on_response`; each timer callback is an action.  The network is a pair of sets of
messages: with an unreliable transport each may be lost, repeated and reordered.

Abstractions.  Timers have no durations: an armed one may fire at any time.  `told` is
what the transaction hands to its dialog, which filters a 2xx that is told again.  A
copy of the INVITE that arrives after the end of its server transaction starts another
one, as in `belle_sip_provider_dispatch_request` (`MaxCalls` = 2 of them).

* Run `invite`: `TypeOK`, `OneEnding`, `AckMeansFailure`, `AnsweredHasTimer`,
  `OutcomeSpec` (the transaction implements `InviteOutcome`: what the caller is told
  was answered, in the order 1xx, then one ending), and the liveness properties
  `AnsweredEnds` and `CallingEnds`.  One 1xx besides 100, two 2xx and one failure.
  Fairness: armed timers fire.  Nothing is assumed of the network.  The reliable
  transport (`Reliable` = TRUE) is covered by the proofs.
* Seen in the code, not checked by a run: `ist_send_new_response` lets a second 2xx
  "go to transport layer" (`ist.c:142`), but its caller queues it nowhere.

## Registration: an account that stays registered

`reg` and `enabled` are the state of a proxy config that the user sees and
`reg_sendregister`; `asked` and `pending` say that credentials were asked for and that
the op waits for them in `pending_auths`; `rstate`, `timer`, `target`, `authFailures`, `ioFlag` the
refresher; `trans`, `timedOut`, `timerF` its REGISTER transaction; `chan`, `notices`,
`untried` the channel, its deferred error notices and the addresses it has not tried.
Actions: the operations of the user (`Register`, `RefreshRegister`, `PauseRegister`,
`Unregister`), the cases of `process_response_event` by status code, the timers, and
the channel (`Connected`, `ConnectFails`, `ChannelFails`, `Disconnected`, `NoticeDue`,
`OtherChannelGone`).  `ChannelGone` follows a notice through the transaction, the
provider and the refresher in the order of the code.  Any failure of an op whose
credentials were asked for makes it wait for them, whatever the code (`Await`), and
`Authenticate`, `linphone_core_add_auth_info`, shows Progress and registers again with
the target the refresher has.

* Run `registration`: `TypeOK`, `NotAbandoned`, `ShownIsTrue`, `OneAttempt`,
  `WaitingIsServed`, `UnregisterIsFinal`, and the liveness properties `Retried` and
  `WaitingEnds`.  One alternate address, two pending notices, one code of each case.
  Fairness: timers fire, deferred notices are called, a connection is made or fails.
  The server need not answer.
* `ShownIsTrue` says that an account shown as Ok or Progress has a timer or a transaction
  that keeps or makes it, with four exceptions, endings of which nothing in the code tells
  the user:
  * `Paused`: the refresher was stopped by `linphone_proxy_config_pause_register`.  What
    is shown stays.  The comment of that function (`proxy.c:352-357`) says that refreshing
    can be resumed with `linphone_proxy_config_refresh_register`.  That one does nothing
    while Progress is shown (`proxy.c:493`), and otherwise registers once and leaves the
    refresher stopped (`refresher.c:219`), so that the registration then expires.
  * `Unsendable`: the last request found no channel.
  * `Undecided`: the listener was told a code that it takes neither for a success nor for
    a failure, a redirection without a contact or another 2xx for an unregistration.
  * `CutOff`: an unregistration that was stopped before its answer, or met by a 503 (shown
    as "retrying", `callbacks.c:886`, while nothing is retried).
* Finding, run `registration_retry`: a transaction whose time-out is left to its
  channel may never end when the server has a second address.
* Seen in the code, not checked by a run: an io error may be told to the listener
  twice (`refresher.c:118-121`).

Not modelled: delays, the refresher's manual mode, refreshers of dialogs and
subscriptions, replaced transactions, network reachability, and an account whose
server is changed while it is registered.

## SipCall: a call from the INVITE to the release of both ends

For each end: `user`, the state of the `LinphoneCall`; `op`, that of the `SalOp`;
`dlg` and `prev`, the dialog; `linked`, whether the op and the dialog point to each
other; `due`, the callbacks of `belle_sip_main_loop_do_later`; `bye`, the client
transactions of the op's BYE and of the one belle-sip sends by itself.  The
transactions of INVITE and CANCEL are their states (`InviteTransaction` has the rest).
A received message is one action, from the provider through the dialog
(`belle_sip_dialog_update`) to the op (`call_process_response`,
`process_request_event`) and to the callback of liblinphone, in this order.  A CANCEL that
comes late is answered 481 in a call that was accepted, not at all in one whose dialog is
over, and 481 again once the op of that dialog is released, for its transaction has lost
the dialog by then (`transaction.c:158-161`).

The network is a FIFO queue to each end; up to `MaxFaults` messages are lost or
overtaken by the next one.  A message stands for all retransmissions of its
transaction, so one that is lost makes the transaction time out, and a transaction
times out only when nothing of it is on its way (`Silent`).  The 2xx, which the dialog
sends again by a timer of its own, may be sent again whenever none is on its way
(`ResendOk`); that timer may end at any time (`OkTimerEnd`).  The transactions of the
INVITE stay in ACCEPTED and COMPLETED; those of a BYE end (`ByeOver`), since the op
listens to it.

* Run `sip_call`, `MaxFaults` = 1:
  * `CallViewSpec`: the states the two users are shown are a call.  Nobody runs before
    it was answered, a call that is over stays over, only such a call is released.
  * `NobodyTalksAlone`: a callee that is in a call whose caller is gone has something
    that will end it: the timer of its 2xx, a BYE of the caller, unless it was lost, or
    the BYE that the timer sends, unless nobody answered it in time.  The last exception
    needs no lost BYE: `process_request_event` ignores a request in a dialog whose op is
    released.  A caller gets there when its CANCEL times out, a 180 makes an early
    dialog after that and the 2xx is lost.  That takes two faults: the theorem below
    covers it, for every `MaxFaults`.
  * `EndIsPending`: a call that is over for its user, and not released, has something
    that will end it (`Pending`): a deferred callback, the answer or the time-out of its
    BYE, or, for a caller, the rest of its INVITE or CANCEL.
  * `HangUpEnds` (liveness): a call that is over for its user is released.  The
    exceptions of both (`Stuck`) are what the code really does: its BYE has timed out (the
    finding below), the CANCEL has timed out or the final response of the INVITE was
    lost while the transaction was PROCEEDING, which has no timer, or the notice of the
    end found a dialog that the answer to the CANCEL had unlinked from its op
    (`missed`).
  Fairness: messages that are not lost arrive, timers fire, deferred callbacks are
  called.  Nothing is asked of the users: they need not answer or hang up.
  One fault lets each message of the exchange be the one that is lost or late; with the
  crossing of the two queues this gives all pairs of a hang-up and an answer.  With
  `MaxFaults` = 2 (1.1 million states) the safety properties take TLC less than a minute,
  and `HangUpEnds` holds too, in a run too long to keep.
* Finding, run `sip_call_timeout`: `TimedOutByeEnds`.  A BYE that times out ends
  nothing, although the comments of `dialog.c` and `sal_op_call.c` say so.
* Seen in the code, not checked by a run: a BYE of the callee that overtakes its own
  200 (over UDP) is answered 501 or 481; the callee's dialog ends, and the caller goes
  to Running alone when the 200 comes.

Not modelled: re-INVITE, UPDATE, INFO, REFER, forking, early media, reliable
provisional responses, authentication of the INVITE, errors of the channel, stale
timers of the client transaction, a callee that declines as busy, more than one call.

The runs check no deadlock: an exchange that is over, a user who does nothing and a
command that has ended may really stop.

## What is proved

The eight `...Proofs` modules hold the theorems, for all constants that satisfy the
named assumptions of the modules (`ErrorsAssumption`, `LooperAssumption`,
`BoundsAssumption`, `EndpointAssumption`, `ModeAssumption`, `BoundAssumption`,
`NetworkAssumption`, `InviteAssumption`, `RegistrationAssumption`, `FaultAssumption`).
Each proves an invariant `IInv` inductive, one lemma per action or group of actions,
and derives the properties from it.

* **AssetCommand.**  The properties alone are not inductive: that a finished command
  was reported needs to know that its entry was in the map until somebody took it
  (`RegisteredUntilTaken`), that whoever is about to report has removed it
  (`TakenIsGone`), and that nobody knows a command before its thread has registered it
  (`FreshUnknown`).  Theorems: `TypeCorrect`, `NoCommandIsSilent`, `TakenBeforeTold`,
  `TimeoutsAreCancelled`, `LateLookupsFindNothing`.  For the liveness the invariant says
  who watches over a command (`SendingAlwaysWatched`); then `EveryCommandIsReported`.
* **Ota.**  `StartingHasState` is what is missing: while the blocking upgrade call
  runs the device has its upgrade state, so the time-out armed after it finds one.
  The queue is a sequence, and most of the work is to show which messages stay in it.
  `QuestionNotLost` needs no more than the types, one step after the other (`Settled`): a
  step keeps every message, dialog and check that could bring the answer (`Keeps`,
  `LeftOpen`), hands the question on, or is one of `Drops`.  Theorems: `TypeCorrect`,
  `UpgradesAreGuarded`, `TimeoutsHaveState`, `ProgressBarsEnd`, `QuestionsAreNotLost`.
* **Zrtp.**  The invariant says how far the peer must have come, from the state of an
  end (`GreetingOrder`, `RoleOrder`, `ConfirmOrder`), from the packets on their way to
  it (`Provenance`), and which secrets each state has (`Secrets`).  Its heart is the
  contention: only `Low` can have sent a Commit and become a responder after it.
  Theorems: `TypeCorrect`, `SameKey`, `SendersAreHeard`, `ResponderIsFirst`,
  `SomebodyAlwaysSends`, and `Refinement`, that the exchange implements `KeyHandover`.

* **InviteTransaction.**  What the caller was told follows from the client's state
  (`ToldByState`); an ACK on its way says that the caller was told a failure
  (`AckProvenance`), a final response on its way that the callee gave it
  (`AnswerProvenance`).  Theorems: `TypeCorrect`, `EndsOnce`, `AcksAreForFailures`,
  `AnsweredIsTimed`, and `Refinement`, that it implements `InviteOutcome`; and the
  liveness: `AnsweredAlwaysEnds`, `CallingAlwaysEnds`.
* **Registration.**  `NotAbandoned` needs that a channel in error has a notice due
  (`ErrorHasNotice`) and that a running transaction has a channel that can still tell
  it something (`LiveHasChannel`); `UnregisterIsFinal` that an unregistration that
  could not be sent is dead (`ZeroMeansDisabled`).  `ShownIsTrue` needs that no final
  answer was told while the transaction runs (`LiveIsUntold`).  What is known of
  credentials is an invariant beside it (`CredsInv`), for only `Authenticate` reads it:
  no dead refresher, and no account shown as Ok, waits for them.  Theorems: `TypeCorrect`,
  `NeverAbandoned`, `AlwaysShownTruly`, `AlwaysOneAttempt`, `AlwaysServed`,
  `UnregisteredForGood`.  That an account waiting for its retry has the timer of its
  refresher (`RetryAlwaysArmed`) gives the liveness, `AlwaysRetried`.
* **SipCall.**  The invariant ties the user, the op and the dialog of each end
  together (`EndInv`, `CallerInv`, `CalleeInv`): an op is terminated exactly when the
  user is shown the release, a dialog that ended before it was confirmed is over for
  the user too.  Between the ends it needs two facts of the queues (`Genuine`): an
  INVITE on its way was sent by a caller, a 2xx on its way was given by a callee.  They
  survive whatever is taken, lost, repeated or overtaken.  Theorems: `TypeCorrect` and
  `Refinement`, that the call implements `CallView`.
* **SipCall, the BYEs** (`SipCallByeProofs`).  `NobodyTalksAlone` needs to know where
  the BYEs are.  A caller that has acknowledged the 2xx is in the call until somebody
  sends a BYE (`CallerKnows`); a confirmed callee has its timer, was acknowledged or has
  sent its own BYE (`Ending`); a BYE of the caller is lost, on its way with its
  transaction running, or the callee is out of the call (`CallerByes`); and a message on
  its way tells the truth (`AllMeant`): who sent a BYE, that its answer comes from a
  callee out of the call, that the ACK was sent.  Most steps move none of these messages
  (`CalmKept`).  Theorem: `NobodyIsLeftAlone`.
* **SipCall, the ends** (`SipCallEndProofs`).  `EndIsPending` is the safety half of
  `HangUpEnds`: every call that is over waits for something.  `EndInvariant` says what,
  by the state of the dialog.  At both ends (`EndOver`) an op whose dialog is over has a
  callback due, or has missed it (`ToldLater`); a call that is over in a confirmed dialog
  has a BYE under way or timed out (`ByeOwed`); and one whose op is not terminating has
  a dialog that is over (`DialogGone`).  A caller's dialog keeps up with its INVITE, and a
  caller that hung up a ringing call has sent a CANCEL (`CallerOver`); a callee's keeps up
  with its transaction (`CalleeOver`).  A final answer the caller has not taken is on its
  way or lost, and nobody answers a CANCEL before the INVITE (`NetOver`).  Theorem:
  `EndIsAlwaysPending`.

**Liveness.**  ENABLED, and with it WF and SF, are out of the prover's reach.  The
proofs therefore state the fairness of an action A with the guard of A in place of
ENABLED A, `[]<>~guard \/ []<><<A>>_vars` for a weakly fair action and `<>[]~guard` on
the left for a strongly fair one (`TimersFire`, `TimerFires`, `AllRun`), and
prove the properties from `Spec` and that.  The bridge theorems (`FairTimersFire`,
`FairTimerFires`, `FairAllRun`) derive it from the `FairSpec` that TLC checks, under the
hypothesis that the guards enable the actions (`GuardsEnable`, `GuardEnables`).  This
hypothesis is not proved: it is read off the actions, whose remaining conjuncts give the
primed variables values and leave a choice of at least one.  TLC checks the same properties under WF and SF themselves.  What the
proofs add to the runs is again every value of the constants.  Each proof has the same
shape: an invariant keeps the guard true until the step that ends the wait, so fairness
makes that step happen.

Only model-checked: `UpgradeEnds`, `EventuallySecure`, `WaitingEnds` and `HangUpEnds`.
Their arguments count something down (a message's place in the looper's queue, the
losses that are left, the addresses that have not been tried, the messages in front of
the awaited one), and a temporal induction over numbers or queues is out of the
prover's reach.

## Plan

Done: commands, upgrade, ZRTP, INVITE transactions, registration, calls.  What would
come next, most important first:

1. **Several ZRTP channels** of one context: the shared time reference and `isSecure`,
   channels that wait for the first one, `bzrtp_resetRetransmissionTimer`.
2. **The ZRTP secret cache**: rs1 and rs2 of the two ends over repeated calls that may
   break off anywhere.
3. **Re-INVITE and transfer** in `SipCall`.
4. **RoomHubManager and onboarding**, composed with `Ota`: the upgrade flag kept twice,
   login and removal.
5. **BLE pairing**, position and beacons.

## Not modelled

`PROJECT.json` gives the reason for each part.  By size nearly all of the repository is
third-party code (`submodules/externals`: ffmpeg, libxml2, WebRTC, codecs), generated
parsers, signal processing and screens, which have no protocol of their own; the share
of the lines that the models stand for is small for that reason.
