----------------------------- MODULE Registration -----------------------------
(* The registration of a linphone proxy config: its state (proxy.c,          *)
(* callbacks.c), the refresher of belle-sip that keeps it alive              *)
(* (refresher.c), the REGISTER transaction in progress (nict.c,              *)
(* transaction.c) and the channel it uses (channel.c). The server and the    *)
(* other users of the stack are the environment. A transaction the refresher *)
(* has replaced is left out: its responses and time-outs are "not for me".   *)
EXTENDS Naturals

CONSTANTS
  Reliable,         \* belle_sip_channel_is_reliable: TCP or TLS
  SendErrors,       \* may a request find no channel (no listening point)?
  Alternates,       \* further addresses of the server
  MaxNotices,       \* bound: deferred error notices of one channel
  Codes             \* the status codes of the server's responses

ASSUME RegistrationAssumption ==
  /\ Reliable \in BOOLEAN
  /\ SendErrors \in BOOLEAN
  /\ Alternates \in Nat
  /\ MaxNotices \in Nat \ {0}
  /\ Codes \subseteq 100..699

VARIABLES
  enabled,          \* LinphoneProxyConfig: reg_sendregister
  reg,              \* LinphoneProxyConfig: state
  rstate,           \* refresher: state, or "none" when there is no refresher
  timer,            \* refresher: the purpose of its timer, if there is one
  target,           \* refresher: target_expires, 0 to unregister, else 1
  authFailures,     \* refresher: auth_failures
  ioFlag,           \* refresher: on_io_error
  told,             \* the last code its listener was told since the request
  asked,            \* credentials were asked for: auth_events, or the op's auth_info
  pending,          \* the op waits for credentials: it is in sal's pending_auths
  trans,            \* state of the refresher's transaction
  timedOut,         \* its timed_out
  timerF,           \* is its timer F armed?
  chan,             \* its channel
  notices,          \* deferred notices of an error of that channel
  untried           \* alternate addresses the channel has not tried

credVars == <<asked, pending>>
listenerVars == <<reg, told, credVars>>
proxyVars == <<enabled, listenerVars>>
refresherVars == <<rstate, timer, target, authFailures, ioFlag>>
transVars == <<trans, timedOut, timerF>>
chanVars == <<chan, notices, untried>>
vars == <<proxyVars, refresherVars, transVars, chanVars>>

NotTold == 0

\* Codes after which the refresher tries again by itself (refresher.c).
Recoverable == {403, 408, 480, 503, 504}
Challenge == {401, 407}

Early == {"INIT", "TRYING"}
Live == {"INIT", "TRYING", "PROCEEDING"}

Init ==
  /\ enabled = FALSE /\ reg = "None" /\ told = NotTold
  /\ asked = FALSE /\ pending = FALSE
  /\ rstate = "none" /\ timer = "none" /\ target = 0
  /\ authFailures = 0 /\ ioFlag = FALSE
  /\ trans = "NONE" /\ timedOut = FALSE /\ timerF = FALSE
  /\ chan = "none" /\ notices = 0 /\ untried = 0
------------------------------------------------------------------------------
(* What the listener, sal_op_registration.c and callbacks.c, does with a     *)
(* code: register_success, register_failure, or nothing.                     *)
\* Mutant: every failure of a registration that was made is retried.
RegAfterRetrying(r, code, expires) ==
  IF code = 200 THEN (IF expires > 0 THEN "Ok" ELSE "Cleared")
  ELSE IF code < 400 THEN r
  ELSE IF r = "Ok" THEN "Progress" ELSE "Failed"

RegAfter(r, code, expires) ==
  IF code = 200 THEN (IF expires > 0 THEN "Ok" ELSE "Cleared")
  ELSE IF code < 400 THEN r
  ELSE IF code = 503 /\ r = "Ok" THEN "Progress" ELSE "Failed"

\* The proxy's state and the code it stands for.
Show(code) ==
  /\ told' = code
  /\ reg' = RegAfter(reg, code, target)

\* Any failure of an op that was asked for credentials, whatever its code, makes it
\* wait for them; the 200 ends that.
Await(code, credentials) ==
  /\ asked' = credentials
  /\ pending' = IF code = 200 THEN FALSE ELSE pending \/ (code >= 400 /\ credentials)

\* refresher->listener.
Tell(code) == Show(code) /\ Await(code, asked)

TellIoError == Tell(503)

\* An "io error" and then a "timeout".
TellBoth ==
  /\ told' = 408
  /\ reg' = RegAfter(RegAfter(reg, 503, target), 408, target)
  /\ Await(408, asked)
------------------------------------------------------------------------------
(* Sending a request: the end of belle_sip_refresher_refresh_internal, and   *)
(* belle_sip_client_transaction_send_request_to.                             *)

\* Mutant: the provider does not release a channel that is gone.
ListedClosed == chan \in {"connecting", "ready", "error", "closed"}

\* The channel is known to its listening point: not released.
Listed == chan \in {"connecting", "ready", "error"}

SendOn(c) ==
  /\ chan' = c
  /\ trans' = IF c = "ready" THEN "TRYING" ELSE "INIT"
  /\ timerF' = (c = "ready")

FreshChannel(c) ==
  /\ SendOn(c)
  /\ notices' = 0
  /\ untried' = Alternates

SameChannel ==
  /\ Listed
  /\ SendOn(chan)
  /\ UNCHANGED <<notices, untried>>

NewRequest ==
  /\ ioFlag' = FALSE
  /\ timedOut' = FALSE
  /\ told' = NotTold

\* A request to the next hop of the last one.
Sent ==
  /\ NewRequest
  /\ \/ SameChannel
     \/ ~Listed /\ FreshChannel("connecting")

\* A request to the contact of a redirection.
SentElsewhere ==
  /\ NewRequest
  /\ \/ SameChannel
     \/ FreshChannel("connecting")
     \/ FreshChannel("ready")

\* No channel: the new transaction is terminated and stays the refresher's.
NotSent ==
  /\ SendErrors
  /\ NewRequest
  /\ trans' = "TERMINATED"
  /\ timerF' = FALSE
  /\ chan' = "none" /\ notices' = 0 /\ untried' = 0
------------------------------------------------------------------------------
(* The user. *)

\* linphone_proxy_config_register, sal_register: a new op with a refresher
\* that takes over the first transaction.
Register ==
  /\ enabled' = TRUE
  /\ timer' = "none"
  /\ target' = 1
  /\ authFailures' = 0
  /\ asked' = FALSE /\ pending' = FALSE
  /\ \/ Sent /\ reg' = "Progress" /\ rstate' = "started"
     \/ NotSent /\ reg' = "Failed" /\ rstate' = "none"

\* Mutant: the retry is not cancelled.
RefreshUncancelled(expires) ==
  /\ rstate # "none"
  /\ UNCHANGED timer
  /\ authFailures' = 0
  /\ target' = expires

\* belle_sip_refresher_refresh from outside: any retry is cancelled.
Refresh(expires) ==
  /\ rstate # "none"
  /\ timer' = "none"
  /\ authFailures' = 0
  /\ target' = expires

\* linphone_proxy_config_refresh_register.
RefreshRegister ==
  /\ enabled
  /\ reg # "Progress"
  /\ Refresh(1)
  /\ \/ Sent /\ reg' = "Progress"
     \/ NotSent /\ UNCHANGED reg
  /\ UNCHANGED <<enabled, rstate, credVars>>

\* linphone_proxy_config_register for a registration that was disabled, and
\* _linphone_proxy_config_unregister: once sent the refresher is stopped. What
\* is not registered has nothing to send; linphone_proxy_config_edit, which
\* must come first, has stopped the refresher.
Unregister ==
  /\ enabled
  /\ enabled' = FALSE
  /\ \/ /\ reg = "Ok"
        /\ Refresh(0)
        /\ \/ Sent /\ rstate' = "stopped"
           \/ NotSent /\ UNCHANGED rstate
        /\ UNCHANGED <<reg, credVars>>
     \/ /\ reg # "Ok"
        /\ rstate = "stopped"
        /\ reg' = IF reg = "Progress" THEN "Cleared" ELSE reg
        /\ UNCHANGED <<told, credVars, refresherVars, transVars, chanVars>>

\* linphone_proxy_config_pause_register: belle_sip_refresher_stop.
PauseRegister ==
  /\ rstate # "none"
  /\ rstate' = "stopped"
  /\ timer' = "none"
  /\ \/ /\ trans \in Live
        /\ trans' = "TERMINATED"
        /\ timerF' = FALSE
        /\ UNCHANGED timedOut
     \/ /\ trans \notin Live
        /\ UNCHANGED transVars
  /\ UNCHANGED <<proxyVars, target, authFailures, ioFlag, chanVars>>

\* linphone_core_add_auth_info, for an op that waits for credentials: it registers
\* again with the target it has, and is shown as in progress whether it is sent or not.
Authenticate ==
  /\ pending
  /\ Refresh(target)
  /\ reg' = "Progress"
  /\ Sent \/ NotSent
  /\ UNCHANGED <<enabled, rstate, credVars>>
------------------------------------------------------------------------------
(* Responses: nict_on_response and process_response_event.                   *)

\* The transaction has its final response and stays the refresher's one.
Complete ==
  /\ trans' = IF Reliable THEN "TERMINATED" ELSE "COMPLETED"
  /\ timerF' = (timerF /\ ~Reliable)
  /\ UNCHANGED <<timedOut, ioFlag, chanVars>>

ReceiveProvisional(c) ==
  /\ c < 200
  /\ IF trans = "TRYING"
       THEN /\ trans' = "PROCEEDING"
            /\ Tell(c)
            /\ UNCHANGED <<refresherVars, timedOut, timerF, chanVars>>
       ELSE UNCHANGED vars

\* A 2xx: the next refresh is armed, or, if the contact of the request was
\* not the public address of the channel, the request is sent again.
ReceiveSuccess(c) ==
  /\ c \in 200..299
  /\ authFailures' = 0
  /\ UNCHANGED target
  /\ \/ /\ target = 0
        /\ rstate' = "stopped"
        /\ timer' = "none"
        /\ Complete /\ Tell(c)
     \/ /\ target > 0
        /\ rstate = "stopped"
        /\ Complete /\ Tell(c)
        /\ UNCHANGED <<rstate, timer>>
     \/ /\ target > 0
        /\ rstate = "started"
        /\ timer' = "refresh"
        /\ Complete /\ Tell(c)
        /\ UNCHANGED rstate
     \/ /\ target > 0
        /\ rstate = "started"
        /\ timer' = "none"
        /\ Sent \/ NotSent
        /\ UNCHANGED <<reg, rstate, credVars>>

\* Credentials are looked up, unless those asked for before still do.
LookedUp == asked' \in {asked, TRUE} /\ UNCHANGED pending
AwaitMissing(code) == Await(code, TRUE)
AwaitLookedUp(code) == \E credentials \in {asked, TRUE} : Await(code, credentials)

\* The request is sent again at once, and the user learns nothing unless that
\* fails: then the refresher reports the code it has received. Without the
\* credentials asked for the old transaction is kept.
Again(c, send) ==
  \/ /\ send
     /\ rstate' = IF target = 0 THEN "stopped" ELSE rstate
     /\ timer' = IF target = 0 THEN "none" ELSE timer
     /\ LookedUp
     /\ UNCHANGED reg
  \/ /\ SendErrors
     /\ trans' = "TERMINATED" /\ timerF' = FALSE /\ timedOut' = FALSE
     /\ chan' = "none" /\ notices' = 0 /\ untried' = 0
     /\ ioFlag' = FALSE
     /\ Show(c) /\ AwaitLookedUp(c)
     /\ UNCHANGED <<rstate, timer>>
  \/ /\ Complete
     /\ Show(c) /\ AwaitMissing(c)
     /\ UNCHANGED <<rstate, timer>>

\* 301 and 302, with a contact or without.
ReceiveRedirection(c) ==
  /\ c \in {301, 302}
  /\ \/ Again(c, SentElsewhere)
     \/ Complete /\ Tell(c) /\ UNCHANGED <<rstate, timer>>
  /\ UNCHANGED <<target, authFailures>>

\* Mutant: every challenge is answered.
ReceiveChallengeAlways(c) ==
  /\ c \in Challenge
  /\ authFailures' = authFailures + 1
  /\ Again(c, Sent)
  /\ UNCHANGED target

\* 401 and 407: answered once, then later.
ReceiveChallenge(c) ==
  /\ c \in Challenge
  /\ UNCHANGED target
  /\ \/ /\ authFailures = 0
        /\ authFailures' = 1
        /\ Again(c, Sent)
     \/ /\ authFailures = 1
        /\ authFailures' = 0
        /\ timer' = IF target > 0 THEN "retry" ELSE timer
        /\ Complete /\ Tell(c)
        /\ UNCHANGED rstate

ReceiveRecoverable(c) ==
  /\ c \in Recoverable
  /\ timer' = IF target > 0 THEN "retry" ELSE timer
  /\ Complete /\ Tell(c)
  /\ UNCHANGED <<rstate, target, authFailures>>

\* Mutant: a stopped refresher obeys a 423 as well.
ReceiveTooBriefStopped(c) ==
  /\ c = 423
  /\ Refresh(1)
  /\ Sent \/ NotSent
  /\ UNCHANGED <<reg, rstate, credVars>>

\* 423 with a Min-Expires header, which becomes the target, or without.
ReceiveTooBrief(c) ==
  /\ c = 423
  /\ \/ /\ rstate = "started"
        /\ Refresh(1)
        /\ Sent \/ NotSent
        /\ UNCHANGED <<reg, rstate, credVars>>
     \/ /\ Complete /\ Tell(c)
        /\ UNCHANGED <<rstate, timer, target, authFailures>>

ReceiveOther(c) ==
  /\ c >= 300
  /\ c \notin Recoverable \cup Challenge \cup {301, 302, 423}
  /\ Complete /\ Tell(c)
  /\ UNCHANGED <<rstate, timer, target, authFailures>>

ReceiveFinal(c) ==
  \/ ReceiveSuccess(c)
  \/ ReceiveRedirection(c)
  \/ ReceiveChallenge(c)
  \/ ReceiveRecoverable(c)
  \/ ReceiveTooBrief(c)
  \/ ReceiveOther(c)

ReceiveResponse(c) ==
  /\ trans \in {"TRYING", "PROCEEDING"}
  /\ chan \in {"ready", "error"}
  /\ ReceiveProvisional(c) \/ ReceiveFinal(c)
  /\ UNCHANGED enabled
------------------------------------------------------------------------------
(* Timers. *)

\* timer_cb.
RefreshTimer ==
  /\ timer # "none"
  /\ authFailures' = 0
  /\ \/ Sent /\ timer' = "none" /\ rstate' = IF target = 0 THEN "stopped" ELSE rstate
     \/ NotSent /\ timer' = "retry" /\ UNCHANGED rstate
  /\ UNCHANGED <<enabled, reg, target, credVars>>

\* Mutant: a time-out is reported and not retried.
RetryAfterTimeoutNever == UNCHANGED timer

\* process_timeout; the listener is told 408.
RetryAfterTimeout == timer' = IF rstate = "started" THEN "retry" ELSE timer

\* Mutant: the notice is forgotten.
HandleErrorSilent ==
  IF chan # "ready" /\ untried > 0
    THEN chan' = "connecting" /\ untried' = untried - 1 /\ UNCHANGED notices
    ELSE chan' = "error" /\ UNCHANGED <<notices, untried>>

\* belle_sip_channel_handle_error: the next address is tried by a channel
\* that is not ready, else everybody is told later.
HandleError ==
  IF chan # "ready" /\ untried > 0
    THEN chan' = "connecting" /\ untried' = untried - 1 /\ UNCHANGED notices
    ELSE /\ notices < MaxNotices
         /\ chan' = "error" /\ notices' = notices + 1 /\ UNCHANGED untried

\* nict_on_timer_F, belle_sip_transaction_notify_timeout: a channel that has
\* heard nothing for long is made to fail, and will tell; otherwise the
\* transaction tells.
TimerF ==
  /\ timerF
  /\ timerF' = FALSE
  /\ \/ /\ trans \in {"TRYING", "PROCEEDING"}
        /\ timedOut' = TRUE
        /\ HandleError
        /\ UNCHANGED <<listenerVars, timer, trans>>
     \/ /\ trans \in {"TRYING", "PROCEEDING"}
        /\ RetryAfterTimeout
        /\ Tell(408)
        /\ trans' = "TERMINATED"
        /\ UNCHANGED <<timedOut, chanVars>>
     \/ /\ trans \notin {"TRYING", "PROCEEDING"}
        /\ UNCHANGED <<listenerVars, timer, trans, timedOut, chanVars>>
  /\ UNCHANGED <<enabled, rstate, target, authFailures, ioFlag>>

TimerK ==
  /\ trans = "COMPLETED"
  /\ trans' = "TERMINATED"
  /\ timerF' = FALSE
  /\ UNCHANGED <<proxyVars, refresherVars, timedOut, chanVars>>
------------------------------------------------------------------------------
(* The channel. *)

\* Mutant: the transactions that wait are not told.
ConnectedSilent ==
  /\ chan = "connecting"
  /\ chan' = "ready"
  /\ UNCHANGED <<proxyVars, refresherVars, transVars, notices, untried>>

\* belle_sip_channel_set_ready: transactions that wait send their request.
Connected ==
  /\ chan = "connecting"
  /\ chan' = "ready"
  /\ \/ trans = "INIT" /\ trans' = "TRYING" /\ timerF' = TRUE
     \/ trans # "INIT" /\ UNCHANGED <<trans, timerF>>
  /\ UNCHANGED <<proxyVars, refresherVars, timedOut, notices, untried>>

\* The channel cannot connect, fails to send or receive, or a time-out of
\* another REGISTER transaction makes it suspect.
ConnectFails ==
  /\ chan = "connecting"
  /\ HandleError
  /\ UNCHANGED <<proxyVars, refresherVars, transVars>>

ChannelFails ==
  /\ chan \in {"ready", "error"}
  /\ HandleError
  /\ UNCHANGED <<proxyVars, refresherVars, transVars>>

\* process_io_error when the channel of the transaction has gone, told by the
\* provider if the transaction is over, else by the transaction.
ProviderReports == rstate = "started" /\ trans = "TERMINATED" /\ ~ioFlag
TransactionReports ==
  /\ ~ioFlag
  /\ trans \in Early \/ (trans = "PROCEEDING" /\ rstate = "started" /\ target > 0)

\* The notice of a channel that is gone: provider first, then transaction.
ChannelGone ==
  /\ chan' = "closed"
  /\ UNCHANGED <<enabled, untried, rstate, target, authFailures>>
  /\ LET io == ProviderReports \/ TransactionReports IN
     /\ timer' = IF rstate = "started" /\ (io \/ timedOut) THEN "retry" ELSE timer
     /\ \/ io /\ timedOut /\ TellBoth
        \/ io /\ ~timedOut /\ TellIoError
        \/ ~io /\ timedOut /\ Tell(408)
        \/ ~io /\ ~timedOut /\ UNCHANGED listenerVars
  /\ ioFlag' = (ioFlag \/ ProviderReports)
  /\ trans' = "TERMINATED"
  /\ timerF' = FALSE
  /\ UNCHANGED timedOut

Disconnected ==
  /\ chan = "ready"
  /\ ChannelGone
  /\ UNCHANGED notices

\* channel_invoke_state_listener_defered: it reports the state the channel
\* has now. A released channel no longer tells the provider.
NoticeDue ==
  /\ notices > 0
  /\ notices' = notices - 1
  /\ \/ chan = "error" /\ ChannelGone
     \/ /\ chan = "closed"
        /\ timedOut
        /\ RetryAfterTimeout
        /\ Tell(408)
        /\ UNCHANGED <<enabled, rstate, target, authFailures, ioFlag, transVars, chan, untried>>
     \/ /\ chan # "error"
        /\ chan = "closed" => ~timedOut
        /\ UNCHANGED <<proxyVars, refresherVars, transVars, chan, untried>>

\* The provider tells of another channel: the refresher looks at its own.
OtherChannelGone ==
  /\ ProviderReports
  /\ chan \in {"error", "closed"}
  /\ timer' = "retry"
  /\ ioFlag' = TRUE
  /\ TellIoError
  /\ UNCHANGED <<enabled, rstate, target, authFailures, transVars, chanVars>>
------------------------------------------------------------------------------
User == Register \/ RefreshRegister \/ Unregister \/ PauseRegister \/ Authenticate

Timers == RefreshTimer \/ TimerF \/ TimerK

Channel ==
  Connected \/ ConnectFails \/ ChannelFails \/ Disconnected \/ NoticeDue
    \/ OtherChannelGone

Next ==
  \/ User
  \/ \E c \in Codes : ReceiveResponse(c)
  \/ Timers
  \/ Channel

Spec == Init /\ [][Next]_vars

\* The main loop runs timers and deferred calls, and a connection is made or
\* given up (the transport time-out). The server owes nothing.
Fairness ==
  /\ WF_vars(RefreshTimer)
  /\ WF_vars(TimerF)
  /\ WF_vars(TimerK)
  /\ WF_vars(Connected \/ ConnectFails)
  /\ WF_vars(NoticeDue)

FairSpec == Spec /\ Fairness
------------------------------------------------------------------------------
(* Properties. *)

\* Types: every variable keeps to its states, and the counters to their
\* bounds.
TypeOK ==
  /\ enabled \in BOOLEAN
  /\ reg \in {"None", "Progress", "Ok", "Cleared", "Failed"}
  /\ rstate \in {"none", "started", "stopped"}
  /\ timer \in {"none", "refresh", "retry"}
  /\ target \in {0, 1}
  /\ authFailures \in {0, 1}
  /\ ioFlag \in BOOLEAN
  /\ told \in Codes \cup {NotTold, 408, 503}
  /\ asked \in BOOLEAN /\ pending \in BOOLEAN
  /\ trans \in {"NONE", "INIT", "TRYING", "PROCEEDING", "COMPLETED", "TERMINATED"}
  /\ timedOut \in BOOLEAN
  /\ timerF \in BOOLEAN
  /\ chan \in {"none", "connecting", "ready", "error", "closed"}
  /\ notices \in 0..MaxNotices
  /\ untried \in 0..Alternates

Working == timer # "none" \/ trans \in Live

\* A started refresher that should register never stands still: its timer or
\* its transaction runs, or its listener was told a code that it does not
\* retry, or its request found no channel (process_response_event,
\* process_timeout, process_io_error).
NotAbandoned ==
  rstate = "started" /\ target > 0 =>
    \/ Working
    \/ told >= 300 /\ told \notin Recoverable
    \/ chan = "none"

\* The endings that the user is not shown: the refresher was paused; the last
\* request found no channel; its answer was neither taken as success nor as failure
\* (RegAfter), and asked for nothing more; an unregistration was cut off.
Paused == rstate = "stopped" /\ target > 0
Unsendable == chan = "none"
Undecided == told \in 300..399 \/ (target = 0 /\ told \in 201..299)
CutOff == target = 0 /\ (told < 200 \/ told = 503)

\* A registration shown as made or in progress is being kept or made: a timer of its
\* refresher or its transaction runs. The four endings above are excepted, for nothing
\* in the code tells the user of them (callbacks.c, sal_op_registration.c,
\* process_response_event, process_io_error).
ShownIsTrue ==
  reg \in {"Ok", "Progress"} => Working \/ Paused \/ Unsendable \/ Undecided \/ CutOff

\* The refresher makes one attempt at a time: no timer of an earlier failure
\* runs beside a transaction (belle_sip_refresher_refresh cancels it).
OneAttempt == timer # "none" => trans \notin Live

\* A transaction that waits to be sent is on a channel that will tell it: one
\* that connects, or one whose error notice is due.
WaitingIsServed ==
  trans = "INIT" => chan = "connecting" \/ (chan = "error" /\ notices > 0)

\* Whoever unregistered is not registered again unless by a new op: neither
\* a late timer nor a response to the unregistration revives the target
\* (belle_sip_refresher_stop_internal, the 423 of process_response_event).
UnregisterIsFinal ==
  [][target = 0 /\ target' > 0 => Register]_vars

\* A failure that can be recovered from is tried again, unless the refresher is
\* stopped, or told something else first.
Retried ==
  (rstate = "started" /\ target > 0 /\ told \in Recoverable)
    ~> (told \notin Recoverable \/ rstate # "started")

\* A transaction that waits for its channel gets it or hears of its error.
WaitingEnds == trans = "INIT" ~> trans # "INIT"

\* "If an alternate IP can be tryied, the channel will notify us with the RETRY
\* state. Otherwise it will report the error." (transaction.c:140): a
\* transaction that left its time-out to the channel ends.
TimedOutEnds == timedOut ~> (~timedOut \/ trans \notin Live)
==============================================================================
