-------------------------- MODULE RegistrationProofs --------------------------
(* The registration of any server, transport and number of addresses.        *)
EXTENDS Registration, TLAPS

\* The four kinds of variables of TypeOK: states, flags, numbers, and what is
\* known of credentials. Nothing but Authenticate reads the last, so the
\* invariant of the others does without them.
StatesOK ==
  /\ reg \in {"None", "Progress", "Ok", "Cleared", "Failed"}
  /\ rstate \in {"none", "started", "stopped"}
  /\ timer \in {"none", "refresh", "retry"}
  /\ trans \in {"NONE", "INIT", "TRYING", "PROCEEDING", "COMPLETED", "TERMINATED"}
  /\ chan \in {"none", "connecting", "ready", "error", "closed"}

FlagsOK ==
  /\ enabled \in BOOLEAN
  /\ ioFlag \in BOOLEAN
  /\ timedOut \in BOOLEAN
  /\ timerF \in BOOLEAN

CountsOK ==
  /\ target \in {0, 1}
  /\ authFailures \in {0, 1}
  /\ told \in Codes \cup {NotTold, 408, 503}
  /\ notices \in 0..MaxNotices
  /\ untried \in 0..Alternates

CredsOK ==
  /\ asked \in BOOLEAN
  /\ pending \in BOOLEAN

\* A channel that is in error has a notice due.
ErrorHasNotice == chan = "error" => notices > 0

\* A transaction that runs has a channel that can still tell it something, and
\* nothing runs without a refresher.
LiveHasChannel ==
  /\ trans \in Live => chan \in {"connecting", "ready", "error"}
  /\ rstate = "none" => chan = "none" /\ timer = "none"

\* The flag is set when a channel fails after its transaction, and goes with
\* the next request.
FlagMeansOver == ioFlag => trans = "TERMINATED"

\* An unregistration is asked for once; one that could not be sent is dead.
ZeroMeansDisabled ==
  target = 0 =>
    /\ ~enabled
    /\ timer = "none"
    /\ rstate = "started" =>
         /\ trans = "TERMINATED" /\ chan = "none" /\ notices = 0
         /\ told = NotTold

\* The final answer of a transaction that runs has not been told.
LiveIsUntold == trans \in Live => told < 200

IInv ==
  /\ StatesOK
  /\ FlagsOK
  /\ CountsOK
  /\ NotAbandoned
  /\ ShownIsTrue
  /\ OneAttempt
  /\ WaitingIsServed
  /\ ErrorHasNotice
  /\ LiveHasChannel
  /\ FlagMeansOver
  /\ ZeroMeansDisabled
  /\ LiveIsUntold

\* Who is registered does not wait for credentials, and neither does a refresher
\* whose unregistration could not be sent.
OkIsAuthorized == reg = "Ok" => ~pending
DeadIsAuthorized == target = 0 /\ rstate = "started" => ~pending

CredsInv == CredsOK /\ OkIsAuthorized /\ DeadIsAuthorized


LEMMA RegisterKeeps ==
  ASSUME IInv, Register
  PROVE  IInv'
<1>1. StatesOK'
  BY DEF IInv, StatesOK, FlagsOK, CountsOK, Register, Sent, NotSent,
     NewRequest, SameChannel, Listed, FreshChannel, NotTold, SendOn
<1>2. FlagsOK'
  <2>1. FlagsOK
    BY DEF IInv, StatesOK, FlagsOK, CountsOK
  <2>2. QED
    BY <2>1 DEF FlagsOK, Register, Sent, NotSent, NewRequest, SameChannel,
       Listed, FreshChannel, NotTold, SendOn
<1>3. CountsOK'
  BY RegistrationAssumption DEF RegistrationAssumption, IInv, StatesOK,
     FlagsOK, CountsOK, Register, Sent, NotSent, NewRequest, SameChannel,
     Listed, FreshChannel, NotTold, SendOn
<1>4. NotAbandoned'
  BY DEF IInv, StatesOK, FlagsOK, CountsOK, NotAbandoned, FlagMeansOver,
     Working, Live, Recoverable, Register, Sent, NotSent, NewRequest,
     SameChannel, Listed, FreshChannel, NotTold, SendOn
<1>5. ShownIsTrue'
  BY DEF IInv, StatesOK, FlagsOK, CountsOK, ShownIsTrue, Paused, Unsendable,
     Undecided, CutOff, NotAbandoned, FlagMeansOver, LiveIsUntold, Working,
     Live, Recoverable, Register, Sent, NotSent, NewRequest, SameChannel,
     Listed, FreshChannel, NotTold, SendOn
<1>6. OneAttempt'
  BY DEF IInv, StatesOK, FlagsOK, CountsOK, OneAttempt, Live, Register, Sent,
     NotSent, NewRequest, SameChannel, Listed, FreshChannel, NotTold, SendOn
<1>7. WaitingIsServed'
  BY DEF IInv, StatesOK, FlagsOK, CountsOK, WaitingIsServed, ErrorHasNotice,
     Register, Sent, NotSent, NewRequest, SameChannel, Listed, FreshChannel,
     NotTold, SendOn
<1>8. ErrorHasNotice'
  BY DEF IInv, StatesOK, FlagsOK, CountsOK, ErrorHasNotice, Register, Sent,
     NotSent, NewRequest, SameChannel, Listed, FreshChannel, NotTold, SendOn
<1>9. LiveHasChannel'
  BY DEF IInv, StatesOK, FlagsOK, CountsOK, LiveHasChannel, WaitingIsServed,
     Live, Register, Sent, NotSent, NewRequest, SameChannel, Listed,
     FreshChannel, NotTold, SendOn
<1>10. FlagMeansOver'
  BY DEF IInv, StatesOK, FlagsOK, CountsOK, FlagMeansOver, Register, Sent,
     NotSent, NewRequest, SameChannel, Listed, FreshChannel, NotTold, SendOn
<1>11. ZeroMeansDisabled'
  BY DEF IInv, StatesOK, FlagsOK, CountsOK, ZeroMeansDisabled, FlagMeansOver,
     LiveHasChannel, OneAttempt, Live, Register, Sent, NotSent, NewRequest,
     SameChannel, Listed, FreshChannel, NotTold, SendOn
<1>12. LiveIsUntold'
  BY DEF IInv, StatesOK, FlagsOK, CountsOK, LiveIsUntold, Live, Recoverable,
     Register, Sent, NotSent, NewRequest, SameChannel, Listed, FreshChannel,
     NotTold, SendOn
<1>13. QED
  BY <1>1, <1>2, <1>3, <1>4, <1>5, <1>6, <1>7, <1>8, <1>9, <1>10, <1>11,
     <1>12 DEF IInv, StatesOK, FlagsOK, CountsOK

LEMMA RefreshRegisterKeeps ==
  ASSUME IInv, RefreshRegister
  PROVE  IInv'
<1>1. StatesOK'
  BY DEF IInv, StatesOK, FlagsOK, CountsOK, RefreshRegister, Refresh, Sent,
     NotSent, NewRequest, SameChannel, Listed, FreshChannel, NotTold, SendOn
<1>2. FlagsOK'
  <2>1. FlagsOK
    BY DEF IInv, StatesOK, FlagsOK, CountsOK
  <2>2. QED
    BY <2>1 DEF FlagsOK, RefreshRegister, Refresh, Sent, NotSent, NewRequest,
       SameChannel, Listed, FreshChannel, NotTold, SendOn
<1>3. CountsOK'
  BY RegistrationAssumption DEF RegistrationAssumption, IInv, StatesOK,
     FlagsOK, CountsOK, RefreshRegister, Refresh, Sent, NotSent, NewRequest,
     SameChannel, Listed, FreshChannel, NotTold, SendOn
<1>4. NotAbandoned'
  BY DEF IInv, StatesOK, FlagsOK, CountsOK, NotAbandoned, FlagMeansOver,
     Working, Live, Recoverable, RefreshRegister, Refresh, Sent, NotSent,
     NewRequest, SameChannel, Listed, FreshChannel, NotTold, SendOn
<1>5. ShownIsTrue'
  BY DEF IInv, StatesOK, FlagsOK, CountsOK, ShownIsTrue, Paused, Unsendable,
     Undecided, CutOff, NotAbandoned, FlagMeansOver, LiveIsUntold, Working,
     Live, Recoverable, RefreshRegister, Refresh, Sent, NotSent, NewRequest,
     SameChannel, Listed, FreshChannel, NotTold, SendOn
<1>6. OneAttempt'
  BY DEF IInv, StatesOK, FlagsOK, CountsOK, OneAttempt, Live, RefreshRegister,
     Refresh, Sent, NotSent, NewRequest, SameChannel, Listed, FreshChannel,
     NotTold, SendOn
<1>7. WaitingIsServed'
  BY DEF IInv, StatesOK, FlagsOK, CountsOK, WaitingIsServed, ErrorHasNotice,
     RefreshRegister, Refresh, Sent, NotSent, NewRequest, SameChannel, Listed,
     FreshChannel, NotTold, SendOn
<1>8. ErrorHasNotice'
  BY DEF IInv, StatesOK, FlagsOK, CountsOK, ErrorHasNotice, RefreshRegister,
     Refresh, Sent, NotSent, NewRequest, SameChannel, Listed, FreshChannel,
     NotTold, SendOn
<1>9. LiveHasChannel'
  BY DEF IInv, StatesOK, FlagsOK, CountsOK, LiveHasChannel, WaitingIsServed,
     Live, RefreshRegister, Refresh, Sent, NotSent, NewRequest, SameChannel,
     Listed, FreshChannel, NotTold, SendOn
<1>10. FlagMeansOver'
  BY DEF IInv, StatesOK, FlagsOK, CountsOK, FlagMeansOver, RefreshRegister,
     Refresh, Sent, NotSent, NewRequest, SameChannel, Listed, FreshChannel,
     NotTold, SendOn
<1>11. ZeroMeansDisabled'
  BY DEF IInv, StatesOK, FlagsOK, CountsOK, ZeroMeansDisabled, FlagMeansOver,
     LiveHasChannel, OneAttempt, Live, RefreshRegister, Refresh, Sent,
     NotSent, NewRequest, SameChannel, Listed, FreshChannel, NotTold, SendOn
<1>12. LiveIsUntold'
  BY DEF IInv, StatesOK, FlagsOK, CountsOK, LiveIsUntold, Live, Recoverable,
     RefreshRegister, Refresh, Sent, NotSent, NewRequest, SameChannel, Listed,
     FreshChannel, NotTold, SendOn
<1>13. QED
  BY <1>1, <1>2, <1>3, <1>4, <1>5, <1>6, <1>7, <1>8, <1>9, <1>10, <1>11,
     <1>12 DEF IInv, StatesOK, FlagsOK, CountsOK

LEMMA UnregisterKeeps ==
  ASSUME IInv, Unregister
  PROVE  IInv'
<1>1. StatesOK'
  BY DEF IInv, StatesOK, FlagsOK, CountsOK, Unregister, Refresh, Sent,
     NotSent, refresherVars, transVars, chanVars, NewRequest, SameChannel,
     Listed, FreshChannel, NotTold, SendOn
<1>2. FlagsOK'
  <2>1. FlagsOK
    BY DEF IInv, StatesOK, FlagsOK, CountsOK
  <2>2. QED
    BY <2>1 DEF FlagsOK, Unregister, Refresh, Sent, NotSent, refresherVars,
       transVars, chanVars, NewRequest, SameChannel, Listed, FreshChannel,
       NotTold, SendOn
<1>3. CountsOK'
  BY RegistrationAssumption DEF RegistrationAssumption, IInv, StatesOK,
     FlagsOK, CountsOK, Unregister, Refresh, Sent, NotSent, refresherVars,
     transVars, chanVars, NewRequest, SameChannel, Listed, FreshChannel,
     NotTold, SendOn
<1>4. NotAbandoned'
  BY DEF IInv, StatesOK, FlagsOK, CountsOK, NotAbandoned, FlagMeansOver,
     Working, Live, Recoverable, Unregister, Refresh, Sent, NotSent,
     refresherVars, transVars, chanVars, NewRequest, SameChannel, Listed,
     FreshChannel, NotTold, SendOn
<1>5. ShownIsTrue'
  BY DEF IInv, StatesOK, FlagsOK, CountsOK, ShownIsTrue, Paused, Unsendable,
     Undecided, CutOff, NotAbandoned, FlagMeansOver, LiveIsUntold, Working,
     Live, Recoverable, Unregister, Refresh, Sent, NotSent, refresherVars,
     transVars, chanVars, NewRequest, SameChannel, Listed, FreshChannel,
     NotTold, SendOn
<1>6. OneAttempt'
  BY DEF IInv, StatesOK, FlagsOK, CountsOK, OneAttempt, Live, Unregister,
     Refresh, Sent, NotSent, refresherVars, transVars, chanVars, NewRequest,
     SameChannel, Listed, FreshChannel, NotTold, SendOn
<1>7. WaitingIsServed'
  BY DEF IInv, StatesOK, FlagsOK, CountsOK, WaitingIsServed, ErrorHasNotice,
     Unregister, Refresh, Sent, NotSent, refresherVars, transVars, chanVars,
     NewRequest, SameChannel, Listed, FreshChannel, NotTold, SendOn
<1>8. ErrorHasNotice'
  BY DEF IInv, StatesOK, FlagsOK, CountsOK, ErrorHasNotice, Unregister,
     Refresh, Sent, NotSent, refresherVars, transVars, chanVars, NewRequest,
     SameChannel, Listed, FreshChannel, NotTold, SendOn
<1>9. LiveHasChannel'
  BY DEF IInv, StatesOK, FlagsOK, CountsOK, LiveHasChannel, WaitingIsServed,
     Live, Unregister, Refresh, Sent, NotSent, refresherVars, transVars,
     chanVars, NewRequest, SameChannel, Listed, FreshChannel, NotTold, SendOn
<1>10. FlagMeansOver'
  BY DEF IInv, StatesOK, FlagsOK, CountsOK, FlagMeansOver, Unregister,
     Refresh, Sent, NotSent, refresherVars, transVars, chanVars, NewRequest,
     SameChannel, Listed, FreshChannel, NotTold, SendOn
<1>11. ZeroMeansDisabled'
  BY DEF IInv, StatesOK, FlagsOK, CountsOK, ZeroMeansDisabled, FlagMeansOver,
     LiveHasChannel, OneAttempt, Live, Unregister, Refresh, Sent, NotSent,
     refresherVars, transVars, chanVars, NewRequest, SameChannel, Listed,
     FreshChannel, NotTold, SendOn
<1>12. LiveIsUntold'
  BY DEF IInv, StatesOK, FlagsOK, CountsOK, LiveIsUntold, Live, Recoverable,
     Unregister, Refresh, Sent, NotSent, refresherVars, transVars, chanVars,
     NewRequest, SameChannel, Listed, FreshChannel, NotTold, SendOn
<1>13. QED
  BY <1>1, <1>2, <1>3, <1>4, <1>5, <1>6, <1>7, <1>8, <1>9, <1>10, <1>11,
     <1>12 DEF IInv, StatesOK, FlagsOK, CountsOK

LEMMA PauseRegisterKeeps ==
  ASSUME IInv, PauseRegister
  PROVE  IInv'
<1>1. StatesOK'
  BY DEF IInv, StatesOK, FlagsOK, CountsOK, PauseRegister, Live, transVars,
     proxyVars, chanVars, listenerVars, credVars
<1>2. FlagsOK'
  <2>1. FlagsOK
    BY DEF IInv, StatesOK, FlagsOK, CountsOK
  <2>2. QED
    BY <2>1 DEF FlagsOK, PauseRegister, Live, transVars, proxyVars, chanVars,
       listenerVars, credVars
<1>3. CountsOK'
  BY RegistrationAssumption DEF RegistrationAssumption, IInv, StatesOK,
     FlagsOK, CountsOK, PauseRegister, Live, transVars, proxyVars, chanVars,
     listenerVars, credVars
<1>4. NotAbandoned'
  BY DEF IInv, StatesOK, FlagsOK, CountsOK, NotAbandoned, FlagMeansOver,
     Working, Live, Recoverable, PauseRegister, transVars, proxyVars,
     chanVars, listenerVars, credVars
<1>5. ShownIsTrue'
  BY DEF IInv, StatesOK, FlagsOK, CountsOK, ShownIsTrue, Paused, Unsendable,
     Undecided, CutOff, NotAbandoned, FlagMeansOver, LiveIsUntold,
     ZeroMeansDisabled, Working, Live, Recoverable, PauseRegister, transVars,
     proxyVars, chanVars, listenerVars, credVars
<1>6. OneAttempt'
  BY DEF IInv, StatesOK, FlagsOK, CountsOK, OneAttempt, Live, PauseRegister,
     transVars, proxyVars, chanVars, listenerVars, credVars
<1>7. WaitingIsServed'
  BY DEF IInv, StatesOK, FlagsOK, CountsOK, WaitingIsServed, ErrorHasNotice,
     PauseRegister, Live, transVars, proxyVars, chanVars, listenerVars,
     credVars
<1>8. ErrorHasNotice'
  BY DEF IInv, StatesOK, FlagsOK, CountsOK, ErrorHasNotice, PauseRegister,
     Live, transVars, proxyVars, chanVars, listenerVars, credVars
<1>9. LiveHasChannel'
  BY DEF IInv, StatesOK, FlagsOK, CountsOK, LiveHasChannel, WaitingIsServed,
     Live, PauseRegister, transVars, proxyVars, chanVars, listenerVars,
     credVars
<1>10. FlagMeansOver'
  BY DEF IInv, StatesOK, FlagsOK, CountsOK, FlagMeansOver, PauseRegister,
     Live, transVars, proxyVars, chanVars, listenerVars, credVars
<1>11. ZeroMeansDisabled'
  BY DEF IInv, StatesOK, FlagsOK, CountsOK, ZeroMeansDisabled, FlagMeansOver,
     LiveHasChannel, OneAttempt, Live, PauseRegister, transVars, proxyVars,
     chanVars, listenerVars, credVars
<1>12. LiveIsUntold'
  BY DEF IInv, StatesOK, FlagsOK, CountsOK, LiveIsUntold, Live, Recoverable,
     PauseRegister, transVars, proxyVars, chanVars, listenerVars, credVars
<1>13. QED
  BY <1>1, <1>2, <1>3, <1>4, <1>5, <1>6, <1>7, <1>8, <1>9, <1>10, <1>11,
     <1>12 DEF IInv, StatesOK, FlagsOK, CountsOK

LEMMA AuthenticateKeeps ==
  ASSUME IInv, CredsInv, Authenticate
  PROVE  IInv'
<1>1. StatesOK'
  BY DEF IInv, StatesOK, FlagsOK, CountsOK, Authenticate, Challenge, Refresh,
     Sent, NotSent, NewRequest, SameChannel, Listed, FreshChannel, NotTold,
     SendOn
<1>2. FlagsOK'
  <2>1. FlagsOK
    BY DEF IInv, StatesOK, FlagsOK, CountsOK
  <2>2. QED
    BY <2>1 DEF FlagsOK, Authenticate, Challenge, Refresh, Sent, NotSent,
       NewRequest, SameChannel, Listed, FreshChannel, NotTold, SendOn
<1>3. CountsOK'
  BY RegistrationAssumption DEF RegistrationAssumption, IInv, StatesOK,
     FlagsOK, CountsOK, Authenticate, Challenge, Refresh, Sent, NotSent,
     NewRequest, SameChannel, Listed, FreshChannel, NotTold, SendOn
<1>4. NotAbandoned'
  BY DEF IInv, StatesOK, FlagsOK, CountsOK, NotAbandoned, FlagMeansOver,
     Working, Live, Recoverable, Authenticate, Challenge, Refresh, Sent,
     NotSent, NewRequest, SameChannel, Listed, FreshChannel, NotTold, SendOn
<1>5. ShownIsTrue'
  BY DEF IInv, StatesOK, FlagsOK, CountsOK, ShownIsTrue, Paused, Unsendable,
     Undecided, CutOff, NotAbandoned, FlagMeansOver, LiveIsUntold, Working,
     Live, Recoverable, Authenticate, Challenge, Refresh, Sent, NotSent,
     NewRequest, SameChannel, Listed, FreshChannel, NotTold, SendOn
<1>6. OneAttempt'
  BY DEF IInv, StatesOK, FlagsOK, CountsOK, OneAttempt, Live, Authenticate,
     Challenge, Refresh, Sent, NotSent, NewRequest, SameChannel, Listed,
     FreshChannel, NotTold, SendOn
<1>7. WaitingIsServed'
  BY DEF IInv, StatesOK, FlagsOK, CountsOK, WaitingIsServed, ErrorHasNotice,
     Authenticate, Challenge, Refresh, Sent, NotSent, NewRequest, SameChannel,
     Listed, FreshChannel, NotTold, SendOn
<1>8. ErrorHasNotice'
  BY DEF IInv, StatesOK, FlagsOK, CountsOK, ErrorHasNotice, Authenticate,
     Challenge, Refresh, Sent, NotSent, NewRequest, SameChannel, Listed,
     FreshChannel, NotTold, SendOn
<1>9. LiveHasChannel'
  BY DEF IInv, StatesOK, FlagsOK, CountsOK, LiveHasChannel, WaitingIsServed,
     Live, Authenticate, Challenge, Refresh, Sent, NotSent, NewRequest,
     SameChannel, Listed, FreshChannel, NotTold, SendOn
<1>10. FlagMeansOver'
  BY DEF IInv, StatesOK, FlagsOK, CountsOK, FlagMeansOver, Authenticate,
     Challenge, Refresh, Sent, NotSent, NewRequest, SameChannel, Listed,
     FreshChannel, NotTold, SendOn
<1>11. ZeroMeansDisabled'
  BY DEF IInv, StatesOK, FlagsOK, CountsOK, ZeroMeansDisabled, FlagMeansOver,
     LiveHasChannel, OneAttempt, Live, CredsInv, DeadIsAuthorized, Authenticate, Challenge, Refresh, Sent,
     NotSent, NewRequest, SameChannel, Listed, FreshChannel, NotTold, SendOn
<1>12. LiveIsUntold'
  BY DEF IInv, StatesOK, FlagsOK, CountsOK, LiveIsUntold, Live, Recoverable,
     Authenticate, Challenge, Refresh, Sent, NotSent, NewRequest, SameChannel,
     Listed, FreshChannel, NotTold, SendOn
<1>13. QED
  BY <1>1, <1>2, <1>3, <1>4, <1>5, <1>6, <1>7, <1>8, <1>9, <1>10, <1>11,
     <1>12 DEF IInv, StatesOK, FlagsOK, CountsOK

LEMMA RefreshTimerKeeps ==
  ASSUME IInv, RefreshTimer
  PROVE  IInv'
<1>1. StatesOK'
  BY DEF IInv, StatesOK, FlagsOK, CountsOK, RefreshTimer, Sent, NotSent,
     NewRequest, SameChannel, Listed, FreshChannel, NotTold, SendOn
<1>2. FlagsOK'
  <2>1. FlagsOK
    BY DEF IInv, StatesOK, FlagsOK, CountsOK
  <2>2. QED
    BY <2>1 DEF FlagsOK, RefreshTimer, Sent, NotSent, NewRequest, SameChannel,
       Listed, FreshChannel, NotTold, SendOn
<1>3. CountsOK'
  BY RegistrationAssumption DEF RegistrationAssumption, IInv, StatesOK,
     FlagsOK, CountsOK, RefreshTimer, Sent, NotSent, NewRequest, SameChannel,
     Listed, FreshChannel, NotTold, SendOn
<1>4. NotAbandoned'
  BY DEF IInv, StatesOK, FlagsOK, CountsOK, NotAbandoned, FlagMeansOver,
     Working, Live, Recoverable, RefreshTimer, Sent, NotSent, NewRequest,
     SameChannel, Listed, FreshChannel, NotTold, SendOn
<1>5. ShownIsTrue'
  BY DEF IInv, StatesOK, FlagsOK, CountsOK, ShownIsTrue, Paused, Unsendable,
     Undecided, CutOff, NotAbandoned, FlagMeansOver, LiveIsUntold, Working,
     Live, Recoverable, RefreshTimer, Sent, NotSent, NewRequest, SameChannel,
     Listed, FreshChannel, NotTold, SendOn
<1>6. OneAttempt'
  BY DEF IInv, StatesOK, FlagsOK, CountsOK, OneAttempt, Live, RefreshTimer,
     Sent, NotSent, NewRequest, SameChannel, Listed, FreshChannel, NotTold,
     SendOn
<1>7. WaitingIsServed'
  BY DEF IInv, StatesOK, FlagsOK, CountsOK, WaitingIsServed, ErrorHasNotice,
     RefreshTimer, Sent, NotSent, NewRequest, SameChannel, Listed,
     FreshChannel, NotTold, SendOn
<1>8. ErrorHasNotice'
  BY DEF IInv, StatesOK, FlagsOK, CountsOK, ErrorHasNotice, RefreshTimer,
     Sent, NotSent, NewRequest, SameChannel, Listed, FreshChannel, NotTold,
     SendOn
<1>9. LiveHasChannel'
  BY DEF IInv, StatesOK, FlagsOK, CountsOK, LiveHasChannel, WaitingIsServed,
     Live, RefreshTimer, Sent, NotSent, NewRequest, SameChannel, Listed,
     FreshChannel, NotTold, SendOn
<1>10. FlagMeansOver'
  BY DEF IInv, StatesOK, FlagsOK, CountsOK, FlagMeansOver, RefreshTimer, Sent,
     NotSent, NewRequest, SameChannel, Listed, FreshChannel, NotTold, SendOn
<1>11. ZeroMeansDisabled'
  BY DEF IInv, StatesOK, FlagsOK, CountsOK, ZeroMeansDisabled, FlagMeansOver,
     LiveHasChannel, OneAttempt, Live, RefreshTimer, Sent, NotSent,
     NewRequest, SameChannel, Listed, FreshChannel, NotTold, SendOn
<1>12. LiveIsUntold'
  BY DEF IInv, StatesOK, FlagsOK, CountsOK, LiveIsUntold, Live, Recoverable,
     RefreshTimer, Sent, NotSent, NewRequest, SameChannel, Listed,
     FreshChannel, NotTold, SendOn
<1>13. QED
  BY <1>1, <1>2, <1>3, <1>4, <1>5, <1>6, <1>7, <1>8, <1>9, <1>10, <1>11,
     <1>12 DEF IInv, StatesOK, FlagsOK, CountsOK

LEMMA TimerFKeeps ==
  ASSUME IInv, TimerF
  PROVE  IInv'
<1>1. StatesOK'
  BY DEF IInv, StatesOK, FlagsOK, CountsOK, TimerF, HandleError, listenerVars,
     credVars, RetryAfterTimeout, Tell, Show, chanVars, RegAfter
<1>2. FlagsOK'
  <2>1. FlagsOK
    BY DEF IInv, StatesOK, FlagsOK, CountsOK
  <2>2. QED
    BY <2>1 DEF FlagsOK, TimerF, HandleError, listenerVars, credVars,
       RetryAfterTimeout, Tell, Show, chanVars, RegAfter
<1>3. CountsOK'
  BY RegistrationAssumption DEF RegistrationAssumption, IInv, StatesOK,
     FlagsOK, CountsOK, TimerF, HandleError, listenerVars, credVars,
     RetryAfterTimeout, Tell, Show, chanVars, RegAfter
<1>4. NotAbandoned'
  BY DEF IInv, StatesOK, FlagsOK, CountsOK, NotAbandoned, FlagMeansOver,
     Working, Live, Recoverable, TimerF, HandleError, listenerVars, credVars,
     RetryAfterTimeout, Tell, Show, chanVars, RegAfter
<1>5. ShownIsTrue'
  BY DEF IInv, StatesOK, FlagsOK, CountsOK, ShownIsTrue, Paused, Unsendable,
     Undecided, CutOff, NotAbandoned, FlagMeansOver, LiveIsUntold, Working,
     Live, Recoverable, TimerF, HandleError, listenerVars, credVars,
     RetryAfterTimeout, Tell, Show, chanVars, RegAfter
<1>6. OneAttempt'
  BY DEF IInv, StatesOK, FlagsOK, CountsOK, OneAttempt, Live, TimerF,
     HandleError, listenerVars, credVars, RetryAfterTimeout, Tell, Show,
     chanVars, RegAfter
<1>7. WaitingIsServed'
  BY DEF IInv, StatesOK, FlagsOK, CountsOK, WaitingIsServed, ErrorHasNotice,
     TimerF, HandleError, listenerVars, credVars, RetryAfterTimeout, Tell,
     Show, chanVars, RegAfter
<1>8. ErrorHasNotice'
  BY DEF IInv, StatesOK, FlagsOK, CountsOK, ErrorHasNotice, TimerF,
     HandleError, listenerVars, credVars, RetryAfterTimeout, Tell, Show,
     chanVars, RegAfter
<1>9. LiveHasChannel'
  BY DEF IInv, StatesOK, FlagsOK, CountsOK, LiveHasChannel, WaitingIsServed,
     Live, TimerF, HandleError, listenerVars, credVars, RetryAfterTimeout,
     Tell, Show, chanVars, RegAfter
<1>10. FlagMeansOver'
  BY DEF IInv, StatesOK, FlagsOK, CountsOK, FlagMeansOver, TimerF,
     HandleError, listenerVars, credVars, RetryAfterTimeout, Tell, Show,
     chanVars, RegAfter
<1>11. ZeroMeansDisabled'
  BY DEF IInv, StatesOK, FlagsOK, CountsOK, ZeroMeansDisabled, FlagMeansOver,
     LiveHasChannel, OneAttempt, Live, TimerF, HandleError, listenerVars,
     credVars, RetryAfterTimeout, Tell, Show, chanVars, RegAfter
<1>12. LiveIsUntold'
  BY DEF IInv, StatesOK, FlagsOK, CountsOK, LiveIsUntold, Live, Recoverable,
     TimerF, HandleError, listenerVars, credVars, RetryAfterTimeout, Tell,
     Show, chanVars, RegAfter
<1>13. QED
  BY <1>1, <1>2, <1>3, <1>4, <1>5, <1>6, <1>7, <1>8, <1>9, <1>10, <1>11,
     <1>12 DEF IInv, StatesOK, FlagsOK, CountsOK

LEMMA TimerKKeeps ==
  ASSUME IInv, TimerK
  PROVE  IInv'
<1>1. StatesOK'
  BY DEF IInv, StatesOK, FlagsOK, CountsOK, TimerK, proxyVars, refresherVars,
     chanVars, listenerVars, credVars
<1>2. FlagsOK'
  <2>1. FlagsOK
    BY DEF IInv, StatesOK, FlagsOK, CountsOK
  <2>2. QED
    BY <2>1 DEF FlagsOK, TimerK, proxyVars, refresherVars, chanVars,
       listenerVars, credVars
<1>3. CountsOK'
  BY RegistrationAssumption DEF RegistrationAssumption, IInv, StatesOK,
     FlagsOK, CountsOK, TimerK, proxyVars, refresherVars, chanVars,
     listenerVars, credVars
<1>4. NotAbandoned'
  BY DEF IInv, StatesOK, FlagsOK, CountsOK, NotAbandoned, FlagMeansOver,
     Working, Live, Recoverable, TimerK, proxyVars, refresherVars, chanVars,
     listenerVars, credVars
<1>5. ShownIsTrue'
  BY DEF IInv, StatesOK, FlagsOK, CountsOK, ShownIsTrue, Paused, Unsendable,
     Undecided, CutOff, NotAbandoned, FlagMeansOver, LiveIsUntold, Working,
     Live, Recoverable, TimerK, proxyVars, refresherVars, chanVars,
     listenerVars, credVars
<1>6. OneAttempt'
  BY DEF IInv, StatesOK, FlagsOK, CountsOK, OneAttempt, Live, TimerK,
     proxyVars, refresherVars, chanVars, listenerVars, credVars
<1>7. WaitingIsServed'
  BY DEF IInv, StatesOK, FlagsOK, CountsOK, WaitingIsServed, ErrorHasNotice,
     TimerK, proxyVars, refresherVars, chanVars, listenerVars, credVars
<1>8. ErrorHasNotice'
  BY DEF IInv, StatesOK, FlagsOK, CountsOK, ErrorHasNotice, TimerK, proxyVars,
     refresherVars, chanVars, listenerVars, credVars
<1>9. LiveHasChannel'
  BY DEF IInv, StatesOK, FlagsOK, CountsOK, LiveHasChannel, WaitingIsServed,
     Live, TimerK, proxyVars, refresherVars, chanVars, listenerVars, credVars
<1>10. FlagMeansOver'
  BY DEF IInv, StatesOK, FlagsOK, CountsOK, FlagMeansOver, TimerK, proxyVars,
     refresherVars, chanVars, listenerVars, credVars
<1>11. ZeroMeansDisabled'
  BY DEF IInv, StatesOK, FlagsOK, CountsOK, ZeroMeansDisabled, FlagMeansOver,
     LiveHasChannel, OneAttempt, Live, TimerK, proxyVars, refresherVars,
     chanVars, listenerVars, credVars
<1>12. LiveIsUntold'
  BY DEF IInv, StatesOK, FlagsOK, CountsOK, LiveIsUntold, Live, Recoverable,
     TimerK, proxyVars, refresherVars, chanVars, listenerVars, credVars
<1>13. QED
  BY <1>1, <1>2, <1>3, <1>4, <1>5, <1>6, <1>7, <1>8, <1>9, <1>10, <1>11,
     <1>12 DEF IInv, StatesOK, FlagsOK, CountsOK

LEMMA ConnectedKeeps ==
  ASSUME IInv, Connected
  PROVE  IInv'
<1>1. StatesOK'
  BY DEF IInv, StatesOK, FlagsOK, CountsOK, Connected, proxyVars,
     refresherVars, listenerVars, credVars
<1>2. FlagsOK'
  <2>1. FlagsOK
    BY DEF IInv, StatesOK, FlagsOK, CountsOK
  <2>2. QED
    BY <2>1 DEF FlagsOK, Connected, proxyVars, refresherVars, listenerVars,
       credVars
<1>3. CountsOK'
  BY RegistrationAssumption DEF RegistrationAssumption, IInv, StatesOK,
     FlagsOK, CountsOK, Connected, proxyVars, refresherVars, listenerVars,
     credVars
<1>4. NotAbandoned'
  BY DEF IInv, StatesOK, FlagsOK, CountsOK, NotAbandoned, FlagMeansOver,
     Working, Live, Recoverable, Connected, proxyVars, refresherVars,
     listenerVars, credVars
<1>5. ShownIsTrue'
  BY DEF IInv, StatesOK, FlagsOK, CountsOK, ShownIsTrue, Paused, Unsendable,
     Undecided, CutOff, NotAbandoned, FlagMeansOver, LiveIsUntold, Working,
     Live, Recoverable, Connected, proxyVars, refresherVars, listenerVars,
     credVars
<1>6. OneAttempt'
  BY DEF IInv, StatesOK, FlagsOK, CountsOK, OneAttempt, Live, Connected,
     proxyVars, refresherVars, listenerVars, credVars
<1>7. WaitingIsServed'
  BY DEF IInv, StatesOK, FlagsOK, CountsOK, WaitingIsServed, ErrorHasNotice,
     Connected, proxyVars, refresherVars, listenerVars, credVars
<1>8. ErrorHasNotice'
  BY DEF IInv, StatesOK, FlagsOK, CountsOK, ErrorHasNotice, Connected,
     proxyVars, refresherVars, listenerVars, credVars
<1>9. LiveHasChannel'
  BY DEF IInv, StatesOK, FlagsOK, CountsOK, LiveHasChannel, WaitingIsServed,
     Live, Connected, proxyVars, refresherVars, listenerVars, credVars
<1>10. FlagMeansOver'
  BY DEF IInv, StatesOK, FlagsOK, CountsOK, FlagMeansOver, Connected,
     proxyVars, refresherVars, listenerVars, credVars
<1>11. ZeroMeansDisabled'
  BY DEF IInv, StatesOK, FlagsOK, CountsOK, ZeroMeansDisabled, FlagMeansOver,
     LiveHasChannel, OneAttempt, Live, Connected, proxyVars, refresherVars,
     listenerVars, credVars
<1>12. LiveIsUntold'
  BY DEF IInv, StatesOK, FlagsOK, CountsOK, LiveIsUntold, Live, Recoverable,
     Connected, proxyVars, refresherVars, listenerVars, credVars
<1>13. QED
  BY <1>1, <1>2, <1>3, <1>4, <1>5, <1>6, <1>7, <1>8, <1>9, <1>10, <1>11,
     <1>12 DEF IInv, StatesOK, FlagsOK, CountsOK

LEMMA ConnectFailsKeeps ==
  ASSUME IInv, ConnectFails
  PROVE  IInv'
<1>1. StatesOK'
  BY DEF IInv, StatesOK, FlagsOK, CountsOK, ConnectFails, HandleError,
     proxyVars, refresherVars, transVars, listenerVars, credVars
<1>2. FlagsOK'
  <2>1. FlagsOK
    BY DEF IInv, StatesOK, FlagsOK, CountsOK
  <2>2. QED
    BY <2>1 DEF FlagsOK, ConnectFails, HandleError, proxyVars, refresherVars,
       transVars, listenerVars, credVars
<1>3. CountsOK'
  BY RegistrationAssumption DEF RegistrationAssumption, IInv, StatesOK,
     FlagsOK, CountsOK, ConnectFails, HandleError, proxyVars, refresherVars,
     transVars, listenerVars, credVars
<1>4. NotAbandoned'
  BY DEF IInv, StatesOK, FlagsOK, CountsOK, NotAbandoned, FlagMeansOver,
     Working, Live, Recoverable, ConnectFails, HandleError, proxyVars,
     refresherVars, transVars, listenerVars, credVars
<1>5. ShownIsTrue'
  BY DEF IInv, StatesOK, FlagsOK, CountsOK, ShownIsTrue, Paused, Unsendable,
     Undecided, CutOff, NotAbandoned, FlagMeansOver, LiveIsUntold, Working,
     Live, Recoverable, ConnectFails, HandleError, proxyVars, refresherVars,
     transVars, listenerVars, credVars
<1>6. OneAttempt'
  BY DEF IInv, StatesOK, FlagsOK, CountsOK, OneAttempt, Live, ConnectFails,
     HandleError, proxyVars, refresherVars, transVars, listenerVars, credVars
<1>7. WaitingIsServed'
  BY DEF IInv, StatesOK, FlagsOK, CountsOK, WaitingIsServed, ErrorHasNotice,
     ConnectFails, HandleError, proxyVars, refresherVars, transVars,
     listenerVars, credVars
<1>8. ErrorHasNotice'
  BY DEF IInv, StatesOK, FlagsOK, CountsOK, ErrorHasNotice, ConnectFails,
     HandleError, proxyVars, refresherVars, transVars, listenerVars, credVars
<1>9. LiveHasChannel'
  BY DEF IInv, StatesOK, FlagsOK, CountsOK, LiveHasChannel, WaitingIsServed,
     Live, ConnectFails, HandleError, proxyVars, refresherVars, transVars,
     listenerVars, credVars
<1>10. FlagMeansOver'
  BY DEF IInv, StatesOK, FlagsOK, CountsOK, FlagMeansOver, ConnectFails,
     HandleError, proxyVars, refresherVars, transVars, listenerVars, credVars
<1>11. ZeroMeansDisabled'
  BY DEF IInv, StatesOK, FlagsOK, CountsOK, ZeroMeansDisabled, FlagMeansOver,
     LiveHasChannel, OneAttempt, Live, ConnectFails, HandleError, proxyVars,
     refresherVars, transVars, listenerVars, credVars
<1>12. LiveIsUntold'
  BY DEF IInv, StatesOK, FlagsOK, CountsOK, LiveIsUntold, Live, Recoverable,
     ConnectFails, HandleError, proxyVars, refresherVars, transVars,
     listenerVars, credVars
<1>13. QED
  BY <1>1, <1>2, <1>3, <1>4, <1>5, <1>6, <1>7, <1>8, <1>9, <1>10, <1>11,
     <1>12 DEF IInv, StatesOK, FlagsOK, CountsOK

LEMMA ChannelFailsKeeps ==
  ASSUME IInv, ChannelFails
  PROVE  IInv'
<1>1. StatesOK'
  BY DEF IInv, StatesOK, FlagsOK, CountsOK, ChannelFails, HandleError,
     proxyVars, refresherVars, transVars, listenerVars, credVars
<1>2. FlagsOK'
  <2>1. FlagsOK
    BY DEF IInv, StatesOK, FlagsOK, CountsOK
  <2>2. QED
    BY <2>1 DEF FlagsOK, ChannelFails, HandleError, proxyVars, refresherVars,
       transVars, listenerVars, credVars
<1>3. CountsOK'
  BY RegistrationAssumption DEF RegistrationAssumption, IInv, StatesOK,
     FlagsOK, CountsOK, ChannelFails, HandleError, proxyVars, refresherVars,
     transVars, listenerVars, credVars
<1>4. NotAbandoned'
  BY DEF IInv, StatesOK, FlagsOK, CountsOK, NotAbandoned, FlagMeansOver,
     Working, Live, Recoverable, ChannelFails, HandleError, proxyVars,
     refresherVars, transVars, listenerVars, credVars
<1>5. ShownIsTrue'
  BY DEF IInv, StatesOK, FlagsOK, CountsOK, ShownIsTrue, Paused, Unsendable,
     Undecided, CutOff, NotAbandoned, FlagMeansOver, LiveIsUntold, Working,
     Live, Recoverable, ChannelFails, HandleError, proxyVars, refresherVars,
     transVars, listenerVars, credVars
<1>6. OneAttempt'
  BY DEF IInv, StatesOK, FlagsOK, CountsOK, OneAttempt, Live, ChannelFails,
     HandleError, proxyVars, refresherVars, transVars, listenerVars, credVars
<1>7. WaitingIsServed'
  BY DEF IInv, StatesOK, FlagsOK, CountsOK, WaitingIsServed, ErrorHasNotice,
     ChannelFails, HandleError, proxyVars, refresherVars, transVars,
     listenerVars, credVars
<1>8. ErrorHasNotice'
  BY DEF IInv, StatesOK, FlagsOK, CountsOK, ErrorHasNotice, ChannelFails,
     HandleError, proxyVars, refresherVars, transVars, listenerVars, credVars
<1>9. LiveHasChannel'
  BY DEF IInv, StatesOK, FlagsOK, CountsOK, LiveHasChannel, WaitingIsServed,
     Live, ChannelFails, HandleError, proxyVars, refresherVars, transVars,
     listenerVars, credVars
<1>10. FlagMeansOver'
  BY DEF IInv, StatesOK, FlagsOK, CountsOK, FlagMeansOver, ChannelFails,
     HandleError, proxyVars, refresherVars, transVars, listenerVars, credVars
<1>11. ZeroMeansDisabled'
  BY DEF IInv, StatesOK, FlagsOK, CountsOK, ZeroMeansDisabled, FlagMeansOver,
     LiveHasChannel, OneAttempt, Live, ChannelFails, HandleError, proxyVars,
     refresherVars, transVars, listenerVars, credVars
<1>12. LiveIsUntold'
  BY DEF IInv, StatesOK, FlagsOK, CountsOK, LiveIsUntold, Live, Recoverable,
     ChannelFails, HandleError, proxyVars, refresherVars, transVars,
     listenerVars, credVars
<1>13. QED
  BY <1>1, <1>2, <1>3, <1>4, <1>5, <1>6, <1>7, <1>8, <1>9, <1>10, <1>11,
     <1>12 DEF IInv, StatesOK, FlagsOK, CountsOK

\* A channel that goes tells of a failure, retries, or ends what is paused or
\* unregistered.
LEMMA GoneShown ==
  ASSUME IInv, ChannelGone, chan \in {"ready", "error"}
  PROVE  ShownIsTrue'
<1> SUFFICES ASSUME reg' \in {"Ok", "Progress"}
             PROVE  (Working \/ Paused \/ Undecided \/ CutOff)'
  BY DEF ShownIsTrue
<1>1. /\ target \in {0, 1} /\ target' = target
      /\ rstate \in {"started", "stopped"} /\ rstate' = rstate
  BY DEF IInv, CountsOK, StatesOK, LiveHasChannel, ChannelGone
<1>2. target = 0 => timer = "none"
  BY DEF IInv, ZeroMeansDisabled
<1>3. ~TellBoth /\ ~Tell(408)
  BY DEF TellBoth, Tell, Show, RegAfter
<1>4. CASE (ProviderReports \/ TransactionReports) /\ TellIoError
  <2>1. told' = 503 /\ (rstate = "started" => timer' = "retry")
    BY <1>3, <1>4 DEF TellIoError, Tell, Show, ChannelGone, listenerVars
  <2>2. QED
    BY <1>1, <2>1 DEF Working, Paused, CutOff
<1>5. CASE ~ProviderReports /\ ~TransactionReports /\ ~timedOut /\ UNCHANGED listenerVars
  <2>1. reg' = reg /\ told' = told /\ timer' = timer
    BY <1>5 DEF listenerVars, ChannelGone
  <2>2. CASE trans \in Live
    <3>1. told < 200 /\ ~ioFlag
      BY <2>2 DEF IInv, LiveIsUntold, FlagMeansOver, Live
    <3>2. rstate = "stopped" \/ target = 0
      BY <1>1, <1>5, <2>2, <3>1 DEF TransactionReports, Live, Early
    <3>3. QED
      BY <1>1, <2>1, <3>1, <3>2 DEF Paused, CutOff
  <2>3. CASE trans \notin Live
    BY <1>1, <2>1, <2>3 DEF IInv, ShownIsTrue, Working, Paused, Unsendable, Undecided, CutOff
  <2>4. QED
    BY <2>2, <2>3
<1>6. QED
  BY <1>3, <1>4, <1>5 DEF ChannelGone

LEMMA DisconnectedKeeps ==
  ASSUME IInv, Disconnected
  PROVE  IInv'
<1>1. StatesOK'
  BY DEF IInv, StatesOK, FlagsOK, CountsOK, Disconnected, ChannelGone,
     ProviderReports, TransactionReports, TellBoth, TellIoError, Tell,
     Show, listenerVars, credVars, Early, RegAfter
<1>2. FlagsOK'
  <2>1. FlagsOK
    BY DEF IInv, StatesOK, FlagsOK, CountsOK
  <2>2. QED
    BY <2>1 DEF FlagsOK, Disconnected, ChannelGone, ProviderReports,
       TransactionReports, TellBoth, TellIoError, Tell, Show,
       listenerVars, credVars, Early, RegAfter
<1>3. CountsOK'
  BY RegistrationAssumption DEF RegistrationAssumption, IInv, StatesOK,
     FlagsOK, CountsOK, Disconnected, ChannelGone, ProviderReports,
     TransactionReports, TellBoth, TellIoError, Tell, Show, listenerVars,
     credVars, Early, RegAfter
<1>4. NotAbandoned'
  BY DEF IInv, StatesOK, FlagsOK, CountsOK, NotAbandoned, FlagMeansOver,
     Working, Live, Recoverable, Disconnected, ChannelGone, ProviderReports,
     TransactionReports, TellBoth, TellIoError, Tell, Show, listenerVars,
     credVars, Early, RegAfter
<1>5. ShownIsTrue'
  BY GoneShown DEF Disconnected
<1>6. OneAttempt'
  BY DEF IInv, StatesOK, FlagsOK, CountsOK, OneAttempt, Live, Disconnected,
     ChannelGone, ProviderReports, TransactionReports, TellBoth, TellIoError,
     Tell, Show, listenerVars, credVars, Early, RegAfter
<1>7. WaitingIsServed'
  BY DEF IInv, StatesOK, FlagsOK, CountsOK, WaitingIsServed, ErrorHasNotice,
     Disconnected, ChannelGone, ProviderReports, TransactionReports, TellBoth,
     TellIoError, Tell, Show, listenerVars, credVars, Early, RegAfter
<1>8. ErrorHasNotice'
  BY DEF IInv, StatesOK, FlagsOK, CountsOK, ErrorHasNotice, Disconnected,
     ChannelGone, ProviderReports, TransactionReports, TellBoth, TellIoError,
     Tell, Show, listenerVars, credVars, Early, RegAfter
<1>9. LiveHasChannel'
  BY DEF IInv, StatesOK, FlagsOK, CountsOK, LiveHasChannel, WaitingIsServed,
     Live, Disconnected, ChannelGone, ProviderReports, TransactionReports,
     TellBoth, TellIoError, Tell, Show, listenerVars, credVars, Early,
     RegAfter
<1>10. FlagMeansOver'
  BY DEF IInv, StatesOK, FlagsOK, CountsOK, FlagMeansOver, Disconnected,
     ChannelGone, ProviderReports, TransactionReports, TellBoth, TellIoError,
     Tell, Show, listenerVars, credVars, Early, RegAfter
<1>11. ZeroMeansDisabled'
  BY DEF IInv, StatesOK, FlagsOK, CountsOK, ZeroMeansDisabled, FlagMeansOver,
     LiveHasChannel, OneAttempt, Live, Disconnected, ChannelGone,
     ProviderReports, TransactionReports, TellBoth, TellIoError, Tell,
     Show, listenerVars, credVars, Early, RegAfter
<1>12. LiveIsUntold'
  BY DEF IInv, StatesOK, FlagsOK, CountsOK, LiveIsUntold, Live, Recoverable,
     Disconnected, ChannelGone, ProviderReports, TransactionReports, TellBoth,
     TellIoError, Tell, Show, listenerVars, credVars, Early, RegAfter
<1>13. QED
  BY <1>1, <1>2, <1>3, <1>4, <1>5, <1>6, <1>7, <1>8, <1>9, <1>10, <1>11,
     <1>12 DEF IInv, StatesOK, FlagsOK, CountsOK

LEMMA NoticeDueKeeps ==
  ASSUME IInv, NoticeDue
  PROVE  IInv'
<1>1. StatesOK'
  BY DEF IInv, StatesOK, FlagsOK, CountsOK, NoticeDue, ChannelGone,
     RetryAfterTimeout, Tell, Show, transVars, proxyVars, refresherVars,
     ProviderReports, TransactionReports, TellBoth, TellIoError, listenerVars,
     credVars, RegAfter, Early
<1>2. FlagsOK'
  <2>1. FlagsOK
    BY DEF IInv, StatesOK, FlagsOK, CountsOK
  <2>2. CASE ChannelGone
    BY <2>1, <2>2 DEF FlagsOK, ChannelGone
  <2>3. CASE UNCHANGED <<enabled, ioFlag, transVars>>
    BY <2>1, <2>3 DEF FlagsOK, transVars
  <2>4. QED
    BY <2>2, <2>3 DEF NoticeDue, proxyVars, refresherVars, transVars
<1>3. CountsOK'
  BY RegistrationAssumption DEF RegistrationAssumption, IInv, StatesOK,
     FlagsOK, CountsOK, NoticeDue, ChannelGone, RetryAfterTimeout, Tell,
     Show, transVars, proxyVars, refresherVars, ProviderReports,
     TransactionReports, TellBoth, TellIoError, listenerVars, credVars,
     RegAfter, Early
<1>4. NotAbandoned'
  BY DEF IInv, StatesOK, FlagsOK, CountsOK, NotAbandoned, FlagMeansOver,
     Working, Live, Recoverable, NoticeDue, ChannelGone, RetryAfterTimeout,
     Tell, Show, transVars, proxyVars, refresherVars, ProviderReports,
     TransactionReports, TellBoth, TellIoError, listenerVars, credVars,
     RegAfter, Early
<1>5. ShownIsTrue'
  <2>1. CASE chan = "error" /\ ChannelGone
    BY <2>1, GoneShown
  <2>2. CASE Tell(408)
    BY <2>2 DEF Tell, Show, RegAfter, ShownIsTrue
  <2>3. CASE UNCHANGED <<proxyVars, refresherVars, transVars, chan>>
    BY <2>3 DEF IInv, ShownIsTrue, Working, Paused, Unsendable, Undecided, CutOff,
       proxyVars, listenerVars, refresherVars, transVars
  <2>4. QED
    BY <2>1, <2>2, <2>3 DEF NoticeDue
<1>6. OneAttempt'
  BY DEF IInv, StatesOK, FlagsOK, CountsOK, OneAttempt, LiveHasChannel, Live,
     NoticeDue, ChannelGone, RetryAfterTimeout, Tell, Show, transVars,
     proxyVars, refresherVars, ProviderReports, TransactionReports, TellBoth,
     TellIoError, listenerVars, credVars, RegAfter, Early
<1>7. WaitingIsServed'
  BY DEF IInv, StatesOK, FlagsOK, CountsOK, WaitingIsServed, ErrorHasNotice,
     NoticeDue, ChannelGone, RetryAfterTimeout, Tell, Show, transVars,
     proxyVars, refresherVars, ProviderReports, TransactionReports, TellBoth,
     TellIoError, listenerVars, credVars, RegAfter, Early
<1>8. ErrorHasNotice'
  BY DEF IInv, StatesOK, FlagsOK, CountsOK, ErrorHasNotice, NoticeDue,
     ChannelGone, RetryAfterTimeout, Tell, Show, transVars, proxyVars,
     refresherVars, ProviderReports, TransactionReports, TellBoth,
     TellIoError, listenerVars, credVars, RegAfter, Early
<1>9. LiveHasChannel'
  BY DEF IInv, StatesOK, FlagsOK, CountsOK, LiveHasChannel, WaitingIsServed,
     Live, NoticeDue, ChannelGone, RetryAfterTimeout, Tell, Show,
     transVars, proxyVars, refresherVars, ProviderReports, TransactionReports,
     TellBoth, TellIoError, listenerVars, credVars, RegAfter, Early
<1>10. FlagMeansOver'
  BY DEF IInv, StatesOK, FlagsOK, CountsOK, FlagMeansOver, NoticeDue,
     ChannelGone, RetryAfterTimeout, Tell, Show, transVars, proxyVars,
     refresherVars, ProviderReports, TransactionReports, TellBoth,
     TellIoError, listenerVars, credVars, RegAfter, Early
<1>11. ZeroMeansDisabled'
  BY DEF IInv, StatesOK, FlagsOK, CountsOK, ZeroMeansDisabled, FlagMeansOver,
     LiveHasChannel, OneAttempt, Live, NoticeDue, ChannelGone,
     RetryAfterTimeout, Tell, Show, transVars, proxyVars, refresherVars,
     ProviderReports, TransactionReports, TellBoth, TellIoError, listenerVars,
     credVars, RegAfter, Early
<1>12. LiveIsUntold'
  BY DEF IInv, StatesOK, FlagsOK, CountsOK, LiveIsUntold, LiveHasChannel,
     Live, Recoverable, NoticeDue, ChannelGone, RetryAfterTimeout, Tell, Show,
     transVars, proxyVars, refresherVars, ProviderReports, TransactionReports,
     TellBoth, TellIoError, listenerVars, credVars, RegAfter, Early
<1>13. QED
  BY <1>1, <1>2, <1>3, <1>4, <1>5, <1>6, <1>7, <1>8, <1>9, <1>10, <1>11,
     <1>12 DEF IInv, StatesOK, FlagsOK, CountsOK

LEMMA OtherChannelGoneKeeps ==
  ASSUME IInv, OtherChannelGone
  PROVE  IInv'
<1>1. StatesOK'
  BY DEF IInv, StatesOK, FlagsOK, CountsOK, OtherChannelGone, ProviderReports,
     TellIoError, Tell, Show, transVars, chanVars, RegAfter
<1>2. FlagsOK'
  <2>1. FlagsOK
    BY DEF IInv, StatesOK, FlagsOK, CountsOK
  <2>2. QED
    BY <2>1 DEF FlagsOK, OtherChannelGone, ProviderReports, TellIoError, Tell,
       Show, transVars, chanVars, RegAfter
<1>3. CountsOK'
  BY RegistrationAssumption DEF RegistrationAssumption, IInv, StatesOK,
     FlagsOK, CountsOK, OtherChannelGone, ProviderReports, TellIoError, Tell,
     Show, transVars, chanVars, RegAfter
<1>4. NotAbandoned'
  BY DEF IInv, StatesOK, FlagsOK, CountsOK, NotAbandoned, FlagMeansOver,
     Working, Live, Recoverable, OtherChannelGone, ProviderReports,
     TellIoError, Tell, Show, transVars, chanVars, RegAfter
<1>5. ShownIsTrue'
  BY DEF IInv, StatesOK, FlagsOK, CountsOK, ShownIsTrue, Paused, Unsendable,
     Undecided, CutOff, NotAbandoned, FlagMeansOver, LiveIsUntold, Working,
     Live, Recoverable, OtherChannelGone, ProviderReports, TellIoError, Tell,
     Show, transVars, chanVars, RegAfter
<1>6. OneAttempt'
  BY DEF IInv, StatesOK, FlagsOK, CountsOK, OneAttempt, Live,
     OtherChannelGone, ProviderReports, TellIoError, Tell, Show,
     transVars, chanVars, RegAfter
<1>7. WaitingIsServed'
  BY DEF IInv, StatesOK, FlagsOK, CountsOK, WaitingIsServed, ErrorHasNotice,
     OtherChannelGone, ProviderReports, TellIoError, Tell, Show,
     transVars, chanVars, RegAfter
<1>8. ErrorHasNotice'
  BY DEF IInv, StatesOK, FlagsOK, CountsOK, ErrorHasNotice, OtherChannelGone,
     ProviderReports, TellIoError, Tell, Show, transVars, chanVars,
     RegAfter
<1>9. LiveHasChannel'
  BY DEF IInv, StatesOK, FlagsOK, CountsOK, LiveHasChannel, WaitingIsServed,
     Live, OtherChannelGone, ProviderReports, TellIoError, Tell, Show,
     transVars, chanVars, RegAfter
<1>10. FlagMeansOver'
  BY DEF IInv, StatesOK, FlagsOK, CountsOK, FlagMeansOver, OtherChannelGone,
     ProviderReports, TellIoError, Tell, Show, transVars, chanVars,
     RegAfter
<1>11. ZeroMeansDisabled'
  BY DEF IInv, StatesOK, FlagsOK, CountsOK, ZeroMeansDisabled, FlagMeansOver,
     LiveHasChannel, OneAttempt, Live, OtherChannelGone, ProviderReports,
     TellIoError, Tell, Show, transVars, chanVars, RegAfter
<1>12. LiveIsUntold'
  BY DEF IInv, StatesOK, FlagsOK, CountsOK, LiveIsUntold, Live, Recoverable,
     OtherChannelGone, ProviderReports, TellIoError, Tell, Show, transVars,
     chanVars, RegAfter
<1>13. QED
  BY <1>1, <1>2, <1>3, <1>4, <1>5, <1>6, <1>7, <1>8, <1>9, <1>10, <1>11,
     <1>12 DEF IInv, StatesOK, FlagsOK, CountsOK

LEMMA ReceiveProvisionalKeeps ==
  ASSUME IInv, NEW c \in Codes, ReceiveProvisional(c),
         trans \in {"TRYING", "PROCEEDING"}, UNCHANGED enabled
  PROVE  IInv'
<1>1. StatesOK'
  BY DEF IInv, StatesOK, FlagsOK, CountsOK, ReceiveProvisional, Tell,
     Show, refresherVars, chanVars, vars, RegAfter, proxyVars, transVars,
     listenerVars, credVars
<1>2. FlagsOK'
  <2>1. FlagsOK
    BY DEF IInv, StatesOK, FlagsOK, CountsOK
  <2>2. QED
    BY <2>1 DEF FlagsOK, ReceiveProvisional, Tell, Show, refresherVars,
       chanVars, vars, RegAfter, proxyVars, transVars, listenerVars, credVars
<1>3. CountsOK'
  BY RegistrationAssumption DEF RegistrationAssumption, IInv, StatesOK,
     FlagsOK, CountsOK, ReceiveProvisional, Tell, Show, refresherVars,
     chanVars, vars, RegAfter, proxyVars, transVars, listenerVars, credVars
<1>4. NotAbandoned'
  BY DEF IInv, StatesOK, FlagsOK, CountsOK, NotAbandoned, FlagMeansOver,
     Working, Live, Recoverable, ReceiveProvisional, Tell, Show,
     refresherVars, chanVars, vars, RegAfter, proxyVars, transVars,
     listenerVars, credVars
<1>5. ShownIsTrue'
  BY DEF IInv, StatesOK, FlagsOK, CountsOK, ShownIsTrue, Paused, Unsendable,
     Undecided, CutOff, NotAbandoned, FlagMeansOver, LiveIsUntold, Working,
     Live, Recoverable, ReceiveProvisional, Tell, Show, refresherVars,
     chanVars, vars, RegAfter, proxyVars, transVars, listenerVars, credVars
<1>6. OneAttempt'
  BY DEF IInv, StatesOK, FlagsOK, CountsOK, OneAttempt, Live,
     ReceiveProvisional, Tell, Show, refresherVars, chanVars, vars,
     RegAfter, proxyVars, transVars, listenerVars, credVars
<1>7. WaitingIsServed'
  BY DEF IInv, StatesOK, FlagsOK, CountsOK, WaitingIsServed, ErrorHasNotice,
     ReceiveProvisional, Tell, Show, refresherVars, chanVars, vars,
     RegAfter, proxyVars, transVars, listenerVars, credVars
<1>8. ErrorHasNotice'
  BY DEF IInv, StatesOK, FlagsOK, CountsOK, ErrorHasNotice,
     ReceiveProvisional, Tell, Show, refresherVars, chanVars, vars,
     RegAfter, proxyVars, transVars, listenerVars, credVars
<1>9. LiveHasChannel'
  BY DEF IInv, StatesOK, FlagsOK, CountsOK, LiveHasChannel, WaitingIsServed,
     Live, ReceiveProvisional, Tell, Show, refresherVars, chanVars, vars,
     RegAfter, proxyVars, transVars, listenerVars, credVars
<1>10. FlagMeansOver'
  <2>1. ~ioFlag
    BY DEF IInv, FlagMeansOver
  <2>2. ioFlag' = ioFlag
    BY DEF ReceiveProvisional, refresherVars, vars
  <2>3. QED
    BY <2>1, <2>2 DEF FlagMeansOver
<1>11. ZeroMeansDisabled'
  BY DEF IInv, StatesOK, FlagsOK, CountsOK, ZeroMeansDisabled, FlagMeansOver,
     LiveHasChannel, OneAttempt, Live, ReceiveProvisional, Tell, Show,
     refresherVars, chanVars, vars, RegAfter, proxyVars, transVars,
     listenerVars, credVars
<1>12. LiveIsUntold'
  BY RegistrationAssumption DEF RegistrationAssumption, IInv, StatesOK,
     FlagsOK, CountsOK, LiveIsUntold, Live, Recoverable, ReceiveProvisional,
     Tell, Show, refresherVars, chanVars, vars, RegAfter, proxyVars,
     transVars, listenerVars, credVars
<1>13. QED
  BY <1>1, <1>2, <1>3, <1>4, <1>5, <1>6, <1>7, <1>8, <1>9, <1>10, <1>11,
     <1>12 DEF IInv, StatesOK, FlagsOK, CountsOK

LEMMA ReceiveSuccessKeeps ==
  ASSUME IInv, NEW c \in Codes, ReceiveSuccess(c),
         trans \in {"TRYING", "PROCEEDING"}, UNCHANGED enabled
  PROVE  IInv'
<1>1. StatesOK'
  BY DEF IInv, StatesOK, FlagsOK, CountsOK, ReceiveSuccess, Complete, Tell,
     Show, Sent, NotSent, chanVars, RegAfter, NewRequest, SameChannel,
     Listed, FreshChannel, NotTold, SendOn
<1>2. FlagsOK'
  <2>1. FlagsOK
    BY DEF IInv, StatesOK, FlagsOK, CountsOK
  <2>2. QED
    BY <2>1 DEF FlagsOK, ReceiveSuccess, Complete, Tell, Show, Sent,
       NotSent, chanVars, RegAfter, NewRequest, SameChannel, Listed,
       FreshChannel, NotTold, SendOn
<1>3. CountsOK'
  BY RegistrationAssumption DEF RegistrationAssumption, IInv, StatesOK,
     FlagsOK, CountsOK, ReceiveSuccess, Complete, Tell, Show, Sent,
     NotSent, chanVars, RegAfter, NewRequest, SameChannel, Listed,
     FreshChannel, NotTold, SendOn
<1>4. NotAbandoned'
  BY DEF IInv, StatesOK, FlagsOK, CountsOK, NotAbandoned, FlagMeansOver,
     Working, Live, Recoverable, ReceiveSuccess, Complete, Tell, Show,
     Sent, NotSent, chanVars, RegAfter, NewRequest, SameChannel, Listed,
     FreshChannel, NotTold, SendOn
<1>5. ShownIsTrue'
  BY DEF IInv, StatesOK, FlagsOK, CountsOK, ShownIsTrue, Paused, Unsendable,
     Undecided, CutOff, NotAbandoned, FlagMeansOver, LiveIsUntold, Working,
     Live, Recoverable, ReceiveSuccess, Complete, Tell, Show, Sent, NotSent,
     chanVars, RegAfter, NewRequest, SameChannel, Listed, FreshChannel,
     NotTold, SendOn
<1>6. OneAttempt'
  BY DEF IInv, StatesOK, FlagsOK, CountsOK, OneAttempt, Live, ReceiveSuccess,
     Complete, Tell, Show, Sent, NotSent, chanVars, RegAfter, NewRequest,
     SameChannel, Listed, FreshChannel, NotTold, SendOn
<1>7. WaitingIsServed'
  BY DEF IInv, StatesOK, FlagsOK, CountsOK, WaitingIsServed, ErrorHasNotice,
     ReceiveSuccess, Complete, Tell, Show, Sent, NotSent, chanVars,
     RegAfter, NewRequest, SameChannel, Listed, FreshChannel, NotTold, SendOn
<1>8. ErrorHasNotice'
  BY DEF IInv, StatesOK, FlagsOK, CountsOK, ErrorHasNotice, ReceiveSuccess,
     Complete, Tell, Show, Sent, NotSent, chanVars, RegAfter, NewRequest,
     SameChannel, Listed, FreshChannel, NotTold, SendOn
<1>9. LiveHasChannel'
  BY DEF IInv, StatesOK, FlagsOK, CountsOK, LiveHasChannel, WaitingIsServed,
     Live, ReceiveSuccess, Complete, Tell, Show, Sent, NotSent, chanVars,
     RegAfter, NewRequest, SameChannel, Listed, FreshChannel, NotTold, SendOn
<1>10. FlagMeansOver'
  BY DEF IInv, StatesOK, FlagsOK, CountsOK, FlagMeansOver, ReceiveSuccess,
     Complete, Tell, Show, Sent, NotSent, chanVars, RegAfter, NewRequest,
     SameChannel, Listed, FreshChannel, NotTold, SendOn
<1>11. ZeroMeansDisabled'
  BY DEF IInv, StatesOK, FlagsOK, CountsOK, ZeroMeansDisabled, FlagMeansOver,
     LiveHasChannel, OneAttempt, Live, ReceiveSuccess, Complete, Tell,
     Show, Sent, NotSent, chanVars, RegAfter, NewRequest, SameChannel,
     Listed, FreshChannel, NotTold, SendOn
<1>12. LiveIsUntold'
  BY RegistrationAssumption DEF RegistrationAssumption, IInv, StatesOK,
     FlagsOK, CountsOK, LiveIsUntold, Live, Recoverable, ReceiveSuccess,
     Complete, Tell, Show, Sent, NotSent, chanVars, RegAfter, NewRequest,
     SameChannel, Listed, FreshChannel, NotTold, SendOn
<1>13. QED
  BY <1>1, <1>2, <1>3, <1>4, <1>5, <1>6, <1>7, <1>8, <1>9, <1>10, <1>11,
     <1>12 DEF IInv, StatesOK, FlagsOK, CountsOK

LEMMA ReceiveRedirectionKeeps ==
  ASSUME IInv, NEW c \in Codes, ReceiveRedirection(c),
         trans \in {"TRYING", "PROCEEDING"}, UNCHANGED enabled
  PROVE  IInv'
<1>1. StatesOK'
  BY DEF IInv, StatesOK, FlagsOK, CountsOK, ReceiveRedirection, Again,
     SentElsewhere, Tell, Show, Complete, NewRequest, SameChannel,
     FreshChannel, RegAfter, chanVars, NotTold, Listed, SendOn
<1>2. FlagsOK'
  <2>1. FlagsOK
    BY DEF IInv, StatesOK, FlagsOK, CountsOK
  <2>2. QED
    BY <2>1 DEF FlagsOK, ReceiveRedirection, Again, SentElsewhere, Tell,
       Show, Complete, NewRequest, SameChannel, FreshChannel, RegAfter,
       chanVars, NotTold, Listed, SendOn
<1>3. CountsOK'
  BY RegistrationAssumption DEF RegistrationAssumption, IInv, StatesOK,
     FlagsOK, CountsOK, ReceiveRedirection, Again, SentElsewhere, Tell,
     Show, Complete, NewRequest, SameChannel, FreshChannel, RegAfter,
     chanVars, NotTold, Listed, SendOn
<1>4. NotAbandoned'
  BY DEF IInv, StatesOK, FlagsOK, CountsOK, NotAbandoned, FlagMeansOver,
     Working, Live, Recoverable, ReceiveRedirection, Again, SentElsewhere,
     Tell, Show, Complete, NewRequest, SameChannel, FreshChannel,
     RegAfter, chanVars, NotTold, Listed, SendOn
<1>5. ShownIsTrue'
  BY DEF IInv, StatesOK, FlagsOK, CountsOK, ShownIsTrue, Paused, Unsendable,
     Undecided, CutOff, NotAbandoned, FlagMeansOver, LiveIsUntold, Working,
     Live, Recoverable, ReceiveRedirection, Again, SentElsewhere, Tell, Show,
     Complete, NewRequest, SameChannel, FreshChannel, RegAfter, chanVars,
     NotTold, Listed, SendOn
<1>6. OneAttempt'
  BY DEF IInv, StatesOK, FlagsOK, CountsOK, OneAttempt, Live,
     ReceiveRedirection, Again, SentElsewhere, Tell, Show, Complete,
     NewRequest, SameChannel, FreshChannel, RegAfter, chanVars, NotTold,
     Listed, SendOn
<1>7. WaitingIsServed'
  BY DEF IInv, StatesOK, FlagsOK, CountsOK, WaitingIsServed, ErrorHasNotice,
     ReceiveRedirection, Again, SentElsewhere, Tell, Show, Complete,
     NewRequest, SameChannel, FreshChannel, RegAfter, chanVars, NotTold,
     Listed, SendOn
<1>8. ErrorHasNotice'
  BY DEF IInv, StatesOK, FlagsOK, CountsOK, ErrorHasNotice,
     ReceiveRedirection, Again, SentElsewhere, Tell, Show, Complete,
     NewRequest, SameChannel, FreshChannel, RegAfter, chanVars, NotTold,
     Listed, SendOn
<1>9. LiveHasChannel'
  BY DEF IInv, StatesOK, FlagsOK, CountsOK, LiveHasChannel, WaitingIsServed,
     Live, ReceiveRedirection, Again, SentElsewhere, Tell, Show,
     Complete, NewRequest, SameChannel, FreshChannel, RegAfter, chanVars,
     NotTold, Listed, SendOn
<1>10. FlagMeansOver'
  BY DEF IInv, StatesOK, FlagsOK, CountsOK, FlagMeansOver, ReceiveRedirection,
     Again, SentElsewhere, Tell, Show, Complete, NewRequest, SameChannel,
     FreshChannel, RegAfter, chanVars, NotTold, Listed, SendOn
<1>11. ZeroMeansDisabled'
  BY DEF IInv, StatesOK, FlagsOK, CountsOK, ZeroMeansDisabled, FlagMeansOver,
     LiveHasChannel, OneAttempt, Live, ReceiveRedirection, Again,
     SentElsewhere, Tell, Show, Complete, NewRequest, SameChannel,
     FreshChannel, RegAfter, chanVars, NotTold, Listed, SendOn
<1>12. LiveIsUntold'
  BY RegistrationAssumption DEF RegistrationAssumption, IInv, StatesOK,
     FlagsOK, CountsOK, LiveIsUntold, Live, Recoverable, ReceiveRedirection,
     Again, SentElsewhere, Tell, Show, Complete, NewRequest, SameChannel,
     FreshChannel, RegAfter, chanVars, NotTold, Listed, SendOn
<1>13. QED
  BY <1>1, <1>2, <1>3, <1>4, <1>5, <1>6, <1>7, <1>8, <1>9, <1>10, <1>11,
     <1>12 DEF IInv, StatesOK, FlagsOK, CountsOK

LEMMA ReceiveChallengeKeeps ==
  ASSUME IInv, NEW c \in Codes, ReceiveChallenge(c),
         trans \in {"TRYING", "PROCEEDING"}, UNCHANGED enabled
  PROVE  IInv'
<1>1. StatesOK'
  BY DEF IInv, StatesOK, FlagsOK, CountsOK, ReceiveChallenge, Challenge,
     Again, Sent, Complete, Tell, Show, NewRequest, SameChannel, Listed,
     FreshChannel, chanVars, RegAfter, NotTold, SendOn
<1>2. FlagsOK'
  <2>1. FlagsOK
    BY DEF IInv, StatesOK, FlagsOK, CountsOK
  <2>2. CASE Again(c, Sent)
    BY <2>1, <2>2 DEF FlagsOK, Again, Sent, Complete, Tell, Show,
       NewRequest, SameChannel, FreshChannel, chanVars, SendOn
  <2>3. CASE Complete /\ Tell(c)
    BY <2>1, <2>3 DEF FlagsOK, Complete, chanVars
  <2>4. QED
    BY <2>2, <2>3 DEF ReceiveChallenge
<1>3. CountsOK'
  BY RegistrationAssumption DEF RegistrationAssumption, IInv, StatesOK,
     FlagsOK, CountsOK, ReceiveChallenge, Challenge, Again, Sent, Complete,
     Tell, Show, NewRequest, SameChannel, Listed, FreshChannel, chanVars,
     RegAfter, NotTold, SendOn
<1>4. NotAbandoned'
  BY DEF IInv, StatesOK, FlagsOK, CountsOK, NotAbandoned, FlagMeansOver,
     Working, Live, Recoverable, ReceiveChallenge, Challenge, Again, Sent,
     Complete, Tell, Show, NewRequest, SameChannel, Listed, FreshChannel,
     chanVars, RegAfter, NotTold, SendOn
<1>5. ShownIsTrue'
  BY DEF IInv, StatesOK, FlagsOK, CountsOK, ShownIsTrue, Paused, Unsendable,
     Undecided, CutOff, NotAbandoned, FlagMeansOver, LiveIsUntold, Working,
     Live, Recoverable, ReceiveChallenge, Challenge, Again, Sent, Complete,
     Tell, Show, NewRequest, SameChannel, Listed, FreshChannel, chanVars,
     RegAfter, NotTold, SendOn
<1>6. OneAttempt'
  BY DEF IInv, StatesOK, FlagsOK, CountsOK, OneAttempt, Live,
     ReceiveChallenge, Challenge, Again, Sent, Complete, Tell, Show,
     NewRequest, SameChannel, Listed, FreshChannel, chanVars, RegAfter,
     NotTold, SendOn
<1>7. WaitingIsServed'
  BY DEF IInv, StatesOK, FlagsOK, CountsOK, WaitingIsServed, ErrorHasNotice,
     ReceiveChallenge, Challenge, Again, Sent, Complete, Tell, Show,
     NewRequest, SameChannel, Listed, FreshChannel, chanVars, RegAfter,
     NotTold, SendOn
<1>8. ErrorHasNotice'
  BY DEF IInv, StatesOK, FlagsOK, CountsOK, ErrorHasNotice, ReceiveChallenge,
     Challenge, Again, Sent, Complete, Tell, Show, NewRequest,
     SameChannel, Listed, FreshChannel, chanVars, RegAfter, NotTold, SendOn
<1>9. LiveHasChannel'
  BY DEF IInv, StatesOK, FlagsOK, CountsOK, LiveHasChannel, WaitingIsServed,
     Live, ReceiveChallenge, Challenge, Again, Sent, Complete, Tell,
     Show, NewRequest, SameChannel, Listed, FreshChannel, chanVars,
     RegAfter, NotTold, SendOn
<1>10. FlagMeansOver'
  BY DEF IInv, StatesOK, FlagsOK, CountsOK, FlagMeansOver, ReceiveChallenge,
     Challenge, Again, Sent, Complete, Tell, Show, NewRequest,
     SameChannel, Listed, FreshChannel, chanVars, RegAfter, NotTold, SendOn
<1>11. ZeroMeansDisabled'
  BY DEF IInv, StatesOK, FlagsOK, CountsOK, ZeroMeansDisabled, FlagMeansOver,
     LiveHasChannel, OneAttempt, Live, ReceiveChallenge, Challenge, Again,
     Sent, Complete, Tell, Show, NewRequest, SameChannel, Listed,
     FreshChannel, chanVars, RegAfter, NotTold, SendOn
<1>12. LiveIsUntold'
  BY RegistrationAssumption DEF RegistrationAssumption, IInv, StatesOK,
     FlagsOK, CountsOK, LiveIsUntold, Live, Recoverable, ReceiveChallenge,
     Challenge, Again, Sent, Complete, Tell, Show, NewRequest, SameChannel,
     Listed, FreshChannel, chanVars, RegAfter, NotTold, SendOn
<1>13. QED
  BY <1>1, <1>2, <1>3, <1>4, <1>5, <1>6, <1>7, <1>8, <1>9, <1>10, <1>11,
     <1>12 DEF IInv, StatesOK, FlagsOK, CountsOK

LEMMA ReceiveRecoverableKeeps ==
  ASSUME IInv, NEW c \in Codes, ReceiveRecoverable(c),
         trans \in {"TRYING", "PROCEEDING"}, UNCHANGED enabled
  PROVE  IInv'
<1>1. StatesOK'
  BY DEF IInv, StatesOK, FlagsOK, CountsOK, ReceiveRecoverable, Recoverable,
     Complete, Tell, Show, chanVars, RegAfter
<1>2. FlagsOK'
  <2>1. FlagsOK
    BY DEF IInv, StatesOK, FlagsOK, CountsOK
  <2>2. QED
    BY <2>1 DEF FlagsOK, ReceiveRecoverable, Recoverable, Complete, Tell,
       Show, chanVars, RegAfter
<1>3. CountsOK'
  BY RegistrationAssumption DEF RegistrationAssumption, IInv, StatesOK,
     FlagsOK, CountsOK, ReceiveRecoverable, Recoverable, Complete, Tell,
     Show, chanVars, RegAfter
<1>4. NotAbandoned'
  BY DEF IInv, StatesOK, FlagsOK, CountsOK, NotAbandoned, FlagMeansOver,
     Working, Live, Recoverable, ReceiveRecoverable, Complete, Tell,
     Show, chanVars, RegAfter
<1>5. ShownIsTrue'
  BY DEF IInv, StatesOK, FlagsOK, CountsOK, ShownIsTrue, Paused, Unsendable,
     Undecided, CutOff, NotAbandoned, FlagMeansOver, LiveIsUntold, Working,
     Live, Recoverable, ReceiveRecoverable, Complete, Tell, Show, chanVars,
     RegAfter
<1>6. OneAttempt'
  BY DEF IInv, StatesOK, FlagsOK, CountsOK, OneAttempt, Live,
     ReceiveRecoverable, Recoverable, Complete, Tell, Show, chanVars,
     RegAfter
<1>7. WaitingIsServed'
  BY DEF IInv, StatesOK, FlagsOK, CountsOK, WaitingIsServed, ErrorHasNotice,
     ReceiveRecoverable, Recoverable, Complete, Tell, Show, chanVars,
     RegAfter
<1>8. ErrorHasNotice'
  BY DEF IInv, StatesOK, FlagsOK, CountsOK, ErrorHasNotice,
     ReceiveRecoverable, Recoverable, Complete, Tell, Show, chanVars,
     RegAfter
<1>9. LiveHasChannel'
  BY DEF IInv, StatesOK, FlagsOK, CountsOK, LiveHasChannel, WaitingIsServed,
     Live, ReceiveRecoverable, Recoverable, Complete, Tell, Show,
     chanVars, RegAfter
<1>10. FlagMeansOver'
  BY DEF IInv, StatesOK, FlagsOK, CountsOK, FlagMeansOver, ReceiveRecoverable,
     Recoverable, Complete, Tell, Show, chanVars, RegAfter
<1>11. ZeroMeansDisabled'
  BY DEF IInv, StatesOK, FlagsOK, CountsOK, ZeroMeansDisabled, FlagMeansOver,
     LiveHasChannel, OneAttempt, Live, ReceiveRecoverable, Recoverable,
     Complete, Tell, Show, chanVars, RegAfter
<1>12. LiveIsUntold'
  BY RegistrationAssumption DEF RegistrationAssumption, IInv, StatesOK,
     FlagsOK, CountsOK, LiveIsUntold, Live, ReceiveRecoverable, Recoverable,
     Complete, Tell, Show, chanVars, RegAfter
<1>13. QED
  BY <1>1, <1>2, <1>3, <1>4, <1>5, <1>6, <1>7, <1>8, <1>9, <1>10, <1>11,
     <1>12 DEF IInv, StatesOK, FlagsOK, CountsOK

LEMMA ReceiveTooBriefKeeps ==
  ASSUME IInv, NEW c \in Codes, ReceiveTooBrief(c),
         trans \in {"TRYING", "PROCEEDING"}, UNCHANGED enabled
  PROVE  IInv'
<1>1. StatesOK'
  BY DEF IInv, StatesOK, FlagsOK, CountsOK, ReceiveTooBrief, Refresh, Sent,
     NotSent, Complete, Tell, Show, NewRequest, SameChannel, Listed,
     FreshChannel, chanVars, RegAfter, NotTold, SendOn
<1>2. FlagsOK'
  <2>1. FlagsOK
    BY DEF IInv, StatesOK, FlagsOK, CountsOK
  <2>2. CASE Sent \/ NotSent
    BY <2>1, <2>2 DEF FlagsOK, Sent, NotSent, NewRequest, SameChannel,
       FreshChannel, SendOn
  <2>3. CASE Complete /\ Tell(c)
    BY <2>1, <2>3 DEF FlagsOK, Complete, chanVars
  <2>4. QED
    BY <2>2, <2>3 DEF ReceiveTooBrief
<1>3. CountsOK'
  BY RegistrationAssumption DEF RegistrationAssumption, IInv, StatesOK,
     FlagsOK, CountsOK, ReceiveTooBrief, Refresh, Sent, NotSent, Complete,
     Tell, Show, NewRequest, SameChannel, Listed, FreshChannel, chanVars,
     RegAfter, NotTold, SendOn
<1>4. NotAbandoned'
  BY DEF IInv, StatesOK, FlagsOK, CountsOK, NotAbandoned, FlagMeansOver,
     Working, Live, Recoverable, ReceiveTooBrief, Refresh, Sent, NotSent,
     Complete, Tell, Show, NewRequest, SameChannel, Listed, FreshChannel,
     chanVars, RegAfter, NotTold, SendOn
<1>5. ShownIsTrue'
  BY DEF IInv, StatesOK, FlagsOK, CountsOK, ShownIsTrue, Paused, Unsendable,
     Undecided, CutOff, NotAbandoned, FlagMeansOver, LiveIsUntold, Working,
     Live, Recoverable, ReceiveTooBrief, Refresh, Sent, NotSent, Complete,
     Tell, Show, NewRequest, SameChannel, Listed, FreshChannel, chanVars,
     RegAfter, NotTold, SendOn
<1>6. OneAttempt'
  BY DEF IInv, StatesOK, FlagsOK, CountsOK, OneAttempt, Live, ReceiveTooBrief,
     Refresh, Sent, NotSent, Complete, Tell, Show, NewRequest,
     SameChannel, Listed, FreshChannel, chanVars, RegAfter, NotTold, SendOn
<1>7. WaitingIsServed'
  BY DEF IInv, StatesOK, FlagsOK, CountsOK, WaitingIsServed, ErrorHasNotice,
     ReceiveTooBrief, Refresh, Sent, NotSent, Complete, Tell, Show,
     NewRequest, SameChannel, Listed, FreshChannel, chanVars, RegAfter,
     NotTold, SendOn
<1>8. ErrorHasNotice'
  BY DEF IInv, StatesOK, FlagsOK, CountsOK, ErrorHasNotice, ReceiveTooBrief,
     Refresh, Sent, NotSent, Complete, Tell, Show, NewRequest,
     SameChannel, Listed, FreshChannel, chanVars, RegAfter, NotTold, SendOn
<1>9. LiveHasChannel'
  BY DEF IInv, StatesOK, FlagsOK, CountsOK, LiveHasChannel, WaitingIsServed,
     Live, ReceiveTooBrief, Refresh, Sent, NotSent, Complete, Tell, Show,
     NewRequest, SameChannel, Listed, FreshChannel, chanVars, RegAfter,
     NotTold, SendOn
<1>10. FlagMeansOver'
  BY DEF IInv, StatesOK, FlagsOK, CountsOK, FlagMeansOver, ReceiveTooBrief,
     Refresh, Sent, NotSent, Complete, Tell, Show, NewRequest,
     SameChannel, Listed, FreshChannel, chanVars, RegAfter, NotTold, SendOn
<1>11. ZeroMeansDisabled'
  BY DEF IInv, StatesOK, FlagsOK, CountsOK, ZeroMeansDisabled, FlagMeansOver,
     LiveHasChannel, OneAttempt, Live, ReceiveTooBrief, Refresh, Sent,
     NotSent, Complete, Tell, Show, NewRequest, SameChannel, Listed,
     FreshChannel, chanVars, RegAfter, NotTold, SendOn
<1>12. LiveIsUntold'
  BY RegistrationAssumption DEF RegistrationAssumption, IInv, StatesOK,
     FlagsOK, CountsOK, LiveIsUntold, Live, Recoverable, ReceiveTooBrief,
     Refresh, Sent, NotSent, Complete, Tell, Show, NewRequest, SameChannel,
     Listed, FreshChannel, chanVars, RegAfter, NotTold, SendOn
<1>13. QED
  BY <1>1, <1>2, <1>3, <1>4, <1>5, <1>6, <1>7, <1>8, <1>9, <1>10, <1>11,
     <1>12 DEF IInv, StatesOK, FlagsOK, CountsOK

LEMMA ReceiveOtherKeeps ==
  ASSUME IInv, NEW c \in Codes, ReceiveOther(c),
         trans \in {"TRYING", "PROCEEDING"}, UNCHANGED enabled
  PROVE  IInv'
<1>1. StatesOK'
  BY DEF IInv, StatesOK, FlagsOK, CountsOK, ReceiveOther, Recoverable,
     Challenge, Complete, Tell, Show, chanVars, RegAfter
<1>2. FlagsOK'
  <2>1. FlagsOK
    BY DEF IInv, StatesOK, FlagsOK, CountsOK
  <2>2. QED
    BY <2>1 DEF FlagsOK, ReceiveOther, Recoverable, Challenge, Complete, Tell,
       Show, chanVars, RegAfter
<1>3. CountsOK'
  BY RegistrationAssumption DEF RegistrationAssumption, IInv, StatesOK,
     FlagsOK, CountsOK, ReceiveOther, Recoverable, Challenge, Complete, Tell,
     Show, chanVars, RegAfter
<1>4. NotAbandoned'
  BY DEF IInv, StatesOK, FlagsOK, CountsOK, NotAbandoned, FlagMeansOver,
     Working, Live, Recoverable, ReceiveOther, Challenge, Complete, Tell,
     Show, chanVars, RegAfter
<1>5. ShownIsTrue'
  BY RegistrationAssumption DEF RegistrationAssumption, IInv, StatesOK,
     FlagsOK, CountsOK, ShownIsTrue, Paused, Unsendable, Undecided, CutOff,
     NotAbandoned, FlagMeansOver, LiveIsUntold, Working, Live, Recoverable,
     ReceiveOther, Challenge, Complete, Tell, Show, chanVars, RegAfter
<1>6. OneAttempt'
  BY DEF IInv, StatesOK, FlagsOK, CountsOK, OneAttempt, Live, ReceiveOther,
     Recoverable, Challenge, Complete, Tell, Show, chanVars, RegAfter
<1>7. WaitingIsServed'
  BY DEF IInv, StatesOK, FlagsOK, CountsOK, WaitingIsServed, ErrorHasNotice,
     ReceiveOther, Recoverable, Challenge, Complete, Tell, Show,
     chanVars, RegAfter
<1>8. ErrorHasNotice'
  BY DEF IInv, StatesOK, FlagsOK, CountsOK, ErrorHasNotice, ReceiveOther,
     Recoverable, Challenge, Complete, Tell, Show, chanVars, RegAfter
<1>9. LiveHasChannel'
  BY DEF IInv, StatesOK, FlagsOK, CountsOK, LiveHasChannel, WaitingIsServed,
     Live, ReceiveOther, Recoverable, Challenge, Complete, Tell, Show,
     chanVars, RegAfter
<1>10. FlagMeansOver'
  BY DEF IInv, StatesOK, FlagsOK, CountsOK, FlagMeansOver, ReceiveOther,
     Recoverable, Challenge, Complete, Tell, Show, chanVars, RegAfter
<1>11. ZeroMeansDisabled'
  BY DEF IInv, StatesOK, FlagsOK, CountsOK, ZeroMeansDisabled, FlagMeansOver,
     LiveHasChannel, OneAttempt, Live, ReceiveOther, Recoverable, Challenge,
     Complete, Tell, Show, chanVars, RegAfter
<1>12. LiveIsUntold'
  BY RegistrationAssumption DEF RegistrationAssumption, IInv, StatesOK,
     FlagsOK, CountsOK, LiveIsUntold, Live, ReceiveOther, Recoverable,
     Challenge, Complete, Tell, Show, chanVars, RegAfter
<1>13. QED
  BY <1>1, <1>2, <1>3, <1>4, <1>5, <1>6, <1>7, <1>8, <1>9, <1>10, <1>11,
     <1>12 DEF IInv, StatesOK, FlagsOK, CountsOK

LEMMA InitHolds == Init => IInv
<1> SUFFICES ASSUME Init PROVE IInv
  OBVIOUS
<1>1. StatesOK
  BY DEF Init, StatesOK
<1>2. FlagsOK
  BY DEF Init, FlagsOK
<1>3. CountsOK
  BY RegistrationAssumption DEF RegistrationAssumption, Init, CountsOK
<1>4. NotAbandoned /\ ShownIsTrue /\ OneAttempt /\ ZeroMeansDisabled /\ LiveIsUntold
  BY DEF Init, NotAbandoned, ShownIsTrue, OneAttempt, ZeroMeansDisabled,
     LiveIsUntold, Live
<1>5. WaitingIsServed /\ ErrorHasNotice /\ LiveHasChannel /\ FlagMeansOver
  BY DEF Init, WaitingIsServed, ErrorHasNotice, LiveHasChannel, FlagMeansOver,
     Live
<1>6. QED
  BY <1>1, <1>2, <1>3, <1>4, <1>5
     DEF IInv, StatesOK, FlagsOK, CountsOK

LEMMA ResponseKeeps ==
  ASSUME IInv, NEW c \in Codes, ReceiveResponse(c)
  PROVE  IInv'
BY ReceiveProvisionalKeeps, ReceiveSuccessKeeps, ReceiveRedirectionKeeps,
   ReceiveChallengeKeeps, ReceiveRecoverableKeeps, ReceiveTooBriefKeeps,
   ReceiveOtherKeeps
   DEF ReceiveResponse, ReceiveFinal

LEMMA StutterKeeps == IInv /\ UNCHANGED vars => IInv'
BY DEF vars, proxyVars, listenerVars, credVars, refresherVars, transVars,
   chanVars, IInv, StatesOK, FlagsOK, CountsOK, NotAbandoned, ShownIsTrue,
   Paused, Unsendable, Undecided, CutOff, OneAttempt, WaitingIsServed,
   Working, ErrorHasNotice, LiveHasChannel, FlagMeansOver, ZeroMeansDisabled,
   LiveIsUntold

LEMMA StepKeeps == IInv /\ CredsInv /\ [Next]_vars => IInv'
<1> SUFFICES ASSUME IInv, CredsInv, [Next]_vars PROVE IInv'
  OBVIOUS
<1>1. CASE User
  BY <1>1, RegisterKeeps, RefreshRegisterKeeps, UnregisterKeeps,
     PauseRegisterKeeps, AuthenticateKeeps DEF User
<1>2. CASE \E c \in Codes : ReceiveResponse(c)
  BY <1>2, ResponseKeeps
<1>3. CASE Timers
  BY <1>3, RefreshTimerKeeps, TimerFKeeps, TimerKKeeps DEF Timers
<1>4. CASE Channel
  BY <1>4, ConnectedKeeps, ConnectFailsKeeps, ChannelFailsKeeps,
     DisconnectedKeeps, NoticeDueKeeps, OtherChannelGoneKeeps DEF Channel
<1>5. CASE UNCHANGED vars
  BY <1>5, StutterKeeps
<1>6. QED
  BY <1>1, <1>2, <1>3, <1>4, <1>5 DEF Next

LEMMA ShowCreds ==
  ASSUME CredsInv, NEW code \in Nat, NEW credentials \in BOOLEAN,
         Show(code), Await(code, credentials)
  PROVE  CredsOK' /\ OkIsAuthorized'
<1>1. CredsOK'
  BY DEF Await, CredsInv, CredsOK
<1>2. CASE code = 200
  <2>1. ~pending'
    BY <1>2 DEF Await
  <2>2. QED
    BY <1>1, <2>1 DEF OkIsAuthorized
<1>3. CASE code # 200 /\ code < 400
  <2>1. reg' = reg
    BY <1>3 DEF Show, RegAfter
  <2>2. ~(code >= 400)
    BY <1>3
  <2>3. pending' = pending
    BY <1>3, <2>2, Zenon DEF Await, CredsInv, CredsOK
  <2>4. QED
    BY <1>1, <2>1, <2>3 DEF CredsInv, OkIsAuthorized
<1>4. CASE code >= 400
  <2>1. reg' # "Ok"
    BY <1>4 DEF Show, RegAfter
  <2>2. QED
    BY <1>1, <2>1 DEF OkIsAuthorized
<1>5. QED
  BY <1>2, <1>3, <1>4

LEMMA TellCreds ==
  ASSUME CredsInv, NEW code \in Nat, Tell(code)
  PROVE  CredsOK' /\ OkIsAuthorized'
BY ShowCreds DEF Tell, CredsInv, CredsOK

LEMMA BothCreds ==
  ASSUME CredsInv, TellBoth
  PROVE  CredsOK' /\ OkIsAuthorized'
<1>1. CredsOK'
  BY DEF TellBoth, Await, CredsInv, CredsOK
<1>2. reg' # "Ok"
  BY DEF TellBoth, RegAfter
<1>3. QED
  BY <1>1, <1>2 DEF OkIsAuthorized

\* A step that leaves pending alone and does not make the registration Ok.
LEMMA QuietCreds ==
  ASSUME CredsInv, asked' \in BOOLEAN, UNCHANGED pending, reg' = reg \/ reg' # "Ok"
  PROVE  CredsOK' /\ OkIsAuthorized'
BY DEF CredsInv, CredsOK, OkIsAuthorized

LEMMA ResponseCreds ==
  ASSUME CredsInv, NEW c \in Codes, ReceiveResponse(c)
  PROVE  CredsOK' /\ OkIsAuthorized'
<1>1. asked \in BOOLEAN /\ c \in Nat
  BY RegistrationAssumption DEF RegistrationAssumption, CredsInv, CredsOK
<1>2. CASE UNCHANGED <<reg, credVars>>
  BY <1>1, <1>2, QuietCreds DEF credVars
<1>3. CASE Tell(c)
  BY <1>1, <1>3, TellCreds
<1>4. CASE LookedUp /\ UNCHANGED reg
  BY <1>1, <1>4, QuietCreds DEF LookedUp
<1>5. CASE Show(c) /\ (AwaitLookedUp(c) \/ AwaitMissing(c))
  BY <1>1, <1>5, ShowCreds DEF AwaitLookedUp, AwaitMissing
<1>6. CASE Again(c, Sent) \/ Again(c, SentElsewhere)
  BY <1>4, <1>5, <1>6 DEF Again
<1>7. CASE ReceiveProvisional(c)
  BY <1>2, <1>3, <1>7 DEF ReceiveProvisional, vars, proxyVars, listenerVars
<1>8. CASE ReceiveSuccess(c)
  BY <1>2, <1>3, <1>8 DEF ReceiveSuccess
<1>9. CASE ReceiveRedirection(c) \/ ReceiveChallenge(c)
  BY <1>3, <1>6, <1>9 DEF ReceiveRedirection, ReceiveChallenge
<1>10. CASE ReceiveRecoverable(c) \/ ReceiveTooBrief(c) \/ ReceiveOther(c)
  BY <1>2, <1>3, <1>10 DEF ReceiveRecoverable, ReceiveTooBrief, ReceiveOther
<1>11. QED
  BY <1>7, <1>8, <1>9, <1>10 DEF ReceiveResponse, ReceiveFinal

LEMMA AwaitedKept ==
  ASSUME CredsInv, [Next]_vars
  PROVE  CredsOK' /\ OkIsAuthorized'
<1>1. asked \in BOOLEAN
  BY DEF CredsInv, CredsOK
<1>2. CASE UNCHANGED credVars /\ (reg' = reg \/ reg' # "Ok")
  BY <1>1, <1>2, QuietCreds DEF credVars
<1>3. CASE Tell(408) \/ Tell(503)
  BY <1>3, TellCreds
<1>4. CASE UNCHANGED listenerVars
  BY <1>2, <1>4 DEF listenerVars
<1>5. CASE User
  <2>1. CASE Register
    BY <2>1 DEF Register, CredsOK, OkIsAuthorized
  <2>2. CASE ~Register
    BY <1>2, <1>5, <2>2 DEF User, RefreshRegister, Unregister, PauseRegister, Authenticate,
       proxyVars, listenerVars
  <2>3. QED
    BY <2>1, <2>2
<1>6. CASE \E c \in Codes : ReceiveResponse(c)
  BY <1>6, ResponseCreds
<1>7. CASE Timers
  BY <1>2, <1>3, <1>4, <1>7 DEF Timers, RefreshTimer, TimerF, TimerK, proxyVars
<1>8. CASE ChannelGone
  BY <1>3, <1>4, <1>8, BothCreds DEF ChannelGone, TellIoError
<1>9. CASE Channel
  BY <1>3, <1>4, <1>8, <1>9 DEF Channel, Connected, ConnectFails, ChannelFails, Disconnected,
     NoticeDue, OtherChannelGone, TellIoError, proxyVars
<1>10. CASE UNCHANGED vars
  BY <1>4, <1>10 DEF vars, proxyVars
<1>11. QED
  BY <1>5, <1>6, <1>7, <1>9, <1>10 DEF Next

LEMMA DeadKept ==
  ASSUME IInv, CredsInv, [Next]_vars
  PROVE  DeadIsAuthorized'
<1>1. target = 0 => ~enabled /\ timer = "none"
  BY DEF IInv, ZeroMeansDisabled
<1>2. target = 0 /\ rstate = "started" =>
        ~pending /\ trans = "TERMINATED" /\ chan = "none" /\ notices = 0
  BY DEF IInv, ZeroMeansDisabled, CredsInv, DeadIsAuthorized
<1>3. CASE UNCHANGED <<target, rstate, pending>>
  BY <1>2, <1>3 DEF DeadIsAuthorized
<1>4. CASE User
  BY <1>1, <1>2, <1>4 DEF User, Register, RefreshRegister, Unregister, PauseRegister,
     Authenticate, Refresh, DeadIsAuthorized, credVars, refresherVars, CredsInv, OkIsAuthorized
<1>5. ASSUME NEW c \in Codes, ReceiveResponse(c)
      PROVE  DeadIsAuthorized'
  <2>1. target = 0 => rstate # "started"
    BY <1>2, <1>5 DEF ReceiveResponse
  <2>2. target' = target \/ target' = 1
    BY <1>5 DEF ReceiveResponse, ReceiveProvisional, ReceiveFinal, ReceiveSuccess,
       ReceiveRedirection, ReceiveChallenge, ReceiveRecoverable, ReceiveTooBrief, ReceiveOther,
       Refresh, vars, refresherVars
  <2>3. rstate' = rstate \/ rstate' = "stopped"
    BY <1>5 DEF ReceiveResponse, ReceiveProvisional, ReceiveFinal, ReceiveSuccess,
       ReceiveRedirection, ReceiveChallenge, ReceiveRecoverable, ReceiveTooBrief, ReceiveOther,
       Again, vars, refresherVars
  <2>4. QED
    BY <2>1, <2>2, <2>3 DEF DeadIsAuthorized
<1>6. CASE Timers
  BY <1>1, <1>2, <1>6 DEF Timers, RefreshTimer, TimerF, TimerK, proxyVars, listenerVars,
     credVars, refresherVars, DeadIsAuthorized
<1>7. CASE Channel
  <2>1. UNCHANGED <<target, rstate>>
    BY <1>7 DEF Channel, Connected, ConnectFails, ChannelFails, Disconnected, NoticeDue,
       OtherChannelGone, ChannelGone, refresherVars
  <2>2. ~(chan = "none" /\ notices = 0)
    BY <1>7 DEF Channel, Connected, ConnectFails, ChannelFails, Disconnected, NoticeDue,
       OtherChannelGone
  <2>3. QED
    BY <1>2, <2>1, <2>2 DEF DeadIsAuthorized
<1>8. CASE UNCHANGED vars
  BY <1>3, <1>8 DEF vars, proxyVars, listenerVars, credVars, refresherVars
<1>9. QED
  BY <1>4, <1>5, <1>6, <1>7, <1>8 DEF Next

\* The inductive invariant of the registration, all parts together.
THEOREM Inductive == Spec => [](IInv /\ CredsInv)
<1>1. Init => CredsInv
  BY DEF Init, CredsInv, CredsOK, OkIsAuthorized, DeadIsAuthorized
<1>2. IInv /\ CredsInv /\ [Next]_vars => CredsInv'
  BY AwaitedKept, DeadKept DEF CredsInv
<1>3. QED
  BY <1>1, <1>2, InitHolds, StepKeeps, PTL DEF Spec

\* Types, for every server, transport and number of addresses.
THEOREM TypeCorrect == Spec => []TypeOK
<1>1. IInv /\ CredsInv => TypeOK
  BY DEF IInv, StatesOK, FlagsOK, CountsOK, CredsInv, CredsOK, TypeOK
<1>2. QED
  BY <1>1, Inductive, PTL

\* A started refresher never stands still: process_response_event,
\* process_timeout and process_io_error leave it a timer, a transaction or an
\* answer it was not meant to retry.
THEOREM NeverAbandoned == Spec => []NotAbandoned
<1>1. IInv => NotAbandoned
  BY DEF IInv
<1>2. QED
  BY <1>1, Inductive, PTL

\* What the user is shown as made or in progress is being kept or made by the
\* refresher, unless it ended in one of the ways the code does not show: paused,
\* unsendable, undecided, or an unregistration cut off.
THEOREM AlwaysShownTruly == Spec => []ShownIsTrue
<1>1. IInv => ShownIsTrue
  BY DEF IInv
<1>2. QED
  BY <1>1, Inductive, PTL

\* No retry timer runs beside a transaction.
THEOREM AlwaysOneAttempt == Spec => []OneAttempt
<1>1. IInv => OneAttempt
  BY DEF IInv
<1>2. QED
  BY <1>1, Inductive, PTL

\* A request that waits for its channel will be told by it.
THEOREM AlwaysServed == Spec => []WaitingIsServed
<1>1. IInv => WaitingIsServed
  BY DEF IInv
<1>2. QED
  BY <1>1, Inductive, PTL

\* Nothing but a new op revives an unregistered refresher: its target is 0
\* only when the registration is disabled, and then a refresher that is still
\* started has nothing that could wake it.
THEOREM UnregisteredForGood == Spec => UnregisterIsFinal
<1>1. ASSUME IInv, Next, target = 0, target' > 0
      PROVE  Register
  <2>1. ~enabled /\ (rstate = "started" => trans = "TERMINATED")
    BY <1>1 DEF IInv, ZeroMeansDisabled
  <2>2. CASE User
    BY <1>1, <2>1, <2>2 DEF User, RefreshRegister, Unregister, PauseRegister,
       Authenticate, Refresh, refresherVars
  <2>3. ASSUME NEW c \in Codes, ReceiveResponse(c)
        PROVE  FALSE
    <3>1. rstate # "started"
      BY <2>1, <2>3 DEF ReceiveResponse
    <3>2. target' = target
      BY <2>3, <3>1 DEF ReceiveResponse, ReceiveProvisional, ReceiveFinal,
         ReceiveSuccess, ReceiveRedirection, ReceiveChallenge, Complete,
         ReceiveRecoverable, ReceiveTooBrief, ReceiveOther, vars,
         refresherVars
    <3>3. QED
      BY <1>1, <3>2
  <2>4. CASE Timers
    BY <1>1, <2>4 DEF Timers, RefreshTimer, TimerF, TimerK, refresherVars
  <2>5. CASE Channel
    BY <1>1, <2>5 DEF Channel, Connected, ConnectFails, ChannelFails,
       Disconnected, NoticeDue, OtherChannelGone, ChannelGone, refresherVars
  <2>6. QED
    BY <1>1, <2>2, <2>3, <2>4, <2>5 DEF Next
<1>2. IInv /\ [Next]_vars => [target = 0 /\ target' > 0 => Register]_vars
  BY <1>1
<1>3. QED
  BY <1>2, Inductive, PTL DEF Spec, UnregisterIsFinal
------------------------------------------------------------------------------
(* Liveness. The provers know nothing of ENABLED: fairness is stated with    *)
(* the action's own guard, and follows from FairSpec wherever the guard      *)
(* enables the action.                                                       *)

\* A refresher's timer that stays armed fires (belle_sip_main_loop).
TimerFires == []<>(timer = "none") \/ []<><<RefreshTimer>>_vars

\* What FairSpec's own fairness needs to say the same.
GuardEnables == timer # "none" => ENABLED <<RefreshTimer>>_vars

\* The fairness the runs assume is the one the theorem below assumes.
THEOREM FairTimerFires == FairSpec /\ []GuardEnables => TimerFires
<1>1. GuardEnables /\ ~ENABLED <<RefreshTimer>>_vars => timer = "none"
  BY DEF GuardEnables
<1> QED BY <1>1, PTL DEF FairSpec, Fairness, TimerFires

\* A started refresher that registers and was told of a failure it can
\* recover from.
ToRetry == rstate = "started" /\ target > 0 /\ told \in Recoverable

\* Its timer runs: no path tells of such a failure without arming it, and
\* none disarms it without a new request.
RetryIsArmed == ToRetry => timer # "none"

LEMMA UserRetry ==
  ASSUME IInv, RetryIsArmed, User
  PROVE  RetryIsArmed' /\ (ToRetry => ToRetry' \/ told' \notin Recoverable \/ rstate' # "started")
<1> USE DEF RetryIsArmed, ToRetry, Recoverable, NotTold, NewRequest
<1>1. CASE Register
  BY <1>1 DEF Register, Sent, NotSent
<1>2. CASE RefreshRegister \/ Authenticate
  BY <1>2 DEF RefreshRegister, Authenticate, Sent, NotSent
<1>3. CASE Unregister
  BY <1>3 DEF Unregister, Sent, NotSent, refresherVars
<1>4. CASE PauseRegister
  BY <1>4 DEF PauseRegister
<1> QED BY <1>1, <1>2, <1>3, <1>4 DEF User

LEMMA ResponseRetry ==
  ASSUME IInv, RetryIsArmed, NEW c \in Codes, ReceiveResponse(c)
  PROVE  RetryIsArmed' /\ (ToRetry => ToRetry' \/ told' \notin Recoverable \/ rstate' # "started")
<1> USE DEF RetryIsArmed, ToRetry, NewRequest, Tell, Show
<1>1. c \in Nat /\ target \in {0, 1}
  BY RegistrationAssumption DEF RegistrationAssumption, IInv, CountsOK
<1>2. CASE ReceiveProvisional(c)
  BY <1>1, <1>2 DEF ReceiveProvisional, Recoverable, vars, proxyVars, listenerVars, credVars, refresherVars
<1>3. CASE ReceiveSuccess(c)
  BY <1>1, <1>3 DEF ReceiveSuccess, Sent, NotSent, Recoverable, NotTold
<1>4. CASE ReceiveRedirection(c)
  BY <1>1, <1>4 DEF ReceiveRedirection, Again, SentElsewhere, Recoverable, NotTold
<1>5. CASE ReceiveChallenge(c)
  BY <1>1, <1>5 DEF ReceiveChallenge, Challenge, Again, Sent, Recoverable, NotTold
<1>6. CASE ReceiveRecoverable(c)
  BY <1>1, <1>6 DEF ReceiveRecoverable
<1>7. CASE ReceiveTooBrief(c)
  BY <1>1, <1>7 DEF ReceiveTooBrief, Sent, NotSent, Recoverable, NotTold
<1>8. CASE ReceiveOther(c)
  BY <1>1, <1>8 DEF ReceiveOther
<1> QED BY <1>2, <1>3, <1>4, <1>5, <1>6, <1>7, <1>8 DEF ReceiveResponse, ReceiveFinal

LEMMA TimerRetry ==
  ASSUME IInv, RetryIsArmed, Timers
  PROVE  RetryIsArmed' /\ (ToRetry => ToRetry' \/ told' \notin Recoverable \/ rstate' # "started")
<1> USE DEF RetryIsArmed, ToRetry, NewRequest, Tell, Show
<1>1. CASE RefreshTimer
  BY <1>1 DEF RefreshTimer, Sent, NotSent, Recoverable, NotTold
<1>2. CASE TimerF
  BY <1>2 DEF TimerF, RetryAfterTimeout, listenerVars, credVars
<1>3. CASE TimerK
  BY <1>3 DEF TimerK, proxyVars, listenerVars, credVars, refresherVars
<1> QED BY <1>1, <1>2, <1>3 DEF Timers

LEMMA ChannelRetry ==
  ASSUME IInv, RetryIsArmed, Channel
  PROVE  RetryIsArmed' /\ (ToRetry => ToRetry' \/ told' \notin Recoverable \/ rstate' # "started")
<1> USE DEF RetryIsArmed, ToRetry, Tell, Show, TellBoth, TellIoError, proxyVars, listenerVars, credVars, refresherVars
<1>1. CASE Connected \/ ConnectFails \/ ChannelFails
  BY <1>1 DEF Connected, ConnectFails, ChannelFails
<1>2. CASE Disconnected
  BY <1>2 DEF Disconnected, ChannelGone
<1>3. CASE NoticeDue
  BY <1>3 DEF NoticeDue, ChannelGone, RetryAfterTimeout
<1>4. CASE OtherChannelGone
  BY <1>4 DEF OtherChannelGone
<1> QED BY <1>1, <1>2, <1>3, <1>4 DEF Channel

LEMMA RetryStep ==
  IInv /\ RetryIsArmed /\ [Next]_vars =>
    RetryIsArmed' /\ (ToRetry => ToRetry' \/ ~(told \in Recoverable)' \/ ~(rstate = "started")')
<1> SUFFICES ASSUME IInv, RetryIsArmed, [Next]_vars
    PROVE RetryIsArmed' /\ (ToRetry => ToRetry' \/ told' \notin Recoverable \/ rstate' # "started")
  OBVIOUS
<1>1. CASE UNCHANGED vars
  BY <1>1 DEF RetryIsArmed, ToRetry, vars, proxyVars, listenerVars, credVars, refresherVars
<1> QED BY <1>1, UserRetry, ResponseRetry, TimerRetry, ChannelRetry DEF Next

\* A failure that can be recovered from has its retry armed, always.
THEOREM RetryAlwaysArmed == Spec => []RetryIsArmed
<1>1. Init => RetryIsArmed
  BY DEF Init, RetryIsArmed, ToRetry
<1> QED BY <1>1, RetryStep, Inductive, PTL DEF Spec

\* A failure that can be recovered from is tried again: the retry stays armed
\* until it fires, and firing starts a request (timer_cb).
THEOREM AlwaysRetried == Spec /\ TimerFires => Retried
<1>1. <<RefreshTimer>>_vars => ~(told \in Recoverable)'
  BY DEF RefreshTimer, Sent, NotSent, NewRequest, NotTold, Recoverable
<1>2. RetryIsArmed /\ ToRetry => ~(timer = "none")
  BY DEF RetryIsArmed
<1>3. Spec /\ TimerFires => (ToRetry ~> (~(told \in Recoverable) \/ ~(rstate = "started")))
  BY <1>1, <1>2, RetryStep, Inductive, RetryAlwaysArmed, PTL DEF Spec, TimerFires
<1>4. ToRetry <=> rstate = "started" /\ target > 0 /\ told \in Recoverable
  BY DEF ToRetry
<1>5. ~(told \in Recoverable) \/ ~(rstate = "started") <=> told \notin Recoverable \/ rstate # "started"
  OBVIOUS
<1> QED BY <1>3, <1>4, <1>5, PTL DEF Retried
==============================================================================
