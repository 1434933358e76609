---------------------------- MODULE AssetCommand ----------------------------
(***************************************************************************)
(* Command dispatch of an appliance manager                                *)
(* (qhome BaseAssetManager.SendCommand and ProgressCmdResultCallback).     *)
(*                                                                         *)
(* Every command runs in a thread of its own, registers itself in the      *)
(* HashMap mCmdResult, arms a MESSAGE_COMMAND_TIMEOUT on the command       *)
(* handler, performs a blocking call to the appliance and then reports the *)
(* result to the listeners.  The handler thread reports the time-out.      *)
(* Both take the entry out of mCmdResult before they report, without any   *)
(* lock.                                                                   *)
(*                                                                         *)
(* mCmdResult is a plain HashMap shared by all these threads.  What an     *)
(* unsynchronised access may lose is a nondeterministic choice here: an    *)
(* insertion or a removal that overlaps another one may have no effect,    *)
(* and a lookup may miss an entry while an insertion is resizing the       *)
(* table.                                                                  *)
(***************************************************************************)
EXTENDS Integers

CONSTANTS Cmd,      \* commands; a command is also the id of the thread that runs it
          Errors,   \* the negative ErrorKey codes an appliance may answer
          Looper,   \* the thread of mCommandHandler
          NoCmd     \* the handler thread is working for no command

ASSUME ErrorsAssumption == Errors \subseteq Int /\ \A e \in Errors : e < 0
ASSUME LooperAssumption == Looper \notin Cmd /\ NoCmd \notin Cmd

VARIABLES
  pc,           \* where the thread of each command is
  ret,          \* what BaseAsset_SendCommand returned to each thread
  timer,        \* commands with a MESSAGE_COMMAND_TIMEOUT in the handler's queue
  hpc,          \* where the handler thread is in BaseAsset_CommandTimeOut
  hcmd,         \* the command it is working for
  mCmdResult,   \* the thread ids that are keys of mCmdResult
  raced,        \* threads inside an insertion or a removal that has overlapped another
  raceHit,      \* history: commands for which a raced access to mCmdResult went wrong
  told          \* history: the onCommandResult calls the listeners have received

vars == <<pc, ret, timer, hpc, hcmd, mCmdResult, raced, raceHit, told>>

Success == 0
Results == Errors \cup {Success}

\* obtainMessage(what, obj) leaves arg1 at 0, and arg1 is the code a time-out reports
TimeoutArg1 == 0

-----------------------------------------------------------------------------
(* The HashMap without a lock *)

Mutating == {c \in Cmd : pc[c] \in {"putting", "taking"}}
              \cup (IF hpc = "taking" THEN {Looper} ELSE {})

\* t starts to change the table: whoever is already changing it overlaps with t
EnterMutation(t) ==
  raced' = IF Mutating = {} THEN raced ELSE raced \cup Mutating \cup {t}

LeaveMutation(t) == raced' = raced \ {t}

\* the outcomes of get(c) that differ from what the table holds
MayMiss(c) == c \in mCmdResult /\ \E d \in Cmd : pc[d] = "putting"

\* get(c) # null, or the miss of an entry that is there
Get(c, seen) ==
  \/ /\ seen = (c \in mCmdResult)
     /\ UNCHANGED raceHit
  \/ /\ MayMiss(c) /\ ~seen
     /\ raceHit' = raceHit \cup {c}

\* mutant: the entry stays in the table
RemoveNothing(t, c) == t \in Cmd \cup {Looper} /\ c \in Cmd /\ UNCHANGED <<mCmdResult, raceHit>>

\* remove(c) by thread t
Remove(t, c) ==
  \/ /\ mCmdResult' = mCmdResult \ {c}
     /\ UNCHANGED raceHit
  \/ /\ t \in raced
     /\ raceHit' = raceHit \cup {c}
     /\ UNCHANGED mCmdResult

-----------------------------------------------------------------------------
Init ==
  /\ pc = [c \in Cmd |-> "idle"]
  /\ ret = [c \in Cmd |-> Success]
  /\ timer = {}
  /\ hpc = "loop"
  /\ hcmd = NoCmd
  /\ mCmdResult = {}
  /\ raced = {}
  /\ raceHit = {}
  /\ told = {}

Move(c, from, to) == pc[c] = from /\ pc' = [pc EXCEPT ![c] = to]

\* sendCommandMessage: the UI posts MESSAGE_SET_COMMAND
SendCommandMessage(c) ==
  /\ Move(c, "idle", "posted")
  /\ UNCHANGED <<ret, timer, hpc, hcmd, mCmdResult, raced, raceHit, told>>

\* MESSAGE_SET_COMMAND: SendCommand starts the thread of the command
HandleSetCommand(c) ==
  /\ hpc = "loop"
  /\ Move(c, "posted", "start")
  /\ UNCHANGED <<ret, timer, hpc, hcmd, mCmdResult, raced, raceHit, told>>

\* PMManager.setPMNoticeSetting starts the same thread without the handler
SetPMNoticeSetting(c) ==
  /\ Move(c, "idle", "start")
  /\ UNCHANGED <<ret, timer, hpc, hcmd, mCmdResult, raced, raceHit, told>>

\* mCmdResult.put(thread_id, uuid)
PutBegin(c) ==
  /\ Move(c, "start", "putting")
  /\ EnterMutation(c)
  /\ UNCHANGED <<ret, timer, hpc, hcmd, mCmdResult, raceHit, told>>

PutEnd(c) ==
  /\ Move(c, "putting", "put")
  /\ LeaveMutation(c)
  /\ \/ /\ mCmdResult' = mCmdResult \cup {c}
        /\ UNCHANGED raceHit
     \/ /\ c \in raced
        /\ raceHit' = raceHit \cup {c}
        /\ UNCHANGED mCmdResult
  /\ UNCHANGED <<ret, timer, hpc, hcmd, told>>

\* mutant: no time-out is posted
ArmTimeoutNever(c) ==
  /\ Move(c, "put", "sending")
  /\ UNCHANGED <<ret, timer, hpc, hcmd, mCmdResult, raced, raceHit, told>>

\* sendMessageDelayed(MESSAGE_COMMAND_TIMEOUT)
ArmTimeout(c) ==
  /\ Move(c, "put", "sending")
  /\ timer' = timer \cup {c}
  /\ UNCHANGED <<ret, hpc, hcmd, mCmdResult, raced, raceHit, told>>

\* BaseAsset_SendCommand returns
Reply(c) ==
  /\ Move(c, "sending", "replied")
  /\ \E r \in Results : ret' = [ret EXCEPT ![c] = r]
  /\ UNCHANGED <<timer, hpc, hcmd, mCmdResult, raced, raceHit, told>>

\* mutant: removeMessages is given another object and finds no message
CancelTimeoutMisses(c) ==
  /\ Move(c, "replied", "cancelled")
  /\ UNCHANGED <<ret, timer, hpc, hcmd, mCmdResult, raced, raceHit, told>>

\* mutant: the entry is dropped together with the time-out
CancelTimeoutForgets(c) ==
  /\ Move(c, "replied", "cancelled")
  /\ timer' = timer \ {c}
  /\ mCmdResult' = mCmdResult \ {c}
  /\ UNCHANGED <<ret, hpc, hcmd, raced, raceHit, told>>

\* removeMessages(MESSAGE_COMMAND_TIMEOUT, obj): no effect once the handler has the message
CancelTimeout(c) ==
  /\ Move(c, "replied", "cancelled")
  /\ timer' = timer \ {c}
  /\ UNCHANGED <<ret, hpc, hcmd, mCmdResult, raced, raceHit, told>>

\* ProgressCmdResultCallback in the thread of the command
Lookup(c) ==
  /\ pc[c] = "cancelled"
  /\ \E seen \in BOOLEAN :
       /\ Get(c, seen)
       /\ \/ seen /\ Move(c, "cancelled", "taking") /\ EnterMutation(c)
          \/ ~seen /\ Move(c, "cancelled", "done") /\ UNCHANGED raced
  /\ UNCHANGED <<ret, timer, hpc, hcmd, mCmdResult, told>>

Take(c) ==
  /\ Move(c, "taking", "taken")
  /\ LeaveMutation(c)
  /\ Remove(c, c)
  /\ UNCHANGED <<ret, timer, hpc, hcmd, told>>

Tell(c) ==
  /\ Move(c, "taken", "done")
  /\ told' = told \cup {[cmd |-> c, from |-> "answer", ret |-> ret[c]]}
  /\ UNCHANGED <<ret, timer, hpc, hcmd, mCmdResult, raced, raceHit>>

\* MESSAGE_COMMAND_TIMEOUT is due: the handler takes it out of its queue
TimeoutDue(c) ==
  /\ hpc = "loop"
  /\ c \in timer
  /\ timer' = timer \ {c}
  /\ hpc' = "check"
  /\ hcmd' = c
  /\ UNCHANGED <<pc, ret, mCmdResult, raced, raceHit, told>>

\* mutant: the handler keeps the command of the last time-out
BackToLoopStale == hpc' = "loop" /\ UNCHANGED hcmd

BackToLoop == hpc' = "loop" /\ hcmd' = NoCmd

\* BaseAsset_CommandTimeOut: if(mCmdResult.get(thread_id) != null)
TimeoutCheck ==
  /\ hpc = "check"
  /\ \E seen \in BOOLEAN :
       /\ Get(hcmd, seen)
       /\ \/ seen /\ hpc' = "lookup" /\ UNCHANGED hcmd
          \/ ~seen /\ BackToLoop
  /\ UNCHANGED <<pc, ret, timer, mCmdResult, raced, told>>

\* mutant: the listeners are told before the entry is taken
TimeoutLookupTells ==
  /\ hpc = "lookup"
  /\ \/ /\ hcmd \in mCmdResult /\ hpc' = "taking" /\ EnterMutation(Looper)
        /\ told' = told \cup {[cmd |-> hcmd, from |-> "timeout", ret |-> TimeoutArg1]}
        /\ UNCHANGED hcmd
     \/ hcmd \notin mCmdResult /\ BackToLoop /\ UNCHANGED <<raced, told>>
  /\ UNCHANGED <<pc, ret, timer, mCmdResult, raceHit>>

\* ProgressCmdResultCallback in the handler thread
TimeoutLookup ==
  /\ hpc = "lookup"
  /\ \E seen \in BOOLEAN :
       /\ Get(hcmd, seen)
       /\ \/ seen /\ hpc' = "taking" /\ EnterMutation(Looper) /\ UNCHANGED hcmd
          \/ ~seen /\ BackToLoop /\ UNCHANGED raced
  /\ UNCHANGED <<pc, ret, timer, mCmdResult, told>>

TimeoutTake ==
  /\ hpc = "taking"
  /\ hpc' = "taken"
  /\ LeaveMutation(Looper)
  /\ Remove(Looper, hcmd)
  /\ UNCHANGED <<pc, ret, timer, hcmd, told>>

TimeoutTell ==
  /\ hpc = "taken"
  /\ told' = told \cup {[cmd |-> hcmd, from |-> "timeout", ret |-> TimeoutArg1]}
  /\ BackToLoop
  /\ UNCHANGED <<pc, ret, timer, mCmdResult, raced, raceHit>>

-----------------------------------------------------------------------------
Thread(c) == \/ PutBegin(c) \/ PutEnd(c) \/ ArmTimeout(c) \/ Reply(c)
             \/ CancelTimeout(c) \/ Lookup(c) \/ Take(c) \/ Tell(c)

HandlerThread == \/ \E c \in Cmd : HandleSetCommand(c) \/ TimeoutDue(c)
                 \/ TimeoutCheck \/ TimeoutLookup \/ TimeoutTake \/ TimeoutTell

Next == \/ \E c \in Cmd : SendCommandMessage(c) \/ SetPMNoticeSetting(c) \/ Thread(c)
        \/ HandlerThread

Spec == Init /\ [][Next]_vars

\* Threads are scheduled and the looper serves its queue.  Nothing is assumed of
\* Reply: the appliance may never answer.
ThreadFairness(c) ==
  /\ WF_vars(PutBegin(c)) /\ WF_vars(PutEnd(c)) /\ WF_vars(ArmTimeout(c))
  /\ WF_vars(CancelTimeout(c)) /\ WF_vars(Lookup(c))
  /\ WF_vars(Take(c)) /\ WF_vars(Tell(c))
  /\ SF_vars(HandleSetCommand(c)) /\ SF_vars(TimeoutDue(c))

HandlerFairness == WF_vars(TimeoutCheck \/ TimeoutLookup \/ TimeoutTake \/ TimeoutTell)

Fairness == HandlerFairness /\ \A c \in Cmd : ThreadFairness(c)

FairSpec == Spec /\ Fairness
-----------------------------------------------------------------------------
(* Properties *)

ThreadPc == {"idle", "posted", "start", "putting", "put", "sending", "replied",
             "cancelled", "taking", "taken", "done"}
HandlerPc == {"loop", "check", "lookup", "taking", "taken"}
Report == [cmd : Cmd, from : {"answer", "timeout"}, ret : Results]

\* Every variable holds values of its type; the handler works for a command
\* exactly while it is inside BaseAsset_CommandTimeOut.
TypeOK ==
  /\ pc \in [Cmd -> ThreadPc]
  /\ ret \in [Cmd -> Results]
  /\ timer \subseteq Cmd
  /\ hpc \in HandlerPc
  /\ hcmd \in Cmd \cup {NoCmd}
  /\ (hpc = "loop") <=> (hcmd = NoCmd)
  /\ mCmdResult \subseteq Cmd
  /\ raced \subseteq Cmd \cup {Looper}
  /\ raceHit \subseteq Cmd
  /\ told \subseteq Report

Told(c) == \E r \in told : r.cmd = c
TimeoutTaken(c) == hcmd = c /\ hpc = "taken"

\* A command whose thread has finished has been reported to the listeners (the
\* progress dialog of the UI waits for that), is about to be by the handler, or
\* fell victim to a raced access to mCmdResult.
NoSilentCommand ==
  \A c \in Cmd : pc[c] = "done" => \/ Told(c)
                                   \/ TimeoutTaken(c)
                                   \/ c \in raceHit

\* The entry is taken before the listeners are told: as soon as one side has
\* reported, the other one can no longer find the entry.
ToldMeansTaken ==
  \A c \in Cmd : Told(c) => c \notin mCmdResult \/ c \in raceHit

\* The thread of c, or the handler, finds the entry it will report from
Finds(c) == \/ pc[c] = "cancelled" /\ pc'[c] = "taking"
            \/ hcmd = c /\ hpc = "lookup" /\ hpc' = "taking"

\* Whoever looks a command up after somebody took or reported it finds nothing, be it the
\* late answer or the late time-out.  A second report is left to the case that both sides had found the
\* entry before either of them took it (get and remove are two calls without a lock).
LateLookupFindsNothing ==
  [][\A c \in Cmd : Finds(c) /\ c \notin raceHit
        => ~Told(c) /\ pc[c] # "taken" /\ ~TimeoutTaken(c)]_vars

\* No time-out message outlives the command it belongs to.
NoStrayTimeout ==
  \A c \in Cmd : c \in timer => pc[c] \in {"sending", "replied"}

\* Every command that was sent is eventually reported, whether or not the appliance
\* ever answers, unless a raced access to mCmdResult lost it.
EveryCommandReported ==
  \A c \in Cmd : pc[c] # "idle" ~> (Told(c) \/ c \in raceHit)

(* What the proofs in AssetCommandProofs add to the invariants above *)

\* Until its thread has registered itself nobody else knows a command.
FreshUnknown ==
  \A c \in Cmd : pc[c] \in {"idle", "posted", "start", "putting", "put"}
                   => hcmd # c /\ ~Told(c)

\* A registered command stays registered until somebody takes it.
RegisteredUntilTaken ==
  \A c \in Cmd : pc[c] \in {"put", "sending", "replied", "cancelled"}
                   => \/ c \in mCmdResult \/ c \in raceHit
                      \/ TimeoutTaken(c) \/ Told(c)

\* Whoever is about to report has removed the entry.
TakenIsGone ==
  /\ \A c \in Cmd : pc[c] = "taken" => c \notin mCmdResult \/ c \in raceHit
  /\ hpc = "taken" => hcmd \notin mCmdResult \/ hcmd \in raceHit

IInv == /\ TypeOK /\ NoStrayTimeout /\ FreshUnknown /\ RegisteredUntilTaken
        /\ TakenIsGone /\ NoSilentCommand /\ ToldMeansTaken
=============================================================================
