------------------------- MODULE AssetCommandProofs -------------------------
(***************************************************************************)
(* Machine-checked proofs about AssetCommand, for every set of commands.   *)
(*                                                                         *)
(* IInv is inductive.  The invariants the runs check are some of its       *)
(* conjuncts; the others say who may know a command at all (FreshUnknown), *)
(* that a registered command stays registered until somebody takes it      *)
(* (RegisteredUntilTaken) and that whoever is about to report has already  *)
(* removed the entry (TakenIsGone).                                        *)
(***************************************************************************)
EXTENDS AssetCommand, TLAPS

USE ErrorsAssumption, LooperAssumption

\* The initial state: nobody has registered anything.
LEMMA InitIInv == Init => IInv
  BY DEF Init, IInv, TypeOK, NoStrayTimeout, FreshUnknown, RegisteredUntilTaken,
         TakenIsGone, NoSilentCommand, ToldMeansTaken, Told, TimeoutTaken,
         ThreadPc, HandlerPc, Report, Results, Success

\* A command that is issued, or handed to its thread, is still unknown to all others.
LEMMA IssueIInv ==
  ASSUME IInv, NEW c \in Cmd,
         SendCommandMessage(c) \/ SetPMNoticeSetting(c) \/ HandleSetCommand(c)
  PROVE  IInv'
<1> USE DEF IInv, TypeOK, NoStrayTimeout, FreshUnknown, RegisteredUntilTaken,
            TakenIsGone, NoSilentCommand, ToldMeansTaken, Told, TimeoutTaken,
            ThreadPc, HandlerPc, Move
<1>1. CASE SendCommandMessage(c)
  BY <1>1 DEF SendCommandMessage
<1>2. CASE SetPMNoticeSetting(c)
  BY <1>2 DEF SetPMNoticeSetting
<1>3. CASE HandleSetCommand(c)
  BY <1>3 DEF HandleSetCommand
<1> QED BY <1>1, <1>2, <1>3

\* The steps of the thread of one command.
LEMMA ThreadIInv ==
  ASSUME IInv, NEW c \in Cmd, Thread(c)
  PROVE  IInv'
<1> USE DEF IInv, TypeOK, NoStrayTimeout, FreshUnknown, RegisteredUntilTaken,
            TakenIsGone, NoSilentCommand, ToldMeansTaken, Told, TimeoutTaken,
            ThreadPc, HandlerPc, Move
<1>1. CASE PutBegin(c)
  BY <1>1 DEF PutBegin, EnterMutation, Mutating
<1>2. CASE PutEnd(c)
  BY <1>2 DEF PutEnd, LeaveMutation
<1>3. CASE ArmTimeout(c)
  BY <1>3 DEF ArmTimeout
<1>4. CASE Reply(c)
  BY <1>4 DEF Reply
<1>5. CASE CancelTimeout(c)
  BY <1>5 DEF CancelTimeout
<1>6. CASE Lookup(c)
  BY <1>6 DEF Lookup, Get, MayMiss, EnterMutation, Mutating
<1>7. CASE Take(c)
  BY <1>7 DEF Take, Remove, LeaveMutation
<1>8. CASE Tell(c)
  <2> DEFINE r == [cmd |-> c, from |-> "answer", ret |-> ret[c]]
  <2>1. r \in Report /\ r.cmd = c
    BY DEF Report
  <2>2. told' = told \cup {r} /\ TypeOK'
    BY <1>8, <2>1 DEF Tell
  <2>3. \A d \in Cmd : Told(d)' <=> Told(d) \/ d = c
    BY <2>1, <2>2
  <2> QED BY <1>8, <2>1, <2>2, <2>3 DEF Tell
<1> QED BY <1>1, <1>2, <1>3, <1>4, <1>5, <1>6, <1>7, <1>8 DEF Thread

\* The steps of the handler thread.
LEMMA HandlerIInv ==
  ASSUME IInv, HandlerThread
  PROVE  IInv'
<1> USE DEF IInv, TypeOK, NoStrayTimeout, FreshUnknown, RegisteredUntilTaken,
            TakenIsGone, NoSilentCommand, ToldMeansTaken, Told, TimeoutTaken,
            ThreadPc, HandlerPc, BackToLoop
<1>1. ASSUME NEW c \in Cmd, HandleSetCommand(c)
      PROVE  IInv'
  BY <1>1, IssueIInv
<1>2. ASSUME NEW c \in Cmd, TimeoutDue(c)
      PROVE  IInv'
  BY <1>2 DEF TimeoutDue
<1>3. CASE TimeoutCheck
  BY <1>3 DEF TimeoutCheck, Get, MayMiss
<1>4. CASE TimeoutLookup
  BY <1>4 DEF TimeoutLookup, Get, MayMiss, EnterMutation, Mutating
<1>5. CASE TimeoutTake
  BY <1>5 DEF TimeoutTake, Remove, LeaveMutation
<1>6. CASE TimeoutTell
  <2> DEFINE r == [cmd |-> hcmd, from |-> "timeout", ret |-> TimeoutArg1]
  <2>1. r \in Report /\ r.cmd = hcmd /\ hcmd \in Cmd
    BY <1>6 DEF TimeoutTell, Report, TimeoutArg1, Results, Success
  <2>2. told' = told \cup {r} /\ TypeOK'
    BY <1>6, <2>1 DEF TimeoutTell
  <2>3. \A d \in Cmd : Told(d)' <=> Told(d) \/ d = hcmd
    BY <2>1, <2>2
  <2> QED BY <1>6, <2>1, <2>2, <2>3 DEF TimeoutTell
<1> QED BY <1>1, <1>2, <1>3, <1>4, <1>5, <1>6 DEF HandlerThread

\* Every step preserves the inductive invariant.
LEMMA NextIInv == IInv /\ [Next]_vars => IInv'
<1> SUFFICES ASSUME IInv, [Next]_vars
             PROVE  IInv'
  OBVIOUS
<1>1. ASSUME NEW c \in Cmd, SendCommandMessage(c) \/ SetPMNoticeSetting(c)
      PROVE  IInv'
  BY <1>1, IssueIInv
<1>2. ASSUME NEW c \in Cmd, Thread(c)
      PROVE  IInv'
  BY <1>2, ThreadIInv
<1>3. CASE HandlerThread
  BY <1>3, HandlerIInv
<1>4. CASE UNCHANGED vars
  BY <1>4 DEF vars, IInv, TypeOK, NoStrayTimeout, FreshUnknown, RegisteredUntilTaken,
              TakenIsGone, NoSilentCommand, ToldMeansTaken, Told, TimeoutTaken
<1> QED BY <1>1, <1>2, <1>3, <1>4 DEF Next

\* The inductive invariant holds in every reachable state.
THEOREM InductiveInvariant == Spec => []IInv
  BY InitIInv, NextIInv, PTL DEF Spec

\* Type correctness, and that the handler works for a command exactly while it is
\* inside BaseAsset_CommandTimeOut.
THEOREM TypeCorrect == Spec => []TypeOK
  BY InductiveInvariant, PTL DEF IInv

\* No command ends without its listeners being told, or about to be, except through a
\* raced access to mCmdResult.
THEOREM NoCommandIsSilent == Spec => []NoSilentCommand
  BY InductiveInvariant, PTL DEF IInv

\* Reporting comes after taking the entry, in both threads.
THEOREM TakenBeforeTold == Spec => []ToldMeansTaken
  BY InductiveInvariant, PTL DEF IInv

\* No time-out message outlives its command.
THEOREM TimeoutsAreCancelled == Spec => []NoStrayTimeout
  BY InductiveInvariant, PTL DEF IInv

\* A command that was taken or reported is not found any more, by its thread or by the
\* handler, unless a race on the map is to blame: only two look-ups that both come before
\* the first removal can report it twice.
THEOREM LateLookupsFindNothing == Spec => LateLookupFindsNothing
<1>1. ASSUME IInv, [Next]_vars, NEW c \in Cmd, Finds(c), c \notin raceHit
      PROVE  ~Told(c) /\ pc[c] # "taken" /\ ~TimeoutTaken(c)
  <2> USE DEF IInv, TypeOK
  <2>1. CASE pc[c] = "cancelled" /\ pc'[c] = "taking"
    <3>1. PICK d \in Cmd : Thread(d) /\ pc'[d] # pc[d] /\ d = c
      BY <1>1, <2>1 DEF Next, vars, SendCommandMessage, SetPMNoticeSetting, HandlerThread,
                  HandleSetCommand, TimeoutDue, TimeoutCheck, TimeoutLookup, TimeoutTake,
                  TimeoutTell, Thread, PutBegin, PutEnd, ArmTimeout, Reply, CancelTimeout,
                  Lookup, Take, Tell, Move
    <3>2. Lookup(c)
      BY <2>1, <3>1 DEF Thread, PutBegin, PutEnd, ArmTimeout, Reply, CancelTimeout,
                        Take, Tell, Move
    <3>3. c \in mCmdResult
      <4>1. PICK seen \in BOOLEAN :
              Get(c, seen) /\ (seen \/ pc' = [pc EXCEPT ![c] = "done"])
        BY <3>2 DEF Lookup, Move
      <4>2. seen
        BY <1>1, <2>1, <4>1
      <4> QED BY <4>1, <4>2 DEF Get
    <3> QED BY <1>1, <2>1, <3>3 DEF ToldMeansTaken, TakenIsGone, TimeoutTaken
  <2>2. CASE hcmd = c /\ hpc = "lookup" /\ hpc' = "taking"
    <3>1. TimeoutLookup
      BY <1>1, <2>2 DEF Next, vars, SendCommandMessage, SetPMNoticeSetting, HandlerThread,
                  HandleSetCommand, TimeoutDue, TimeoutCheck, TimeoutLookup, TimeoutTake,
                  TimeoutTell, Thread, PutBegin, PutEnd, ArmTimeout, Reply, CancelTimeout,
                  Lookup, Take, Tell
    <3>2. c \in mCmdResult
      BY <2>2, <3>1 DEF TimeoutLookup, Get, BackToLoop
    <3> QED BY <1>1, <2>2, <3>2 DEF ToldMeansTaken, TakenIsGone, TimeoutTaken
  <2> QED BY <1>1, <2>1, <2>2 DEF Finds
<1>2. IInv /\ [Next]_vars
        => [\A c \in Cmd : Finds(c) /\ c \notin raceHit
              => ~Told(c) /\ pc[c] # "taken" /\ ~TimeoutTaken(c)]_vars
  BY <1>1
<1> QED BY <1>2, InductiveInvariant, PTL DEF Spec, LateLookupFindsNothing
-----------------------------------------------------------------------------
(* Liveness. The provers know nothing of ENABLED: fairness is stated with   *)
(* the guards of the actions, and follows from FairSpec wherever a guard    *)
(* enables its action.                                                      *)

HandlerReports == TimeoutCheck \/ TimeoutLookup \/ TimeoutTake \/ TimeoutTell

\* The thread of a command is scheduled and the looper serves its messages.
CommandRuns(c) ==
  /\ []<>~(pc[c] = "start") \/ []<><<PutBegin(c)>>_vars
  /\ []<>~(pc[c] = "putting") \/ []<><<PutEnd(c)>>_vars
  /\ []<>~(pc[c] = "put") \/ []<><<ArmTimeout(c)>>_vars
  /\ []<>~(pc[c] = "replied") \/ []<><<CancelTimeout(c)>>_vars
  /\ []<>~(pc[c] = "cancelled") \/ []<><<Lookup(c)>>_vars
  /\ []<>~(pc[c] = "taking") \/ []<><<Take(c)>>_vars
  /\ []<>~(pc[c] = "taken") \/ []<><<Tell(c)>>_vars
  /\ <>[]~(hpc = "loop" /\ pc[c] = "posted") \/ []<><<HandleSetCommand(c)>>_vars
  /\ <>[]~(hpc = "loop" /\ c \in timer) \/ []<><<TimeoutDue(c)>>_vars

\* A time-out callback that has begun goes on.
HandlerRuns == []<>(hpc = "loop") \/ []<><<HandlerReports>>_vars

AllRun == HandlerRuns /\ \A c \in Cmd : CommandRuns(c)

\* What FairSpec's own fairness needs to say the same.
GuardEnables(c) ==
  /\ pc[c] = "start" => ENABLED <<PutBegin(c)>>_vars
  /\ pc[c] = "putting" => ENABLED <<PutEnd(c)>>_vars
  /\ pc[c] = "put" => ENABLED <<ArmTimeout(c)>>_vars
  /\ pc[c] = "replied" => ENABLED <<CancelTimeout(c)>>_vars
  /\ pc[c] = "cancelled" => ENABLED <<Lookup(c)>>_vars
  /\ pc[c] = "taking" => ENABLED <<Take(c)>>_vars
  /\ pc[c] = "taken" => ENABLED <<Tell(c)>>_vars
  /\ hpc = "loop" /\ pc[c] = "posted" => ENABLED <<HandleSetCommand(c)>>_vars
  /\ hpc = "loop" /\ c \in timer => ENABLED <<TimeoutDue(c)>>_vars

GuardsEnable ==
  /\ hpc # "loop" =>
       ENABLED <<TimeoutCheck \/ TimeoutLookup \/ TimeoutTake \/ TimeoutTell>>_vars
  /\ \A c \in Cmd : GuardEnables(c)

\* The fairness the run assumes is the one the theorem below assumes.
THEOREM FairAllRun == FairSpec /\ []GuardsEnable => AllRun
<1>1. ASSUME NEW c \in Cmd
      PROVE  FairSpec /\ []GuardsEnable => CommandRuns(c)
  <2>1. Fairness => ThreadFairness(c)
    BY DEF Fairness
  <2>2. GuardsEnable => GuardEnables(c)
    BY DEF GuardsEnable
  <2>3. ThreadFairness(c) /\ []GuardEnables(c) => CommandRuns(c)
    BY PTL DEF ThreadFairness, GuardEnables, CommandRuns
  <2> QED BY <2>1, <2>2, <2>3, PTL DEF FairSpec
<1>2. FairSpec /\ []GuardsEnable => HandlerRuns
  <2>1. GuardsEnable =>
          (~(hpc = "loop") =>
             ENABLED <<TimeoutCheck \/ TimeoutLookup \/ TimeoutTake \/ TimeoutTell>>_vars)
    BY DEF GuardsEnable
  <2> QED BY <2>1, PTL DEF FairSpec, Fairness, HandlerFairness, HandlerRuns, HandlerReports
<1>3. FairSpec /\ []GuardsEnable => \A c \in Cmd : CommandRuns(c)
  BY <1>1
<1> QED BY <1>2, <1>3 DEF AllRun

\* What a step does to the place of one command: it stays or goes one step on.
Onward(c) ==
  /\ pc[c] = "posted" => pc'[c] \in {"posted", "start"}
  /\ pc[c] = "start" => pc'[c] \in {"start", "putting"}
  /\ pc[c] = "putting" => pc'[c] \in {"putting", "put"}
  /\ pc[c] = "put" => pc'[c] \in {"put", "sending"}
  /\ pc[c] = "sending" => pc'[c] \in {"sending", "replied"}
  /\ pc[c] = "replied" => pc'[c] \in {"replied", "cancelled"}
  /\ pc[c] = "cancelled" => pc'[c] \in {"cancelled", "taking", "done"}
  /\ pc[c] = "taking" => pc'[c] \in {"taking", "taken"}
  /\ pc[c] = "taken" => pc'[c] \in {"taken", "done"}
  /\ pc[c] = "done" => pc'[c] = "done"

LEMMA OnwardStep ==
  ASSUME IInv, [Next]_vars, NEW c \in Cmd
  PROVE  Onward(c)
<1> USE DEF IInv, TypeOK
<1>1. ASSUME pc'[c] # pc[c]
      PROVE  \/ SendCommandMessage(c) \/ SetPMNoticeSetting(c)
             \/ Thread(c) \/ HandleSetCommand(c)
  BY <1>1 DEF Next, vars, SendCommandMessage, SetPMNoticeSetting, HandlerThread,
              HandleSetCommand, TimeoutDue, TimeoutCheck, TimeoutLookup, TimeoutTake,
              TimeoutTell, Thread, PutBegin, PutEnd, ArmTimeout, Reply, CancelTimeout,
              Lookup, Take, Tell, Move
<1>2. CASE pc'[c] = pc[c]
  BY <1>2 DEF Onward
<1>3. CASE SendCommandMessage(c) \/ SetPMNoticeSetting(c) \/ HandleSetCommand(c)
  BY <1>3 DEF Onward, SendCommandMessage, SetPMNoticeSetting, HandleSetCommand, Move
<1>4. CASE Thread(c)
  BY <1>4 DEF Onward, Thread, PutBegin, PutEnd, ArmTimeout, Reply, CancelTimeout,
              Lookup, Take, Tell, Move
<1> QED BY <1>1, <1>2, <1>3, <1>4

\* The listeners know of the command, or a raced access has lost it.
Settled(c) == Told(c) \/ c \in raceHit

\* While the appliance is asked the time-out runs, or is being dealt with.
SendingIsWatched ==
  \A c \in Cmd : pc[c] = "sending" => c \in timer \/ hcmd = c \/ Settled(c)

\* The time-out of a command that is being sent: it stays in the queue until
\* the handler has it, and the handler reports it.
Watched(c) ==
  /\ Settled(c) => Settled(c)'
  /\ pc[c] = "sending" /\ pc'[c] = "sending" /\ c \in timer =>
       (c \in timer)' \/ (hcmd = c)' \/ Settled(c)'
  /\ pc[c] = "sending" /\ hcmd = c => (hcmd = c)' \/ Settled(c)'
  /\ TimeoutTaken(c) => TimeoutTaken(c)' \/ Settled(c)'
  /\ pc'[c] = "sending" => pc[c] = "sending" \/ (c \in timer)'

LEMMA WatchedStep ==
  ASSUME IInv, [Next]_vars, NEW c \in Cmd
  PROVE  Watched(c)
<1> USE DEF IInv, TypeOK, Watched, Settled, Told, TimeoutTaken, BackToLoop
<1>1. ASSUME NEW d \in Cmd, SendCommandMessage(d) \/ SetPMNoticeSetting(d) \/ HandleSetCommand(d)
      PROVE  Watched(c)
  BY <1>1 DEF SendCommandMessage, SetPMNoticeSetting, HandleSetCommand, Move
<1>2. ASSUME NEW d \in Cmd, Thread(d)
      PROVE  Watched(c)
  <2>1. CASE PutBegin(d) \/ PutEnd(d) \/ Lookup(d) \/ Take(d)
    BY <2>1 DEF PutBegin, PutEnd, Lookup, Take, Move, Get, Remove
  <2>2. CASE ArmTimeout(d) \/ Reply(d) \/ CancelTimeout(d)
    BY <2>2 DEF ArmTimeout, Reply, CancelTimeout, Move
  <2>3. CASE Tell(d)
    BY <2>3 DEF Tell, Move
  <2> QED BY <1>2, <2>1, <2>2, <2>3 DEF Thread
<1>3. ASSUME NEW d \in Cmd, TimeoutDue(d)
      PROVE  Watched(c)
  BY <1>3 DEF TimeoutDue
<1>4. CASE TimeoutCheck
  BY <1>4 DEF TimeoutCheck, Get, MayMiss, RegisteredUntilTaken
<1>5. CASE TimeoutLookup
  BY <1>5 DEF TimeoutLookup, Get, MayMiss, RegisteredUntilTaken
<1>6. CASE TimeoutTake
  BY <1>6 DEF TimeoutTake, Remove
<1>7. CASE TimeoutTell
  <2>1. [cmd |-> hcmd, from |-> "timeout", ret |-> TimeoutArg1] \in told'
    BY <1>7 DEF TimeoutTell
  <2>2. hcmd = c => Told(c)'
    BY <2>1
  <2>3. Told(c) => Told(c)'
    BY <1>7 DEF TimeoutTell
  <2>4. /\ UNCHANGED <<pc, timer, raceHit>>
        /\ hcmd \in Cmd
    BY <1>7 DEF TimeoutTell
  <2> QED BY <2>2, <2>3, <2>4
<1>8. CASE UNCHANGED vars
  BY <1>8 DEF vars
<1> QED BY <1>1, <1>2, <1>3, <1>4, <1>5, <1>6, <1>7, <1>8 DEF Next, HandlerThread

\* A command that is being sent is watched, always.
THEOREM SendingAlwaysWatched == Spec => []SendingIsWatched
<1>1. Init => SendingIsWatched
  BY DEF Init, SendingIsWatched
<1>2. IInv /\ SendingIsWatched /\ [Next]_vars => SendingIsWatched'
  <2> SUFFICES ASSUME IInv, SendingIsWatched, [Next]_vars, NEW c \in Cmd, pc'[c] = "sending"
               PROVE  (c \in timer)' \/ (hcmd = c)' \/ Settled(c)'
    BY DEF SendingIsWatched
  <2>1. Watched(c)
    BY WatchedStep
  <2> QED BY <2>1 DEF Watched, SendingIsWatched
<1> QED BY <1>1, <1>2, InductiveInvariant, PTL DEF Spec

\* The handler thread comes back to its messages again and again.
LEMMA HandlerComesBack == Spec /\ HandlerRuns => []<>(hpc = "loop")
<1>1. IInv /\ [Next]_vars =>
        /\ hpc = "check" => (hpc = "check")' \/ (hpc = "lookup")' \/ (hpc = "loop")'
        /\ hpc = "lookup" => (hpc = "lookup")' \/ (hpc = "taking")' \/ (hpc = "loop")'
        /\ hpc = "taking" => (hpc = "taking")' \/ (hpc = "taken")'
        /\ hpc = "taken" => (hpc = "taken")' \/ (hpc = "loop")'
  BY DEF Next, vars, SendCommandMessage, SetPMNoticeSetting, HandlerThread,
         HandleSetCommand, TimeoutDue, TimeoutCheck, TimeoutLookup, TimeoutTake,
         TimeoutTell, Thread, PutBegin, PutEnd, ArmTimeout, Reply, CancelTimeout,
         Lookup, Take, Tell, BackToLoop
<1>2. <<HandlerReports>>_vars =>
        /\ hpc = "check" => (hpc = "lookup")' \/ (hpc = "loop")'
        /\ hpc = "lookup" => (hpc = "taking")' \/ (hpc = "loop")'
        /\ hpc = "taking" => (hpc = "taken")'
        /\ hpc = "taken" => (hpc = "loop")'
  BY DEF HandlerReports, TimeoutCheck, TimeoutLookup, TimeoutTake, TimeoutTell, BackToLoop
<1>3. /\ hpc = "check" => ~(hpc = "loop")
      /\ hpc = "lookup" => ~(hpc = "loop")
      /\ hpc = "taking" => ~(hpc = "loop")
      /\ hpc = "taken" => ~(hpc = "loop")
      /\ IInv => hpc = "loop" \/ hpc = "check" \/ hpc = "lookup" \/ hpc = "taking" \/ hpc = "taken"
  BY DEF IInv, TypeOK, HandlerPc
<1>4. Spec /\ HandlerRuns => (hpc = "taken" ~> hpc = "loop")
  BY <1>1, <1>2, <1>3, InductiveInvariant, PTL DEF Spec, HandlerRuns
<1>5. Spec /\ HandlerRuns => (hpc = "taking" ~> hpc = "taken" \/ hpc = "loop")
  BY <1>1, <1>2, <1>3, InductiveInvariant, PTL DEF Spec, HandlerRuns
<1>6. Spec /\ HandlerRuns => (hpc = "lookup" ~> hpc = "taking" \/ hpc = "loop")
  BY <1>1, <1>2, <1>3, InductiveInvariant, PTL DEF Spec, HandlerRuns
<1>7. Spec /\ HandlerRuns => (hpc = "check" ~> hpc = "lookup" \/ hpc = "loop")
  BY <1>1, <1>2, <1>3, InductiveInvariant, PTL DEF Spec, HandlerRuns
<1> QED BY <1>3, <1>4, <1>5, <1>6, <1>7, InductiveInvariant, PTL

\* A command that was sent is reported, or lost to a raced access: its thread
\* gets it to the appliance, and then the answer or the time-out ends it.
LEMMA OneCommandReported ==
  ASSUME NEW c \in Cmd
  PROVE  Spec /\ HandlerRuns /\ CommandRuns(c)
           => (pc[c] # "idle" ~> Told(c) \/ c \in raceHit)
<1> DEFINE At(p) == pc[c] = p
<1>1. IInv /\ [Next]_vars => Onward(c) /\ Watched(c)
  BY OnwardStep, WatchedStep
<1>2. IInv /\ [Next]_vars =>
        /\ At("posted") => At("posted")' \/ At("start")'
        /\ At("start") => At("start")' \/ At("putting")'
        /\ At("putting") => At("putting")' \/ At("put")'
        /\ At("put") => At("put")' \/ At("sending")'
        /\ At("sending") => At("sending")' \/ At("replied")'
        /\ At("replied") => At("replied")' \/ At("cancelled")'
        /\ At("cancelled") => At("cancelled")' \/ At("taking")' \/ At("done")'
        /\ At("taking") => At("taking")' \/ At("taken")'
        /\ At("taken") => At("taken")' \/ At("done")'
        /\ At("done") => At("done")'
  BY <1>1 DEF Onward
<1>3. IInv =>
        /\ <<HandleSetCommand(c)>>_vars => ~At("posted")'
        /\ <<PutBegin(c)>>_vars => ~At("start")'
        /\ <<PutEnd(c)>>_vars => ~At("putting")'
        /\ <<ArmTimeout(c)>>_vars => ~At("put")'
        /\ <<CancelTimeout(c)>>_vars => ~At("replied")'
        /\ <<Lookup(c)>>_vars => ~At("cancelled")'
        /\ <<Take(c)>>_vars => ~At("taking")'
        /\ <<Tell(c)>>_vars => ~At("taken")'
  <2> SUFFICES ASSUME pc \in [Cmd -> ThreadPc]
               PROVE  /\ HandleSetCommand(c) => ~At("posted")'
                      /\ PutBegin(c) => ~At("start")'
                      /\ PutEnd(c) => ~At("putting")'
                      /\ ArmTimeout(c) => ~At("put")'
                      /\ CancelTimeout(c) => ~At("replied")'
                      /\ Lookup(c) => ~At("cancelled")'
                      /\ Take(c) => ~At("taking")'
                      /\ Tell(c) => ~At("taken")'
    BY DEF IInv, TypeOK
  <2> QED BY DEF HandleSetCommand, PutBegin, PutEnd, ArmTimeout, CancelTimeout, Lookup,
                 Take, Tell, Move
<1>4. IInv /\ [Next]_vars =>
        /\ At("sending") /\ c \in timer =>
             (c \in timer)' \/ (hcmd = c)' \/ Settled(c)' \/ At("replied")'
        /\ At("sending") /\ hcmd = c => (hcmd = c)' \/ Settled(c)'
        /\ TimeoutTaken(c) => TimeoutTaken(c)' \/ Settled(c)'
  BY <1>1, <1>2 DEF Watched
<1>5. <<TimeoutDue(c)>>_vars => (hcmd = c)'
  BY DEF TimeoutDue
<1>6. /\ IInv => (hcmd = c => ~(hpc = "loop"))
      /\ IInv => (TimeoutTaken(c) => ~(hpc = "loop"))
      /\ IInv => (At("done") => TimeoutTaken(c) \/ Settled(c))
  BY DEF IInv, TypeOK, NoSilentCommand, TimeoutTaken, Settled
<1>7. SendingIsWatched => (At("sending") => c \in timer \/ hcmd = c \/ Settled(c))
  BY DEF SendingIsWatched
<1>8. IInv => \/ At("idle") \/ At("posted") \/ At("start") \/ At("putting") \/ At("put")
              \/ At("sending") \/ At("replied") \/ At("cancelled") \/ At("taking")
              \/ At("taken") \/ At("done")
  BY DEF IInv, TypeOK, ThreadPc
<1> DEFINE F == Spec /\ HandlerRuns /\ CommandRuns(c)
<1>9. F => (At("posted") ~> At("start"))
  BY <1>2, <1>3, InductiveInvariant, HandlerComesBack, PTL DEF Spec, CommandRuns
<1>10. F => (At("start") ~> At("putting"))
  BY <1>2, <1>3, InductiveInvariant, PTL DEF Spec, CommandRuns
<1>11. F => (At("putting") ~> At("put"))
  BY <1>2, <1>3, InductiveInvariant, PTL DEF Spec, CommandRuns
<1>12. F => (At("put") ~> At("sending"))
  BY <1>2, <1>3, InductiveInvariant, PTL DEF Spec, CommandRuns
<1>13. F => (At("sending") /\ hcmd = c ~> Settled(c) \/ At("replied"))
  BY <1>2, <1>4, <1>6, InductiveInvariant, HandlerComesBack, PTL DEF Spec
<1>14. F => (At("sending") /\ c \in timer ~>
               (At("sending") /\ hcmd = c) \/ Settled(c) \/ At("replied"))
  BY <1>2, <1>4, <1>5, InductiveInvariant, HandlerComesBack, PTL DEF Spec, CommandRuns
<1>15. F => (At("sending") ~> Settled(c) \/ At("replied"))
  BY <1>7, <1>13, <1>14, SendingAlwaysWatched, PTL
<1>16. F => (At("replied") ~> At("cancelled"))
  BY <1>2, <1>3, InductiveInvariant, PTL DEF Spec, CommandRuns
<1>17. F => (At("cancelled") ~> At("taking") \/ At("done"))
  BY <1>2, <1>3, InductiveInvariant, PTL DEF Spec, CommandRuns
<1>18. F => (At("taking") ~> At("taken"))
  BY <1>2, <1>3, InductiveInvariant, PTL DEF Spec, CommandRuns
<1>19. F => (At("taken") ~> At("done"))
  BY <1>2, <1>3, InductiveInvariant, PTL DEF Spec, CommandRuns
<1>20. F => (At("done") ~> Settled(c))
  BY <1>4, <1>6, InductiveInvariant, HandlerComesBack, PTL DEF Spec
<1>21. F => (At("cancelled") ~> Settled(c))
  BY <1>17, <1>18, <1>19, <1>20, PTL
<1>22. F => (At("sending") ~> Settled(c))
  BY <1>15, <1>16, <1>21, PTL
<1>23. F => (At("posted") ~> At("sending"))
  BY <1>9, <1>10, <1>11, <1>12, PTL
<1>24. F => (~At("idle") ~> Settled(c))
  BY <1>8, <1>10, <1>11, <1>12, <1>16, <1>18, <1>19, <1>20, <1>21, <1>22, <1>23,
     InductiveInvariant, PTL
<1>25. /\ pc[c] # "idle" <=> ~At("idle")
       /\ Settled(c) <=> Told(c) \/ c \in raceHit
  BY DEF Settled
<1> QED BY <1>24, <1>25, PTL

\* Every command is reported, whether or not the appliance answers, unless a
\* raced access to mCmdResult lost it.
THEOREM EveryCommandIsReported == Spec /\ AllRun => EveryCommandReported
<1> SUFFICES ASSUME NEW c \in Cmd
             PROVE  Spec /\ AllRun => (pc[c] # "idle" ~> Told(c) \/ c \in raceHit)
  BY DEF EveryCommandReported
<1>1. AllRun => HandlerRuns /\ CommandRuns(c)
  BY DEF AllRun
<1> QED BY <1>1, OneCommandReported, PTL
=============================================================================
