-------------------------- MODULE JobServerProofs --------------------------
(***************************************************************************)
(* Proofs about JobServer: what the server adds to the runner keeps the    *)
(* invariant of the record, and a job is left to nobody only with an       *)
(* excuse.                                                                 *)
(***************************************************************************)
EXTENDS JobServer, JobRunnerProofs

-----------------------------------------------------------------------------
\* The inductive invariant.

\* A run was told to stop only by the shutdown that is in progress.
Told(d) ==
  /\ ctx[d] => up = "stopping" /\ pc[d] # "idle"
  /\ pc[d] = "release" /\ ret[d] = "interrupted" => up = "stopping"

\* Driver d either runs the job, or returns with something the server acts on or logs.
Answers(d) ==
  \/ pc[d] \in RunPcs
  \/ pc[d] = "release" /\ ret[d] \in {"retried", "storeFailed", "interrupted"}

\* From when Resume has seen every job of the store, an unfinished one has a run that is
\* to start, or a driver that answers for it, or an excuse.
Resumed == up = "up" \/ (up = "load" /\ listed = "nothing")
SomebodyAnswers == starts > 0 \/ excuses # {} \/ \E d \in Drivers : Answers(d)
Expected == Resumed /\ Unfinished => SomebodyAnswers

ServerInv ==
  /\ RecordInv /\ ServerTypeOK
  /\ (\A d \in Drivers : Told(d)) /\ Expected

ServerStep == (ServerNext /\ UNCHANGED waiting) \/ (Client /\ UNCHANGED allVars)

-----------------------------------------------------------------------------
\* The record under the server.

\* What only counts, or only tells runs to stop, is none of the record's business.
LEMMA CountedOnly ==
  ASSUME RecordInv, UNCHANGED <<disk, lock, users, pc, mem, arg, ret, announced, retries>>,
         ctx' \in [Drivers -> BOOLEAN], faults' \in Nat, interrupts' \in Nat
  PROVE  RecordInv'
  <1>1. TypeInv' /\ SingleDriver'
    BY DEF RecordInv, TypeInv, TypeOK, DriverInv, SingleDriver, Driving
  <1> QED
    BY <1>1, RecordUntouched

\* A run may find its context done as it takes the lock.
LEMMA RunLockRecord ==
  ASSUME RecordInv, NEW d \in Drivers, NEW file \in HooksFiles, NEW done \in BOOLEAN,
         RunLock(d, file, done)
  PROVE  RecordInv'
  <1>1. TypeInv'
    BY DEF RunLock, Goto, RecordInv, TypeInv, TypeOK, DriverInv, Pcs, RunPcs, WorkPcs
  <1>2. SingleDriver'
    BY DriversAssumption DEF RunLock, Goto, RecordInv, TypeInv, TypeOK, SingleDriver, Driving
  <1>3. disk' = disk /\ users' = users /\
        \A e \in Drivers : (pc'[e] = pc[e] /\ mem'[e] = mem[e]) \/ pc'[e] = "load"
    BY DEF RunLock, Goto, RecordInv, TypeInv, TypeOK
  <1> QED
    BY <1>1, <1>2, <1>3, RecordUntouched

\* The server's death kills every driver, whether one was at work or not.
LEMMA ServerDies ==
  ASSUME RecordInv, Dies(Server)
  PROVE  /\ RecordInv' /\ disk' = disk
         /\ \A d \in Drivers : pc'[d] = "idle" /\ ctx'[d] = FALSE
  <1>1. \A d \in Drivers : ProcessOf[d] = Server
    BY ServerAssumption, DriversAssumption
  <1>2. /\ pc' = [d \in Drivers |-> "idle"] /\ mem' = [d \in Drivers |-> NoJob]
        /\ ctx' = [d \in Drivers |-> FALSE] /\ arg' = [d \in Drivers |-> NoHooks]
        /\ ret' = [d \in Drivers |-> "none"]
    BY <1>1 DEF Dies, Killed
  <1>3. TypeOK'
    <2>1. lock' \in Drivers \cup {NoDriver} /\ interrupts' \in Nat
      BY DEF Dies, RecordInv, TypeInv, TypeOK
    <2>2. mem' \in [Drivers -> Job]
      BY <1>2, NoJobType
    <2>3. /\ arg' \in [Drivers -> HooksFiles \cup JobStateSet \cup {"none"}]
          /\ pc' \in [Drivers -> Pcs] /\ ret' \in [Drivers -> Returns]
          /\ ctx' \in [Drivers -> BOOLEAN]
      BY <1>2, HooksAssumption DEF Pcs, Returns
    <2> QED
      BY <2>1, <2>2, <2>3 DEF Dies, RecordInv, TypeInv, TypeOK
  <1>4. DriverInv' /\ SingleDriver'
    BY <1>2 DEF DriverInv, SingleDriver, Driving, RunPcs, WorkPcs
  <1>5. disk' = disk /\ users' = users
    BY DEF Dies
  <1> QED
    BY <1>2, <1>3, <1>4, <1>5, RecordUntouched DEF TypeInv

\* Every step of the server is one of the runner or leaves the record alone, and keeps
\* what JobRunnerProofs shows of it.
LEMMA ServerKeepsRecord ==
  ASSUME RecordInv, ServerTypeOK, ServerStep \/ UNCHANGED <<allVars, waiting>>
  PROVE  RecordInv' /\ ([Next]_vars \/ disk' = disk)
  <1>0. ctx \in [Drivers -> BOOLEAN] /\ faults \in Nat /\ interrupts \in Nat
    BY DEF RecordInv, TypeInv, TypeOK
  <1>1. ASSUME [Next]_vars PROVE RecordInv'
    BY <1>1, NextRecord
  <1>2. CASE PostJob
    BY <1>1, <1>2 DEF PostJob, Next
  <1>3. CASE StartRefused \/ Serve \/ ResumeList \/ Exit \/ UNCHANGED allVars
    <2>1. UNCHANGED vars
      BY <1>3 DEF StartRefused, Serve, ResumeList, Exit, allVars
    <2> QED
      BY <1>1, <2>1
  <1>4. CASE ResumeFails \/ ResumeLoad
    <2>1. UNCHANGED <<disk, lock, users, pc, mem, ctx, arg, ret, announced, interrupts, retries>>
          /\ faults' \in Nat
      BY <1>0, <1>4 DEF ResumeFails, ResumeLoad, Fault
    <2> QED
      BY <1>0, <2>1, CountedOnly
  <1>5. CASE Shutdown
    <2>1. /\ UNCHANGED <<disk, lock, users, pc, mem, arg, ret, announced, faults, retries>>
          /\ interrupts' \in Nat /\ ctx' \in [Drivers -> BOOLEAN]
      BY <1>0, <1>5 DEF Shutdown
    <2> QED
      BY <1>0, <2>1, CountedOnly
  <1>6. CASE ServerCrash
    BY <1>6, ServerDies DEF ServerCrash
  <1>7. ASSUME NEW d \in Drivers, NEW from \in Asked, PostRetry(d, from)
        PROVE  RecordInv' /\ [Next]_vars
    <2>1. from \in JobStateSet \cup {"none"}
      BY DEF Asked, JobStateSet, WorkingStates
    <2> QED
      BY <1>1, <1>7, <2>1 DEF PostRetry, Next
  <1>8. ASSUME NEW d \in Drivers, StartRun(d)
        PROVE  RecordInv' /\ disk' = disk
    <2>1. hooksFile \in HooksFiles /\ (up = "stopping") \in BOOLEAN
      BY DEF ServerTypeOK
    <2> QED
      BY <1>8, <2>1, RunLockRecord DEF StartRun, RunLock
  <1>9. ASSUME NEW d \in Drivers, Drive(d) \/ Returned(d)
        PROVE  RecordInv' /\ [Next]_vars
    BY <1>1, <1>9 DEF Drive, Returned, Continue, Next
  <1> QED
    BY <1>1, <1>2, <1>3, <1>4, <1>5, <1>6, <1>7, <1>8, <1>9 DEF ServerStep, ServerNext, allVars, Client

-----------------------------------------------------------------------------
\* What a driver comes to.

\* A driver at work changes nothing of the others, is not released by its work, and is
\* interrupted only when it was told to stop.
LEMMA DriveAlone ==
  ASSUME RecordInv, NEW d \in Drivers, Drive(d)
  PROVE  /\ \A e \in Drivers \ {d} : pc'[e] = pc[e] /\ ret'[e] = ret[e]
         /\ ctx' = ctx /\ pc[d] # "idle" /\ pc'[d] # "idle"
         /\ pc'[d] = "release" /\ ret'[d] = "interrupted" => ctx[d]
  <1> USE DEF RecordInv, TypeInv, TypeOK, Return, Goto
  <1>1. CASE LoadNothingToDo(d) \/ LoadJob(d) \/ LoadFails(d) \/ Loop(d)
    BY <1>1 DEF LoadNothingToDo, LoadJob, LoadFails, Loop
  <1>2. CASE BeforeRun(d) \/ EnterState(d) \/ ExitState(d)
    BY <1>2 DEF BeforeRun, EnterState, ExitState, Fire
  <1>3. CASE Step(d)
    <2>1. pc'[d] \in {"step", "saveOk", "saveErr", "exit"} /\ ret' = ret /\ ctx' = ctx
          /\ pc[d] = "step" /\ \A e \in Drivers \ {d} : pc'[e] = pc[e]
      BY <1>3 DEF Step, NoStep, StepSkipped, ExportStep, ValidateStep, VerifyStep, CheckStep,
                  SaveChunk, ImportStep, StepError, InStep
    <2> QED
      BY <2>1
  <1>4. CASE SaveStep(d)
    BY <1>4 DEF SaveStep
  <1>5. CASE Move(d)
    BY <1>5 DEF Move
  <1>6. CASE Stop(d)
    BY <1>6 DEF Stop
  <1>7. CASE Finish(d) \/ FinishSave(d)
    BY <1>7 DEF Finish, FinishSave
  <1>8. CASE RetryRejected(d) \/ RetryLoad(d) \/ RetrySave(d)
    BY <1>8 DEF RetryRejected, RetryLoad, RetrySave
  <1> QED
    BY <1>1, <1>2, <1>3, <1>4, <1>5, <1>6, <1>7, <1>8 DEF Drive, Continue, Unlock

\* A run that returns leaves the job at its end, or answers for it.
LEMMA RunAnswers ==
  ASSUME RecordInv, NEW d \in Drivers, Drive(d), pc[d] \in RunPcs
  PROVE  Unfinished' => Answers(d)'
  <1>0. /\ pc \in [Drivers -> Pcs] /\ ret \in [Drivers -> Returns] /\ mem \in [Drivers -> Job]
        /\ CopyOf(d)
    BY DEF RecordInv, TypeInv, TypeOK, CopyInv
  <1>1. CASE LoadNothingToDo(d)
    BY <1>1 DEF LoadNothingToDo, Unfinished, BeforeDone, WorkingStates, TerminalStates
  <1>2. CASE LoadFails(d)
    BY <1>0, <1>2 DEF LoadFails, Return, Goto, Answers
  <1>3. CASE LoadJob(d) \/ BeforeRun(d) \/ EnterState(d) \/ ExitState(d)
    BY <1>0, <1>3 DEF LoadJob, BeforeRun, EnterState, ExitState, Fire, Goto, Answers, RunPcs
  <1>4. CASE Loop(d) \/ SaveStep(d) \/ Move(d) \/ Stop(d)
    BY <1>0, <1>4 DEF Loop, SaveStep, Move, Stop, Return, Goto, Answers, RunPcs
  <1>5. CASE Step(d)
    <2>1. pc'[d] \in {"step", "saveOk", "saveErr", "exit"}
      BY <1>0, <1>5 DEF Step, NoStep, StepSkipped, ExportStep, ValidateStep, VerifyStep, CheckStep,
                        SaveChunk, ImportStep, StepError, InStep, Goto
    <2> QED
      BY <2>1 DEF Answers, RunPcs
  \* The copy of a run that finishes is at an end, and is what the disk has.
  <1>6. CASE Finish(d) \/ FinishSave(d)
    <2>1. mem[d].state \in TerminalStates
      BY <1>6 DEF Finish, FinishSave, RecordInv, TypeInv, DriverInv
    <2>2. disk.state = mem[d].state
      BY <1>0, <1>6 DEF Finish, FinishSave, CopyOf, SameRecord, RunPcs
    <2>3. disk'.state \in TerminalStates
      BY <1>6, <2>1, <2>2 DEF Finish, FinishSave
    <2> QED
      BY <2>3 DEF Unfinished, BeforeDone, WorkingStates, TerminalStates
  <1>7. pc[d] \notin {"retryLoad", "retrySave", "release"} \/ LoadFails(d)
    BY DEF RunPcs
  <1> QED
    BY <1>1, <1>2, <1>3, <1>4, <1>5, <1>6, <1>7
       DEF Drive, Continue, Unlock, RetryRejected, RetryLoad, RetrySave

\* A retry that is rejected has changed nothing; any other answers for the job.
LEMMA RetryAnswers ==
  ASSUME RecordInv, NEW d \in Drivers, Drive(d), pc[d] \notin RunPcs
  PROVE  Answers(d)' \/ disk' = disk
  <1>1. pc \in [Drivers -> Pcs] /\ ret \in [Drivers -> Returns]
    BY DEF RecordInv, TypeInv, TypeOK
  <1>2. pc[d] \in RetryPcs
    BY <1>1, DriveAlone DEF Drive, Pcs
  <1>3. LoadFails(d) \/ RetryRejected(d) \/ RetryLoad(d) \/ RetrySave(d)
    BY <1>2 DEF RetryPcs, Drive, Continue, LoadNothingToDo, LoadJob, BeforeRun, Loop, EnterState,
                ExitState, Fire, Step, NoStep, StepSkipped, ExportStep, ValidateStep, VerifyStep,
                CheckStep, SaveChunk, ImportStep, StepError, InStep, SaveStep, Move, Stop, Finish,
                FinishSave, Unlock
  <1> QED
    BY <1>1, <1>3 DEF LoadFails, RetryRejected, RetryLoad, RetrySave, Return, Goto, Answers

-----------------------------------------------------------------------------
\* The invariant is inductive.

LEMMA InitServer == ServerInit => ServerInv
  <1> SUFFICES ASSUME ServerInit PROVE ServerInv
    OBVIOUS
  <1>1. RecordInv
    BY InitRecord DEF ServerInit
  <1>2. ServerTypeOK
    BY HooksAssumption DEF ServerInit, ServerTypeOK
  <1>3. (\A d \in Drivers : Told(d)) /\ Expected
    BY DEF ServerInit, Init, Told, Expected, Resumed
  <1> QED
    BY <1>1, <1>2, <1>3 DEF ServerInv

LEMMA ServerTypeStep ==
  ASSUME ServerTypeOK, ServerStep \/ UNCHANGED <<allVars, waiting>>
  PROVE  ServerTypeOK'
  <1> DEFINE Ups == {"down", "list", "load", "up", "stopping", "closing"}
             Excuses == {"refused", "storeFailed", "unreadable"}
             Own == /\ up' \in Ups /\ listed' \in {"nothing", "found"} /\ starts' \in Nat
                    /\ hooksFile' \in HooksFiles /\ excuses' \subseteq Excuses
  <1>0. /\ up \in Ups /\ listed \in {"nothing", "found"} /\ starts \in Nat
        /\ hooksFile \in HooksFiles /\ excuses \subseteq Excuses /\ waiting \in BOOLEAN
    BY DEF ServerTypeOK
  <1>1. waiting' \in BOOLEAN
    BY <1>0 DEF ServerStep, Client, BeginWait, Poll, GiveUpWait
  <1>2. ASSUME UNCHANGED serverVars PROVE Own
    BY <1>0, <1>2 DEF serverVars
  <1>3. ASSUME PostJob \/ Serve \/ ResumeList PROVE Own
    <2>1. /\ up' \in {up, "list", "load"} /\ listed' \in {listed, "nothing", "found"}
          /\ starts' \in {starts, starts + 1} /\ (hooksFile' = hooksFile \/ hooksFile' \in HooksFiles)
          /\ excuses' \in {excuses, {}}
      BY <1>3 DEF PostJob, Serve, ResumeList
    <2> QED
      BY <1>0, <2>1
  <1>4. ASSUME StartRefused PROVE Own
    <2>1. /\ UNCHANGED <<up, listed, hooksFile>> /\ starts > 0 /\ starts' = starts - 1
          /\ excuses' \in {excuses, excuses \cup {"refused"}}
      BY <1>4 DEF StartRefused, Excuse
    <2> QED
      BY <1>0, <2>1
  <1>5. ASSUME ResumeFails \/ ResumeLoad PROVE Own
    <2>1. /\ UNCHANGED <<listed, hooksFile>> /\ up' \in {"closing", "up"}
          /\ starts' \in {starts, starts + 1}
          /\ excuses' \in {excuses, excuses \cup {"unreadable"}}
      BY <1>5 DEF ResumeFails, ResumeLoad, Excuse
    <2> QED
      BY <1>0, <2>1
  <1>6. ASSUME Shutdown \/ Exit \/ ServerCrash PROVE Own
    <2>1. /\ UNCHANGED <<listed, hooksFile, excuses>> /\ up' \in {"stopping", "down"}
          /\ starts' \in {starts, 0}
      BY <1>6 DEF Shutdown, Exit, ServerCrash
    <2> QED
      BY <1>0, <2>1
  <1>7. ASSUME NEW d \in Drivers, StartRun(d) PROVE Own
    BY <1>0, <1>7 DEF StartRun
  <1>8. ASSUME NEW d \in Drivers, Returned(d) PROVE Own
    <2>1. /\ UNCHANGED <<up, listed, hooksFile>> /\ starts' \in {starts, starts + 1}
          /\ excuses' \in {excuses, excuses \cup {"storeFailed"}}
      BY <1>8 DEF Returned, Excuse
    <2> QED
      BY <1>0, <2>1
  <1>9. ASSUME NEW d \in Drivers, Drive(d) \/ \E from \in Asked : PostRetry(d, from)
        PROVE  UNCHANGED serverVars
    BY <1>9 DEF Drive, PostRetry
  <1> HIDE DEF Own
  <1>10. Own
    BY <1>2, <1>3, <1>4, <1>5, <1>6, <1>7, <1>8, <1>9 DEF ServerStep, ServerNext, allVars
  <1> QED
    BY <1>1, <1>10 DEF Own, ServerTypeOK

\* A step that leaves the drivers where they are.
LEMMA DriversStay ==
  ASSUME ServerInv, UNCHANGED <<pc, ret>>, \A d \in Drivers : ctx'[d] => ctx[d] \/ pc[d] # "idle",
         up' = "stopping" \/ (ctx' = ctx /\ (up' = up \/ up # "stopping"))
  PROVE  (\A d \in Drivers : Told(d)') /\ (\A d \in Drivers : Answers(d)' <=> Answers(d))
  BY DEF ServerInv, Told, Answers

\* A step of driver d leaves the others where they are.
LEMMA OneDriverStays ==
  ASSUME ServerInv, NEW d \in Drivers, UNCHANGED up,
         \A e \in Drivers \ {d} : pc'[e] = pc[e] /\ ret'[e] = ret[e] /\ ctx'[e] = ctx[e],
         Told(d)'
  PROVE  (\A e \in Drivers : Told(e)') /\ \A e \in Drivers \ {d} : Answers(e)' <=> Answers(e)
  BY DEF ServerInv, Told, Answers

LEMMA ServerInvStep == ServerInv /\ [ServerStep]_<<allVars, waiting>> => ServerInv'
  <1> SUFFICES ASSUME ServerInv, ServerStep \/ UNCHANGED <<allVars, waiting>>
               PROVE  ServerInv'
    OBVIOUS
  <1> DEFINE Rest == (\A d \in Drivers : Told(d)') /\ Expected'
  <1>0. RecordInv' /\ ServerTypeOK'
    BY ServerKeepsRecord, ServerTypeStep DEF ServerInv
  <1>1. /\ RecordInv /\ SingleDriver /\ starts \in Nat /\ starts' \in Nat
        /\ pc \in [Drivers -> Pcs] /\ ret \in [Drivers -> Returns] /\ ctx \in [Drivers -> BOOLEAN]
        /\ (\A d \in Drivers : Told(d)) /\ Expected /\ ServerTypeOK
    BY <1>0 DEF ServerInv, RecordInv, TypeInv, TypeOK, ServerTypeOK
  \* As long as the lock is free no driver answers for the job.
  <1>2. lock = NoDriver => \A d \in Drivers : pc[d] = "idle" /\ ~Answers(d)
    BY <1>1, DriversAssumption DEF SingleDriver, Driving, Answers, RunPcs
  <1>3. ASSUME UNCHANGED allVars PROVE Rest
    BY <1>1, <1>3 DEF allVars, vars, serverVars, Told, Expected, Resumed, Unfinished, SomebodyAnswers,
                      Answers
  <1>4. ASSUME PostJob PROVE Rest
    <2>1. UNCHANGED <<pc, ret, ctx, up, listed>> /\ starts' > 0
      BY <1>1, <1>4 DEF PostJob, Create
    <2> QED
      BY <1>1, <2>1, DriversStay DEF Expected, SomebodyAnswers
  <1>5. ASSUME StartRefused PROVE Rest
    <2>1. UNCHANGED <<disk, pc, ret, ctx, up, listed>>
      BY <1>5 DEF StartRefused, vars
    <2>2. (\A e \in Drivers : Told(e)') /\ \A d \in Drivers : Answers(d)' <=> Answers(d)
      BY <2>1, DriversStay
    <2>3. CASE HeldByRun
      <3>1. \E d \in Drivers : Answers(d)'
        BY <2>2, <2>3 DEF HeldByRun, Answers
      <3> QED
        BY <2>2, <3>1 DEF Expected, SomebodyAnswers
    <2>4. CASE ~HeldByRun
      <3>1. excuses' # {}
        BY <1>5, <2>4 DEF StartRefused, Excuse
      <3> QED
        BY <2>2, <3>1 DEF Expected, SomebodyAnswers
    <2> QED
      BY <2>3, <2>4
  <1>6. ASSUME Serve \/ ResumeFails \/ Exit PROVE Rest
    <2>1. UNCHANGED <<pc, ret, ctx>> /\ up' \in {"list", "closing", "down"}
      BY <1>6 DEF Serve, ResumeFails, Exit, vars
    <2>2. up = "stopping" => \A d \in Drivers : pc[d] = "idle"
      BY <1>6 DEF Serve, ResumeFails, Exit, Driving
    <2>3. \A d \in Drivers : Told(d)'
      BY <1>1, <2>1, <2>2 DEF Told
    <2> QED
      BY <2>1, <2>3 DEF Expected, Resumed
  <1>7. ASSUME ResumeList PROVE Rest
    <2>1. UNCHANGED <<disk, pc, ret, ctx>> /\ up = "list" /\ up' = "load"
          /\ (listed' = "nothing" => disk = NoJob)
      BY <1>7 DEF ResumeList, vars
    <2>2. listed' = "nothing" => ~Unfinished'
      BY <2>1 DEF Unfinished, NoJob, BeforeDone, WorkingStates
    <2> QED
      BY <2>1, <2>2, DriversStay DEF Expected, Resumed
  \* Resume starts what it found, unless it could not be read; a job that it did not
  \* find was posted since.
  <1>8. ASSUME ResumeLoad PROVE Rest
    <2>1. UNCHANGED <<disk, pc, ret, ctx>> /\ up = "load" /\ up' = "up"
      BY <1>8 DEF ResumeLoad
    <2>2. (\A e \in Drivers : Told(e)') /\ \A d \in Drivers : Answers(d)' <=> Answers(d)
      BY <2>1, DriversStay
    <2>3. CASE starts' = starts + 1
      BY <1>1, <2>2, <2>3 DEF Expected, SomebodyAnswers
    <2>4. CASE Excuse("unreadable")
      BY <2>2, <2>4 DEF Expected, SomebodyAnswers, Excuse
    <2>5. CASE listed = "nothing" /\ UNCHANGED <<starts, excuses>>
      BY <1>1, <2>1, <2>2, <2>5 DEF Expected, Resumed, SomebodyAnswers, Unfinished
    <2>6. CASE Terminal(disk.state)
      BY <2>1, <2>2, <2>6 DEF Expected, Unfinished, Terminal, TerminalStates, BeforeDone, WorkingStates
    <2> QED
      BY <1>8, <2>3, <2>4, <2>5, <2>6 DEF ResumeLoad
  <1>9. ASSUME Shutdown PROVE Rest
    <2>1. /\ UNCHANGED <<pc, ret>> /\ up' = "stopping"
          /\ \A d \in Drivers : ctx'[d] => ctx[d] \/ pc[d] # "idle"
      BY <1>1, <1>9 DEF Shutdown, RunPcs
    <2> QED
      BY <2>1, DriversStay DEF Expected, Resumed
  <1>10. ASSUME ServerCrash PROVE Rest
    <2>1. up' = "down" /\ \A d \in Drivers : pc'[d] = "idle" /\ ctx'[d] = FALSE
      BY <1>1, <1>10, ServerDies DEF ServerCrash
    <2> QED
      BY <2>1 DEF Told, Expected, Resumed
  <1>11. ASSUME NEW d \in Drivers, NEW from \in Asked, PostRetry(d, from)
         PROVE  Rest
    <2>1. /\ lock = NoDriver /\ pc'[d] = "retryLoad" /\ ctx' = ctx /\ UNCHANGED <<disk, serverVars>>
          /\ \A e \in Drivers \ {d} : pc'[e] = pc[e] /\ ret'[e] = ret[e]
      BY <1>1, <1>11 DEF PostRetry, RetryLock, Goto
    <2>2. Told(d)'
      BY <1>1, <1>2, <2>1 DEF Told
    <2>3. \A e \in Drivers : Told(e)'
      BY <2>1, <2>2, OneDriverStays DEF serverVars
    <2> QED
      BY <1>1, <1>2, <2>1, <2>3 DEF Expected, Resumed, SomebodyAnswers, Unfinished, serverVars
  <1>12. ASSUME NEW d \in Drivers, StartRun(d)
         PROVE  Rest
    <2>1. /\ pc'[d] = "load" /\ ctx'[d] = (up = "stopping") /\ up' = up
          /\ \A e \in Drivers \ {d} : pc'[e] = pc[e] /\ ret'[e] = ret[e] /\ ctx'[e] = ctx[e]
      BY <1>1, <1>12 DEF StartRun, RunLock, Goto
    <2>2. \A e \in Drivers : Told(e)'
      BY <2>1, OneDriverStays DEF Told
    <2>3. Answers(d)'
      BY <2>1 DEF Answers, RunPcs
    <2> QED
      BY <2>2, <2>3 DEF Expected, SomebodyAnswers
  <1>13. ASSUME NEW d \in Drivers, Drive(d)
         PROVE  Rest
    <2>1. /\ \A e \in Drivers \ {d} : pc'[e] = pc[e] /\ ret'[e] = ret[e]
          /\ ctx' = ctx /\ pc'[d] # "idle" /\ UNCHANGED serverVars
          /\ pc'[d] = "release" /\ ret'[d] = "interrupted" => ctx[d]
      BY <1>1, <1>13, DriveAlone DEF Drive
    <2>2. Told(d)'
      BY <1>1, <2>1 DEF Told, serverVars
    <2>3. (\A e \in Drivers : Told(e)') /\ \A e \in Drivers \ {d} : Answers(e)' <=> Answers(e)
      BY <2>1, <2>2, OneDriverStays DEF serverVars
    <2>4. CASE Answers(d)' \/ ~Unfinished'
      BY <2>3, <2>4 DEF Expected, SomebodyAnswers
    <2>5. CASE pc[d] \notin RunPcs /\ disk' = disk
      <3>1. ~Answers(d)
        BY <1>13, <2>5 DEF Answers, Drive
      <3> QED
        BY <1>1, <2>1, <2>3, <2>5, <3>1 DEF Expected, Resumed, SomebodyAnswers, Unfinished, serverVars
    <2> QED
      BY <1>1, <1>13, <2>4, <2>5, RunAnswers, RetryAnswers
  <1>14. ASSUME NEW d \in Drivers, Returned(d)
         PROVE  Rest
    <2>1. /\ \A e \in Drivers \ {d} : pc'[e] = pc[e] /\ ret'[e] = ret[e] /\ ctx'[e] = ctx[e]
          /\ pc[d] = "release" /\ pc'[d] = "idle" /\ ctx'[d] = FALSE
          /\ UNCHANGED <<disk, up, listed, hooksFile>>
      BY <1>1, <1>14 DEF Returned, Unlock, Goto
    <2>2. Told(d)'
      BY <2>1 DEF Told
    <2>3. (\A e \in Drivers : Told(e)') /\ \A e \in Drivers \ {d} : Answers(e)' <=> Answers(e)
      BY <2>1, <2>2, OneDriverStays
    <2>4. starts' >= starts /\ (excuses # {} => excuses' # {})
      BY <1>1, <1>14 DEF Returned, Excuse
    <2>5. CASE ret[d] = "retried"
      <3>1. starts' > 0
        BY <1>1, <1>14, <2>5 DEF Returned
      <3> QED
        BY <2>3, <3>1 DEF Expected, SomebodyAnswers
    <2>6. CASE ret[d] = "storeFailed" /\ Unfinished
      <3>1. excuses' # {}
        BY <1>14, <2>6 DEF Returned, Excuse
      <3> QED
        BY <2>3, <3>1 DEF Expected, SomebodyAnswers
    <2>7. CASE ret[d] = "interrupted"
      <3>1. up = "stopping"
        BY <1>1, <2>1, <2>7 DEF Told
      <3> QED
        BY <2>1, <2>3, <3>1 DEF Expected, Resumed
    <2>8. CASE ret[d] \notin {"retried", "storeFailed", "interrupted"}
      <3>1. ~Answers(d)
        BY <2>1, <2>8 DEF Answers, RunPcs
      <3> QED
        BY <1>1, <2>1, <2>3, <2>4, <3>1 DEF Expected, Resumed, SomebodyAnswers, Unfinished
    <2>9. CASE ~Unfinished
      BY <2>1, <2>3, <2>9 DEF Expected, Unfinished
    <2> QED
      BY <2>5, <2>6, <2>7, <2>8, <2>9
  <1>15. Rest
    BY <1>3, <1>4, <1>5, <1>6, <1>7, <1>8, <1>9, <1>10, <1>11, <1>12, <1>13, <1>14
       DEF ServerStep, ServerNext, Client
  <1> QED
    BY <1>0, <1>15 DEF ServerInv

-----------------------------------------------------------------------------
\* The theorems.

\* Every variable of the server keeps its type: in particular the runs it waits for at
\* shutdown are never counted below none.
THEOREM ServerTypes == ServerSpec => []ServerTypeOK
  <1>1. ServerInv => ServerTypeOK
    BY DEF ServerInv
  <1> QED
    BY <1>1, InitServer, ServerInvStep, PTL DEF ServerSpec, ServerStep

\* A server that is up leaves an unfinished job to nobody only with an excuse, in any
\* order of restarts, requests, runs and retries.
THEOREM OnlyStrandedExplained == ServerSpec => []StrandedExplained
  <1>1. ServerInv => StrandedExplained
    <2> SUFFICES ASSUME ServerInv, Stranded PROVE excuses # {}
      BY DEF StrandedExplained
    <2>1. \A d \in Drivers : ~Answers(d)
      BY DriversAssumption DEF Stranded, ServerInv, RecordInv, SingleDriver, Driving, Answers, RunPcs
    <2> QED
      BY <2>1 DEF Stranded, ServerInv, Expected, Resumed, SomebodyAnswers
  <1> QED
    BY <1>1, InitServer, ServerInvStep, PTL DEF ServerSpec, ServerStep

\* What the record shows under the server is what it shows under the runner: one driver
\* at a time, no result of a state to come, one users file, no state passed without
\* its result, nothing lost.
THEOREM ServedRecord ==
  ServerSpec => [](/\ SingleDriver /\ NoLaterResults /\ SameUsersFile /\ PassedStates
                   /\ FailedInRecorded /\ NoLostUpdate)
  <1>1. ServerInv => /\ SingleDriver /\ NoLaterResults /\ SameUsersFile /\ PassedStates
                     /\ FailedInRecorded /\ NoLostUpdate
    BY RecordInvImplies DEF ServerInv, RecordInv
  <1> QED
    BY <1>1, InitServer, ServerInvStep, PTL DEF ServerSpec, ServerStep

\* The server implements JobLifecycle: whatever is posted, resumed, refused or crashes,
\* a reader of the record sees a job go through its states.
THEOREM ServedLifecycle == ServerSpec => ImplementsLifecycle
  <1>1. ServerInit => Lifecycle!Init
    BY InitLifecycle DEF ServerInit
  <1>2. ServerInv /\ [ServerStep]_<<allVars, waiting>> => [Lifecycle!Next]_(Lifecycle!vars)
    <2> SUFFICES ASSUME ServerInv, ServerStep \/ UNCHANGED <<allVars, waiting>>
                 PROVE  [Lifecycle!Next]_(Lifecycle!vars)
      OBVIOUS
    <2>1. [Next]_vars \/ disk' = disk
      BY ServerKeepsRecord DEF ServerInv
    <2>2. CASE [Next]_vars
      BY <2>2, StepLifecycle DEF ServerInv
    <2>3. CASE disk' = disk
      BY <2>3 DEF Lifecycle!vars, CleanStates
    <2> QED
      BY <2>1, <2>2, <2>3
  <1> QED
    BY <1>1, <1>2, InitServer, ServerInvStep, PTL
       DEF ServerSpec, ServerStep, ImplementsLifecycle, Lifecycle!Spec

=============================================================================
