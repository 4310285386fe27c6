-------------------------- MODULE JobRunnerProofs --------------------------
(***************************************************************************)
(* Proofs about JobRunner, for every set of drivers, processes and hooks   *)
(* files and every bound.  The record on disk: IInv and the safety         *)
(* properties of the record are one inductive invariant of JobRunner, and  *)
(* every step of JobRunner is a step of JobLifecycle or shows the reader   *)
(* of the record nothing.                                                  *)
(***************************************************************************)
EXTENDS JobRunner, TLAPS

-----------------------------------------------------------------------------
\* What the operators on the record return.

LEMMA NoJobType == NoJob \in Job
  BY HooksAssumption DEF NoJob, Job, Result, NoResult, JobStateSet

LEMMA HookResultAdded ==
  ASSUME NEW j \in Job, j.state # "absent", NEW what \in {"call", "changed"}
  PROVE  j.hooks \cup {<<j.state, what>>} \in SUBSET HookResult
  <1>1. j.state \in JobStateSet /\ j.hooks \in SUBSET HookResult
    BY DEF Job
  <1>2. <<j.state, what>> \in HookResult
    BY <1>1 DEF HookResult
  <1> QED
    BY <1>1, <1>2

LEMMA NoteHooksFileType ==
  ASSUME NEW j \in Job, j.state # "absent", NEW file \in HooksFiles
  PROVE  /\ NoteHooksFile(j, file) \in Job
         /\ NoteHooksFile(j, file).state = j.state
         /\ NoteHooksFile(j, file).source = j.source
         /\ NoteHooksFile(j, file).failedIn = j.failedIn
         /\ NoteHooksFile(j, file).results = j.results
  <1> DEFINE hooks == j.hooks \cup {<<j.state, "changed">>}
             fp == IF file = NoHooks THEN j.fp ELSE file
  <1>1. hooks \in SUBSET HookResult
    BY HookResultAdded
  <1>2. CASE file = j.fp
    BY <1>2 DEF NoteHooksFile
  <1>3. CASE file # j.fp /\ j.fp = NoHooks
    BY <1>3 DEF NoteHooksFile, Job
  <1>4. CASE file # j.fp /\ j.fp # NoHooks
    <2>1. NoteHooksFile(j, file) = [j EXCEPT !.fp = fp, !.hooks = hooks]
      BY <1>4 DEF NoteHooksFile
    <2>2. fp \in HooksFiles
      BY DEF Job
    <2> HIDE DEF fp, hooks
    <2> QED
      BY <1>1, <2>1, <2>2 DEF Job
  <1> QED
    BY <1>2, <1>3, <1>4

LEMMA RecordedType ==
  ASSUME NEW j \in Job, j.state # "absent"
  PROVE  /\ Recorded(j) \in Job
         /\ Recorded(j).state = j.state
         /\ Recorded(j).source = j.source
         /\ Recorded(j).failedIn = j.failedIn
         /\ Recorded(j).results = j.results
  <1> DEFINE hooks == j.hooks \cup {<<j.state, "call">>}
  <1>1. hooks \in SUBSET HookResult
    BY HookResultAdded
  <1>2. Recorded(j) = [j EXCEPT !.hooks = hooks]
    BY DEF Recorded
  <1> HIDE DEF hooks
  <1> QED
    BY <1>1, <1>2 DEF Job

LEMMA WithResultType ==
  ASSUME NEW j \in Job, NEW k \in ResultKinds, NEW r \in Result
  PROVE  /\ WithResult(j, k, r) \in Job
         /\ WithResult(j, k, r).state = j.state
         /\ WithResult(j, k, r).source = j.source
         /\ WithResult(j, k, r).failedIn = j.failedIn
         /\ WithResult(j, k, r).results = [j.results EXCEPT ![k] = r]
  BY DEF WithResult, Job

\* A record put back in a state keeps, of its results, those Kept says.
LEMMA PutBackType ==
  ASSUME NEW j \in Job, NEW from \in JobStateSet
  PROVE  /\ PutBack(j, from) \in Job
         /\ PutBack(j, from).state = from
         /\ PutBack(j, from).source = j.source
         /\ PutBack(j, from).failedIn = "none"
         /\ \A k \in ResultKinds :
              PutBack(j, from).results[k] =
                IF Kept(StateOf(k), from, j.failedIn) THEN j.results[k] ELSE NoResult
  <1>1. NoResult \in Result
    BY HooksAssumption DEF NoResult, Result
  <1>2. [k \in ResultKinds |-> IF Kept(StateOf(k), from, j.failedIn)
                               THEN j.results[k] ELSE NoResult]
          \in [ResultKinds -> Result]
    BY <1>1 DEF Job
  <1> QED
    BY <1>2 DEF PutBack, Job

LEMMA ComputedType ==
  ASSUME NEW d \in Drivers, arg[d] \in HooksFiles, NEW v \in Nat, NEW ok \in BOOLEAN
  PROVE  /\ Computed(d, v, ok) \in Result
         /\ Computed(d, v, ok).users = v /\ Computed(d, v, ok).ok = ok
  BY DEF Computed, Result

\* Whatever a Retry is asked, it goes back to a state of the pipeline.
LEMMA RetryAllowedState ==
  ASSUME NEW from, NEW failedIn, RetryAllowed(from, failedIn)
  PROVE  from \in WorkingStates \cup {"done"}
  BY DEF RetryAllowed, Index, WorkingStates

LEMMA NextStateType ==
  ASSUME NEW s \in BeforeDone
  PROVE  NextState(s) \in (BeforeDone \cup {"done"}) \ {"queued"}
  BY DEF BeforeDone, NextState, WorkingStates

-----------------------------------------------------------------------------
\* Type correctness.  TypeOK alone is not inductive: that a recorded hook call
\* names a state rests on where the driver is, which is DriverInv.

TypeInv == TypeOK /\ DriverInv

LEMMA InitType == Init => TypeInv
  <1> SUFFICES ASSUME Init
               PROVE  TypeInv
    OBVIOUS
  <1> USE DEF Init
  <1>1. TypeOK
    <2>1. mem \in [Drivers -> Job] /\ disk \in Job
      BY NoJobType
    <2>2. /\ lock \in Drivers \cup {NoDriver}
          /\ arg \in [Drivers -> HooksFiles \cup JobStateSet \cup {"none"}]
      BY HooksAssumption
    <2>3. users \in Nat /\ faults \in Nat /\ interrupts \in Nat /\ retries \in Nat
      OBVIOUS
    <2>4. /\ pc \in [Drivers -> Pcs] /\ ret \in [Drivers -> Returns]
          /\ ctx \in [Drivers -> BOOLEAN] /\ announced \in BOOLEAN
      BY DEF Pcs, Returns
    <2> QED
      BY <2>1, <2>2, <2>3, <2>4 DEF TypeOK
  <1>2. DriverInv
    BY DEF DriverInv, RunPcs, WorkPcs
  <1> QED
    BY <1>1, <1>2 DEF TypeInv

LEMMA NextType == TypeInv /\ [Next]_vars => TypeInv'
  <1> SUFFICES ASSUME TypeInv, [Next]_vars
               PROVE  TypeInv'
    OBVIOUS
  <1> USE DEF TypeInv
  <1>1. CASE Create
    <2>1. \A source \in BOOLEAN :
            [NoJob EXCEPT !.state = "queued", !.source = source] \in Job
      BY NoJobType DEF Job, NoJob, JobStateSet
    <2> QED
      BY <1>1, <2>1 DEF Create, TypeOK, DriverInv
  <1>2. ASSUME NEW d \in Drivers, NEW file \in HooksFiles, RunLock(d, file, FALSE)
        PROVE  TypeInv'
    BY <1>2 DEF RunLock, Goto, TypeOK, DriverInv, Pcs, RunPcs, WorkPcs
  <1>3. ASSUME NEW d \in Drivers, NEW from \in JobStateSet \cup {"none"}, RetryLock(d, from)
        PROVE  TypeInv'
    BY <1>3 DEF RetryLock, Goto, TypeOK, DriverInv, Pcs, RunPcs, WorkPcs, RetryPcs
  <1>4. ASSUME NEW d \in Drivers, Continue(d)
        PROVE  TypeInv'
    <2>1. CASE LoadNothingToDo(d)
      BY <2>1 DEF LoadNothingToDo, Return, Goto, TypeOK, DriverInv, Pcs, RunPcs, WorkPcs, Returns
    <2>1a. CASE LoadFails(d)
      BY <2>1a DEF LoadFails, Fault, Return, Goto, TypeOK, DriverInv, Pcs, RunPcs, WorkPcs, Returns
    <2>2. CASE LoadJob(d)
      <3>1. /\ arg[d] \in HooksFiles /\ disk \in Job
            /\ disk.state \in BeforeDone
        BY <2>2 DEF LoadJob, TypeOK, DriverInv, RunPcs, Job, JobStateSet, BeforeDone,
                    TerminalStates
      <3>2. /\ NoteHooksFile(disk, arg[d]) \in Job
            /\ NoteHooksFile(disk, arg[d]).state \in BeforeDone
        BY <3>1, NoteHooksFileType DEF BeforeDone, WorkingStates
      <3> QED
        BY <2>2, <3>2 DEF LoadJob, SetMem, Goto, TypeOK, DriverInv, Pcs, RunPcs, WorkPcs
    <2>3. CASE Loop(d)
      BY <2>3 DEF Loop, Terminal, Return, Goto, TypeOK, DriverInv, Pcs, RunPcs, WorkPcs,
                  Returns, BeforeDone, WorkingStates, TerminalStates
    <2>4. CASE BeforeRun(d) \/ EnterState(d) \/ ExitState(d)
      <3>1. ASSUME NEW here \in {"before", "enter", "exit"},
                   NEW next \in {"loop", "step", "move"}, Fire(d, here, next)
            PROVE  TypeInv'
        <4>1. /\ arg[d] \in HooksFiles /\ mem[d].state \in BeforeDone
              /\ Recorded(mem[d]) \in Job /\ Recorded(mem[d]).state = mem[d].state
          BY <3>1, RecordedType DEF Fire, TypeOK, DriverInv, RunPcs, WorkPcs, BeforeDone,
                                    WorkingStates
        <4> QED
          BY <3>1, <4>1 DEF Fire, Fault, SetMem, Goto, TypeOK, DriverInv, Pcs, RunPcs, WorkPcs
      <3> QED
        BY <2>4, <3>1 DEF BeforeRun, EnterState, ExitState
    <2>5. CASE Step(d)
      <3>1. /\ arg[d] \in HooksFiles /\ mem[d] \in Job /\ mem[d].state \in BeforeDone
            /\ pc[d] = "step" /\ mem[d].state # "absent"
        BY <2>5 DEF Step, NoStep, StepSkipped, ExportStep, ValidateStep, VerifyStep, CheckStep,
                    SaveChunk, ImportStep, StepError, InStep, TypeOK, DriverInv, RunPcs, WorkPcs,
                    BeforeDone, WorkingStates
      \* What a step may do to its driver's copy.
      <3>2. ASSUME NEW j \in Job, j.state = mem[d].state, SetMem(d, j),
                   NEW p \in {"step", "saveOk", "saveErr", "exit"}, Goto(d, p),
                   disk' \in Job, users' \in Nat, faults' \in Nat,
                   UNCHANGED <<lock, ctx, arg, ret, announced, interrupts, retries>>
            PROVE  TypeInv'
        BY <3>1, <3>2 DEF SetMem, Goto, TypeOK, DriverInv, Pcs, RunPcs, WorkPcs
      <3>3. mem = [mem EXCEPT ![d] = mem[d]]
        BY DEF TypeOK
      <3>4. Recorded(mem[d]) \in Job /\ Recorded(mem[d]).state = mem[d].state
        BY <3>1, RecordedType
      <3>. DEFINE Noted(j, p) ==
                    /\ SetNoted(d, j) /\ Goto(d, p)
                    /\ disk' \in Job /\ users' \in Nat
                    /\ UNCHANGED <<lock, ctx, arg, ret, announced, interrupts, retries>>
      <3>4a. ASSUME NEW j \in Job, j.state = mem[d].state,
                    NEW p \in {"step", "saveOk", "saveErr", "exit"}, Noted(j, p)
             PROVE  TypeInv'
        <4>1. Recorded(j) \in Job /\ Recorded(j).state = mem[d].state
          BY <3>1, <3>4a, RecordedType
        <4>2. faults' \in Nat
          BY <3>4a DEF SetNoted, Fault, TypeOK
        <4> QED
          BY <3>2, <3>4a, <4>1, <4>2 DEF SetNoted
      <3>4b. CASE NoStep(d)
        BY <3>4b, <3>1, <3>2, <3>3 DEF NoStep, TypeOK, SetMem
      <3>5. CASE StepSkipped(d)
        <4>1. Noted(mem[d], "saveOk")
          BY <3>5 DEF StepSkipped, TypeOK
        <4> HIDE DEF Noted
        <4> QED
          BY <3>1, <3>4a, <4>1
      <3>6. CASE StepError(d)
        BY <3>6, <3>1, <3>2, <3>3, <3>4 DEF StepError, Fault, TypeOK, SetMem
      <3>7. CASE ExportStep(d)
        <4> DEFINE r == Computed(d, users + 1, TRUE)
        <4>0. users + 1 \in Nat
          BY DEF TypeOK
        <4>1. r \in Result /\ "manifest" \in ResultKinds
          BY <3>1, <4>0, ComputedType DEF ResultKinds
        <4>2. WithResult(mem[d], "manifest", r) \in Job
              /\ WithResult(mem[d], "manifest", r).state = mem[d].state
          BY <3>1, <4>1, WithResultType
        <4>3. Noted(WithResult(mem[d], "manifest", r), "saveOk")
          BY <3>7, <4>0 DEF ExportStep, TypeOK
        <4> HIDE DEF Noted, r
        <4> QED
          BY <3>4a, <4>2, <4>3
      <3>8. ASSUME NEW s \in WorkingStates, NEW k \in ResultKinds, CheckStep(d, s, k)
            PROVE  TypeInv'
        <4> DEFINE found(ok) == WithResult(mem[d], k, Computed(d, users, ok))
        <4>1. /\ \/ SetNoted(d, found(TRUE)) /\ Goto(d, "saveOk")
                 \/ /\ Fault
                    /\ SetMem(d, found(FALSE)) \/ SetMem(d, Recorded(found(FALSE)))
                    /\ Goto(d, "saveErr")
              /\ UNCHANGED <<disk, lock, users, ctx, arg, ret, announced, interrupts, retries>>
          BY <3>8 DEF CheckStep
        <4>2. ASSUME NEW ok \in BOOLEAN
              PROVE  /\ found(ok) \in Job /\ found(ok).state = mem[d].state
                     /\ Recorded(found(ok)) \in Job /\ Recorded(found(ok)).state = mem[d].state
          <5>1. Computed(d, users, ok) \in Result
            BY <3>1, ComputedType DEF TypeOK
          <5>2. found(ok) \in Job /\ found(ok).state = mem[d].state
            BY <3>1, <5>1, WithResultType
          <5> HIDE DEF found
          <5> QED
            BY <3>1, <5>2, RecordedType
        <4>3. disk' \in Job /\ users' \in Nat
          BY <4>1 DEF TypeOK
        <4> HIDE DEF found
        <4>4. CASE SetNoted(d, found(TRUE)) /\ Goto(d, "saveOk")
          BY <3>4a, <4>1, <4>2, <4>3, <4>4
        <4>5. CASE Fault /\ Goto(d, "saveErr")
                   /\ (SetMem(d, found(FALSE)) \/ SetMem(d, Recorded(found(FALSE))))
          <5>1. faults' \in Nat
            BY <4>5 DEF Fault, TypeOK
          <5> QED
            BY <3>2, <4>1, <4>2, <4>3, <4>5, <5>1
        <4> QED
          BY <4>1, <4>4, <4>5
      <3>9. CASE ValidateStep(d) \/ VerifyStep(d)
        BY <3>9, <3>8 DEF ValidateStep, VerifyStep, WorkingStates, ResultKinds
      <3>10. CASE SaveChunk(d)
        <4> DEFINE j == IF Has(mem[d], "chunks") THEN mem[d]
                        ELSE WithResult(mem[d], "chunks", Computed(d, users, TRUE))
        <4>1. Computed(d, users, TRUE) \in Result /\ "chunks" \in ResultKinds
          BY <3>1, ComputedType DEF TypeOK, ResultKinds
        <4>2. j \in Job /\ j.state = mem[d].state
          BY <3>1, <4>1, WithResultType
        <4>3. /\ SetMem(d, j)
              /\ \/ disk' = mem'[d] /\ UNCHANGED <<pc, faults>>
                 \/ Fault /\ Goto(d, "saveErr") /\ UNCHANGED disk
              /\ UNCHANGED <<users, lock, ctx, arg, ret, announced, interrupts, retries>>
          BY <3>10 DEF SaveChunk
        <4> HIDE DEF j
        <4>4. mem'[d] = j /\ pc = [pc EXCEPT ![d] = "step"]
          BY <3>1, <4>3 DEF SetMem, TypeOK
        <4> QED
          BY <3>2, <4>2, <4>3, <4>4 DEF TypeOK, Fault, Goto
      <3>11. CASE ImportStep(d)
        <4> DEFINE j == WithResult(mem[d], "report", Computed(d, users, TRUE))
        <4>1. Computed(d, users, TRUE) \in Result /\ "report" \in ResultKinds
          BY <3>1, ComputedType DEF TypeOK, ResultKinds
        <4>2. j \in Job /\ j.state = mem[d].state
          BY <3>1, <4>1, WithResultType
        <4>3. Recorded(j) \in Job /\ Recorded(j).state = mem[d].state
          BY <3>1, <4>2, RecordedType
        <4>4. /\ \/ SetNoted(d, j) /\ Goto(d, "saveOk")
                 \/ Fault /\ SetMem(d, Recorded(j)) /\ Goto(d, "saveErr")
              /\ UNCHANGED <<disk, lock, users, ctx, arg, ret, announced, interrupts, retries>>
          BY <3>11 DEF ImportStep
        <4> HIDE DEF j
        <4>5. CASE SetNoted(d, j) /\ Goto(d, "saveOk")
          BY <3>4a, <4>2, <4>4, <4>5 DEF TypeOK
        <4> QED
          BY <3>2, <4>2, <4>3, <4>4, <4>5 DEF TypeOK, Fault
      <3> QED
        BY <2>5, <3>5, <3>6, <3>7, <3>9, <3>10, <3>11, <3>4b DEF Step
    <2>6. CASE SaveStep(d)
      BY <2>6 DEF SaveStep, Fault, Return, Goto, TypeOK, DriverInv, Pcs, RunPcs, WorkPcs, Returns
    <2>7. CASE Move(d)
      <3> DEFINE next == [mem[d] EXCEPT !.state = NextState(@)]
      <3>1. mem[d].state \in BeforeDone
        BY <2>7 DEF Move, DriverInv, WorkPcs
      <3>2. next \in Job /\ next.state \in BeforeDone \cup {"done"}
        BY <3>1, NextStateType DEF TypeOK, Job, BeforeDone, JobStateSet, TerminalStates
      <3>3. /\ pc[d] = "move"
            /\ \/ disk' = next /\ SetMem(d, next) /\ announced' = FALSE /\ Goto(d, "loop")
                  /\ UNCHANGED <<ret, faults>>
               \/ Fault /\ Return(d, "storeFailed") /\ UNCHANGED <<disk, mem, announced>>
            /\ UNCHANGED <<lock, users, ctx, arg, interrupts, retries>>
        BY <2>7 DEF Move
      <3> HIDE DEF next
      <3>4. TypeOK'
        <4>1. users' \in Nat /\ faults' \in Nat /\ interrupts' \in Nat /\ retries' \in Nat
          BY <3>3 DEF Fault, TypeOK
        <4>2. disk' \in Job /\ mem' \in [Drivers -> Job] /\ announced' \in BOOLEAN
          BY <3>2, <3>3 DEF SetMem, TypeOK
        <4>3. pc' \in [Drivers -> Pcs] /\ ret' \in [Drivers -> Returns]
          BY <3>3 DEF Return, Goto, TypeOK, Pcs, RunPcs, Returns
        <4> QED
          BY <3>3, <4>1, <4>2, <4>3 DEF TypeOK
      <3>5. DriverInv'
        BY <3>2, <3>3 DEF SetMem, Return, Goto, TypeOK, DriverInv, RunPcs, WorkPcs
      <3> QED
        BY <3>4, <3>5
    <2>8. CASE Stop(d)
      <3> DEFINE failed == [mem[d] EXCEPT !.state = "failed", !.failedIn = mem[d].state]
      <3>1. mem[d].state \in BeforeDone
        BY <2>8 DEF Stop, DriverInv, WorkPcs
      <3>2. failed \in Job /\ failed.state \in TerminalStates
        BY <3>1 DEF TypeOK, Job, BeforeDone, JobStateSet, TerminalStates
      <3>3. /\ pc[d] = "stop"
            /\ \/ Return(d, "interrupted") /\ UNCHANGED <<disk, mem, announced, faults>>
               \/ disk' = failed /\ SetMem(d, failed) /\ announced' = FALSE /\ Goto(d, "finish")
                  /\ UNCHANGED <<ret, faults>>
               \/ Fault /\ Return(d, "storeFailed") /\ UNCHANGED <<disk, mem, announced>>
            /\ UNCHANGED <<lock, users, ctx, arg, interrupts, retries>>
        BY <2>8 DEF Stop
      <3> HIDE DEF failed
      <3>4. TypeOK'
        <4>1. users' \in Nat /\ faults' \in Nat /\ interrupts' \in Nat /\ retries' \in Nat
          BY <3>3 DEF Fault, TypeOK
        <4>2. disk' \in Job /\ mem' \in [Drivers -> Job] /\ announced' \in BOOLEAN
          BY <3>2, <3>3 DEF SetMem, TypeOK
        <4>3. pc' \in [Drivers -> Pcs] /\ ret' \in [Drivers -> Returns]
          BY <3>3 DEF Return, Goto, TypeOK, Pcs, RunPcs, Returns
        <4> QED
          BY <3>3, <4>1, <4>2, <4>3 DEF TypeOK
      <3>5. DriverInv'
        BY <3>2, <3>3 DEF SetMem, Return, Goto, TypeOK, DriverInv, RunPcs, WorkPcs
      <3> QED
        BY <3>4, <3>5
    <2>9. CASE Finish(d)
      <3>1. mem[d].state \in TerminalStates
        BY <2>9 DEF Finish, DriverInv
      <3>2. Recorded(mem[d]) \in Job /\ Recorded(mem[d]).state \in TerminalStates
        BY <3>1, RecordedType DEF TypeOK, TerminalStates
      <3> QED
        BY <2>9, <3>1, <3>2 DEF Finish, SetMem, Fault, Return, Goto, TypeOK, DriverInv, Pcs,
                                RunPcs, WorkPcs, Returns
    <2>10. CASE FinishSave(d)
      BY <2>10 DEF FinishSave, Fault, Return, Goto, TypeOK, DriverInv, Pcs, RunPcs, WorkPcs,
                   Returns
    <2>11. CASE Unlock(d)
      BY <2>11, NoJobType, HooksAssumption
         DEF Unlock, SetMem, Goto, TypeOK, DriverInv, Pcs, RunPcs, WorkPcs, Returns
    <2>12. CASE RetryRejected(d)
      BY <2>12 DEF RetryRejected, Return, Goto, TypeOK, DriverInv, Pcs, RunPcs, WorkPcs, Returns
    <2>13. CASE RetryLoad(d)
      <3>1. RetryFrom(d) \in JobStateSet
        BY <2>13, RetryAllowedState DEF RetryLoad, JobStateSet, TerminalStates
      <3>2. PutBack(disk, RetryFrom(d)) \in Job
        BY <3>1, PutBackType DEF TypeOK
      <3> QED
        BY <2>13, <3>2 DEF RetryLoad, SetMem, Goto, TypeOK, DriverInv, Pcs, RunPcs, WorkPcs,
                           RetryPcs
    <2>14. CASE RetrySave(d)
      BY <2>14 DEF RetrySave, Fault, Return, Goto, TypeOK, DriverInv, Pcs, RunPcs, WorkPcs,
                   Returns
    <2> QED
      BY <1>4, <2>1, <2>2, <2>3, <2>4, <2>5, <2>6, <2>7, <2>8, <2>9, <2>10, <2>11, <2>12, <2>13,
         <2>14, <2>1a DEF Continue
  <1>5. ASSUME NEW d \in Drivers, Cancel(d)
        PROVE  TypeInv'
    BY <1>5 DEF Cancel, TypeOK, DriverInv
  <1>6. ASSUME NEW p \in Processes, Crash(p)
        PROVE  TypeInv'
    <2>1. mem' \in [Drivers -> Job] /\ disk' \in Job
      BY <1>6, NoJobType DEF Crash, Dies, Killed, TypeOK
    <2>2. /\ lock' \in Drivers \cup {NoDriver}
          /\ arg' \in [Drivers -> HooksFiles \cup JobStateSet \cup {"none"}]
      BY <1>6, HooksAssumption DEF Crash, Dies, Killed, TypeOK
    <2>3. /\ pc' \in [Drivers -> Pcs] /\ ret' \in [Drivers -> Returns]
          /\ ctx' \in [Drivers -> BOOLEAN] /\ announced' \in BOOLEAN
      BY <1>6 DEF Crash, Dies, Killed, TypeOK, Pcs, Returns
    <2>4. users' \in Nat /\ faults' \in Nat /\ interrupts' \in Nat /\ retries' \in Nat
      BY <1>6 DEF Crash, Dies, TypeOK
    <2>5. DriverInv'
      BY <1>6 DEF Crash, Dies, Killed, DriverInv, RunPcs, WorkPcs
    <2> QED
      BY <2>1, <2>2, <2>3, <2>4, <2>5 DEF TypeOK
  <1>7. CASE UNCHANGED vars
    BY <1>7 DEF vars, TypeOK, DriverInv
  <1> QED
    BY <1>1, <1>2, <1>3, <1>4, <1>5, <1>6, <1>7 DEF Next

\* Every variable of the runner keeps its type, in every behaviour.
THEOREM TypeCorrect == Spec => []TypeOK
  <1>1. TypeInv => TypeOK
    BY DEF TypeInv
  <1> QED
    BY <1>1, InitType, NextType, PTL DEF Spec

-----------------------------------------------------------------------------
\* One driver at a time.

LEMMA InitSingle == Init => SingleDriver
  BY DEF Init, SingleDriver, Driving

\* A driver changes nothing of another one's, and goes on only while it is
\* between Lock and unlock; the lock is its own until it releases it.
LEMMA OwnSteps ==
  ASSUME TypeInv, NEW d \in Drivers, Continue(d)
  PROVE  /\ Driving(d)
         /\ \A e \in Drivers \ {d} :
              pc'[e] = pc[e] /\ mem'[e] = mem[e] /\ arg'[e] = arg[e] /\ ctx'[e] = ctx[e]
         /\ \/ lock' = lock
            \/ lock' = NoDriver /\ ~Driving(d)'
  <1> USE DEF TypeInv, Driving
  <1>1. CASE LoadNothingToDo(d) \/ LoadJob(d) \/ LoadFails(d) \/ Loop(d)
    BY <1>1 DEF LoadNothingToDo, LoadJob, LoadFails, Loop, Return, Goto, SetMem, TypeOK
  <1>2. CASE BeforeRun(d) \/ EnterState(d) \/ ExitState(d)
    BY <1>2 DEF BeforeRun, EnterState, ExitState, Fire, Goto, SetMem, TypeOK
  <1>3. CASE Step(d)
    <2>1. CASE NoStep(d) \/ StepSkipped(d) \/ StepError(d)
      BY <2>1 DEF NoStep, StepSkipped, StepError, InStep, Goto, SetNoted, SetMem, TypeOK
    <2>2. CASE ExportStep(d) \/ ValidateStep(d) \/ VerifyStep(d)
      BY <2>2 DEF ExportStep, ValidateStep, VerifyStep, CheckStep, InStep, Goto, SetNoted, SetMem, TypeOK
    <2>3. CASE SaveChunk(d) \/ ImportStep(d)
      BY <2>3 DEF SaveChunk, ImportStep, InStep, Goto, SetNoted, SetMem, TypeOK
    <2> QED
      BY <1>3, <2>1, <2>2, <2>3 DEF Step
  <1>4. CASE SaveStep(d) \/ Move(d) \/ Stop(d)
    BY <1>4 DEF SaveStep, Move, Stop, Return, Goto, SetMem, TypeOK
  <1>5. CASE Finish(d) \/ FinishSave(d)
    BY <1>5 DEF Finish, FinishSave, Return, Goto, SetMem, TypeOK
  <1>6. CASE Unlock(d)
    BY <1>6 DEF Unlock, Goto, SetMem, TypeOK
  <1>7. CASE RetryRejected(d) \/ RetryLoad(d) \/ RetrySave(d)
    BY <1>7 DEF RetryRejected, RetryLoad, RetrySave, Return, Goto, SetMem, TypeOK
  <1> QED
    BY <1>1, <1>2, <1>3, <1>4, <1>5, <1>6, <1>7 DEF Continue

LEMMA NextSingle == TypeInv /\ SingleDriver /\ [Next]_vars => SingleDriver'
  <1> SUFFICES ASSUME TypeInv, SingleDriver, [Next]_vars
               PROVE  SingleDriver'
    OBVIOUS
  <1> USE DEF SingleDriver, Driving
  <1>1. CASE Create
    BY <1>1 DEF Create
  <1>2. ASSUME NEW d \in Drivers, NEW file \in HooksFiles, RunLock(d, file, FALSE)
        PROVE  SingleDriver'
    BY <1>2, DriversAssumption DEF RunLock, Goto, TypeInv, TypeOK
  <1>3. ASSUME NEW d \in Drivers, NEW from \in JobStateSet \cup {"none"}, RetryLock(d, from)
        PROVE  SingleDriver'
    BY <1>3, DriversAssumption DEF RetryLock, Goto, TypeInv, TypeOK
  <1>4. ASSUME NEW d \in Drivers, Continue(d)
        PROVE  SingleDriver'
    BY <1>4, OwnSteps
  <1>5. ASSUME NEW d \in Drivers, Cancel(d)
        PROVE  SingleDriver'
    BY <1>5 DEF Cancel
  <1>6. ASSUME NEW p \in Processes, Crash(p)
        PROVE  SingleDriver'
    BY <1>6 DEF Crash, Dies, Killed
  <1>7. CASE UNCHANGED vars
    BY <1>7 DEF vars
  <1> QED
    BY <1>1, <1>2, <1>3, <1>4, <1>5, <1>6, <1>7 DEF Next

\* No two calls of Run or Retry, of whatever processes, ever work on the job at
\* once: Store.Lock does what runner.go and store.go count on.
THEOREM OneDriver == Spec => []SingleDriver
  BY InitType, NextType, InitSingle, NextSingle, PTL DEF Spec

-----------------------------------------------------------------------------
\* The record's invariants, of a record j and a version u of the users file.

ResultsFit(j, u) ==
  \A k \in ResultKinds :
    Has(j, k) => Index(StateOf(k)) <= Reached(j) /\ j.results[k].users = u

Passed(j) ==
  /\ Reached(j) > 1 /\ j.source => Has(j, "manifest")
  /\ Reached(j) > 2 => Has(j, "problems") /\ j.results["problems"].ok
  /\ Reached(j) > 3 => Has(j, "report")
  /\ j.state = "done" => Has(j, "diff") /\ j.results["diff"].ok

FailedInFits(j) ==
  /\ j.state = "failed" <=> j.failedIn # "none"
  /\ j.failedIn \in {"none"} \cup BeforeDone

CleanKinds(j) == \A k \in {"manifest", "report"} : Has(j, k) => j.results[k].ok

Coherent(j, u) == ResultsFit(j, u) /\ Passed(j) /\ FailedInFits(j) /\ CleanKinds(j)

\* j is ahead of base as AheadOfRecord says, with version u of the users file.
Ahead(j, base, u) ==
  /\ j.state = base.state /\ j.source = base.source /\ j.failedIn = base.failedIn
  /\ \A k \in ResultKinds :
       \/ j.results[k] = base.results[k]
       \/ /\ StateOf(k) = base.state
          /\ j.results[k].users = u /\ u > 0
          /\ k \in {"manifest", "report"} => j.results[k].ok

LEMMA CoherentAhead ==
  ASSUME NEW base \in Job, NEW j \in Job, NEW u \in Nat,
         Coherent(base, u), base.state \in BeforeDone, Ahead(j, base, u)
  PROVE  /\ Coherent(j, u)
         /\ \A k \in ResultKinds : Has(base, k) => Has(j, k)
  <1>1. Reached(j) = Index(base.state) /\ Reached(base) = Index(base.state)
    BY DEF Ahead, Reached, BeforeDone, WorkingStates
  <1>2. \A k \in ResultKinds : Has(base, k) => Has(j, k)
    BY DEF Ahead, Has, NoResult
  <1>3. ResultsFit(j, u)
    <2> SUFFICES ASSUME NEW k \in ResultKinds, Has(j, k)
                 PROVE  Index(StateOf(k)) <= Reached(j) /\ j.results[k].users = u
      BY DEF ResultsFit
    <2>1. CASE j.results[k] = base.results[k]
      BY <1>1, <2>1 DEF Coherent, ResultsFit, Has
    <2>2. CASE StateOf(k) = base.state /\ j.results[k].users = u
      BY <1>1, <2>2 DEF Index, BeforeDone, WorkingStates
    <2> QED
      BY <2>1, <2>2 DEF Ahead
  <1>4. Passed(j)
    <2>1. base.state = "exporting" => Index(base.state) = 1
      BY DEF Index
    <2>2. base.state = "validating" => Index(base.state) = 2
      BY DEF Index
    <2>3. base.state = "importing" => Index(base.state) = 3
      BY DEF Index
    <2>4. Index(base.state) > 2 => j.results["problems"] = base.results["problems"]
      BY <2>2 DEF Ahead, ResultKinds, StateOf
    <2>5. j.state # "done" /\ base.source = j.source
      BY DEF Ahead, BeforeDone, WorkingStates
    <2> QED
      BY <1>1, <1>2, <2>4, <2>5 DEF Coherent, Passed, ResultKinds
  <1>5. FailedInFits(j)
    BY DEF Coherent, FailedInFits, Ahead
  <1>6. CleanKinds(j)
    BY DEF Coherent, CleanKinds, Ahead, ResultKinds, Has
  <1> QED
    BY <1>2, <1>3, <1>4, <1>5, <1>6 DEF Coherent

\* The job goes on to the next state with the result of the one it leaves.
LEMMA CoherentMoved ==
  ASSUME NEW j \in Job, NEW u \in Nat, NEW next \in Job,
         Coherent(j, u), j.state \in BeforeDone, Clean(j),
         next.state = NextState(j.state), next.source = j.source,
         next.failedIn = j.failedIn, next.results = j.results
  PROVE  Coherent(next, u)
  <1>0. \A k \in ResultKinds : Has(next, k) <=> Has(j, k)
    BY DEF Has
  <1>1. /\ Reached(j) = Index(j.state) /\ Reached(next) = Index(j.state) + 1
        /\ next.state # "failed"
    BY DEF Reached, Index, NextState, BeforeDone, WorkingStates
  <1>2. ResultsFit(next, u)
    <2>1. Reached(j) \in Int
      BY <1>1 DEF Index, BeforeDone, WorkingStates
    <2>2. \A k \in ResultKinds : Index(StateOf(k)) \in Int
      BY DEF ResultKinds, StateOf, Index
    <2> QED
      BY <1>0, <1>1, <2>1, <2>2 DEF Coherent, ResultsFit
  <1>3. Passed(next)
    <2>1. j.results["problems"].ok => Has(j, "problems")
      BY DEF Has, NoResult
    <2>2. j.results["diff"].ok => Has(j, "diff")
      BY DEF Has, NoResult
    <2>3. CASE j.state \in {"queued", "exporting"}
      BY <1>0, <1>1, <2>3 DEF Passed, Index, Clean, NextState, ResultKinds
    <2>4. CASE j.state = "validating"
      BY <1>0, <1>1, <2>1, <2>4 DEF Coherent, Passed, Index, Clean, NextState, ResultKinds
    <2>5. CASE j.state = "importing"
      BY <1>0, <1>1, <2>5 DEF Coherent, Passed, Index, Clean, NextState, ResultKinds
    <2>6. CASE j.state = "verifying"
      BY <1>0, <1>1, <2>2, <2>6 DEF Coherent, Passed, Index, Clean, NextState, ResultKinds
    <2> QED
      BY <2>3, <2>4, <2>5, <2>6 DEF BeforeDone, WorkingStates
  <1>4. FailedInFits(next)
    BY <1>1 DEF Coherent, FailedInFits, BeforeDone, WorkingStates
  <1>5. CleanKinds(next)
    BY DEF Coherent, CleanKinds, Has
  <1> QED
    BY <1>2, <1>3, <1>4, <1>5 DEF Coherent

\* A job that fails keeps what it has, and the state it failed in.
LEMMA CoherentFailed ==
  ASSUME NEW j \in Job, NEW u \in Nat, NEW failed \in Job,
         Coherent(j, u), j.state \in BeforeDone,
         failed.state = "failed", failed.source = j.source,
         failed.failedIn = j.state, failed.results = j.results
  PROVE  Coherent(failed, u)
  <1>1. Reached(failed) = Reached(j)
    BY DEF Reached, BeforeDone, WorkingStates
  <1>2. \A k \in ResultKinds : Has(failed, k) <=> Has(j, k)
    BY DEF Has
  <1>3. ResultsFit(failed, u) /\ Passed(failed) /\ CleanKinds(failed)
    BY <1>1, <1>2 DEF Coherent, ResultsFit, Passed, CleanKinds, ResultKinds
  <1>4. FailedInFits(failed)
    BY DEF FailedInFits, BeforeDone, WorkingStates
  <1> QED
    BY <1>3, <1>4 DEF Coherent

\* Two records that differ by hook calls only.
LEMMA CoherentSame ==
  ASSUME NEW j, NEW base, NEW u,
         Coherent(base, u), j.state = base.state, j.source = base.source,
         j.failedIn = base.failedIn, j.results = base.results
  PROVE  Coherent(j, u)
  BY DEF Coherent, ResultsFit, Passed, FailedInFits, CleanKinds, Has, Reached

\* The state a retry names is one that runs a step.
LEMMA RetryState ==
  ASSUME NEW j, FailedInFits(j), Retryable(j), NEW from, RetryAllowed(from, j.failedIn)
  PROVE  /\ from \in WorkingStates /\ j.failedIn \in WorkingStates
         /\ Index(from) <= Index(j.failedIn)
         /\ Reached(j) = Index(j.failedIn)
  <1>1. j.failedIn \in BeforeDone
    BY DEF FailedInFits, Retryable
  <1>2. from \in WorkingStates \cup {"done"}
    BY RetryAllowedState
  <1> QED
    BY <1>1, <1>2 DEF RetryAllowed, Index, BeforeDone, WorkingStates, Retryable, Reached

\* A failed job put back has nothing of the states it is to run again, but for
\* the one it failed in.
LEMMA CoherentPutBack ==
  ASSUME NEW j \in Job, NEW u \in Nat, Coherent(j, u), Retryable(j),
         NEW from, RetryAllowed(from, j.failedIn)
  PROVE  Coherent(PutBack(j, from), u)
  <1> DEFINE back == PutBack(j, from)
  <1>1. /\ from \in WorkingStates /\ Index(from) <= Index(j.failedIn)
        /\ Reached(j) = Index(j.failedIn)
    BY RetryState DEF Coherent
  <1>2. /\ back.state = from /\ back.failedIn = "none" /\ back.source = j.source
        /\ \A k \in ResultKinds :
             back.results[k] = IF Kept(StateOf(k), from, j.failedIn) THEN j.results[k]
                                                                     ELSE NoResult
    <2>1. from \in JobStateSet
      BY <1>1 DEF JobStateSet
    <2> QED
      BY <2>1, PutBackType
  <1> HIDE DEF back
  <1>3. Reached(back) = Index(from)
    BY <1>1, <1>2 DEF Reached, WorkingStates
  <1>4. \A k \in ResultKinds :
          Has(back, k) => /\ Has(j, k) /\ back.results[k] = j.results[k]
                          /\ Kept(StateOf(k), from, j.failedIn)
    BY <1>2 DEF Has
  <1>5. ResultsFit(back, u)
    <2> SUFFICES ASSUME NEW k \in ResultKinds, Has(back, k)
                 PROVE  Index(StateOf(k)) <= Reached(back) /\ back.results[k].users = u
      BY DEF ResultsFit
    <2>1. Index(StateOf(k)) <= Index(j.failedIn) /\ j.results[k].users = u
      BY <1>1, <1>4 DEF Coherent, ResultsFit
    <2>2. Index(StateOf(k)) \in Int /\ Index(from) \in Int
      BY <1>1 DEF ResultKinds, StateOf, Index, WorkingStates
    <2> QED
      BY <1>3, <1>4, <2>1, <2>2 DEF Kept
  <1>6. Passed(back)
    <2>1. \A k \in ResultKinds :
            Index(StateOf(k)) < Index(from) => back.results[k] = j.results[k]
      BY <1>2 DEF Kept
    <2>2. /\ Index(from) \in 1..4 /\ Index(j.failedIn) \in Int
          /\ Reached(j) >= Reached(back)
      BY <1>1, <1>3, RetryState DEF Index, WorkingStates, Coherent
    <2>3. /\ Index(StateOf("manifest")) = 1 /\ Index(StateOf("problems")) = 2
          /\ Index(StateOf("report")) = 3
      BY DEF StateOf, Index
    <2>4. Reached(j) \in Int
      BY <1>1, <2>2
    <2> QED
      BY <1>1, <1>2, <1>3, <2>1, <2>2, <2>3, <2>4
         DEF Coherent, Passed, Has, ResultKinds, WorkingStates
  <1>7. FailedInFits(back)
    BY <1>1, <1>2 DEF FailedInFits, WorkingStates
  <1>8. CleanKinds(back)
    BY <1>4 DEF Coherent, CleanKinds, ResultKinds
  <1> QED
    BY <1>5, <1>6, <1>7, <1>8 DEF Coherent, back

\* A job to export has no result yet.
LEMMA NothingExported ==
  ASSUME NEW j \in Job, NEW u \in Nat, Coherent(j, u), j.state = "exporting",
         ~Has(j, "manifest")
  PROVE  \A v \in Nat : Coherent(j, v)
  <1>1. \A k \in ResultKinds : ~Has(j, k)
    BY DEF Coherent, ResultsFit, Reached, Index, StateOf, ResultKinds
  <1> QED
    BY <1>1 DEF Coherent, ResultsFit

-----------------------------------------------------------------------------
\* The inductive invariant.

Created == disk.state = "absent" => disk = NoJob

RecordInv ==
  /\ TypeInv /\ SingleDriver
  /\ CopyInv /\ Coherent(disk, users) /\ Created

\* It is IInv and the safety properties the runs check.
LEMMA RecordInvImplies ==
  RecordInv => /\ IInv /\ NoLaterResults /\ SameUsersFile /\ PassedStates
               /\ FailedInRecorded /\ NoLostUpdate
  <1> SUFFICES ASSUME RecordInv
               PROVE  /\ IInv /\ NoLaterResults /\ SameUsersFile /\ PassedStates
                      /\ FailedInRecorded /\ NoLostUpdate
    OBVIOUS
  <1> USE DEF RecordInv, Coherent
  <1>1. IInv
    BY DEF IInv, TypeInv, CleanRecords, CleanKinds, Created
  <1>2. NoLaterResults /\ SameUsersFile
    BY DEF NoLaterResults, SameUsersFile, ResultsFit, ResultKinds
  <1>3. PassedStates
    BY DEF PassedStates, Passed, Index
  <1>4. FailedInRecorded
    BY DEF FailedInRecorded, FailedInFits, BeforeDone
  <1>5. NoLostUpdate
    <2> SUFFICES ASSUME NEW d \in Drivers, pc[d] \in RunPcs \ {"load"},
                        NEW k \in ResultKinds, Has(disk, k)
                 PROVE  Has(mem[d], k)
      BY DEF NoLostUpdate
    <2>1. AheadOfRecord(mem[d]) \/ SameRecord(mem[d])
      BY DEF CopyInv, CopyOf
    <2>2. CASE SameRecord(mem[d])
      BY <2>2 DEF SameRecord, Has
    <2>3. CASE AheadOfRecord(mem[d])
      BY <2>3 DEF AheadOfRecord, Has, NoResult
    <2> QED
      BY <2>1, <2>2, <2>3
  <1> QED
    BY <1>1, <1>2, <1>3, <1>4, <1>5

LEMMA InitRecord == Init => RecordInv
  <1> SUFFICES ASSUME Init
               PROVE  RecordInv
    OBVIOUS
  <1>1. TypeInv /\ SingleDriver
    BY InitType, InitSingle
  <1>2. CopyInv
    BY DEF Init, CopyInv, CopyOf, RunPcs
  <1>3. disk = NoJob /\ \A k \in ResultKinds : ~Has(NoJob, k)
    BY DEF Init, NoJob, Has
  <1>4. Coherent(disk, users)
    BY <1>3 DEF Coherent, ResultsFit, Passed, FailedInFits, CleanKinds, Reached, Index, NoJob,
                ResultKinds
  <1> QED
    BY <1>1, <1>2, <1>3, <1>4 DEF RecordInv, Created

\* What a step of driver d has to establish: the other drivers wait for the lock.
DriverKeeps(d) == Coherent(disk, users) /\ Created /\ CopyOf(d)

LEMMA OthersWait ==
  ASSUME RecordInv, NEW d \in Drivers, Continue(d), TypeInv', SingleDriver', DriverKeeps(d)'
  PROVE  RecordInv'
  <1>1. \A e \in Drivers \ {d} : pc'[e] = "idle"
    BY OwnSteps DEF RecordInv, SingleDriver, Driving
  <1>2. \A e \in Drivers : CopyOf(e)'
    BY <1>1 DEF DriverKeeps, CopyOf, RunPcs
  <1> QED
    BY <1>2 DEF DriverKeeps, RecordInv, CopyInv

\* A record that only gained hook calls.
LEMMA SameAs ==
  ASSUME NEW d \in Drivers, disk' = disk,
         mem'[d].state = mem[d].state, mem'[d].source = mem[d].source,
         mem'[d].failedIn = mem[d].failedIn, mem'[d].results = mem[d].results
  PROVE  /\ SameRecord(mem[d]) => SameRecord(mem[d])' /\ AheadOfRecord(mem[d])'
         /\ users' = users /\ AheadOfRecord(mem[d]) => AheadOfRecord(mem[d])'
         /\ Clean(mem[d]) => Clean(mem[d])'
  BY DEF SameRecord, AheadOfRecord, Clean, Has

-----------------------------------------------------------------------------
\* Each action of a driver keeps the invariant.

\* Loading, hook events and the loop's head.
LEMMA KeptByControl ==
  ASSUME RecordInv, TypeInv', NEW d \in Drivers,
         \/ LoadNothingToDo(d) \/ LoadJob(d) \/ LoadFails(d) \/ Loop(d)
         \/ BeforeRun(d) \/ EnterState(d) \/ ExitState(d)
         \/ Finish(d) \/ RetryRejected(d) \/ Unlock(d)
  PROVE  DriverKeeps(d)'
  <1> USE DEF RecordInv, DriverKeeps
  <1>0. /\ disk' = disk /\ users' = users /\ Coherent(disk, users)' /\ Created'
        /\ CopyOf(d) /\ mem[d] \in Job /\ disk \in Job /\ pc[d] # "idle"
    BY DEF LoadNothingToDo, LoadJob, LoadFails, Loop, BeforeRun, EnterState, ExitState, Fire,
           Finish, RetryRejected, Unlock, TypeInv, TypeOK, Created, CopyInv
  <1>1. CASE LoadNothingToDo(d) \/ LoadFails(d) \/ RetryRejected(d) \/ Unlock(d)
    <2>1. pc'[d] \in {"release", "idle"}
      BY <1>1 DEF LoadNothingToDo, LoadFails, RetryRejected, Unlock, Return, Goto, TypeInv, TypeOK
    <2> QED
      BY <1>0, <2>1 DEF CopyOf, RunPcs
  <1>2. CASE LoadJob(d)
    <2>1. /\ arg[d] \in HooksFiles /\ disk.state # "absent"
          /\ pc'[d] = "before" /\ mem'[d] = NoteHooksFile(disk, arg[d])
      BY <1>2 DEF LoadJob, SetMem, Goto, TypeInv, TypeOK, DriverInv, RunPcs
    <2>2. SameRecord(mem[d])'
      BY <1>0, <2>1, NoteHooksFileType DEF SameRecord
    <2> QED
      BY <1>0, <2>1, <2>2 DEF CopyOf
  <1>3. CASE Loop(d)
    <2>1. mem' = mem /\ pc[d] = "loop" /\ pc'[d] \in {"finish", "release", "enter"}
      BY <1>3 DEF Loop, Return, Goto, TypeInv, TypeOK
    <2>2. SameRecord(mem[d])'
      BY <1>0, <2>1, SameAs DEF CopyOf, RunPcs
    <2> QED
      BY <1>0, <2>1, <2>2 DEF CopyOf, RunPcs
  <1>4. ASSUME mem'[d].state = mem[d].state, mem'[d].source = mem[d].source,
               mem'[d].failedIn = mem[d].failedIn, mem'[d].results = mem[d].results,
               \/ pc[d] = "before" /\ pc'[d] \in {"loop", "stop"}
               \/ pc[d] = "enter" /\ pc'[d] \in {"step", "stop"}
               \/ pc[d] = "exit" /\ pc'[d] \in {"move", "stop"}
               \/ pc[d] = "finish" /\ pc'[d] \in {"finishSave", "release"}
        PROVE  CopyOf(d)'
    <2>1. SameRecord(mem[d])' /\ AheadOfRecord(mem[d])'
      BY <1>0, <1>4, SameAs DEF CopyOf, RunPcs
    <2>2. pc'[d] = "move" => Clean(mem[d])'
      BY <1>0, <1>4, SameAs DEF CopyOf
    <2> QED
      BY <1>4, <2>1, <2>2 DEF CopyOf
  <1>5. CASE BeforeRun(d) \/ EnterState(d) \/ ExitState(d) \/ Finish(d)
    <2>1. /\ pc[d] \in {"before", "enter", "exit", "finish"}
          /\ mem[d].state # "absent"
      BY <1>5 DEF BeforeRun, EnterState, ExitState, Fire, Finish, TypeInv, DriverInv, WorkPcs,
                  BeforeDone, WorkingStates, TerminalStates
    <2>2. mem'[d] \in {mem[d], Recorded(mem[d])}
      BY <1>5 DEF BeforeRun, EnterState, ExitState, Fire, Finish, SetMem, TypeInv, TypeOK
    <2>3. /\ mem'[d].state = mem[d].state /\ mem'[d].source = mem[d].source
          /\ mem'[d].failedIn = mem[d].failedIn /\ mem'[d].results = mem[d].results
      BY <1>0, <2>1, <2>2, RecordedType
    <2>4. \/ pc[d] = "before" /\ pc'[d] \in {"loop", "stop"}
          \/ pc[d] = "enter" /\ pc'[d] \in {"step", "stop"}
          \/ pc[d] = "exit" /\ pc'[d] \in {"move", "stop"}
          \/ pc[d] = "finish" /\ pc'[d] \in {"finishSave", "release"}
      BY <1>5 DEF BeforeRun, EnterState, ExitState, Fire, Finish, Return, Goto, TypeInv, TypeOK
    <2> QED
      BY <1>0, <1>4, <2>3, <2>4
  <1> QED
    BY <1>1, <1>2, <1>3, <1>5

\* The saves, each of the whole record.
LEMMA KeptBySaves ==
  ASSUME RecordInv, TypeInv', NEW d \in Drivers,
         SaveStep(d) \/ Move(d) \/ Stop(d) \/ FinishSave(d) \/ RetryLoad(d) \/ RetrySave(d)
  PROVE  DriverKeeps(d)'
  <1> USE DEF RecordInv, DriverKeeps
  <1>0. /\ users' = users /\ CopyOf(d) /\ mem[d] \in Job /\ disk \in Job /\ users \in Nat
        /\ disk' \in Job /\ pc \in [Drivers -> Pcs] /\ mem \in [Drivers -> Job]
    BY DEF SaveStep, Move, Stop, FinishSave, RetryLoad, RetrySave, TypeInv, TypeOK, CopyInv
  \* A save that fails, or is not made, leaves the record as it is.
  <1>1. disk' = disk => Coherent(disk, users)' /\ Created'
    BY <1>0 DEF Created
  \* A call that returns works on no copy any more.
  <1>2. pc'[d] = "release" => CopyOf(d)'
    BY DEF CopyOf, RunPcs
  <1>3. CASE SaveStep(d)
    <2>1. /\ pc[d] \in {"saveOk", "saveErr"} /\ mem' = mem /\ mem[d].state \in BeforeDone
          /\ \/ disk' = mem[d] \/ disk' = disk
      BY <1>3 DEF SaveStep, TypeInv, DriverInv, WorkPcs
    <2>2. AheadOfRecord(mem[d])
      BY <1>0, <2>1 DEF CopyOf, RunPcs
    <2>3. CASE disk' = mem[d]
      <3>1. Ahead(mem[d], disk, users) /\ disk.state \in BeforeDone
        BY <2>1, <2>2 DEF AheadOfRecord, Ahead
      <3>2. Coherent(disk, users)'
        BY <1>0, <2>3, <3>1, CoherentAhead
      <3>3. SameRecord(mem[d])' /\ AheadOfRecord(mem[d])' /\ Created'
        BY <2>1, <2>3 DEF SameRecord, AheadOfRecord, Created, BeforeDone, WorkingStates
      <3>4. pc'[d] = "exit" => Clean(mem[d])'
        BY <1>0, <1>3, <2>1 DEF SaveStep, Goto, CopyOf
      <3>5. pc'[d] \in {"stop", "release", "exit"}
        BY <1>0, <1>3 DEF SaveStep, Return, Goto
      <3> QED
        BY <3>2, <3>3, <3>4, <3>5 DEF CopyOf
    <2>4. CASE disk' = disk /\ disk' # mem[d]
      <3>1. pc'[d] = "stop"
        BY <1>0, <1>3, <2>4 DEF SaveStep, Goto
      <3>2. AheadOfRecord(mem[d])'
        BY <1>0, <2>1, <2>2, <2>4 DEF AheadOfRecord
      <3> QED
        BY <1>1, <2>4, <3>1, <3>2 DEF CopyOf
    <2> QED
      BY <2>1, <2>3, <2>4
  <1>4. CASE Move(d)
    <2> DEFINE next == [mem[d] EXCEPT !.state = NextState(@)]
    <2>1. mem[d].state \in BeforeDone /\ pc[d] = "move" /\ Clean(mem[d]) /\ SameRecord(mem[d])
      BY <1>0, <1>4 DEF Move, TypeInv, DriverInv, WorkPcs, CopyOf, RunPcs
    <2>2. /\ next.state = NextState(mem[d].state) /\ next.source = mem[d].source
          /\ next.failedIn = mem[d].failedIn /\ next.results = mem[d].results
      BY <1>0 DEF Job
    <2>3. Coherent(mem[d], users)
      BY <2>1, CoherentSame DEF SameRecord
    <2>4. \/ disk' = next /\ SetMem(d, next) /\ Goto(d, "loop")
          \/ disk' = disk /\ Return(d, "storeFailed")
      BY <1>4 DEF Move
    <2> HIDE DEF next
    <2>5. CASE disk' = next /\ SetMem(d, next) /\ Goto(d, "loop")
      <3>1. Coherent(disk, users)'
        BY <1>0, <2>1, <2>2, <2>3, <2>5, CoherentMoved
      <3>2. Created'
        BY <2>1, <2>2, <2>5, NextStateType DEF Created, BeforeDone, WorkingStates
      <3>3. pc'[d] = "loop" /\ SameRecord(mem[d])'
        BY <1>0, <2>5 DEF SetMem, Goto, SameRecord
      <3> QED
        BY <3>1, <3>2, <3>3 DEF CopyOf
    <2>6. CASE disk' = disk /\ Return(d, "storeFailed")
      BY <1>0, <1>1, <1>2, <2>6 DEF Return, Goto
    <2> QED
      BY <2>4, <2>5, <2>6
  <1>5. CASE Stop(d)
    <2> DEFINE failed == [mem[d] EXCEPT !.state = "failed", !.failedIn = mem[d].state]
    <2>1. mem[d].state \in BeforeDone /\ AheadOfRecord(mem[d])
      BY <1>0, <1>5 DEF Stop, TypeInv, DriverInv, WorkPcs, CopyOf, RunPcs
    <2>2. /\ failed.state = "failed" /\ failed.source = mem[d].source
          /\ failed.failedIn = mem[d].state /\ failed.results = mem[d].results
      BY <1>0 DEF Job
    <2>3. Coherent(mem[d], users)
      <3>1. Ahead(mem[d], disk, users) /\ disk.state \in BeforeDone
        BY <2>1 DEF AheadOfRecord, Ahead
      <3> QED
        BY <1>0, <3>1, CoherentAhead
    <2>4. \/ disk' = failed /\ SetMem(d, failed) /\ Goto(d, "finish")
          \/ disk' = disk /\ Goto(d, "release")
      BY <1>5 DEF Stop, Return
    <2> HIDE DEF failed
    <2>5. CASE disk' = failed /\ SetMem(d, failed) /\ Goto(d, "finish")
      <3>1. Coherent(disk, users)'
        BY <1>0, <2>1, <2>2, <2>3, <2>5, CoherentFailed
      <3>2. Created'
        BY <2>2, <2>5 DEF Created
      <3>3. pc'[d] = "finish" /\ SameRecord(mem[d])'
        BY <1>0, <2>5 DEF SetMem, Goto, SameRecord
      <3> QED
        BY <3>1, <3>2, <3>3 DEF CopyOf
    <2>6. CASE disk' = disk /\ Goto(d, "release")
      BY <1>0, <1>1, <1>2, <2>6 DEF Goto
    <2> QED
      BY <2>4, <2>5, <2>6
  <1>6. CASE FinishSave(d)
    <2>1. /\ SameRecord(mem[d]) /\ mem[d].state # "absent"
          /\ disk' = mem[d] \/ disk' = disk
          /\ pc'[d] = "release"
      BY <1>0, <1>6 DEF FinishSave, Return, Goto, TypeInv, DriverInv, CopyOf, RunPcs, TerminalStates
    <2>2. disk' = mem[d] => Coherent(disk, users)' /\ Created'
      BY <1>0, <2>1, CoherentSame DEF SameRecord, Created
    <2> QED
      BY <1>1, <1>2, <2>1, <2>2
  <1>7. CASE RetryLoad(d)
    <2> DEFINE from == RetryFrom(d)
    <2>1. /\ disk' = disk /\ Retryable(disk) /\ RetryAllowed(from, disk.failedIn)
          /\ mem'[d] = PutBack(disk, from) /\ pc'[d] = "retrySave"
      BY <1>0, <1>7 DEF RetryLoad, SetMem, Goto
    <2>2. from \in WorkingStates
      BY <2>1, RetryState DEF Coherent
    <2> HIDE DEF from
    <2>3. CopyOf(d)'
      BY <2>1, <2>2 DEF CopyOf, RunPcs, Retryable
    <2> QED
      BY <1>1, <2>1, <2>3
  <1>8. CASE RetrySave(d)
    <2>1. /\ pc'[d] = "release" /\ pc[d] = "retrySave"
          /\ disk' = mem[d] \/ disk' = disk
      BY <1>0, <1>8 DEF RetrySave, Return, Goto
    <2>2. PICK from \in WorkingStates :
            RetryAllowed(from, disk.failedIn) /\ mem[d] = PutBack(disk, from)
      BY <1>0, <2>1 DEF CopyOf
    <2>3. Retryable(disk)
      BY <1>0, <2>1 DEF CopyOf
    <2>4. Coherent(mem[d], users)
      BY <1>0, <2>2, <2>3, CoherentPutBack
    <2>5. mem[d].state # "absent"
      BY <1>0, <2>2, PutBackType DEF JobStateSet, WorkingStates
    <2> QED
      BY <1>0, <1>1, <1>2, <2>1, <2>4, <2>5 DEF Created
  <1> QED
    BY <1>3, <1>4, <1>5, <1>6, <1>7, <1>8

\* A result computed with the users file there is, of the state the job is in.
LEMMA AheadWith ==
  ASSUME NEW j \in Job, SameRecord(j), NEW k \in ResultKinds, StateOf(k) = j.state,
         NEW r \in Result, r.users = users, users > 0,
         k \in {"manifest", "report"} => r.ok
  PROVE  AheadOfRecord(WithResult(j, k, r))
  <1> DEFINE w == WithResult(j, k, r)
  <1>1. j.results \in [ResultKinds -> Result]
    BY DEF Job
  <1>2. /\ w.state = j.state /\ w.source = j.source /\ w.failedIn = j.failedIn
        /\ w.results = [j.results EXCEPT ![k] = r]
    BY WithResultType
  <1> HIDE DEF w
  <1>3. \A l \in ResultKinds : w.results[l] = IF l = k THEN r ELSE j.results[l]
    BY <1>1, <1>2
  <1>4. AheadOfRecord(w)
    BY <1>2, <1>3 DEF SameRecord, AheadOfRecord
  <1> QED
    BY <1>4 DEF w

\* The steps: what one sets is of the job's state, and of the users file.
LEMMA KeptBySteps ==
  ASSUME RecordInv, TypeInv', NEW d \in Drivers, Step(d)
  PROVE  DriverKeeps(d)'
  <1> USE DEF RecordInv, DriverKeeps
  <1>1. pc[d] = "step"
    BY DEF Step, NoStep, StepSkipped, ExportStep, ValidateStep, VerifyStep, CheckStep, SaveChunk,
           ImportStep, StepError, InStep
  <1>2. /\ mem[d] \in Job /\ disk \in Job /\ users \in Nat /\ mem \in [Drivers -> Job]
        /\ pc \in [Drivers -> Pcs] /\ arg[d] \in HooksFiles /\ mem[d].state \in BeforeDone
        /\ disk' \in Job
    BY <1>1 DEF TypeInv, TypeOK, DriverInv, RunPcs, WorkPcs
  <1>3. SameRecord(mem[d]) /\ mem[d].state # "absent"
    BY <1>1, <1>2 DEF CopyInv, CopyOf, RunPcs, BeforeDone, WorkingStates
  <1>4. disk' = disk /\ users' = users => Coherent(disk, users)' /\ Created'
    BY DEF Created
  \* A step that leaves the record alone and its copy ahead of it.
  <1>5. ASSUME NEW j \in Job, j.state = mem[d].state, AheadOfRecord(j),
               SetMem(d, j) \/ SetMem(d, Recorded(j)), disk' = disk, users' = users,
               \/ Goto(d, "saveOk") /\ Clean(j)
               \/ Goto(d, "saveErr")
        PROVE  DriverKeeps(d)'
    <2>1. /\ mem'[d].state = j.state /\ mem'[d].source = j.source
          /\ mem'[d].failedIn = j.failedIn /\ mem'[d].results = j.results
      BY <1>2, <1>3, <1>5, RecordedType DEF SetMem
    <2>2. AheadOfRecord(mem[d])' /\ (Clean(j) => Clean(mem[d])')
      BY <1>5, <2>1 DEF AheadOfRecord, Clean, Has
    <2>3. pc'[d] \in {"saveOk", "saveErr"} /\ (pc'[d] = "saveOk" => Clean(j))
      BY <1>2, <1>5 DEF Goto
    <2> QED
      BY <1>4, <1>5, <2>2, <2>3 DEF CopyOf
  <1>6. AheadOfRecord(mem[d])
    BY <1>3 DEF SameRecord, AheadOfRecord
  <1>7. CASE NoStep(d)
    <2>1. mem[d].state = "queued" /\ UNCHANGED <<disk, users, mem>> /\ pc'[d] = "exit"
      BY <1>2, <1>7 DEF NoStep, InStep, Goto
    <2>2. Clean(mem[d])' /\ SameRecord(mem[d])'
      BY <1>3, <2>1 DEF Clean, SameRecord
    <2> QED
      BY <1>4, <2>1, <2>2 DEF CopyOf
  <1>8. CASE StepSkipped(d)
    <2>1. Clean(mem[d])
      BY <1>8 DEF StepSkipped, InStep, Clean
    <2> QED
      BY <1>2, <1>5, <1>6, <1>8, <2>1 DEF StepSkipped, SetNoted
  <1>9. CASE StepError(d)
    <2>1. SetMem(d, mem[d]) \/ SetMem(d, Recorded(mem[d]))
      BY <1>2, <1>9 DEF StepError, SetMem
    <2> QED
      BY <1>2, <1>5, <1>6, <1>9, <2>1 DEF StepError
  <1>10. CASE ExportStep(d)
    <2> DEFINE r == Computed(d, users + 1, TRUE)
               j == WithResult(mem[d], "manifest", r)
    <2>1. /\ mem[d].state = "exporting" /\ ~Has(mem[d], "manifest")
          /\ users' = users + 1 /\ disk' = disk /\ pc'[d] = "saveOk"
          /\ SetMem(d, j) \/ SetMem(d, Recorded(j))
      BY <1>2, <1>10 DEF ExportStep, InStep, SetNoted, Goto
    <2>0. users + 1 \in Nat /\ users + 1 > 0 /\ "manifest" \in ResultKinds
      BY <1>2 DEF ResultKinds
    <2>2. r \in Result /\ r.users = users + 1 /\ r.ok = TRUE
      BY <1>2, <2>0, ComputedType
    <2> HIDE DEF r
    <2>3. /\ j \in Job /\ j.state = mem[d].state /\ j.source = mem[d].source
          /\ j.failedIn = mem[d].failedIn
          /\ j.results = [mem[d].results EXCEPT !["manifest"] = r]
      BY <1>2, <2>0, <2>2, WithResultType
    <2> HIDE DEF j
    <2>4. /\ mem'[d].state = j.state /\ mem'[d].source = j.source
          /\ mem'[d].failedIn = j.failedIn /\ mem'[d].results = j.results
      BY <1>2, <1>3, <2>1, <2>3, RecordedType DEF SetMem
    <2>5. mem[d].results \in [ResultKinds -> Result]
      BY <1>2 DEF Job
    <2>6. AheadOfRecord(mem[d])'
      <3>1. \A k \in ResultKinds : mem'[d].results[k] = IF k = "manifest" THEN r
                                                         ELSE mem[d].results[k]
        BY <2>3, <2>4, <2>5
      <3>2. /\ mem'[d].state = disk'.state /\ mem'[d].source = disk'.source
            /\ mem'[d].failedIn = disk'.failedIn /\ mem[d].results = disk'.results
        BY <1>3, <2>1, <2>3, <2>4 DEF SameRecord
      <3>3. StateOf("manifest") = disk'.state
        BY <2>1, <2>3, <2>4, <3>2 DEF StateOf
      <3>4. mem'[d].results["manifest"] = r /\ r.ok /\ r.users = users' /\ users' > 0
        BY <2>0, <2>1, <2>2, <3>1
      <3>5. \A k \in ResultKinds \ {"manifest"} : mem'[d].results[k] = disk'.results[k]
        BY <3>1, <3>2
      <3> QED
        BY <3>2, <3>3, <3>4, <3>5 DEF AheadOfRecord
    <2>7. Clean(mem[d])'
      BY <2>0, <2>1, <2>2, <2>3, <2>4, <2>5 DEF Clean, Has, NoResult
    <2>8. Coherent(disk, users)' /\ Created'
      <3>1. disk.state = "exporting" /\ ~Has(disk, "manifest")
        BY <1>3, <2>1 DEF SameRecord, Has
      <3> QED
        BY <1>2, <2>0, <2>1, <3>1, NothingExported DEF Created
    <2> QED
      BY <2>1, <2>6, <2>7, <2>8 DEF CopyOf
  <1>11. ASSUME NEW k \in ResultKinds, NEW ok \in BOOLEAN, users > 0, StateOf(k) = mem[d].state,
                k \in {"manifest", "report"} => ok
         PROVE  LET j == WithResult(mem[d], k, Computed(d, users, ok)) IN
                  /\ j \in Job /\ j.state = mem[d].state /\ AheadOfRecord(j)
                  /\ j.results[k].ok = ok /\ Has(j, k)
    <2> DEFINE r == Computed(d, users, ok)
    <2>1. r \in Result /\ r.users = users /\ r.ok = ok
      BY <1>2, ComputedType
    <2> HIDE DEF r
    <2>2. AheadOfRecord(WithResult(mem[d], k, r))
      BY <1>2, <1>3, <1>11, <2>1, AheadWith
    <2>3. mem[d].results \in [ResultKinds -> Result]
      BY <1>2 DEF Job
    <2>4. r # NoResult
      BY <1>11, <2>1 DEF NoResult
    <2>5. /\ WithResult(mem[d], k, r) \in Job
          /\ WithResult(mem[d], k, r).state = mem[d].state
          /\ WithResult(mem[d], k, r).results = [mem[d].results EXCEPT ![k] = r]
      BY <1>2, <2>1, WithResultType
    <2>6. WithResult(mem[d], k, r).results[k] = r
      BY <2>3, <2>5
    <2> QED
      BY <2>1, <2>2, <2>4, <2>5, <2>6 DEF r, Has
  <1>12. ASSUME NEW s, NEW k \in {"problems", "diff"}, CheckStep(d, s, k), StateOf(k) = s
         PROVE  DriverKeeps(d)'
    <2> DEFINE found(ok) == WithResult(mem[d], k, Computed(d, users, ok))
    <2>1. /\ mem[d].state = s /\ users > 0 /\ disk' = disk /\ users' = users
          /\ \/ (SetMem(d, found(TRUE)) \/ SetMem(d, Recorded(found(TRUE)))) /\ Goto(d, "saveOk")
             \/ (SetMem(d, found(FALSE)) \/ SetMem(d, Recorded(found(FALSE)))) /\ Goto(d, "saveErr")
      BY <1>12 DEF CheckStep, InStep, SetNoted
    <2>2. \A ok \in BOOLEAN : /\ found(ok) \in Job /\ found(ok).state = mem[d].state
                              /\ AheadOfRecord(found(ok)) /\ found(ok).results[k].ok = ok
      BY <1>11, <1>12, <2>1 DEF ResultKinds
    <2> HIDE DEF found
    <2>3. Clean(found(TRUE))
      BY <1>12, <2>1, <2>2 DEF Clean, StateOf
    <2> QED
      BY <1>5, <2>1, <2>2, <2>3
  <1>13. CASE ValidateStep(d) \/ VerifyStep(d)
    BY <1>12, <1>13 DEF ValidateStep, VerifyStep, StateOf
  <1>14. CASE SaveChunk(d)
    <2> DEFINE j == IF Has(mem[d], "chunks") THEN mem[d]
                    ELSE WithResult(mem[d], "chunks", Computed(d, users, TRUE))
    <2>1. /\ mem[d].state = "importing" /\ users > 0 /\ users' = users /\ SetMem(d, j)
          /\ \/ disk' = mem'[d] /\ pc' = pc
             \/ disk' = disk /\ Goto(d, "saveErr")
      BY <1>14 DEF SaveChunk, InStep
    <2>2. j \in Job /\ j.state = mem[d].state /\ AheadOfRecord(j)
      BY <1>2, <1>6, <1>11, <2>1 DEF ResultKinds, StateOf
    <2> HIDE DEF j
    <2>3. CASE disk' = mem'[d] /\ pc' = pc
      <3>1. Ahead(j, disk, users) /\ disk.state \in BeforeDone /\ disk' = j /\ mem'[d] = j
        BY <1>2, <1>3, <2>1, <2>2, <2>3 DEF AheadOfRecord, Ahead, SetMem, SameRecord
      <3>2. Coherent(disk, users)'
        BY <1>2, <2>1, <2>2, <3>1, CoherentAhead
      <3>3. Created' /\ SameRecord(mem[d])'
        BY <1>3, <2>2, <3>1 DEF Created, SameRecord
      <3> QED
        BY <1>1, <2>3, <3>2, <3>3 DEF CopyOf
    <2>4. CASE disk' = disk /\ Goto(d, "saveErr")
      BY <1>5, <2>1, <2>2, <2>4
    <2> QED
      BY <2>1, <2>3, <2>4
  <1>15. CASE ImportStep(d)
    <2> DEFINE j == WithResult(mem[d], "report", Computed(d, users, TRUE))
    <2>1. /\ mem[d].state = "importing" /\ users > 0 /\ disk' = disk /\ users' = users
          /\ SetMem(d, j) \/ SetMem(d, Recorded(j))
          /\ Goto(d, "saveOk") \/ Goto(d, "saveErr")
      BY <1>15 DEF ImportStep, InStep, SetNoted
    <2>2. j \in Job /\ j.state = mem[d].state /\ AheadOfRecord(j) /\ Has(j, "report")
      BY <1>11, <2>1 DEF ResultKinds, StateOf
    <2> HIDE DEF j
    <2>3. Clean(j)
      BY <2>1, <2>2 DEF Clean
    <2> QED
      BY <1>5, <2>1, <2>2, <2>3
  <1> QED
    BY <1>7, <1>8, <1>9, <1>10, <1>13, <1>14, <1>15 DEF Step

-----------------------------------------------------------------------------
\* The invariant is inductive.

\* A step that leaves the record alone, and takes drivers to where they have no copy
\* of it.
LEMMA RecordUntouched ==
  ASSUME RecordInv, TypeInv', SingleDriver', disk' = disk, users' = users,
         \A e \in Drivers : \/ pc'[e] = pc[e] /\ mem'[e] = mem[e]
                            \/ pc'[e] \in {"idle", "load", "retryLoad"}
  PROVE  RecordInv'
  <1>1. ASSUME NEW e \in Drivers
        PROVE  CopyOf(e)'
    <2>1. CopyOf(e)
      BY DEF RecordInv, CopyInv
    <2>2. CASE pc'[e] \in {"idle", "load", "retryLoad"}
      BY <2>2 DEF CopyOf, RunPcs
    <2>3. CASE pc'[e] = pc[e] /\ mem'[e] = mem[e]
      BY <2>1, <2>3 DEF CopyOf, SameRecord, AheadOfRecord
    <2> QED
      BY <2>2, <2>3
  <1> QED
    BY <1>1 DEF RecordInv, CopyInv, Created

LEMMA NextRecord == RecordInv /\ [Next]_vars => RecordInv'
  <1> SUFFICES ASSUME RecordInv, [Next]_vars
               PROVE  RecordInv'
    OBVIOUS
  <1>0. TypeInv' /\ SingleDriver'
    BY NextType, NextSingle DEF RecordInv
  <1>1. ASSUME disk' = disk, users' = users,
               \A e \in Drivers : \/ pc'[e] = pc[e] /\ mem'[e] = mem[e]
                                  \/ pc'[e] \in {"idle", "load", "retryLoad"}
        PROVE  RecordInv'
    BY <1>0, <1>1, RecordUntouched
  <1>2. CASE Create
    <2>1. PICK source \in BOOLEAN : disk' = [NoJob EXCEPT !.state = "queued", !.source = source]
      BY <1>2 DEF Create
    <2>2. /\ disk'.state = "queued" /\ disk'.failedIn = "none"
          /\ \A k \in ResultKinds : ~Has(disk', k)
      BY <2>1 DEF NoJob, Has
    <2>3. Coherent(disk, users)' /\ Created'
      BY <2>2 DEF Coherent, ResultsFit, Passed, FailedInFits, CleanKinds, Reached, Index,
                  ResultKinds, Created
    <2>4. ASSUME NEW e \in Drivers
          PROVE  CopyOf(e)'
      <3>1. CopyOf(e) /\ DriverInv
        BY DEF RecordInv, CopyInv, TypeInv
      <3>2. disk.state = "absent" /\ mem' = mem /\ pc' = pc /\ disk = NoJob
        BY <1>2 DEF Create, NoJob
      <3>3. pc[e] \notin (RunPcs \ {"load"}) \cup {"retrySave"}
        BY <3>1, <3>2 DEF CopyOf, DriverInv, RunPcs, WorkPcs, SameRecord, AheadOfRecord, Retryable,
                          BeforeDone, WorkingStates, TerminalStates
      <3> QED
        BY <3>2, <3>3 DEF CopyOf, RunPcs
    <2> QED
      BY <1>0, <2>3, <2>4 DEF RecordInv, CopyInv
  <1>3. ASSUME NEW d \in Drivers, NEW file \in HooksFiles, RunLock(d, file, FALSE)
        PROVE  RecordInv'
    BY <1>1, <1>3 DEF RunLock, Goto, RecordInv, TypeInv, TypeOK
  <1>4. ASSUME NEW d \in Drivers, NEW from \in JobStateSet \cup {"none"}, RetryLock(d, from)
        PROVE  RecordInv'
    BY <1>1, <1>4 DEF RetryLock, Goto, RecordInv, TypeInv, TypeOK
  <1>5. ASSUME NEW d \in Drivers, Continue(d)
        PROVE  RecordInv'
    <2>1. DriverKeeps(d)'
      BY <1>0, <1>5, KeptByControl, KeptBySaves, KeptBySteps DEF Continue
    <2> QED
      BY <1>0, <1>5, <2>1, OthersWait
  <1>6. ASSUME NEW d \in Drivers, Cancel(d)
        PROVE  RecordInv'
    BY <1>1, <1>6 DEF Cancel
  <1>7. ASSUME NEW p \in Processes, Crash(p)
        PROVE  RecordInv'
    BY <1>1, <1>7 DEF Crash, Dies, Killed
  <1>8. CASE UNCHANGED vars
    BY <1>1, <1>8 DEF vars
  <1> QED
    BY <1>2, <1>3, <1>4, <1>5, <1>6, <1>7, <1>8 DEF Next

LEMMA AlwaysRecord == Spec => []RecordInv
  BY InitRecord, NextRecord, PTL DEF Spec

\* IInv, which the other theorems rest on, holds of every state.
THEOREM Inductive == Spec => []IInv
  <1>1. RecordInv => IInv
    BY RecordInvImplies
  <1> QED
    BY <1>1, AlwaysRecord, PTL

\* No result on record is of a state the job has yet to reach: a run never
\* takes leftovers of a later state, of before a retry, for its own.
THEOREM NothingLater == Spec => []NoLaterResults
  <1>1. RecordInv => NoLaterResults
    BY RecordInvImplies
  <1> QED
    BY <1>1, AlwaysRecord, PTL

\* Whatever the crashes, retries and exports, what was validated is what is
\* imported and verified.
THEOREM OneUsersFile == Spec => []SameUsersFile
  <1>1. RecordInv => SameUsersFile
    BY RecordInvImplies
  <1> QED
    BY <1>1, AlwaysRecord, PTL

\* No interleaving of runs, failed saves and retries gets a job past a state
\* whose step did not succeed.
THEOREM PassedWithResult == Spec => []PassedStates
  <1>1. RecordInv => PassedStates
    BY RecordInvImplies
  <1> QED
    BY <1>1, AlwaysRecord, PTL

\* A job names the state it failed in exactly as long as it is failed.
THEOREM FailureNamed == Spec => []FailedInRecorded
  <1>1. RecordInv => FailedInRecorded
    BY RecordInvImplies
  <1> QED
    BY <1>1, AlwaysRecord, PTL

\* Saving the whole record never undoes what another run saved.
THEOREM NothingLost == Spec => []NoLostUpdate
  <1>1. RecordInv => NoLostUpdate
    BY RecordInvImplies
  <1> QED
    BY <1>1, AlwaysRecord, PTL

-----------------------------------------------------------------------------
\* What a step may do to the record.

\* Nothing but hook calls.
Unmoved(j, next) ==
  /\ next.state = j.state /\ next.source = j.source /\ next.failedIn = j.failedIn
  /\ next.results = j.results

Queued(j, next) ==
  /\ j = NoJob
  /\ \E source \in BOOLEAN : next = [NoJob EXCEPT !.state = "queued", !.source = source]

Moved(j, next) ==
  /\ j.state \in BeforeDone /\ Clean(j)
  /\ next.state = NextState(j.state) /\ next.source = j.source
  /\ next.failedIn = j.failedIn /\ next.results = j.results

FailedWith(j, next, u) ==
  /\ j.state \in BeforeDone
  /\ next.state = "failed" /\ next.failedIn = j.state /\ next.source = j.source
  /\ \E copy \in Job : Ahead(copy, j, u) /\ next.results = copy.results

Retried(j, next) ==
  /\ Retryable(j)
  /\ \E from \in WorkingStates : RetryAllowed(from, j.failedIn) /\ next = PutBack(j, from)

LEMMA RecordSteps ==
  ASSUME RecordInv, [Next]_vars
  PROVE  \/ Unmoved(disk, disk') \/ Queued(disk, disk')
         \/ disk.state \in BeforeDone /\ Ahead(disk', disk, users)
         \/ Moved(disk, disk') \/ FailedWith(disk, disk', users) \/ Retried(disk, disk')
  <1> DEFINE Goal == \/ Unmoved(disk, disk') \/ Queued(disk, disk')
                     \/ disk.state \in BeforeDone /\ Ahead(disk', disk, users)
                     \/ Moved(disk, disk') \/ FailedWith(disk, disk', users)
                     \/ Retried(disk, disk')
  <1>1. CASE disk' = disk
    BY <1>1 DEF Unmoved
  <1>2. CASE Create
    BY <1>2 DEF Create, Queued
  <1>3. ASSUME NEW d \in Drivers, Continue(d), disk' # disk
        PROVE  Goal
    <2>1. /\ CopyOf(d) /\ DriverInv /\ mem[d] \in Job /\ pc \in [Drivers -> Pcs]
          /\ mem \in [Drivers -> Job]
      BY DEF RecordInv, CopyInv, TypeInv, TypeOK
    <2>2. CASE SaveStep(d)
      BY <1>3, <2>1, <2>2 DEF SaveStep, CopyOf, RunPcs, DriverInv, WorkPcs, AheadOfRecord, Ahead
    <2>3. CASE Move(d)
      <3>1. SameRecord(mem[d]) /\ Clean(mem[d]) /\ mem[d].state \in BeforeDone
        BY <2>1, <2>3 DEF Move, CopyOf, RunPcs, DriverInv, WorkPcs
      <3>2. disk' = [mem[d] EXCEPT !.state = NextState(@)]
        BY <1>3, <2>3 DEF Move
      <3>3. /\ disk'.state = NextState(mem[d].state) /\ disk'.source = mem[d].source
            /\ disk'.failedIn = mem[d].failedIn /\ disk'.results = mem[d].results
        BY <2>1, <3>2 DEF Job
      <3>4. Clean(disk)
        BY <3>1 DEF SameRecord, Clean, Has
      <3> QED
        BY <3>1, <3>3, <3>4 DEF Moved, SameRecord
    <2>4. CASE Stop(d)
      <3>1. AheadOfRecord(mem[d]) /\ mem[d].state \in BeforeDone
        BY <2>1, <2>4 DEF Stop, CopyOf, RunPcs, DriverInv, WorkPcs
      <3>2. disk' = [mem[d] EXCEPT !.state = "failed", !.failedIn = mem[d].state]
        BY <1>3, <2>4 DEF Stop
      <3>3. /\ disk'.state = "failed" /\ disk'.source = mem[d].source
            /\ disk'.failedIn = mem[d].state /\ disk'.results = mem[d].results
        BY <2>1, <3>2 DEF Job
      <3>4. Ahead(mem[d], disk, users)
        BY <3>1 DEF AheadOfRecord, Ahead
      <3> QED
        BY <2>1, <3>1, <3>3, <3>4 DEF FailedWith, AheadOfRecord
    <2>5. CASE FinishSave(d)
      BY <1>3, <2>1, <2>5 DEF FinishSave, CopyOf, RunPcs, SameRecord, Unmoved
    <2>6. CASE RetrySave(d)
      BY <1>3, <2>1, <2>6 DEF RetrySave, CopyOf, Retried
    <2>7. CASE SaveChunk(d)
      <3> DEFINE j == WithResult(mem[d], "chunks", Computed(d, users, TRUE))
      <3>1. /\ pc[d] = "step" /\ mem[d].state = "importing" /\ users > 0
            /\ disk' = mem[d] \/ disk' = j
        BY <1>3, <2>1, <2>7 DEF SaveChunk, InStep, SetMem
      <3>2. SameRecord(mem[d]) /\ arg[d] \in HooksFiles /\ users \in Nat
        BY <2>1, <3>1 DEF CopyOf, RunPcs, DriverInv, RecordInv, TypeInv, TypeOK
      <3>3. Computed(d, users, TRUE) \in Result /\ Computed(d, users, TRUE).users = users
        BY <3>2, ComputedType
      <3>4. AheadOfRecord(j)
        BY <2>1, <3>1, <3>2, <3>3, AheadWith DEF ResultKinds, StateOf
      <3>5. AheadOfRecord(mem[d])
        BY <3>2 DEF SameRecord, AheadOfRecord
      <3> HIDE DEF j
      <3>6. AheadOfRecord(disk')
        BY <3>1, <3>4, <3>5
      <3>7. disk.state \in BeforeDone
        BY <3>1, <3>2 DEF SameRecord, BeforeDone, WorkingStates
      <3> QED
        BY <3>6, <3>7 DEF AheadOfRecord, Ahead
    <2>8. CASE NoStep(d) \/ StepSkipped(d) \/ ExportStep(d) \/ ValidateStep(d) \/ ImportStep(d)
               \/ VerifyStep(d) \/ StepError(d)
      BY <1>3, <2>8 DEF NoStep, StepSkipped, ExportStep, ValidateStep, ImportStep, VerifyStep,
                        CheckStep, StepError
    <2> QED
      BY <1>3, <2>2, <2>3, <2>4, <2>5, <2>6, <2>7, <2>8
         DEF Continue, Step, LoadNothingToDo, LoadJob, LoadFails, BeforeRun, Loop, EnterState,
             ExitState, Fire, Finish, Unlock, RetryRejected, RetryLoad
  <1>4. ASSUME disk' # disk, ~Create
        PROVE  \E d \in Drivers : Continue(d)
    BY <1>4 DEF Next, vars, RunLock, RetryLock, Cancel, Crash, Dies
  <1> QED
    BY <1>1, <1>2, <1>3, <1>4

-----------------------------------------------------------------------------
\* What no step does.

\* A job's state on record is moved by the steps of the pipeline and by retries
\* only, and only as state.go and Retry allow.
THEOREM MovesAllowed == Spec => PersistedMoves
  <1> DEFINE Allowed == \/ disk'.state = disk.state
                        \/ disk = NoJob /\ disk'.state = "queued"
                        \/ CanTransition(disk.state, disk'.state)
                        \/ disk.state = "failed" /\ RetryAllowed(disk'.state, disk.failedIn)
  <1>1. RecordInv /\ [Next]_vars => Allowed
    <2> SUFFICES ASSUME RecordInv, [Next]_vars
                 PROVE  Allowed
      OBVIOUS
    <2>1. CASE Unmoved(disk, disk') \/ Ahead(disk', disk, users)
      BY <2>1 DEF Unmoved, Ahead
    <2>2. CASE Queued(disk, disk')
      BY <2>2 DEF Queued, NoJob
    <2>3. CASE Moved(disk, disk')
      BY <2>3 DEF Moved, CanTransition, Terminal, TerminalStates, HasNext, Index, NextState,
                  BeforeDone, WorkingStates
    <2>4. CASE FailedWith(disk, disk', users)
      BY <2>4 DEF FailedWith, CanTransition, Terminal, TerminalStates, Valid, Index, BeforeDone,
                  WorkingStates
    <2>5. CASE Retried(disk, disk')
      <3>1. PICK from \in WorkingStates :
              RetryAllowed(from, disk.failedIn) /\ disk' = PutBack(disk, from)
        BY <2>5 DEF Retried
      <3>2. disk \in Job /\ disk'.state = from
        BY <3>1, PutBackType DEF RecordInv, TypeInv, TypeOK, JobStateSet
      <3> QED
        BY <2>5, <3>1, <3>2 DEF Retried, Retryable
    <2> QED
      BY <2>1, <2>2, <2>3, <2>4, <2>5, RecordSteps
  <1> HIDE DEF Allowed
  <1>2. RecordInv /\ [Next]_vars => [Allowed]_vars
    BY <1>1
  <1>3. Spec => [][Allowed]_vars
    BY <1>2, AlwaysRecord, PTL DEF Spec
  <1> QED
    BY <1>3 DEF PersistedMoves, Allowed

\* Users on record as exported are not exported again, and users on record as
\* imported are not imported again, by any run after any crash.
THEOREM FinishedOnce == Spec => FinishedStepsNotRedone
  <1> DEFINE Once == /\ users' # users => ~Has(disk, "manifest")
                     /\ \A d \in Drivers : pc[d] = "step" /\ Imports(d) => ~Has(disk, "report")
  <1>1. RecordInv /\ [Next]_vars => Once
    <2> SUFFICES ASSUME RecordInv, [Next]_vars
                 PROVE  Once
      OBVIOUS
    <2>1. \A d \in Drivers : pc[d] = "step" => mem[d].results = disk.results
      BY DEF RecordInv, CopyInv, CopyOf, RunPcs, SameRecord
    <2>2. ASSUME users' # users
          PROVE  ~Has(disk, "manifest")
      <3>1. PICK d \in Drivers : ExportStep(d)
        BY <2>2 DEF Next, vars, Create, RunLock, RetryLock, Cancel, Crash, Dies, Continue, Step,
                    LoadNothingToDo, LoadJob, LoadFails, BeforeRun, Loop, EnterState, ExitState,
                    Fire, NoStep, StepSkipped, ValidateStep, VerifyStep, CheckStep, SaveChunk,
                    ImportStep, StepError, SaveStep, Move, Stop, Finish, FinishSave, Unlock,
                    RetryRejected, RetryLoad, RetrySave
      <3> QED
        BY <2>1, <3>1 DEF ExportStep, InStep, Has
    <2>3. \A d \in Drivers : pc[d] = "step" /\ Imports(d) => ~Has(disk, "report")
      BY <2>1 DEF Imports, Has
    <2> QED
      BY <2>2, <2>3
  <1> HIDE DEF Once
  <1>2. RecordInv /\ [Next]_vars => [Once]_vars
    BY <1>1
  <1>3. Spec => [][Once]_vars
    BY <1>2, AlwaysRecord, PTL DEF Spec
  <1> QED
    BY <1>3 DEF FinishedStepsNotRedone, Once

-----------------------------------------------------------------------------
\* Refinement: the reader of the record sees a run of JobLifecycle.

\* CleanStates of a record.
CleanOf(j) == {StateOf(k) : k \in {r \in ResultKinds \ {"chunks"} : j.results[r].ok}}

\* A result of the current state says nothing of the other states' results.
LEMMA CleanOfAhead ==
  ASSUME NEW j \in Job, NEW base \in Job, NEW u, Ahead(j, base, u), base.state \in BeforeDone
  PROVE  IF base.state \in WorkingStates
         THEN CleanOf(j) \in {CleanOf(base) \cup {base.state}, CleanOf(base) \ {base.state}}
         ELSE CleanOf(j) = CleanOf(base)
  <1> DEFINE S == base.state
  <1>1. \A k \in ResultKinds : StateOf(k) # S => j.results[k] = base.results[k]
    BY DEF Ahead
  <1>2. \A s : s # S => (s \in CleanOf(j) <=> s \in CleanOf(base))
    BY <1>1 DEF CleanOf
  <1>3. S = "queued" => CleanOf(j) = CleanOf(base)
    <2>1. \A k \in ResultKinds : StateOf(k) # "queued"
      BY DEF StateOf, ResultKinds
    <2> QED
      BY <1>1, <2>1 DEF CleanOf
  <1>4. CleanOf(j) \in {CleanOf(base) \cup {S}, CleanOf(base) \ {S}}
    <2>1. CASE S \in CleanOf(j)
      <3>1. CleanOf(j) = CleanOf(base) \cup {S}
        BY <1>2, <2>1
      <3> QED
        BY <3>1
    <2>2. CASE S \notin CleanOf(j)
      <3>1. CleanOf(j) = CleanOf(base) \ {S}
        BY <1>2, <2>2
      <3> QED
        BY <3>1
    <2> QED
      BY <2>1, <2>2
  <1> QED
    BY <1>3, <1>4 DEF BeforeDone, WorkingStates

LEMMA CleanOfPutBack ==
  ASSUME NEW j \in Job, NEW from \in WorkingStates
  PROVE  CleanOf(PutBack(j, from)) = {s \in CleanOf(j) : Kept(s, from, j.failedIn)}
  <1> DEFINE back == PutBack(j, from)
  <1>1. \A k \in ResultKinds :
          back.results[k] = IF Kept(StateOf(k), from, j.failedIn) THEN j.results[k]
                                                                  ELSE NoResult
    <2>1. from \in JobStateSet
      BY DEF JobStateSet
    <2> QED
      BY <2>1, PutBackType
  <1> HIDE DEF back
  <1>2. ~NoResult.ok
    BY DEF NoResult
  <1>3. \A k \in ResultKinds :
          back.results[k].ok <=> j.results[k].ok /\ Kept(StateOf(k), from, j.failedIn)
    BY <1>1, <1>2
  <1>4. CleanOf(back) = {s \in CleanOf(j) : Kept(s, from, j.failedIn)}
    BY <1>3 DEF CleanOf
  <1> QED
    BY <1>4 DEF back

\* A state whose step has nothing left to find may be left.
LEMMA CleanToLeave ==
  ASSUME NEW j \in Job, CleanKinds(j), Clean(j), j.state \in BeforeDone
  PROVE  \/ j.state = "queued"
         \/ j.state = "exporting" /\ ~j.source
         \/ j.state \in CleanOf(j)
  <1>1. ASSUME NEW k \in ResultKinds \ {"chunks"}, j.results[k].ok, StateOf(k) = j.state
        PROVE  j.state \in CleanOf(j)
    BY <1>1 DEF CleanOf
  <1>2. CASE j.state = "exporting" /\ j.source
    BY <1>1, <1>2 DEF Clean, CleanKinds, StateOf, ResultKinds
  <1>3. CASE j.state = "validating"
    BY <1>1, <1>3 DEF Clean, StateOf, ResultKinds
  <1>4. CASE j.state = "importing"
    BY <1>1, <1>4 DEF Clean, CleanKinds, StateOf, ResultKinds
  <1>5. CASE j.state = "verifying"
    BY <1>1, <1>5 DEF Clean, StateOf, ResultKinds
  <1> QED
    BY <1>2, <1>3, <1>4, <1>5 DEF BeforeDone, WorkingStates

\* The instance has definitions of its own of what JobStates defines.
LEMMA SameStates ==
  /\ Lifecycle!WorkingStates = WorkingStates
  /\ \A s : Lifecycle!HasNext(s) <=> HasNext(s)
  /\ \A s : Lifecycle!NextState(s) = NextState(s)
  /\ \A s, t : Lifecycle!RetryAllowed(s, t) <=> RetryAllowed(s, t)
  /\ \A r, s, t : Lifecycle!Kept(r, s, t) <=> Kept(r, s, t)
  <1>1. \A s : Lifecycle!Index(s) = Index(s)
    BY DEF Lifecycle!Index, Index
  <1> QED
    BY <1>1 DEF Lifecycle!WorkingStates, WorkingStates, Lifecycle!HasNext, HasNext,
                Lifecycle!NextState, NextState, Lifecycle!RetryAllowed, RetryAllowed,
                Lifecycle!Kept, Kept

LEMMA InitLifecycle == Init => Lifecycle!Init
  BY DEF Init, Lifecycle!Init, NoJob, NoResult, CleanStates

LEMMA StepLifecycle == RecordInv /\ [Next]_vars => [Lifecycle!Next]_(Lifecycle!vars)
  <1> SUFFICES ASSUME RecordInv, [Next]_vars
               PROVE  Lifecycle!Next \/ UNCHANGED Lifecycle!vars
    OBVIOUS
  <1>1. disk \in Job /\ disk' \in Job
    BY NextType DEF RecordInv, TypeInv, TypeOK
  <1>2. CleanStates = CleanOf(disk) /\ CleanStates' = CleanOf(disk')
    BY DEF CleanStates, CleanOf
  <1>3. CASE Unmoved(disk, disk')
    <2>1. CleanOf(disk') = CleanOf(disk)
      BY <1>3 DEF Unmoved, CleanOf
    <2> QED
      BY <1>2, <1>3, <2>1 DEF Unmoved, Lifecycle!vars
  <1>4. CASE Queued(disk, disk')
    <2>1. disk'.source \in BOOLEAN /\ disk'.failedIn = disk.failedIn
      BY <1>1, <1>4 DEF Queued, NoJob, Job
    <2>2. disk.state = "absent" /\ disk'.state = "queued" /\ disk'.results = disk.results
      BY <1>4 DEF Queued, NoJob
    <2>3. CleanOf(disk') = CleanOf(disk)
      BY <2>2 DEF CleanOf
    <2>4. Lifecycle!Create
      BY <1>2, <2>1, <2>2, <2>3 DEF Lifecycle!Create
    <2> QED
      BY <2>4 DEF Lifecycle!Next
  <1>5. CASE disk.state \in BeforeDone /\ Ahead(disk', disk, users)
    <2>1. disk'.state = disk.state /\ disk'.source = disk.source /\ disk'.failedIn = disk.failedIn
      BY <1>5 DEF Ahead
    <2>2. CASE disk.state \in WorkingStates
      <3>1. Lifecycle!Work
        BY <1>1, <1>2, <1>5, <2>1, <2>2, CleanOfAhead, SameStates
           DEF Lifecycle!Work, Lifecycle!Found
      <3> QED
        BY <3>1 DEF Lifecycle!Next
    <2>3. CASE disk.state \notin WorkingStates
      BY <1>1, <1>2, <1>5, <2>1, <2>3, CleanOfAhead DEF Lifecycle!vars
    <2> QED
      BY <2>2, <2>3
  <1>6. CASE Moved(disk, disk')
    <2>1. CleanOf(disk') = CleanOf(disk)
      BY <1>6 DEF Moved, CleanOf
    <2>2. Lifecycle!CanLeave(disk.state)
      BY <1>1, <1>2, <1>6, CleanToLeave DEF Moved, Lifecycle!CanLeave, RecordInv, Coherent
    <2>3. HasNext(disk.state)
      BY <1>6 DEF Moved, HasNext, Index, BeforeDone, WorkingStates
    <2>4. Lifecycle!Advance
      BY <1>2, <1>6, <2>1, <2>2, <2>3, SameStates DEF Moved, Lifecycle!Advance
    <2> QED
      BY <2>4 DEF Lifecycle!Next
  <1>7. CASE FailedWith(disk, disk', users)
    <2>1. PICK copy \in Job : Ahead(copy, disk, users) /\ disk'.results = copy.results
      BY <1>7 DEF FailedWith
    <2>2. CleanOf(disk') = CleanOf(copy)
      BY <2>1 DEF CleanOf
    <2>3. Lifecycle!Found(CleanOf(disk'))
      BY <1>1, <1>2, <1>7, <2>1, <2>2, CleanOfAhead, SameStates
         DEF FailedWith, Lifecycle!Found
    <2>4. HasNext(disk.state)
      BY <1>7 DEF FailedWith, HasNext, Index, BeforeDone, WorkingStates
    <2>5. Lifecycle!Fail
      BY <1>2, <1>7, <2>3, <2>4, SameStates DEF FailedWith, Lifecycle!Fail
    <2> QED
      BY <2>5 DEF Lifecycle!Next
  <1>8. CASE Retried(disk, disk')
    <2>1. PICK from \in WorkingStates :
            RetryAllowed(from, disk.failedIn) /\ disk' = PutBack(disk, from)
      BY <1>8 DEF Retried
    <2>2. from \in JobStateSet
      BY DEF JobStateSet
    <2>3. disk'.state = from /\ disk'.failedIn = "none" /\ disk'.source = disk.source
      BY <1>1, <2>1, <2>2, PutBackType
    <2>4. CleanOf(disk') = {s \in CleanOf(disk) : Kept(s, from, disk.failedIn)}
      BY <1>1, <2>1, CleanOfPutBack
    <2>5. Lifecycle!Retry(from)
      BY <1>2, <1>8, <2>1, <2>3, <2>4, SameStates DEF Retried, Retryable, Lifecycle!Retry
    <2> QED
      BY <2>1, <2>5, SameStates DEF Lifecycle!Next
  <1> QED
    BY <1>3, <1>4, <1>5, <1>6, <1>7, <1>8, RecordSteps

\* JobRunner implements JobLifecycle: drivers, locks, copies, failed saves and
\* crashes show a reader of the record nothing but a job going through its states.
THEOREM ShowsLifecycle == Spec => ImplementsLifecycle
  BY AlwaysRecord, InitLifecycle, StepLifecycle, PTL DEF Spec, ImplementsLifecycle, Lifecycle!Spec

=============================================================================
