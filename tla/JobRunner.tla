----------------------------- MODULE JobRunner -----------------------------
(***************************************************************************)
(* Runner.Run and Runner.Retry of internal/jobs driving one migration job  *)
(* kept in a FileStore.                                                    *)
(*                                                                         *)
(* A driver is one call of Run or Retry: a goroutine of a server or a      *)
(* command of the CLI.  All of them share the job's record on disk, the    *)
(* users file and the lock file; each works on its own copy of the record, *)
(* loaded under the lock.  Every step a crash can fall between is an       *)
(* action: taking the lock, loading, each hook event, the effect of a      *)
(* step, each save, the unlock.                                            *)
(*                                                                         *)
(* A step's result is abstracted to where it came from: the version of the *)
(* users file and the hooks file it was computed with, and its verdict.    *)
(* Times, params, messages and the OnState callback are left out.          *)
(***************************************************************************)
EXTENDS JobStates, FiniteSets

CONSTANTS
  Drivers,        \* calls of Run and Retry that may be in progress at once
  Processes,      \* the processes making them
  ProcessOf,      \* the process each driver belongs to
  NoDriver,       \* nobody
  HooksFiles,     \* fingerprints of the hooks files a run may have
  NoHooks,        \* the empty fingerprint of a run without one
  MaxFaults,      \* bound on steps, saves and hooks that fail
  MaxInterrupts,  \* bound on crashes and cancelled contexts
  MaxRetries      \* bound on calls of Retry that get the lock

ASSUME DriversAssumption ==
  /\ NoDriver \notin Drivers
  /\ ProcessOf \in [Drivers -> Processes]
ASSUME HooksAssumption == NoHooks \in HooksFiles
ASSUME BoundsAssumption ==
  /\ MaxFaults \in Nat /\ MaxInterrupts \in Nat /\ MaxRetries \in Nat

VARIABLES
  disk,        \* the job's record as the store last saved it
  lock,        \* the driver holding the job's lock file
  users,       \* version of the users file: 0 is none, exports replace it
  pc,          \* where each driver is
  mem,         \* each driver's copy of the record
  ctx,         \* whether a driver's context is done
  arg,         \* the hooks file of a Run, the from argument of a Retry
  ret,         \* what a driver is about to return
  announced,   \* history: job.done or job.failed fired for this outcome
  faults, interrupts, retries   \* what the bounds count

vars == <<disk, lock, users, pc, mem, ctx, arg, ret, announced,
          faults, interrupts, retries>>

-----------------------------------------------------------------------------
\* The record.

ResultKinds == {"manifest", "problems", "report", "chunks", "diff"}

\* The state whose step sets a result.
StateOf(k) ==
  CASE k = "manifest" -> "exporting"
    [] k = "problems" -> "validating"
    [] k = "report"   -> "importing"
    [] k = "chunks"   -> "importing"
    [] k = "diff"     -> "verifying"

Result == [users : Nat, hooks : HooksFiles, ok : BOOLEAN]
NoResult == [users |-> 0, hooks |-> NoHooks, ok |-> FALSE]

HookResult == JobStateSet \X {"call", "changed"}

Job == [state    : JobStateSet \cup {"absent"},
        source   : BOOLEAN,   \* whether its params name a source to export
        failedIn : JobStateSet \cup {"none"},
        results  : [ResultKinds -> Result],
        hooks    : SUBSET HookResult,
        fp       : HooksFiles]

\* No record on disk: Load returns ErrNotFound.
NoJob == [state |-> "absent", source |-> FALSE, failedIn |-> "none",
          results |-> [k \in ResultKinds |-> NoResult],
          hooks |-> {}, fp |-> NoHooks]

Has(j, k) == j.results[k] # NoResult

\* Mutants of PutBack: what Retry clears with the state but for the diff, the
\* chunks, or the state the job failed in.
PutBackExcept(j, from, kinds, failedIn) ==
  [j EXCEPT
     !.state = from, !.failedIn = failedIn,
     !.results = [k \in ResultKinds |->
                    IF k \in kinds \/ Kept(StateOf(k), from, j.failedIn)
                    THEN j.results[k] ELSE NoResult]]
PutBackKeepingDiff(j, from) == PutBackExcept(j, from, {"diff"}, "none")
PutBackKeepingChunks(j, from) == PutBackExcept(j, from, {"chunks"}, "none")
PutBackStillFailed(j, from) == PutBackExcept(j, from, {}, j.failedIn)

\* A job put back in from, from Failed, by Retry.
PutBack(j, from) ==
  [j EXCEPT
     !.state = from, !.failedIn = "none",
     !.results = [k \in ResultKinds |->
                    IF Kept(StateOf(k), from, j.failedIn) THEN j.results[k]
                                                          ELSE NoResult],
     !.hooks = IF from = j.failedIn THEN @
               ELSE {h \in @ : Index(h[1]) >= 0 /\ Index(h[1]) < Index(from)}]

\* noteHooksFile: a run with another hooks file than the job's last one is
\* recorded, except that a job first run without hooks has nothing to compare
\* with, and a run without hooks leaves the fingerprint of the last file.
NoteHooksFile(j, file) ==
  IF file = j.fp THEN j
  ELSE IF j.fp = NoHooks THEN [j EXCEPT !.fp = file]
  ELSE [j EXCEPT !.fp = IF file = NoHooks THEN @ ELSE file,
                 !.hooks = @ \cup {<<j.state, "changed">>}]

-----------------------------------------------------------------------------
\* Where a driver is, and what it holds.

RunPcs == {"load", "before", "loop", "enter", "step", "saveOk", "saveErr",
           "exit", "move", "stop", "finish", "finishSave"}
RetryPcs == {"retryLoad", "retrySave"}
Pcs == {"idle", "release"} \cup RunPcs \cup RetryPcs

Returns == {"none", "notFound", "finished", "interrupted", "storeFailed",
            "notFailed", "badState", "retried"}

\* A driver between Lock and unlock.
Driving(d) == pc[d] # "idle"

Goto(d, p) == pc' = [pc EXCEPT ![d] = p]

\* Leaving Run or Retry with result v: the deferred unlock is what is left.
Return(d, v) == Goto(d, "release") /\ ret' = [ret EXCEPT ![d] = v]

\* Something fails that could have succeeded.
Fault == faults < MaxFaults /\ faults' = faults + 1

SetMem(d, j) == mem' = [mem EXCEPT ![d] = j]

\* A hook call that vetoed, failed or was ignored is kept in memory, to be
\* saved with the job.
Recorded(j) == [j EXCEPT !.hooks = @ \cup {<<j.state, "call">>}]

\* A step of driver d leaves copy j, with the hook calls of it that failed and
\* were ignored noted.
SetNoted(d, j) ==
  \/ SetMem(d, j) /\ UNCHANGED faults
  \/ arg[d] # NoHooks /\ Fault /\ SetMem(d, Recorded(j))

\* A result driver d computes with a version of the users file.
Computed(d, version, ok) == [users |-> version, hooks |-> arg[d], ok |-> ok]

WithResult(j, k, res) == [j EXCEPT !.results[k] = res]

Init ==
  /\ disk = NoJob
  /\ lock = NoDriver
  /\ users \in {0, 1}
  /\ pc = [d \in Drivers |-> "idle"]
  /\ mem = [d \in Drivers |-> NoJob]
  /\ ctx = [d \in Drivers |-> FALSE]
  /\ arg = [d \in Drivers |-> NoHooks]
  /\ ret = [d \in Drivers |-> "none"]
  /\ announced = FALSE
  /\ faults = 0 /\ interrupts = 0 /\ retries = 0

\* Runner.Create.
Create ==
  /\ disk = NoJob
  /\ \E source \in BOOLEAN :
       disk' = [NoJob EXCEPT !.state = "queued", !.source = source]
  /\ UNCHANGED <<lock, users, pc, mem, ctx, arg, ret, announced, faults,
                 interrupts, retries>>

-----------------------------------------------------------------------------
\* Runner.Run.

\* Mutant of RunLock: the lock is not exclusive.
RunLockShared(d, file, done) ==
  /\ pc[d] = "idle"
  /\ lock' = d
  /\ arg' = [arg EXCEPT ![d] = file]
  /\ ctx' = [ctx EXCEPT ![d] = done]
  /\ Goto(d, "load")
  /\ UNCHANGED <<disk, users, mem, ret, announced, faults, interrupts, retries>>

\* A Run that finds the lock taken returns ErrLocked and changes nothing.  Its
\* context may already be done.
RunLock(d, file, done) ==
  /\ pc[d] = "idle"
  /\ lock = NoDriver
  /\ lock' = d
  /\ arg' = [arg EXCEPT ![d] = file]
  /\ ctx' = [ctx EXCEPT ![d] = done]
  /\ Goto(d, "load")
  /\ UNCHANGED <<disk, users, mem, ret, announced, faults, interrupts, retries>>

\* An unknown job, or one already in a terminal state, returned as it is.
LoadNothingToDo(d) ==
  /\ pc[d] = "load"
  /\ disk.state \in TerminalStates \cup {"absent"}
  /\ Return(d, IF disk = NoJob THEN "notFound" ELSE "finished")
  /\ UNCHANGED <<disk, lock, users, mem, ctx, arg, announced, faults,
                 interrupts, retries>>

LoadJob(d) ==
  /\ pc[d] = "load"
  /\ disk.state \notin TerminalStates \cup {"absent"}
  /\ SetMem(d, NoteHooksFile(disk, arg[d]))
  /\ Goto(d, "before")
  /\ UNCHANGED <<disk, lock, users, ctx, arg, ret, announced, faults,
                 interrupts, retries>>

\* The record can't be read or decoded.
LoadFails(d) ==
  /\ pc[d] \in {"load", "retryLoad"}
  /\ Fault
  /\ Return(d, "storeFailed")
  /\ UNCHANGED <<disk, lock, users, mem, ctx, arg, announced, interrupts, retries>>

\* A hook event fired at here: the run goes on at next, or, on a veto or a
\* failure the hooks file doesn't ignore, stops.
Fire(d, here, next) ==
  /\ pc[d] = here
  /\ \/ Goto(d, next) /\ UNCHANGED <<mem, faults>>
     \/ /\ arg[d] # NoHooks
        /\ Fault
        /\ SetMem(d, Recorded(mem[d]))
        /\ \E p \in {next, "stop"} : Goto(d, p)
  /\ UNCHANGED <<disk, lock, users, ctx, arg, ret, announced, interrupts,
                 retries>>

BeforeRun(d) == Fire(d, "before", "loop")
EnterState(d) == Fire(d, "enter", "step")
ExitState(d) == Fire(d, "exit", "move")

\* The head of Run's loop, which tests the state before the context.
Loop(d) ==
  /\ pc[d] = "loop"
  /\ IF Terminal(mem[d].state) THEN Goto(d, "finish") /\ UNCHANGED ret
     ELSE IF ctx[d] THEN Return(d, "interrupted")
     ELSE Goto(d, "enter") /\ UNCHANGED ret
  /\ UNCHANGED <<disk, lock, users, mem, ctx, arg, announced, faults,
                 interrupts, retries>>

\* Mutant of SaveStep: the error of the save is dropped.
SaveStepUnchecked(d) ==
  /\ pc[d] \in {"saveOk", "saveErr"}
  /\ \/ disk' = mem[d] /\ UNCHANGED faults
     \/ Fault /\ UNCHANGED disk
  /\ IF pc[d] = "saveErr" THEN Goto(d, "stop") /\ UNCHANGED ret
     ELSE IF ctx[d] THEN Return(d, "interrupted")
     ELSE Goto(d, "exit") /\ UNCHANGED ret
  /\ UNCHANGED <<lock, users, mem, ctx, arg, announced, interrupts, retries>>

\* The save runStep makes whatever the step returned.  Its failure counts
\* only when the step succeeded, and then fails the job.
SaveStep(d) ==
  /\ pc[d] \in {"saveOk", "saveErr"}
  /\ \/ /\ disk' = mem[d]
        /\ IF pc[d] = "saveErr" THEN Goto(d, "stop") /\ UNCHANGED ret
           ELSE IF ctx[d] THEN Return(d, "interrupted")
           ELSE Goto(d, "exit") /\ UNCHANGED ret
        /\ UNCHANGED faults
     \/ Fault /\ Goto(d, "stop") /\ UNCHANGED <<disk, ret>>
  /\ UNCHANGED <<lock, users, mem, ctx, arg, announced, interrupts, retries>>

\* The job goes on to the next state.  A failed save leaves the copy in
\* memory in the state it was in, and ends the run.
Move(d) ==
  LET next == [mem[d] EXCEPT !.state = NextState(@)] IN
  /\ pc[d] = "move"
  /\ \/ /\ CanTransition(mem[d].state, next.state)
        /\ disk' = next
        /\ SetMem(d, next)
        /\ announced' = FALSE
        /\ Goto(d, "loop")
        /\ UNCHANGED <<ret, faults>>
     \/ Fault /\ Return(d, "storeFailed") /\ UNCHANGED <<disk, mem, announced>>
  /\ UNCHANGED <<lock, users, ctx, arg, interrupts, retries>>

\* stop: an interruption leaves the job as persisted, anything else fails it,
\* the state it failed in being saved with it.
Stop(d) ==
  LET failed == [mem[d] EXCEPT !.state = "failed", !.failedIn = mem[d].state] IN
  /\ pc[d] = "stop"
  /\ IF ctx[d]
     THEN Return(d, "interrupted") /\ UNCHANGED <<disk, mem, announced, faults>>
     ELSE \/ /\ disk' = failed
             /\ SetMem(d, failed)
             /\ announced' = FALSE
             /\ Goto(d, "finish")
             /\ UNCHANGED <<ret, faults>>
          \/ /\ Fault /\ Return(d, "storeFailed")
             /\ UNCHANGED <<disk, mem, announced>>
  /\ UNCHANGED <<lock, users, ctx, arg, interrupts, retries>>

\* finish fires job.done or job.failed, and saves the job only if that
\* recorded something.
Finish(d) ==
  /\ pc[d] = "finish"
  /\ announced' = TRUE
  /\ \/ Return(d, "finished") /\ UNCHANGED <<mem, faults>>
     \/ /\ arg[d] # NoHooks
        /\ Fault
        /\ SetMem(d, Recorded(mem[d]))
        /\ Goto(d, "finishSave")
        /\ UNCHANGED ret
  /\ UNCHANGED <<disk, lock, users, ctx, arg, interrupts, retries>>

FinishSave(d) ==
  /\ pc[d] = "finishSave"
  /\ \/ disk' = mem[d] /\ Return(d, "finished") /\ UNCHANGED faults
     \/ Fault /\ Return(d, "storeFailed") /\ UNCHANGED disk
  /\ UNCHANGED <<lock, users, mem, ctx, arg, announced, interrupts, retries>>

\* Mutant of Unlock: an interrupted run returns without it.
UnlockUnlessInterrupted(d) ==
  /\ pc[d] = "release"
  /\ lock' = IF ret[d] = "interrupted" THEN lock ELSE NoDriver
  /\ Goto(d, "idle")
  /\ SetMem(d, NoJob)
  /\ ctx' = [ctx EXCEPT ![d] = FALSE]
  /\ arg' = [arg EXCEPT ![d] = NoHooks]
  /\ ret' = [ret EXCEPT ![d] = "none"]
  /\ UNCHANGED <<disk, users, announced, faults, interrupts, retries>>

\* The deferred unlock, the last thing Run and Retry do.
Unlock(d) ==
  /\ pc[d] = "release"
  /\ lock' = NoDriver
  /\ Goto(d, "idle")
  /\ SetMem(d, NoJob)
  /\ ctx' = [ctx EXCEPT ![d] = FALSE]
  /\ arg' = [arg EXCEPT ![d] = NoHooks]
  /\ ret' = [ret EXCEPT ![d] = "none"]
  /\ UNCHANGED <<disk, users, announced, faults, interrupts, retries>>

-----------------------------------------------------------------------------
\* The steps (internal/jobs/steps.go).  Each works on the driver's copy only;
\* the save that follows it is SaveStep.

InStep(d, s) == pc[d] = "step" /\ mem[d].state = s

\* Checkpoints of another users file no longer match the chunks read from it.
ChunksMatch(j) == Has(j, "chunks") => j.results["chunks"].users = users

\* What makes a step of driver d fail whatever else happens.
CannotSucceed(d) ==
  \/ ctx[d]
  \/ mem[d].state # "exporting" /\ users = 0
  \/ InStep(d, "importing") /\ ~Has(mem[d], "report") /\ ~ChunksMatch(mem[d])

\* Queued has no step: straight to state.exit, with nothing to save.
NoStep(d) ==
  /\ InStep(d, "queued")
  /\ Goto(d, "exit")
  /\ UNCHANGED <<disk, lock, users, mem, ctx, arg, ret, announced, faults,
                 interrupts, retries>>

\* A step that returns an error having set no result: a connector or a hook
\* of the step failed it, the context is done, there is no users file, or the
\* import's chunks no longer match their checkpoints.
StepError(d) ==
  /\ pc[d] = "step" /\ mem[d].state # "queued"
  /\ Goto(d, "saveErr")
  /\ \/ UNCHANGED mem
     \/ arg[d] # NoHooks /\ SetMem(d, Recorded(mem[d]))
  /\ IF CannotSucceed(d) THEN UNCHANGED faults ELSE Fault
  /\ UNCHANGED <<disk, lock, users, ctx, arg, ret, announced, interrupts,
                 retries>>

\* The results of an earlier run of the step are kept: an export whose
\* manifest is recorded (or with nothing to export), and an import whose
\* report is, which only fires its events again.
StepSkipped(d) ==
  /\ \/ InStep(d, "exporting") /\ (mem[d].source => Has(mem[d], "manifest"))
     \/ InStep(d, "importing") /\ Has(mem[d], "report")
  /\ SetNoted(d, mem[d])
  /\ Goto(d, "saveOk")
  /\ UNCHANGED <<disk, lock, users, ctx, arg, ret, announced, interrupts, retries>>

\* Mutant of ExportStep: the manifest on record is not looked at.
ExportStepAgain(d) ==
  /\ InStep(d, "exporting") /\ mem[d].source
  /\ users' = users + 1
  /\ SetMem(d, WithResult(mem[d], "manifest", Computed(d, users + 1, TRUE)))
  /\ Goto(d, "saveOk")
  /\ UNCHANGED <<disk, lock, ctx, arg, ret, announced, faults, interrupts,
                 retries>>

\* The export is written aside and renamed over the users file, then its
\* manifest is set.
ExportStep(d) ==
  /\ InStep(d, "exporting") /\ mem[d].source /\ ~Has(mem[d], "manifest")
  /\ users' = users + 1
  /\ SetNoted(d, WithResult(mem[d], "manifest", Computed(d, users + 1, TRUE)))
  /\ Goto(d, "saveOk")
  /\ UNCHANGED <<disk, lock, ctx, arg, ret, announced, interrupts, retries>>

\* Mutant of CheckStep: what was found is recorded, and does not fail the job.
CheckStepLenient(d, s, k) ==
  /\ InStep(d, s) /\ users > 0
  /\ \E ok \in BOOLEAN : SetMem(d, WithResult(mem[d], k, Computed(d, users, ok)))
  /\ Goto(d, "saveOk")
  /\ UNCHANGED <<disk, lock, users, ctx, arg, ret, announced, faults, interrupts,
                 retries>>

\* validate and verify record what they found, and fail the job on it unless
\* it is clean or a hook decides otherwise.
CheckStep(d, s, k) ==
  /\ InStep(d, s) /\ users > 0
  /\ LET found(ok) == WithResult(mem[d], k, Computed(d, users, ok)) IN
       \/ SetNoted(d, found(TRUE)) /\ Goto(d, "saveOk")
       \/ /\ Fault
          /\ \/ SetMem(d, found(FALSE))
             \/ arg[d] # NoHooks /\ SetMem(d, Recorded(found(FALSE)))
          /\ Goto(d, "saveErr")
  /\ UNCHANGED <<disk, lock, users, ctx, arg, ret, announced, interrupts,
                 retries>>

ValidateStep(d) == CheckStep(d, "validating", "problems")
VerifyStep(d) == CheckStep(d, "verifying", "diff")

\* Mutant of SaveChunk: what is saved is not put in the job the run goes on with.
SaveChunkAside(d) ==
  /\ InStep(d, "importing") /\ users > 0
  /\ ~Has(mem[d], "report") /\ ChunksMatch(mem[d])
  /\ \/ /\ disk' = WithResult(mem[d], "chunks", Computed(d, users, TRUE))
        /\ UNCHANGED <<pc, faults>>
     \/ Fault /\ Goto(d, "saveErr") /\ UNCHANGED disk
  /\ UNCHANGED <<lock, users, mem, ctx, arg, ret, announced, interrupts, retries>>

\* SaveChunk, called by the target connector during the import, saves the
\* whole job.  Its failure fails the import.
SaveChunk(d) ==
  /\ InStep(d, "importing") /\ users > 0
  /\ ~Has(mem[d], "report") /\ ChunksMatch(mem[d])
  /\ SetMem(d, IF Has(mem[d], "chunks") THEN mem[d]
               ELSE WithResult(mem[d], "chunks", Computed(d, users, TRUE)))
  /\ \/ disk' = mem'[d] /\ UNCHANGED <<pc, faults>>
     \/ Fault /\ Goto(d, "saveErr") /\ UNCHANGED disk
  /\ UNCHANGED <<lock, users, ctx, arg, ret, announced, interrupts, retries>>

\* The import returns its report, and import.after is fired with it, which
\* may fail the step.
ImportStep(d) ==
  /\ InStep(d, "importing") /\ users > 0
  /\ ~Has(mem[d], "report") /\ ChunksMatch(mem[d])
  /\ LET imported == WithResult(mem[d], "report", Computed(d, users, TRUE)) IN
       \/ SetNoted(d, imported) /\ Goto(d, "saveOk")
       \/ /\ arg[d] # NoHooks
          /\ Fault
          /\ SetMem(d, Recorded(imported))
          /\ Goto(d, "saveErr")
  /\ UNCHANGED <<disk, lock, users, ctx, arg, ret, announced, interrupts,
                 retries>>

-----------------------------------------------------------------------------
\* Runner.Retry.  One that finds the lock taken returns ErrLocked.

RetryLock(d, from) ==
  /\ pc[d] = "idle"
  /\ lock = NoDriver
  /\ retries < MaxRetries
  /\ retries' = retries + 1
  /\ lock' = d
  /\ arg' = [arg EXCEPT ![d] = from]
  /\ Goto(d, "retryLoad")
  /\ UNCHANGED <<disk, users, mem, ctx, ret, announced, faults, interrupts>>

Retryable(j) == j.state = "failed" /\ Valid(j.failedIn) /\ j.failedIn # "failed"

\* The state a Retry goes back to: the one the job failed in by default.
RetryFrom(d) == IF arg[d] = "none" THEN disk.failedIn ELSE arg[d]

RetryRejected(d) ==
  /\ pc[d] = "retryLoad"
  /\ \/ disk = NoJob /\ Return(d, "notFound")
     \/ disk # NoJob /\ ~Retryable(disk) /\ Return(d, "notFailed")
     \/ /\ Retryable(disk)
        /\ ~RetryAllowed(RetryFrom(d), disk.failedIn)
        /\ Return(d, "badState")
  /\ UNCHANGED <<disk, lock, users, mem, ctx, arg, announced, faults,
                 interrupts, retries>>

\* Mutants of RetryLoad: the state asked for is used before its default, or is
\* not checked.
RetryLoadTo(d, from, allowed) ==
  /\ pc[d] = "retryLoad"
  /\ Retryable(disk)
  /\ allowed
  /\ SetMem(d, PutBack(disk, from))
  /\ Goto(d, "retrySave")
  /\ UNCHANGED <<disk, lock, users, ctx, arg, ret, announced, faults,
                 interrupts, retries>>
RetryLoadAsGiven(d) ==
  RetryLoadTo(d, arg[d], RetryAllowed(RetryFrom(d), disk.failedIn))
RetryLoadAnywhere(d) == RetryLoadTo(d, RetryFrom(d), RetryFrom(d) \in WorkingStates)

RetryLoad(d) ==
  /\ pc[d] = "retryLoad"
  /\ Retryable(disk)
  /\ RetryAllowed(RetryFrom(d), disk.failedIn)
  /\ SetMem(d, PutBack(disk, RetryFrom(d)))
  /\ Goto(d, "retrySave")
  /\ UNCHANGED <<disk, lock, users, ctx, arg, ret, announced, faults,
                 interrupts, retries>>

RetrySave(d) ==
  /\ pc[d] = "retrySave"
  /\ \/ disk' = mem[d] /\ Return(d, "retried") /\ UNCHANGED faults
     \/ Fault /\ Return(d, "storeFailed") /\ UNCHANGED disk
  /\ UNCHANGED <<lock, users, mem, ctx, arg, announced, interrupts, retries>>

-----------------------------------------------------------------------------
\* The environment.

\* A signal, or the server's shutdown, cancels the context of a Run.
Cancel(d) ==
  /\ pc[d] \in RunPcs /\ ~ctx[d]
  /\ interrupts < MaxInterrupts
  /\ interrupts' = interrupts + 1
  /\ ctx' = [ctx EXCEPT ![d] = TRUE]
  /\ UNCHANGED <<disk, lock, users, pc, mem, arg, ret, announced, faults,
                 retries>>

\* A process dies: its drivers' memory is gone, and the kernel drops the lock
\* one of them may hold.
Killed(p, f, v) == [d \in Drivers |-> IF ProcessOf[d] = p THEN v ELSE f[d]]

Dies(p) ==
  /\ interrupts < MaxInterrupts
  /\ interrupts' = interrupts + 1
  /\ lock' = IF \E d \in Drivers : lock = d /\ ProcessOf[d] = p THEN NoDriver ELSE lock
  /\ pc' = Killed(p, pc, "idle")
  /\ mem' = Killed(p, mem, NoJob)
  /\ ctx' = Killed(p, ctx, FALSE)
  /\ arg' = Killed(p, arg, NoHooks)
  /\ ret' = Killed(p, ret, "none")
  /\ UNCHANGED <<disk, users, announced, faults, retries>>

Crash(p) == (\E d \in Drivers : ProcessOf[d] = p /\ Driving(d)) /\ Dies(p)

-----------------------------------------------------------------------------
\* The steps of a driver that holds the lock, which it always has one of.
Step(d) ==
  \/ NoStep(d) \/ StepSkipped(d) \/ ExportStep(d) \/ ValidateStep(d)
  \/ SaveChunk(d) \/ ImportStep(d) \/ VerifyStep(d) \/ StepError(d)

Continue(d) ==
  \/ LoadNothingToDo(d) \/ LoadJob(d) \/ LoadFails(d) \/ BeforeRun(d)
  \/ Loop(d) \/ EnterState(d) \/ Step(d) \/ SaveStep(d) \/ ExitState(d) \/ Move(d)
  \/ Stop(d) \/ Finish(d) \/ FinishSave(d) \/ Unlock(d)
  \/ RetryRejected(d) \/ RetryLoad(d) \/ RetrySave(d)

Next ==
  \/ Create
  \/ \E d \in Drivers :
       \/ \E file \in HooksFiles : RunLock(d, file, FALSE)
       \/ \E from \in JobStateSet \cup {"none"} : RetryLock(d, from)
       \/ Continue(d)
       \/ Cancel(d)
  \/ \E p \in Processes : Crash(p)

Spec == Init /\ [][Next]_vars

\* A driver that holds the lock goes on until it releases it, and a Run of the
\* job is asked for again and again, by the operator or by the server's
\* restarts.  The lock being free only now and then, that is strong fairness.
Fairness ==
  /\ \A d \in Drivers : WF_vars(Continue(d))
  /\ \A d \in Drivers : SF_vars(\E file \in HooksFiles : RunLock(d, file, FALSE))

FairSpec == Spec /\ WF_vars(Create) /\ Fairness

-----------------------------------------------------------------------------
\* Correctness.

\* Every variable keeps its type: the shape of the job record and of a call.
TypeOK ==
  /\ disk \in Job
  /\ lock \in Drivers \cup {NoDriver}
  /\ users \in Nat
  /\ pc \in [Drivers -> Pcs]
  /\ mem \in [Drivers -> Job]
  /\ ctx \in [Drivers -> BOOLEAN]
  /\ arg \in [Drivers -> HooksFiles \cup JobStateSet \cup {"none"}]
  /\ ret \in [Drivers -> Returns]
  /\ announced \in BOOLEAN
  /\ faults \in Nat /\ interrupts \in Nat /\ retries \in Nat

\* Two calls never work on the job at once: whoever is between Lock and unlock
\* is the lock's holder, through crashes and returns on every path (Store.Lock,
\* "so two runs never drive one job at once").
SingleDriver == \A d \in Drivers : Driving(d) => lock = d

\* The states a record's results can be of: those up to the one it is in, or
\* failed in.
Reached(j) == Index(IF j.state = "failed" THEN j.failedIn ELSE j.state)

\* No result is of a state the job has yet to reach, whatever the retries,
\* failed saves and crashes: a Run never finds leftovers of the steps ahead of
\* it (Retry discards "the results of it and of every later step").
NoLaterResults ==
  \A k \in ResultKinds : Has(disk, k) => Index(StateOf(k)) <= Reached(disk)

\* Validation, import and verification are of one and the same users file: no
\* sequence of crashes and retries gets a result of an earlier export past a
\* later one.
SameUsersFile ==
  /\ \A k \in ResultKinds \ {"manifest"} :
       Has(disk, k) => disk.results[k].users = users
  /\ Has(disk, "manifest") => disk.results["manifest"].users = users

\* A job is past a state only with that state's result, and only with a clean
\* one: a job can't be done unvalidated, unimported or unverified because a
\* save was lost or a step was resumed.
PassedStates ==
  LET past == Reached(disk) IN
  /\ past > Index("exporting") /\ disk.source => Has(disk, "manifest")
  /\ past > Index("validating") => Has(disk, "problems") /\ disk.results["problems"].ok
  /\ past > Index("importing") => Has(disk, "report")
  /\ disk.state = "done" => Has(disk, "diff") /\ disk.results["diff"].ok

\* Error and FailedIn are set when, and only when, the job is Failed (Job), and
\* name a state that can fail.
FailedInRecorded ==
  /\ disk.state = "failed" <=> disk.failedIn # "none"
  /\ disk.failedIn \in {"none", "queued"} \cup WorkingStates

\* What a driver works on is never behind the disk: saving its copy can't lose
\* a result or a checkpoint another run recorded.
NoLostUpdate ==
  \A d \in Drivers :
    pc[d] \in RunPcs \ {"load"} =>
      \A k \in ResultKinds : Has(disk, k) => Has(mem[d], k)

\* The persisted state moves along CanTransition only, except that a retry puts
\* a failed job back in a state at or before the one it failed in.
PersistedMoves ==
  [][\/ disk'.state = disk.state
     \/ disk = NoJob /\ disk'.state = "queued"
     \/ CanTransition(disk.state, disk'.state)
     \/ disk.state = "failed" /\ RetryAllowed(disk'.state, disk.failedIn)]_vars

\* Finished steps are not redone: a users file with a manifest on record isn't
\* exported again, nor users with a report on record imported again, by any
\* run, however many crashes later.
Imports(d) == /\ ~Has(mem[d], "report") /\ Has(mem[d], "report")'
              /\ mem'[d].state = "importing"
FinishedStepsNotRedone ==
  [][/\ users' # users => ~Has(disk, "manifest")
     /\ \A d \in Drivers : pc[d] = "step" /\ Imports(d) => ~Has(disk, "report")]_vars

\* As long as the job is asked to be run, it ends: no fault, interruption or
\* retry leaves it where no Run can carry it on.
JobEnds == []<>(disk.state \in TerminalStates)

-----------------------------------------------------------------------------
\* The inductive invariant the proofs rest on.

BeforeDone == {"queued"} \cup WorkingStates
WorkPcs == {"before", "enter", "step", "saveOk", "saveErr", "exit", "move", "stop"}

\* Where a driver is tells what it was called with and how far its copy can be.
DriverInv ==
  \A d \in Drivers :
    /\ pc[d] \in RunPcs => arg[d] \in HooksFiles
    /\ pc[d] \in WorkPcs => mem[d].state \in BeforeDone
    /\ pc[d] = "loop" => mem[d].state \in BeforeDone \cup {"done"}
    /\ pc[d] \in {"finish", "finishSave"} => mem[d].state \in TerminalStates

\* The step of j's state has nothing left to find.
Clean(j) ==
  /\ j.state = "exporting" /\ j.source => Has(j, "manifest")
  /\ j.state = "validating" => j.results["problems"].ok
  /\ j.state = "importing" => Has(j, "report")
  /\ j.state = "verifying" => j.results["diff"].ok

\* Copy j is what the disk has, or is ahead of it by results of its current
\* state, computed with the users file there is.
SameRecord(j) ==
  /\ j.state = disk.state /\ j.source = disk.source /\ j.failedIn = disk.failedIn
  /\ j.results = disk.results
AheadOfRecord(j) ==
  /\ j.state = disk.state /\ j.source = disk.source /\ j.failedIn = disk.failedIn
  /\ \A k \in ResultKinds :
       \/ j.results[k] = disk.results[k]
       \/ /\ StateOf(k) = disk.state
          /\ j.results[k].users = users /\ users > 0
          /\ k \in {"manifest", "report"} => j.results[k].ok

\* A driver's copy is ahead of the disk only between a step and the save of
\* its outcome.
CopyOf(d) ==
  /\ pc[d] \in RunPcs \ {"load"} =>
       IF pc[d] \in {"saveOk", "saveErr", "stop"} THEN AheadOfRecord(mem[d])
                                                ELSE SameRecord(mem[d])
  /\ pc[d] \in {"saveOk", "exit", "move"} => Clean(mem[d])
  /\ pc[d] = "retrySave" =>
       /\ Retryable(disk)
       /\ \E from \in WorkingStates :
            /\ RetryAllowed(from, disk.failedIn)
            /\ mem[d] = PutBack(disk, from)
CopyInv == \A d \in Drivers : CopyOf(d)

\* The export and the import record a result only when they succeeded.
CleanRecords ==
  \A k \in {"manifest", "report"} : Has(disk, k) => disk.results[k].ok

IInv ==
  /\ DriverInv /\ CopyInv /\ CleanRecords
  /\ disk.state = "absent" => disk = NoJob

\* What the record on disk shows is a run of JobLifecycle: no interleaving of
\* drivers, crash, failed save or retry shows a reader of the job anything else.
CleanStates == {StateOf(k) : k \in {r \in ResultKinds \ {"chunks"} : disk.results[r].ok}}

Lifecycle == INSTANCE JobLifecycle
  WITH state <- disk.state, source <- disk.source, failedIn <- disk.failedIn,
       finished <- CleanStates

ImplementsLifecycle == Lifecycle!Spec

-----------------------------------------------------------------------------
\* What the documentation says of a job and the code does not keep: each is
\* checked by a run that violates it.

\* A retry that names no state is never refused to a failed job: "Retry puts a
\* failed job back in a state [...]: the state it failed in if from is empty"
\* (internal/jobs/runner.go).
FailedJobRetryable ==
  \A d \in Drivers : ret[d] = "badState" => arg[d] # "none"

\* job.done or job.failed is fired for every outcome: "Once the job is done",
\* "Once the job has failed, whatever failed it" (docs/reference/hooks/events.mdx).
OutcomeAnnounced == (disk.state \in TerminalStates) ~> announced
=============================================================================
