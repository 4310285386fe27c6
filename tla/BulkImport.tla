----------------------------- MODULE BulkImport -----------------------------
(***************************************************************************)
(* The chunked import into Auth0 of pkg/connector/auth0/bulkimport.go, as  *)
(* a migration job runs it, crashes in it and resumes it.                  *)
(*                                                                         *)
(* The caller of submit reads the users chunk by chunk; each chunk that    *)
(* has not been imported gets a goroutine (submitAndPoll), as long as a    *)
(* slot is free and no other has failed.  The chunks' checkpoints are kept *)
(* in the job's record, which every save writes whole.  Auth0 and its      *)
(* import jobs are the environment.                                        *)
(*                                                                         *)
(* A chunk is its number and a fingerprint its version of the input; users *)
(* and reports are left out, but for what Auth0 says of a chunk's job.     *)
(***************************************************************************)
EXTENDS Naturals, FiniteSets

CONSTANTS
  N,              \* the chunks the input is cut into
  Slots,          \* maxConcurrentJobs
  TenantLimit,    \* the jobs Auth0 runs at once for a tenant
  MaxJobs,        \* bound on the Auth0 jobs created for a chunk
  MaxInput,       \* bound on the versions of the input
  MaxFaults,      \* bound on jobs, requests, saves, hooks and reads that fail
  MaxInterrupts   \* bound on crashes, cancelled contexts and changes of input

ASSUME SizesAssumption ==
  /\ N \in Nat /\ Slots \in Nat \ {0} /\ TenantLimit \in Nat \ {0}
  /\ MaxInput \in Nat \ {0} /\ MaxJobs \in Nat /\ MaxFaults \in Nat /\ MaxInterrupts \in Nat

Chunks == 1..N

\* Auth0's job IDs are opaque: the chunk posted, and which time.  The empty ID
\* is NoID.
JobIDs == Chunks \X (1..MaxJobs)
NoID == <<0, 0>>

VARIABLES
  input,      \* the version of the users file
  disk,       \* the checkpoints saved with the job
  mem,        \* those of the job in memory
  reader,     \* where the caller of submit is, "off" when no import runs
  next,       \* the chunk it is at
  readErr,    \* it stopped on an error
  go,         \* where each chunk's goroutine is
  cp,         \* its copy of its checkpoint
  slots,      \* how many slots are taken
  failed,     \* whether the channel failed is closed
  ctx,        \* whether the import's context is done
  auth0,      \* Auth0's import jobs
  result,     \* how the last import ended
  fired,      \* history: import.chunk.after was fired for a chunk's outcome
  faults, interrupts

store == <<disk, mem>>
run == <<reader, next, readErr>>
bounds == <<faults, interrupts>>
vars == <<input, disk, mem, reader, next, readErr, go, cp, slots, failed, ctx,
          auth0, result, fired, faults, interrupts>>

Checkpoint == [fp : 0..MaxInput, job : JobIDs \cup {NoID}, done : BOOLEAN]
NoCheckpoint == [fp |-> 0, job |-> NoID, done |-> FALSE]
Statuses == {"none", "running", "completed", "failed"}
Auth0Job == [fp : 0..MaxInput, status : Statuses]

\* The goroutines that hold a slot, and where each can have come to.
Working == {"post", "saveID", "poll", "saveOutcome", "after", "err", "leave"}
Ended == {"none", "ok", "failed"}

Fault == faults < MaxFaults /\ faults' = faults + 1

\* A call that its context ends, or that fails by itself.
CallFails == IF ctx THEN UNCHANGED faults ELSE Fault

At(c, p) == go[c] = p
Goto(c, p) == go' = [go EXCEPT ![c] = p]

Init ==
  /\ input = 1
  /\ disk = [c \in Chunks |-> NoCheckpoint]
  /\ mem = disk
  /\ reader = "off" /\ next = 1 /\ readErr = FALSE
  /\ go = [c \in Chunks |-> "none"]
  /\ cp = [c \in Chunks |-> NoCheckpoint]
  /\ slots = 0 /\ failed = FALSE /\ ctx = FALSE
  /\ auth0 = [id \in JobIDs |-> [fp |-> 0, status |-> "none"]]
  /\ result = "none"
  /\ fired = [c \in Chunks |-> FALSE]
  /\ faults = 0 /\ interrupts = 0

\* The import step runs, first or again: the job is loaded from disk.
Start ==
  /\ reader = "off" /\ result # "ok"
  /\ reader' = "read"
  /\ mem' = disk
  /\ result' = "none"
  /\ UNCHANGED <<input, disk, next, readErr, go, cp, slots, failed, ctx, auth0, fired, bounds>>

-----------------------------------------------------------------------------
\* streamChunks and submit.

\* The caller stops reading and waits for what is running.
StopReading == reader' = "wait" /\ readErr' = TRUE /\ UNCHANGED next

ReadEnd ==
  /\ reader = "read" /\ next > N
  /\ reader' = "wait"
  /\ UNCHANGED <<input, store, next, readErr, go, cp, slots, failed, ctx, auth0,
                 result, fired, bounds>>

\* The context is done, or a user can't be read or a hook refuses its payload.
ReadFails ==
  /\ reader = "read"
  /\ CallFails
  /\ StopReading
  /\ UNCHANGED <<input, store, go, cp, slots, failed, ctx, auth0, result, fired,
                 interrupts>>

Reading == reader = "read" /\ next <= N
Saved(c) == mem[c].fp # 0

\* The input changed since the checkpoint was saved.
ChunkChanged ==
  /\ Reading
  /\ Saved(next) /\ mem[next].fp # input
  /\ StopReading
  /\ UNCHANGED <<input, store, go, cp, slots, failed, ctx, auth0, result, fired,
                 bounds>>

Matching(c) == Saved(c) => mem[c].fp = input

\* Mutant of ChunkReplayed: a chunk that is done is passed over.
ChunkPassed ==
  /\ Reading /\ Matching(next) /\ mem[next].done
  /\ next' = next + 1
  /\ UNCHANGED <<input, store, reader, readErr, go, cp, slots, failed, ctx, auth0,
                 result, fired, bounds>>

\* A chunk done in its checkpoint only fires its event again.
ChunkReplayed ==
  /\ Reading /\ Matching(next) /\ mem[next].done
  /\ \/ /\ fired' = [fired EXCEPT ![next] = TRUE]
        /\ next' = next + 1
        /\ UNCHANGED <<reader, readErr, faults>>
     \/ CallFails /\ StopReading /\ UNCHANGED fired
  /\ UNCHANGED <<input, store, go, cp, slots, failed, ctx, auth0, result, interrupts>>

\* Anything else waits for the select of submit, whichever of its cases is ready.
Pending == Reading /\ Matching(next) /\ ~mem[next].done

\* Mutant of TakeSlot: nothing limits the slots.
TakeAnySlot ==
  /\ Pending
  /\ slots' = slots + 1
  /\ reader' = "check"
  /\ UNCHANGED <<input, store, next, readErr, go, cp, failed, ctx, auth0, result,
                 fired, bounds>>

TakeSlot ==
  /\ Pending /\ slots < Slots
  /\ slots' = slots + 1
  /\ reader' = "check"
  /\ UNCHANGED <<input, store, next, readErr, go, cp, failed, ctx, auth0, result,
                 fired, bounds>>

GiveUp ==
  /\ Pending /\ (failed \/ ctx)
  /\ StopReading
  /\ UNCHANGED <<input, store, go, cp, slots, failed, ctx, auth0, result, fired,
                 bounds>>

\* Mutant of BackOff: the slot is not given back.
BackOffLeaking ==
  /\ reader = "check" /\ failed
  /\ StopReading
  /\ UNCHANGED <<input, store, go, cp, slots, failed, ctx, auth0, result, fired, bounds>>

\* The slot is given back when a job has failed meanwhile.
BackOff ==
  /\ reader = "check" /\ failed
  /\ slots' = slots - 1
  /\ StopReading
  /\ UNCHANGED <<input, store, go, cp, failed, ctx, auth0, result, fired, bounds>>

\* Mutants of Launch: the failure is not looked at again, or the job's ID isn't.
LaunchWhen(allowed, first) ==
  /\ reader = "check" /\ allowed
  /\ cp' = [cp EXCEPT ![next] = IF Saved(next) THEN mem[next]
                                ELSE [NoCheckpoint EXCEPT !.fp = input]]
  /\ Goto(next, first)
  /\ next' = next + 1
  /\ reader' = "read"
  /\ UNCHANGED <<input, store, readErr, slots, failed, ctx, auth0, result, fired,
                 bounds>>
LaunchAnyway == LaunchWhen(TRUE, IF mem[next].job = NoID THEN "post" ELSE "poll")
LaunchPosting == LaunchWhen(~failed, "post")

\* The chunk's goroutine starts; one whose job exists goes straight to it.
Launch ==
  /\ reader = "check" /\ ~failed
  /\ cp' = [cp EXCEPT ![next] = IF Saved(next) THEN mem[next]
                                ELSE [NoCheckpoint EXCEPT !.fp = input]]
  /\ Goto(next, IF mem[next].job = NoID THEN "post" ELSE "poll")
  /\ next' = next + 1
  /\ reader' = "read"
  /\ UNCHANGED <<input, store, readErr, slots, failed, ctx, auth0, result, fired,
                 bounds>>

\* wait, and the save of the job runStep makes with what the import left: the
\* import is done only if that save is.
Return ==
  /\ reader = "wait" /\ \A c \in Chunks : go[c] \in Ended
  /\ reader' = "off" /\ next' = 1 /\ readErr' = FALSE
  /\ \/ /\ disk' = mem
        /\ result' = IF failed \/ readErr THEN "error" ELSE "ok"
        /\ UNCHANGED faults
     \/ Fault /\ result' = "error" /\ UNCHANGED disk
  /\ mem' = disk'
  /\ go' = [c \in Chunks |-> "none"]
  /\ slots' = 0 /\ failed' = FALSE /\ ctx' = FALSE
  /\ UNCHANGED <<input, cp, auth0, fired, interrupts>>

-----------------------------------------------------------------------------
\* submitAndPoll, the goroutine of chunk c.

Created(c, id) == [auth0 EXCEPT ![id] = [fp |-> cp[c].fp, status |-> "running"]]
Unused(c, n) == \A i \in 1..MaxJobs : auth0[<<c, i>>].status = "none" <=> i >= n
RunningJobs == {id \in JobIDs : auth0[id].status = "running"}

TenantFull == Cardinality(RunningJobs) >= TenantLimit

\* submitImportJob asks again when Auth0 is at its limit, and gives up in the end.
\* An answer that is lost is not asked for again: the job may have been created.
Post(c) ==
  /\ At(c, "post")
  /\ \/ \E n \in 1..MaxJobs :
          /\ Unused(c, n) /\ ~TenantFull
          /\ auth0' = Created(c, <<c, n>>)
          /\ \/ cp' = [cp EXCEPT ![c].job = <<c, n>>] /\ Goto(c, "saveID") /\ UNCHANGED faults
             \/ CallFails /\ Goto(c, "err") /\ UNCHANGED cp
     \/ /\ CallFails \/ (TenantFull /\ UNCHANGED faults)
        /\ Goto(c, "err")
        /\ UNCHANGED <<auth0, cp>>
  /\ UNCHANGED <<input, store, run, slots, failed, ctx, result, fired, interrupts>>

\* SaveChunk: the checkpoint is put in the job, which is saved whole.
SaveChunk(c, saved, then) ==
  /\ mem' = [mem EXCEPT ![c] = saved]
  /\ \/ disk' = mem' /\ Goto(c, then) /\ UNCHANGED faults
     \/ Fault /\ Goto(c, "err") /\ UNCHANGED disk

SaveID(c) ==
  /\ At(c, "saveID")
  /\ SaveChunk(c, cp[c], "poll")
  /\ UNCHANGED <<input, run, cp, slots, failed, ctx, auth0, result, fired, interrupts>>

\* pollJob and fetchJobErrors.
Poll(c) ==
  /\ At(c, "poll")
  /\ \/ auth0[cp[c].job].status # "running" /\ Goto(c, "saveOutcome") /\ UNCHANGED faults
     \/ CallFails /\ Goto(c, "err")
  /\ UNCHANGED <<input, store, run, cp, slots, failed, ctx, auth0, result, fired,
                 interrupts>>

\* Mutant of Outcome: a job that ended is done, however it did.
OutcomeDone(c) == [cp[c] EXCEPT !.done = TRUE]

\* A failed job is forgotten, any other makes the chunk done.
Outcome(c) ==
  IF auth0[cp[c].job].status = "failed" THEN [cp[c] EXCEPT !.job = NoID]
                                        ELSE [cp[c] EXCEPT !.done = TRUE]

SaveOutcome(c) ==
  /\ At(c, "saveOutcome")
  /\ SaveChunk(c, Outcome(c), "after")
  /\ fired' = [fired EXCEPT ![c] = FALSE]
  /\ UNCHANGED <<input, run, cp, slots, failed, ctx, auth0, result, interrupts>>

\* Mutant of Leave: the slot is kept.
LeaveKeepingSlot(c, how) ==
  /\ Goto(c, how)
  /\ cp' = [cp EXCEPT ![c] = NoCheckpoint]
  /\ UNCHANGED slots

\* The goroutine is over, and gives its slot back.
Leave(c, how) ==
  /\ Goto(c, how)
  /\ slots' = slots - 1
  /\ cp' = [cp EXCEPT ![c] = NoCheckpoint]

After(c) ==
  /\ At(c, "after")
  /\ \/ fired' = [fired EXCEPT ![c] = TRUE] /\ Leave(c, "ok") /\ UNCHANGED faults
     \/ CallFails /\ Goto(c, "err") /\ UNCHANGED <<fired, slots, cp>>
  /\ UNCHANGED <<input, store, run, failed, ctx, auth0, result, interrupts>>

\* The error of a chunk is noted, and failed closed, before its slot is free.
CloseFailed(c) ==
  /\ At(c, "err")
  /\ failed' = TRUE
  /\ Goto(c, "leave")
  /\ UNCHANGED <<input, store, run, cp, slots, ctx, auth0, result, fired, bounds>>

LeaveFailed(c) ==
  /\ At(c, "leave")
  /\ Leave(c, "failed")
  /\ UNCHANGED <<input, store, run, failed, ctx, auth0, result, fired, bounds>>

-----------------------------------------------------------------------------
\* The environment.

\* Auth0 ends a job, whoever waits for it.
JobEnds(id) ==
  /\ auth0[id].status = "running"
  /\ \/ auth0' = [auth0 EXCEPT ![id].status = "completed"] /\ UNCHANGED faults
     \/ Fault /\ auth0' = [auth0 EXCEPT ![id].status = "failed"]
  /\ UNCHANGED <<input, store, run, go, cp, slots, failed, ctx, result, fired, interrupts>>

\* The users file is replaced between two imports of the job.
ChangeInput ==
  /\ reader = "off" /\ result # "ok"
  /\ input < MaxInput
  /\ input' = input + 1
  /\ interrupts < MaxInterrupts /\ interrupts' = interrupts + 1
  /\ UNCHANGED <<store, run, go, cp, slots, failed, ctx, auth0, result, fired, faults>>

Cancel ==
  /\ reader # "off" /\ ~ctx
  /\ interrupts < MaxInterrupts /\ interrupts' = interrupts + 1
  /\ ctx' = TRUE
  /\ UNCHANGED <<input, store, run, go, cp, slots, failed, auth0, result, fired, faults>>

Crash ==
  /\ reader # "off"
  /\ interrupts < MaxInterrupts /\ interrupts' = interrupts + 1
  /\ reader' = "off" /\ next' = 1 /\ readErr' = FALSE
  /\ mem' = disk
  /\ go' = [c \in Chunks |-> "none"]
  /\ cp' = [c \in Chunks |-> NoCheckpoint]
  /\ slots' = 0 /\ failed' = FALSE /\ ctx' = FALSE
  /\ result' = "none"
  /\ UNCHANGED <<input, disk, auth0, fired, faults>>

-----------------------------------------------------------------------------
Read ==
  \/ ReadEnd \/ ReadFails \/ ChunkChanged \/ ChunkReplayed
  \/ TakeSlot \/ GiveUp \/ BackOff \/ Launch \/ Return

ImportChunk(c) ==
  \/ Post(c) \/ SaveID(c) \/ Poll(c) \/ SaveOutcome(c) \/ After(c)
  \/ CloseFailed(c) \/ LeaveFailed(c)

Next ==
  \/ Start \/ Read
  \/ \E c \in Chunks : ImportChunk(c)
  \/ \E id \in JobIDs : JobEnds(id)
  \/ ChangeInput \/ Cancel \/ Crash

Spec == Init /\ [][Next]_vars

\* The goroutines go on, and Auth0 ends the jobs it runs.  As each of them has
\* only so much to do, that some one of them goes on is enough.
Fairness ==
  /\ WF_vars(Read \/ \E c \in Chunks : ImportChunk(c))
  /\ WF_vars(\E id \in JobIDs : JobEnds(id))

FairSpec == Spec /\ Fairness

-----------------------------------------------------------------------------
\* Correctness.

\* Every variable keeps its type.
TypeOK ==
  /\ input \in 1..MaxInput
  /\ disk \in [Chunks -> Checkpoint] /\ mem \in [Chunks -> Checkpoint]
  /\ cp \in [Chunks -> Checkpoint]
  /\ reader \in {"off", "read", "check", "wait"}
  /\ next \in 1..(N + 1)
  /\ go \in [Chunks -> Working \cup Ended]
  /\ slots \in 0..Slots
  /\ readErr \in BOOLEAN /\ failed \in BOOLEAN /\ ctx \in BOOLEAN
  /\ auth0 \in [JobIDs -> Auth0Job]
  /\ result \in {"none", "ok", "error"}
  /\ fired \in [Chunks -> BOOLEAN]
  /\ faults \in 0..MaxFaults /\ interrupts \in 0..MaxInterrupts

\* Every slot taken is somebody's: none is leaked by an error path, none given
\* back twice, so that the import neither starves nor passes Auth0's limit.
SlotsAccounted ==
  slots = Cardinality({c \in Chunks : go[c] \in Working})
            + (IF reader = "check" THEN 1 ELSE 0)

\* A checkpoint tells the truth of Auth0: its job is of that chunk and of the
\* input it was cut from, and a chunk marked done was imported by it.
CheckpointsTrue ==
  \A c \in Chunks :
    /\ disk[c].job # NoID =>
         disk[c].job[1] = c /\ auth0[disk[c].job].fp = disk[c].fp
    /\ disk[c].done =>
         disk[c].job # NoID /\ auth0[disk[c].job].status = "completed"

\* An import that succeeds has had every chunk of the current input run to its
\* end by Auth0, and has announced every outcome, over however many runs.
SuccessCovers ==
  result = "ok" =>
    \A c \in Chunks :
      /\ fired[c]
      /\ disk[c].fp = input
      /\ \E n \in 1..MaxJobs :
           auth0[<<c, n>>] \in [fp : {input}, status : {"completed", "failed"}]

\* No chunk is submitted to Auth0 while its checkpoint holds a job or says it
\* is done ("a finished chunk isn't submitted again, and a chunk whose Auth0 job
\* is still running is waited for rather than resubmitted", job.mdx).
NotResubmitted ==
  [][\A id \in JobIDs :
       auth0[id].status = "none" /\ auth0'[id].status # "none" =>
         ~disk[id[1]].done /\ disk[id[1]].job = NoID]_vars

\* Once a chunk has failed no other is started, though a slot and the failure
\* can be ready together ("no further chunk is submitted").
NoneStartedAfterFailure ==
  [][failed /\ failed' => \A c \in Chunks : go[c] = "none" => go'[c] = "none"]_vars

\* An import returns, as long as Auth0 ends its jobs: neither submit nor wait is
\* left waiting by a chunk that failed.
ImportReturns == reader # "off" ~> reader = "off"

-----------------------------------------------------------------------------
\* What the documentation says and the code does not keep.

\* A chunk is never imported twice over, which "would report every user in it
\* as a duplicate": "the Auth0 job ID as soon as the job exists"
\* (docs/reference/cli/job.mdx).
OneJobPerChunk ==
  \A i, j \in JobIDs :
    auth0[i].status \in {"running", "completed"} /\ auth0[j].status \in {"running", "completed"}
      /\ i[1] = j[1] /\ auth0[i].fp = auth0[j].fp => i = j
=============================================================================
