# iamigrate in TLA+

iamigrate moves users between identity providers: it exports them into a
neutral file (CMF), validates them, imports them into a target, and verifies
the result.  A migration can be driven step by step from the command line, or as
a *job*, whose record on disk lets it be interrupted, resumed and retried.

Three groups of modules follow the code from the outside in.  The *jobs*: the
runner, its record and lock, and the server.  The *imports*: Auth0's chunks, then
its organizations and roles; the imports of the other targets, user by user or in
batches, with the preparation of users before them and the reconciliation after.
The *translations*: what becomes of one user, from the source's record to the
target's account.  TLC checks them all on small instances, and TLAPS proves the
safety of the jobs, of their server and of the imports, what validate and Verify
promise of a user, and that nothing a record holds is lost without a word, for every
instance.

`PROJECT.json` is the index: components, runs, mutants, the source lines each
definition stands for, findings, hazards, theorems.

## Inventory

| Component | State it keeps | Operations | Talks to | What makes it correct |
| --- | --- | --- | --- | --- |
| Job states (`internal/jobs/state.go`) | none | `Next`, `CanTransition`, the states a retry may name | runner | the order of the states |
| Job runner (`runner.go`, `steps.go`, `job.go`) | a copy of the record per call | `Create`, `Run`, `Retry`, `SaveChunk`, hook calls | store, steps, hooks | the record is coherent after any crash; finished steps are not redone; a failure and its state go together |
| Job store (`store.go`, `lock_*.go`) | `<id>.json`, `<id>.lock` | `Save`, `Load`, `List`, `Lock` | file system | atomic saves, one holder of the lock |
| Job server (`internal/api/server.go`, `cmd/serve.go`) | background runs, a context | POST `/jobs`, POST `/jobs/{id}/retry`, `Resume`, shutdown | runner | an accepted job is run; a shutdown ends |
| Job client and CLI (`api/client.go`, `cmd/job*.go`) | none | create, run, retry, status, `Wait` | runner or server | waits end |
| Auth0 chunked import (`auth0/bulkimport.go`, `checkpoint.go`) | slots, goroutines, checkpoints | `submit`, `wait`, `submitAndPoll`, `SaveChunk` | Auth0's import jobs, the record | no chunk lost, none resubmitted, no slot leaked |
| Auth0 organizations and roles (`orgs_roles.go`, `pool.go`) | a pause the workers share | list, create by name, assign | Auth0 | a pause is never shortened; reruns create nothing twice; what was not assigned is reported |
| Auth0 tokens and client (`token.go`, `client.go`) | a cached token | `Token`, `doJSON` | Auth0 | no expired token is sent |
| Hooks (`pkg/hooks`, `httpx.Retry`, `pkg/lifecycle`) | results recorded on the job, a batch counter | events, notifications, strategy batches, webhooks | receivers | an ID means one call; a failure fails or is ignored, as the mapping says |
| Import preparation and strategies (`pkg/importprep`, `pkg/strategy`) | the batch being read | `ReadUser`, `ReadBatch`, `prepare`, `Payloads` | hooks | nobody lost, repeated or reordered |
| Kratos, Keycloak, Cognito and Firebase imports | what is waiting to be sent | per-user calls or batches | targets | each user reported once, and in the target as reported, runs cut short included |
| Reconciliation (`pkg/reconcile`, `diff`) | counts | `Run`, the connectors' `check` | targets, hooks | every user counted once; what is missing was reported |
| Validation, IDs, export pass (`pkg/validate`, `pkg/ids`, `pkg/exportpass`) | identifiers seen | `Check`, `Assign`, `Rewrite` | hooks | what passes is taken by the import |
| Connectors' translations, `pkg/hash` | -- | a record to a user, a user to a payload, a hash to a hash | -- | nothing lost without a word |
| CMF encoding, mapping files, progress bar, flags | -- | -- | -- | -- |

The hard behaviours: drivers in several processes competing for one job; a crash,
cancellation or failed save between any two steps; retries that discard some
results and keep others; goroutines sharing slots, a pause, a token and one record;
remote jobs and accounts that outlive the process that made them; requests carried
out though nobody heard the answer; background runs refused a lock; batches of which
some are skipped, fail or are cut off.  The `hazards` list of `PROJECT.json` has each at its line.

## Modules

| Module | Models | Used by |
| --- | --- | --- |
| `JobStates` | the states, their order, what a retry may go back to and keeps | all job modules |
| `JobLifecycle` | the abstract specification: what a job promises whoever reads its record | refined by `JobRunner` |
| `JobRunner` | `Run` and `Retry` by any number of drivers, in any processes, over one record and one lock | `JobServer`, proofs |
| `JobServer` | the server over `JobRunner`'s drivers | |
| `BulkImport` | the chunked import, its checkpoints and Auth0's jobs, over several runs | |
| `ImportPrep` | the batching reader of `importprep` and the strategies' calls | `UserImport` |
| `UserImport` | the imports of Kratos, Keycloak, Cognito and Firebase, EXTENDS `ImportPrep` | `Reconcile` |
| `Reconcile` | the diff after them, EXTENDS `UserImport` | |
| `OrgRoles` | the second phase of the Auth0 import, with pool, limiter and token | proofs |
| `Hashes` | `pkg/hash`: hashes recognised, validated and translated | `Targets` |
| `Targets` | what each target makes of a user: payload, validation, lookup | `Sources` |
| `Sources` | what each source makes of a record | `Migration` |
| `Migration` | one user through export, rewriting, validation, import and verification | |
| `JobRunnerProofs` | theorems about `JobRunner`: types, the lock, the record, the refinement | `JobServerProofs` |
| `JobServerProofs` | the same under the server, and what the server adds, EXTENDS `JobServer` too | |
| `BulkImportProofs` | theorems about the chunked import | |
| `OrgRolesProofs` | theorems about the pool, then the whole second phase | |
| `ImportProofs` | sequences counted and filtered, `ImportInv` kept by every step of the imports, EXTENDS `Reconcile` | the next two |
| `DiffProofs` | the diff, its report and what it finds missing | |
| `CourseProofs` | an event ID is of the same users in every run | |
| `MigrationProofs` | what validate passes, what Verify finds, and what becomes of a password, a factor and a metadata key, for any user | |
| `MCJobRunner`, `MCJobServer`, `MCReconcile`, `MCOrgRoles`, `MCMigration` | what TLC needs to instantiate them | |

### JobRunner

A driver is one call of `Run` or `Retry`.  `disk` is the record as last saved,
`mem[d]` the copy a driver loaded, `lock` the lock file, `pc[d]` the place in the
call: each label stands between two things a crash can separate.

| Code | Actions |
| --- | --- |
| `Runner.Run` to the first event | `RunLock`, `LoadNothingToDo`, `LoadFails`, `LoadJob` (with `noteHooksFile`), `BeforeRun` |
| its loop | `Loop`, `EnterState`, the step, `SaveStep` (`runStep`), `ExitState`, `Move` (`transition`) |
| its ends | `Stop` (`stop` and `fail`), `Finish`, `FinishSave` (`finish`), `Unlock` |
| the steps | `NoStep`, `ExportStep`, `ValidateStep`, `SaveChunk` and `ImportStep`, `VerifyStep`, `StepSkipped`, `StepError` |
| `Runner.Retry` | `RetryLock`, `RetryRejected`, `RetryLoad`, `RetrySave`, `Unlock` |
| signals and deaths | `Cancel`, `Crash` |

A result is kept as the version of the users file and the hooks file it was
computed with, and whether it was clean.  The code keeps nothing of a validation
that found no problem: the model keeps its mark, as a history, to state that the
job did validate.  A `Run` that does not get the lock returns and changes nothing,
so there is no action for it here; there is one in `JobServer`, where it matters.
A missing users file and checkpoints of another file make a step fail by
themselves; every other failure counts against `MaxFaults`.

### JobServer

It adds the server's phase (`up`), the goroutines of `start` that have yet to call
`Lock` (`starts`) and what `Resume` listed.  Requests are served before `Resume` is
done, as in `cmd/serve.go`.  One driver is enough, as the lock lets only one work.
A client of the server waits for the job (`BeginWait`, `Poll`, `GiveUpWait`).
`excuses` is a history of what the server logged before it left the job alone.

### BulkImport

The reader (`streamChunks` and `submit`) and each chunk's goroutine
(`submitAndPoll`) interleave with Auth0, crashes and cancellations.  `disk` and
`mem` are the checkpoints on disk and in the job in memory; every save writes all
of them.  The users, the reports and the retries of a request are left out: a
request that fails has failed after them.  Job IDs are opaque in the code; here one
is the chunk and how many times it was posted, which saves TLC their permutations.
The import is run again after an error, as a retried or resumed job does, until it
succeeds.

### ImportPrep, UserImport and Reconcile

`ImportPrep` is `importprep.Reader`: a batch is read (`Fill`), and each delegated
strategy is called on what the ones before left of it (`Prepare`, `Call`), in
`hooks.Batcher`'s batches, each with its event ID; a call can be retried, fail, or
fail and be ignored.  The answers matter only in whom import.user drops, and are
the same for a user each time, as the hooks documentation asks.  `Select` stands for
Go's loops that filter a slice: it is `SelectSeq` said with a function, about which the
provers have facts.

`UserImport` has the loops of four connectors.  Kratos and Keycloak build a batch
of payloads, then send each (`Build`, `Post`).  Cognito takes a user through up to
four calls (`NextCall`), any of which can be the last one made.  Firebase keeps
users in groups of one hash configuration and sends a group when it is full or the
file ends (`Take`, `Flush`).  The accounts (`dir`) belong to the target: they are
there before and after, a request that was retried may have been carried out the
first time, and a killed or cancelled command is run again.

`Reconcile` is `reconcile.Run` with the connectors' `check`, over the accounts and
the report the imports left.

### OrgRoles

`ListExisting`, `Match`, `Create`, `Matched` go through roles, then organizations;
`AddMembership`, `AddGlobalRoles` make the tasks, and the workers of `runPool`
carry them out: `ReadPause` and `PauseOver` (`rateLimiter.wait`), `FetchToken`
(`Token`, one worker at a time under the mutex), the request and `Observe`.  Time
is a clock that lets no request outlive the client's timeout.  `known` is a
history, in each worker, of the limits observed when it read the pause.

### Hashes, Targets, Sources and Migration

A user is a record, a text what it is written as and the bytes it stands for, a
length included.  What a target does with a password is a `Check`: function, key,
salt, parameters.  Comparing checks, and not payloads, is what lets one property
speak of every pair of connectors.  `Verifies` is the check a password of the file
stands for, whatever the target, and `Derivable` says that a password can pass it.  A
case (`CaseOf`) is a record and what is true of it at the source, given beside it, not
computed by the model; `TrueOf` says that the user it is exported to holds just that
(`TruthAssumption`).  `Migration` takes
it through `Export`, `Rewrite` (export.user and ids.target), `Validate`, `Import`
(identity.primary, metadata.place or routes, the builder, target fields) and
`Verify`, among other users of the file.  The order of a row's columns is a Go
map's, so a row has a set of outcomes.  Identifiers are compared as they are: the
case of letters is left out.

`NothingLostSilently` compares the account with the case.  Its password check is the
source's, or the import flagged a password reset (`PasswordKept`; `Guessed` is what
Auth0 is not told of a password).  Each factor is there with its secret, or flagged
(`FactorsKept`).  Each metadata key has its value at the fields the mapping places it
in, or else where the connector puts it (`Home`), unless the mapping drops it or the
connector takes none such (`Untaken`): only there is a value gone with nothing said.

## Runs

| Run | Bounds | Shows |
| --- | --- | --- |
| `job_runner` | 2 drivers in 2 processes, no hooks or one hooks file, 2 faults, 1 crash or cancellation, 1 retry | the safety of the record, and the inductive invariant `IInv` |
| `job_runner_refines` | the same with 1 fault | `JobRunner` implements `JobLifecycle`; a job that goes on being run ends |
| `job_server` | 1 driver, 1 fault, 2 crashes or shutdowns, 1 retry | a job is stranded only after something was logged; it, and a client's wait for it, end otherwise; shutdowns end |
| `bulk_import` | 3 chunks, 2 slots, Auth0 limit 2, 1 fault, 1 crash, cancellation or change of input, 3 jobs a chunk | checkpoints, slots, coverage over several runs, termination |
| `user_import` | 3 users (one blocked, one without identifier for its target), batches of 2, handler batches of 1, 2 hash configurations, 1 fault, 1 cancellation or kill, 2 runs | reports and accounts agree over runs cut short; nobody is lost by batches; the diff agrees with the report |
| `org_roles` | 2 users, 2 roles, 2 organizations, 3 names, 2 workers, pages of 2, 2 faults or 1 interruption, 2 runs, 3 instants | nothing unassigned goes unreported; reruns match what is there; pauses and tokens hold |
| `translations` | 41 records of six sources, 5 targets, the mapping's options one or two at a time, one other user in the file | nothing is lost silently; what validates is built; Verify finds it |
| `retry_queued`, `lost_outcome`, `lost_start`, `duplicate_import`, `interrupted_phase` | as small as shows it | violated: see Findings |

Two drivers are enough for the lock and lost updates: a third would only wait like
the second.  Two faults let a failed save follow a failed step, or fail a job
twice; what a retry discards and keeps shows with one, and `JobRunnerProofs` proves
the same properties for any number of them.  Three chunks
on two slots have one chunk wait while two run, the least with a slot and a failure
ready together.  Three jobs a chunk are more than a fault and a crash can create,
so `MaxJobs` never decides anything.  Versions of the users file are bounded by the
exports that faults and retries allow.  A cfg has `CHECK_DEADLOCK FALSE` where the system
may rest: a server nobody asks anything, an import that has succeeded.  In
`JobRunner` somebody can always run the job again.

Three users fill a batch of two and leave one over, in the reader, in Firebase's
groups and in the diff; the scenarios of `MCReconcile` give each target accounts
that are there, each conflict policy, a file that breaks off at each place, and
handlers that drop a whole batch, fail, or are ignored.  One fault and one kill
suffice: a command that fails or dies ends there, and the next one starts afresh
from the target's accounts.  Two workers share the pause and the token as any number do,
and `OrgRolesProofs` proves what depends on it for any number.  The
plans of `MCOrgRoles` are separate, so that names, assignments and limits do not
multiply.  In `translations` there is nothing to bound but the cases: every
algorithm, encoding, salt position, factor and metadata root the code names has one.

Every property of a passing run has a mutant: a definition of the model changed as
a plausible bug would (`RunLockShared`, `SaveStepUnchecked`, `OutcomeDone`...), under
which TLC finds the property violated.

### Fairness

`JobRunner`: a driver in a call goes on (weak fairness: it is a running goroutine)
and a run of the job is asked for again and again (strong fairness, the lock being
free only now and then): an operator runs an unfinished job again, a server's
restart does.  `JobServer`: its goroutines go on, it is started again when it is
down, and a client that waits polls; requests are not fair.  `BulkImport`: its goroutines go on and Auth0 ends its
jobs, which pollJob counts on; nothing makes anyone start an import again.
`Reconcile`: the goroutine of a command goes on, and a request is answered or fails.
Faults, crashes, cancellations and requests are never fair.  `OrgRoles` and
`Migration` state no liveness and no fairness.

## Findings

- A job that failed in `queued` can't be retried (`FailedJobRetryable`).
- A crash after the save of the terminal state loses `job.done` or `job.failed` for
  good (`OutcomeAnnounced`).
- A background run that meets a retry's lock is dropped, and the job it was for is
  run by nobody until a restart (`AcknowledgedRuns`).  `StrandedExplained` is what
  does hold.
- A crash between the creation of an Auth0 job and the save of its ID has a chunk
  imported twice (`OneJobPerChunk`).  `NotResubmitted` is what does hold.
- An import interrupted while memberships are assigned is taken for finished by the
  job that resumes: the context's errors become entries of a report that is saved
  (`InterruptionsLoseNothing`).  `AssignedOrReported` is what does hold.

Other differences between the code and what is written about it, which the models
follow without a run of their own:

- `validate` says nothing of hashes that a target refuses in the import, though of
  an algorithm it lists: for Auth0 an scrypt hash without `keylen` (every one read
  from a flat file), a PBKDF2 hash without salt or an LDAP scheme; for Kratos Argon2i;
  for Keycloak a TOTP factor without secret.  `Untried` in `Migration` names them.
- `validate` compares emails with emails and usernames with usernames
  (`validate.go:36-95`), while Kratos and Keycloak log users in by either, and refuse a
  username that is another user's email (`docs/guides/data-rules/kratos.mdx:34`,
  `keycloak.mdx:21`); and it compares the IDs that ids.target assigned, not one with a
  source's, nor with Auth0's prefix cut off.  `Uncompared` in `Migration` names them,
  and TLC finds `ValidatedIsTaken` violated without it.
- A PBKDF2 hash from a flat file has no `keylen` and is sent to Auth0 as one of 64
  bytes (`hash/auth0.go:183`), and an HMAC's salt is not sent (`Guessed`).
- Kratos gets one factor of a type, the last, and one without secret like any other;
  neither Kratos nor Auth0 gets TOTP parameters kept apart from the secret
  (`FactorsKept`).
- Keycloak has one attribute of a name for both metadata, app_metadata's, and
  overwrites its own `phoneNumber` (`MetadataKept`).
- A `user_metadata` key named `email`, `username` or `phone` does not replace Kratos's
  trait of that name, as `docs/guides/data-rules/kratos.mdx:35` says: the identifier wins
  (`kratos/payload.go:58-62`), as `docs/reference/mapping.mdx:100` says.
- Of a flat file's column `plan` and one `app_metadata.plan` either is left, in spite
  of `mapper.go:16-18`.
- A batch whose call fails and is ignored takes the answers to the batches before it,
  of the same users, with it (`dispatcher.go:283`), where
  `docs/reference/hooks/strategies.mdx:19` speaks of that batch only; and the
  batches after it have other event IDs than in a run where it did not fail.

## Proofs

Each theorem holds for every value of the constants that satisfies the assumptions
declared beside them (`DriversAssumption`, `HooksAssumption`, `BoundsAssumption`,
`ServerAssumption`, `SizesAssumption`, `PrepAssumption`, `ImportAssumption`,
`VerifyAssumption`, `OrgRolesAssumption`, `PlansAssumption`, `CasesAssumption`,
`OptionsAssumption`, `TruthAssumption`): sizes and bounds are
numbers, sets and plans have their types, batches are not empty.  Four of them say
something of the code: `Timeout <= Margin < Lifetime`, where both are a minute
(`client.go:46`, `token.go:18`) and a token lives for hours; that a server is one process;
that what a record is exported to is a CMF user, whose contacts have a value; and that
this user holds what was true of the record (`TruthAssumption`), which
`RecordsAreTrue` proves of the connectors' exports.
TLC evaluates all of them on the runs, and has checked each inductive invariant below on
the states of a run before it was proved.

`JobRunnerProofs`, for any drivers, processes, hooks files and bounds:

- `TypeCorrect`: `Spec => []TypeOK`.  `TypeOK` is not inductive: that a hook call is
  recorded in one of the job's states, or that a state has a next one, rests on
  where the driver is.  `DriverInv` says so, and `TypeInv == TypeOK /\ DriverInv` is
  inductive.  The lemmas before it give the type of every operator on records.
- `OneDriver`: `Spec => []SingleDriver`.  `OwnSteps` is the lemma it rests on: a
  driver changes nothing of another's, and leaves the lock its own until it unlocks.
- `RecordInv` is the inductive invariant of the record: `TypeInv`, `SingleDriver`,
  `CopyInv` (a driver's copy is the disk's record, or between a step and its save is
  ahead of it by results of the current state), `Coherent` (the properties of the
  record, of a record and a users file) and `Created`.  `PassedStates` alone is not
  inductive: that `Move` leaves a state only with its result rests on the copy being
  clean since the save, which rests on nobody else having written the disk, which is
  `SingleDriver`.  `SameUsersFile` rests on `NoLaterResults`: an export replaces the
  users file only when nothing of the old one is on record (`NothingExported`).
- The lemmas `CoherentAhead`, `CoherentMoved`, `CoherentFailed`, `CoherentPutBack`
  say what saving a step's outcome, moving on, failing and retrying do to a coherent
  record; `KeptByControl`, `KeptBySaves` and `KeptBySteps` apply them to the actions;
  `OthersWait` says the other drivers have no copy that could go stale.
- `Inductive` (`IInv`), `NothingLater`, `OneUsersFile`, `PassedWithResult`,
  `FailureNamed`, `NothingLost` follow from it.
- `RecordSteps` lists all a step can do to the record; `MovesAllowed`
  (`PersistedMoves`), `FinishedOnce` (`FinishedStepsNotRedone`) and `ShowsLifecycle`
  (`Spec => ImplementsLifecycle`) follow from it.

`JobServerProofs`, for any drivers of one server: a step of the server is a step of
`JobRunner` or leaves the record alone, so `RecordInv` is kept (`ServedRecord`) and the
refinement holds of the server too (`ServedLifecycle`).  `ServerInv` adds the types,
`Told` (a driver is interrupted only because the server stops) and `Expected` (an
unfinished job, once `Resume` is done, has somebody to answer for it, or an excuse);
`OnlyStrandedExplained` (`StrandedExplained`) is `Expected` of a server that is up.

`BulkImportProofs`, for any number of chunks, slots, jobs, faults and runs: `IInv` is
three layers.  `Places` has the program counters and the slots, `Copies` the three
copies of each chunk's checkpoint and what Auth0 has of it, `Coverage` what the
chunks passed have come to; each is inductive given the ones before it.
`CheckpointsTrue` is not inductive alone, and a first candidate, although true, was
not either: a checkpoint with a job has to be of an input that was read (`fp # 0`),
and a goroutine's copy of the one read now.  From it come `ImportTypes`,
`ImportSlotsAccounted`, `WithinSlots`, `ImportCheckpointsTrue`, `ImportSuccessCovers`,
`ImportNotResubmitted` and `ImportNoneStartedAfterFailure`: all of the run's
properties but termination.

`OrgRolesProofs`, for any plans, concurrency, page size, lifetimes and bounds:

- `PausesHold` (`PauseHolds`) and `TokensLive` (`TokenLive`), from `PoolIsSound`:
  `PoolInv` is inductive.  `PauseHolds` alone is not: that a worker's pause is over
  when it calls rests on the pause it read covering every limit observed by then
  (`PausesRead`), which rests on the shared pause never getting shorter (`LimitsKept`).
  `TokenLive` rests on `TokensCover`: a request on its way was sent at least `Margin`
  before its token's end, and is at most `Timeout` old.
- `RerunsFindTheirRoles` and `AllAssignedOrReported`, from `PhaseIsSound`: `PhaseInv`
  adds `Listing` (what was listed of the tenant is a page of it, and what is created
  was left out of a full one), `Planned` (the users gone over have all their
  memberships and roles among the tasks) and `Outcomes` (a task done is done in the
  tenant, or in the report).  That nothing is left out of the report rests on all of
  them in turn.

`ImportProofs`, for any file, batches, hash configurations, groups, mappings and bounds: `ImportInv` is `Types`, `Journey` (where a user is in the
reader, in Firebase's groups, in the batch or in the report, counted with `Times`: in
one place, once), `Accounts` (reports are true of the accounts, and what an import
found stays), `Dropped` (a dropped user is past no further than import.user) and
`DroppedStaysOut`.  `EveryUserReported` is not inductive: it speaks of imports that
end, and rests on every user being somewhere until then.  The lemmas before it count
and filter sequences, and say what a step adds to the report (`AddsStep`, `AddsTruth`)
and when a batch, cut short or sent, keeps the invariant (`CutShort`, `SendStep`,
`ThroughStep`).  `ImportsReportEveryUser`, `ReportsAreTrue`, `FoundAccountsAreKept`,
`DroppedAreNotCreated` and `BrokenFilesFailLast` follow.

`DiffProofs`: `VerifyInv` is the same for the diff (`VerifyTypes`, `Course`, `Tally`,
`Grounded`); `DiffsCountEach` and `MissingAreExplained` follow from it and `ImportInv`,
and `CommandTypes` (`TypeOK`) from both.

`CourseProofs` proves `IDsTellUsers` (`SameIDSameUsers`), which speaks of two calls
that any number of crashed, cancelled and repeated imports may lie between.  What a run
goes through between them is a function of where it is, `Move`: the next place of the
reader, of its strategies' turns and of Firebase's groups follows from the mapping, the
file and the target.  `From(Beginning)` is the least set of places closed under
`Move`, and needs no induction over numbers; in it the batch numbers only grow, so that
a strategy and a number name one place (`NumbersTell`), and with it the users asked
about.  `OnCourse` is the invariant: each call ever made was made at a place of
`From(Beginning)`, whatever run it was of.  It fails, as it should, for a mapping
that ignores failures, which `SameIDSameUsers` leaves out (see Findings).

`MigrationProofs`, for any records, targets, mappings, hashes and other users of the
file: `CarriedInv` says what a step of the migration left for the next one, and `KeptInv`
that the user at each step before the account holds what was true of the record.

- An import and Verify choose a user's login among different kinds of identifiers, those
  the target takes and all of them, and each puts the primary contacts first.
  `ImportedAsVerified` says that the two agree on all that a lookup reads (`BuiltAs`);
  only for Auth0 and Firebase can the login differ, which neither looks up.
- `EachBuilds` and `TranslatedSays` say what of a user is in the account each target's
  payload makes (`AccountOf`), through the target fields set over it, and why it is
  refused (`RefusedOf`), whatever the hashes come to.
- `VerificationFinds` (`VerifyFindsIt`): the account is found by what the lookup reads,
  it is the only one (`FoundAlone`), and nothing has drifted (`NoDrift`).
- `ValidationHolds` (`ValidatedIsTaken`): all that an account goes by is an identifier the
  user has (`AccountKnown`), validate compared those with every other user's of the file
  (`Compared`, `NothingInCommon`), so no two accounts clash; and each reason to refuse a
  user but those of `Untried` is a problem validate reports (`RefusedIsUntried`).
- `NothingIsLost` (`NothingLostSilently`) goes from the account back to the record.
  `PasswordSent`, `FactorSent` and `MetadataSent` say what each target's payload has of
  a user: a password is what `Verifies` says of it (`Auth0Verifies`, `KratosVerifies`,
  `KeycloakVerifies`, `FirebaseVerifies`), a factor is sent or flagged, a metadata key is at
  its home.  `TranslatedKeeps` is that the target fields set over the payload leave the
  rest alone, `PlacedOrDropped` that a key the placement takes out of the user is a field
  or dropped, and `LeftUnplaced` that it leaves the others.  `KeptInv`
  (`TruthIsCarried`) links them to the record: `export.user` keeps the credentials and
  `ids.target` everything, and the fields and drops of an import are this user's.  It is
  needed because the property speaks of the account and the record only, and is
  inductive only with `CarriedInv`.
- `TranslationsAgree`: each translator sends what a password verifies with or refuses it,
  for every algorithm, encoding, salt and parameter.  The password has to be `Derivable`:
  with a PBKDF2 hash without iterations, Auth0 is sent a default of 100000
  (`hash/auth0.go`), which is no hash's truth.
- `SourcesAgree`: what the sources make of a hash verifies what it did, for any key, salt,
  encoding and parameters (`HashCheck` says what a text, or a digest with its columns,
  verifies with).  `RowsHold`, `KratosRecordsHold`, `KeycloakRecordsHold`,
  `FirebaseRecordsHold` and `HashlessRecordsHold` go on to whole records, with their
  factors and metadata, and `RecordsAreTrue` puts them together: what `TruthAssumption`
  asks of a case is true whenever the case tells of its record what the record says (`Told`).
  Such are all cases of `translations` whose records are not left out but the two
  whose password a handler of hash.detect answered: what that one verifies with is the
  handler's word.

All safety properties that the runs check are proved, action properties and the
refinement of `JobLifecycle` included.  Only model-checked is liveness under fairness
(`JobEnds`, `ServedJobEnds`, `ShutdownEnds`, `ImportReturns`, `CommandsReturn`), which is out of
the prover's reach, as is anything about ENABLED.

## Plan

All parts of the core are modelled, and what the runs check of safety is proved.  What
is left:

1. That every record's user is a CMF user (`CasesAssumption`), for any record.
2. Auth0's export job: its polling and what an interruption leaves of it.

## Not modelled

- CMF's encoding, CSV and JSON files, mapping files, pages of a listing other than
  Auth0's: they read and write text, and the models start from the values read.
- The transforms of fields and target fields, made-up identifiers (UUIDs, templates),
  test data: functions of a text, better served by the repository's tests.
- What a handler answers: its answers are given, and the same for a user each time.
  The signature of a webhook and its time limits.
- Kratos's identity schemas; the realm's files and HOTP credentials, which
  `docs/guides/export/keycloak.mdx:126` says are skipped; Auth0's resolution of a
  connection, and the configuration that changes its limits.
- The progress bar, flags, printing; authentication of requests to the server.
- The end of `serve` when its listener fails by itself (`serveErr`): requests are taken
  until the shutdown.

Simplified, where no property turns on it:

- `SaveChunk` is one step, as the mutex of the checkpoints makes it: what would go wrong
  without the mutex is not checked.
- A token that the listing calls before the pool left in the cache is not there when the
  pool starts: the first worker fetches one.
- Cognito's AdminGetUser and AdminUpdateUserAttributes of an upsert are one request: a
  fault of either ends the user's import alike.
- Of the digests Auth0 takes, `Auth0Digests` has those the sources can give; the others
  come only from a handler.
- A target field whose value is no text, where Cognito and Firebase want one, is not
  given; the size of Firebase's claims is one field that is too large, or none.
- Keycloak's limit on the length of an attribute's name is left out, and its reserved
  names are some of them.  `validate` folds the case of e-mails when it looks for
  duplicates, which the models' names have none of.
