----------------------------- MODULE UserImport -----------------------------
(***************************************************************************)
(* The imports that create users one request at a time (Ory Kratos,        *)
(* Keycloak and Cognito) or in batches of one hash configuration           *)
(* (Firebase), as the import commands run them: the users come prepared    *)
(* from ImportPrep, are translated, sent to the target, and reported.      *)
(*                                                                         *)
(* The target is the environment: its accounts outlive an import that is   *)
(* cancelled or killed at any point and run again, a request can take      *)
(* effect though its answer never arrives, and an account can be there     *)
(* before the first import.  An account is whether it exists, whether it   *)
(* has a password of its own (Cognito's CONFIRMED) and is enabled.         *)
(***************************************************************************)
EXTENDS ImportPrep

CONSTANTS
  Bare,          \* users with no identifier to create them under
  Blocked,       \* users blocked in the file
  HashParams,    \* the hash configurations of Firebase's requests
  ParamsOf,      \* each user's
  FlushSize,     \* importBatchSize: users of a Firebase request
  MaxRuns,       \* bound on the imports run
  MaxInterrupts  \* bound on cancelled contexts and killed processes

ASSUME ImportAssumption ==
  /\ Bare \subseteq File /\ Blocked \subseteq File
  /\ ParamsOf \in [File -> HashParams] /\ FlushSize \in Nat \ {0}
  /\ MaxRuns \in Nat /\ MaxInterrupts \in Nat

Targets == {"kratos", "keycloak", "cognito", "firebase"}
\* Capabilities.SupportsUpsert: those an on_duplicate of upsert is accepted for.
SupportsUpsert == {"cognito", "firebase"}

VARIABLES
  target, onDuplicate, \* the connector and the mapping's conflict.on_duplicate
  job,        \* whether a job runs the import: its event IDs are the same each time
  dir,        \* the target's accounts
  before,     \* history: those when the import running, or last run, began
  pc,         \* where the command is
  group,      \* Firebase: the users waiting, by hash configuration
  order,      \* Firebase: those configurations, in order of appearance
  batch,      \* the users being sent, the first one next
  call,       \* Cognito: the call being made for the first of batch
  seen,       \* Cognito: its account, as the API last returned it
  report,     \* the ImportReport being built
  ctx,        \* whether the import's context is done
  result,     \* how the last import ended
  file,       \* import-report.json, NoReport if there is none
  runs, interrupts

config == <<target, onDuplicate, job, before>>
sending == <<group, order, batch, call, seen>>
bounds == <<runs, interrupts>>
importVars == <<target, onDuplicate, job, dir, before, pc, group, order, batch, call, seen,
                report, ctx, result, file, runs, interrupts>>
vars == <<prepVars, importVars>>

Upsert == onDuplicate = "upsert"

Absent == [known |-> FALSE, final |-> FALSE, enabled |-> FALSE]
Account == [known : BOOLEAN, final : BOOLEAN, enabled : BOOLEAN]
Finished(u) == [known |-> TRUE, final |-> TRUE, enabled |-> u \notin Blocked]

\* EXISTS is what IsConflict tells from a message or a code of the target's.
Codes == {"TRANSLATION_ERROR", "REQUEST_ERROR", "EXISTS", "SKIPPED"}
EmptyReport == [succeeded |-> <<>>, failed |-> <<>>, skipped |-> <<>>, ids |-> {}]
NoReport == [succeeded |-> <<>>, failed |-> <<>>, skipped |-> <<>>, ids |-> {0}]

\* Whom the target can be sent: Kratos alone takes a user with no identifier.
Translatable == IF target = "kratos" THEN File ELSE File \ Bare

Failure(u, code) == [report EXCEPT !.failed = Append(@, <<u, code>>)]
Success(u) == [report EXCEPT !.succeeded = Append(@, u), !.ids = @ \cup {u}]

Fault == faults < MaxFaults /\ faults' = faults + 1
\* A call that its context ends, or that fails by itself.
CallFails == IF ctx THEN UNCHANGED faults ELSE Fault

\* Import returns its error: the report it has so far is dropped by its callers.
Returns == pc' = "idle" /\ result' = "error"

-----------------------------------------------------------------------------
(* The command. *)

\* ImportBefore and the checks before it are through, and a Reader is made.
Start ==
  /\ pc = "idle" /\ runs < MaxRuns /\ runs' = runs + 1
  /\ scope' = IF job THEN "job" ELSE runs'
  /\ pc' = "loop" /\ report' = EmptyReport /\ ctx' = FALSE /\ result' = "none"
  /\ group' = [p \in HashParams |-> <<>>] /\ order' = <<>> /\ batch' = <<>>
  /\ call' = "none" /\ seen' = Absent
  /\ before' = dir
  /\ PrepReset
  /\ UNCHANGED <<mapping, calls, faults, target, onDuplicate, job, dir, file, interrupts>>

\* import.before vetoes the import, or its handler fails: nothing was sent.
Refused ==
  /\ pc = "idle" /\ runs < MaxRuns /\ runs' = runs + 1 /\ Fault
  /\ result' = "error"
  /\ UNCHANGED <<mapping, scope, reader, calls, config, dir, pc, sending, report, ctx, file, interrupts>>

Importing == pc \in {"loop", "read", "payload", "send", "rest"}

\* job run gets SIGINT or SIGTERM, or the server of the job shuts down.  An import
\* command has no such context: a signal kills it.
Cancel ==
  /\ job /\ Importing /\ ~ctx
  /\ interrupts < MaxInterrupts /\ interrupts' = interrupts + 1
  /\ ctx' = TRUE
  /\ UNCHANGED <<prepVars, config, dir, pc, sending, report, result, file, runs>>

\* The process is killed: its memory is lost, and so is the answer of a call under way.
Killed ==
  /\ pc # "idle"
  /\ interrupts < MaxInterrupts /\ interrupts' = interrupts + 1
  /\ pc' = "idle" /\ result' = "error"
  /\ UNCHANGED <<prepVars, config, dir, sending, report, ctx, file, runs>>

\* Each turn of an import's loops looks at its context first.
Interrupted ==
  /\ ctx
  /\ pc = "loop" \/ (pc = "send" /\ call = "none" /\ target # "firebase")
  /\ Returns
  /\ UNCHANGED <<prepVars, config, dir, sending, report, ctx, file, bounds>>

Turn ==
  /\ pc = "loop" /\ ~ctx /\ pc' = "read"
  /\ UNCHANGED <<prepVars, config, dir, sending, report, ctx, result, file, bounds>>

-----------------------------------------------------------------------------
(* Reading and translating. *)

ReadBatch ==
  /\ pc = "read" /\ Fill
  /\ UNCHANGED importVars

\* A handler is called from ReadUser or ReadBatch, or from Payloads.
AfterPayloads == pc' = IF stage = Payload /\ stage' = "idle" THEN "send" ELSE pc

HandlerCalled ==
  /\ pc \in {"read", "payload"} /\ ~ctx /\ HandlerAnswers
  /\ AfterPayloads
  /\ UNCHANGED <<config, dir, sending, report, ctx, result, file, bounds>>

HandlerRetried ==
  /\ pc \in {"read", "payload"} /\ ~ctx /\ CallRetried /\ Fault
  /\ UNCHANGED importVars

HandlerIgnored ==
  /\ pc \in {"read", "payload"} /\ FailureIgnored /\ CallFails
  /\ AfterPayloads
  /\ UNCHANGED <<config, dir, sending, report, ctx, result, file, bounds>>

HandlerFailed ==
  /\ pc \in {"read", "payload"}
  /\ (FailureFails /\ CallFails) \/ (AnswerUnusable /\ ~ctx /\ Fault)
  /\ Returns
  /\ UNCHANGED <<config, dir, sending, report, ctx, file, bounds>>

\* The users of the batch read that cannot be translated fail.
Untranslated(us) ==
  LET bad == Select(us, File \ Translatable) IN
  [report EXCEPT !.failed = @ \o [i \in DOMAIN bad |-> <<bad[i], "TRANSLATION_ERROR">>]]

\* The payloads of us are built: they go to import.payload, if it is delegated and
\* there are any, before they are sent.
Send(us) ==
  /\ batch' = us
  /\ IF us # <<>> /\ Delegated(Payload)
     THEN AskPayload(us) /\ pc' = "payload"
     ELSE /\ UNCHANGED <<raw, stage, items, answered>>
          /\ pc' = IF us = <<>> THEN "loop" ELSE "send"

\* Kratos, Keycloak and Cognito take the whole batch and build its bodies together.
Build ==
  /\ pc = "read" /\ target # "firebase" /\ stage = "idle" /\ queue # <<>>
  /\ report' = Untranslated(queue) /\ queue' = <<>>
  /\ Send(Select(queue, Translatable))
  /\ UNCHANGED <<mapping, scope, read, readErr, batchNo, skipped, applied, calls, faults,
                 config, dir, group, order, call, seen, ctx, result, file, bounds>>

\* Firebase takes a user at a time, and sends a group that is full.
Take ==
  /\ pc = "read" /\ target = "firebase" /\ stage = "idle" /\ queue # <<>>
  /\ queue' = Tail(queue)
  /\ LET u == Head(queue)
         p == ParamsOf[u]
         us == Append(group[p], u)
         full == Len(us) = FlushSize IN
     /\ report' = Untranslated(<<u>>)
     /\ IF u \in Translatable
        THEN /\ order' = IF p \in Range(order) THEN order ELSE Append(order, p)
             /\ group' = [group EXCEPT ![p] = IF full THEN <<>> ELSE us]
             /\ Send(IF full THEN us ELSE <<>>)
        ELSE UNCHANGED <<order, group>> /\ Send(<<>>)
  /\ UNCHANGED <<mapping, scope, read, readErr, batchNo, skipped, applied, calls, faults,
                 config, dir, call, seen, ctx, result, file, bounds>>

\* The file is read.
ReadEof ==
  /\ pc = "read" /\ ReadOver /\ readErr = "eof"
  /\ pc' = "rest"
  /\ UNCHANGED <<prepVars, config, dir, sending, report, ctx, result, file, bounds>>

\* Mutant: only full groups are sent.
MWaiting == Select(order, {p \in HashParams : Len(group[p]) >= FlushSize})

\* Firebase then sends what is left of each group.
Waiting == Select(order, {p \in HashParams : group[p] # <<>>})

FlushRest ==
  /\ pc = "rest" /\ Waiting # <<>>
  /\ group' = [group EXCEPT ![Head(Waiting)] = <<>>]
  /\ Send(group[Head(Waiting)]) /\ call' = "rest"
  /\ UNCHANGED <<mapping, scope, read, readErr, batchNo, queue, skipped, applied, calls, faults,
                 config, dir, order, seen, report, ctx, result, file, bounds>>

\* Everything is sent: the users import.user skipped are added.
ImportEnds ==
  /\ pc = "rest" /\ Waiting = <<>>
  /\ report' = [report EXCEPT !.skipped = @ \o [i \in DOMAIN skipped |-> <<skipped[i], "SKIPPED">>]]
  /\ pc' = "finish"
  /\ UNCHANGED <<prepVars, config, dir, sending, ctx, result, file, bounds>>

ReadBreaks ==
  /\ pc = "read" /\ ReadOver /\ readErr = "broken"
  /\ Returns
  /\ UNCHANGED <<prepVars, config, dir, sending, report, ctx, file, bounds>>

-----------------------------------------------------------------------------
(* Sending. *)

First == Head(batch)
Sends == pc = "send" /\ batch # <<>>

\* The user is done with, and the next one is next.
Done(r) ==
  /\ report' = r /\ batch' = Tail(batch) /\ call' = "none"
  /\ pc' = IF Tail(batch) = <<>> THEN "loop" ELSE "send"
  /\ UNCHANGED result

\* Kratos and Keycloak create a user with one request.
Created == [dir EXCEPT ![First] = Finished(First)]
Post ==
  /\ Sends /\ target \in {"kratos", "keycloak"} /\ ~ctx
  /\ \/ First \notin Bare /\ ~dir[First].known /\ dir' = Created /\ Done(Success(First)) /\ UNCHANGED faults
     \/ First \notin Bare /\ dir[First].known /\ Done(Failure(First, "EXISTS")) /\ UNCHANGED <<dir, faults>>
     \/ First \in Bare /\ Done(Failure(First, "REQUEST_ERROR")) /\ UNCHANGED <<dir, faults>>
  /\ UNCHANGED <<mapping, scope, reader, calls, config, group, order, seen, ctx, file, bounds>>

\* The request fails, though it may have created the user: so does the user, unless
\* the context is done, which the loops see next.
PostFails ==
  /\ Sends /\ target \in {"kratos", "keycloak"} /\ CallFails
  /\ \/ First \notin Bare /\ ~dir[First].known /\ dir' = Created
     \/ UNCHANGED dir
  /\ IF ctx THEN Returns /\ UNCHANGED <<report, batch, call>> ELSE Done(Failure(First, "REQUEST_ERROR"))
  /\ UNCHANGED <<mapping, scope, reader, calls, config, group, order, seen, ctx, file, bounds>>

CognitoAt(c) == Sends /\ target = "cognito" /\ call = c

\* Mutant: a blocked user is not disabled.
MNextCall(a) == IF ~a.final THEN "password" ELSE "end"

\* What is left to do for the account a of the first user: a password, if it has
\* none yet, then to be disabled or enabled.
NextCall(a) ==
  IF ~a.final THEN "password"
  ELSE IF (First \in Blocked) = a.enabled THEN "enable" ELSE "end"

\* The account of the first user once the call c has taken effect.
After(c) ==
  LET a == dir[First] IN
  CASE c = "none" -> IF a.known THEN a ELSE [known |-> TRUE, final |-> FALSE, enabled |-> TRUE]
    [] c = "password" -> [a EXCEPT !.final = TRUE]
    [] c = "enable" -> [a EXCEPT !.enabled = First \notin Blocked]
    [] OTHER -> a

\* The call under way succeeds, and the next one follows for the account a.
Answered(a) ==
  /\ dir' = [dir EXCEPT ![First] = After(call)]
  /\ seen' = a /\ call' = NextCall(a)
  /\ UNCHANGED <<mapping, scope, reader, calls, faults, config, pc, group, order, batch, report, ctx,
                 result, file, bounds>>

AdminCreateUser == CognitoAt("none") /\ ~ctx /\ ~dir[First].known /\ Answered(After("none"))

\* Mutant: the user is taken for one this import created.
MUsernameExists ==
  /\ CognitoAt("none") /\ ~ctx /\ dir[First].known
  /\ call' = "get" /\ UNCHANGED <<report, pc, batch, result>>
  /\ UNCHANGED <<mapping, scope, reader, calls, faults, config, dir, group, order, seen, ctx, file, bounds>>

\* The pool has the user: with upsert it is updated, or else has failed.
UsernameExists ==
  /\ CognitoAt("none") /\ ~ctx /\ dir[First].known
  /\ IF Upsert
     THEN call' = "get" /\ UNCHANGED <<report, pc, batch, result>>
     ELSE Done(Failure(First, "EXISTS"))
  /\ UNCHANGED <<mapping, scope, reader, calls, faults, config, dir, group, order, seen, ctx, file, bounds>>

\* A 5xx or throttled answer is retried; the first try may have taken effect.
CreateRetried ==
  /\ CognitoAt("none") /\ ~ctx /\ ~dir[First].known /\ Fault
  /\ dir' = [dir EXCEPT ![First] = After("none")]
  /\ UNCHANGED <<mapping, scope, reader, calls, config, pc, sending, report, ctx, result, file, bounds>>

\* AdminGetUser, then AdminUpdateUserAttributes with what differs.
GetAndUpdate == CognitoAt("get") /\ ~ctx /\ Answered(dir[First])
AdminSetUserPassword == CognitoAt("password") /\ ~ctx /\ Answered([seen EXCEPT !.final = TRUE])
AdminDisableOrEnableUser ==
  CognitoAt("enable") /\ ~ctx /\ Answered([seen EXCEPT !.enabled = First \notin Blocked])

CognitoDone ==
  /\ CognitoAt("end")
  /\ Done(Success(First))
  /\ UNCHANGED <<mapping, scope, reader, calls, faults, config, dir, group, order, seen, ctx, file, bounds>>

\* A call for the user fails, whether or not it took effect: an error of the
\* context ends the import, another only fails the user, and leaves it as it is.
CognitoFails ==
  /\ Sends /\ target = "cognito" /\ call # "end"
  /\ CallFails
  /\ dir' = [dir EXCEPT ![First] = After(call)] \/ UNCHANGED dir
  /\ IF ctx THEN Returns /\ UNCHANGED <<report, batch, call>> ELSE Done(Failure(First, "REQUEST_ERROR"))
  /\ UNCHANGED <<mapping, scope, reader, calls, config, group, order, seen, ctx, file, bounds>>

\* What batchCreate answers for a batch, and its accounts then: an existing one is
\* rejected, or overwritten with allowOverwrite.
Rejected(us) == IF Upsert THEN {} ELSE {u \in Range(us) : dir[u].known}
BatchCreated(us) == [u \in File |-> IF u \in Range(us) \ Rejected(us) THEN Finished(u) ELSE dir[u]]

Entries(us) ==
  LET bad == Select(us, Rejected(us))
      good == Select(us, File \ Rejected(us)) IN
  [report EXCEPT !.failed = @ \o [i \in DOMAIN bad |-> <<bad[i], "EXISTS">>],
                 !.succeeded = @ \o good, !.ids = @ \cup Range(good)]

\* The batch is through, and the loop goes on, or the flushing of the rest.
Flushed(r) ==
  /\ report' = r /\ batch' = <<>> /\ call' = "none"
  /\ pc' = IF call = "rest" THEN "rest" ELSE "loop"
  /\ UNCHANGED result

Flush ==
  /\ Sends /\ target = "firebase" /\ ~ctx
  /\ dir' = BatchCreated(batch) /\ Flushed(Entries(batch))
  /\ UNCHANGED <<mapping, scope, reader, calls, faults, config, group, order, seen, ctx, file, bounds>>

\* A 429 or 503 answer is retried; the first try may have taken effect.
FlushRetried ==
  /\ Sends /\ target = "firebase" /\ ~ctx /\ Fault
  /\ dir' = BatchCreated(batch)
  /\ UNCHANGED <<mapping, scope, reader, calls, config, pc, sending, report, ctx, result, file, bounds>>

\* The request fails, and with it every user of the batch, though it may have
\* created them; an error of the context ends the import.
FlushFails ==
  /\ Sends /\ target = "firebase" /\ CallFails
  /\ dir' = BatchCreated(batch) \/ UNCHANGED dir
  /\ IF ctx
     THEN Returns /\ UNCHANGED <<report, batch, call>>
     ELSE Flushed([report EXCEPT !.failed = @ \o [i \in DOMAIN batch |-> <<batch[i], "REQUEST_ERROR">>]])
  /\ UNCHANGED <<mapping, scope, reader, calls, config, group, order, seen, ctx, file, bounds>>

-----------------------------------------------------------------------------
(* The report. *)

\* With on_duplicate skip, the users the target already had move to Skipped.
Conflicts(r) ==
  IF onDuplicate # "skip" THEN r
  ELSE LET conflicts == File \X {"EXISTS"} IN
       [r EXCEPT !.skipped = @ \o Select(r.failed, conflicts),
                 !.failed = Select(@, (File \X Codes) \ conflicts)]

\* The report is written, or for a job kept in its record, saved after the step.
WriteReport ==
  /\ pc = "finish"
  /\ report' = Conflicts(report)
  /\ file' = IF job THEN file ELSE report'
  /\ pc' = "after"
  /\ UNCHANGED <<prepVars, config, dir, sending, ctx, result, bounds>>

\* ImportAfter: import.user.result is told every outcome, then import.after.
ImportAfter ==
  /\ pc = "after"
  /\ pc' = IF job THEN "save" ELSE "idle"
  /\ result' = IF job THEN result ELSE "ok"
  /\ UNCHANGED <<prepVars, config, dir, sending, report, ctx, file, bounds>>

\* Its handler fails, and its on_failure is fail.
ImportAfterFails ==
  /\ pc = "after" /\ Fault
  /\ pc' = IF job THEN "save" ELSE "idle"
  /\ result' = "error"
  /\ UNCHANGED <<mapping, scope, reader, calls, config, dir, sending, report, ctx, file, bounds>>

\* The job is saved when its step is over, with the report either way.
SaveReport ==
  /\ pc = "save"
  /\ file' = report /\ pc' = "idle"
  /\ result' = IF result = "error" THEN "error" ELSE "ok"
  /\ UNCHANGED <<prepVars, config, dir, sending, report, ctx, bounds>>
=============================================================================
