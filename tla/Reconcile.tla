----------------------------- MODULE Reconcile ------------------------------
(***************************************************************************)
(* An import followed by its diff: pkg/reconcile has the connector look    *)
(* every user of the file up in the target, in batches for the handlers of *)
(* verify.lookup and verify.compare, and counts what it found, given the   *)
(* report of the import or not.                                            *)
(***************************************************************************)
EXTENDS UserImport

CONSTANTS
  VerifyBatch, \* the larger batch_size of the verify handlers
  Scenarios    \* the mappings, files and targets the commands are run with

VerifyStrategies == {"verify.lookup", "verify.compare"}
OnFailure == {"none", "builtin", "fail", "ignore"}

ASSUME VerifyAssumption ==
  /\ VerifyBatch \in Nat \ {0}
  /\ Scenarios \subseteq
       [refs : [ImportStrategies -> OnFailure], drops : SUBSET File, broken : 0..N,
        target : Targets, onDuplicate : {"fail", "skip", "upsert"}, job : BOOLEAN,
        there : SUBSET File, vrefs : [VerifyStrategies -> OnFailure],
        byTargetID : BOOLEAN, withReport : BOOLEAN]

VARIABLES
  vrefs,      \* the verify strategies' on_failure, "none" when not delegated
  byTargetID, \* verify.lookup's built-in target_id
  withReport, \* whether the diff is given the report
  vpc,        \* where the diff is, "off" before it
  vread,      \* users it has read
  vbatch,     \* the batch it has read
  found,      \* what was found of the first of them
  diff        \* the DiffReport

options == <<vrefs, byTargetID, withReport>>
verifyVars == <<options, vpc, vread, vbatch, found, diff>>
allVars == <<vars, verifyVars>>

VDelegated(s) == vrefs[s] # "none"
\* A batch is the larger of the two handlers', one user when there is none.
VBatch == IF \E s \in VerifyStrategies : VDelegated(s) THEN VerifyBatch ELSE 1

NoDiff == [source |-> 0, target |-> 0, noid |-> <<>>, missing |-> <<>>, drift |-> <<>>, skipped |-> <<>>]

\* Mutant: skipped users are looked for.
MNotImported == {}

\* OptionsFor: the users skipped on purpose, which are not looked for.
NotImported ==
  IF withReport THEN {u \in File : <<u, "SKIPPED">> \in Range(file.skipped)} ELSE {}
TargetIDs == IF withReport THEN file.ids ELSE {}

\* check: what the connector finds of u, by its target ID or its identifier.
Check(u) ==
  IF u \in Bare /\ ~(byTargetID /\ u \in TargetIDs) THEN "noid"
  ELSE IF ~dir[u].known THEN "missing"
  ELSE IF dir[u].enabled = (u \in Blocked) THEN "drift" ELSE "same"

Diff ==
  /\ vpc = "off" /\ pc = "idle" /\ (withReport => file # NoReport)
  /\ vpc' = "read" /\ UNCHANGED <<vars, options, vread, vbatch, found, diff>>

\* The first call of a flush: verify.lookup is asked about the users of the batch.
Flushing(us) == IF us # <<>> /\ VDelegated("verify.lookup") THEN "lookup" ELSE "check"

ReadUser ==
  /\ vpc = "read" /\ vread < Readable
  /\ vread' = vread + 1
  /\ IF vread' \in NotImported
     THEN diff' = [diff EXCEPT !.skipped = Append(@, vread')] /\ UNCHANGED <<vpc, vbatch>>
     ELSE /\ vbatch' = Append(vbatch, vread') /\ UNCHANGED diff
          /\ vpc' = IF Len(vbatch') = VBatch THEN Flushing(vbatch') ELSE "read"
  /\ UNCHANGED <<vars, options, found>>

\* Mutant: the last, partial batch is left out.
MReadLast ==
  /\ vpc = "read" /\ vread = Readable /\ broken = 0
  /\ vpc' = "over"
  /\ UNCHANGED <<vars, options, vread, vbatch, found, diff>>

\* The last, partial batch.
ReadLast ==
  /\ vpc = "read" /\ vread = Readable /\ broken = 0
  /\ vpc' = IF vbatch = <<>> THEN "over" ELSE Flushing(vbatch)
  /\ UNCHANGED <<vars, options, vread, vbatch, found, diff>>

LookedUp ==
  /\ vpc = "lookup" /\ vpc' = "check"
  /\ UNCHANGED <<vars, options, vread, vbatch, found, diff>>

CheckUser ==
  /\ vpc = "check" /\ Len(found) < Len(vbatch)
  /\ found' = Append(found, Check(vbatch[Len(found) + 1]))
  /\ UNCHANGED <<vars, options, vpc, vread, vbatch, diff>>

\* verify.compare answers the drift of the users found: none, here.
Present(f) == f \in {"drift", "same"}
Compared(ok) ==
  /\ vpc = "check" /\ Len(found) = Len(vbatch) /\ vpc' = "count"
  /\ IF VDelegated("verify.compare") /\ Range(found) \cap {"drift", "same"} # {}
     THEN \/ ok /\ found' = [i \in DOMAIN found |-> IF Present(found[i]) THEN "same" ELSE found[i]]
          \/ ~ok /\ vrefs["verify.compare"] = "ignore" /\ Fault /\ UNCHANGED found
     ELSE ok /\ UNCHANGED found

Compare ==
  /\ Compared(TRUE)
  /\ UNCHANGED <<vars, options, vread, vbatch, diff>>
CompareIgnored ==
  /\ Compared(FALSE)
  /\ UNCHANGED <<mapping, scope, reader, calls, importVars, options, vread, vbatch, diff>>

Of(f) == Select(vbatch, {vbatch[i] : i \in {j \in DOMAIN vbatch : found[j] = f}})

Count ==
  /\ vpc = "count"
  /\ diff' = [diff EXCEPT !.source = @ + Len(vbatch),
                          !.target = @ + Cardinality({i \in DOMAIN found : Present(found[i])}),
                          !.noid = @ \o Of("noid"), !.missing = @ \o Of("missing"),
                          !.drift = @ \o Of("drift")]
  /\ vbatch' = <<>> /\ found' = <<>>
  /\ vpc' = IF Len(vbatch) < VBatch THEN "over" ELSE "read"
  /\ UNCHANGED <<vars, options, vread>>

\* A read, a lookup or a handler's call fails.
DiffFails ==
  /\ \/ vpc = "read" /\ vread = Readable /\ broken # 0 /\ UNCHANGED faults
     \/ vpc = "lookup" /\ vrefs["verify.lookup"] = "fail" /\ Fault
     \/ vpc = "check" /\ Len(found) < Len(vbatch) /\ Fault
     \/ vpc = "check" /\ Len(found) = Len(vbatch) /\ vrefs["verify.compare"] = "fail" /\ Fault
  /\ vpc' = "failed"
  /\ UNCHANGED <<mapping, scope, reader, calls, importVars, options, vread, vbatch, found, diff>>

-----------------------------------------------------------------------------
\* A scenario is the mapping (its strategies, its on_duplicate), the file, the
\* target, the accounts it already has and how the diff is run.
Init ==
  /\ \E c \in Scenarios :
       /\ refs = c.refs /\ drops = c.drops /\ broken = c.broken
       /\ target = c.target /\ onDuplicate = c.onDuplicate /\ job = c.job
       /\ onDuplicate = "upsert" => target \in SupportsUpsert
       /\ dir = [u \in File |-> IF u \in c.there THEN [Finished(u) EXCEPT !.enabled = TRUE] ELSE Absent]
       /\ vrefs = c.vrefs /\ byTargetID = c.byTargetID /\ withReport = c.withReport
  /\ scope = "none" /\ calls = {} /\ faults = 0 /\ PrepInit
  /\ before = dir /\ pc = "idle" /\ group = [p \in HashParams |-> <<>>] /\ order = <<>>
  /\ batch = <<>> /\ call = "none" /\ seen = Absent /\ report = EmptyReport
  /\ ctx = FALSE /\ result = "none" /\ file = NoReport
  /\ runs = 0 /\ interrupts = 0
  /\ vpc = "off" /\ vread = 0 /\ vbatch = <<>> /\ found = <<>> /\ diff = NoDiff

\* What the command does by itself, each call it makes being answered in the end.
Runs ==
  \/ Interrupted \/ Turn \/ ReadBatch
  \/ HandlerCalled \/ HandlerRetried \/ HandlerIgnored \/ HandlerFailed
  \/ Build \/ Take \/ ReadEof \/ FlushRest \/ ImportEnds \/ ReadBreaks
  \/ Post \/ PostFails
  \/ AdminCreateUser \/ UsernameExists \/ CreateRetried \/ GetAndUpdate
  \/ AdminSetUserPassword \/ AdminDisableOrEnableUser \/ CognitoDone \/ CognitoFails
  \/ Flush \/ FlushRetried \/ FlushFails
  \/ WriteReport \/ ImportAfter \/ ImportAfterFails \/ SaveReport

ImportNext == (Start \/ Refused \/ Cancel \/ Killed \/ Runs) /\ vpc = "off" /\ UNCHANGED verifyVars

Checks ==
  \/ ReadUser \/ ReadLast \/ LookedUp \/ CheckUser \/ Compare \/ CompareIgnored \/ Count \/ DiffFails

Next == ImportNext \/ Diff \/ Checks

Spec == Init /\ [][Next]_allVars
FairSpec == Spec /\ WF_allVars(Runs /\ vpc = "off" /\ UNCHANGED verifyVars) /\ WF_allVars(Checks)
-----------------------------------------------------------------------------
Count1(u, s) == Cardinality({i \in DOMAIN s : s[i] = u})
Users(s) == [i \in DOMAIN s |-> s[i][1]]
\* How often u is in the report, whatever of.
Mentions(r, u) == Count1(u, r.succeeded) + Count1(u, Users(r.failed)) + Count1(u, Users(r.skipped))

\* The state of the commands and of their environment is of its type.
TypeOK ==
  /\ refs \in [ImportStrategies -> OnFailure] /\ drops \subseteq File
  /\ read \in 0..N /\ readErr \in {"none", "eof", "broken"}
  /\ stage \in ImportStrategies \cup {"idle"} /\ answered \subseteq File
  /\ \A s \in {raw, items, queue, skipped, batch} : Range(s) \subseteq File
  /\ applied \in [File -> SUBSET ImportStrategies] /\ batchNo \in [ImportStrategies -> Nat]
  /\ target \in Targets /\ onDuplicate \in {"fail", "skip", "upsert"}
  /\ dir \in [File -> Account] /\ before \in [File -> Account] /\ seen \in Account
  /\ pc \in {"idle", "loop", "read", "payload", "send", "rest", "finish", "after", "save"}
  /\ call \in {"none", "get", "password", "enable", "end", "rest"}
  /\ \A r \in {report, file} :
       /\ Range(r.succeeded) \subseteq File
       /\ Range(r.failed) \cup Range(r.skipped) \subseteq File \X Codes
  /\ vpc \in {"off", "read", "lookup", "check", "count", "over", "failed"} /\ vread \in 0..N

\* The report of an import that ends names every user of the file once, as
\* succeeded, failed or skipped, whatever batch they were in: a whole batch that
\* import.user skipped, the last one, or a group of Firebase's left at the end.
EveryUserReported ==
  pc \in {"after", "save"} => \A u \in File : Mentions(report, u) = 1

\* A user reported to have succeeded is in the target for good, with a password and
\* enabled or not as in the file, in spite of runs cut short before or after, and
\* its target ID is in the report.
SucceededIsFinished ==
  \A r \in {report, file} :
    /\ \A u \in Range(r.succeeded) : dir[u] = Finished(u)
    /\ r # NoReport => r.ids = Range(r.succeeded)

\* Without upsert an import leaves the accounts it found as they were, also when
\* one of its own retried requests has created one behind its back.
FoundIsKept == ~Upsert => \A u \in File : before[u].known => dir[u] = before[u]

\* A user import.user drops is never created, however often the import is run and
\* wherever its handler fails, as long as its on_failure is fail.
DroppedStaysOut ==
  refs["import.user"] = "fail" => \A u \in drops : dir[u].known => before[u].known

\* Two calls with the same event ID are about the same users, those of an import its
\* job runs again included, unless failures are ignored: the batches a failed call
\* leaves unsent get no number, and the later ones have other numbers the next time.
SameIDSameUsers ==
  (\A s \in ImportStrategies : refs[s] # "ignore") =>
    \A c, d \in calls : c.id = d.id => c.items = d.items

\* A file that breaks off fails the import after the users before it, all of them
\* dealt with (but those Firebase has not sent yet, as without preparation).
BrokenFileIsLast ==
  [][pc = "read" /\ pc' = "idle" /\ stage = "idle" /\ interrupts' = interrupts /\ target # "firebase"
       => \A u \in 1..Readable : Mentions([report EXCEPT !.skipped = Users(<<>>)], u)
                                   + Count1(u, skipped) = 1]_allVars

\* The diff of a whole file puts every user under one heading, once: skipped,
\* without identifier, missing, or in the target.
DiffCountsEach ==
  vpc = "over" =>
    /\ diff.source + Len(diff.skipped) = N
    /\ diff.target + Len(diff.noid) + Len(diff.missing) = diff.source
    /\ \A u \in File : Count1(u, diff.skipped \o diff.noid \o diff.missing \o diff.drift) <= 1

\* A user the diff misses, or finds drifted, after an import that reported, is one the
\* report says has failed, or that the target already had.
MissingIsExplained ==
  vpc = "over" /\ withReport =>
    /\ Range(diff.missing) \subseteq {u \in File : \E f \in Range(file.failed) : f[1] = u}
    /\ Range(diff.drift) \cap Range(file.succeeded) = {}
    /\ NotImported \cap Range(diff.missing) = {}

\* An import returns, and so does a diff, whatever fails in them.
CommandsReturn == (pc # "idle" ~> pc = "idle") /\ (vpc = "read" ~> vpc \in {"over", "failed"})
=============================================================================
