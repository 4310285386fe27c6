----------------------------- MODULE ImportPrep -----------------------------
(***************************************************************************)
(* How an import reads its users (pkg/importprep, with the strategies of   *)
(* pkg/strategy and the batches of pkg/hooks/dispatcher.go): a batch of    *)
(* the users file at a time is prepared by the strategies the mapping      *)
(* hands to a handler, in their order, and given to the target's           *)
(* connector; import.payload sees the payloads the connector built.        *)
(*                                                                         *)
(* Users are their position in the file, which may break off.  Of the      *)
(* handler's answers only import.user's matters here (which users it       *)
(* drops); of the others', whom they were applied to.  The docs ask a      *)
(* handler to answer the same every time, so its answer is a function of   *)
(* the user (drops); its calls can fail.                                   *)
(***************************************************************************)
EXTENDS Naturals, Sequences, FiniteSets, SequencesExt, FiniteSetsExt

CONSTANTS
  N,            \* users in the file
  BatchSize,    \* defaultBatch: how many users are prepared together
  HandlerBatch, \* the handler's batch_size
  WithPassword, \* the users with a password, which hash.translate is sent,
  WithFactors,  \* with MFA factors, which mfa.translate is,
  WithMetadata, \* and with metadata, which metadata.place is
  MaxFaults     \* bound on calls that fail

ASSUME PrepAssumption ==
  /\ N \in Nat /\ MaxFaults \in Nat
  /\ BatchSize \in Nat \ {0} /\ HandlerBatch \in Nat \ {0}
  /\ WithPassword \subseteq 1..N /\ WithFactors \subseteq 1..N /\ WithMetadata \subseteq 1..N

File == 1..N

\* The import-side strategies in the order they run, import.payload last.
PrepOrder == <<"import.user", "identity.primary", "hash.translate", "mfa.translate",
               "metadata.place">>
Payload == "import.payload"
ImportStrategies == Range(PrepOrder) \cup {Payload}

VARIABLES
  refs,     \* each strategy's on_failure when it is delegated, "builtin" when the mapping
            \* has it decided without a handler (its target fields included), or "none"
  drops,    \* the users whom the handler of import.user drops
  broken,   \* the user the file breaks off at, 0 when it can be read whole
  scope,    \* what the hooks' event IDs are derived from
  read,     \* users read from the file
  readErr,  \* what reading ended with: "none" so far, "eof" or "broken"
  raw,      \* the batch being prepared, or its payloads for import.payload
  stage,    \* the strategy its handler is asked for, "idle" for none
  items,    \* the users still to send it
  answered, \* the users it has answered for
  batchNo,  \* the number of each strategy's last batch (Batcher.next)
  queue,    \* prepared users not handed to the connector yet
  skipped,  \* users left out by import.user
  applied,  \* history: the strategies whose answers changed each user
  calls,    \* history: the batches sent to the handler
  faults

mapping == <<refs, drops, broken>>
reader == <<read, readErr, raw, stage, items, answered, batchNo, queue, skipped, applied>>
prepVars == <<refs, drops, broken, scope, read, readErr, raw, stage, items, answered,
              batchNo, queue, skipped, applied, calls, faults>>

Delegated(s) == refs[s] \in {"fail", "ignore"}
\* New builds no Applier when nothing is configured: users are read as they are.
Prepares == \E s \in ImportStrategies : refs[s] # "none"
\* A batch is never smaller than the handler's.
ReaderBatch ==
  IF ~Prepares THEN 1
  ELSE IF \E s \in ImportStrategies : Delegated(s) THEN Max({BatchSize, HandlerBatch}) ELSE BatchSize

\* Mutant: one user too many.
MReadable == IF broken = 0 THEN N + 1 ELSE broken
Readable == IF broken = 0 THEN N ELSE broken - 1

\* The elements of s that are in S, in their order: SelectSeq, by what the provers
\* have facts about.
Select(s, S) ==
  LET f[i \in 0..Len(s)] ==
        IF i = 0 THEN <<>> ELSE IF s[i] \in S THEN Append(f[i - 1], s[i]) ELSE f[i - 1]
  IN f[Len(s)]

\* Whom of a batch a strategy is asked about.
Asked(s) ==
  CASE s = "hash.translate" -> WithPassword [] s = "mfa.translate" -> WithFactors
    [] s = "metadata.place" -> WithMetadata [] OTHER -> File
Items(s, us) == Select(us, Asked(s))

\* The strategies still to run on us after the first k, the delegated ones with items.
Left(k, us) == {i \in (k + 1)..Len(PrepOrder) : Delegated(PrepOrder[i]) /\ Items(PrepOrder[i], us) # <<>>}

\* Mutant: an ID without the number of the batch.
MEventID(s, n) == <<scope, s, 1>>
EventID(s, n) == <<scope, s, n>>

PrepInit ==
  /\ read = 0 /\ readErr = "none" /\ raw = <<>> /\ stage = "idle" /\ items = <<>>
  /\ answered = {} /\ batchNo = [s \in ImportStrategies |-> 0]
  /\ queue = <<>> /\ skipped = <<>> /\ applied = [u \in File |-> {}]

\* A new import has a Reader and strategies of its own.
PrepReset ==
  /\ read' = 0 /\ readErr' = "none" /\ raw' = <<>> /\ stage' = "idle" /\ items' = <<>>
  /\ answered' = {} /\ batchNo' = [s \in ImportStrategies |-> 0]
  /\ queue' = <<>> /\ skipped' = <<>> /\ applied' = [u \in File |-> {}]

\* The batch us goes to the next strategy after the first k, or to the connector.
Prepare(k, us) ==
  /\ answered' = {}
  /\ IF Left(k, us) = {}
     THEN stage' = "idle" /\ items' = <<>> /\ raw' = <<>> /\ queue' = us
     ELSE LET i == Min(Left(k, us)) IN
          /\ stage' = PrepOrder[i] /\ items' = Items(PrepOrder[i], us)
          /\ raw' = us /\ UNCHANGED queue

\* Mutant: an error drops the users read before it.
MFill ==
  /\ stage = "idle" /\ queue = <<>> /\ readErr = "none"
  /\ LET last == Min({read + ReaderBatch, Readable}) IN
     /\ read' = last
     /\ readErr' = IF last < read + ReaderBatch THEN IF broken = 0 THEN "eof" ELSE "broken"
                   ELSE "none"
     /\ Prepare(0, IF readErr' = "broken" THEN <<>> ELSE [i \in 1..(last - read) |-> read + i])
  /\ UNCHANGED <<mapping, scope, batchNo, skipped, applied, calls, faults>>

\* fill, while nothing is left of the batch before: it reads up to a whole batch,
\* and keeps an error for when these users are through.
Fill ==
  /\ stage = "idle" /\ queue = <<>> /\ readErr = "none"
  /\ LET last == Min({read + ReaderBatch, Readable}) IN
     /\ read' = last
     /\ readErr' = IF last < read + ReaderBatch THEN IF broken = 0 THEN "eof" ELSE "broken"
                   ELSE "none"
     /\ Prepare(0, [i \in 1..(last - read) |-> read + i])
  /\ UNCHANGED <<mapping, scope, batchNo, skipped, applied, calls, faults>>

\* Mutant: only the end of the file ends the reading.
MReadOver == stage = "idle" /\ queue = <<>> /\ readErr = "eof"

\* next finds nothing more: what reading ended with is the answer.
ReadOver == stage = "idle" /\ queue = <<>> /\ readErr # "none"

\* The payloads built for us are handed to import.payload.
AskPayload(us) ==
  stage' = Payload /\ items' = us /\ raw' = us /\ answered' = {}

Sent == SubSeq(items, 1, Min({HandlerBatch, Len(items)}))

\* The batch numbered after the last one goes to the handler, who answers it or not.
Posted(ok) ==
  /\ stage # "idle" /\ items # <<>>
  /\ calls' = calls \cup {[id |-> EventID(stage, batchNo[stage] + 1), items |-> Sent, answered |-> ok]}
Call(ok) == Posted(ok) /\ batchNo' = [batchNo EXCEPT ![stage] = @ + 1]

\* The webhook times out, or answers a 429 or a 5xx: the same call is tried again.
CallRetried ==
  /\ Posted(FALSE)
  /\ UNCHANGED <<mapping, scope, reader>>

\* The users of us that the answers got leave in the import.
Kept(us, got) == IF stage = "import.user" THEN Select(us, File \ (drops \cap got)) ELSE us

\* The strategy is through, with the answers got: those of all the batches, or none.
Apply(got) ==
  LET out == Select(raw, File \ Range(Kept(raw, got))) IN
  /\ skipped' = skipped \o out
  /\ applied' = [u \in File |-> IF u \in got \cap Range(raw) THEN applied[u] \cup {stage} ELSE applied[u]]
  /\ IF stage = Payload
     THEN stage' = "idle" /\ items' = <<>> /\ raw' = <<>> /\ answered' = {} /\ UNCHANGED queue
     ELSE Prepare(CHOOSE k \in DOMAIN PrepOrder : PrepOrder[k] = stage, Kept(raw, got))

\* Mutant: the answers of the last batch are taken for those of all.
MHandlerAnswers ==
  /\ Call(TRUE)
  /\ LET left == SubSeq(items, Len(Sent) + 1, Len(items)) IN
     IF left = <<>>
     THEN Apply(Range(Sent))
     ELSE /\ items' = left /\ answered' = Range(Sent)
          /\ UNCHANGED <<raw, stage, queue, skipped, applied>>
  /\ UNCHANGED <<mapping, scope, read, readErr, faults>>

\* Resolve: the handler answered for each of the users sent, and is sent the rest.
HandlerAnswers ==
  /\ Call(TRUE)
  /\ LET left == SubSeq(items, Len(Sent) + 1, Len(items))
         got == answered \cup Range(Sent) IN
     IF left = <<>>
     THEN Apply(got)
     ELSE /\ items' = left /\ answered' = got
          /\ UNCHANGED <<raw, stage, queue, skipped, applied>>
  /\ UNCHANGED <<mapping, scope, read, readErr, faults>>

\* The call fails, after its retries, and on_failure is ignore: Resolve answers nothing.
FailureIgnored ==
  /\ Call(FALSE) /\ refs[stage] = "ignore"
  /\ Apply({})
  /\ UNCHANGED <<mapping, scope, read, readErr>>

\* Nothing more is prepared or sent: the error ends the import.
Abandon ==
  /\ stage' = "idle" /\ items' = <<>> /\ raw' = <<>> /\ answered' = {}
  /\ UNCHANGED <<mapping, scope, read, readErr, queue, skipped, applied>>

\* The call fails and on_failure is fail.
FailureFails == Call(FALSE) /\ refs[stage] = "fail" /\ Abandon

\* An answer fits the items sent but cannot be applied to one of them (an action,
\* identifier, key or destination that is not there): on_failure has no say.
AnswerUnusable == Call(TRUE) /\ Sent = items /\ Abandon
=============================================================================
