-------------------------- MODULE BulkImportProofs --------------------------
(***************************************************************************)
(* Proofs about BulkImport, for every number of chunks, of slots and of    *)
(* jobs of the tenant, and every bound.                                    *)
(***************************************************************************)
EXTENDS BulkImport, FiniteSetTheorems, TLAPS

-----------------------------------------------------------------------------
\* The inductive invariant, in three layers: what the caller of submit has reached,
\* what every copy of a checkpoint says, and what the chunks passed over have had.

\* The caller takes a slot for the chunk it is at, whose goroutine has not started,
\* nor those of the chunks after it.
NotReached == \A c \in Chunks : c >= next => go[c] = "none"
SlotIsForNext == reader = "check" => next <= N /\ Matching(next) /\ ~mem[next].done
AtRest == reader = "off" => next = 1

Places == TypeOK /\ SlotsAccounted /\ NotReached /\ SlotIsForNext /\ AtRest

\* What a checkpoint p of chunk c says holds among Auth0's jobs, which are never undone.
Truthful(jobs, c, p) ==
  /\ p.job # NoID =>
       /\ p.job[1] = c
       /\ jobs[p.job].fp = p.fp /\ p.fp # 0
       /\ jobs[p.job].status # "none"
  /\ p.done => p.job # NoID /\ jobs[p.job].status = "completed"

AllTruthful ==
  \A c \in Chunks : \A p \in {mem[c], disk[c], cp[c]} : Truthful(auth0, c, p)

\* The goroutine's copy is of the input read, and never done; it holds the ID of the job it waits for, and the
\* job's outcome is saved once Auth0 has ended it.
CopyHasJob(c) ==
  /\ ~cp[c].done
  /\ go[c] \in Working => cp[c].fp = input
  /\ go[c] \in {"saveID", "poll", "saveOutcome"} => cp[c].job # NoID
  /\ go[c] = "saveOutcome" => auth0[cp[c].job].status # "running"
  /\ go[c] = "post" => mem[c].job = NoID

\* The job in memory is ahead of the disk only for a chunk whose save failed.
SavedUnlessFailed(c) == go[c] \notin {"err", "leave", "failed"} => disk[c] = mem[c]

Copies == AllTruthful /\ \A c \in Chunks : CopyHasJob(c) /\ SavedUnlessFailed(c)

\* Auth0 has run a job of chunk c, cut from this input, to its end.
Imported(c) ==
  \E n \in 1..MaxJobs :
    auth0[<<c, n>>] \in [fp : {input}, status : {"completed", "failed"}]

\* Every chunk the caller has passed is running, over, or was done and announced.
Passed(c) ==
  /\ go[c] \in {"after", "ok"} => mem[c].fp = input /\ Imported(c)
  /\ go[c] = "ok" => fired[c]
  /\ go[c] = "none" /\ c < next => fired[c] /\ mem[c].done /\ mem[c].fp = input
  /\ go[c] \in {"leave", "failed"} => failed

AllRead == reader = "wait" /\ ~readErr => next = N + 1
ResultIsFinal == reader # "off" => result = "none"

Coverage == (\A c \in Chunks : Passed(c)) /\ AllRead /\ ResultIsFinal /\ SuccessCovers

IInv == Places /\ Copies /\ Coverage

-----------------------------------------------------------------------------
\* Auth0's job IDs.

LEMMA JobIDParts ==
  ASSUME NEW id \in JobIDs
  PROVE  /\ id[1] \in Chunks /\ id[2] \in 1..MaxJobs /\ id = <<id[1], id[2]>>
         /\ id # NoID
  BY SizesAssumption DEF JobIDs, Chunks, NoID

LEMMA NoCheckpointType == NoCheckpoint \in Checkpoint
  BY SizesAssumption DEF NoCheckpoint, Checkpoint

-----------------------------------------------------------------------------
\* How many goroutines hold a slot.

Held(g) == {c \in Chunks : g[c] \in Working}

LEMMA HeldFinite ==
  ASSUME NEW g
  PROVE  IsFiniteSet(Held(g)) /\ Cardinality(Held(g)) \in Nat
  <1>1. IsFiniteSet(Chunks)
    BY SizesAssumption, FS_Interval DEF Chunks
  <1>2. Held(g) \in SUBSET Chunks
    BY DEF Held
  <1>3. IsFiniteSet(Held(g))
    BY <1>1, <1>2, FS_Subset
  <1> QED
    BY <1>3, FS_CardinalityType

\* A goroutine that starts holds one more slot, one that is over holds one less, and
\* no step in between changes how many are held.
LEMMA HeldMoves ==
  ASSUME NEW g \in [Chunks -> Working \cup Ended], NEW c \in Chunks,
         NEW p \in Working \cup Ended
  PROVE  LET h == [g EXCEPT ![c] = p]
         IN  /\ g[c] \in Working /\ p \in Working =>
                  Cardinality(Held(h)) = Cardinality(Held(g))
             /\ g[c] \in Working /\ p \notin Working =>
                  /\ Cardinality(Held(h)) = Cardinality(Held(g)) - 1
                  /\ Cardinality(Held(g)) > 0
             /\ g[c] \notin Working /\ p \in Working =>
                  Cardinality(Held(h)) = Cardinality(Held(g)) + 1
  <1> DEFINE h == [g EXCEPT ![c] = p]
  <1>1. \A d \in Chunks : h[d] = IF d = c THEN p ELSE g[d]
    OBVIOUS
  <1>2. ASSUME g[c] \in Working, p \in Working
        PROVE  Held(h) = Held(g)
    BY <1>1, <1>2 DEF Held
  <1>3. ASSUME g[c] \in Working, p \notin Working
        PROVE  Held(h) = Held(g) \ {c} /\ c \in Held(g)
    BY <1>1, <1>3 DEF Held
  <1>4. ASSUME g[c] \notin Working, p \in Working
        PROVE  Held(h) = Held(g) \cup {c} /\ c \notin Held(g)
    BY <1>1, <1>4 DEF Held
  <1>5. IsFiniteSet(Held(g)) /\ Cardinality(Held(g)) \in Nat
    BY HeldFinite
  <1>6. /\ Cardinality(Held(g) \ {c}) =
             IF c \in Held(g) THEN Cardinality(Held(g)) - 1 ELSE Cardinality(Held(g))
        /\ Cardinality(Held(g) \cup {c}) =
             IF c \in Held(g) THEN Cardinality(Held(g)) ELSE Cardinality(Held(g)) + 1
    BY <1>5, FS_RemoveElement, FS_AddElement
  <1>7. c \in Held(g) => Cardinality(Held(g)) > 0
    BY <1>5, FS_EmptySet
  <1> HIDE DEF h
  <1>8. g[c] \in Working /\ p \notin Working =>
          Cardinality(Held(h)) = Cardinality(Held(g)) - 1 /\ Cardinality(Held(g)) > 0
    BY <1>3, <1>6, <1>7
  <1>9. g[c] \notin Working /\ p \in Working => Cardinality(Held(h)) = Cardinality(Held(g)) + 1
    BY <1>4, <1>6
  <1>10. g[c] \in Working /\ p \in Working => Cardinality(Held(h)) = Cardinality(Held(g))
    BY <1>2
  <1> QED
    BY <1>8, <1>9, <1>10 DEF h

LEMMA NoneHeld ==
  ASSUME NEW g, \A c \in Chunks : g[c] \in Ended
  PROVE  Cardinality(Held(g)) = 0
  <1>1. Held(g) = {}
    BY DEF Held, Working, Ended
  <1> QED
    BY <1>1, FS_EmptySet

-----------------------------------------------------------------------------
\* Auth0's jobs: one created has a chunk's fingerprint, and none is undone.

LEMMA CreatedJob ==
  ASSUME auth0 \in [JobIDs -> Auth0Job], NEW c \in Chunks, cp[c] \in Checkpoint,
         NEW n \in 1..MaxJobs, auth0' = Created(c, <<c, n>>)
  PROVE  /\ auth0' \in [JobIDs -> Auth0Job]
         /\ <<c, n>> \in JobIDs
         /\ auth0'[<<c, n>>] = [fp |-> cp[c].fp, status |-> "running"]
         /\ \A id \in JobIDs : id # <<c, n>> => auth0'[id] = auth0[id]
  <1> DEFINE new == [fp |-> cp[c].fp, status |-> "running"]
  <1>1. <<c, n>> \in JobIDs
    BY DEF JobIDs
  <1>2. new \in Auth0Job
    BY DEF Auth0Job, Checkpoint, Statuses
  <1>3. auth0' = [auth0 EXCEPT ![<<c, n>>] = new]
    BY DEF Created
  <1> HIDE DEF new
  <1>4. /\ auth0' \in [JobIDs -> Auth0Job]
        /\ auth0'[<<c, n>>] = new
        /\ \A id \in JobIDs : id # <<c, n>> => auth0'[id] = auth0[id]
    BY <1>1, <1>2, <1>3
  <1> QED
    BY <1>1, <1>4 DEF new

LEMMA EndedJob ==
  ASSUME auth0 \in [JobIDs -> Auth0Job], NEW id \in JobIDs, JobEnds(id)
  PROVE  /\ auth0' \in [JobIDs -> Auth0Job]
         /\ auth0[id].status = "running"
         /\ auth0'[id].fp = auth0[id].fp
         /\ auth0'[id].status \in {"completed", "failed"}
         /\ \A d \in JobIDs : d # id => auth0'[d] = auth0[d]
  BY DEF JobEnds, Auth0Job, Statuses

\* A job that exists keeps its fingerprint, and one that has ended its outcome.
JobsKept ==
  \A id \in JobIDs :
    auth0[id].status # "none" =>
      /\ auth0'[id].fp = auth0[id].fp
      /\ auth0'[id].status # "none"
      /\ auth0[id].status # "running" => auth0'[id].status = auth0[id].status

LEMMA UnusedJob ==
  ASSUME NEW c, NEW n \in 1..MaxJobs, Unused(c, n)
  PROVE  auth0[<<c, n>>].status = "none"
  BY SizesAssumption DEF Unused

LEMMA PostedKeepsJobs ==
  ASSUME auth0 \in [JobIDs -> Auth0Job], NEW c \in Chunks, cp[c] \in Checkpoint, Post(c)
  PROVE  auth0' \in [JobIDs -> Auth0Job] /\ JobsKept
  <1>1. CASE UNCHANGED auth0
    BY <1>1 DEF JobsKept
  <1>2. ASSUME NEW n \in 1..MaxJobs, Unused(c, n), auth0' = Created(c, <<c, n>>)
        PROVE  auth0' \in [JobIDs -> Auth0Job] /\ JobsKept
    <2>1. auth0[<<c, n>>].status = "none"
      BY <1>2, UnusedJob
    <2> QED
      BY <1>2, <2>1, CreatedJob DEF JobsKept
  <1> QED
    BY <1>1, <1>2 DEF Post

LEMMA EndedKeepsJobs ==
  ASSUME auth0 \in [JobIDs -> Auth0Job], NEW id \in JobIDs, JobEnds(id)
  PROVE  auth0' \in [JobIDs -> Auth0Job] /\ JobsKept
  BY EndedJob DEF JobsKept

\* What Auth0 or a save leaves of a checkpoint.

LEMMA OutcomeType ==
  ASSUME NEW c, cp[c] \in Checkpoint
  PROVE  Outcome(c) \in Checkpoint /\ Outcome(c).fp = cp[c].fp
  BY SizesAssumption DEF Outcome, Checkpoint

LEMMA PostedCopyType ==
  ASSUME cp \in [Chunks -> Checkpoint], NEW c \in Chunks, NEW n \in 1..MaxJobs
  PROVE  [cp EXCEPT ![c].job = <<c, n>>] \in [Chunks -> Checkpoint]
  BY DEF Checkpoint, JobIDs

-----------------------------------------------------------------------------
\* The first layer: types, slots and what the caller has reached.

LEMMA InitPlaces == Init => Places
  <1> SUFFICES ASSUME Init PROVE Places
    OBVIOUS
  <1>1. TypeOK
    <2>1. auth0 \in [JobIDs -> Auth0Job]
      BY SizesAssumption DEF Init, Auth0Job, Statuses
    <2>2. /\ disk \in [Chunks -> Checkpoint] /\ mem \in [Chunks -> Checkpoint]
          /\ cp \in [Chunks -> Checkpoint]
      BY NoCheckpointType DEF Init
    <2>3. go \in [Chunks -> Working \cup Ended] /\ fired \in [Chunks -> BOOLEAN]
      BY DEF Init, Ended
    <2>4. /\ input \in 1..MaxInput /\ next \in 1..(N + 1) /\ slots \in 0..Slots
          /\ faults \in 0..MaxFaults /\ interrupts \in 0..MaxInterrupts
      BY SizesAssumption DEF Init
    <2> QED
      BY <2>1, <2>2, <2>3, <2>4 DEF Init, TypeOK
  <1>2. SlotsAccounted
    <2>1. Cardinality(Held(go)) = 0
      BY NoneHeld DEF Init, Ended
    <2> QED
      BY <2>1 DEF Init, SlotsAccounted, Held
  <1>3. NotReached /\ SlotIsForNext /\ AtRest
    BY DEF Init, NotReached, SlotIsForNext, AtRest
  <1> QED
    BY <1>1, <1>2, <1>3 DEF Places

\* A fault or an interruption is counted within its bound.
LEMMA FaultsType ==
  ASSUME faults \in 0..MaxFaults, Fault \/ UNCHANGED faults \/ CallFails
  PROVE  faults' \in 0..MaxFaults
  BY SizesAssumption DEF Fault, CallFails

\* The caller's steps that neither take nor give back a slot, nor start a goroutine.
LEMMA CallerPlaces ==
  ASSUME Places, UNCHANGED <<input, store, go, cp, slots, failed, ctx, auth0, result, interrupts>>,
         reader = "read", faults' \in 0..MaxFaults, fired' \in [Chunks -> BOOLEAN],
         \/ reader' = "wait" /\ readErr' \in BOOLEAN /\ UNCHANGED next
         \/ next <= N /\ next' = next + 1 /\ UNCHANGED <<reader, readErr>>
  PROVE  Places'
  <1>1. TypeOK'
    BY SizesAssumption DEF Places, TypeOK, store
  <1>2. SlotsAccounted'
    BY DEF Places, SlotsAccounted
  <1>3. NotReached' /\ SlotIsForNext' /\ AtRest'
    BY SizesAssumption DEF Places, NotReached, SlotIsForNext, AtRest, TypeOK, Chunks
  <1> QED
    BY <1>1, <1>2, <1>3 DEF Places

\* A step of the goroutine of chunk c that keeps its slot.
LEMMA GoroutinePlaces ==
  ASSUME Places, NEW c \in Chunks, go[c] \in Working, NEW p \in Working, Goto(c, p),
         UNCHANGED <<input, run, slots, ctx, result, interrupts>>,
         mem' \in [Chunks -> Checkpoint], disk' \in [Chunks -> Checkpoint],
         cp' \in [Chunks -> Checkpoint], auth0' \in [JobIDs -> Auth0Job],
         fired' \in [Chunks -> BOOLEAN], failed' \in BOOLEAN, faults' \in 0..MaxFaults,
         \A d \in Chunks \ {c} : mem'[d] = mem[d]
  PROVE  Places'
  <1>1. TypeOK'
    BY DEF Places, TypeOK, Goto, run
  <1>2. SlotsAccounted'
    <2>1. Cardinality(Held(go')) = Cardinality(Held(go))
      BY HeldMoves DEF Places, TypeOK, Goto
    <2> QED
      BY <2>1 DEF Places, SlotsAccounted, Held, run
  <1>3. go[c] # "none" /\ p # "none" /\ c < next
    BY DEF Working, Places, NotReached, TypeOK, Chunks
  <1>4. NotReached'
    BY <1>3 DEF Places, NotReached, Goto, TypeOK, run
  <1>5. SlotIsForNext' /\ AtRest'
    <2>1. ASSUME reader = "check" PROVE next \in Chunks /\ mem'[next] = mem[next]
      BY <1>3, <2>1 DEF Places, SlotIsForNext, TypeOK, Chunks
    <2> QED
      BY <2>1 DEF Places, SlotIsForNext, AtRest, Matching, Saved, run
  <1> QED
    BY <1>1, <1>2, <1>4, <1>5 DEF Places

\* A goroutine that leaves gives its slot back.
LEMMA LeavePlaces ==
  ASSUME Places, NEW c \in Chunks, go[c] \in Working, NEW p \in {"ok", "failed"}, Leave(c, p),
         UNCHANGED <<input, store, run, failed, ctx, auth0, result, faults, interrupts>>,
         fired' \in [Chunks -> BOOLEAN]
  PROVE  Places'
  <1>1. p \in Ended /\ p \notin Working
    BY DEF Ended, Working
  <1>2. /\ Cardinality(Held(go')) = Cardinality(Held(go)) - 1
        /\ Cardinality(Held(go)) > 0 /\ Cardinality(Held(go)) \in Nat
    BY <1>1, HeldMoves, HeldFinite DEF Places, TypeOK, Leave, Goto
  <1>3. slots' \in 0..Slots /\ SlotsAccounted'
    BY <1>2, SizesAssumption DEF Places, TypeOK, SlotsAccounted, Held, Leave, run
  <1>4. cp' \in [Chunks -> Checkpoint]
    BY NoCheckpointType DEF Places, TypeOK, Leave
  <1>5. TypeOK'
    BY <1>1, <1>3, <1>4 DEF Places, TypeOK, Leave, Goto, run, store
  <1>6. go[c] # "none" /\ p # "none"
    BY DEF Working
  <1>7. NotReached' /\ SlotIsForNext' /\ AtRest'
    BY <1>6 DEF Places, NotReached, SlotIsForNext, AtRest, Matching, Saved, Leave, Goto, TypeOK, run, store
  <1> QED
    BY <1>3, <1>5, <1>7 DEF Places

\* The environment's steps, and those of the caller that leave the goroutines as they are.
LEMMA OutsidePlaces ==
  ASSUME Places, UNCHANGED <<disk, next, readErr, go, cp, slots, failed, fired>>,
         \/ UNCHANGED <<reader, input, mem>>
         \/ /\ reader = "off" /\ reader' \in {"off", "read"}
            /\ input' \in 1..MaxInput /\ mem' \in [Chunks -> Checkpoint],
         ctx' \in BOOLEAN, auth0' \in [JobIDs -> Auth0Job], result' \in {"none", "ok", "error"},
         faults' \in 0..MaxFaults, interrupts' \in 0..MaxInterrupts
  PROVE  Places'
  <1>1. TypeOK'
    BY DEF Places, TypeOK
  <1>2. SlotsAccounted' /\ NotReached' /\ SlotIsForNext' /\ AtRest'
    BY DEF Places, SlotsAccounted, NotReached, SlotIsForNext, AtRest, Matching, Saved
  <1> QED
    BY <1>1, <1>2 DEF Places

\* An import that is over, or has crashed, holds nothing.
LEMMA OverPlaces ==
  ASSUME Places, reader' = "off", next' = 1, readErr' = FALSE,
         go' = [c \in Chunks |-> "none"], slots' = 0, failed' = FALSE, ctx' = FALSE,
         UNCHANGED <<input, auth0, fired>>,
         mem' \in [Chunks -> Checkpoint], disk' \in [Chunks -> Checkpoint],
         cp' \in [Chunks -> Checkpoint], result' \in {"none", "ok", "error"},
         faults' \in 0..MaxFaults, interrupts' \in 0..MaxInterrupts
  PROVE  Places'
  <1>1. go' \in [Chunks -> Working \cup Ended]
    BY DEF Ended
  <1>2. TypeOK'
    <2>1. next' \in 1..(N + 1) /\ slots' \in 0..Slots
      BY SizesAssumption
    <2> QED
      BY <1>1, <2>1 DEF Places, TypeOK
  <1>3. SlotsAccounted'
    <2>1. Cardinality(Held(go')) = 0
      BY NoneHeld DEF Ended
    <2> QED
      BY <2>1 DEF SlotsAccounted, Held
  <1>4. NotReached' /\ SlotIsForNext' /\ AtRest'
    BY DEF NotReached, SlotIsForNext, AtRest
  <1> QED
    BY <1>2, <1>3, <1>4 DEF Places

\* A save of the chunk of a goroutine leaves the other chunks as they are.
LEMMA SavedChunk ==
  ASSUME mem \in [Chunks -> Checkpoint], disk \in [Chunks -> Checkpoint],
         NEW c \in Chunks, NEW p \in Checkpoint, NEW q \in Working, SaveChunk(c, p, q)
  PROVE  /\ mem' \in [Chunks -> Checkpoint] /\ mem'[c] = p
         /\ \A d \in Chunks \ {c} : mem'[d] = mem[d]
         /\ disk' \in [Chunks -> Checkpoint]
         /\ \E r \in Working : Goto(c, r)
         /\ \/ disk' = mem' /\ Goto(c, q)
            \/ disk' = disk /\ Goto(c, "err")
         /\ Fault \/ UNCHANGED faults
  BY DEF SaveChunk, Working

LEMMA ReadPlaces ==
  ASSUME Places, Read
  PROVE  Places'
  <1> USE DEF StopReading, bounds
  <1>0. TypeOK /\ (\A c \in Chunks : mem[c] \in Checkpoint)
    BY DEF Places, TypeOK
  <1>1. CASE ReadEnd
    BY <1>1, <1>0, CallerPlaces DEF ReadEnd, TypeOK
  <1>2. CASE ReadFails
    BY <1>2, <1>0, CallerPlaces, FaultsType DEF ReadFails, TypeOK
  <1>3. CASE ChunkChanged
    BY <1>3, <1>0, CallerPlaces DEF ChunkChanged, Reading, TypeOK
  <1>4. CASE ChunkReplayed
    <2>1. faults' \in 0..MaxFaults /\ fired' \in [Chunks -> BOOLEAN]
      BY <1>4, <1>0, FaultsType DEF ChunkReplayed, TypeOK
    <2> QED
      BY <1>4, <1>0, <2>1, CallerPlaces DEF ChunkReplayed, Reading, TypeOK
  <1>5. CASE TakeSlot
    <2>1. TypeOK'
      BY <1>5, <1>0, SizesAssumption DEF TakeSlot, Pending, Reading, TypeOK, store
    <2>2. SlotsAccounted'
      BY <1>5, <1>0, HeldFinite DEF Places, SlotsAccounted, TakeSlot, Pending, Reading, Held, TypeOK
    <2>3. NotReached' /\ SlotIsForNext' /\ AtRest'
      BY <1>5 DEF Places, NotReached, SlotIsForNext, AtRest, TakeSlot, Pending, Reading, Matching,
                  Saved, store
    <2> QED
      BY <2>1, <2>2, <2>3 DEF Places
  <1>6. CASE GiveUp
    BY <1>6, <1>0, CallerPlaces DEF GiveUp, Pending, Reading, TypeOK
  <1>7. CASE BackOff
    <2>1. Cardinality(Held(go)) \in Nat /\ slots = Cardinality(Held(go)) + 1
      BY <1>7, HeldFinite DEF BackOff, Places, SlotsAccounted, Held
    <2>2. slots' \in 0..Slots /\ SlotsAccounted'
      BY <1>7, <1>0, <2>1, SizesAssumption DEF BackOff, SlotsAccounted, Held, TypeOK
    <2>3. TypeOK' /\ NotReached' /\ SlotIsForNext' /\ AtRest'
      BY <1>7, <1>0, <2>2 DEF BackOff, Places, TypeOK, NotReached, SlotIsForNext, AtRest, store
    <2> QED
      BY <2>2, <2>3 DEF Places
  <1>8. CASE Launch
    <2> DEFINE first == IF mem[next].job = NoID THEN "post" ELSE "poll"
               own == IF Saved(next) THEN mem[next] ELSE [NoCheckpoint EXCEPT !.fp = input]
    <2>1. next \in Chunks /\ go[next] = "none" /\ next' \in 1..(N + 1)
      BY <1>8, <1>0, SizesAssumption DEF Launch, Places, SlotIsForNext, NotReached, TypeOK, Chunks
    <2>2. first \in Working /\ "none" \notin Working
      BY DEF Working
    <2>3. own \in Checkpoint
      <3>1. input \in 0..MaxInput
        BY <1>0, SizesAssumption DEF TypeOK
      <3>2. [NoCheckpoint EXCEPT !.fp = input] \in Checkpoint
        BY <3>1, NoCheckpointType DEF Checkpoint
      <3> QED
        BY <1>0, <2>1, <3>2
    <2>4. go' = [go EXCEPT ![next] = first] /\ cp' = [cp EXCEPT ![next] = own]
      BY <1>8 DEF Launch, Goto
    <2> HIDE DEF first, own
    <2>5. go' \in [Chunks -> Working \cup Ended] /\ cp' \in [Chunks -> Checkpoint]
      BY <1>0, <2>1, <2>2, <2>3, <2>4 DEF TypeOK
    <2>6. TypeOK'
      BY <1>8, <1>0, <2>1, <2>5 DEF Launch, TypeOK, store
    <2>7. SlotsAccounted'
      <3>1. Cardinality(Held(go')) = Cardinality(Held(go)) + 1
        <4>1. go \in [Chunks -> Working \cup Ended] /\ go[next] \notin Working
          BY <1>0, <2>1, <2>2 DEF TypeOK
        <4> QED
          BY <2>1, <2>2, <2>4, <4>1, HeldMoves
      <3>2. slots = Cardinality(Held(go)) + 1
        BY <1>8 DEF Launch, Places, SlotsAccounted, Held
      <3> QED
        BY <1>8, <1>0, <3>1, <3>2 DEF Launch, SlotsAccounted, Held, TypeOK
    <2>8. NotReached' /\ SlotIsForNext' /\ AtRest'
      BY <1>8, <1>0, <2>1, <2>4 DEF Launch, Places, NotReached, SlotIsForNext, AtRest, TypeOK, Chunks
    <2> QED
      BY <2>6, <2>7, <2>8 DEF Places
  <1>9. CASE Return
    <2>1. /\ mem' \in [Chunks -> Checkpoint] /\ disk' \in [Chunks -> Checkpoint]
          /\ result' \in {"none", "ok", "error"} /\ faults' \in 0..MaxFaults
      BY <1>9, <1>0, FaultsType DEF Return, TypeOK
    <2> QED
      BY <1>9, <1>0, <2>1, OverPlaces DEF Return, TypeOK
  <1> QED
    BY <1>1, <1>2, <1>3, <1>4, <1>5, <1>6, <1>7, <1>8, <1>9 DEF Read

LEMMA ImportChunkPlaces ==
  ASSUME Places, NEW c \in Chunks, ImportChunk(c)
  PROVE  Places'
  <1>0. TypeOK /\ cp[c] \in Checkpoint /\ mem[c] \in Checkpoint
    BY DEF Places, TypeOK
  <1>1. CASE Post(c)
    <2>1. auth0' \in [JobIDs -> Auth0Job]
      BY <1>0, <1>1, PostedKeepsJobs DEF TypeOK
    <2>2. cp' \in [Chunks -> Checkpoint] /\ faults' \in 0..MaxFaults
      <3>1. \/ UNCHANGED cp
            \/ \E n \in 1..MaxJobs : cp' = [cp EXCEPT ![c].job = <<c, n>>]
        BY <1>1 DEF Post
      <3>2. cp' \in [Chunks -> Checkpoint]
        BY <1>0, <3>1, PostedCopyType DEF TypeOK
      <3>3. CallFails \/ UNCHANGED faults
        BY <1>1 DEF Post
      <3> QED
        BY <1>0, <3>2, <3>3, FaultsType DEF TypeOK
    <2>3. go[c] \in Working /\ \E p \in Working : Goto(c, p)
      BY <1>1 DEF Post, At, Working
    <2> QED
      BY <1>0, <1>1, <2>1, <2>2, <2>3, GoroutinePlaces DEF Post, store, TypeOK
  <1>2. CASE SaveID(c)
    <2>1. go[c] \in Working /\ "poll" \in Working
      BY <1>2 DEF SaveID, At, Working
    <2>2. faults' \in 0..MaxFaults
      BY <1>0, <1>2, FaultsType DEF SaveID, SaveChunk, TypeOK
    <2> QED
      BY <1>0, <1>2, <2>1, <2>2, SavedChunk, GoroutinePlaces DEF SaveID, TypeOK
  <1>3. CASE Poll(c)
    <2>1. go[c] \in Working /\ \E p \in Working : Goto(c, p)
      BY <1>3 DEF Poll, At, Working
    <2>2. faults' \in 0..MaxFaults
      BY <1>0, <1>3, FaultsType DEF Poll, TypeOK
    <2> QED
      BY <1>0, <1>3, <2>1, <2>2, GoroutinePlaces DEF Poll, store, TypeOK
  <1>4. CASE SaveOutcome(c)
    <2>1. go[c] \in Working /\ "after" \in Working
      BY <1>4 DEF SaveOutcome, At, Working
    <2>2. faults' \in 0..MaxFaults /\ fired' \in [Chunks -> BOOLEAN]
      BY <1>0, <1>4, FaultsType DEF SaveOutcome, SaveChunk, TypeOK
    <2> QED
      BY <1>0, <1>4, <2>1, <2>2, OutcomeType, SavedChunk, GoroutinePlaces DEF SaveOutcome, TypeOK
  <1>5. CASE After(c)
    <2>1. go[c] \in Working /\ "err" \in Working
      BY <1>5 DEF After, At, Working
    <2>2. CASE fired' = [fired EXCEPT ![c] = TRUE] /\ Leave(c, "ok") /\ UNCHANGED faults
      BY <1>0, <1>5, <2>1, <2>2, LeavePlaces DEF After, TypeOK
    <2>3. CASE CallFails /\ Goto(c, "err") /\ UNCHANGED <<fired, slots, cp>>
      BY <1>0, <1>5, <2>1, <2>3, FaultsType, GoroutinePlaces DEF After, TypeOK, store
    <2> QED
      BY <1>5, <2>2, <2>3 DEF After
  <1>6. CASE CloseFailed(c)
    <2>1. go[c] \in Working /\ "leave" \in Working
      BY <1>6 DEF CloseFailed, At, Working
    <2> QED
      BY <1>0, <1>6, <2>1, GoroutinePlaces DEF CloseFailed, TypeOK, store, bounds
  <1>7. CASE LeaveFailed(c)
    <2>1. go[c] \in Working
      BY <1>7 DEF LeaveFailed, At, Working
    <2> QED
      BY <1>0, <1>7, <2>1, LeavePlaces DEF LeaveFailed, TypeOK, bounds
  <1> QED
    BY <1>1, <1>2, <1>3, <1>4, <1>5, <1>6, <1>7 DEF ImportChunk

LEMMA PlacesStep == Places /\ [Next]_vars => Places'
  <1> SUFFICES ASSUME Places, [Next]_vars PROVE Places'
    OBVIOUS
  <1> USE DEF bounds, run
  <1>0. TypeOK /\ AtRest
    BY DEF Places
  <1>1. CASE Start
    BY <1>0, <1>1, OutsidePlaces DEF Start, TypeOK
  <1>2. CASE Read
    BY <1>2, ReadPlaces
  <1>3. ASSUME NEW c \in Chunks, ImportChunk(c) PROVE Places'
    BY <1>3, ImportChunkPlaces
  <1>4. ASSUME NEW id \in JobIDs, JobEnds(id) PROVE Places'
    <2>1. auth0' \in [JobIDs -> Auth0Job] /\ faults' \in 0..MaxFaults
      BY <1>0, <1>4, EndedJob, FaultsType DEF JobEnds, TypeOK
    <2> QED
      BY <1>0, <1>4, <2>1, OutsidePlaces DEF JobEnds, TypeOK, store
  <1>5. CASE ChangeInput
    <2>1. input' \in 1..MaxInput /\ interrupts' \in 0..MaxInterrupts
      BY <1>0, <1>5, SizesAssumption DEF ChangeInput, TypeOK
    <2> QED
      BY <1>0, <1>5, <2>1, OutsidePlaces DEF ChangeInput, TypeOK, store
  <1>6. CASE Cancel
    <2>1. interrupts' \in 0..MaxInterrupts
      BY <1>0, <1>6, SizesAssumption DEF Cancel, TypeOK
    <2> QED
      BY <1>0, <1>6, <2>1, OutsidePlaces DEF Cancel, TypeOK, store
  <1>7. CASE Crash
    <2>1. interrupts' \in 0..MaxInterrupts /\ cp' \in [Chunks -> Checkpoint]
      BY <1>0, <1>7, SizesAssumption, NoCheckpointType DEF Crash, TypeOK
    <2> QED
      BY <1>0, <1>7, <2>1, OverPlaces DEF Crash, TypeOK
  <1>8. CASE UNCHANGED vars
    BY <1>0, <1>8, OutsidePlaces DEF vars, TypeOK, store
  <1> QED
    BY <1>1, <1>2, <1>3, <1>4, <1>5, <1>6, <1>7, <1>8 DEF Next

-----------------------------------------------------------------------------
\* The second layer: what the copies of a checkpoint say.

LEMMA NextKeepsJobs ==
  ASSUME Places, [Next]_vars
  PROVE  JobsKept
  <1>0. auth0 \in [JobIDs -> Auth0Job] /\ cp \in [Chunks -> Checkpoint]
    BY DEF Places, TypeOK
  <1>1. CASE UNCHANGED auth0
    BY <1>1 DEF JobsKept
  <1>2. ASSUME NEW c \in Chunks, Post(c) PROVE JobsKept
    BY <1>0, <1>2, PostedKeepsJobs
  <1>3. ASSUME NEW id \in JobIDs, JobEnds(id) PROVE JobsKept
    BY <1>0, <1>3, EndedKeepsJobs
  <1>4. CASE Read
    BY <1>1, <1>4 DEF Read, ReadEnd, ReadFails, ChunkChanged, ChunkReplayed, TakeSlot, GiveUp,
                      BackOff, Launch, Return
  <1>5. ASSUME NEW c \in Chunks, ImportChunk(c) PROVE JobsKept
    BY <1>1, <1>2, <1>5 DEF ImportChunk, SaveID, Poll, SaveOutcome, After, CloseFailed, LeaveFailed
  <1>6. CASE Start \/ ChangeInput \/ Cancel \/ Crash \/ UNCHANGED vars
    BY <1>1, <1>6 DEF Start, ChangeInput, Cancel, Crash, vars
  <1> QED
    BY <1>3, <1>4, <1>5, <1>6 DEF Next

LEMMA StillTruthful ==
  ASSUME JobsKept, NEW c \in Chunks, NEW p \in Checkpoint, Truthful(auth0, c, p)
  PROVE  Truthful(auth0', c, p)
  <1>1. p.job # NoID => p.job \in JobIDs
    BY DEF Checkpoint
  <1> QED
    BY <1>1 DEF JobsKept, Truthful

LEMMA NoCheckpointTruthful ==
  ASSUME NEW jobs, NEW c PROVE Truthful(jobs, c, NoCheckpoint)
  BY DEF Truthful, NoCheckpoint

LEMMA AllStillTruthful ==
  ASSUME Places, AllTruthful, JobsKept, NEW c \in Chunks
  PROVE  Truthful(auth0', c, mem[c]) /\ Truthful(auth0', c, disk[c]) /\ Truthful(auth0', c, cp[c])
  BY StillTruthful DEF Places, TypeOK, AllTruthful

\* A chunk whose goroutine and copies do not change keeps what the invariant says of it.
LEMMA ChunkKept ==
  ASSUME Places, Copies, JobsKept, NEW c \in Chunks,
         go'[c] = go[c], cp'[c] = cp[c], mem'[c] = mem[c], disk'[c] \in {disk[c], mem[c]},
         go[c] \in Working => input' = input
  PROVE  /\ \A p \in {mem'[c], disk'[c], cp'[c]} : Truthful(auth0', c, p)
         /\ CopyHasJob(c)' /\ SavedUnlessFailed(c)'
  <1>1. Truthful(auth0', c, mem[c]) /\ Truthful(auth0', c, disk[c]) /\ Truthful(auth0', c, cp[c])
    BY AllStillTruthful DEF Copies
  <1>2. CopyHasJob(c) /\ SavedUnlessFailed(c) /\ Truthful(auth0, c, cp[c])
    BY DEF Copies, AllTruthful
  <1>3. cp[c].job # NoID => cp[c].job \in JobIDs
    BY DEF Places, TypeOK, Checkpoint
  <1>4. cp[c].job # NoID /\ auth0[cp[c].job].status # "running" =>
          auth0'[cp[c].job].status # "running"
    BY <1>2, <1>3 DEF JobsKept, Truthful
  <1>5. CopyHasJob(c)'
    BY <1>2, <1>4 DEF CopyHasJob
  <1>6. SavedUnlessFailed(c)'
    BY <1>2 DEF SavedUnlessFailed
  <1> QED
    BY <1>1, <1>5, <1>6

\* A step of one chunk disturbs no other.
LEMMA OneChunkCopies ==
  ASSUME Places, Copies, JobsKept, NEW c \in Chunks, UNCHANGED input,
         \A d \in Chunks \ {c} :
           /\ go'[d] = go[d] /\ cp'[d] = cp[d] /\ mem'[d] = mem[d]
           /\ disk'[d] \in {disk[d], mem[d]},
         \A p \in {mem'[c], disk'[c], cp'[c]} : Truthful(auth0', c, p),
         CopyHasJob(c)', SavedUnlessFailed(c)'
  PROVE  Copies'
  <1>1. ASSUME NEW d \in Chunks
        PROVE  /\ \A p \in {mem'[d], disk'[d], cp'[d]} : Truthful(auth0', d, p)
               /\ CopyHasJob(d)' /\ SavedUnlessFailed(d)'
    BY ChunkKept
  <1> QED
    BY <1>1 DEF Copies, AllTruthful

LEMMA SameCopies ==
  ASSUME Places, Copies, JobsKept, UNCHANGED <<go, cp, mem, disk>>,
         \A c \in Chunks : go[c] \in Working => input' = input
  PROVE  Copies'
  <1>1. ASSUME NEW d \in Chunks
        PROVE  /\ \A p \in {mem'[d], disk'[d], cp'[d]} : Truthful(auth0', d, p)
               /\ CopyHasJob(d)' /\ SavedUnlessFailed(d)'
    BY ChunkKept
  <1> QED
    BY <1>1 DEF Copies, AllTruthful

\* No goroutine runs, and the job is what the disk holds.
LEMMA LoadedCopies ==
  ASSUME Places, Copies, \A c \in Chunks : go'[c] = "none", mem' = disk',
         disk' = disk \/ disk' = mem, UNCHANGED auth0,
         \A c \in Chunks : cp'[c] \in {cp[c], NoCheckpoint}
  PROVE  Copies'
  <1>1. ASSUME NEW c \in Chunks, NEW p \in {mem'[c], disk'[c], cp'[c]}
        PROVE  Truthful(auth0', c, p)
    BY <1>1, NoCheckpointTruthful DEF Copies, AllTruthful
  <1>2. ASSUME NEW c \in Chunks PROVE CopyHasJob(c)' /\ SavedUnlessFailed(c)'
    BY <1>2 DEF Copies, CopyHasJob, SavedUnlessFailed, NoCheckpoint, Working
  <1> QED
    BY <1>1, <1>2 DEF Copies, AllTruthful

LEMMA InitCopies == Init => Copies
  <1> SUFFICES ASSUME Init PROVE Copies
    OBVIOUS
  <1>1. \A c \in Chunks : /\ mem[c] = NoCheckpoint /\ disk[c] = NoCheckpoint
                          /\ cp[c] = NoCheckpoint /\ go[c] = "none"
    BY DEF Init
  <1>2. AllTruthful
    BY <1>1, NoCheckpointTruthful DEF AllTruthful
  <1>3. ASSUME NEW c \in Chunks PROVE CopyHasJob(c) /\ SavedUnlessFailed(c)
    BY <1>1 DEF CopyHasJob, SavedUnlessFailed, NoCheckpoint, Working
  <1> QED
    BY <1>2, <1>3 DEF Copies

LEMMA ReadCopies ==
  ASSUME Places, Copies, JobsKept, Read
  PROVE  Copies'
  <1>1. CASE UNCHANGED <<input, go, cp, mem, disk>>
    BY <1>1, SameCopies
  <1>2. CASE Launch
    <2> DEFINE fresh == [NoCheckpoint EXCEPT !.fp = input]
    <2>0. /\ next \in Chunks /\ ~mem[next].done /\ go[next] = "none" /\ Matching(next)
      BY <1>2 DEF Launch, Places, SlotIsForNext, NotReached, TypeOK, Chunks
    <2>1. PICK c \in Chunks : c = next /\ ~mem[c].done /\ go[c] = "none" /\ Matching(c)
      BY <2>0
    <2>2. fresh.job = NoID /\ fresh.done = FALSE /\ fresh.fp = input
      BY DEF NoCheckpoint
    <2>3. /\ cp' = [cp EXCEPT ![c] = IF Saved(c) THEN mem[c] ELSE fresh]
          /\ UNCHANGED <<input, mem, disk>>
      BY <1>2, <2>1 DEF Launch, store
    <2> HIDE DEF fresh
    <2>4. \/ Saved(c) /\ cp'[c] = mem[c]
          \/ ~Saved(c) /\ cp'[c] = fresh
      BY <2>1, <2>3 DEF Places, TypeOK
    <2>5. Truthful(auth0', c, mem[c]) /\ Truthful(auth0', c, disk[c])
      BY <2>1, AllStillTruthful DEF Copies
    <2>6. \A p \in {mem'[c], disk'[c], cp'[c]} : Truthful(auth0', c, p)
      BY <2>2, <2>3, <2>4, <2>5 DEF Truthful
    <2>7. go' = [go EXCEPT ![c] = IF mem[c].job = NoID THEN "post" ELSE "poll"]
      BY <1>2, <2>1 DEF Launch, Goto
    <2>8. go'[c] = IF mem[c].job = NoID THEN "post" ELSE "poll"
      BY <2>7 DEF Places, TypeOK
    <2>9. mem[c].job # NoID => cp'[c].job # NoID
      BY <2>4, <2>5 DEF Truthful, Saved
    <2>10. ~cp'[c].done /\ cp'[c].fp = input
      BY <2>1, <2>2, <2>4 DEF Matching
    <2>11. CopyHasJob(c)'
      BY <2>3, <2>8, <2>9, <2>10 DEF CopyHasJob
    <2>12. SavedUnlessFailed(c)'
      BY <2>1, <2>3 DEF Copies, SavedUnlessFailed
    <2>13. \A d \in Chunks \ {c} : go'[d] = go[d] /\ cp'[d] = cp[d]
      BY <2>3, <2>7 DEF Places, TypeOK
    <2> QED
      BY <2>3, <2>6, <2>11, <2>12, <2>13, OneChunkCopies
  <1>3. CASE Return
    BY <1>3, LoadedCopies DEF Return
  <1> QED
    BY <1>1, <1>2, <1>3 DEF Read, ReadEnd, ReadFails, ChunkChanged, ChunkReplayed, TakeSlot, GiveUp,
                            BackOff, store

LEMMA ImportChunkCopies ==
  ASSUME Places, Copies, JobsKept, NEW c \in Chunks, ImportChunk(c)
  PROVE  Copies'
  <1>0. /\ mem \in [Chunks -> Checkpoint] /\ disk \in [Chunks -> Checkpoint]
        /\ cp \in [Chunks -> Checkpoint] /\ go \in [Chunks -> Working \cup Ended]
        /\ auth0 \in [JobIDs -> Auth0Job]
        /\ mem[c] \in Checkpoint /\ disk[c] \in Checkpoint /\ cp[c] \in Checkpoint
    BY DEF Places, TypeOK
  <1>1. CopyHasJob(c) /\ SavedUnlessFailed(c)
    BY DEF Copies
  <1>2. /\ Truthful(auth0', c, mem[c]) /\ Truthful(auth0', c, disk[c])
        /\ Truthful(auth0', c, cp[c]) /\ Truthful(auth0, c, cp[c])
    BY AllStillTruthful DEF Copies, AllTruthful
  <1>3. cp[c].job # NoID => cp[c].job \in JobIDs
    BY <1>0 DEF Checkpoint
  <1>4. UNCHANGED input
    BY DEF ImportChunk, Post, SaveID, Poll, SaveOutcome, After, CloseFailed, LeaveFailed
  \* A goroutine that goes on to p with its copies as they are.
  <1>5. ASSUME NEW p, p \notin {"post", "saveID", "poll"}, Goto(c, p),
               UNCHANGED <<disk, mem, cp>>, go[c] \in Working,
               p \in {"err", "leave"} \/ disk[c] = mem[c],
               p = "saveOutcome" => cp[c].job # NoID /\ auth0'[cp[c].job].status # "running"
        PROVE  Copies'
    <2>1. go'[c] = p /\ \A d \in Chunks \ {c} : go'[d] = go[d]
      BY <1>0, <1>5 DEF Goto
    <2>2. CopyHasJob(c)'
      BY <1>1, <1>4, <1>5, <2>1 DEF CopyHasJob
    <2>3. SavedUnlessFailed(c)'
      BY <1>5, <2>1 DEF SavedUnlessFailed
    <2>4. \A q \in {mem'[c], disk'[c], cp'[c]} : Truthful(auth0', c, q)
      BY <1>2, <1>5
    <2> QED
      BY <1>4, <1>5, <2>1, <2>2, <2>3, <2>4, OneChunkCopies
  <1>E. ASSUME Goto(c, "err"), UNCHANGED <<disk, mem, cp>>, go[c] \in Working
        PROVE  Copies'
    BY <1>5, <1>E
  \* One that leaves drops its copy.
  <1>L. ASSUME NEW p \in {"ok", "failed"}, Leave(c, p), UNCHANGED <<disk, mem>>,
               p = "failed" \/ disk[c] = mem[c]
        PROVE  Copies'
    <2>1. go'[c] = p /\ cp'[c] = NoCheckpoint
          /\ \A d \in Chunks \ {c} : go'[d] = go[d] /\ cp'[d] = cp[d]
      BY <1>0, <1>L DEF Leave, Goto
    <2>2. CopyHasJob(c)'
      BY <2>1 DEF CopyHasJob, NoCheckpoint, Working
    <2>3. SavedUnlessFailed(c)'
      BY <1>L, <2>1 DEF SavedUnlessFailed
    <2>4. \A q \in {mem'[c], disk'[c], cp'[c]} : Truthful(auth0', c, q)
      BY <1>2, <1>L, <2>1, NoCheckpointTruthful
    <2> QED
      BY <1>4, <1>L, <2>1, <2>2, <2>3, <2>4, OneChunkCopies
  <1>6. CASE Post(c)
    <2>1. CASE Goto(c, "err") /\ UNCHANGED cp
      BY <1>6, <1>E, <2>1 DEF Post, At, Working, store
    <2>2. ASSUME NEW n \in 1..MaxJobs, auth0' = Created(c, <<c, n>>),
                 cp' = [cp EXCEPT ![c].job = <<c, n>>], Goto(c, "saveID")
          PROVE  Copies'
      <3>1. <<c, n>> \in JobIDs /\ auth0'[<<c, n>>] = [fp |-> cp[c].fp, status |-> "running"]
        BY <1>0, <2>2, CreatedJob
      <3>2. cp'[c].job = <<c, n>> /\ cp'[c].fp = cp[c].fp /\ cp'[c].done = cp[c].done
        BY <1>0, <2>2 DEF Checkpoint
      <3>3. cp[c].fp = input /\ input # 0 /\ ~cp[c].done
        BY <1>1, <1>6 DEF CopyHasJob, Post, At, Working, Places, TypeOK
      <3>4. <<c, n>> # NoID
        BY <3>1, JobIDParts
      <3>5. Truthful(auth0', c, cp'[c])
        BY <3>1, <3>2, <3>3 DEF Truthful
      <3>6. CopyHasJob(c)'
        BY <1>0, <1>4, <2>2, <3>2, <3>3, <3>4 DEF CopyHasJob, Goto
      <3>7. SavedUnlessFailed(c)'
        BY <1>0, <1>1, <1>6, <2>2 DEF SavedUnlessFailed, Goto, Post, At, store
      <3>8. \A d \in Chunks \ {c} : go'[d] = go[d] /\ cp'[d] = cp[d]
        BY <1>0, <2>2 DEF Goto
      <3> QED
        BY <1>2, <1>4, <1>6, <3>5, <3>6, <3>7, <3>8, OneChunkCopies DEF Post, store
    <2> QED
      BY <1>6, <2>1, <2>2 DEF Post
  \* A save puts a checkpoint p in the job, and writes the job whole or fails.
  <1>7. ASSUME NEW p \in Checkpoint, NEW q \in {"poll", "after"}, SaveChunk(c, p, q), UNCHANGED cp,
               Truthful(auth0', c, p), q = "poll" => cp[c].job # NoID, go[c] \in Working
        PROVE  Copies'
    <2>1. q \in Working /\ "err" \in Working
      BY DEF Working
    <2>2. /\ mem'[c] = p /\ \A d \in Chunks \ {c} : mem'[d] = mem[d]
          /\ \/ disk' = mem' /\ Goto(c, q)
             \/ disk' = disk /\ Goto(c, "err")
      BY <1>0, <1>7, <2>1, SavedChunk
    <2>3. \A r \in {mem'[c], disk'[c], cp'[c]} : Truthful(auth0', c, r)
      BY <1>2, <1>7, <2>2
    <2>4. go'[c] \in {q, "err"} /\ (go'[c] = q => disk' = mem')
          /\ \A d \in Chunks \ {c} : go'[d] = go[d]
      BY <1>0, <2>2 DEF Goto
    <2>5. CopyHasJob(c)'
      BY <1>1, <1>4, <1>7, <2>4 DEF CopyHasJob
    <2>6. SavedUnlessFailed(c)'
      BY <2>4 DEF SavedUnlessFailed
    <2> QED
      BY <1>4, <1>7, <2>2, <2>3, <2>4, <2>5, <2>6, OneChunkCopies
  <1>8. CASE SaveID(c)
    BY <1>0, <1>1, <1>2, <1>7, <1>8 DEF SaveID, CopyHasJob, At, Working
  <1>9. CASE Poll(c)
    <2>1. go[c] = "poll" /\ go[c] \in Working /\ cp[c].job # NoID /\ disk[c] = mem[c]
      BY <1>1, <1>9 DEF Poll, At, Working, CopyHasJob, SavedUnlessFailed
    <2> QED
      <3>1. CASE Goto(c, "err")
        BY <1>9, <1>E, <2>1, <3>1 DEF Poll, store
      <3>2. CASE auth0[cp[c].job].status # "running" /\ Goto(c, "saveOutcome")
        BY <1>5, <1>9, <2>1, <3>2 DEF Poll, store
      <3> QED
        BY <1>9, <3>1, <3>2 DEF Poll
  <1>10. CASE SaveOutcome(c)
    <2> DEFINE p == Outcome(c)
    <2>1. cp[c].job # NoID /\ cp[c].job \in JobIDs /\ go[c] \in Working
          /\ auth0[cp[c].job].status # "running" /\ ~cp[c].done /\ auth0' = auth0
      BY <1>1, <1>3, <1>10 DEF SaveOutcome, At, CopyHasJob, Working
    <2>2. auth0[cp[c].job].status \in {"completed", "failed"}
      BY <1>0, <1>2, <2>1 DEF Truthful, Auth0Job, Statuses
    <2>3. CASE auth0[cp[c].job].status = "failed"
      <3>1. p.job = NoID /\ p.done = cp[c].done
        BY <1>0, <2>3 DEF Outcome, Checkpoint
      <3> QED
        BY <1>0, <1>7, <1>10, <2>1, <3>1, OutcomeType DEF SaveOutcome, Truthful
    <2>4. CASE auth0[cp[c].job].status = "completed"
      <3>1. p.job = cp[c].job /\ p.fp = cp[c].fp
        BY <1>0, <2>4 DEF Outcome, Checkpoint
      <3>2. Truthful(auth0', c, p)
        BY <1>2, <2>1, <2>4, <3>1 DEF Truthful
      <3> QED
        BY <1>0, <1>7, <1>10, <2>1, <3>2, OutcomeType DEF SaveOutcome
    <2> QED
      BY <2>2, <2>3, <2>4
  <1>11. CASE After(c)
    <2>1. go[c] \in Working /\ disk[c] = mem[c]
      BY <1>1, <1>11 DEF After, At, Working, SavedUnlessFailed
    <2> QED
      BY <1>11, <1>E, <1>L, <2>1 DEF After, store
  <1>12. CASE CloseFailed(c)
    <2>1. go[c] \in Working
      BY <1>12 DEF CloseFailed, At, Working
    <2> QED
      BY <1>5, <1>12, <2>1 DEF CloseFailed, store
  <1>13. CASE LeaveFailed(c)
    BY <1>13, <1>L DEF LeaveFailed, store
  <1> QED
    BY <1>6, <1>8, <1>9, <1>10, <1>11, <1>12, <1>13 DEF ImportChunk

LEMMA CopiesStep == Places /\ Copies /\ [Next]_vars => Copies'
  <1> SUFFICES ASSUME Places, Copies, [Next]_vars PROVE Copies'
    OBVIOUS
  <1>0. JobsKept
    BY NextKeepsJobs
  <1>1. reader = "off" => \A c \in Chunks : go[c] = "none"
    BY DEF Places, AtRest, NotReached, Chunks
  <1>2. CASE Start
    BY <1>1, <1>2, LoadedCopies DEF Start
  <1>3. CASE Read
    BY <1>0, <1>3, ReadCopies
  <1>4. ASSUME NEW c \in Chunks, ImportChunk(c) PROVE Copies'
    BY <1>0, <1>4, ImportChunkCopies
  <1>5. ASSUME NEW id \in JobIDs, JobEnds(id) PROVE Copies'
    BY <1>0, <1>5, SameCopies DEF JobEnds, store
  <1>6. CASE ChangeInput
    <2>1. \A c \in Chunks : go[c] \notin Working
      BY <1>1, <1>6 DEF ChangeInput, Working
    <2> QED
      BY <1>0, <1>6, <2>1, SameCopies DEF ChangeInput, store
  <1>7. CASE Cancel
    BY <1>0, <1>7, SameCopies DEF Cancel, store
  <1>8. CASE Crash
    BY <1>8, LoadedCopies DEF Crash
  <1>9. CASE UNCHANGED vars
    BY <1>0, <1>9, SameCopies DEF vars
  <1> QED
    BY <1>2, <1>3, <1>4, <1>5, <1>6, <1>7, <1>8, <1>9 DEF Next

-----------------------------------------------------------------------------
\* The third layer: what the chunks the caller has passed have had.

LEMMA ImportedBy ==
  ASSUME auth0 \in [JobIDs -> Auth0Job], NEW c \in Chunks, NEW id \in JobIDs, id[1] = c,
         auth0[id].fp = input, auth0[id].status \in {"completed", "failed"}
  PROVE  Imported(c)
  <1>1. id = <<c, id[2]>> /\ id[2] \in 1..MaxJobs
    BY JobIDParts
  <1>2. auth0[id] \in [fp : {input}, status : {"completed", "failed"}]
    BY DEF Auth0Job
  <1> QED
    BY <1>1, <1>2 DEF Imported

LEMMA ImportedStays ==
  ASSUME Places, Places', JobsKept, UNCHANGED input, NEW c \in Chunks, Imported(c)
  PROVE  Imported(c)'
  <1>1. PICK n \in 1..MaxJobs :
          auth0[<<c, n>>] \in [fp : {input}, status : {"completed", "failed"}]
    BY DEF Imported
  <1>2. <<c, n>> \in JobIDs
    BY DEF JobIDs
  <1>3. /\ auth0'[<<c, n>>].fp = input'
        /\ auth0'[<<c, n>>].status \in {"completed", "failed"}
    BY <1>1, <1>2 DEF JobsKept
  <1>4. auth0'[<<c, n>>] \in Auth0Job
    BY <1>2 DEF Places, TypeOK
  <1>5. auth0'[<<c, n>>] \in [fp : {input'}, status : {"completed", "failed"}]
    BY <1>3, <1>4 DEF Auth0Job
  <1> QED
    BY <1>5 DEF Imported

\* A chunk that a step leaves alone keeps what it has had.
LEMMA PassedStays ==
  ASSUME Places, Places', JobsKept, UNCHANGED input, NEW c \in Chunks, Passed(c),
         go'[c] = go[c], mem'[c] = mem[c], fired'[c] = fired[c], failed => failed',
         go[c] # "none" \/ (c < next' => c < next)
  PROVE  Passed(c)'
  <1>1. Imported(c) => Imported(c)'
    BY ImportedStays
  <1> QED
    BY <1>1 DEF Passed

\* Nothing has been passed where nothing runs and nothing is read.
LEMMA NothingPassed ==
  ASSUME next' = 1, \A c \in Chunks : go'[c] = "none"
  PROVE  \A c \in Chunks : Passed(c)'
  BY SizesAssumption DEF Passed, Chunks

\* An import that has succeeded is over, and what it did stays.
LEMMA SuccessStays ==
  ASSUME Places, Places', JobsKept, SuccessCovers,
         result' = "ok" => result = "ok" /\ UNCHANGED <<input, disk, fired>>
  PROVE  SuccessCovers'
  <1> SUFFICES ASSUME result' = "ok", NEW c \in Chunks
               PROVE  fired'[c] /\ disk'[c].fp = input' /\ Imported(c)'
    BY DEF SuccessCovers, Imported
  <1>1. fired[c] /\ disk[c].fp = input /\ Imported(c)
    BY DEF SuccessCovers, Imported
  <1> QED
    BY <1>1, ImportedStays

\* A step of an import that goes on cannot make it succeed.
LEMMA StillRunning ==
  ASSUME Places, Places', JobsKept, Coverage, reader # "off", UNCHANGED result
  PROVE  ResultIsFinal' /\ SuccessCovers'
  BY SuccessStays DEF Coverage, ResultIsFinal

LEMMA InitCoverage == Init => Coverage
  BY SizesAssumption DEF Init, Coverage, Passed, AllRead, ResultIsFinal, SuccessCovers, Chunks

\* The step of the goroutine of a chunk that the caller has passed.
LEMMA OneChunkPassed ==
  ASSUME Places, Places', JobsKept, Coverage, NEW c \in Chunks,
         UNCHANGED <<input, next, reader, readErr, result>>, reader # "off", failed => failed',
         \A d \in Chunks \ {c} : go'[d] = go[d] /\ mem'[d] = mem[d] /\ fired'[d] = fired[d],
         Passed(c)'
  PROVE  Coverage'
  <1>1. ASSUME NEW d \in Chunks \ {c} PROVE Passed(d)'
    BY PassedStays DEF Coverage
  <1>2. AllRead'
    BY DEF Coverage, AllRead
  <1> QED
    BY <1>1, <1>2, StillRunning DEF Coverage

LEMMA ImportChunkCoverage ==
  ASSUME Places, Places', Copies, JobsKept, Coverage, NEW c \in Chunks, ImportChunk(c)
  PROVE  Coverage'
  <1>0. /\ mem \in [Chunks -> Checkpoint] /\ disk \in [Chunks -> Checkpoint]
        /\ cp \in [Chunks -> Checkpoint] /\ go \in [Chunks -> Working \cup Ended]
        /\ fired \in [Chunks -> BOOLEAN] /\ auth0 \in [JobIDs -> Auth0Job]
        /\ cp[c] \in Checkpoint
    BY DEF Places, TypeOK
  <1>1. /\ UNCHANGED <<input, next, reader, readErr, result>> /\ go[c] \in Working
        /\ failed => failed'
    BY DEF ImportChunk, Post, SaveID, Poll, SaveOutcome, After, CloseFailed, LeaveFailed, At,
           Working, run
  <1>2. reader # "off"
    <2>1. go[c] # "none"
      BY <1>1 DEF Working
    <2> QED
      BY <2>1 DEF Places, AtRest, NotReached, Chunks
  <1>3. Passed(c) /\ CopyHasJob(c) /\ Truthful(auth0, c, cp[c])
    BY DEF Coverage, Copies, AllTruthful
  \* A goroutine that goes on to p: only the last steps of it say something of the chunk.
  <1>4. ASSUME NEW p \in {"saveID", "poll", "saveOutcome", "err"}, Goto(c, p), UNCHANGED fired,
               \A d \in Chunks \ {c} : mem'[d] = mem[d]
        PROVE  Coverage'
    <2>1. go'[c] = p /\ \A d \in Chunks \ {c} : go'[d] = go[d]
      BY <1>0, <1>4 DEF Goto
    <2>2. Passed(c)'
      BY <2>1 DEF Passed
    <2> QED
      BY <1>1, <1>2, <1>4, <2>1, <2>2, OneChunkPassed
  <1>5. CASE Post(c)
    BY <1>4, <1>5 DEF Post, store
  <1>6. CASE SaveID(c)
    <2>1. /\ \A d \in Chunks \ {c} : mem'[d] = mem[d]
          /\ Goto(c, "poll") \/ Goto(c, "err")
      BY <1>0, <1>6 DEF SaveID, SaveChunk
    <2> QED
      BY <1>4, <1>6, <2>1 DEF SaveID
  <1>7. CASE Poll(c)
    BY <1>4, <1>7 DEF Poll, store
  <1>8. CASE SaveOutcome(c)
    <2>1. /\ mem'[c] = Outcome(c) /\ \A d \in Chunks \ {c} : mem'[d] = mem[d]
          /\ \A d \in Chunks \ {c} : fired'[d] = fired[d]
          /\ Goto(c, "after") \/ Goto(c, "err")
          /\ UNCHANGED auth0
      BY <1>0, <1>8 DEF SaveOutcome, SaveChunk
    <2>2. go'[c] \in {"after", "err"} /\ \A d \in Chunks \ {c} : go'[d] = go[d]
      BY <1>0, <2>1 DEF Goto
    <2>3. mem'[c].fp = input'
      <3>1. cp[c].fp = input
        BY <1>1, <1>3 DEF CopyHasJob
      <3> QED
        BY <1>0, <1>1, <2>1, <3>1, OutcomeType
    <2>4. Imported(c)'
      <3>1. cp[c].job # NoID /\ auth0[cp[c].job].status # "running" /\ cp[c].fp = input
        BY <1>1, <1>3, <1>8 DEF CopyHasJob, SaveOutcome, At
      <3>2. cp[c].job \in JobIDs /\ cp[c].job[1] = c /\ auth0[cp[c].job].fp = input
            /\ auth0[cp[c].job].status \in {"completed", "failed"}
        BY <1>0, <1>3, <3>1 DEF Truthful, Checkpoint, Auth0Job, Statuses
      <3>3. Imported(c)
        BY <1>0, <3>2, ImportedBy
      <3> QED
        BY <1>1, <3>3, ImportedStays
    <2>5. Passed(c)'
      BY <2>2, <2>3, <2>4 DEF Passed
    <2> QED
      BY <1>1, <1>2, <2>1, <2>2, <2>5, OneChunkPassed
  <1>9. CASE After(c)
    <2>1. CASE Goto(c, "err") /\ UNCHANGED fired
      BY <1>4, <1>9, <2>1 DEF After, store
    <2>2. CASE fired' = [fired EXCEPT ![c] = TRUE] /\ Leave(c, "ok")
      <3>1. /\ go'[c] = "ok" /\ fired'[c] /\ UNCHANGED mem
            /\ \A d \in Chunks \ {c} : go'[d] = go[d] /\ fired'[d] = fired[d]
        BY <1>0, <1>9, <2>2 DEF After, Leave, Goto, store
      <3>2. mem[c].fp = input /\ Imported(c)
        BY <1>3, <1>9 DEF Passed, After, At
      <3>3. Passed(c)'
        BY <1>1, <3>1, <3>2, ImportedStays DEF Passed
      <3> QED
        BY <1>1, <1>2, <3>1, <3>3, OneChunkPassed
    <2> QED
      BY <1>9, <2>1, <2>2 DEF After
  <1>10. CASE CloseFailed(c) \/ LeaveFailed(c)
    <2>1. go'[c] \in {"leave", "failed"} /\ (\A d \in Chunks \ {c} : go'[d] = go[d])
          /\ UNCHANGED <<mem, fired>>
      BY <1>0, <1>10 DEF CloseFailed, LeaveFailed, Leave, Goto, store
    <2>2. failed'
      BY <1>3, <1>10 DEF Passed, CloseFailed, LeaveFailed, At
    <2>3. Passed(c)'
      BY <2>1, <2>2 DEF Passed
    <2> QED
      BY <1>1, <1>2, <2>1, <2>3, OneChunkPassed
  <1> QED
    BY <1>5, <1>6, <1>7, <1>8, <1>9, <1>10 DEF ImportChunk

LEMMA ReadCoverage ==
  ASSUME Places, Places', Copies, JobsKept, Coverage, Read
  PROVE  Coverage'
  <1>0. next \in 1..(N + 1) /\ go \in [Chunks -> Working \cup Ended] /\ fired \in [Chunks -> BOOLEAN]
    BY DEF Places, TypeOK
  <1>1. UNCHANGED input /\ reader # "off"
    BY DEF Read, ReadEnd, ReadFails, ChunkChanged, ChunkReplayed, TakeSlot, GiveUp, BackOff, Launch,
           Return, Reading, Pending
  \* The steps that pass no chunk.
  <1>2. ASSUME UNCHANGED <<next, go, mem, fired, failed, result>>, AllRead'
        PROVE  Coverage'
    <2>1. ASSUME NEW c \in Chunks PROVE Passed(c)'
      BY <1>1, <1>2, PassedStays DEF Coverage
    <2> QED
      BY <1>1, <1>2, <2>1, StillRunning DEF Coverage
  <1>3. CASE ReadEnd
    BY <1>0, <1>2, <1>3, SizesAssumption DEF ReadEnd, AllRead, store
  <1>4. CASE ReadFails \/ ChunkChanged \/ GiveUp \/ BackOff
    BY <1>2, <1>4 DEF ReadFails, ChunkChanged, GiveUp, BackOff, StopReading, AllRead, store
  <1>5. CASE TakeSlot
    BY <1>2, <1>5 DEF TakeSlot, AllRead, store
  <1>6. CASE ChunkReplayed
    <2>1. CASE StopReading /\ UNCHANGED fired
      BY <1>2, <1>6, <2>1 DEF ChunkReplayed, StopReading, AllRead, store
    <2>2. CASE next' = next + 1 /\ fired' = [fired EXCEPT ![next] = TRUE] /\ UNCHANGED <<reader, readErr>>
      <3>1. /\ next \in Chunks /\ mem[next].done /\ Matching(next) /\ reader = "read"
            /\ UNCHANGED <<mem, go, failed, result>>
        BY <1>0, <1>6 DEF ChunkReplayed, Reading, Chunks, store
      <3>2. mem[next].fp = input
        BY <3>1 DEF Copies, AllTruthful, Truthful, Matching, Saved
      <3>3. fired'[next] /\ \A c \in Chunks \ {next} : fired'[c] = fired[c]
        BY <1>0, <2>2, <3>1
      <3>4. ASSUME NEW c \in Chunks PROVE Passed(c)'
        <4>1. CASE c = next
          <5>1. go[c] = "none"
            BY <1>0, <4>1 DEF Places, NotReached
          <5> QED
            BY <1>1, <3>1, <3>2, <3>3, <4>1, <5>1 DEF Passed
        <4>2. CASE c # next
          <5>1. c < next' => c < next
            BY <1>0, <2>2, <4>2 DEF Chunks
          <5> QED
            BY <1>1, <3>1, <3>3, <4>2, <5>1, PassedStays DEF Coverage
        <4> QED
          BY <4>1, <4>2
      <3>5. AllRead'
        BY <2>2, <3>1 DEF AllRead
      <3> QED
        BY <1>1, <3>1, <3>4, <3>5, StillRunning DEF Coverage
    <2> QED
      BY <1>6, <2>1, <2>2 DEF ChunkReplayed
  <1>7. CASE Launch
    <2>1. PICK n \in Chunks : n = next
      BY <1>7 DEF Launch, Places, SlotIsForNext, TypeOK, Chunks
    <2>2. /\ go'[n] \in {"post", "poll"} /\ \A c \in Chunks \ {n} : go'[c] = go[c]
          /\ next' = n + 1 /\ UNCHANGED <<mem, fired, failed, result>> /\ reader' = "read"
      BY <1>0, <1>7, <2>1 DEF Launch, Goto, store
    <2>3. ASSUME NEW c \in Chunks PROVE Passed(c)'
      <3>1. CASE c = n
        BY <2>2, <3>1 DEF Passed
      <3>2. CASE c # n
        <4>1. c < next' => c < next
          BY <2>1, <2>2, <3>2 DEF Chunks
        <4> QED
          BY <1>1, <2>2, <3>2, <4>1, PassedStays DEF Coverage
      <3> QED
        BY <3>1, <3>2
    <2> QED
      BY <1>1, <2>2, <2>3, StillRunning DEF Coverage, AllRead
  <1>8. CASE Return
    <2>1. \A c \in Chunks : Passed(c)'
      BY <1>8, NothingPassed DEF Return
    <2>2. AllRead' /\ ResultIsFinal'
      BY <1>8 DEF Return, AllRead, ResultIsFinal
    <2>3. SuccessCovers'
      <3> SUFFICES ASSUME result' = "ok", NEW c \in Chunks
                   PROVE  fired'[c] /\ disk'[c].fp = input' /\ Imported(c)'
        BY DEF SuccessCovers, Imported
      <3>1. /\ ~failed /\ ~readErr /\ disk' = mem /\ UNCHANGED fired
            /\ reader = "wait" /\ go[c] \in Ended
        BY <1>8 DEF Return
      <3>2. c < next
        BY <3>1, SizesAssumption DEF Coverage, AllRead, Chunks
      <3>3. Passed(c)
        BY DEF Coverage
      <3>4. CASE go[c] = "ok"
        BY <1>1, <3>1, <3>3, <3>4, ImportedStays DEF Passed
      <3>5. CASE go[c] = "none"
        <4>1. fired[c] /\ mem[c].done /\ mem[c].fp = input
          BY <3>2, <3>3, <3>5 DEF Passed
        <4>2. Truthful(auth0, c, mem[c]) /\ mem[c] \in Checkpoint
          BY DEF Copies, AllTruthful, Places, TypeOK
        <4>3. /\ mem[c].job \in JobIDs /\ mem[c].job[1] = c
              /\ auth0[mem[c].job].fp = input /\ auth0[mem[c].job].status = "completed"
          BY <4>1, <4>2 DEF Truthful, Checkpoint
        <4>4. Imported(c)
          BY <4>3, ImportedBy DEF Places, TypeOK
        <4> QED
          BY <1>1, <3>1, <4>1, <4>4, ImportedStays
      <3> QED
        BY <3>1, <3>3, <3>4, <3>5 DEF Passed, Ended
    <2> QED
      BY <2>1, <2>2, <2>3 DEF Coverage
  <1> QED
    BY <1>3, <1>4, <1>5, <1>6, <1>7, <1>8 DEF Read

LEMMA CoverageStep == Places /\ Copies /\ Coverage /\ [Next]_vars => Coverage'
  <1> SUFFICES ASSUME Places, Copies, Coverage, [Next]_vars PROVE Coverage'
    OBVIOUS
  <1>0. JobsKept /\ Places'
    BY NextKeepsJobs, PlacesStep
  <1>1. reader = "off" => next = 1 /\ \A c \in Chunks : go[c] = "none"
    BY DEF Places, AtRest, NotReached, Chunks
  <1>2. CASE Start
    BY <1>1, <1>2, NothingPassed DEF Start, Coverage, AllRead, ResultIsFinal, SuccessCovers
  <1>3. CASE Read
    BY <1>0, <1>3, ReadCoverage
  <1>4. ASSUME NEW c \in Chunks, ImportChunk(c) PROVE Coverage'
    BY <1>0, <1>4, ImportChunkCoverage
  <1>5. ASSUME UNCHANGED <<input, disk, mem, reader, next, readErr, go, failed, result, fired>>
        PROVE  Coverage'
    <2>1. ASSUME NEW c \in Chunks PROVE Passed(c)'
      BY <1>0, <1>5, PassedStays DEF Coverage
    <2>2. SuccessCovers'
      BY <1>0, <1>5, SuccessStays DEF Coverage
    <2> QED
      BY <1>5, <2>1, <2>2 DEF Coverage, AllRead, ResultIsFinal
  <1>6. ASSUME NEW id \in JobIDs, JobEnds(id) PROVE Coverage'
    BY <1>5, <1>6 DEF JobEnds, store, run
  <1>7. CASE ChangeInput
    <2>1. \A c \in Chunks : Passed(c)'
      BY <1>1, <1>7, NothingPassed DEF ChangeInput, run
    <2> QED
      BY <1>7, <2>1 DEF ChangeInput, Coverage, AllRead, ResultIsFinal, SuccessCovers, run
  <1>8. CASE Cancel
    BY <1>5, <1>8 DEF Cancel, store, run
  <1>9. CASE Crash
    <2>1. \A c \in Chunks : Passed(c)'
      BY <1>9, NothingPassed DEF Crash
    <2> QED
      BY <1>9, <2>1 DEF Crash, Coverage, AllRead, ResultIsFinal, SuccessCovers
  <1>10. CASE UNCHANGED vars
    BY <1>5, <1>10 DEF vars
  <1> QED
    BY <1>2, <1>3, <1>4, <1>6, <1>7, <1>8, <1>9, <1>10 DEF Next

-----------------------------------------------------------------------------
\* The theorems.

\* The invariant holds of every reachable state: it is inductive, layer by layer.
THEOREM ImportInv == Spec => []IInv
  <1>1. Init => IInv
    BY InitPlaces, InitCopies, InitCoverage DEF IInv
  <1>2. IInv /\ [Next]_vars => IInv'
    BY PlacesStep, CopiesStep, CoverageStep DEF IInv
  <1> QED
    BY <1>1, <1>2, PTL DEF Spec

\* Every variable keeps its type: in particular the slots taken stay within
\* maxConcurrentJobs, and the caller never reaches past the last chunk.
THEOREM ImportTypes == Spec => []TypeOK
  <1>1. IInv => TypeOK
    BY DEF IInv, Places
  <1> QED
    BY <1>1, ImportInv, PTL

\* Every slot taken belongs to one goroutine at work, or to the caller about to start
\* one: no error path of submitAndPoll leaks one, none is given back twice.
THEOREM ImportSlotsAccounted == Spec => []SlotsAccounted
  <1>1. IInv => SlotsAccounted
    BY DEF IInv, Places
  <1> QED
    BY <1>1, ImportInv, PTL

\* So no more goroutines than maxConcurrentJobs are ever at work.
THEOREM WithinSlots == Spec => [](Cardinality({c \in Chunks : go[c] \in Working}) <= Slots)
  <1>1. IInv => Cardinality({c \in Chunks : go[c] \in Working}) <= Slots
    <2> SUFFICES ASSUME IInv PROVE Cardinality(Held(go)) <= Slots
      BY DEF Held
    <2>1. /\ slots = Cardinality(Held(go)) + (IF reader = "check" THEN 1 ELSE 0)
          /\ slots \in 0..Slots /\ Cardinality(Held(go)) \in Nat
      BY HeldFinite DEF IInv, Places, SlotsAccounted, TypeOK, Held
    <2> QED
      BY <2>1, SizesAssumption
  <1> QED
    BY <1>1, ImportInv, PTL

\* A saved checkpoint tells the truth of Auth0: whatever was lost between a call and its
\* save, the job it names is of that chunk and that input, and done means imported.
THEOREM ImportCheckpointsTrue == Spec => []CheckpointsTrue
  <1>1. IInv => CheckpointsTrue
    <2> SUFFICES ASSUME IInv, NEW c \in Chunks PROVE Truthful(auth0, c, disk[c])
      BY DEF CheckpointsTrue, Truthful
    <2> QED
      BY DEF IInv, Copies, AllTruthful
  <1> QED
    BY <1>1, ImportInv, PTL

\* An import that succeeds has had every chunk of the current input run to its end and
\* announced, over however many crashed, cancelled or failed runs.
THEOREM ImportSuccessCovers == Spec => []SuccessCovers
  <1>1. IInv => SuccessCovers
    BY DEF IInv, Coverage
  <1> QED
    BY <1>1, ImportInv, PTL

\* No chunk is submitted again while its saved checkpoint holds a job or says it is done.
THEOREM ImportNotResubmitted == Spec => NotResubmitted
  <1>1. ASSUME IInv, [Next]_vars, NEW id \in JobIDs,
               auth0[id].status = "none", auth0'[id].status # "none"
        PROVE  ~disk[id[1]].done /\ disk[id[1]].job = NoID
    <2>0. auth0 \in [JobIDs -> Auth0Job] /\ cp \in [Chunks -> Checkpoint]
      BY <1>1 DEF IInv, Places, TypeOK
    \* Only Post creates a job.
    <2>1. \E c \in Chunks : Post(c)
      <3>1. auth0' # auth0
        BY <1>1
      <3>2. ASSUME NEW d \in JobIDs, JobEnds(d) PROVE FALSE
        BY <1>1, <2>0, <3>2, EndedJob
      <3>3. ~Read
        BY <3>1 DEF Read, ReadEnd, ReadFails, ChunkChanged, ChunkReplayed, TakeSlot, GiveUp, BackOff,
                    Launch, Return
      <3>4. ASSUME NEW c \in Chunks, ImportChunk(c) PROVE Post(c)
        BY <3>1, <3>4 DEF ImportChunk, SaveID, Poll, SaveOutcome, After, CloseFailed, LeaveFailed
      <3> QED
        BY <1>1, <3>1, <3>2, <3>3, <3>4 DEF Next, Start, ChangeInput, Cancel, Crash, vars
    <2>2. PICK c \in Chunks : Post(c)
      BY <2>1
    <2>3. \E n \in 1..MaxJobs : auth0' = Created(c, <<c, n>>)
      BY <1>1, <2>2 DEF Post
    <2>4. PICK n \in 1..MaxJobs : auth0' = Created(c, <<c, n>>)
      BY <2>3
    <2>5. id = <<c, n>>
      BY <1>1, <2>0, <2>4, CreatedJob
    <2>6. go[c] = "post"
      BY <2>2 DEF Post, At
    <2>7. disk[c] = mem[c] /\ mem[c].job = NoID /\ Truthful(auth0, c, mem[c])
      BY <1>1, <2>6 DEF IInv, Copies, AllTruthful, CopyHasJob, SavedUnlessFailed
    <2> QED
      BY <2>5, <2>7 DEF Truthful
  <1>2. IInv /\ [Next]_vars =>
          [\A id \in JobIDs :
             auth0[id].status = "none" /\ auth0'[id].status # "none" =>
               ~disk[id[1]].done /\ disk[id[1]].job = NoID]_vars
    BY <1>1
  <1> QED
    BY <1>2, ImportInv, PTL DEF Spec, NotResubmitted

\* Once a chunk has failed no other is started, whichever of a free slot and the failure
\* the select of submit sees first.
THEOREM ImportNoneStartedAfterFailure == Spec => NoneStartedAfterFailure
  <1>1. ASSUME IInv, [Next]_vars, failed, failed', NEW c \in Chunks, go[c] = "none"
        PROVE  go'[c] = "none"
    <2>0. go \in [Chunks -> Working \cup Ended]
      BY <1>1 DEF IInv, Places, TypeOK
    <2>1. CASE UNCHANGED go
      BY <1>1, <2>1
    <2>2. CASE Read
      BY <1>1, <2>1, <2>2 DEF Read, ReadEnd, ReadFails, ChunkChanged, ChunkReplayed, TakeSlot, GiveUp,
                              BackOff, Launch, Return
    <2>3. ASSUME NEW d \in Chunks, ImportChunk(d) PROVE go'[c] = "none"
      <3>1. go[d] # "none"
        BY <2>3 DEF ImportChunk, Post, SaveID, Poll, SaveOutcome, After, CloseFailed, LeaveFailed, At
      <3>2. \E p : Goto(d, p)
        BY <2>3 DEF ImportChunk, Post, SaveID, Poll, SaveOutcome, SaveChunk, After, CloseFailed,
                    LeaveFailed, Leave
      <3> QED
        BY <1>1, <2>0, <3>1, <3>2 DEF Goto
    <2>4. CASE Crash
      BY <2>4 DEF Crash
    <2> QED
      BY <1>1, <2>1, <2>2, <2>3, <2>4 DEF Next, Start, JobEnds, ChangeInput, Cancel, vars
  <1>2. IInv /\ [Next]_vars =>
          [failed /\ failed' => \A c \in Chunks : go[c] = "none" => go'[c] = "none"]_vars
    BY <1>1
  <1> QED
    BY <1>2, ImportInv, PTL DEF Spec, NoneStartedAfterFailure
=============================================================================
