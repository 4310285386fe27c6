---------------------------- MODULE CourseProofs ----------------------------
(***************************************************************************)
(* Proof that an event ID is of the same users in every run.  What a       *)
(* handler is asked, and under which number, follows from the mapping, the *)
(* file and the target alone, for as long as no failure is ignored: the    *)
(* users prepared, the turns of the reader and Firebase's groups take one  *)
(* course in every run, which a run may leave, but not change.             *)
(***************************************************************************)
EXTENDS ImportProofs

-----------------------------------------------------------------------------
(* The course of an import. *)

Place ==
  [read : Nat, readErr : {"none", "eof", "broken"}, raw : Seq(File), stage : ImportStrategies \cup {"idle"},
   items : Seq(File), answered : SUBSET File, batchNo : [ImportStrategies -> Nat], queue : Seq(File),
   group : [HashParams -> Seq(File)], order : Seq(HashParams)]

\* Where this run is.
Here ==
  [read |-> read, readErr |-> readErr, raw |-> raw, stage |-> stage, items |-> items, answered |-> answered,
   batchNo |-> batchNo, queue |-> queue, group |-> group, order |-> order]

Beginning ==
  [read |-> 0, readErr |-> "none", raw |-> <<>>, stage |-> "idle", items |-> <<>>, answered |-> {},
   batchNo |-> [s \in ImportStrategies |-> 0], queue |-> <<>>,
   group |-> [p \in HashParams |-> <<>>], order |-> <<>>]

\* Prepare, AskPayload by Send, and the actions that go on from x, as functions of x.
Asks(x, s, us) == [x EXCEPT !.stage = s, !.items = Items(s, us), !.raw = us, !.answered = {}]
Rests(x, us) == [x EXCEPT !.stage = "idle", !.items = <<>>, !.raw = <<>>, !.answered = {}, !.queue = us]
PreparedFrom(x, k, us) ==
  IF Left(k, us) = {} THEN Rests(x, us) ELSE Asks(x, PrepOrder[Min(Left(k, us))], us)
SentFrom(x, us) ==
  IF us # <<>> /\ Delegated(Payload)
  THEN [x EXCEPT !.stage = Payload, !.items = us, !.raw = us, !.answered = {}] ELSE x

ReadUpTo(x) == Min({x.read + ReaderBatch, Readable})
ReadOn(x) ==
  [x EXCEPT !.read = ReadUpTo(x),
            !.readErr = IF ReadUpTo(x) < x.read + ReaderBatch
                        THEN IF broken = 0 THEN "eof" ELSE "broken" ELSE "none"]
Filling(x) == PreparedFrom(ReadOn(x), 0, [i \in 1..(ReadUpTo(x) - x.read) |-> x.read + i])

Batch(x) == SubSeq(x.items, 1, Min({HandlerBatch, Len(x.items)}))
Unsent(x) == SubSeq(x.items, Len(Batch(x)) + 1, Len(x.items))
Got(x) == x.answered \cup Range(Batch(x))
Stay(x) == IF x.stage = "import.user" THEN Select(x.raw, File \ (drops \cap Got(x))) ELSE x.raw
Counted(x) == [x EXCEPT !.batchNo = [x.batchNo EXCEPT ![x.stage] = @ + 1]]
Rank(s) == CHOOSE k \in DOMAIN PrepOrder : PrepOrder[k] = s
Answering(x) ==
  IF Unsent(x) # <<>> THEN [Counted(x) EXCEPT !.items = Unsent(x), !.answered = Got(x)]
  ELSE IF x.stage = Payload THEN Rests(Counted(x), x.queue)
  ELSE PreparedFrom(Counted(x), Rank(x.stage), Stay(x))

Building(x) == SentFrom([x EXCEPT !.queue = <<>>], Select(x.queue, Translatable))

ParamsAt(x) == ParamsOf[Head(x.queue)]
Grown(x) == Append(x.group[ParamsAt(x)], Head(x.queue))
Full(x) == Len(Grown(x)) = FlushSize
Grouping(x) ==
  [x EXCEPT !.queue = Tail(x.queue),
            !.order = IF ParamsAt(x) \in Range(x.order) THEN x.order ELSE Append(x.order, ParamsAt(x)),
            !.group = [x.group EXCEPT ![ParamsAt(x)] = IF Full(x) THEN <<>> ELSE Grown(x)]]
Taking(x) ==
  IF Head(x.queue) \in Translatable THEN SentFrom(Grouping(x), IF Full(x) THEN Grown(x) ELSE <<>>)
  ELSE [x EXCEPT !.queue = Tail(x.queue)]

NextGroup(x) == Head(Select(x.order, {p \in HashParams : x.group[p] # <<>>}))
Emptying(x) == SentFrom([x EXCEPT !.group = [x.group EXCEPT ![NextGroup(x)] = <<>>]], x.group[NextGroup(x)])

Move(x) ==
  IF x.stage # "idle" THEN Answering(x)
  ELSE IF x.queue # <<>> THEN IF target = "firebase" THEN Taking(x) ELSE Building(x)
  ELSE IF x.readErr = "none" THEN Filling(x) ELSE Emptying(x)


-----------------------------------------------------------------------------
(* Places a course from x comes through, for any Move. *)

Closed(P) == \A x \in P : Move(x) \in Place => Move(x) \in P
From(x) == {y \in Place : \A P \in SUBSET Place : x \in P /\ Closed(P) => y \in P}

LEMMA FromIsLeast ==
  ASSUME NEW x \in Place
  PROVE  /\ From(x) \in SUBSET Place /\ x \in From(x) /\ Closed(From(x))
         /\ \A P \in SUBSET Place : x \in P /\ Closed(P) => From(x) \subseteq P
BY DEF From, Closed

\* Beyond x the course is that from its move.
LEMMA Beyond ==
  ASSUME NEW x \in Place, NEW y \in From(x), y # x
  PROVE  Move(x) \in Place /\ y \in From(Move(x))
<1>1. CASE Move(x) \in Place
  <2> DEFINE P == {x} \cup From(Move(x))
  <2>1. Closed(From(Move(x))) /\ Move(x) \in From(Move(x)) /\ From(Move(x)) \in SUBSET Place
    BY <1>1, FromIsLeast
  <2>2. x \in P /\ P \in SUBSET Place /\ Closed(P)
    BY <2>1 DEF Closed
  <2>3. y \in P
    BY <2>2, FromIsLeast
  <2> QED BY <1>1, <2>3
<1>2. CASE Move(x) \notin Place
  <2>1. Closed({x}) /\ {x} \in SUBSET Place
    BY <1>2 DEF Closed
  <2> QED BY <2>1, FromIsLeast
<1> QED BY <1>1, <1>2

\* Of two places of one course, one comes after the other.
LEMMA InOrder ==
  ASSUME NEW z \in Place
  PROVE  \A x \in From(z) : \A y \in From(z) : y \in From(x) \/ x \in From(y)
<1> DEFINE P == {x \in From(z) : \A y \in From(z) : y \in From(x) \/ x \in From(y)}
<1>1. From(z) \in SUBSET Place /\ z \in From(z) /\ Closed(From(z))
  BY FromIsLeast
<1>2. z \in P
  BY <1>1
<1>3. ASSUME NEW x \in P, Move(x) \in Place PROVE Move(x) \in P
  <2>1. Move(x) \in From(z)
    BY <1>1, <1>3 DEF Closed
  <2>2. ASSUME NEW y \in From(z) PROVE y \in From(Move(x)) \/ Move(x) \in From(y)
    <3>1. CASE x \in From(y)
      BY <1>1, <1>3, <3>1, FromIsLeast DEF Closed
    <3>2. CASE y \in From(x)
      <4>1. CASE y = x
        BY <1>1, <1>3, <4>1, FromIsLeast DEF Closed
      <4>2. CASE y # x
        BY <1>1, <3>2, <4>2, Beyond
      <4> QED BY <4>1, <4>2
    <3> QED BY <3>1, <3>2
  <2> QED BY <2>1, <2>2
<1>4. Closed(P) /\ P \in SUBSET Place
  BY <1>1, <1>3 DEF Closed
<1> QED BY <1>2, <1>4, FromIsLeast

\* A move counts the batch of the strategy that is asked, and no other.
LEMMA MoveCounts ==
  ASSUME NEW x \in Place
  PROVE  Move(x).batchNo = IF x.stage = "idle" THEN x.batchNo
                           ELSE [x.batchNo EXCEPT ![x.stage] = @ + 1]
<1>1. /\ DOMAIN x = {"read", "readErr", "raw", "stage", "items", "answered", "batchNo", "queue", "group", "order"}
      /\ DOMAIN Counted(x) = DOMAIN x
      /\ Counted(x).batchNo = [x.batchNo EXCEPT ![x.stage] = @ + 1]
  BY DEF Place, Counted
<1>2. ASSUME NEW y, "batchNo" \in DOMAIN y
      PROVE  /\ \A k, us : PreparedFrom(y, k, us).batchNo = y.batchNo
             /\ \A us : SentFrom(y, us).batchNo = y.batchNo /\ Rests(y, us).batchNo = y.batchNo
  BY <1>2 DEF PreparedFrom, SentFrom, Rests, Asks
<1>3. Answering(x).batchNo = Counted(x).batchNo
  BY <1>1, <1>2 DEF Answering
<1>4. Building(x).batchNo = x.batchNo
  BY <1>1, <1>2 DEF Building
<1>5. Taking(x).batchNo = x.batchNo
  <2>1. DOMAIN Grouping(x) = DOMAIN x /\ Grouping(x).batchNo = x.batchNo
    BY <1>1 DEF Grouping
  <2>2. \A q : [x EXCEPT !.queue = q].batchNo = x.batchNo
    BY <1>1
  <2> QED BY <1>1, <1>2, <2>1, <2>2, Zenon DEF Taking
<1>6. Filling(x).batchNo = x.batchNo
  <2>1. DOMAIN ReadOn(x) = DOMAIN x /\ ReadOn(x).batchNo = x.batchNo
    BY <1>1 DEF ReadOn
  <2>2. \A k, us : PreparedFrom(ReadOn(x), k, us).batchNo = x.batchNo
    BY <1>1, <1>2, <2>1
  <2> QED BY <2>2, Zenon DEF Filling
<1>7. Emptying(x).batchNo = x.batchNo
  BY <1>1, <1>2 DEF Emptying
<1> QED BY <1>1, <1>3, <1>4, <1>5, <1>6, <1>7 DEF Move

LEMMA NumbersGrow ==
  ASSUME NEW x \in Place, NEW y \in From(x), NEW s \in ImportStrategies
  PROVE  x.batchNo[s] <= y.batchNo[s]
<1> DEFINE P == {w \in From(x) : x.batchNo[s] <= w.batchNo[s]}
<1>1. From(x) \in SUBSET Place /\ x \in From(x) /\ Closed(From(x))
  BY FromIsLeast
<1>2. \A w \in Place : w.batchNo \in [ImportStrategies -> Nat] /\ w.stage \in ImportStrategies \cup {"idle"}
  BY DEF Place
<1>3. x \in P
  BY <1>1, <1>2
<1>4. ASSUME NEW w \in P, Move(w) \in Place PROVE Move(w) \in P
  <2>1. w \in Place /\ Move(w) \in From(x)
    BY <1>1, <1>4 DEF Closed
  <2>2. w.batchNo[s] <= Move(w).batchNo[s]
    <3>1. w.batchNo \in [ImportStrategies -> Nat]
      BY <1>2, <2>1
    <3>2. Move(w).batchNo = IF w.stage = "idle" THEN w.batchNo
                            ELSE [w.batchNo EXCEPT ![w.stage] = @ + 1]
      BY <2>1, MoveCounts
    <3> QED BY <3>1, <3>2
  <2>3. x.batchNo[s] \in Nat /\ w.batchNo[s] \in Nat /\ Move(w).batchNo[s] \in Nat
    BY <1>2, <1>4, <2>1
  <2> QED BY <2>1, <2>2, <2>3
<1>5. Closed(P) /\ P \in SUBSET Place
  BY <1>1, <1>4 DEF Closed
<1> QED BY <1>3, <1>5, FromIsLeast

\* On one course a strategy and the number of its batch are those of one place.
LEMMA NumbersTell ==
  ASSUME NEW z \in Place, NEW x \in From(z), NEW y \in From(z),
         x.stage # "idle", y.stage = x.stage, x.batchNo[x.stage] = y.batchNo[x.stage]
  PROVE  x = y
<1>1. x \in Place /\ y \in Place
  BY FromIsLeast
<1>2. \A w \in Place : w.batchNo \in [ImportStrategies -> Nat] /\ w.stage \in ImportStrategies \cup {"idle"}
  BY DEF Place
<1>3. ASSUME NEW v \in Place, NEW w \in From(v), v # w, v.stage # "idle"
      PROVE  v.batchNo[v.stage] < w.batchNo[v.stage]
  <2>1. Move(v) \in Place /\ w \in From(Move(v)) /\ w \in Place
    BY <1>3, Beyond, FromIsLeast
  <2>2. Move(v).batchNo[v.stage] = v.batchNo[v.stage] + 1
    BY <1>2, <1>3, MoveCounts
  <2>3. Move(v).batchNo[v.stage] <= w.batchNo[v.stage]
    BY <1>2, <1>3, <2>1, NumbersGrow
  <2>4. v.batchNo[v.stage] \in Nat /\ w.batchNo[v.stage] \in Nat
    BY <1>2, <1>3, <2>1
  <2> QED BY <2>2, <2>3, <2>4
<1>4. y \in From(x) \/ x \in From(y)
  BY InOrder
<1>5. x.batchNo[x.stage] \in Nat
  BY <1>1, <1>2
<1> QED BY <1>1, <1>3, <1>4, <1>5


-----------------------------------------------------------------------------
(* An import takes this course. *)

\* The mapping, the file and the target, on which it depends, never change.
LEMMA SameCourse ==
  ASSUME refs' = refs, drops' = drops, broken' = broken, target' = target
  PROVE  From(Beginning)' = From(Beginning)
<1>1. \A s : Delegated(s)' = Delegated(s)
  BY DEF Delegated
<1>2. ReaderBatch' = ReaderBatch /\ Readable' = Readable /\ Translatable' = Translatable
  BY <1>1 DEF ReaderBatch, Prepares, Readable, Translatable
<1>3. \A k, us : Left(k, us)' = Left(k, us)
  BY <1>1 DEF Left
<1>4. \A x, us : SentFrom(x, us)' = SentFrom(x, us)
  BY <1>1 DEF SentFrom
<1>5. \A x, k, us : PreparedFrom(x, k, us)' = PreparedFrom(x, k, us)
  BY <1>3 DEF PreparedFrom, Asks, Rests
<1>6. \A x : ReadUpTo(x)' = ReadUpTo(x)
  BY <1>2 DEF ReadUpTo
<1>7. \A x : ReadOn(x)' = ReadOn(x)
  BY <1>2, <1>6 DEF ReadOn
<1>8. \A x : Filling(x)' = Filling(x)
  BY <1>5, <1>6, <1>7 DEF Filling
<1>9. \A x : Stay(x)' = Stay(x)
  BY DEF Stay, Got, Batch
<1>10. \A x : Answering(x)' = Answering(x)
  BY <1>5, <1>9 DEF Answering, Unsent, Batch, Got, Counted, Rests
<1>11. \A x : Building(x)' = Building(x)
  BY <1>2, <1>4 DEF Building
<1>12. \A x : Taking(x)' = Taking(x)
  BY <1>2, <1>4 DEF Taking, Grouping, Grown, Full, ParamsAt
<1>13. \A x : Emptying(x)' = Emptying(x)
  BY <1>4 DEF Emptying, NextGroup
<1>14. \A x : Move(x)' = Move(x)
  BY <1>8, <1>10, <1>11, <1>12, <1>13 DEF Move
<1>15. \A P : Closed(P)' = Closed(P)
  BY <1>14 DEF Closed
<1> QED BY <1>15 DEF From, Beginning

Fields == {"read", "readErr", "raw", "stage", "items", "answered", "batchNo", "queue", "group", "order"}

LEMMA HereIs ==
  ASSUME NEW x, x = Here
  PROVE  /\ DOMAIN x = Fields
         /\ x.read = read /\ x.readErr = readErr /\ x.raw = raw /\ x.stage = stage /\ x.items = items
         /\ x.answered = answered /\ x.batchNo = batchNo /\ x.queue = queue
         /\ x.group = group /\ x.order = order
BY DEF Here, Fields

HereTyped == Here \in Place

LEMMA HereHolds == Types => HereTyped
<1> SUFFICES ASSUME Types PROVE Here \in Place
  BY DEF HereTyped
<1>1. read \in Nat
  BY PrepAssumption DEF Types, PrepTypes, Readable
<1> QED BY <1>1 DEF Types, PrepTypes, SendTypes, Here, Place

LEMMA HereBecomes ==
  ASSUME NEW x \in Place,
         x.read = read', x.readErr = readErr', x.raw = raw', x.stage = stage', x.items = items',
         x.answered = answered', x.batchNo = batchNo', x.queue = queue', x.group = group', x.order = order'
  PROVE  Here' = x
BY DEF Here, Place

LEMMA PreparesFrom ==
  ASSUME NEW x \in Place, NEW k, NEW us, Prepare(k, us),
         x.read = read', x.readErr = readErr', x.batchNo = batchNo', x.queue = queue,
         x.group = group', x.order = order'
  PROVE  Here' = PreparedFrom(x, k, us)
<1>1. CASE Left(k, us) = {}
  BY <1>1 DEF Prepare, PreparedFrom, Rests, Here, Place
<1>2. CASE Left(k, us) # {}
  BY <1>2 DEF Prepare, PreparedFrom, Asks, Here, Place
<1> QED BY <1>1, <1>2

LEMMA SendsFrom ==
  ASSUME NEW x \in Place, NEW us, Send(us),
         x.read = read', x.readErr = readErr', x.batchNo = batchNo', x.queue = queue',
         x.group = group', x.order = order',
         x.raw = raw, x.stage = stage, x.items = items, x.answered = answered
  PROVE  Here' = SentFrom(x, us)
<1>1. CASE us # <<>> /\ Delegated(Payload)
  BY <1>1 DEF Send, AskPayload, SentFrom, Here, Place
<1>2. CASE ~(us # <<>> /\ Delegated(Payload))
  BY <1>2 DEF Send, SentFrom, Here, Place
<1> QED BY <1>1, <1>2


LEMMA FillMoves ==
  ASSUME Types, Types', Fill, UNCHANGED <<group, order>>
  PROVE  Here' = Move(Here)
<1>1. PICK x \in Place : x = Here
  BY HereHolds DEF HereTyped
<1>2. /\ x.read = read /\ x.readErr = "none" /\ x.stage = "idle" /\ x.queue = <<>>
      /\ x.queue = queue /\ x.batchNo = batchNo /\ x.group = group /\ x.order = order
  BY <1>1, HereIs DEF Fill
<1>3. ReadUpTo(x) = Min({read + ReaderBatch, Readable})
  BY <1>2 DEF ReadUpTo
<1>4. /\ read' = ReadUpTo(x)
      /\ readErr' = IF ReadUpTo(x) < read + ReaderBatch THEN IF broken = 0 THEN "eof" ELSE "broken" ELSE "none"
      /\ Prepare(0, [i \in 1..(ReadUpTo(x) - read) |-> read + i])
      /\ batchNo' = batchNo
  BY <1>3 DEF Fill
<1>5. PICK y \in Place : y = ReadOn(x)
  <2>1. read' \in Nat /\ readErr' \in {"none", "eof", "broken"}
    BY PrepAssumption DEF Types, PrepTypes, Readable
  <2>2. ReadOn(x) = [x EXCEPT !.read = read', !.readErr = readErr']
    BY <1>2, <1>4 DEF ReadOn
  <2> QED BY <2>1, <2>2 DEF Place
<1>6. /\ y.read = read' /\ y.readErr = readErr' /\ y.batchNo = batchNo' /\ y.queue = queue
      /\ y.group = group' /\ y.order = order'
  BY <1>2, <1>4, <1>5 DEF ReadOn, Place
<1>7. Here' = PreparedFrom(y, 0, [i \in 1..(ReadUpTo(x) - read) |-> read + i])
  BY <1>4, <1>6, PreparesFrom
<1>8. Here' = Filling(x)
  BY <1>2, <1>5, <1>7 DEF Filling
<1> QED BY <1>1, <1>2, <1>8 DEF Move

LEMMA AnswerMoves ==
  ASSUME Types, Types', HandlerAnswers, UNCHANGED <<group, order>>
  PROVE  Here' = Move(Here)
<1>1. PICK x \in Place : x = Here
  BY HereHolds DEF HereTyped
<1>2. /\ x.read = read /\ x.readErr = readErr /\ x.stage = stage /\ x.queue = queue /\ x.raw = raw
      /\ x.items = items /\ x.answered = answered
      /\ x.batchNo = batchNo /\ x.group = group /\ x.order = order
  BY <1>1, HereIs
<1>3. Batch(x) = Sent
  BY <1>2 DEF Batch, Sent
<1>4. /\ Unsent(x) = SubSeq(items, Len(Sent) + 1, Len(items))
      /\ Got(x) = answered \cup Range(Sent)
  BY <1>2, <1>3 DEF Unsent, Got
<1>5. /\ stage # "idle" /\ batchNo' = [batchNo EXCEPT ![stage] = @ + 1]
      /\ read' = read /\ readErr' = readErr
      /\ Unsent(x) = <<>> => Apply(Got(x))
      /\ Unsent(x) # <<>> =>
           items' = Unsent(x) /\ answered' = Got(x) /\ UNCHANGED <<raw, stage, queue>>
  BY <1>4 DEF HandlerAnswers, Call, Posted
<1>6. PICK y \in Place : y = Counted(x)
  BY <1>2, <1>5 DEF Counted, Types, PrepTypes, Place
<1>7. /\ y.read = read' /\ y.readErr = readErr' /\ y.batchNo = batchNo' /\ y.queue = queue
      /\ y.group = group' /\ y.order = order' /\ y.stage = stage /\ y.raw = raw
      /\ y.items = items /\ y.answered = answered
  BY <1>2, <1>5, <1>6 DEF Counted, Place
<1>8. Move(x) = Answering(x)
  BY <1>2, <1>5 DEF Move
<1>9. CASE Unsent(x) # <<>>
  <2>1. Answering(x) = [y EXCEPT !.items = Unsent(x), !.answered = Got(x)]
    BY <1>6, <1>9 DEF Answering
  <2>2. PICK z \in Place : z = [y EXCEPT !.items = items', !.answered = answered']
    BY DEF Types, PrepTypes, Place
  <2>3. raw' = raw /\ stage' = stage /\ queue' = queue
    BY <1>5, <1>9
  <2>4. Here' = z
    <3>1. /\ z.read = y.read /\ z.readErr = y.readErr /\ z.raw = y.raw /\ z.stage = y.stage
          /\ z.items = items' /\ z.answered = answered' /\ z.batchNo = y.batchNo /\ z.queue = y.queue
          /\ z.group = y.group /\ z.order = y.order
      BY <2>2 DEF Place
    <3> QED BY <1>7, <2>3, <3>1, HereBecomes
  <2> QED BY <1>1, <1>5, <1>8, <1>9, <2>1, <2>2, <2>4
<1>10. CASE Unsent(x) = <<>> /\ stage = Payload
  <2>1. Answering(x) = Rests(y, x.queue)
    BY <1>2, <1>6, <1>10 DEF Answering
  <2>2. stage' = "idle" /\ items' = <<>> /\ raw' = <<>> /\ answered' = {} /\ queue' = queue
    BY <1>5, <1>10 DEF Apply
  <2>3. PICK z \in Place : z = Rests(y, x.queue)
    <3>1. <<>> \in Seq(File) /\ {} \in SUBSET File
      OBVIOUS
    <3>2. x.queue \in Seq(File)
      BY DEF Place
    <3> QED BY <3>1, <3>2 DEF Rests, Place
  <2>4. /\ z.read = y.read /\ z.readErr = y.readErr /\ z.raw = <<>> /\ z.stage = "idle"
        /\ z.items = <<>> /\ z.answered = {} /\ z.batchNo = y.batchNo /\ z.queue = x.queue
        /\ z.group = y.group /\ z.order = y.order
    BY <2>3 DEF Rests, Place
  <2>5. Here' = z
    BY <1>2, <1>7, <2>2, <2>4, HereBecomes
  <2> QED BY <1>1, <1>8, <2>1, <2>3, <2>5
<1>11. CASE Unsent(x) = <<>> /\ stage # Payload
  <2>1. Stay(x) = Kept(raw, Got(x))
    BY <1>2 DEF Stay, Kept
  <2>2. Prepare(Rank(stage), Stay(x))
    BY <1>5, <1>11, <2>1 DEF Apply, Rank
  <2>3. Answering(x) = PreparedFrom(y, Rank(stage), Stay(x))
    BY <1>2, <1>6, <1>11 DEF Answering
  <2>4. Here' = PreparedFrom(y, Rank(stage), Stay(x))
    BY <1>7, <2>2, PreparesFrom
  <2> QED BY <1>1, <1>8, <2>3, <2>4
<1> QED BY <1>9, <1>10, <1>11

LEMMA BuildMoves ==
  ASSUME Types, Types', Build
  PROVE  Here' = Move(Here)
<1>1. PICK x \in Place : x = Here
  BY HereHolds DEF HereTyped
<1>2. /\ x.read = read /\ x.readErr = readErr /\ x.stage = "idle" /\ x.queue = queue /\ x.queue # <<>>
      /\ x.raw = raw /\ x.stage = stage /\ x.items = items /\ x.answered = answered
      /\ x.batchNo = batchNo /\ x.group = group /\ x.order = order
      /\ read' = read /\ readErr' = readErr /\ batchNo' = batchNo /\ group' = group /\ order' = order
      /\ queue' = <<>> /\ target # "firebase"
  BY <1>1, HereIs DEF Build
<1>3. Send(Select(x.queue, Translatable))
  BY <1>2 DEF Build
<1>4. PICK y \in Place : y = [x EXCEPT !.queue = <<>>]
  <2>1. <<>> \in Seq(File)
    OBVIOUS
  <2> QED BY <2>1 DEF Place
<1>5. /\ y.read = read' /\ y.readErr = readErr' /\ y.batchNo = batchNo' /\ y.queue = queue'
      /\ y.group = group' /\ y.order = order'
      /\ y.raw = raw /\ y.stage = stage /\ y.items = items /\ y.answered = answered
  BY <1>2, <1>4 DEF Place
<1>6. Here' = SentFrom(y, Select(x.queue, Translatable))
  BY <1>3, <1>5, SendsFrom
<1>7. Here' = Building(x)
  BY <1>4, <1>6 DEF Building
<1> QED BY <1>1, <1>2, <1>7 DEF Move

LEMMA TakeMoves ==
  ASSUME Types, Types', Take
  PROVE  Here' = Move(Here)
<1>1. PICK x \in Place : x = Here
  BY HereHolds DEF HereTyped
<1>2. /\ x.read = read /\ x.readErr = readErr /\ x.stage = "idle" /\ x.queue = queue /\ x.queue # <<>>
      /\ x.raw = raw /\ x.stage = stage /\ x.items = items /\ x.answered = answered
      /\ x.batchNo = batchNo /\ x.group = group /\ x.order = order
      /\ read' = read /\ readErr' = readErr /\ batchNo' = batchNo
      /\ queue' = Tail(x.queue) /\ target = "firebase"
  BY <1>1, HereIs DEF Take
<1>3. /\ ParamsAt(x) = ParamsOf[Head(queue)] /\ Grown(x) = Append(group[ParamsOf[Head(queue)]], Head(queue))
      /\ Full(x) = (Len(Append(group[ParamsOf[Head(queue)]], Head(queue))) = FlushSize)
  BY <1>2 DEF ParamsAt, Grown, Full
<1>4. CASE Head(x.queue) \in Translatable
  <2>1. /\ order' = IF ParamsAt(x) \in Range(order) THEN order ELSE Append(order, ParamsAt(x))
        /\ group' = [group EXCEPT ![ParamsAt(x)] = IF Full(x) THEN <<>> ELSE Grown(x)]
        /\ Send(IF Full(x) THEN Grown(x) ELSE <<>>)
    BY <1>2, <1>3, <1>4, Zenon DEF Take
  <2>2. PICK y \in Place : y = Grouping(x)
    <3>1. Grouping(x) = [x EXCEPT !.queue = queue', !.order = order', !.group = group']
      BY <1>2, <2>1 DEF Grouping
    <3> QED BY <3>1 DEF Types, PrepTypes, SendTypes, Place
  <2>3. /\ y.read = read' /\ y.readErr = readErr' /\ y.batchNo = batchNo' /\ y.queue = queue'
        /\ y.group = group' /\ y.order = order'
        /\ y.raw = raw /\ y.stage = stage /\ y.items = items /\ y.answered = answered
    BY <1>2, <2>1, <2>2 DEF Grouping, Place
  <2>4. Here' = SentFrom(y, IF Full(x) THEN Grown(x) ELSE <<>>)
    BY <2>1, <2>3, SendsFrom
  <2>5. Here' = Taking(x)
    BY <1>4, <2>2, <2>4 DEF Taking
  <2> QED BY <1>1, <1>2, <2>5 DEF Move
<1>5. CASE Head(x.queue) \notin Translatable
  <2>1. order' = order /\ group' = group /\ Send(<<>>)
    BY <1>2, <1>5 DEF Take
  <2>2. raw' = raw /\ stage' = stage /\ items' = items /\ answered' = answered
    BY <2>1 DEF Send
  <2>3. PICK z \in Place : z = [x EXCEPT !.queue = queue']
    BY DEF Types, PrepTypes, Place
  <2>4. /\ z.read = x.read /\ z.readErr = x.readErr /\ z.raw = x.raw /\ z.stage = x.stage
        /\ z.items = x.items /\ z.answered = x.answered /\ z.batchNo = x.batchNo /\ z.queue = queue'
        /\ z.group = x.group /\ z.order = x.order
    BY <2>3 DEF Place
  <2>5. Here' = z
    BY <1>2, <2>1, <2>2, <2>4, HereBecomes
  <2>6. Move(x) = Taking(x) /\ Taking(x) = z
    BY <1>2, <1>5, <2>3 DEF Move, Taking
  <2> QED BY <1>1, <2>5, <2>6
<1> QED BY <1>4, <1>5

LEMMA FlushRestMoves ==
  ASSUME Types, Types', Stations, FlushRest
  PROVE  Here' = Move(Here)
<1>1. PICK x \in Place : x = Here
  BY HereHolds DEF HereTyped
<1>2. readErr = "eof" /\ queue = <<>> /\ stage = "idle"
  BY DEF Stations, FlushRest, Importing
<1>3. /\ x.read = read /\ x.readErr = "eof" /\ x.stage = "idle" /\ x.queue = queue /\ x.queue = <<>>
      /\ x.readErr = readErr
      /\ x.raw = raw /\ x.stage = stage /\ x.items = items /\ x.answered = answered
      /\ x.batchNo = batchNo /\ x.group = group /\ x.order = order
      /\ read' = read /\ readErr' = readErr /\ batchNo' = batchNo /\ order' = order /\ queue' = queue
  BY <1>1, <1>2, HereIs DEF FlushRest
<1>4. NextGroup(x) = Head(Waiting)
  BY <1>3 DEF NextGroup, Waiting
<1>5. group' = [group EXCEPT ![NextGroup(x)] = <<>>] /\ Send(x.group[NextGroup(x)])
  BY <1>3, <1>4 DEF FlushRest
<1>6. PICK y \in Place : y = [x EXCEPT !.group = [x.group EXCEPT ![NextGroup(x)] = <<>>]]
  <2>1. [x EXCEPT !.group = group'] \in Place
    BY DEF Types, SendTypes, Place
  <2> QED BY <1>3, <1>5, <2>1
<1>7. /\ y.read = read' /\ y.readErr = readErr' /\ y.batchNo = batchNo' /\ y.queue = queue'
      /\ y.group = group' /\ y.order = order'
      /\ y.raw = raw /\ y.stage = stage /\ y.items = items /\ y.answered = answered
  BY <1>3, <1>5, <1>6 DEF Place
<1>8. Here' = SentFrom(y, x.group[NextGroup(x)])
  BY <1>5, <1>7, SendsFrom
<1>9. Here' = Emptying(x)
  BY <1>6, <1>8 DEF Emptying
<1> QED BY <1>1, <1>3, <1>9 DEF Move


\* No failure is ignored.
Firm == \A s \in ImportStrategies : refs[s] # "ignore"

\* The call c is one for the batch to be sent at x.
AskedAt(c, x) ==
  /\ x.stage # "idle" /\ c.items = Batch(x)
  /\ \E sc : c.id = <<sc, x.stage, x.batchNo[x.stage] + 1>>

\* A run is on the course, and every call of this run or an earlier one was made on it.
OnCourse ==
  Firm => /\ Importing => Here \in From(Beginning)
          /\ \A c \in calls : \E x \in From(Beginning) : AskedAt(c, x)

LEMMA BeginningHolds == Beginning \in Place
<1> <<>> \in Seq(File) /\ <<>> \in Seq(HashParams)
  OBVIOUS
<1> QED BY DEF Beginning, Place

\* Where a step leaves the run.
LEMMA StepMoves ==
  ASSUME ImportInv, ImportInv', Firm, ImportNext, Importing', Importing
  PROVE  Here' = Here \/ Here' = Move(Here)
<1>0. Types /\ Types' /\ Stations
  BY DEF ImportInv, Journey
<1>1. CASE Start \/ Refused \/ Cancel \/ Killed
  BY <1>1 DEF Start, Refused, Cancel, Killed, Importing, Here, prepVars, reader, sending
<1>2. CASE Interrupted \/ Turn \/ ReadEof \/ ReadBreaks
  BY <1>2 DEF Interrupted, Turn, ReadEof, ReadBreaks, Here, prepVars, sending
<1>3. CASE ReadBatch
  BY <1>0, <1>3, FillMoves DEF ReadBatch, importVars
<1>4. CASE HandlerCalled
  BY <1>0, <1>4, AnswerMoves DEF HandlerCalled, sending
<1>5. CASE HandlerRetried
  BY <1>5 DEF HandlerRetried, CallRetried, importVars, reader, Here
<1>6. CASE HandlerIgnored
  <2>1. stage \in ImportStrategies /\ refs[stage] = "ignore"
    BY <1>0, <1>6 DEF HandlerIgnored, FailureIgnored, Call, Posted, Types, PrepTypes
  <2> QED BY <2>1 DEF Firm
<1>7. CASE HandlerFailed
  BY <1>7 DEF HandlerFailed, Returns, Importing
<1>8. CASE Build \/ Take \/ FlushRest
  BY <1>0, <1>8, BuildMoves, TakeMoves, FlushRestMoves
<1>9. CASE ImportEnds \/ WriteReport \/ ImportAfter \/ ImportAfterFails \/ SaveReport
  BY <1>9 DEF ImportEnds, WriteReport, ImportAfter, ImportAfterFails, SaveReport, Importing
<1>10. CASE Post \/ PostFails \/ Flush \/ FlushRetried \/ FlushFails \/ CognitoFails \/ CreateRetried
  BY <1>10 DEF Post, PostFails, Flush, FlushRetried, FlushFails, CognitoFails, CreateRetried, reader,
               sending, Here
<1>11. CASE AdminCreateUser \/ UsernameExists \/ GetAndUpdate \/ AdminSetUserPassword
              \/ AdminDisableOrEnableUser \/ CognitoDone
  BY <1>11 DEF AdminCreateUser, UsernameExists, GetAndUpdate, AdminSetUserPassword,
               AdminDisableOrEnableUser, CognitoDone, Answered, reader, Here
<1> QED BY <1>1, <1>2, <1>3, <1>4, <1>5, <1>6, <1>7, <1>8, <1>9, <1>10, <1>11 DEF ImportNext, Runs

\* Which calls a step adds.
LEMMA CallsMade ==
  ASSUME ImportInv, ImportNext, NEW c \in calls', c \notin calls
  PROVE  Importing /\ AskedAt(c, Here)
<1>1. CASE HandlerCalled \/ HandlerRetried \/ HandlerIgnored \/ HandlerFailed
  <2>1. PICK ok \in BOOLEAN : Posted(ok)
    BY <1>1 DEF HandlerCalled, HandlerRetried, HandlerIgnored, HandlerFailed, HandlerAnswers, CallRetried,
                FailureIgnored, FailureFails, AnswerUnusable, Call
  <2>2. Importing
    BY <1>1 DEF HandlerCalled, HandlerRetried, HandlerIgnored, HandlerFailed, Importing
  <2>3. c = [id |-> <<scope, stage, batchNo[stage] + 1>>, items |-> Sent, answered |-> ok] /\ stage # "idle"
    BY <2>1 DEF Posted, EventID
  <2>4. Here.stage = stage /\ Here.items = items /\ Here.batchNo = batchNo
    BY DEF Here
  <2> QED BY <2>2, <2>3, <2>4 DEF AskedAt, Batch, Sent
<1>2. CASE ~(HandlerCalled \/ HandlerRetried \/ HandlerIgnored \/ HandlerFailed)
  <2>1. calls' = calls
    BY <1>2 DEF ImportNext, Runs, Start, Refused, Cancel, Killed, Interrupted, Turn, ReadBatch, Fill, Build,
       Take, ReadEof, FlushRest, ImportEnds, ReadBreaks, Post, PostFails, AdminCreateUser, UsernameExists,
       CreateRetried, GetAndUpdate, AdminSetUserPassword, AdminDisableOrEnableUser, CognitoDone, CognitoFails,
       Answered, Flush, FlushRetried, FlushFails, WriteReport, ImportAfter, ImportAfterFails, SaveReport,
       prepVars
  <2> QED BY <2>1
<1> QED BY <1>1, <1>2

LEMMA CourseKept ==
  ASSUME ImportInv, ImportInv', OnCourse, [Next]_allVars
  PROVE  OnCourse'
<1>1. /\ refs' = refs /\ drops' = drops /\ broken' = broken /\ target' = target
  BY DEF Next, allVars, vars, ImportNext, Runs, Start, Refused, Cancel, Killed, Interrupted, Turn, ReadBatch,
     Fill, Build, Take, ReadEof, FlushRest, ImportEnds, ReadBreaks, Post, PostFails, AdminCreateUser,
     UsernameExists, CreateRetried, GetAndUpdate, AdminSetUserPassword, AdminDisableOrEnableUser, CognitoDone,
     CognitoFails, Answered, Flush, FlushRetried, FlushFails, WriteReport, ImportAfter, ImportAfterFails,
     SaveReport, HandlerCalled, HandlerRetried, HandlerIgnored, HandlerFailed, HandlerAnswers, CallRetried,
     FailureIgnored, FailureFails, AnswerUnusable, Abandon, Diff, Checks, ReadUser, ReadLast, LookedUp,
     CheckUser, Compare, CompareIgnored, Count, DiffFails, prepVars, importVars, mapping, config
<1>2. From(Beginning)' = From(Beginning) /\ Firm' = Firm
  BY <1>1, SameCourse DEF Firm
<1>3. ASSUME NEW c, NEW x PROVE AskedAt(c, x)' = AskedAt(c, x)
  BY DEF AskedAt, Batch
<1>4. CASE ImportNext
  <2> SUFFICES ASSUME Firm PROVE (Importing' => Here' \in From(Beginning))
                                 /\ \A c \in calls' : \E x \in From(Beginning) : AskedAt(c, x)
    BY <1>2, <1>3 DEF OnCourse
  <2>1. Here' \in Place
    <3>1. Types'
      BY DEF ImportInv
    <3>2. HereTyped'
      BY <3>1, HereHolds, PTL
    <3> QED BY <3>2 DEF HereTyped
  <2>2. /\ From(Beginning) \in SUBSET Place /\ Beginning \in From(Beginning) /\ Closed(From(Beginning))
    BY BeginningHolds, FromIsLeast
  <2>3. ASSUME Importing', Importing PROVE Here' \in From(Beginning)
    <3>1. Here \in From(Beginning)
      BY <2>3 DEF OnCourse
    <3>2. Here' = Here \/ Here' = Move(Here)
      BY <1>4, <2>3, StepMoves
    <3> QED BY <2>1, <2>2, <3>1, <3>2 DEF Closed
  <2>4. ASSUME Importing', ~Importing PROVE Here' = Beginning
    <3>1. Start
      BY <1>4, <2>4 DEF ImportNext, Runs, Importing, Refused, Cancel, Killed, Interrupted, Turn, ReadBatch,
         Build, Take, ReadEof, FlushRest, ImportEnds, ReadBreaks, Post, PostFails, AdminCreateUser,
         UsernameExists, CreateRetried, GetAndUpdate, AdminSetUserPassword, AdminDisableOrEnableUser,
         CognitoDone, CognitoFails, CognitoAt, Sends, Flush, FlushRetried, FlushFails, WriteReport,
         ImportAfter, ImportAfterFails, SaveReport, HandlerCalled, HandlerRetried, HandlerIgnored,
         HandlerFailed, Returns
    <3> QED BY <3>1 DEF Start, PrepReset, Here, Beginning
  <2>5. ASSUME NEW c \in calls' PROVE \E x \in From(Beginning) : AskedAt(c, x)
    BY <1>4, <2>5, CallsMade DEF OnCourse
  <2> QED BY <2>2, <2>3, <2>4, <2>5
<1>5. CASE ~ImportNext
  <2>1. Importing' = Importing /\ calls' = calls /\ (Here' = Here)
    BY <1>5 DEF Next, allVars, vars, Diff, Checks, ReadUser, ReadLast, LookedUp, CheckUser, Compare,
       CompareIgnored, Count, DiffFails, prepVars, importVars, reader, Importing, Here
  <2> QED BY <1>2, <1>3, <2>1 DEF OnCourse
<1> QED BY <1>4, <1>5

\* In every run, of a job or not, an event ID is of the users it was of before: no
\* restart, retry or cancellation has a handler asked about others under the same ID.
THEOREM IDsTellUsers == Spec => []SameIDSameUsers
<1>1. Init => OnCourse
  BY DEF Init, OnCourse, Importing
<1>2. ImportInv /\ ImportInv' /\ OnCourse /\ [Next]_allVars => OnCourse'
  BY CourseKept
<1>3. ASSUME OnCourse PROVE SameIDSameUsers
  <2> SUFFICES ASSUME Firm, NEW c \in calls, NEW d \in calls, c.id = d.id PROVE c.items = d.items
    BY DEF SameIDSameUsers, Firm
  <2>1. PICK x \in From(Beginning) : AskedAt(c, x)
    BY <1>3 DEF OnCourse
  <2>2. PICK y \in From(Beginning) : AskedAt(d, y)
    BY <1>3 DEF OnCourse
  <2>3. x.stage # "idle" /\ y.stage = x.stage /\ x.batchNo[x.stage] + 1 = y.batchNo[y.stage] + 1
    <3>1. PICK sc : c.id = <<sc, x.stage, x.batchNo[x.stage] + 1>>
      BY <2>1 DEF AskedAt
    <3>2. PICK sd : d.id = <<sd, y.stage, y.batchNo[y.stage] + 1>>
      BY <2>2 DEF AskedAt
    <3>3. c.id[2] = x.stage /\ c.id[3] = x.batchNo[x.stage] + 1
      BY <3>1
    <3>4. d.id[2] = y.stage /\ d.id[3] = y.batchNo[y.stage] + 1
      BY <3>2
    <3> QED BY <2>1, <3>3, <3>4, Zenon DEF AskedAt
  <2>4. x.batchNo[x.stage] = y.batchNo[x.stage]
    <3>1. x \in Place /\ y \in Place
      BY BeginningHolds, FromIsLeast
    <3>2. x.batchNo[x.stage] \in Nat /\ y.batchNo[x.stage] \in Nat
      BY <2>3, <3>1 DEF Place
    <3> QED BY <2>3, <3>2
  <2>5. x = y
    BY <2>3, <2>4, BeginningHolds, NumbersTell
  <2> QED BY <2>1, <2>2, <2>5 DEF AskedAt
<1> QED BY <1>1, <1>2, <1>3, ImportsAccountForAll, PTL DEF Spec

=============================================================================
