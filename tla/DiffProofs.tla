----------------------------- MODULE DiffProofs -----------------------------
(***************************************************************************)
(* Proofs about the diff of Reconcile, on what ImportInv says of the       *)
(* import before it and of its report.                                     *)
(***************************************************************************)
EXTENDS ImportProofs

-----------------------------------------------------------------------------
(* The inductive invariant. *)

Finds == {"noid", "missing", "drift", "same"}

VerifyTypes ==
  /\ vpc \in {"off", "read", "lookup", "check", "count", "over", "failed"} /\ vread \in 0..Readable
  /\ vbatch \in Seq(File) /\ found \in Seq(Finds)
  /\ DOMAIN diff = {"source", "target", "noid", "missing", "drift", "skipped"}
  /\ diff.source \in Nat /\ diff.target \in Nat
  /\ diff.noid \in Seq(File) /\ diff.missing \in Seq(File)
  /\ diff.drift \in Seq(File) /\ diff.skipped \in Seq(File)

\* Nothing is looked up before the diff, nor imported after it begins.  A batch that
\* is not full is the file's last.
Course ==
  /\ vpc = "off" => vread = 0 /\ vbatch = <<>> /\ found = <<>> /\ diff = NoDiff
  /\ vpc # "off" => pc = "idle" /\ (withReport => file # NoReport)
  /\ vpc \in {"lookup", "check", "count"} /\ Len(vbatch) < VBatch => vread = N
  /\ vpc \in {"read", "lookup"} => found = <<>>
  /\ Len(found) <= Len(vbatch)
  /\ vpc = "count" => Len(found) = Len(vbatch)
  /\ vpc = "over" => vread = N /\ vbatch = <<>>

\* Each user read is in the batch or under one heading.
Headed(u) ==
  Times(diff.skipped, {u}) + Times(diff.noid, {u}) + Times(diff.missing, {u}) + Times(diff.drift, {u})
Tally ==
  /\ diff.source + Len(diff.skipped) + Len(vbatch) = vread
  /\ diff.target + Len(diff.noid) + Len(diff.missing) = diff.source
  /\ \A i, j \in DOMAIN vbatch : vbatch[i] = vbatch[j] => i = j
  /\ \A u \in File : Times(vbatch, {u}) + Headed(u) <= IF u <= vread THEN 1 ELSE 0

\* What is found of a user is so, none being skipped.
Missed(u) == ~dir[u].known /\ u \notin NotImported
Drifted(u) == dir[u].enabled = (u \in Blocked)
Grounded ==
  /\ \A i \in DOMAIN vbatch : vbatch[i] \notin NotImported
  /\ \A i \in DOMAIN found : /\ found[i] = "missing" => Missed(vbatch[i])
                             /\ found[i] = "drift" => Drifted(vbatch[i])
  /\ \A u \in Range(diff.missing) : Missed(u)
  /\ \A u \in Range(diff.drift) : Drifted(u)

VerifyInv == VerifyTypes /\ Course /\ Tally /\ Grounded

-----------------------------------------------------------------------------
(* What is found of a batch, put under its headings. *)

LEMMA TimesAll ==
  ASSUME NEW T, NEW s \in Seq(T), NEW C, T \subseteq C
  PROVE  Times(s, C) = Len(s)
<1>1. {i \in DOMAIN s : s[i] \in C} = 1..Len(s) /\ Len(s) \in Nat
  OBVIOUS
<1>2. Cardinality(1..Len(s)) = Len(s)
  <2>1. PICK n \in Nat : n = Len(s)
    BY <1>1
  <2>2. Cardinality(1..n) = IF 1 > n THEN 0 ELSE n - 1 + 1
    BY FS_Interval
  <2>3. Cardinality(1..n) = n
    BY <2>2
  <2> QED BY <2>1, <2>3
<1> QED BY <1>1, <1>2 DEF Times

LEMMA Selected ==
  \A s \in Seq(File) : \A S :
    /\ Select(s, S) \in Seq(File) /\ Len(Select(s, S)) = Times(s, S)
    /\ Range(Select(s, S)) = Range(s) \cap S
    /\ \A C : Times(Select(s, S), C) = Times(s, S \cap C)
<1> SUFFICES ASSUME NEW s \in Seq(File), NEW S
             PROVE  /\ Select(s, S) \in Seq(File) /\ Len(Select(s, S)) = Times(s, S)
                    /\ Range(Select(s, S)) = Range(s) \cap S
                    /\ \A C : Times(Select(s, S), C) = Times(s, S \cap C)
  OBVIOUS
<1>1. Select(s, S) \in Seq(File) /\ Range(Select(s, S)) = Range(s) \cap S
  BY SelectType
<1>2. \A C : Times(Select(s, S), C) = Times(s, S \cap C)
  BY SelectTimes
<1>3. Times(Select(s, S), File) = Len(Select(s, S))
  BY <1>1, TimesAll
<1>4. Times(s, S \cap File) = Times(s, S)
  <2>1. {i \in DOMAIN s : s[i] \in S \cap File} = {i \in DOMAIN s : s[i] \in S}
    OBVIOUS
  <2> QED BY <2>1 DEF Times
<1> QED BY <1>1, <1>2, <1>3, <1>4

\* A user of a batch of different ones is under the heading of what was found of it.
LEMMA HeadingOf ==
  ASSUME VerifyTypes, Tally, Len(found) = Len(vbatch), NEW x \in Finds
  PROVE  /\ Of(x) \in Seq(File) /\ Len(Of(x)) = Times(found, {x})
         /\ \A u \in Range(Of(x)) : \E i \in DOMAIN vbatch : vbatch[i] = u /\ found[i] = x
         /\ \A u \in File : Times(Of(x), {u}) = IF u \in Range(Of(x)) THEN Times(vbatch, {u}) ELSE 0
<1>1. PICK S : S = {vbatch[i] : i \in {j \in DOMAIN vbatch : found[j] = x}}
  OBVIOUS
<1>2. PICK v \in Seq(File), f \in Seq(Finds), o \in {Of(x)} : v = vbatch /\ f = found
  BY DEF VerifyTypes
<1>3. o = Select(v, S)
  BY <1>1, <1>2 DEF Of
<1>4. /\ o \in Seq(File) /\ Len(o) = Times(v, S) /\ Range(o) = Range(v) \cap S
      /\ \A C : Times(o, C) = Times(v, S \cap C)
  BY <1>2, <1>3, Selected
<1>5. DOMAIN v = DOMAIN f
  BY <1>2
<1>6. {i \in DOMAIN v : v[i] \in S} = {i \in DOMAIN f : f[i] \in {x}}
  BY <1>1, <1>2, <1>5 DEF Tally
<1>7. Len(o) = Times(f, {x})
  BY <1>4, <1>6 DEF Times
<1>8. \A u \in Range(o) : \E i \in DOMAIN v : v[i] = u /\ f[i] = x
  BY <1>1, <1>2, <1>4
<1>9. ASSUME NEW u \in File
      PROVE  Times(o, {u}) = IF u \in Range(o) THEN Times(v, {u}) ELSE 0
  <2>1. Times(o, {u}) = Times(v, S \cap {u})
    BY <1>4
  <2>2. CASE u \in Range(o)
    <3>1. S \cap {u} = {u}
      BY <1>4, <2>2
    <3>2. Times(o, {u}) = Times(v, {u})
      BY <2>1, <3>1, Zenon
    <3> QED BY <2>2, <3>2
  <2>3. CASE u \notin Range(o)
    <3>1. Range(o) \cap {u} = {}
      BY <2>3
    <3>2. Times(o, {u}) = 0
      BY <1>4, <3>1, TimesNone
    <3> QED BY <2>3, <3>2
  <2> QED BY <2>2, <2>3
<1> QED BY <1>2, <1>4, <1>7, <1>8, <1>9

\* Every one of a batch is somewhere: with no identifier, missing, or present.
LEMMA FoundInAll ==
  ASSUME NEW f \in Seq(Finds)
  PROVE  Len(f) = Times(f, {"noid"}) + Times(f, {"missing"}) + Times(f, {"drift", "same"})
<1>1. PICK a, b, c, bc, all :
        /\ a = {"noid"} /\ b = {"missing"} /\ c = {"drift", "same"}
        /\ bc = b \cup c /\ all = a \cup bc
  OBVIOUS
<1>2. a \cap bc = {} /\ b \cap c = {} /\ Finds \subseteq all
  BY <1>1 DEF Finds
<1>3. Times(f, all) = Times(f, a) + Times(f, bc) /\ Times(f, bc) = Times(f, b) + Times(f, c)
  <2>1. Times(f, all) = Times(f, a) + Times(f, bc)
    BY <1>1, <1>2, TimesSplit
  <2>2. Times(f, bc) = Times(f, b) + Times(f, c)
    BY <1>1, <1>2, TimesSplit
  <2> QED BY <2>1, <2>2
<1>4. Times(f, all) = Len(f)
  BY <1>2, TimesAll
<1>5. Times(f, a) \in Nat /\ Times(f, b) \in Nat /\ Times(f, c) \in Nat
  BY TimesFinite
<1>6. Len(f) = Times(f, a) + Times(f, b) + Times(f, c)
  BY <1>3, <1>4, <1>5
<1> QED BY <1>1, <1>6, Zenon

-----------------------------------------------------------------------------
(* The steps of a diff. *)

LEMMA CountKeepsTally ==
  ASSUME VerifyTypes, Course, Tally, Count
  PROVE  VerifyTypes' /\ Tally'
<1>1. PICK no, mi, dr, p :
        /\ no = Of("noid") /\ mi = Of("missing") /\ dr = Of("drift")
        /\ p = Cardinality({i \in DOMAIN found : Present(found[i])})
  OBVIOUS
<1>2. Len(found) = Len(vbatch) /\ vread' = vread /\ vbatch' = <<>> /\ found' = <<>>
      /\ vpc' \in {"over", "read"} /\ UNCHANGED broken
  BY DEF Count, Course, vars, prepVars
<1>3. "noid" \in Finds /\ "missing" \in Finds /\ "drift" \in Finds
  BY DEF Finds
<1>4. /\ diff'.source = diff.source + Len(vbatch) /\ diff'.target = diff.target + p
      /\ diff'.skipped = diff.skipped /\ DOMAIN diff' = DOMAIN diff
  BY <1>1 DEF Count, VerifyTypes
<1>5. /\ diff'.noid = diff.noid \o no /\ diff'.missing = diff.missing \o mi
      /\ diff'.drift = diff.drift \o dr
  BY <1>1 DEF Count, VerifyTypes
<1>6. /\ no \in Seq(File) /\ mi \in Seq(File) /\ dr \in Seq(File)
      /\ Len(no) = Times(found, {"noid"}) /\ Len(mi) = Times(found, {"missing"})
  BY <1>1, <1>2, <1>3, HeadingOf
<1>7. p \in Nat /\ Len(vbatch) = Len(no) + Len(mi) + p
  <2>1. p = Times(found, {"drift", "same"})
    BY <1>1 DEF Present, Times
  <2>2. p \in Nat
    BY <2>1, TimesFinite DEF VerifyTypes
  <2> QED BY <1>2, <1>6, <2>1, <2>2, FoundInAll DEF VerifyTypes
<1>8. /\ diff'.noid \in Seq(File) /\ diff'.missing \in Seq(File) /\ diff'.drift \in Seq(File)
      /\ Len(diff'.noid) = Len(diff.noid) + Len(no) /\ Len(diff'.missing) = Len(diff.missing) + Len(mi)
  <2>1. \A s, x \in Seq(File) : s \o x \in Seq(File) /\ Len(s \o x) = Len(s) + Len(x)
    OBVIOUS
  <2> QED BY <1>5, <1>6, <2>1 DEF VerifyTypes
<1>9. /\ diff.source \in Nat /\ diff.target \in Nat /\ Len(vbatch) \in Nat /\ Len(no) \in Nat
      /\ Len(mi) \in Nat /\ Len(diff.noid) \in Nat /\ Len(diff.missing) \in Nat
      /\ Len(diff.skipped) \in Nat
  BY <1>6 DEF VerifyTypes
<1>10. VerifyTypes'
  <2>1. diff'.source \in Nat /\ diff'.target \in Nat
    BY <1>4, <1>7, <1>9
  <2>2. <<>> \in Seq(File) /\ <<>> \in Seq(Finds)
    OBVIOUS
  <2> QED BY <1>2, <1>4, <1>8, <2>1, <2>2 DEF VerifyTypes, Readable
<1>11. /\ diff'.source + Len(diff'.skipped) + Len(vbatch') = vread'
       /\ diff'.target + Len(diff'.noid) + Len(diff'.missing) = diff'.source
  <2>1. Len(vbatch') = 0
    BY <1>2
  <2>2. diff.source + Len(diff.skipped) + Len(vbatch) = vread
        /\ diff.target + Len(diff.noid) + Len(diff.missing) = diff.source
    BY DEF Tally
  <2>3. diff'.source + Len(diff'.skipped) + Len(vbatch') = vread'
    <3>1. (diff.source + Len(vbatch)) + Len(diff.skipped) + 0 = diff.source + Len(diff.skipped) + Len(vbatch)
      BY <1>9
    <3> QED BY <1>2, <1>4, <2>1, <2>2, <3>1, Zenon
  <2>4. diff'.target + Len(diff'.noid) + Len(diff'.missing) = diff'.source
    <3>1. (diff.target + p) + (Len(diff.noid) + Len(no)) + (Len(diff.missing) + Len(mi))
            = diff.source + Len(vbatch)
      BY <1>7, <1>9, <2>2
    <3> QED BY <1>4, <1>8, <3>1, Zenon
  <2> QED BY <2>3, <2>4
<1>12. ASSUME NEW u \in File
       PROVE  Times(vbatch', {u}) + Headed(u)' <= IF u <= vread' THEN 1 ELSE 0
  <2>1. PICK v \in Nat, h \in Nat, a \in Nat, m \in Nat, d \in Nat, tno \in Nat, tmi \in Nat, tdr \in Nat :
          /\ v = Times(vbatch, {u}) /\ h = Times(diff.skipped, {u}) /\ a = Times(diff.noid, {u})
          /\ m = Times(diff.missing, {u}) /\ d = Times(diff.drift, {u})
          /\ tno = Times(no, {u}) /\ tmi = Times(mi, {u}) /\ tdr = Times(dr, {u})
    BY <1>6, Counts DEF VerifyTypes
  <2>2. Headed(u) = h + a + m + d
    BY <2>1 DEF Headed
  <2>3. Headed(u)' = h + (a + tno) + (m + tmi) + (d + tdr)
    <3>1. \A s, x \in Seq(File) : Times(s \o x, {u}) = Times(s, {u}) + Times(x, {u})
      BY Counts
    <3>2. diff.noid \in Seq(File) /\ diff.missing \in Seq(File) /\ diff.drift \in Seq(File)
      BY DEF VerifyTypes
    <3>3. /\ Times(diff.noid \o no, {u}) = a + tno /\ Times(diff.missing \o mi, {u}) = m + tmi
          /\ Times(diff.drift \o dr, {u}) = d + tdr
      BY <1>6, <2>1, <3>1, <3>2
    <3>4. /\ Times(diff'.noid, {u}) = a + tno /\ Times(diff'.missing, {u}) = m + tmi
          /\ Times(diff'.drift, {u}) = d + tdr /\ Times(diff'.skipped, {u}) = h
      BY <1>4, <1>5, <2>1, <3>3, Zenon
    <3> QED BY <3>4 DEF Headed
  <2>4. tno + tmi + tdr <= v
    <3>1. /\ tno = IF u \in Range(no) THEN v ELSE 0
          /\ tmi = IF u \in Range(mi) THEN v ELSE 0
          /\ tdr = IF u \in Range(dr) THEN v ELSE 0
      BY <1>1, <1>2, <1>3, <2>1, HeadingOf
    <3>2. /\ u \in Range(no) => \E i \in DOMAIN vbatch : vbatch[i] = u /\ found[i] = "noid"
          /\ u \in Range(mi) => \E i \in DOMAIN vbatch : vbatch[i] = u /\ found[i] = "missing"
          /\ u \in Range(dr) => \E i \in DOMAIN vbatch : vbatch[i] = u /\ found[i] = "drift"
      BY <1>1, <1>2, <1>3, HeadingOf
    <3>3. /\ ~ (u \in Range(no) /\ u \in Range(mi)) /\ ~ (u \in Range(no) /\ u \in Range(dr))
          /\ ~ (u \in Range(mi) /\ u \in Range(dr))
      BY <3>2 DEF Tally
    <3> QED BY <3>1, <3>3
  <2>5. v + (h + a + m + d) <= IF u <= vread THEN 1 ELSE 0
    BY <2>1, <2>2 DEF Tally
  <2>6. Times(vbatch', {u}) = 0
    BY <1>2, TimesEmpty
  <2> QED BY <1>2, <2>3, <2>4, <2>5, <2>6
<1>13. \A i, j \in DOMAIN vbatch' : vbatch'[i] = vbatch'[j] => i = j
  BY <1>2
<1> QED BY <1>10, <1>11, <1>12, <1>13 DEF Tally

\* While a diff goes on, the accounts, the file and the report stay as they are.
LEMMA GroundKept ==
  ASSUME UNCHANGED <<dir, file, withReport>>
  PROVE  NotImported' = NotImported /\ \A u : Missed(u)' = Missed(u) /\ Drifted(u)' = Drifted(u)
<1>1. NotImported' = NotImported
  BY DEF NotImported
<1> QED BY <1>1 DEF Missed, Drifted

LEMMA CountStep ==
  ASSUME VerifyInv, Count
  PROVE  VerifyInv'
<1>1. VerifyTypes' /\ Tally'
  BY CountKeepsTally DEF VerifyInv
<1>2. /\ UNCHANGED <<dir, file, withReport, pc, read, broken>> /\ vpc = "count" /\ Len(found) = Len(vbatch)
      /\ vbatch' = <<>> /\ found' = <<>> /\ vread' = vread
      /\ vpc' = IF Len(vbatch) < VBatch THEN "over" ELSE "read"
  BY DEF Count, VerifyInv, Course, vars, prepVars, importVars, options
<1>3. Course'
  BY <1>2 DEF VerifyInv, Course
<1>4. NotImported' = NotImported /\ \A u : Missed(u)' = Missed(u) /\ Drifted(u)' = Drifted(u)
  BY <1>2, GroundKept
<1>5. "missing" \in Finds /\ "drift" \in Finds
  BY DEF Finds
<1>6. PICK mi \in Seq(File), dr \in Seq(File) : mi = Of("missing") /\ dr = Of("drift")
  BY <1>2, <1>5, HeadingOf DEF VerifyInv
<1>7. diff'.missing = diff.missing \o mi /\ diff'.drift = diff.drift \o dr
  BY <1>6 DEF Count, VerifyInv, VerifyTypes
<1>8. /\ Range(diff'.missing) = Range(diff.missing) \cup Range(mi)
      /\ Range(diff'.drift) = Range(diff.drift) \cup Range(dr)
  BY <1>6, <1>7, RangeConcat DEF VerifyInv, VerifyTypes
<1>9. DOMAIN found = DOMAIN vbatch
  BY <1>2 DEF VerifyInv, VerifyTypes
<1>10. \A u \in Range(mi) : Missed(u)
  <2>1. \A u \in Range(mi) : \E i \in DOMAIN vbatch : vbatch[i] = u /\ found[i] = "missing"
    BY <1>2, <1>5, <1>6, HeadingOf DEF VerifyInv
  <2> QED BY <1>9, <2>1 DEF VerifyInv, Grounded
<1>11. \A u \in Range(dr) : Drifted(u)
  <2>1. \A u \in Range(dr) : \E i \in DOMAIN vbatch : vbatch[i] = u /\ found[i] = "drift"
    BY <1>2, <1>5, <1>6, HeadingOf DEF VerifyInv
  <2> QED BY <1>9, <2>1 DEF VerifyInv, Grounded
<1>12. Grounded'
  BY <1>2, <1>4, <1>8, <1>10, <1>11 DEF VerifyInv, Grounded
<1> QED BY <1>1, <1>3, <1>12 DEF VerifyInv

\* A user is read, as one to look up or one skipped on purpose.
LEMMA ReadUserStep ==
  ASSUME VerifyInv, PrepTypes, ReadUser
  PROVE  VerifyInv'
<1>1. /\ UNCHANGED <<dir, file, withReport, pc, broken, vrefs>> /\ vpc = "read" /\ vread < Readable
      /\ vread' = vread + 1 /\ found' = found /\ found = <<>>
  BY DEF ReadUser, VerifyInv, Course, vars, prepVars, importVars, options
<1>2. NotImported' = NotImported /\ \A u : Missed(u)' = Missed(u) /\ Drifted(u)' = Drifted(u)
  BY <1>1, GroundKept
<1>3. PICK r \in Nat : r = vread + 1
  BY DEF VerifyInv, VerifyTypes
<1>4. vread \in Nat /\ r \in File /\ r \in 0..Readable /\ Readable' = Readable /\ vread' = r
  BY <1>1, <1>3, PrepAssumption DEF VerifyInv, VerifyTypes, Readable, File, PrepTypes
<1>5. ASSUME NEW u \in File
      PROVE  Times(vbatch, {u}) + Headed(u) + (IF u = r THEN 1 ELSE 0) <= IF u <= r THEN 1 ELSE 0
  <2>1. Times(vbatch, {u}) \in Nat /\ Headed(u) \in Nat
    <3>1. /\ Times(diff.skipped, {u}) \in Nat /\ Times(diff.noid, {u}) \in Nat
          /\ Times(diff.missing, {u}) \in Nat /\ Times(diff.drift, {u}) \in Nat
          /\ Times(vbatch, {u}) \in Nat
      BY Counts DEF VerifyInv, VerifyTypes
    <3> QED BY <3>1 DEF Headed
  <2>2. Times(vbatch, {u}) + Headed(u) <= IF u <= vread THEN 1 ELSE 0
    BY DEF VerifyInv, Tally
  <2>3. u \in Nat
    BY DEF File
  <2> QED BY <1>3, <1>4, <2>1, <2>2, <2>3
<1>6. ASSUME NEW s \in Seq(File), NEW u \in File
      PROVE  Times(Append(s, r), {u}) = Times(s, {u}) + (IF u = r THEN 1 ELSE 0)
  <2>1. Times(Append(s, r), {u}) = Times(s, {u}) + (IF r \in {u} THEN 1 ELSE 0)
    BY <1>4, TimesAppend
  <2> QED BY <2>1
<1>7. CASE r \in NotImported
  <2>1. /\ diff' = [diff EXCEPT !.skipped = Append(@, r)] /\ vbatch' = vbatch /\ vpc' = "read"
    BY <1>1, <1>4, <1>7, <1>2 DEF ReadUser
  <2>2. /\ DOMAIN diff' = DOMAIN diff /\ diff'.source = diff.source /\ diff'.target = diff.target
        /\ diff'.noid = diff.noid /\ diff'.missing = diff.missing /\ diff'.drift = diff.drift
        /\ diff'.skipped = Append(diff.skipped, r)
    BY <2>1 DEF VerifyInv, VerifyTypes
  <2>3. Append(diff.skipped, r) \in Seq(File) /\ Len(Append(diff.skipped, r)) = Len(diff.skipped) + 1
    BY <1>4 DEF VerifyInv, VerifyTypes
  <2>4. VerifyTypes'
    BY <1>1, <1>4, <2>1, <2>2, <2>3 DEF VerifyInv, VerifyTypes
  <2>5. Course'
    BY <1>1, <2>1 DEF VerifyInv, Course
  <2>6. Tally'
    <3>1. diff.source + (Len(diff.skipped) + 1) + Len(vbatch) = vread + 1
      <4>1. diff.source \in Nat /\ Len(diff.skipped) \in Nat /\ Len(vbatch) \in Nat
        BY DEF VerifyInv, VerifyTypes
      <4>2. diff.source + Len(diff.skipped) + Len(vbatch) = vread
        BY DEF VerifyInv, Tally
      <4> QED BY <4>1, <4>2
    <3>2. diff'.source + Len(diff'.skipped) + Len(vbatch') = vread'
      BY <1>1, <2>1, <2>2, <2>3, <3>1, Zenon
    <3>3. diff'.target + Len(diff'.noid) + Len(diff'.missing) = diff'.source
      BY <2>2 DEF VerifyInv, Tally
    <3>4. ASSUME NEW u \in File
          PROVE  Times(vbatch', {u}) + Headed(u)' <= IF u <= vread' THEN 1 ELSE 0
      <4>1. PICK b \in Nat, h \in Nat, a \in Nat, m \in Nat, d \in Nat :
              /\ b = Times(vbatch, {u}) /\ h = Times(diff.skipped, {u}) /\ a = Times(diff.noid, {u})
              /\ m = Times(diff.missing, {u}) /\ d = Times(diff.drift, {u})
        BY Counts DEF VerifyInv, VerifyTypes
      <4>2. Times(diff'.skipped, {u}) = h + (IF u = r THEN 1 ELSE 0)
        <5>1. diff.skipped \in Seq(File)
          BY DEF VerifyInv, VerifyTypes
        <5>2. Times(Append(diff.skipped, r), {u}) = h + (IF u = r THEN 1 ELSE 0)
          BY <1>6, <4>1, <5>1
        <5> QED BY <2>2, <5>2, Zenon
      <4>3. Headed(u)' = h + (IF u = r THEN 1 ELSE 0) + a + m + d /\ Headed(u) = h + a + m + d
        BY <2>2, <4>1, <4>2 DEF Headed
      <4>4. b + (h + a + m + d) + (IF u = r THEN 1 ELSE 0) <= IF u <= r THEN 1 ELSE 0
        BY <1>5, <4>1, <4>3
      <4>5. b + (h + (IF u = r THEN 1 ELSE 0) + a + m + d) <= IF u <= r THEN 1 ELSE 0
        BY <4>4
      <4> QED BY <1>4, <2>1, <4>1, <4>3, <4>5
    <3>5. \A i, j \in DOMAIN vbatch' : vbatch'[i] = vbatch'[j] => i = j
      BY <2>1 DEF VerifyInv, Tally
    <3> QED BY <3>2, <3>3, <3>4, <3>5 DEF Tally
  <2>7. Grounded'
    BY <1>1, <1>2, <2>1, <2>2 DEF VerifyInv, Grounded
  <2> QED BY <2>4, <2>5, <2>6, <2>7 DEF VerifyInv
<1>8. CASE r \notin NotImported
  <2>1. /\ vbatch' = Append(vbatch, r) /\ diff' = diff
        /\ vpc' = IF Len(vbatch') = VBatch THEN Flushing(vbatch') ELSE "read"
    BY <1>1, <1>4, <1>8 DEF ReadUser
  <2>2. VBatch' = VBatch /\ vpc' \in {"read", "lookup", "check"}
        /\ (vpc' # "read" => Len(vbatch') = VBatch)
    BY <1>1, <2>1 DEF VBatch, VDelegated, Flushing
  <2>3. /\ vbatch \in Seq(File) /\ vbatch' \in Seq(File) /\ Len(vbatch') = Len(vbatch) + 1
        /\ vbatch'[Len(vbatch) + 1] = r /\ \A i \in DOMAIN vbatch : vbatch'[i] = vbatch[i]
        /\ DOMAIN vbatch' = DOMAIN vbatch \cup {Len(vbatch) + 1}
    BY <1>4, <2>1 DEF VerifyInv, VerifyTypes
  <2>4. VerifyTypes'
    BY <1>1, <1>4, <2>1, <2>2, <2>3 DEF VerifyInv, VerifyTypes
  <2>5. Course'
    <3>1. VBatch \in Nat
      BY VerifyAssumption DEF VBatch
    <3> QED BY <1>1, <2>1, <2>2, <2>3, <3>1 DEF VerifyInv, Course
  <2>6. r \notin Range(vbatch)
    <3>1. Times(vbatch, {r}) + Headed(r) + 1 <= 1
      BY <1>4, <1>5
    <3>2. Times(vbatch, {r}) \in Nat /\ Headed(r) \in Nat
      <4>1. /\ Times(diff.skipped, {r}) \in Nat /\ Times(diff.noid, {r}) \in Nat
            /\ Times(diff.missing, {r}) \in Nat /\ Times(diff.drift, {r}) \in Nat
            /\ Times(vbatch, {r}) \in Nat
        BY Counts DEF VerifyInv, VerifyTypes
      <4> QED BY <4>1 DEF Headed
    <3>3. Times(vbatch, {r}) = 0
      BY <3>1, <3>2
    <3>4. Range(vbatch) \cap {r} = {}
      BY <2>3, <3>3, TimesNone
    <3> QED BY <3>4
  <2>7. Tally'
    <3>1. diff.source + Len(diff.skipped) + (Len(vbatch) + 1) = vread + 1
      <4>1. PICK a \in Nat, b \in Nat, c \in Nat, n \in Nat :
              a = diff.source /\ b = Len(diff.skipped) /\ c = Len(vbatch) /\ n = vread
        BY DEF VerifyInv, VerifyTypes, PrepTypes
      <4>2. a + b + c = n
        BY <4>1, Zenon DEF VerifyInv, Tally
      <4>3. a + b + (c + 1) = n + 1
        BY <4>2
      <4> QED BY <4>1, <4>3, Zenon
    <3>2. diff'.source + Len(diff'.skipped) + Len(vbatch') = vread'
      BY <1>1, <2>1, <2>3, <3>1, Zenon
    <3>3. diff'.target + Len(diff'.noid) + Len(diff'.missing) = diff'.source
      BY <2>1 DEF VerifyInv, Tally
    <3>4. ASSUME NEW u \in File
          PROVE  Times(vbatch', {u}) + Headed(u)' <= IF u <= vread' THEN 1 ELSE 0
      <4>1. PICK b \in Nat : b = Times(vbatch, {u})
        BY <2>3, Counts
      <4>2. Times(vbatch', {u}) = b + (IF u = r THEN 1 ELSE 0)
        <5>1. Times(Append(vbatch, r), {u}) = b + (IF u = r THEN 1 ELSE 0)
          BY <1>6, <2>3, <4>1
        <5> QED BY <2>1, <5>1, Zenon
      <4>3. PICK h : h = Headed(u)
        OBVIOUS
      <4>4. Headed(u)' = h
        BY <2>1, <4>3 DEF Headed
      <4>5. h \in Nat
        <5>1. /\ Times(diff.skipped, {u}) \in Nat /\ Times(diff.noid, {u}) \in Nat
              /\ Times(diff.missing, {u}) \in Nat /\ Times(diff.drift, {u}) \in Nat
          BY Counts DEF VerifyInv, VerifyTypes
        <5> QED BY <4>3, <5>1 DEF Headed
      <4>6. b + h + (IF u = r THEN 1 ELSE 0) <= IF u <= r THEN 1 ELSE 0
        BY <1>5, <4>1, <4>3
      <4> QED BY <1>4, <4>2, <4>4, <4>5, <4>6
    <3>5. \A i, j \in DOMAIN vbatch' : vbatch'[i] = vbatch'[j] => i = j
      <4>1. \A i \in DOMAIN vbatch : vbatch[i] # r
        BY <2>6 DEF Range
      <4> QED BY <2>3, <4>1 DEF VerifyInv, Tally
    <3> QED BY <3>2, <3>3, <3>4, <3>5 DEF Tally
  <2>8. Grounded'
    <3>1. \A i \in DOMAIN vbatch' : vbatch'[i] \notin NotImported
      BY <1>8, <2>3 DEF VerifyInv, Grounded
    <3> QED BY <1>1, <1>2, <2>1, <3>1 DEF VerifyInv, Grounded
  <2> QED BY <2>4, <2>5, <2>7, <2>8 DEF VerifyInv
<1> QED BY <1>7, <1>8

\* One of the batch is looked up.
LEMMA CheckUserStep ==
  ASSUME VerifyInv, CheckUser
  PROVE  VerifyInv'
<1>1. PICK u, k : k = Len(found) + 1 /\ u = vbatch[k]
  OBVIOUS
<1>2. /\ UNCHANGED <<dir, file, withReport, pc, broken, vrefs, vread, vbatch, vpc, diff>> /\ vpc = "check"
      /\ Len(found) < Len(vbatch) /\ found' = Append(found, Check(u))
  BY <1>1 DEF CheckUser, vars, prepVars, importVars, options
<1>3. /\ found \in Seq(Finds) /\ vbatch \in Seq(File) /\ k \in DOMAIN vbatch /\ u \in File
      /\ Len(found) \in Nat /\ Len(vbatch) \in Nat
  BY <1>1, <1>2 DEF VerifyInv, VerifyTypes
<1>4. /\ Check(u) \in Finds
      /\ Check(u) = "missing" => ~dir[u].known
      /\ Check(u) = "drift" => Drifted(u)
  BY DEF Check, Finds, Drifted
<1>5. u \notin NotImported
  BY <1>1, <1>3 DEF VerifyInv, Grounded
<1>6. /\ found' \in Seq(Finds) /\ Len(found') = k /\ found'[k] = Check(u)
      /\ \A i \in DOMAIN found : found'[i] = found[i]
      /\ DOMAIN found' = DOMAIN found \cup {k}
  BY <1>1, <1>2, <1>3, <1>4
<1>7. NotImported' = NotImported /\ \A v : Missed(v)' = Missed(v) /\ Drifted(v)' = Drifted(v)
  BY <1>2, GroundKept
<1>8. VerifyTypes'
  BY <1>2, <1>6 DEF VerifyInv, VerifyTypes, Readable
<1>9. Course'
  <2>1. VBatch' = VBatch
    BY <1>2 DEF VBatch, VDelegated
  <2>2. Len(found') <= Len(vbatch)
    BY <1>1, <1>2, <1>3, <1>6
  <2> QED BY <1>2, <2>1, <2>2 DEF VerifyInv, Course
<1>10. Tally'
  BY <1>2 DEF VerifyInv, Tally, Headed
<1>11. Grounded'
  <2>1. \A i \in DOMAIN found' : /\ found'[i] = "missing" => Missed(vbatch[i])
                                 /\ found'[i] = "drift" => Drifted(vbatch[i])
    BY <1>1, <1>4, <1>5, <1>6 DEF VerifyInv, Grounded, Missed
  <2> QED BY <1>2, <1>7, <2>1 DEF VerifyInv, Grounded
<1> QED BY <1>8, <1>9, <1>10, <1>11 DEF VerifyInv

\* verify.compare says of those found what it does, or its failure is ignored.
LEMMA ComparedStep ==
  ASSUME VerifyInv, Compare \/ CompareIgnored
  PROVE  VerifyInv'
<1>1. /\ UNCHANGED <<dir, file, withReport, pc, broken, vrefs, vread, vbatch, diff>> /\ vpc = "check"
      /\ vpc' = "count" /\ Len(found) = Len(vbatch)
      /\ \/ found' = found
         \/ found' = [i \in DOMAIN found |-> IF Present(found[i]) THEN "same" ELSE found[i]]
  BY DEF Compare, CompareIgnored, Compared, mapping, vars, prepVars, importVars, options
<1>2. found \in Seq(Finds) /\ "same" \in Finds
  BY DEF VerifyInv, VerifyTypes, Finds
<1>3. /\ found' \in Seq(Finds) /\ Len(found') = Len(found) /\ DOMAIN found' = DOMAIN found
      /\ \A i \in DOMAIN found : found'[i] = found[i] \/ found'[i] = "same"
  <2>1. CASE found' = found
    BY <1>2, <2>1
  <2>2. CASE found' = [i \in DOMAIN found |-> IF Present(found[i]) THEN "same" ELSE found[i]]
    <3>1. Len(found) \in Nat /\ DOMAIN found = 1..Len(found) /\ \A i \in DOMAIN found : found[i] \in Finds
      BY <1>2
    <3>2. found' \in [1..Len(found) -> Finds]
      BY <1>2, <2>2, <3>1
    <3>3. \A i \in DOMAIN found : found'[i] = found[i] \/ found'[i] = "same"
      BY <2>2
    <3> QED BY <3>1, <3>2, <3>3
  <2> QED BY <1>1, <2>1, <2>2
<1>4. NotImported' = NotImported /\ \A v : Missed(v)' = Missed(v) /\ Drifted(v)' = Drifted(v)
  BY <1>1, GroundKept
<1>5. VerifyTypes'
  BY <1>1, <1>3 DEF VerifyInv, VerifyTypes, Readable
<1>6. Course'
  <2>1. VBatch' = VBatch
    BY <1>1 DEF VBatch, VDelegated
  <2>2. Len(found') <= Len(vbatch)
    BY <1>1, <1>3 DEF VerifyInv, Course
  <2> QED BY <1>1, <1>3, <2>1, <2>2 DEF VerifyInv, Course
<1>7. Tally'
  BY <1>1 DEF VerifyInv, Tally, Headed
<1>8. Grounded'
  BY <1>1, <1>3, <1>4 DEF VerifyInv, Grounded
<1> QED BY <1>5, <1>6, <1>7, <1>8 DEF VerifyInv

\* The other steps only move the diff on.
LEMMA MovesOn ==
  ASSUME VerifyInv, ReadLast \/ LookedUp \/ DiffFails
  PROVE  VerifyInv'
<1>1. /\ UNCHANGED <<dir, file, withReport, pc, broken, vrefs, vread, vbatch, found, diff>>
      /\ vpc # "off" /\ vpc' # "off" /\ vpc' # "count"
      /\ vpc' \in {"read", "lookup", "check", "over", "failed"}
      /\ vpc' = "lookup" => vpc = "read"
      /\ vpc' # "failed" => (vpc = "read" /\ vread = N) \/ (vpc = "lookup" /\ vpc' = "check")
      /\ vpc' = "over" => vpc = "read" /\ vbatch = <<>>
      /\ vpc' # "read"
  BY DEF ReadLast, LookedUp, DiffFails, Flushing, Readable, mapping, vars, prepVars, importVars, options
<1>2. NotImported' = NotImported /\ \A v : Missed(v)' = Missed(v) /\ Drifted(v)' = Drifted(v)
  BY <1>1, GroundKept
<1>3. VerifyTypes'
  BY <1>1 DEF VerifyInv, VerifyTypes, Readable
<1>4. Course'
  <2>1. VBatch' = VBatch
    BY <1>1 DEF VBatch, VDelegated
  <2> QED BY <1>1, <2>1 DEF VerifyInv, Course
<1>5. Tally'
  BY <1>1 DEF VerifyInv, Tally, Headed
<1>6. Grounded'
  BY <1>1, <1>2 DEF VerifyInv, Grounded
<1> QED BY <1>3, <1>4, <1>5, <1>6 DEF VerifyInv

\* Before the diff nothing has been looked up.
NothingYet ==
  /\ vpc \in {"off", "read"} /\ vread = 0 /\ vbatch = <<>> /\ found = <<>> /\ diff = NoDiff /\ PrepTypes
  /\ vpc # "off" => pc = "idle" /\ (withReport => file # NoReport)

LEMMA NothingFound == NothingYet => VerifyInv
<1> SUFFICES ASSUME NothingYet PROVE VerifyInv
  OBVIOUS
<1> USE DEF NothingYet
<1>1. /\ DOMAIN diff = {"source", "target", "noid", "missing", "drift", "skipped"}
      /\ diff.source = 0 /\ diff.target = 0 /\ diff.noid = <<>> /\ diff.missing = <<>>
      /\ diff.drift = <<>> /\ diff.skipped = <<>>
  BY DEF NoDiff
<1>2. 0 \in 0..Readable
  BY PrepAssumption DEF PrepTypes, Readable
<1>3. VerifyTypes
  BY <1>1, <1>2 DEF VerifyTypes
<1>4. Course
  BY DEF Course
<1>5. Tally
  <2>1. ASSUME NEW u \in File PROVE Times(vbatch, {u}) + Headed(u) <= IF u <= vread THEN 1 ELSE 0
    <3>1. Times(vbatch, {u}) = 0 /\ Headed(u) = 0 + 0 + 0 + 0
      BY <1>1, TimesEmpty DEF Headed
    <3> QED BY <3>1
  <2>2. Len(<<>>) = 0
    OBVIOUS
  <2> QED BY <1>1, <2>1, <2>2 DEF Tally
<1>6. Grounded
  <2>1. Range(<<>>) = {}
    BY DEF Range
  <2> QED BY <1>1, <2>1 DEF Grounded
<1> QED BY <1>3, <1>4, <1>5, <1>6 DEF VerifyInv

LEMMA VerifyStep ==
  ASSUME ImportInv, ImportInv', VerifyInv, [Next]_allVars
  PROVE  VerifyInv'
<1>1. PrepTypes /\ PrepTypes'
  BY DEF ImportInv, Types
<1>2. ASSUME ImportNext PROVE VerifyInv'
  <2>1. NothingYet'
    BY <1>1, <1>2 DEF ImportNext, verifyVars, VerifyInv, Course, NoDiff, NothingYet
  <2> QED BY <2>1, NothingFound, PTL
<1>3. ASSUME Diff PROVE VerifyInv'
  <2>1. NothingYet'
    BY <1>1, <1>3 DEF Diff, VerifyInv, Course, NoDiff, vars, importVars, options, NoReport, NothingYet
  <2> QED BY <2>1, NothingFound, PTL
<1>4. ASSUME Checks PROVE VerifyInv'
  BY <1>1, <1>4, ReadUserStep, CheckUserStep, ComparedStep, CountStep, MovesOn DEF Checks
<1>5. ASSUME UNCHANGED allVars PROVE VerifyInv'
  <2>1. UNCHANGED <<dir, file, withReport, pc, broken, vrefs, vread, vbatch, found, diff, vpc>>
    BY <1>5 DEF allVars, vars, importVars, prepVars, verifyVars, options
  <2>2. NotImported' = NotImported /\ \A v : Missed(v)' = Missed(v) /\ Drifted(v)' = Drifted(v)
    BY <2>1, GroundKept
  <2>3. VerifyTypes' /\ Tally' /\ Grounded'
    BY <2>1, <2>2 DEF VerifyInv, VerifyTypes, Readable, Tally, Headed, Grounded
  <2>4. Course'
    <3>1. VBatch' = VBatch
      BY <2>1 DEF VBatch, VDelegated
    <3> QED BY <2>1, <3>1 DEF VerifyInv, Course
  <2> QED BY <2>3, <2>4 DEF VerifyInv
<1> QED BY <1>2, <1>3, <1>4, <1>5 DEF Next

\* Through a diff every user read is in the batch or under one heading, the one what was
\* found of it, and the batches come to the whole file.
THEOREM DiffsCountAll == Spec => []VerifyInv
<1>1. Init => VerifyInv
  <2>1. Init => PrepTypes
    BY ImportStarts DEF ImportInv, Types
  <2> QED BY <2>1, NothingFound DEF Init, NothingYet
<1>2. ImportInv /\ ImportInv' /\ VerifyInv /\ [Next]_allVars => VerifyInv'
  BY VerifyStep
<1> QED BY <1>1, <1>2, ImportsAccountForAll, PTL DEF Spec

-----------------------------------------------------------------------------
(* What follows. *)

\* The state of the commands and of their environment is of its type.
THEOREM CommandTypes == Spec => []TypeOK
<1>1. ASSUME ImportInv, VerifyInv PROVE TypeOK
  <2>1. PrepTypes /\ SendTypes
    BY <1>1 DEF ImportInv, Types
  <2>2. Readable \in Nat /\ Readable <= N
    BY <2>1, PrepAssumption DEF PrepTypes, Readable
  <2>3. read \in 0..N /\ vread \in 0..N
    BY <1>1, <2>1, <2>2, PrepAssumption DEF PrepTypes, VerifyInv, VerifyTypes
  <2>4. \A s \in Seq(File) : Range(s) \subseteq File
    BY DEF Range
  <2>5. \A s \in {raw, items, queue, skipped, batch} : Range(s) \subseteq File
    BY <2>1, <2>4 DEF PrepTypes, SendTypes
  <2>6. \A r \in {report, file} :
          /\ Range(r.succeeded) \subseteq File
          /\ Range(r.failed) \cup Range(r.skipped) \subseteq File \X Codes
    BY <2>1, <2>4, CodedEntries DEF SendTypes, Shaped
  <2>7. vpc \in {"off", "read", "lookup", "check", "count", "over", "failed"}
    BY <1>1 DEF VerifyInv, VerifyTypes
  <2> QED BY <2>1, <2>3, <2>5, <2>6, <2>7 DEF PrepTypes, SendTypes, TypeOK
<1> QED BY <1>1, ImportsAccountForAll, DiffsCountAll, PTL

\* The diff of a whole file puts every user under one heading, once, for any size of its
\* batches: the last, partial one is not left out, nor one counted twice.
THEOREM DiffsCountEach == Spec => []DiffCountsEach
<1>1. ASSUME VerifyInv PROVE DiffCountsEach
  <2> SUFFICES ASSUME vpc = "over" PROVE DiffCountsEach
    BY DEF DiffCountsEach
  <2>1. vread = N /\ vbatch = <<>> /\ diff.source \in Nat /\ Len(diff.skipped) \in Nat
    BY <1>1 DEF VerifyInv, VerifyTypes, Course
  <2>2. diff.source + Len(diff.skipped) = N
    BY <1>1, <2>1 DEF VerifyInv, Tally
  <2>3. diff.target + Len(diff.noid) + Len(diff.missing) = diff.source
    BY <1>1 DEF VerifyInv, Tally
  <2>4. ASSUME NEW u \in File
        PROVE  Count1(u, diff.skipped \o diff.noid \o diff.missing \o diff.drift) <= 1
    <3>1. PICK s \in Seq(File), a \in Seq(File), m \in Seq(File), d \in Seq(File) :
            s = diff.skipped /\ a = diff.noid /\ m = diff.missing /\ d = diff.drift
      BY <1>1 DEF VerifyInv, VerifyTypes
    <3>2. \A x, y \in Seq(File) : x \o y \in Seq(File)
      OBVIOUS
    <3>3. \A x, y \in Seq(File) : Times(x \o y, {u}) = Times(x, {u}) + Times(y, {u})
      BY Counts
    <3>4. PICK sa, sam, all : sa = s \o a /\ sam = sa \o m /\ all = sam \o d
      OBVIOUS
    <3>5. sa \in Seq(File) /\ sam \in Seq(File) /\ all \in Seq(File)
      BY <3>2, <3>4, Zenon
    <3>6. /\ Times(sa, {u}) = Times(s, {u}) + Times(a, {u})
          /\ Times(sam, {u}) = Times(sa, {u}) + Times(m, {u})
          /\ Times(all, {u}) = Times(sam, {u}) + Times(d, {u})
      BY <3>3, <3>4, <3>5, Zenon
    <3>7. Times(all, {u}) = Headed(u)
      BY <3>1, <3>6 DEF Headed
    <3>8. Times(vbatch, {u}) = 0 /\ u <= N /\ Times(all, {u}) \in Nat
      BY <2>1, <3>5, Counts, TimesEmpty, PrepAssumption DEF File
    <3>9. Times(all, {u}) <= 1
      <4>1. Times(vbatch, {u}) + Headed(u) <= IF u <= vread THEN 1 ELSE 0
        BY <1>1 DEF VerifyInv, Tally
      <4> QED BY <2>1, <3>7, <3>8, <4>1
    <3>10. diff.skipped \o diff.noid \o diff.missing \o diff.drift = all
      BY <3>1, <3>4, Zenon
    <3> QED BY <3>9, <3>10, MentionsOf
  <2> QED BY <2>2, <2>3, <2>4 DEF DiffCountsEach
<1> QED BY <1>1, DiffsCountAll, PTL

\* A user the diff misses, or finds drifted, after an import that reported, is one the
\* report says has failed, or that the target already had; one import.user dropped is
\* not looked for.
THEOREM MissingAreExplained == Spec => []MissingIsExplained
<1>1. ASSUME ImportInv, VerifyInv PROVE MissingIsExplained
  <2> SUFFICES ASSUME vpc = "over", withReport PROVE MissingIsExplained
    BY DEF MissingIsExplained
  <2>1. file # NoReport /\ TrueReport(file) /\ Shaped(file)
    BY <1>1 DEF VerifyInv, Course, ImportInv, Accounts, Types, SendTypes
  <2>2. Range(diff.missing) \subseteq File /\ Range(diff.drift) \subseteq File
    BY <1>1 DEF VerifyInv, VerifyTypes, Range
  <2>3. ASSUME NEW u \in Range(diff.missing)
        PROVE  u \in File /\ (\E f \in Range(file.failed) : f[1] = u) /\ u \notin NotImported
    <3>1. u \in File /\ ~dir[u].known /\ u \notin NotImported
      BY <1>1, <2>2 DEF VerifyInv, Grounded, Missed
    <3>2. u \notin Range(file.succeeded)
      BY <2>1, <3>1, FinishedAccount DEF TrueReport
    <3>3. \A f \in Range(file.skipped) : f[1] # u
      <4>1. ASSUME NEW f \in Range(file.skipped), f[1] = u PROVE FALSE
        <5>1. f \in File \X Codes /\ f[2] \in {"EXISTS", "SKIPPED"}
          BY <2>1, CodedEntries DEF Shaped, TrueReport
        <5>2. f[2] # "EXISTS"
          BY <2>1, <3>1, <4>1 DEF TrueReport
        <5>3. f = <<u, "SKIPPED">>
          BY <4>1, <5>1, <5>2
        <5> QED BY <3>1, <5>3 DEF NotImported
      <4> QED BY <4>1
    <3>4. Reported(file, u) = 1
      BY <1>1, <2>1, <3>1 DEF ImportInv, Journey, Accounted
    <3>5. Times(file.succeeded, {u}) = 0
      <4>1. Range(file.succeeded) \cap {u} = {} /\ file.succeeded \in Seq(File)
        BY <2>1, <3>2 DEF Shaped
      <4> QED BY <4>1, TimesNone
    <3>6. Times(file.skipped, About(u)) = 0
      <4>1. file.skipped \in Seq(File \X Codes)
        BY <2>1 DEF Shaped, Coded
      <4>2. Range(file.skipped) \cap About(u) = {}
        BY <3>3 DEF About
      <4> QED BY <4>1, <4>2, TimesNone
    <3>7. Times(file.failed, About(u)) # 0
      <4>1. Times(file.failed, About(u)) \in Nat
        BY <2>1, CodedEntries DEF Shaped
      <4> QED BY <3>4, <3>5, <3>6, <4>1 DEF Reported
    <3>8. Range(file.failed) \cap About(u) # {}
      <4>1. file.failed \in Seq(File \X Codes)
        BY <2>1 DEF Shaped, Coded
      <4> QED BY <3>7, <4>1, TimesNone
    <3> QED BY <3>1, <3>8 DEF About
  <2>4. Range(diff.drift) \cap Range(file.succeeded) = {}
    <3> SUFFICES ASSUME NEW u \in Range(diff.drift), u \in Range(file.succeeded) PROVE FALSE
      OBVIOUS
    <3>1. Drifted(u) /\ dir[u] = Finished(u)
      BY <1>1, <2>1 DEF VerifyInv, Grounded, TrueReport
    <3>2. Finished(u).enabled = (u \notin Blocked)
      BY DEF Finished
    <3> QED BY <3>1, <3>2 DEF Drifted
  <2> QED BY <2>3, <2>4 DEF MissingIsExplained
<1> QED BY <1>1, ImportsAccountForAll, DiffsCountAll, PTL
=============================================================================
