---------------------------- MODULE ImportProofs ----------------------------
(***************************************************************************)
(* Proofs about the imports of UserImport, as Reconcile runs them, for     *)
(* every file, batch size, hash configuration, mapping and bound: the      *)
(* inductive invariant ImportInv, which every step of the imports and of   *)
(* their diffs keeps, and what follows from it.                            *)
(***************************************************************************)
EXTENDS Reconcile, FiniteSetTheorems, SequenceTheorems, NaturalsInduction,
        WellFoundedInduction, TLAPS

-----------------------------------------------------------------------------
(* Counting and selecting the elements of a sequence. *)

\* How many elements of s are in C.
Times(s, C) == Cardinality({i \in DOMAIN s : s[i] \in C})

\* A set of numbers that is not empty has a least one.
LEMMA Smallest == \A T \in SUBSET Nat : T # {} => \E m \in T : \A n \in T : m <= n
<1> SUFFICES ASSUME NEW T \in SUBSET Nat, T # {} PROVE \E m \in T : \A n \in T : m <= n
  OBVIOUS
<1>1. \E m \in T : \A n \in T : ~ (<<n, m>> \in OpToRel(<, Nat))
  BY WFMin, NatLessThanWellFounded
<1>2. PICK m \in T : \A n \in T : ~ (<<n, m>> \in OpToRel(<, Nat))
  BY <1>1
<1>3. \A n \in Nat : n < m => <<n, m>> \in OpToRel(<, Nat)
  BY Zenon DEF OpToRel
<1>4. \A n \in T : ~ (n < m)
  BY <1>2, <1>3
<1> QED BY <1>4

LEMMA TimesFinite ==
  ASSUME NEW T, NEW s \in Seq(T), NEW C
  PROVE  /\ IsFiniteSet({i \in DOMAIN s : s[i] \in C})
         /\ Times(s, C) \in Nat
<1>1. DOMAIN s = 1..Len(s) /\ Len(s) \in Nat
  OBVIOUS
<1>2. IsFiniteSet(1..Len(s))
  BY <1>1, FS_Interval
<1>3. IsFiniteSet({i \in DOMAIN s : s[i] \in C})
  BY <1>1, <1>2, FS_Subset
<1> QED BY <1>3, FS_CardinalityType DEF Times

LEMMA TimesEmpty == \A C : Times(<<>>, C) = 0
<1> TAKE C
<1>1. {i \in DOMAIN <<>> : (<<>>)[i] \in C} = {}
  OBVIOUS
<1> QED BY <1>1, FS_EmptySet DEF Times

LEMMA TimesAppend ==
  ASSUME NEW T, NEW s \in Seq(T), NEW e \in T, NEW C
  PROVE  Times(Append(s, e), C) = Times(s, C) + (IF e \in C THEN 1 ELSE 0)
<1> DEFINE old == {i \in DOMAIN s : s[i] \in C}
           new == {i \in DOMAIN Append(s, e) : Append(s, e)[i] \in C}
           n == Len(s) + 1
<1>1. /\ Len(s) \in Nat /\ DOMAIN s = 1..Len(s) /\ DOMAIN Append(s, e) = 1..n
      /\ Append(s, e)[n] = e /\ \A i \in 1..Len(s) : Append(s, e)[i] = s[i]
  OBVIOUS
<1>2. n \notin old
  BY <1>1
<1>3. IsFiniteSet(old) /\ Cardinality(old) \in Nat
  BY TimesFinite DEF Times
<1>6. Times(s, C) = Cardinality(old) /\ Times(Append(s, e), C) = Cardinality(new)
  BY DEF Times
<1>4. CASE e \in C
  <2>1. new = old \cup {n}
    BY <1>1, <1>4
  <2>2. Cardinality(new) = Cardinality(old) + 1
    BY <2>1, <1>2, <1>3, FS_AddElement
  <2> HIDE DEF old, new
  <2> QED BY <2>2, <1>4, <1>6
<1>5. CASE e \notin C
  <2>1. new = old
    BY <1>1, <1>5
  <2>2. Cardinality(new) = Cardinality(old) /\ Cardinality(old) \in Nat
    BY <2>1, <1>3
  <2> HIDE DEF old, new
  <2> QED BY <2>2, <1>5, <1>6
<1> QED BY <1>4, <1>5

LEMMA RangeAppend ==
  ASSUME NEW T, NEW s \in Seq(T), NEW e \in T
  PROVE  Range(Append(s, e)) = Range(s) \cup {e}
<1>1. /\ Len(s) \in Nat /\ DOMAIN s = 1..Len(s) /\ DOMAIN Append(s, e) = 1..Len(s) + 1
      /\ 1..Len(s) + 1 = (1..Len(s)) \cup {Len(s) + 1}
      /\ Append(s, e)[Len(s) + 1] = e /\ \A i \in 1..Len(s) : Append(s, e)[i] = s[i]
  OBVIOUS
<1> QED BY <1>1 DEF Range

\* f[i] are the first i elements of s that are in S.
Selects(f, s, S) ==
  /\ f[0] = <<>>
  /\ \A i \in 1..Len(s) : f[i] = IF s[i] \in S THEN Append(f[i - 1], s[i]) ELSE f[i - 1]

\* What Select takes of s, one element at a time.
LEMMA SelectSteps ==
  ASSUME NEW T, NEW s \in Seq(T), NEW S
  PROVE  \E f \in [0..Len(s) -> Seq(T)] : Selects(f, s, S) /\ Select(s, S) = f[Len(s)]
<1> DEFINE Steps(f, n) ==
             f = [i \in 0..n |-> IF i = 0 THEN <<>>
                                 ELSE IF s[i] \in S THEN Append(f[i - 1], s[i]) ELSE f[i - 1]]
           Missing == {n \in 0..Len(s) : ~ \E f : f \in [0..n -> Seq(T)] /\ Steps(f, n)}
<1>1. Missing = {}
  <2> SUFFICES ASSUME Missing # {} PROVE FALSE
    OBVIOUS
  <2>a. Missing \in SUBSET Nat
    OBVIOUS
  <2>1. PICK m \in Missing : \A n \in Missing : m <= n
    <3> HIDE DEF Missing
    <3> QED BY <2>a, Smallest
  <2>2. CASE m = 0
    <3>1. [i \in 0..0 |-> <<>>] \in [0..0 -> Seq(T)] /\ Steps([i \in 0..0 |-> <<>>], 0)
      OBVIOUS
    <3> QED BY <3>1, <2>1, <2>2
  <2>3. CASE m # 0
    <3>1. m - 1 \in 0..Len(s) /\ m \in 1..Len(s)
      BY <2>1, <2>3
    <3>a. m - 1 \notin Missing
      <4> HIDE DEF Missing
      <4> QED BY <3>1, <2>1
    <3>2. PICK g : g \in [0..m - 1 -> Seq(T)] /\ Steps(g, m - 1)
      <4> HIDE DEF Steps
      <4> QED BY <3>1, <3>a
    <3> DEFINE last == IF s[m] \in S THEN Append(g[m - 1], s[m]) ELSE g[m - 1]
               f == [i \in 0..m |-> IF i = m THEN last ELSE g[i]]
    <3>b. /\ m \in Nat /\ m # 0 /\ m - 1 \in 0..m - 1 /\ 0..m = (0..m - 1) \cup {m} /\ m \notin 0..m - 1
      BY <3>1
    <3>c. s[m] \in T /\ g[m - 1] \in Seq(T)
      BY <3>1, <3>2, <3>b
    <3>3. last \in Seq(T)
      BY <3>c
    <3>4. f \in [0..m -> Seq(T)]
      <4> HIDE DEF last
      <4> QED BY <3>b, <3>2, <3>3
    <3>d. \A i \in 0..m - 1 : g[i] = IF i = 0 THEN <<>>
                                     ELSE IF s[i] \in S THEN Append(g[i - 1], s[i]) ELSE g[i - 1]
      BY <3>2
    <3>e. \A i \in 0..m - 1 : i \in 0..m /\ i # m /\ (i # 0 => i - 1 \in 0..m /\ i - 1 # m)
      BY <3>b
    <3>f. f[m] = last /\ f[m - 1] = g[m - 1] /\ \A i \in 0..m : i # m => f[i] = g[i]
      BY <3>b
    <3> HIDE DEF f
    <3>5. \A i \in 0..m : f[i] = IF i = 0 THEN <<>>
                                 ELSE IF s[i] \in S THEN Append(f[i - 1], s[i]) ELSE f[i - 1]
      <4> TAKE i \in 0..m
      <4>1. CASE i = m
        BY <4>1, <3>f, <3>b
      <4>2. CASE i \in 0..m - 1
        BY <4>2, <3>d, <3>e, <3>f
      <4> QED BY <4>1, <4>2, <3>b
    <3>6. Steps(f, m)
      BY <3>4, <3>5
    <3> QED BY <3>4, <3>6, <2>1
  <2> QED BY <2>2, <2>3
<1>2. \E f : f \in [0..Len(s) -> Seq(T)] /\ Steps(f, Len(s))
  <2>1. Len(s) \in 0..Len(s)
    OBVIOUS
  <2> HIDE DEF Steps
  <2> QED BY <1>1, <2>1
<1>3. PICK g : g \in [0..Len(s) -> Seq(T)] /\ Steps(g, Len(s))
  BY <1>2
<1> DEFINE h == CHOOSE f : Steps(f, Len(s))
<1>4. Steps(h, Len(s))
  BY <1>3
<1>5. Select(s, S) = h[Len(s)]
  BY DEF Select
<1> HIDE DEF h
<1>6. h = g
  <2>1. DOMAIN h = 0..Len(s) /\ DOMAIN g = 0..Len(s)
    BY <1>3, <1>4
  <2> DEFINE differ == {i \in 0..Len(s) : h[i] # g[i]}
  <2>2. differ = {}
    <3> SUFFICES ASSUME differ # {} PROVE FALSE
      OBVIOUS
    <3>a. differ \in SUBSET Nat
      OBVIOUS
    <3>1. PICK i \in differ : \A j \in differ : i <= j
      <4> HIDE DEF differ
      <4> QED BY <3>a, Smallest
    <3>2. h[0] = <<>> /\ g[0] = <<>>
      BY <1>3, <1>4
    <3>3. i # 0 /\ i - 1 \in 0..Len(s) /\ i - 1 \notin differ
      BY <3>1, <3>2
    <3>4. h[i] = g[i]
      BY <3>3, <1>3, <1>4
    <3> QED BY <3>4, <3>1
  <2> QED BY <2>1, <2>2, <1>3, <1>4
<1>7. g[0] = <<>>
  BY <1>3
<1>8. ASSUME NEW i \in 1..Len(s)
      PROVE  g[i] = IF s[i] \in S THEN Append(g[i - 1], s[i]) ELSE g[i - 1]
  <2>1. i \in 0..Len(s) /\ i # 0
    OBVIOUS
  <2> QED BY <2>1, <1>3
<1> QED BY <1>3, <1>5, <1>6, <1>7, <1>8 DEF Selects

LEMMA SelectType ==
  ASSUME NEW T, NEW s \in Seq(T), NEW S
  PROVE  /\ Select(s, S) \in Seq(T)
         /\ Range(Select(s, S)) = Range(s) \cap S
<1>0. PICK f \in [0..Len(s) -> Seq(T)] : Selects(f, s, S) /\ Select(s, S) = f[Len(s)]
  BY SelectSteps
<1>1. /\ f[0] = <<>>
      /\ \A i \in 1..Len(s) : f[i] = IF s[i] \in S THEN Append(f[i - 1], s[i]) ELSE f[i - 1]
      /\ Select(s, S) = f[Len(s)]
  BY <1>0 DEF Selects
<1>2. Len(s) \in Nat /\ DOMAIN s = 1..Len(s)
  OBVIOUS
<1> DEFINE wrong == {i \in 0..Len(s) : Range(f[i]) # {s[j] : j \in 1..i} \cap S}
<1>3. wrong = {}
  <2> SUFFICES ASSUME wrong # {} PROVE FALSE
    OBVIOUS
  <2>1. wrong \in SUBSET Nat
    BY <1>2
  <2>2. PICK m \in wrong : \A i \in wrong : m <= i
    <3> HIDE DEF wrong
    <3> QED BY <2>1, Smallest
  <2>3. Range(f[0]) = {s[j] : j \in 1..0} \cap S
    BY <1>1 DEF Range
  <2>4. m # 0 /\ m \in 1..Len(s) /\ m - 1 \in 0..Len(s)
    BY <2>2, <2>3, <1>2
  <2>5. m - 1 \notin wrong
    <3> HIDE DEF wrong
    <3> QED BY <2>2, <2>4
  <2>6. Range(f[m - 1]) = {s[j] : j \in 1..m - 1} \cap S
    BY <2>4, <2>5
  <2>7. {s[j] : j \in 1..m} = {s[j] : j \in 1..m - 1} \cup {s[m]}
    <3>1. 1..m = (1..m - 1) \cup {m}
      BY <2>4
    <3> QED BY <3>1
  <2>8. f[m - 1] \in Seq(T) /\ s[m] \in T
    BY <1>2, <2>4
  <2>9. Range(Append(f[m - 1], s[m])) = Range(f[m - 1]) \cup {s[m]}
    BY <2>8, RangeAppend
  <2>10. Range(f[m]) = {s[j] : j \in 1..m} \cap S
    <3>1. CASE s[m] \in S
      BY <3>1, <1>1, <2>4, <2>6, <2>7, <2>9
    <3>2. CASE s[m] \notin S
      BY <3>2, <1>1, <2>4, <2>6, <2>7
    <3> QED BY <3>1, <3>2
  <2> QED BY <2>2, <2>10
<1>4. Range(f[Len(s)]) = {s[j] : j \in 1..Len(s)} \cap S
  <2>1. Len(s) \in 0..Len(s)
    BY <1>2
  <2> QED BY <2>1, <1>3
<1>5. Range(s) = {s[j] : j \in 1..Len(s)}
  BY <1>2 DEF Range
<1>6. Len(s) \in 0..Len(s)
  BY <1>2
<1> QED BY <1>1, <1>4, <1>5, <1>6

LEMMA SelectTimes ==
  ASSUME NEW T, NEW s \in Seq(T), NEW S, NEW C
  PROVE  Times(Select(s, S), C) = Times(s, S \cap C)
<1>0. PICK f \in [0..Len(s) -> Seq(T)] : Selects(f, s, S) /\ Select(s, S) = f[Len(s)]
  BY SelectSteps
<1>1. /\ f[0] = <<>>
      /\ \A i \in 1..Len(s) : f[i] = IF s[i] \in S THEN Append(f[i - 1], s[i]) ELSE f[i - 1]
      /\ Select(s, S) = f[Len(s)]
  BY <1>0 DEF Selects
<1>2. Len(s) \in Nat /\ DOMAIN s = 1..Len(s)
  OBVIOUS
<1> DEFINE chosen(i) == {j \in 1..i : s[j] \in S \cap C}
           wrong == {i \in 0..Len(s) : Times(f[i], C) # Cardinality(chosen(i))}
<1>3. wrong = {}
  <2> SUFFICES ASSUME wrong # {} PROVE FALSE
    OBVIOUS
  <2>1. wrong \in SUBSET Nat
    BY <1>2
  <2>2. PICK m \in wrong : \A i \in wrong : m <= i
    <3> HIDE DEF wrong
    <3> QED BY <2>1, Smallest
  <2>3. Times(f[0], C) = Cardinality(chosen(0))
    <3>1. chosen(0) = {}
      OBVIOUS
    <3> QED BY <3>1, <1>1, TimesEmpty, FS_EmptySet
  <2>4. m # 0 /\ m \in 1..Len(s) /\ m - 1 \in 0..Len(s) /\ m - 1 \in Nat
    <3> HIDE DEF chosen
    <3> QED BY <2>2, <2>3, <1>2
  <2>5. m - 1 \notin wrong
    <3> HIDE DEF wrong
    <3> QED BY <2>2, <2>4
  <2>6. Times(f[m - 1], C) = Cardinality(chosen(m - 1))
    BY <2>4, <2>5
  <2>7. f[m - 1] \in Seq(T) /\ s[m] \in T
    BY <1>2, <2>4
  <2>8. IsFiniteSet(1..m - 1)
    <3>1. 1 \in Int /\ m - 1 \in Int
      BY <2>4
    <3> QED BY <3>1, FS_Interval
  <2>9. IsFiniteSet(chosen(m - 1)) /\ Cardinality(chosen(m - 1)) \in Nat
    BY <2>8, FS_Subset, FS_CardinalityType
  <2>10. 1..m = (1..m - 1) \cup {m} /\ m \notin 1..m - 1
    BY <2>4
  <2>11. Cardinality(chosen(m)) = Cardinality(chosen(m - 1)) + (IF s[m] \in S \cap C THEN 1 ELSE 0)
    <3>1. CASE s[m] \in S \cap C
      <4>1. chosen(m) = chosen(m - 1) \cup {m} /\ m \notin chosen(m - 1)
        BY <2>10, <3>1
      <4> HIDE DEF chosen
      <4> QED BY <4>1, <2>9, <3>1, FS_AddElement
    <3>2. CASE s[m] \notin S \cap C
      <4>1. chosen(m) = chosen(m - 1)
        BY <2>10, <3>2
      <4> HIDE DEF chosen
      <4> QED BY <4>1, <2>9, <3>2
    <3> QED BY <3>1, <3>2
  <2>12. Times(f[m], C) = Times(f[m - 1], C) + (IF s[m] \in S \cap C THEN 1 ELSE 0)
    <3>1. Times(f[m - 1], C) \in Nat
      BY <2>7, TimesFinite
    <3>2. Times(Append(f[m - 1], s[m]), C) = Times(f[m - 1], C) + (IF s[m] \in C THEN 1 ELSE 0)
      BY <2>7, TimesAppend
    <3>3. f[m] = IF s[m] \in S THEN Append(f[m - 1], s[m]) ELSE f[m - 1]
      BY <1>1, <2>4
    <3> QED BY <3>1, <3>2, <3>3
  <2>13. Times(f[m], C) = Cardinality(chosen(m))
    <3> HIDE DEF chosen
    <3> QED BY <2>6, <2>11, <2>12
  <2> QED BY <2>2, <2>13
<1>4. Len(s) \in 0..Len(s)
  BY <1>2
<1>5. Times(f[Len(s)], C) = Cardinality(chosen(Len(s)))
  BY <1>3, <1>4
<1> QED BY <1>1, <1>2, <1>5 DEF Times

LEMMA TimesConcat ==
  ASSUME NEW T, NEW s \in Seq(T), NEW t \in Seq(T), NEW C
  PROVE  Times(s \o t, C) = Times(s, C) + Times(t, C)
<1> DEFINE n == Len(s)
           here(u) == {i \in DOMAIN u : u[i] \in C}
           moved == {i \in n + 1..n + Len(t) : i - n \in here(t)}
<1>1. /\ Len(s) \in Nat /\ Len(t) \in Nat /\ DOMAIN s = 1..Len(s) /\ DOMAIN t = 1..Len(t)
      /\ s \o t \in Seq(T) /\ DOMAIN (s \o t) = 1..Len(s) + Len(t)
      /\ \A i \in 1..Len(s) : (s \o t)[i] = s[i]
      /\ \A i \in Len(s) + 1..Len(s) + Len(t) : (s \o t)[i] = t[i - Len(s)]
  OBVIOUS
<1>2. here(s \o t) = here(s) \cup moved /\ here(s) \cap moved = {}
  BY <1>1
<1>3. IsFiniteSet(here(s)) /\ IsFiniteSet(here(t)) /\ IsFiniteSet(here(s \o t))
  BY <1>1, TimesFinite
<1>4. IsFiniteSet(moved) /\ Cardinality(moved) = Cardinality(here(t))
  <2> DEFINE f == [j \in here(t) |-> n + j]
  <2>1. \A j \in here(t) : j \in 1..Len(t)
    BY <1>1
  <2>2. f \in [here(t) -> moved]
    BY <1>1, <2>1
  <2>3. \A i, j \in here(t) : f[i] = f[j] => i = j
    BY <1>1, <2>1
  <2>4. \A i \in moved : i - n \in here(t) /\ f[i - n] = i
    BY <1>1
  <2> HIDE DEF f, here, moved
  <2>5. f \in Bijection(here(t), moved)
    BY <2>2, <2>3, <2>4 DEF Bijection, Injection, Surjection, IsInjective
  <2>6. ExistsBijection(here(t), moved)
    BY <2>5 DEF ExistsBijection
  <2> QED BY <2>6, <1>3, FS_Bijection
<1>5. /\ Times(s, C) = Cardinality(here(s)) /\ Times(t, C) = Cardinality(here(t))
      /\ Times(s \o t, C) = Cardinality(here(s \o t))
  BY DEF Times
<1> HIDE DEF here, moved
<1>6. Cardinality(here(s \o t)) = Cardinality(here(s)) + Cardinality(moved) - Cardinality(here(s) \cap moved)
  BY <1>2, <1>3, <1>4, FS_Union
<1>7. Cardinality(here(s)) \in Nat /\ Cardinality(moved) \in Nat
  BY <1>3, <1>4, FS_CardinalityType
<1>8. Cardinality(here(s) \cap moved) = 0
  BY <1>2, FS_EmptySet
<1> QED BY <1>4, <1>5, <1>6, <1>7, <1>8

LEMMA TimesSplit ==
  ASSUME NEW T, NEW s \in Seq(T), NEW A, NEW B, A \cap B = {}, NEW C, C = A \cup B
  PROVE  Times(s, C) = Times(s, A) + Times(s, B)
<1> DEFINE here(D) == {i \in DOMAIN s : s[i] \in D}
<1>1. here(C) = here(A) \cup here(B) /\ here(A) \cap here(B) = {}
  OBVIOUS
<1>2. /\ Times(s, C) = Cardinality(here(C)) /\ Times(s, A) = Cardinality(here(A))
      /\ Times(s, B) = Cardinality(here(B))
  BY DEF Times
<1>3. /\ IsFiniteSet(here(A)) /\ IsFiniteSet(here(B))
      /\ Times(s, A) \in Nat /\ Times(s, B) \in Nat
  BY TimesFinite
<1> HIDE DEF here
<1>4. Cardinality(here(C)) = Cardinality(here(A)) + Cardinality(here(B))
                              - Cardinality(here(A) \cap here(B))
  BY <1>1, <1>3, FS_Union
<1>5. Cardinality(here(A) \cap here(B)) = 0
  BY <1>1, FS_EmptySet
<1> QED BY <1>2, <1>3, <1>4, <1>5

LEMMA TimesNone ==
  ASSUME NEW T, NEW s \in Seq(T), NEW C
  PROVE  Times(s, C) = 0 <=> Range(s) \cap C = {}
<1>1. IsFiniteSet({i \in DOMAIN s : s[i] \in C})
  BY TimesFinite
<1>2. {i \in DOMAIN s : s[i] \in C} = {} <=> Range(s) \cap C = {}
  BY DEF Range
<1> QED BY <1>1, <1>2, FS_EmptySet DEF Times

LEMMA RangeConcat ==
  ASSUME NEW T, NEW s \in Seq(T), NEW t \in Seq(T)
  PROVE  Range(s \o t) = Range(s) \cup Range(t)
<1>1. /\ Len(s) \in Nat /\ Len(t) \in Nat /\ DOMAIN s = 1..Len(s) /\ DOMAIN t = 1..Len(t)
      /\ DOMAIN (s \o t) = 1..Len(s) + Len(t)
      /\ \A i \in 1..Len(s) : (s \o t)[i] = s[i]
      /\ \A i \in Len(s) + 1..Len(s) + Len(t) : (s \o t)[i] = t[i - Len(s)]
  OBVIOUS
<1>2. \A j \in 1..Len(t) : Len(s) + j \in Len(s) + 1..Len(s) + Len(t) /\ (s \o t)[Len(s) + j] = t[j]
  BY <1>1
<1>3. \A i \in 1..Len(s) + Len(t) : i \in 1..Len(s) \/ (i \in Len(s) + 1..Len(s) + Len(t) /\ i - Len(s) \in 1..Len(t))
  BY <1>1
<1>4. 1..Len(s) \subseteq 1..Len(s) + Len(t) /\ Len(s) + 1..Len(s) + Len(t) \subseteq 1..Len(s) + Len(t)
  BY <1>1
<1>5. Range(s \o t) \subseteq Range(s) \cup Range(t)
  BY <1>1, <1>3 DEF Range
<1>6. Range(s) \subseteq Range(s \o t) /\ Range(t) \subseteq Range(s \o t)
  <2>1. Range(s) \subseteq Range(s \o t)
    BY <1>1, <1>4 DEF Range
  <2>2. ASSUME NEW j \in 1..Len(t) PROVE t[j] \in Range(s \o t)
    <3>1. Len(s) + j \in DOMAIN (s \o t) /\ (s \o t)[Len(s) + j] = t[j]
      BY <1>1, <1>2, <1>4
    <3> QED BY <3>1 DEF Range
  <2>3. Range(t) \subseteq Range(s \o t)
    BY <2>2, <1>1 DEF Range
  <2> QED BY <2>1, <2>3
<1> QED BY <1>5, <1>6

LEMMA HeadFirst ==
  ASSUME NEW T, NEW s \in Seq(T), s # <<>>
  PROVE  /\ Head(s) \in T /\ Tail(s) \in Seq(T)
         /\ Range(s) = {Head(s)} \cup Range(Tail(s))
         /\ \A C : Times(s, C) = (IF Head(s) \in C THEN 1 ELSE 0) + Times(Tail(s), C)
<1>1. PICK x, t, e, one : x = Head(s) /\ t = Tail(s) /\ e = <<>> /\ one = <<Head(s)>>
  OBVIOUS
<1>2. x \in T /\ t \in Seq(T) /\ e \in Seq(T) /\ one \in Seq(T)
  BY <1>1
<1>3. s = one \o t
  BY <1>1
<1>4. one = Append(e, x)
  BY <1>1, <1>2
<1>5. Range(s) = Range(one) \cup Range(t)
  BY <1>2, <1>3, RangeConcat
<1>6. Range(one) = {x}
  BY <1>1 DEF Range
<1>7. ASSUME NEW C PROVE Times(s, C) = (IF x \in C THEN 1 ELSE 0) + Times(t, C)
  <2>1. Times(one, C) = Times(e, C) + (IF x \in C THEN 1 ELSE 0)
    BY <1>2, <1>4, TimesAppend
  <2>2. Times(s, C) = Times(one, C) + Times(t, C)
    BY <1>2, <1>3, TimesConcat
  <2>3. Times(t, C) \in Nat
    BY <1>2, TimesFinite
  <2>4. Times(e, C) = 0
    BY <1>1, TimesEmpty
  <2> QED BY <2>1, <2>2, <2>3, <2>4
<1> QED BY <1>1, <1>2, <1>5, <1>6, <1>7

-----------------------------------------------------------------------------
(* The inductive invariant. *)

Coded == Seq(File \X Codes)
Shaped(r) ==
  /\ DOMAIN r = {"succeeded", "failed", "skipped", "ids"}
  /\ r.succeeded \in Seq(File) /\ r.ids \subseteq File \cup {0}
  /\ r.failed \in Coded /\ r.skipped \in Coded

PrepTypes ==
  /\ refs \in [ImportStrategies -> OnFailure] /\ drops \subseteq File /\ broken \in 0..N
  /\ read \in 0..Readable /\ readErr \in {"none", "eof", "broken"}
  /\ raw \in Seq(File) /\ items \in Seq(File) /\ queue \in Seq(File) /\ skipped \in Seq(File)
  /\ stage \in ImportStrategies \cup {"idle"} /\ answered \subseteq File
  /\ applied \in [File -> SUBSET ImportStrategies] /\ batchNo \in [ImportStrategies -> Nat]

SendTypes ==
  /\ target \in Targets /\ onDuplicate \in {"fail", "skip", "upsert"} /\ job \in BOOLEAN
  /\ pc \in {"idle", "loop", "read", "payload", "send", "rest", "finish", "after", "save"}
  /\ call \in {"none", "get", "password", "enable", "end", "rest"}
  /\ batch \in Seq(File) /\ group \in [HashParams -> Seq(File)] /\ order \in Seq(HashParams)
  /\ dir \in [File -> Account] /\ before \in [File -> Account] /\ seen \in Account
  /\ Shaped(report) /\ Shaped(file)

Types == PrepTypes /\ SendTypes

\* Where the command is, and where users can be then.  A handler is asked while the
\* reader prepares a batch, with none prepared before, or about the payloads of one.
Preparing == stage \notin {"idle", Payload}

Stations ==
  Importing =>
    /\ pc = "payload" <=> stage = Payload
    /\ pc \in {"loop", "send", "rest"} => stage = "idle"
    /\ Preparing => queue = <<>>
    /\ pc \in {"loop", "read", "rest"} => batch = <<>>
    /\ pc \in {"loop", "read"} => call = "none"
    /\ pc = "payload" => call \in {"none", "rest"}
    /\ pc = "rest" \/ call = "rest" =>
         readErr = "eof" /\ queue = <<>> /\ ~Preparing
    /\ call = "rest" => target = "firebase"

\* Firebase's groups: a user waits in that of its configuration, and order has those
\* that are not empty.
Grouped ==
  /\ target # "firebase" => order = <<>> /\ \A p \in HashParams : group[p] = <<>>
  /\ \A p \in HashParams : group[p] # <<>> => p \in Range(order)
  /\ \A p \in HashParams : \A u \in Range(group[p]) : ParamsOf[u] = p

ReadingOver ==
  /\ readErr = "eof" => read = N /\ broken = 0
  /\ readErr = "broken" => read = Readable /\ broken # 0

\* How often the reader has u, as one of a batch it prepares, one it has prepared or
\* one left out, and the import, to send it.
InReader(u) ==
  (IF Preparing THEN Times(raw, {u}) ELSE 0) + Times(queue, {u}) + Times(skipped, {u})
Waits(u) == Times(group[ParamsOf[u]], {u}) + Times(batch, {u})

About(u) == {u} \X Codes
Reported(r, u) == Times(r.succeeded, {u}) + Times(r.failed, About(u)) + Times(r.skipped, About(u))

\* Each user read is in one place.
Accounted ==
  /\ Importing => \A u \in File : InReader(u) + Waits(u) + Reported(report, u) = IF u <= read THEN 1 ELSE 0
  /\ pc \in {"finish", "after", "save"} => \A u \in File : Reported(report, u) = 1
  /\ file # NoReport => \A u \in File : Reported(file, u) = 1

Journey == Stations /\ Grouped /\ ReadingOver /\ Accounted

\* What Cognito's calls for the first user have brought about.
CallsFor(u) ==
  /\ call = "get" => Upsert /\ dir[u].known
  /\ call \in {"password", "enable", "end"} =>
       /\ seen = dir[u] /\ seen.known
       /\ ~Upsert => ~before[u].known
  /\ call \in {"enable", "end"} => seen.final
  /\ call = "end" => seen.enabled = (u \notin Blocked)

\* A report says of an account what is so in the target, and stays so.
TrueReport(r) ==
  /\ \A u \in Range(r.succeeded) : dir[u] = Finished(u)
  /\ r # NoReport => r.ids = Range(r.succeeded)
  /\ \A f \in Range(r.failed) \cup Range(r.skipped) : f[2] = "EXISTS" => dir[f[1]].known
  /\ \A f \in Range(r.skipped) : f[2] \in {"EXISTS", "SKIPPED"}

\* Nothing an import does takes an account away.
Accounts ==
  /\ FoundIsKept
  /\ \A u \in File : before[u].known => dir[u].known
  /\ target = "cognito" /\ pc = "send" /\ batch # <<>> => CallsFor(Head(batch))
  /\ report.ids = Range(report.succeeded)
  /\ TrueReport(report) /\ TrueReport(file)

\* Users dropped by import.user, when a failure of its is not ignored, get no further
\* than its own batch, whose users have been sent or are to be.
Dropping == refs["import.user"] = "fail"
Sifted ==
  Dropping =>
    /\ \A u \in drops :
         u \notin Range(queue) /\ (stage \notin {"idle", "import.user"} => u \notin Range(raw))
    /\ stage = "import.user" => Range(raw) \subseteq answered \cup Range(items)
Dropped ==
  Importing =>
    /\ Sifted
    /\ Dropping => \A u \in drops : u \notin Range(batch) \cup Range(group[ParamsOf[u]])

ImportInv == Types /\ Journey /\ Accounts /\ Dropped /\ DroppedStaysOut

-----------------------------------------------------------------------------
(* How a batch is prepared. *)

LEMMA Strategies ==
  /\ Len(PrepOrder) = 5 /\ DOMAIN PrepOrder = 1..5
  /\ \A k \in 1..5 : PrepOrder[k] \in Range(PrepOrder) /\ (PrepOrder[k] = "import.user" <=> k = 1)
  /\ \A s \in Range(PrepOrder) : \E k \in 1..5 : PrepOrder[k] = s
  /\ Payload \notin Range(PrepOrder) /\ "idle" \notin ImportStrategies
  /\ Range(PrepOrder) \subseteq ImportStrategies /\ Payload \in ImportStrategies
  /\ ImportStrategies = Range(PrepOrder) \cup {Payload}
  /\ "import.user" \in Range(PrepOrder)
<1>1. /\ Len(PrepOrder) = 5 /\ DOMAIN PrepOrder = 1..5
      /\ PrepOrder[1] = "import.user" /\ PrepOrder[2] = "identity.primary" /\ PrepOrder[3] = "hash.translate"
      /\ PrepOrder[4] = "mfa.translate" /\ PrepOrder[5] = "metadata.place"
  BY DEF PrepOrder
<1>2. \A k \in 1..5 : k = 1 \/ k = 2 \/ k = 3 \/ k = 4 \/ k = 5
  OBVIOUS
<1>3. Range(PrepOrder) = {PrepOrder[k] : k \in 1..5}
  BY <1>1 DEF Range
<1>4. \A k \in 1..5 : /\ PrepOrder[k] # Payload /\ PrepOrder[k] # "idle"
                       /\ (PrepOrder[k] = "import.user" <=> k = 1)
  BY <1>1, <1>2 DEF Payload
<1>5. Payload # "idle"
  BY DEF Payload
<1> QED BY <1>1, <1>3, <1>4, <1>5 DEF ImportStrategies

LEMMA ItemsType ==
  ASSUME NEW us \in Seq(File), NEW s
  PROVE  Items(s, us) \in Seq(File) /\ Range(Items(s, us)) = Range(us) \cap Asked(s)
  BY SelectType DEF Items

\* A batch goes to the next strategy that is asked about it, or to the connector.
LEMMA Prepared ==
  ASSUME NEW k \in 0..5, NEW us \in Seq(File), Prepare(k, us)
  PROVE  /\ answered' = {}
         /\ \/ stage' = "idle" /\ items' = <<>> /\ raw' = <<>> /\ queue' = us
            \/ \E i \in k + 1..5 :
                 /\ stage' = PrepOrder[i] /\ items' = Items(PrepOrder[i], us)
                 /\ raw' = us /\ queue' = queue
         /\ k = 0 /\ Delegated("import.user") /\ us # <<>> => stage' = "import.user"
<1> DEFINE L == Left(k, us)
<1>1. L \subseteq k + 1..5 /\ L \in SUBSET Nat
  BY Strategies DEF Left
<1>2. CASE L = {}
  <2>1. answered' = {} /\ stage' = "idle" /\ items' = <<>> /\ raw' = <<>> /\ queue' = us
    BY <1>2 DEF Prepare
  <2>2. ~ (k = 0 /\ Delegated("import.user") /\ us # <<>>)
    <3> SUFFICES ASSUME k = 0, Delegated("import.user"), us # <<>> PROVE FALSE
      OBVIOUS
    <3>1. Asked("import.user") = File
      BY DEF Asked
    <3>2. us[1] \in Range(us) /\ us[1] \in File
      BY DEF Range
    <3>3. Range(Items("import.user", us)) # {}
      BY <3>1, <3>2, ItemsType
    <3>4. Items("import.user", us) # <<>>
      BY <3>3 DEF Range
    <3>5. 1 \in L
      BY <3>4, Strategies DEF Left
    <3> QED BY <3>5, <1>2
  <2> QED BY <2>1, <2>2
<1>3. CASE L # {}
  <2> DEFINE i == Min(L)
  <2>1. i \in L /\ \A j \in L : i <= j
    <3>1. \E m \in L : \A j \in L : m <= j
      <4> HIDE DEF L
      <4> QED BY <1>1, <1>3, Smallest
    <3> HIDE DEF L
    <3> QED BY <3>1 DEF Min
  <2>2. /\ answered' = {} /\ stage' = PrepOrder[i] /\ items' = Items(PrepOrder[i], us)
        /\ raw' = us /\ queue' = queue
    BY <1>3 DEF Prepare
  <2>3. ASSUME k = 0, Delegated("import.user"), us # <<>> PROVE i = 1
    <3>1. Asked("import.user") = File
      BY DEF Asked
    <3>2. us[1] \in Range(us) /\ us[1] \in File
      BY <2>3 DEF Range
    <3>3. Range(Items("import.user", us)) # {}
      BY <3>1, <3>2, ItemsType
    <3>4. Items("import.user", us) # <<>>
      BY <3>3 DEF Range
    <3>5. 1 \in L
      BY <2>3, <3>4, Strategies DEF Left
    <3> HIDE DEF i, L
    <3> QED BY <3>5, <2>1, <1>1, <2>3
  <2> HIDE DEF i, L
  <2>4. i \in k + 1..5 /\ PrepOrder[1] = "import.user"
    BY <2>1, <1>1, Strategies
  <2> QED BY <2>2, <2>3, <2>4
<1> QED BY <1>2, <1>3

LEMMA MinOfTwo ==
  ASSUME NEW a \in Nat, NEW b \in Nat
  PROVE  Min({a, b}) \in {a, b} /\ Min({a, b}) <= a /\ Min({a, b}) <= b
<1>1. \E x \in {a, b} : \A y \in {a, b} : x <= y
  OBVIOUS
<1>2. Min({a, b}) \in {a, b} /\ \A y \in {a, b} : Min({a, b}) <= y
  BY <1>1 DEF Min
<1> QED BY <1>2

LEMMA Batches == ReaderBatch \in Nat \ {0}
<1>1. Max({BatchSize, HandlerBatch}) \in {BatchSize, HandlerBatch}
  <2>1. BatchSize \in Nat /\ HandlerBatch \in Nat
    BY PrepAssumption
  <2>2. \E x \in {BatchSize, HandlerBatch} : \A y \in {BatchSize, HandlerBatch} : x >= y
    BY <2>1
  <2> QED BY <2>2 DEF Max
<1> QED BY <1>1, PrepAssumption DEF ReaderBatch

\* The n users after the first m of the file.
LEMMA Successive ==
  ASSUME NEW m \in Nat, NEW n \in Nat, m + n <= N
  PROVE  /\ [i \in 1..n |-> m + i] \in Seq(File)
         /\ \A u \in File : Times([i \in 1..n |-> m + i], {u}) = IF m < u /\ u <= m + n THEN 1 ELSE 0
<1> DEFINE us == [i \in 1..n |-> m + i]
<1>1. \A i \in 1..n : m + i \in File /\ us[i] = m + i
  BY PrepAssumption DEF File
<1>2. us \in Seq(File) /\ DOMAIN us = 1..n
  BY <1>1
<1> HIDE DEF us
<1>3. ASSUME NEW u \in File PROVE Times(us, {u}) = IF m < u /\ u <= m + n THEN 1 ELSE 0
  <2>1. u \in Nat
    BY PrepAssumption DEF File
  <2>2. CASE m < u /\ u <= m + n
    <3>1. u - m \in 1..n /\ \A i \in 1..n : m + i = u <=> i = u - m
      BY <2>1, <2>2
    <3>2. {i \in DOMAIN us : us[i] \in {u}} = {u - m}
      BY <3>1, <1>1, <1>2
    <3> QED BY <2>2, <3>2, FS_Singleton DEF Times
  <2>3. CASE ~ (m < u /\ u <= m + n)
    <3>1. \A i \in 1..n : m + i # u
      BY <2>1, <2>3
    <3>2. {i \in DOMAIN us : us[i] \in {u}} = {}
      BY <3>1, <1>1, <1>2
    <3> QED BY <2>3, <3>2, FS_EmptySet DEF Times
  <2> QED BY <2>2, <2>3
<1> QED BY <1>2, <1>3 DEF us

\* What is read comes into the reader, each user once.
LEMMA Filled ==
  ASSUME PrepTypes, Fill
  PROVE  /\ \E us \in Seq(File) :
              /\ Prepare(0, us)
              /\ \A u \in File : Times(us, {u}) = IF read < u /\ u <= read' THEN 1 ELSE 0
         /\ read' \in read..Readable /\ readErr' \in {"none", "eof", "broken"}
         /\ readErr' = "eof" => read' = N /\ broken = 0
         /\ readErr' = "broken" => read' = Readable /\ broken # 0
<1> DEFINE us == [i \in 1..(read' - read) |-> read + i]
<1>1. /\ N \in Nat /\ broken \in 0..N /\ Readable \in 0..N /\ read \in 0..Readable
      /\ broken = 0 => Readable = N
  BY PrepAssumption DEF PrepTypes, Readable
<1>2. read' = Min({read + ReaderBatch, Readable}) /\ Prepare(0, us)
      /\ readErr' = IF read' < read + ReaderBatch THEN IF broken = 0 THEN "eof" ELSE "broken" ELSE "none"
  BY DEF Fill
<1>3. read' \in {read + ReaderBatch, Readable} /\ read' <= Readable
  BY <1>1, <1>2, Batches, MinOfTwo
<1>4. read' \in read..Readable /\ (read' < read + ReaderBatch => read' = Readable)
  BY <1>1, <1>3, Batches
<1>5. readErr' \in {"none", "eof", "broken"} /\ (readErr' = "eof" => read' = N /\ broken = 0)
      /\ (readErr' = "broken" => read' = Readable /\ broken # 0)
  BY <1>1, <1>2, <1>4
<1>6. read \in Nat /\ read' - read \in Nat /\ read + (read' - read) <= N /\ read + (read' - read) = read'
  <2>1. Readable \in Nat /\ Readable <= N
    BY <1>1
  <2>2. read \in Nat /\ read' \in Nat /\ read <= read' /\ read' <= Readable
    BY <1>1, <1>4, <2>1
  <2>3. \A a, b \in Nat : a <= b => b - a \in Nat /\ a + (b - a) = b
    OBVIOUS
  <2>4. read' <= N
    BY <1>1, <2>1, <2>2
  <2> QED BY <2>2, <2>3, <2>4
<1>7. us \in Seq(File) /\ \A u \in File : Times(us, {u}) = IF read < u /\ u <= read' THEN 1 ELSE 0
  BY <1>6, Successive
<1> QED BY <1>2, <1>4, <1>5, <1>7

\* A strategy keeps a user or leaves it out.
LEMMA LeftOut ==
  ASSUME raw \in Seq(File), NEW got,
         NEW kept, kept = Kept(raw, got), NEW out, out = Select(raw, File \ Range(kept))
  PROVE  /\ kept \in Seq(File) /\ out \in Seq(File)
         /\ Range(kept) \subseteq Range(raw)
         /\ stage = "import.user" => Range(kept) \cap drops \cap got = {}
         /\ stage # "import.user" => kept = raw
         /\ \A u \in File : Times(raw, {u}) = Times(kept, {u}) + Times(out, {u})
<1> DEFINE D == File \ (drops \cap got)
<1>1. kept = IF stage = "import.user" THEN Select(raw, D) ELSE raw
  BY DEF Kept
<1>2. out \in Seq(File) /\ kept \in Seq(File)
  BY <1>1, SelectType
<1>3. stage = "import.user" => Range(kept) = Range(raw) \cap D
  BY <1>1, SelectType
<1>4. ASSUME NEW u \in File PROVE Times(raw, {u}) = Times(kept, {u}) + Times(out, {u})
  <2>1. Times(out, {u}) = Times(raw, (File \ Range(kept)) \cap {u})
    BY SelectTimes
  <2>2. Times(raw, {u}) \in Nat
    BY TimesFinite
  <2>3. CASE u \in Range(kept)
    <3>1. (File \ Range(kept)) \cap {u} = {}
      BY <2>3
    <3>2. Times(out, {u}) = 0
      BY <2>1, <3>1, TimesNone
    <3>3. Times(kept, {u}) = Times(raw, {u})
      <4>1. CASE stage = "import.user"
        <5>1. D \cap {u} = {u}
          BY <4>1, <1>3, <2>3
        <5>2. Times(kept, {u}) = Times(raw, D \cap {u})
          BY <4>1, <1>1, SelectTimes
        <5> QED BY <5>1, <5>2
      <4> QED BY <4>1, <1>1
    <3> QED BY <2>2, <3>2, <3>3
  <2>4. CASE u \notin Range(kept)
    <3>1. (File \ Range(kept)) \cap {u} = {u}
      BY <2>4
    <3>2. Times(kept, {u}) = 0
      BY <2>4, <1>2, TimesNone
    <3>3. PICK n \in Nat : n = Times(raw, {u})
      BY <2>2
    <3>4. Times(out, {u}) = n
      BY <2>1, <3>1, <3>3, Zenon
    <3>5. n = 0 + n
      OBVIOUS
    <3> QED BY <3>2, <3>3, <3>4, <3>5, Zenon
  <2> QED BY <2>3, <2>4
<1> QED BY <1>1, <1>2, <1>3, <1>4

LEMMA Counts ==
  /\ \A C : Times(<<>>, C) = 0
  /\ \A s \in Seq(File) : \A C : Times(s, C) \in Nat
  /\ \A s \in Seq(File) : \A t \in Seq(File) : \A C : Times(s \o t, C) = Times(s, C) + Times(t, C)
<1>1. \A s \in Seq(File) : \A C : Times(s, C) \in Nat
  BY TimesFinite
<1>2. ASSUME NEW s \in Seq(File), NEW t \in Seq(File), NEW C
      PROVE  Times(s \o t, C) = Times(s, C) + Times(t, C)
  BY TimesConcat
<1> QED BY <1>1, <1>2, TimesEmpty

LEMMA AppliedStep ==
  ASSUME PrepTypes, stage \in ImportStrategies, Preparing => queue = <<>>,
         NEW got \in SUBSET File, Apply(got), UNCHANGED mapping
  PROVE  /\ raw' \in Seq(File) /\ items' \in Seq(File) /\ queue' \in Seq(File) /\ skipped' \in Seq(File)
         /\ stage' \in ImportStrategies \cup {"idle"} /\ answered' = {}
         /\ applied' \in [File -> SUBSET ImportStrategies]
         /\ \A u \in File : InReader(u)' = InReader(u)
         /\ stage = Payload => stage' = "idle" /\ queue' = queue
         /\ stage # Payload => stage' # Payload /\ (stage' # "idle" => queue' = <<>>)
         /\ Sifted /\ (Dropping /\ stage = "import.user" => Range(raw) \subseteq got) => Sifted'
<1>1. PICK kept, out, k :
        /\ kept = Kept(raw, got) /\ out = Select(raw, File \ Range(kept))
        /\ k = (CHOOSE j \in DOMAIN PrepOrder : PrepOrder[j] = stage)
  OBVIOUS
<1>4. /\ raw \in Seq(File) /\ queue \in Seq(File) /\ skipped \in Seq(File)
      /\ applied \in [File -> SUBSET ImportStrategies]
  BY DEF PrepTypes
<1>2. /\ kept \in Seq(File) /\ out \in Seq(File) /\ Range(kept) \subseteq Range(raw)
      /\ stage = "import.user" => Range(kept) \cap drops \cap got = {}
      /\ stage # "import.user" => kept = raw
      /\ \A u \in File : Times(raw, {u}) = Times(kept, {u}) + Times(out, {u})
  BY <1>1, <1>4, LeftOut
<1>3. /\ skipped' = skipped \o out
      /\ applied' = [u \in File |-> IF u \in got \cap Range(raw) THEN applied[u] \cup {stage} ELSE applied[u]]
      /\ stage = Payload => stage' = "idle" /\ items' = <<>> /\ raw' = <<>> /\ answered' = {} /\ queue' = queue
      /\ stage # Payload => Prepare(k, kept)
  BY <1>1 DEF Apply
<1>5. skipped' \in Seq(File) /\ applied' \in [File -> SUBSET ImportStrategies]
  BY <1>2, <1>3, <1>4
<1>6. ASSUME NEW u \in File
      PROVE  /\ Times(skipped', {u}) = Times(skipped, {u}) + Times(out, {u})
             /\ Times(skipped, {u}) \in Nat /\ Times(out, {u}) \in Nat /\ Times(kept, {u}) \in Nat
             /\ Times(raw, {u}) \in Nat /\ Times(queue, {u}) \in Nat
             /\ Times(raw, {u}) = Times(kept, {u}) + Times(out, {u})
  BY <1>2, <1>3, <1>4, Counts
<1>7. refs' = refs /\ drops' = drops
  BY DEF mapping
<1>8. CASE stage = Payload
  <2>1. stage # "import.user" /\ ~Preparing /\ stage' = "idle" /\ ~Preparing'
    BY <1>8, <1>3 DEF Preparing, Payload
  <2>2. ASSUME NEW u \in File PROVE InReader(u)' = InReader(u)
    <3>1. InReader(u) = 0 + Times(queue, {u}) + Times(skipped, {u})
      BY <2>1 DEF InReader
    <3>2. InReader(u)' = 0 + Times(queue, {u}) + Times(skipped', {u})
      BY <2>1, <1>3, <1>8 DEF InReader
    <3>3. kept = raw
      BY <2>1, <1>2
    <3> QED BY <3>1, <3>2, <3>3, <1>6
  <2>4. Sifted => Sifted'
    BY <2>1, <1>3, <1>7, <1>8 DEF Sifted, Dropping
  <2>5. <<>> \in Seq(File) /\ queue \in Seq(File)
    BY <1>4
  <2> QED BY <2>1, <2>2, <2>4, <2>5, <1>3, <1>5, <1>8
<1>9. CASE stage # Payload
  <2>1. stage \in Range(PrepOrder) /\ Preparing /\ queue = <<>>
    BY <1>9, Strategies DEF Preparing
  <2>2. k \in 1..5 /\ PrepOrder[k] = stage
    BY <2>1, <1>1, Strategies
  <2>3. Prepare(k, kept) /\ k \in 0..5 /\ k # 0
    BY <2>2, <1>3, <1>9
  <2>4. /\ answered' = {}
        /\ \/ stage' = "idle" /\ items' = <<>> /\ raw' = <<>> /\ queue' = kept
           \/ \E i \in k + 1..5 :
                /\ stage' = PrepOrder[i] /\ items' = Items(PrepOrder[i], kept)
                /\ raw' = kept /\ queue' = queue
    BY <2>3, <1>2, Prepared
  <2>5. \A u \in drops : Dropping /\ Sifted /\ (stage = "import.user" => Range(raw) \subseteq got)
                          => u \notin Range(kept)
    <3>1. CASE stage = "import.user"
      BY <3>1, <1>2
    <3>2. CASE stage # "import.user"
      BY <3>2, <2>1, <1>2 DEF Sifted, Preparing
    <3> QED BY <3>1, <3>2
  <2>6. CASE stage' = "idle" /\ items' = <<>> /\ raw' = <<>> /\ queue' = kept
    <3>1. ~Preparing' /\ <<>> \in Seq(File)
      BY <2>6 DEF Preparing
    <3>2. ASSUME NEW u \in File PROVE InReader(u)' = InReader(u)
      <4>1. InReader(u) = Times(raw, {u}) + Times(<<>>, {u}) + Times(skipped, {u})
        BY <2>1 DEF InReader
      <4>2. InReader(u)' = 0 + Times(kept, {u}) + Times(skipped', {u})
        BY <3>1, <2>6 DEF InReader
      <4> QED BY <4>1, <4>2, <1>6, Counts
    <3>3. Sifted /\ (Dropping /\ stage = "import.user" => Range(raw) \subseteq got) => Sifted'
      BY <2>5, <2>6, <1>7 DEF Sifted, Dropping
    <3>4. "idle" # Payload
      BY DEF Payload
    <3> QED BY <3>1, <3>2, <3>3, <3>4, <2>4, <2>6, <1>2, <1>5, <1>9
  <2>7. ASSUME NEW i \in k + 1..5,
               stage' = PrepOrder[i], items' = Items(PrepOrder[i], kept), raw' = kept, queue' = queue
        PROVE  /\ raw' \in Seq(File) /\ items' \in Seq(File) /\ queue' = <<>>
               /\ stage' \in ImportStrategies /\ stage' # Payload
               /\ \A u \in File : InReader(u)' = InReader(u)
               /\ Sifted /\ (Dropping /\ stage = "import.user" => Range(raw) \subseteq got) => Sifted'
    <3>1. i \in 1..5 /\ i # 1
      BY <2>2
    <3>2. stage' \in Range(PrepOrder) /\ stage' # "import.user" /\ stage' \in ImportStrategies
          /\ stage' # Payload /\ stage' # "idle"
      BY <3>1, <2>7, Strategies
    <3>3. Preparing'
      BY <3>2 DEF Preparing
    <3>4. ASSUME NEW u \in File PROVE InReader(u)' = InReader(u)
      <4>1. InReader(u) = Times(raw, {u}) + Times(<<>>, {u}) + Times(skipped, {u})
        BY <2>1 DEF InReader
      <4>2. InReader(u)' = Times(kept, {u}) + Times(<<>>, {u}) + Times(skipped', {u})
        BY <3>3, <2>1, <2>7 DEF InReader
      <4> QED BY <4>1, <4>2, <1>6, Counts
    <3>5. Sifted /\ (Dropping /\ stage = "import.user" => Range(raw) \subseteq got) => Sifted'
      BY <3>2, <2>5, <2>7, <1>7 DEF Sifted, Dropping
    <3>6. items' \in Seq(File)
      BY <2>7, <1>2, ItemsType
    <3> QED BY <3>2, <3>4, <3>5, <3>6, <2>1, <2>7, <1>2
  <2>8. <<>> \in Seq(File)
    OBVIOUS
  <2> QED BY <2>4, <2>6, <2>7, <2>8, <1>5, <1>9
<1> QED BY <1>8, <1>9

\* What every step of the reader keeps, to which read' adds.
ReaderStep ==
  /\ PrepTypes'
  /\ stage' # "idle" /\ stage' # Payload => queue' = <<>>
  /\ Sifted => Sifted'

LEMMA FillStep ==
  ASSUME PrepTypes, Fill
  PROVE  /\ ReaderStep /\ ReadingOver' /\ stage' # Payload /\ stage = "idle" /\ readErr = "none"
         /\ read \in Nat /\ read' \in Nat /\ read <= read'
         /\ \A u \in File : InReader(u)' = InReader(u) + (IF read < u /\ u <= read' THEN 1 ELSE 0)
<1>1. PICK us \in Seq(File) :
        Prepare(0, us) /\ \A u \in File : Times(us, {u}) = IF read < u /\ u <= read' THEN 1 ELSE 0
  BY Filled
<1>2. /\ read' \in read..Readable /\ readErr' \in {"none", "eof", "broken"}
      /\ (readErr' = "eof" => read' = N /\ broken = 0)
      /\ (readErr' = "broken" => read' = Readable /\ broken # 0)
  BY Filled
<1>3. /\ stage = "idle" /\ queue = <<>> /\ readErr = "none"
      /\ refs' = refs /\ drops' = drops /\ broken' = broken
      /\ batchNo' = batchNo /\ skipped' = skipped /\ applied' = applied
  BY DEF Fill, mapping
<1>4. /\ answered' = {}
      /\ \/ stage' = "idle" /\ items' = <<>> /\ raw' = <<>> /\ queue' = us
         \/ \E i \in 1..5 :
              /\ stage' = PrepOrder[i] /\ items' = Items(PrepOrder[i], us)
              /\ raw' = us /\ queue' = queue
      /\ Delegated("import.user") /\ us # <<>> => stage' = "import.user"
  BY <1>1, Prepared
<1>5. Readable' = Readable /\ Readable \in Nat /\ read \in Nat /\ read' \in Nat /\ read <= read'
  BY <1>2, <1>3, PrepAssumption DEF Readable, PrepTypes
<1>6. ReadingOver'
  BY <1>2, <1>3, <1>5 DEF ReadingOver
<1>7. Dropping => Delegated("import.user")
  BY DEF Dropping, Delegated
<1>8. /\ raw' \in Seq(File) /\ items' \in Seq(File) /\ queue' \in Seq(File)
      /\ stage' \in ImportStrategies \cup {"idle"} /\ stage' # Payload
      /\ stage' # "idle" => queue' = <<>>
      /\ \A u \in File : InReader(u)' = InReader(u) + Times(us, {u})
      /\ Sifted => Sifted'
  <2>1. ASSUME NEW u \in File
        PROVE  /\ InReader(u) = 0 + Times(<<>>, {u}) + Times(skipped, {u})
               /\ Times(<<>>, {u}) = 0 /\ Times(skipped, {u}) \in Nat /\ Times(us, {u}) \in Nat
    BY <1>1, <1>3, Counts DEF InReader, Preparing, PrepTypes
  <2>2. CASE stage' = "idle" /\ items' = <<>> /\ raw' = <<>> /\ queue' = us
    <3>1. ~Preparing' /\ "idle" # Payload /\ <<>> \in Seq(File)
      BY <2>2 DEF Preparing, Payload
    <3>2. ASSUME NEW u \in File PROVE InReader(u)' = InReader(u) + Times(us, {u})
      <4>1. InReader(u)' = 0 + Times(us, {u}) + Times(skipped, {u})
        BY <3>1, <2>2, <1>3 DEF InReader
      <4> QED BY <4>1, <2>1
    <3>3. Dropping => us = <<>>
      BY <1>4, <1>7, <2>2
    <3>4. Range(<<>>) = {}
      BY DEF Range
    <3>5. Sifted => Sifted'
      BY <3>3, <3>4, <2>2, <1>3 DEF Sifted, Dropping
    <3> QED BY <3>1, <3>2, <3>5, <2>2
  <2>3. ASSUME NEW i \in 1..5,
               stage' = PrepOrder[i], items' = Items(PrepOrder[i], us), raw' = us, queue' = queue
        PROVE  /\ items' \in Seq(File) /\ queue' = <<>>
               /\ stage' \in ImportStrategies /\ stage' # Payload
               /\ \A u \in File : InReader(u)' = InReader(u) + Times(us, {u})
               /\ Sifted => Sifted'
    <3>1. stage' \in ImportStrategies /\ stage' # Payload /\ stage' # "idle" /\ Preparing'
      BY <2>3, Strategies DEF Preparing
    <3>2. ASSUME NEW u \in File PROVE InReader(u)' = InReader(u) + Times(us, {u})
      <4>1. InReader(u)' = Times(us, {u}) + Times(<<>>, {u}) + Times(skipped, {u})
        BY <3>1, <2>3, <1>3 DEF InReader
      <4> QED BY <4>1, <2>1
    <3>3. items' \in Seq(File) /\ Range(items') = Range(us) \cap Asked(PrepOrder[i])
      BY <2>3, ItemsType
    <3>4. ASSUME Dropping PROVE Sifted'
      <4>1. us = <<>> \/ stage' = "import.user"
        BY <3>4, <1>4, <1>7
      <4>2. Range(<<>>) = {} /\ queue' = <<>>
        BY <1>3, <2>3 DEF Range
      <4>3. stage' = "import.user" => Range(raw') \subseteq Range(items')
        <5>1. Asked("import.user") = File
          BY DEF Asked
        <5>2. Range(us) \subseteq File
          BY DEF Range
        <5> QED BY <5>1, <5>2, <2>3, <3>3
      <4> QED BY <4>1, <4>2, <4>3, <2>3 DEF Sifted
    <3>5. Sifted'
      BY <3>4, <1>3 DEF Sifted, Dropping
    <3> QED BY <3>1, <3>2, <3>3, <3>5, <2>3, <1>3
  <2>4. <<>> \in Seq(File)
    OBVIOUS
  <2> QED BY <2>2, <2>3, <2>4, <1>1, <1>4
<1>9. PrepTypes'
  BY <1>2, <1>3, <1>4, <1>5, <1>8 DEF PrepTypes
<1>10. \A u \in File : InReader(u)' = InReader(u) + (IF read < u /\ u <= read' THEN 1 ELSE 0)
  BY <1>1, <1>8
<1> QED BY <1>3, <1>5, <1>6, <1>8, <1>9, <1>10 DEF ReaderStep

\* a is the first n elements of s, and b the others.
Cut(s, n, a, b) == a = SubSeq(s, 1, n) /\ b = SubSeq(s, n + 1, Len(s))

LEMMA CutInTwo ==
  ASSUME NEW T, NEW s \in Seq(T), NEW n \in 1..Len(s), NEW a, NEW b, Cut(s, n, a, b)
  PROVE  a \in Seq(T) /\ Len(a) = n /\ b \in Seq(T) /\ Range(s) = Range(a) \cup Range(b)
<1>0. a = SubSeq(s, 1, n) /\ b = SubSeq(s, n + 1, Len(s))
  BY DEF Cut
<1>1. PICK m \in Nat : m = Len(s) /\ n \in Nat /\ n <= m /\ 1 <= n
  OBVIOUS
<1>2. \A i \in 1..m : s[i] \in T
  BY <1>1
<1>3. a \in Seq(T) /\ Len(a) = n
  <2>1. \A i \in 1..n : s[i] \in T
    BY <1>1, <1>2
  <2>2. 1 \in Int /\ n \in Int /\ 1 <= n /\ n - 1 + 1 = n
    BY <1>1
  <2>3. SubSeq(s, 1, n) \in Seq(T) /\ Len(SubSeq(s, 1, n)) = IF 1 <= n THEN n - 1 + 1 ELSE 0
    BY <2>1, <2>2, SubSeqProperties
  <2> QED BY <2>2, <2>3, <1>0
<1>4. b \in Seq(T)
  <2>1. \A i \in n + 1..m : s[i] \in T
    BY <1>1, <1>2
  <2>2. n + 1 \in Int /\ m \in Int
    BY <1>1
  <2>3. SubSeq(s, n + 1, m) \in Seq(T)
    BY <2>1, <2>2, SubSeqProperties
  <2> QED BY <2>3, <1>0, <1>1
<1>5. a \o b = s
  <2>1. 1 \in 1..Len(s) + 1 /\ n \in (1 - 1)..Len(s) /\ m \in n..Len(s)
    BY <1>1
  <2>2. SubSeq(s, 1, n) \o SubSeq(s, n + 1, m) = SubSeq(s, 1, m)
    BY <2>1, ConcatAdjacentSubSeq
  <2>3. SubSeq(s, 1, Len(s)) = s
    BY SubSeqFull
  <2> QED BY <1>0, <1>1, <2>2, <2>3
<1>6. a \in Seq(T) /\ b \in Seq(T) /\ s = a \o b
  BY <1>3, <1>4, <1>5
<1>7. Range(s) = Range(a) \cup Range(b)
  BY <1>6, RangeConcat
<1> QED BY <1>3, <1>4, <1>7

\* The items sent, and those left, are the items there were.
LEMMA SentAndLeft ==
  ASSUME items \in Seq(File), items # <<>>, NEW left, left = SubSeq(items, Len(Sent) + 1, Len(items))
  PROVE  /\ Sent \in Seq(File) /\ left \in Seq(File) /\ Range(Sent) \subseteq File
         /\ Range(items) = Range(Sent) \cup Range(left)
<1>1. Len(items) \in Nat \ {0}
  OBVIOUS
<1>2. PICK n \in Nat, m \in Nat : n = Min({HandlerBatch, Len(items)}) /\ m = Len(items) /\ n \in 1..m
  <2>1. HandlerBatch \in Nat \ {0}
    BY PrepAssumption
  <2>2. Min({HandlerBatch, Len(items)}) \in {HandlerBatch, Len(items)} /\ Min({HandlerBatch, Len(items)}) <= Len(items)
    BY <1>1, <2>1, MinOfTwo
  <2> QED BY <1>1, <2>1, <2>2
<1>3. Sent = SubSeq(items, 1, n) /\ n \in 1..Len(items)
  BY <1>2 DEF Sent
<1>4. Sent \in Seq(File) /\ Len(Sent) = n
  <2>1. Cut(items, n, Sent, SubSeq(items, n + 1, Len(items)))
    BY <1>3 DEF Cut
  <2> QED BY <2>1, <1>3, CutInTwo
<1>5. Cut(items, n, Sent, left)
  BY <1>3, <1>4 DEF Cut
<1>6. left \in Seq(File) /\ Range(items) = Range(Sent) \cup Range(left)
  BY <1>3, <1>5, CutInTwo
<1>7. Range(Sent) \subseteq File
  BY <1>4 DEF Range
<1> QED BY <1>4, <1>6, <1>7

LEMMA Numbered ==
  ASSUME PrepTypes, NEW ok, Call(ok)
  PROVE  batchNo' \in [ImportStrategies -> Nat] /\ stage # "idle" /\ stage \in ImportStrategies /\ items # <<>>
  BY DEF Call, Posted, PrepTypes

\* The users of a batch a handler answers are applied to, all together, after the last one.
LEMMA AnswersStep ==
  ASSUME PrepTypes, Preparing => queue = <<>>, HandlerAnswers
  PROVE  /\ ReaderStep /\ read' = read /\ readErr' = readErr
         /\ \A u \in File : InReader(u)' = InReader(u)
         /\ stage = Payload => stage' \in {"idle", Payload} /\ queue' = queue
         /\ stage # Payload => stage' # Payload
<1> DEFINE left == SubSeq(items, Len(Sent) + 1, Len(items))
           got == answered \cup Range(Sent)
<1>1. /\ batchNo' \in [ImportStrategies -> Nat] /\ stage # "idle" /\ stage \in ImportStrategies
      /\ items # <<>> /\ items \in Seq(File)
  BY Numbered DEF HandlerAnswers, PrepTypes
<1>2. /\ left \in Seq(File) /\ Range(Sent) \subseteq File
      /\ Range(items) = Range(Sent) \cup Range(left)
  BY <1>1, SentAndLeft
<1>3. /\ read' = read /\ readErr' = readErr /\ refs' = refs /\ drops' = drops /\ broken' = broken
      /\ UNCHANGED mapping /\ Readable' = Readable
  BY DEF HandlerAnswers, mapping, Readable
<1>4. \/ left = <<>> /\ Apply(got)
      \/ items' = left /\ answered' = got /\ UNCHANGED <<raw, stage, queue, skipped, applied>>
  BY DEF HandlerAnswers
<1>5. got \in SUBSET File
  BY <1>2 DEF PrepTypes
<1> HIDE DEF left, got
<1>6. CASE left = <<>> /\ Apply(got)
  <2>1. /\ raw' \in Seq(File) /\ items' \in Seq(File) /\ queue' \in Seq(File) /\ skipped' \in Seq(File)
        /\ stage' \in ImportStrategies \cup {"idle"} /\ answered' = {}
        /\ applied' \in [File -> SUBSET ImportStrategies]
        /\ \A u \in File : InReader(u)' = InReader(u)
        /\ stage = Payload => stage' = "idle" /\ queue' = queue
        /\ stage # Payload => stage' # Payload /\ (stage' # "idle" => queue' = <<>>)
        /\ Sifted /\ (Dropping /\ stage = "import.user" => Range(raw) \subseteq got) => Sifted'
    BY <1>1, <1>3, <1>5, <1>6, AppliedStep
  <2>2. Range(<<>>) = {}
    BY DEF Range
  <2>3. Sifted /\ Dropping /\ stage = "import.user" => Range(raw) \subseteq got
    BY <2>2, <1>2, <1>6 DEF Sifted, got
  <2>4. PrepTypes'
    BY <2>1, <1>1, <1>3 DEF PrepTypes
  <2>5. Sifted => Sifted'
    BY <2>1, <2>3
  <2> QED BY <2>1, <2>4, <2>5, <1>3 DEF ReaderStep
<1>7. CASE items' = left /\ answered' = got /\ UNCHANGED <<raw, stage, queue, skipped, applied>>
  <2>1. PrepTypes'
    BY <1>1, <1>2, <1>3, <1>5, <1>7 DEF PrepTypes
  <2>2. \A u \in File : InReader(u)' = InReader(u)
    BY <1>7 DEF InReader, Preparing
  <2>3. Sifted => Sifted'
    BY <1>2, <1>3, <1>7 DEF Sifted, Dropping, got
  <2>4. stage' # "idle" /\ stage' # Payload => queue' = <<>>
    BY <1>7 DEF Preparing
  <2> QED BY <2>1, <2>2, <2>3, <2>4, <1>3, <1>7 DEF ReaderStep
<1> QED BY <1>4, <1>6, <1>7

\* Of a failure that is ignored nothing is applied.
LEMMA IgnoredStep ==
  ASSUME PrepTypes, Preparing => queue = <<>>, FailureIgnored
  PROVE  /\ ReaderStep /\ read' = read /\ readErr' = readErr
         /\ \A u \in File : InReader(u)' = InReader(u)
         /\ stage = Payload => stage' = "idle" /\ queue' = queue
         /\ stage # Payload => stage' # Payload
<1>1. batchNo' \in [ImportStrategies -> Nat] /\ stage # "idle" /\ stage \in ImportStrategies
  BY Numbered DEF FailureIgnored
<1>2. /\ read' = read /\ readErr' = readErr /\ refs' = refs /\ drops' = drops /\ broken' = broken
      /\ UNCHANGED mapping /\ Readable' = Readable /\ Apply({})
  BY DEF FailureIgnored, mapping, Readable
<1>3. /\ raw' \in Seq(File) /\ items' \in Seq(File) /\ queue' \in Seq(File) /\ skipped' \in Seq(File)
      /\ stage' \in ImportStrategies \cup {"idle"} /\ answered' = {}
      /\ applied' \in [File -> SUBSET ImportStrategies]
      /\ \A u \in File : InReader(u)' = InReader(u)
      /\ stage = Payload => stage' = "idle" /\ queue' = queue
      /\ stage # Payload => stage' # Payload /\ (stage' # "idle" => queue' = <<>>)
      /\ Sifted /\ (Dropping /\ stage = "import.user" => Range(raw) \subseteq {}) => Sifted'
  BY <1>1, <1>2, AppliedStep
<1>4. ~ (Dropping /\ stage = "import.user")
  BY DEF Dropping, FailureIgnored
<1>5. PrepTypes'
  BY <1>1, <1>2, <1>3 DEF PrepTypes
<1>6. Sifted => Sifted'
  BY <1>3, <1>4
<1> QED BY <1>2, <1>3, <1>5, <1>6 DEF ReaderStep

LEMMA AbandonStep ==
  ASSUME PrepTypes, Abandon, batchNo' \in [ImportStrategies -> Nat]
  PROVE  PrepTypes' /\ stage' = "idle" /\ queue' = queue
<1>1. /\ read' = read /\ readErr' = readErr /\ refs' = refs /\ drops' = drops /\ broken' = broken
      /\ queue' = queue /\ skipped' = skipped /\ applied' = applied /\ Readable' = Readable
      /\ stage' = "idle" /\ items' = <<>> /\ raw' = <<>> /\ answered' = {}
  BY DEF Abandon, mapping, Readable
<1> QED BY <1>1 DEF PrepTypes

LEMMA ResetStep ==
  ASSUME PrepTypes, PrepReset, UNCHANGED mapping
  PROVE  PrepTypes' /\ ReadingOver' /\ Sifted' /\ \A u \in File : InReader(u)' = 0
<1>1. /\ read' = 0 /\ readErr' = "none" /\ refs' = refs /\ drops' = drops /\ broken' = broken
      /\ queue' = <<>> /\ skipped' = <<>> /\ applied' = [u \in File |-> {}] /\ Readable' = Readable
      /\ stage' = "idle" /\ items' = <<>> /\ raw' = <<>> /\ answered' = {}
      /\ batchNo' = [s \in ImportStrategies |-> 0]
  BY DEF PrepReset, mapping, Readable
<1>2. Readable \in Nat
  BY PrepAssumption DEF Readable, PrepTypes
<1>3. PrepTypes'
  BY <1>1, <1>2 DEF PrepTypes
<1>4. Range(<<>>) = {} /\ "idle" # "import.user"
  BY DEF Range
<1>5. Sifted'
  BY <1>1, <1>4 DEF Sifted
<1>6. ASSUME NEW u \in File PROVE InReader(u)' = 0
  <2>1. InReader(u)' = 0 + Times(<<>>, {u}) + Times(<<>>, {u})
    BY <1>1 DEF InReader, Preparing
  <2> QED BY <2>1, TimesEmpty
<1>7. ReadingOver'
  BY <1>1 DEF ReadingOver
<1> QED BY <1>3, <1>5, <1>6, <1>7

-----------------------------------------------------------------------------
(* The entries of a report. *)

LEMMA CodedEntries ==
  /\ <<>> \in Coded
  /\ \A s \in Coded : Range(s) \subseteq File \X Codes /\ \A C : Times(s, C) \in Nat
  /\ \A s \in Coded : \A t \in Coded :
       /\ s \o t \in Coded /\ Range(s \o t) = Range(s) \cup Range(t)
       /\ \A C : Times(s \o t, C) = Times(s, C) + Times(t, C)
<1>1. ASSUME NEW s \in Coded PROVE Range(s) \subseteq File \X Codes /\ \A C : Times(s, C) \in Nat
  <2>1. Range(s) \subseteq File \X Codes
    BY DEF Coded, Range
  <2>2. \A C : Times(s, C) \in Nat
    BY TimesFinite DEF Coded
  <2> QED BY <2>1, <2>2
<1>2. ASSUME NEW s \in Coded, NEW t \in Coded, NEW C
      PROVE  Times(s \o t, C) = Times(s, C) + Times(t, C)
  BY TimesConcat DEF Coded
<1>3. ASSUME NEW s \in Coded, NEW t \in Coded
      PROVE  s \o t \in Coded /\ Range(s \o t) = Range(s) \cup Range(t)
  BY RangeConcat DEF Coded
<1>4. <<>> \in Coded
  BY DEF Coded
<1> QED BY <1>1, <1>2, <1>3, <1>4

\* An entry for each user of s.
LEMMA CodedPairs ==
  \A s \in Seq(File) : \A k \in Codes : \A t :
    t = [i \in DOMAIN s |-> <<s[i], k>>] =>
      /\ t \in Coded /\ Range(t) = Range(s) \X {k}
      /\ \A u : Times(t, About(u)) = Times(s, {u})
<1>1. ASSUME NEW s \in Seq(File), NEW k \in Codes, NEW t, t = [i \in DOMAIN s |-> <<s[i], k>>]
      PROVE  /\ t \in Coded /\ Range(t) = Range(s) \X {k}
             /\ \A u : Times(t, About(u)) = Times(s, {u})
  <2>1. Len(s) \in Nat /\ DOMAIN s = 1..Len(s) /\ \A i \in DOMAIN s : s[i] \in File
    OBVIOUS
  <2>2. t \in [1..Len(s) -> File \X Codes]
    BY <1>1, <2>1
  <2>3. t \in Coded
    BY <2>1, <2>2 DEF Coded
  <2>4. Range(t) = Range(s) \X {k}
    BY <1>1 DEF Range
  <2>5. ASSUME NEW u PROVE Times(t, About(u)) = Times(s, {u})
    <3>1. {i \in DOMAIN t : t[i] \in About(u)} = {i \in DOMAIN s : s[i] \in {u}}
      BY <1>1 DEF About
    <3> QED BY <3>1 DEF Times
  <2> QED BY <2>3, <2>4, <2>5
<1> QED BY <1>1

LEMMA ReportedUsers ==
  ASSUME NEW r, Shaped(r)
  PROVE  /\ Range(r.succeeded) \subseteq File
         /\ \A f \in Range(r.failed) \cup Range(r.skipped) : f[1] \in File /\ f[2] \in Codes
<1>1. Range(r.succeeded) \subseteq File
  BY DEF Shaped, Range
<1>2. Range(r.failed) \subseteq File \X Codes /\ Range(r.skipped) \subseteq File \X Codes
  BY CodedEntries DEF Shaped
<1> QED BY <1>1, <1>2

LEMMA OneUser == \A u \in File : \A s : s = <<u>> => \A v \in File : Times(s, {v}) = IF u \in {v} THEN 1 ELSE 0
<1>1. ASSUME NEW u \in File, NEW s, s = <<u>>, NEW v \in File
      PROVE  Times(s, {v}) = IF u \in {v} THEN 1 ELSE 0
  <2>0. <<>> \in Seq(File) /\ <<u>> = Append(<<>>, u)
    OBVIOUS
  <2>1. PICK e \in Seq(File), C \in {{v}} : e = <<>>
    BY <2>0
  <2>2. s = Append(e, u)
    BY <1>1, <2>0, <2>1
  <2>3. Times(Append(e, u), C) = Times(e, C) + (IF u \in C THEN 1 ELSE 0)
    <3>1. \A d \in Seq(File) : \A w \in File : Times(Append(d, w), C) = Times(d, C) + (IF w \in C THEN 1 ELSE 0)
      BY TimesAppend
    <3> QED BY <3>1
  <2>4. Times(e, C) = 0
    BY <2>1, TimesEmpty
  <2>5. Times(s, C) = IF u \in C THEN 1 ELSE 0
    BY <2>2, <2>3, <2>4
  <2> QED BY <2>1, <2>5
<1> QED BY <1>1

-----------------------------------------------------------------------------
(* What a step leaves alone. *)

LEMMA ReaderKept ==
  ASSUME UNCHANGED <<mapping, reader>>
  PROVE  /\ refs' = refs /\ drops' = drops /\ broken' = broken /\ read' = read /\ readErr' = readErr
         /\ stage' = stage /\ queue' = queue /\ skipped' = skipped /\ Preparing' = Preparing
         /\ PrepTypes => PrepTypes'
         /\ ReadingOver => ReadingOver'
         /\ Sifted => Sifted'
         /\ \A u \in File : InReader(u)' = InReader(u)
<1>1. /\ refs' = refs /\ drops' = drops /\ broken' = broken /\ read' = read /\ readErr' = readErr
      /\ stage' = stage /\ queue' = queue /\ skipped' = skipped /\ raw' = raw /\ items' = items
      /\ answered' = answered /\ batchNo' = batchNo /\ applied' = applied
  BY DEF mapping, reader
<1>2. Readable' = Readable /\ Preparing' = Preparing
  BY <1>1 DEF Readable, Preparing
<1>3. PrepTypes => PrepTypes'
  BY <1>1, <1>2 DEF PrepTypes
<1>4. ReadingOver => ReadingOver'
  BY <1>1, <1>2 DEF ReadingOver
<1>5. Sifted => Sifted'
  BY <1>1 DEF Sifted, Dropping
<1>6. \A u \in File : InReader(u)' = InReader(u)
  BY <1>1, <1>2 DEF InReader
<1> QED BY <1>1, <1>2, <1>3, <1>4, <1>5, <1>6

LEMMA AccountsKept ==
  ASSUME Accounts, DroppedStaysOut, UNCHANGED <<refs, drops, onDuplicate, before, dir, report, file>>
  PROVE  /\ FoundIsKept' /\ DroppedStaysOut'
         /\ \A u \in File : before'[u].known => dir'[u].known
         /\ report'.ids = Range(report'.succeeded)
         /\ TrueReport(report)' /\ TrueReport(file)'
<1>1. FoundIsKept' /\ DroppedStaysOut'
  BY DEF Accounts, FoundIsKept, Upsert, DroppedStaysOut
<1>2. TrueReport(report)' /\ TrueReport(file)'
  BY DEF Accounts, TrueReport, Finished
<1> QED BY <1>1, <1>2 DEF Accounts

\* What neither an import nor a diff does anything with when it says so.
importState == <<mapping, reader, config, dir, pc, sending, report, file>>

LEMMA Untouched ==
  ASSUME ImportInv, UNCHANGED importState
  PROVE  ImportInv'
<1>1. /\ UNCHANGED <<mapping, reader>> /\ target' = target /\ onDuplicate' = onDuplicate /\ job' = job
      /\ before' = before /\ dir' = dir /\ pc' = pc /\ group' = group /\ order' = order
      /\ batch' = batch /\ call' = call /\ seen' = seen /\ report' = report /\ file' = file
  BY DEF importState, config, sending
<1>2. /\ refs' = refs /\ drops' = drops /\ read' = read /\ readErr' = readErr
      /\ stage' = stage /\ queue' = queue /\ Preparing' = Preparing
      /\ PrepTypes' /\ ReadingOver' /\ (Sifted => Sifted')
      /\ \A u \in File : InReader(u)' = InReader(u)
  BY <1>1, ReaderKept DEF ImportInv, Types, Journey
<1>3. Types'
  <2>1. SendTypes'
    BY <1>1 DEF ImportInv, Types, SendTypes, Shaped
  <2> QED BY <1>2, <2>1 DEF Types
<1>4. Stations' /\ Grouped'
  BY <1>1, <1>2 DEF ImportInv, Journey, Stations, Grouped, Importing
<1>5. Accounted'
  <2>1. \A u \in File : Waits(u)' = Waits(u) /\ Reported(report, u)' = Reported(report, u)
                         /\ Reported(file, u)' = Reported(file, u)
    BY <1>1 DEF Waits, Reported
  <2> QED BY <1>1, <1>2, <2>1 DEF ImportInv, Journey, Accounted, Importing
<1>6. Accounts' /\ DroppedStaysOut'
  <2>1. ASSUME NEW u \in File, CallsFor(u) PROVE CallsFor(u)'
    BY <1>1, <2>1 DEF CallsFor, Upsert
  <2>2. /\ FoundIsKept' /\ DroppedStaysOut'
        /\ \A u \in File : before'[u].known => dir'[u].known
        /\ report'.ids = Range(report'.succeeded)
        /\ TrueReport(report)' /\ TrueReport(file)'
    BY <1>1, <1>2, AccountsKept DEF ImportInv
  <2>3. batch # <<>> => Head(batch) \in File
    BY HeadFirst DEF ImportInv, Types, SendTypes
  <2>4. (target = "cognito" /\ pc = "send" /\ batch # <<>> => CallsFor(Head(batch)))'
    BY <1>1, <2>1, <2>3 DEF ImportInv, Accounts, CallsFor, Upsert
  <2> QED BY <2>2, <2>4 DEF Accounts
<1>7. Dropped'
  BY <1>1, <1>2 DEF ImportInv, Dropped, Importing, Dropping
<1> QED BY <1>2, <1>3, <1>4, <1>5, <1>6, <1>7 DEF ImportInv, Journey

-----------------------------------------------------------------------------
(* What calls do to accounts. *)

\* An account is only added to, stays as it is once it is as its user is to be, and
\* without upsert stays as an import found it.
Grows ==
  /\ UNCHANGED <<refs, drops, onDuplicate, before>>
  /\ dir' \in [File -> Account]
  /\ \A u \in File :
       /\ dir[u].known => dir'[u].known
       /\ dir[u] = Finished(u) => dir'[u] = Finished(u)
       /\ ~Upsert /\ before[u].known => dir'[u] = dir[u]
       /\ Dropping /\ u \in drops => dir'[u] = dir[u]

LEMMA GrownAccounts ==
  ASSUME Types, Accounts, DroppedStaysOut, Grows
  PROVE  /\ FoundIsKept' /\ DroppedStaysOut'
         /\ \A u \in File : before'[u].known => dir'[u].known
         /\ report' = report => report'.ids = Range(report'.succeeded) /\ TrueReport(report)'
         /\ file' = file => TrueReport(file)'
<1>1. FoundIsKept'
  BY DEF Grows, Accounts, FoundIsKept, Upsert
<1>2. DroppedStaysOut'
  BY DEF Grows, DroppedStaysOut, Dropping, Types, PrepTypes
<1>3. \A u \in File : before'[u].known => dir'[u].known
  BY DEF Grows, Accounts
<1>4. \A u \in File : Finished(u)' = Finished(u)
  BY DEF Finished
<1>5. ASSUME report' = report PROVE report'.ids = Range(report'.succeeded) /\ TrueReport(report)'
  <2>1. /\ Range(report.succeeded) \subseteq File
        /\ \A f \in Range(report.failed) \cup Range(report.skipped) : f[1] \in File
    BY ReportedUsers DEF Types, SendTypes
  <2> QED BY <1>4, <1>5, <2>1 DEF Grows, Accounts, TrueReport
<1>6. ASSUME file' = file PROVE TrueReport(file)'
  <2>1. /\ Range(file.succeeded) \subseteq File
        /\ \A f \in Range(file.failed) \cup Range(file.skipped) : f[1] \in File
    BY ReportedUsers DEF Types, SendTypes
  <2> QED BY <1>4, <1>6, <2>1 DEF Grows, Accounts, TrueReport
<1> QED BY <1>1, <1>2, <1>3, <1>5, <1>6

LEMMA Unmoved ==
  ASSUME Types, UNCHANGED <<refs, drops, onDuplicate, before, dir>>
  PROVE  Grows
BY DEF Grows, Types, SendTypes

-----------------------------------------------------------------------------
(* An import ends. *)

LEMMA Leaves ==
  ASSUME ImportInv, pc' = "idle", PrepTypes', Grows, UNCHANGED <<mapping, read, readErr>>,
         UNCHANGED <<config, sending, report, file>>
  PROVE  ImportInv'
<1>1. /\ target' = target /\ onDuplicate' = onDuplicate /\ job' = job
      /\ before' = before /\ group' = group /\ order' = order
      /\ batch' = batch /\ call' = call /\ seen' = seen /\ report' = report /\ file' = file
      /\ dir' \in [File -> Account]
  BY DEF config, sending, Grows
<1>2. Types'
  <2>1. SendTypes'
    BY <1>1 DEF ImportInv, Types, SendTypes, Shaped
  <2> QED BY <2>1 DEF Types
<1>3. Stations' /\ Dropped' /\ Grouped' /\ ReadingOver'
  BY <1>1 DEF ImportInv, Journey, Stations, Importing, Dropped, Grouped, ReadingOver, mapping, Readable
<1>4. Accounted'
  <2>1. \A u \in File : Reported(file, u)' = Reported(file, u)
    BY <1>1 DEF Reported
  <2> QED BY <1>1, <2>1 DEF ImportInv, Journey, Accounted, Importing
<1>5. Accounts' /\ DroppedStaysOut'
  <2>1. /\ FoundIsKept' /\ DroppedStaysOut'
        /\ \A u \in File : before'[u].known => dir'[u].known
        /\ report'.ids = Range(report'.succeeded) /\ TrueReport(report)' /\ TrueReport(file)'
    BY <1>1, GrownAccounts DEF ImportInv
  <2> QED BY <2>1 DEF Accounts
<1> QED BY <1>2, <1>3, <1>4, <1>5 DEF ImportInv, Journey

LEMMA StopStep ==
  ASSUME ImportInv, Killed \/ Interrupted \/ ReadBreaks
  PROVE  ImportInv'
<1>1. /\ pc' = "idle"
      /\ UNCHANGED <<mapping, reader, config, dir, sending, report, file>>
  BY DEF Killed, Interrupted, ReadBreaks, Returns, prepVars, mapping, reader, config, sending
<1>2. PrepTypes'
  BY <1>1, ReaderKept DEF ImportInv, Types
<1>3. Grows /\ UNCHANGED <<mapping, read, readErr>>
  BY <1>1, Unmoved DEF ImportInv, mapping, reader, config
<1> QED BY <1>1, <1>2, <1>3, Leaves

LEMMA HandlerFailedStep ==
  ASSUME ImportInv, HandlerFailed
  PROVE  ImportInv'
<1>1. /\ pc' = "idle" /\ Abandon
      /\ UNCHANGED <<config, dir, sending, report, file>>
  BY DEF HandlerFailed, Returns, FailureFails, AnswerUnusable
<1>2. batchNo' \in [ImportStrategies -> Nat]
  <2>1. Call(FALSE) \/ Call(TRUE)
    BY DEF HandlerFailed, FailureFails, AnswerUnusable
  <2> QED BY <2>1, Numbered DEF ImportInv, Types
<1>3. PrepTypes'
  BY <1>1, <1>2, AbandonStep DEF ImportInv, Types
<1>4. Grows /\ UNCHANGED <<mapping, read, readErr>>
  BY <1>1, Unmoved DEF ImportInv, mapping, config, Abandon
<1> QED BY <1>1, <1>3, <1>4, Leaves

\* Steps that change nothing of what ImportInv says.
LEMMA StillStep ==
  ASSUME ImportInv, Refused \/ Cancel \/ HandlerRetried
  PROVE  ImportInv'
<1>1. UNCHANGED importState
  BY DEF Refused, Cancel, HandlerRetried, CallRetried, importState, importVars, prepVars, mapping, reader,
         config, sending
<1> QED BY <1>1, Untouched

-----------------------------------------------------------------------------
(* An import goes on. *)

\* The command moves on, and nothing else of what ImportInv says changes.
LEMMA OnwardStep ==
  ASSUME ImportInv, Turn \/ ReadEof \/ ImportAfter \/ ImportAfterFails
  PROVE  ImportInv'
<1>1. /\ UNCHANGED <<mapping, reader, config, dir, sending, report, file>>
      /\ \/ pc = "loop" /\ pc' = "read"
         \/ pc = "read" /\ pc' = "rest" /\ ReadOver /\ readErr = "eof"
         \/ pc = "after" /\ pc' \in {"save", "idle"}
  BY DEF Turn, ReadEof, ImportAfter, ImportAfterFails, prepVars, mapping, reader
<1>2. /\ UNCHANGED <<mapping, reader>> /\ target' = target /\ onDuplicate' = onDuplicate /\ job' = job
      /\ before' = before /\ dir' = dir /\ group' = group /\ order' = order
      /\ batch' = batch /\ call' = call /\ seen' = seen /\ report' = report /\ file' = file
  BY <1>1 DEF config, sending
<1>3. /\ refs' = refs /\ drops' = drops /\ read' = read /\ readErr' = readErr
      /\ stage' = stage /\ queue' = queue /\ Preparing' = Preparing
      /\ PrepTypes' /\ ReadingOver' /\ (Sifted => Sifted')
      /\ \A u \in File : InReader(u)' = InReader(u)
  BY <1>2, ReaderKept DEF ImportInv, Types, Journey
<1>4. Types'
  <2>1. SendTypes'
    BY <1>1, <1>2 DEF ImportInv, Types, SendTypes, Shaped
  <2> QED BY <1>3, <2>1 DEF Types
<1>5. Stations' /\ Grouped'
  <2>1. Grouped'
    BY <1>2 DEF ImportInv, Journey, Grouped
  <2>2. Stations'
    BY <1>1, <1>2, <1>3 DEF ImportInv, Journey, Stations, Importing, ReadOver, Preparing
  <2> QED BY <2>1, <2>2
<1>6. Accounted'
  <2>1. \A u \in File : Waits(u)' = Waits(u) /\ Reported(report, u)' = Reported(report, u)
                         /\ Reported(file, u)' = Reported(file, u)
    BY <1>2 DEF Waits, Reported
  <2> QED BY <1>1, <1>2, <1>3, <2>1 DEF ImportInv, Journey, Accounted, Importing
<1>7. Accounts' /\ DroppedStaysOut'
  <2>1. Grows
    BY <1>2, <1>3, Unmoved DEF ImportInv
  <2>2. pc' # "send"
    BY <1>1
  <2> QED BY <1>2, <2>1, <2>2, GrownAccounts DEF ImportInv, Accounts
<1>8. Dropped'
  BY <1>1, <1>2, <1>3 DEF ImportInv, Dropped, Importing, Dropping
<1> QED BY <1>3, <1>4, <1>5, <1>6, <1>7, <1>8 DEF ImportInv, Journey

LEMMA CountsOf ==
  /\ Types => \A u \in File : /\ InReader(u) \in Nat /\ Waits(u) \in Nat /\ Reported(report, u) \in Nat
                              /\ Reported(file, u) \in Nat
  /\ \A r : Shaped(r) => \A u \in File : Reported(r, u) \in Nat
<1>1. ASSUME NEW r, Shaped(r), NEW u \in File PROVE Reported(r, u) \in Nat
  <2>1. /\ Times(r.succeeded, {u}) \in Nat /\ Times(r.failed, About(u)) \in Nat
        /\ Times(r.skipped, About(u)) \in Nat
    BY <1>1, Counts, CodedEntries DEF Shaped
  <2> QED BY <2>1 DEF Reported
<1>2. ASSUME Types, NEW u \in File PROVE InReader(u) \in Nat /\ Waits(u) \in Nat
  <2>1. /\ Times(raw, {u}) \in Nat /\ Times(queue, {u}) \in Nat /\ Times(skipped, {u}) \in Nat
        /\ Times(batch, {u}) \in Nat
    BY <1>2, Counts DEF Types, PrepTypes, SendTypes
  <2>2. group[ParamsOf[u]] \in Seq(File)
    BY <1>2, ImportAssumption DEF Types, SendTypes
  <2>3. Times(group[ParamsOf[u]], {u}) \in Nat
    BY <2>2, Counts
  <2> QED BY <2>1, <2>3 DEF InReader, Waits
<1>3. Types => Shaped(report) /\ Shaped(file)
  BY DEF Types, SendTypes
<1> QED BY <1>1, <1>2, <1>3

\* What the reader does by itself, or with a handler's answer, as the import goes on.
LEMMA ReadsStep ==
  ASSUME ImportInv, pc \in {"read", "payload"}, ReaderStep, ReadingOver',
         UNCHANGED mapping, UNCHANGED <<config, dir, sending, report, file>>,
         pc' = IF stage = Payload /\ stage' = "idle" THEN "send" ELSE pc,
         stage = Payload => stage' \in {"idle", Payload} /\ queue' = queue /\ readErr' = readErr,
         stage # Payload => stage' # Payload,
         read \in Nat, read' \in Nat, read <= read',
         \A u \in File : InReader(u)' = InReader(u) + (IF read < u /\ u <= read' THEN 1 ELSE 0)
  PROVE  ImportInv'
<1>1. /\ target' = target /\ onDuplicate' = onDuplicate /\ job' = job /\ refs' = refs /\ drops' = drops
      /\ before' = before /\ dir' = dir /\ group' = group /\ order' = order
      /\ batch' = batch /\ call' = call /\ seen' = seen /\ report' = report /\ file' = file
  BY DEF config, sending, mapping
<1>2. pc' \in {"read", "payload", "send"} /\ Importing /\ Importing'
  BY DEF Importing
<1>3. Types'
  <2>1. SendTypes'
    BY <1>1, <1>2 DEF ImportInv, Types, SendTypes, Shaped
  <2> QED BY <2>1 DEF Types, ReaderStep
<1>4. Stations'
  <2>0. "idle" # Payload
    BY DEF Payload
  <2>1. CASE pc = "read"
    <3>1. pc' = "read" /\ stage # Payload /\ stage' # Payload
      BY <2>0, <2>1, <1>2 DEF ImportInv, Journey, Stations
    <3> QED BY <2>1, <3>1, <1>1, <1>2 DEF ImportInv, Journey, Stations, ReaderStep, Preparing
  <2>2. CASE pc = "payload"
    <3>1. stage = Payload /\ (pc' = "send" <=> stage' = "idle") /\ (pc' = "payload" <=> stage' = Payload)
      BY <2>0, <2>2, <1>2 DEF ImportInv, Journey, Stations
    <3> QED BY <2>0, <2>2, <3>1, <1>1, <1>2 DEF ImportInv, Journey, Stations, ReaderStep, Preparing
  <2> QED BY <2>1, <2>2
<1>5. Grouped'
  BY <1>1 DEF ImportInv, Journey, Grouped
<1>6. Accounted'
  <2>1. \A u \in File : Waits(u)' = Waits(u) /\ Reported(report, u)' = Reported(report, u)
                         /\ Reported(file, u)' = Reported(file, u)
    BY <1>1 DEF Waits, Reported
  <2>2. ASSUME NEW u \in File
        PROVE  InReader(u)' + Waits(u)' + Reported(report, u)' = IF u <= read' THEN 1 ELSE 0
    <3>1. InReader(u) + Waits(u) + Reported(report, u) = IF u <= read THEN 1 ELSE 0
      BY <1>2 DEF ImportInv, Journey, Accounted
    <3>2. InReader(u) \in Nat /\ Waits(u) \in Nat /\ Reported(report, u) \in Nat
      BY CountsOf DEF ImportInv
    <3>3. u \in Nat
      BY PrepAssumption DEF File
    <3> QED BY <2>1, <3>1, <3>2, <3>3
  <2>3. pc' \notin {"finish", "after", "save"}
    BY <1>2
  <2> QED BY <1>1, <2>1, <2>2, <2>3 DEF ImportInv, Journey, Accounted
<1>7. Accounts' /\ DroppedStaysOut'
  <2>1. Grows
    BY <1>1, Unmoved DEF ImportInv
  <2>2. target = "cognito" => call' = "none"
    BY <1>1, <1>2 DEF ImportInv, Journey, Stations
  <2>3. (target = "cognito" => \A u : CallsFor(u))'
    BY <2>2, <1>1 DEF CallsFor
  <2>4. /\ FoundIsKept' /\ DroppedStaysOut'
        /\ \A u \in File : before'[u].known => dir'[u].known
        /\ report'.ids = Range(report'.succeeded) /\ TrueReport(report)' /\ TrueReport(file)'
    BY <1>1, <2>1, GrownAccounts DEF ImportInv
  <2> QED BY <2>3, <2>4 DEF Accounts
<1>8. Dropped'
  BY <1>1, <1>2 DEF ImportInv, Dropped, Dropping, ReaderStep
<1> QED BY <1>3, <1>4, <1>5, <1>6, <1>7, <1>8 DEF ImportInv, Journey

LEMMA ReadBatchStep ==
  ASSUME ImportInv, ReadBatch
  PROVE  ImportInv'
<1>1. /\ pc = "read" /\ pc' = pc /\ Fill /\ UNCHANGED <<mapping, config, dir, sending, report, file>>
  BY DEF ReadBatch, importVars, config, sending, Fill
<1>2. /\ ReaderStep /\ ReadingOver' /\ stage' # Payload /\ stage = "idle" /\ readErr = "none"
      /\ read \in Nat /\ read' \in Nat /\ read <= read'
      /\ \A u \in File : InReader(u)' = InReader(u) + (IF read < u /\ u <= read' THEN 1 ELSE 0)
  BY <1>1, FillStep DEF ImportInv, Types
<1>3. "idle" # Payload
  BY DEF Payload
<1>4. pc \in {"read", "payload"} /\ pc' = IF stage = Payload /\ stage' = "idle" THEN "send" ELSE pc
  BY <1>1, <1>2, <1>3
<1> QED BY <1>1, <1>2, <1>3, <1>4, ReadsStep

LEMMA HandlerStep ==
  ASSUME ImportInv, HandlerCalled \/ HandlerIgnored
  PROVE  ImportInv'
<1>1. /\ pc \in {"read", "payload"} /\ AfterPayloads
      /\ UNCHANGED <<mapping, config, dir, sending, report, file>>
      /\ HandlerAnswers \/ FailureIgnored
  BY DEF HandlerCalled, HandlerIgnored, HandlerAnswers, FailureIgnored
<1>2. pc' = IF stage = Payload /\ stage' = "idle" THEN "send" ELSE pc
  BY <1>1 DEF AfterPayloads
<1>3. PrepTypes /\ (Preparing => queue = <<>>)
  BY <1>1 DEF ImportInv, Types, Journey, Stations, Importing
<1>4. /\ ReaderStep /\ read' = read /\ readErr' = readErr
      /\ \A u \in File : InReader(u)' = InReader(u)
      /\ stage = Payload => stage' \in {"idle", Payload} /\ queue' = queue
      /\ stage # Payload => stage' # Payload
  <2>1. CASE HandlerAnswers
    BY <2>1, <1>3, AnswersStep
  <2>2. CASE FailureIgnored
    BY <2>2, <1>3, IgnoredStep
  <2> QED BY <2>1, <2>2, <1>1
<1>5. ReadingOver'
  BY <1>1, <1>4 DEF ImportInv, Journey, ReadingOver, mapping, Readable
<1>6. read \in Nat /\ read' \in Nat /\ read <= read'
  BY <1>3, <1>4, PrepAssumption DEF PrepTypes, Readable
<1>7. ASSUME NEW u \in File
      PROVE  InReader(u)' = InReader(u) + (IF read < u /\ u <= read' THEN 1 ELSE 0)
  <2>1. u \in Nat /\ InReader(u) \in Nat
    BY CountsOf, PrepAssumption DEF ImportInv, File
  <2> QED BY <2>1, <1>4, <1>6
<1> QED BY <1>1, <1>2, <1>4, <1>5, <1>6, <1>7, ReadsStep

LEMMA StartStep ==
  ASSUME ImportInv, Start
  PROVE  ImportInv'
<1>1. /\ target' = target /\ onDuplicate' = onDuplicate /\ job' = job /\ before' = dir /\ dir' = dir
      /\ pc' = "loop" /\ group' = [p \in HashParams |-> <<>>] /\ order' = <<>> /\ batch' = <<>>
      /\ call' = "none" /\ seen' = Absent /\ report' = EmptyReport /\ file' = file
      /\ UNCHANGED mapping /\ PrepReset
  BY DEF Start
<1>2. PrepTypes' /\ ReadingOver' /\ Sifted' /\ \A u \in File : InReader(u)' = 0
  BY <1>1, ResetStep DEF ImportInv, Types
<1>3. refs' = refs /\ drops' = drops /\ read' = 0 /\ stage' = "idle" /\ queue' = <<>> /\ readErr' = "none"
  BY <1>1 DEF mapping, PrepReset
<1>4. Range(<<>>) = {}
  BY DEF Range
<1>5. /\ report' = EmptyReport /\ report'.succeeded = <<>> /\ report'.failed = <<>> /\ report'.skipped = <<>>
      /\ report'.ids = {} /\ DOMAIN report' = {"succeeded", "failed", "skipped", "ids"}
  BY <1>1 DEF EmptyReport
<1>6. Types'
  <2>1. Shaped(report)'
    BY <1>5, CodedEntries DEF Shaped
  <2>2. Shaped(file)'
    BY <1>1 DEF ImportInv, Types, SendTypes, Shaped
  <2>3. Absent \in Account
    BY DEF Absent, Account
  <2>4. SendTypes'
    BY <1>1, <2>1, <2>2, <2>3 DEF ImportInv, Types, SendTypes
  <2> QED BY <1>2, <2>4 DEF Types
<1>7. Stations'
  BY <1>1, <1>3 DEF Stations, Preparing, Payload
<1>8. Grouped'
  BY <1>1, <1>4 DEF Grouped
<1>9. Accounted'
  <2>1. ASSUME NEW u \in File
        PROVE  InReader(u)' + Waits(u)' + Reported(report, u)' = IF u <= read' THEN 1 ELSE 0
    <3>1. Waits(u)' = Times(<<>>, {u}) + Times(<<>>, {u})
      BY <1>1, ImportAssumption DEF Waits
    <3>2. Reported(report, u)' = Times(<<>>, {u}) + Times(<<>>, About(u)) + Times(<<>>, About(u))
      BY <1>5 DEF Reported
    <3>3. Waits(u)' = 0 /\ Reported(report, u)' = 0
      BY <3>1, <3>2, TimesEmpty
    <3>4. u \in Nat /\ ~ (u <= 0)
      BY PrepAssumption DEF File
    <3> QED BY <3>3, <3>4, <1>2, <1>3
  <2>2. \A u \in File : Reported(file, u)' = Reported(file, u)
    BY <1>1 DEF Reported
  <2> QED BY <1>1, <2>1, <2>2 DEF ImportInv, Journey, Accounted
<1>10. Accounts' /\ DroppedStaysOut'
  <2>1. TrueReport(report)' /\ report'.ids = Range(report'.succeeded)
    BY <1>4, <1>5 DEF TrueReport
  <2>2. \A u \in File : Finished(u)' = Finished(u)
    BY DEF Finished
  <2>3. TrueReport(file)'
    BY <1>1 DEF ImportInv, Accounts, TrueReport, Finished
  <2>4. FoundIsKept' /\ DroppedStaysOut' /\ \A u \in File : before'[u].known => dir'[u].known
    BY <1>1, <1>3 DEF FoundIsKept, DroppedStaysOut
  <2>5. pc' # "send"
    BY <1>1
  <2> QED BY <2>1, <2>3, <2>4, <2>5 DEF Accounts
<1>11. Dropped'
  <2>1. ASSUME NEW u \in drops PROVE group'[ParamsOf[u]] = <<>>
    BY <1>1, ImportAssumption DEF ImportInv, Types, PrepTypes
  <2> QED BY <1>1, <1>2, <1>3, <1>4, <2>1 DEF Dropped, Dropping
<1> QED BY <1>2, <1>6, <1>7, <1>8, <1>9, <1>10, <1>11 DEF ImportInv, Journey

-----------------------------------------------------------------------------
(* What is added to the report. *)

\* The entries of a, b and c come to what has succeeded, failed and been skipped.
Adds(a, b, c) ==
  /\ DOMAIN report' = DOMAIN report
  /\ report'.succeeded = report.succeeded \o a
  /\ report'.failed = report.failed \o b
  /\ report'.skipped = report.skipped \o c
  /\ report'.ids = report.ids \cup Range(a)

LEMMA AddsStep ==
  ASSUME Types, NEW a \in Seq(File), NEW b \in Coded, NEW c \in Coded,
         Adds(a, b, c)
  PROVE  /\ Shaped(report)'
         /\ \A u \in File : Reported(report, u)' = Reported(report, u) + Times(a, {u})
                                       + Times(b, About(u)) + Times(c, About(u))
         /\ Range(report'.succeeded) = Range(report.succeeded) \cup Range(a)
         /\ Range(report'.failed) = Range(report.failed) \cup Range(b)
         /\ Range(report'.skipped) = Range(report.skipped) \cup Range(c)
<1>1. Shaped(report)
  BY DEF Types, SendTypes
<1>2. Shaped(report)'
  <2>1. Range(a) \subseteq File
    BY DEF Range
  <2> QED BY <1>1, <2>1, CodedEntries DEF Shaped, Adds
<1>3. /\ Range(report'.succeeded) = Range(report.succeeded) \cup Range(a)
      /\ Range(report'.failed) = Range(report.failed) \cup Range(b)
      /\ Range(report'.skipped) = Range(report.skipped) \cup Range(c)
  <2>1. Range(report'.succeeded) = Range(report.succeeded) \cup Range(a)
    BY <1>1, RangeConcat DEF Shaped, Adds
  <2>2. Range(report'.failed) = Range(report.failed) \cup Range(b)
    BY <1>1, CodedEntries DEF Shaped, Adds
  <2>3. Range(report'.skipped) = Range(report.skipped) \cup Range(c)
    BY <1>1, CodedEntries DEF Shaped, Adds
  <2> QED BY <2>1, <2>2, <2>3
<1>4. ASSUME NEW u \in File
      PROVE  Reported(report, u)' = Reported(report, u) + Times(a, {u})
                                       + Times(b, About(u)) + Times(c, About(u))
  <2>a. /\ report.failed \in Coded /\ report'.failed = report.failed \o b
        /\ report.skipped \in Coded /\ report'.skipped = report.skipped \o c
    BY <1>1 DEF Shaped, Adds
  <2>1. /\ Times(report'.succeeded, {u}) = Times(report.succeeded, {u}) + Times(a, {u})
        /\ Times(report.succeeded, {u}) \in Nat /\ Times(a, {u}) \in Nat
    BY <1>1, Counts DEF Shaped, Adds
  <2>2. /\ Times(report'.failed, About(u)) = Times(report.failed, About(u)) + Times(b, About(u))
        /\ Times(report.failed, About(u)) \in Nat /\ Times(b, About(u)) \in Nat
    BY <2>a, CodedEntries
  <2>3. /\ Times(report'.skipped, About(u)) = Times(report.skipped, About(u)) + Times(c, About(u))
        /\ Times(report.skipped, About(u)) \in Nat /\ Times(c, About(u)) \in Nat
    BY <2>a, CodedEntries
  <2>4. /\ Reported(report, u) = Times(report.succeeded, {u}) + Times(report.failed, About(u)) + Times(report.skipped, About(u))
        /\ Reported(report, u)' = Times(report'.succeeded, {u}) + Times(report'.failed, About(u)) + Times(report'.skipped, About(u))
    BY DEF Reported
  <2> QED BY <2>1, <2>2, <2>3, <2>4
<1> QED BY <1>2, <1>3, <1>4

\* The report stays true when what comes to it is.
LEMMA AddsTruth ==
  ASSUME Types, Accounts, DroppedStaysOut, Grows,
         NEW a \in Seq(File), NEW b \in Coded, NEW c \in Coded,
         Adds(a, b, c),
         \A u \in Range(a) : dir'[u] = Finished(u),
         \A f \in Range(b) \cup Range(c) : f[2] = "EXISTS" => dir'[f[1]].known,
         \A f \in Range(c) : f[2] \in {"EXISTS", "SKIPPED"}
  PROVE  report'.ids = Range(report'.succeeded) /\ TrueReport(report)'
<1>1. /\ Range(report'.succeeded) = Range(report.succeeded) \cup Range(a)
      /\ Range(report'.failed) = Range(report.failed) \cup Range(b)
      /\ Range(report'.skipped) = Range(report.skipped) \cup Range(c)
  BY AddsStep
<1>2. report'.ids = Range(report'.succeeded)
  BY <1>1 DEF Adds, Accounts
<1>3. \A u \in File : Finished(u)' = Finished(u)
  BY DEF Finished
<1>4. /\ Range(report.succeeded) \subseteq File
      /\ \A f \in Range(report.failed) \cup Range(report.skipped) : f[1] \in File
  BY ReportedUsers DEF Types, SendTypes
<1>5. /\ \A u \in Range(report.succeeded) : dir[u] = Finished(u)
      /\ \A f \in Range(report.failed) \cup Range(report.skipped) : f[2] = "EXISTS" => dir[f[1]].known
      /\ \A f \in Range(report.skipped) : f[2] \in {"EXISTS", "SKIPPED"}
  BY DEF Accounts, TrueReport
<1>6. \A u \in Range(report.succeeded) \cup Range(a) : dir'[u] = Finished(u)
  BY <1>4, <1>5 DEF Grows
<1>7. \A f \in (Range(report.failed) \cup Range(b)) \cup (Range(report.skipped) \cup Range(c)) :
        f[2] = "EXISTS" => dir'[f[1]].known
  BY <1>4, <1>5 DEF Grows
<1>8. \A u \in Range(report'.succeeded) : dir'[u] = Finished(u)
  BY <1>1, <1>6
<1> QED BY <1>1, <1>2, <1>5, <1>7, <1>8 DEF TrueReport, Finished

-----------------------------------------------------------------------------
(* The users prepared are built, grouped and sent. *)

\* What an import does with users when none is being sent: they leave the queue and
\* the groups to be sent, or failed.
LEMMA SendStep ==
  ASSUME ImportInv, pc \in {"read", "rest"}, stage = "idle", NEW us \in Seq(File), Send(us),
         UNCHANGED <<mapping, read, readErr, batchNo, skipped, applied>>,
         UNCHANGED <<target, onDuplicate, job, before, dir, seen, file>>,
         queue' \in Seq(File), Range(queue') \subseteq Range(queue), pc = "rest" => queue' = queue,
         group' \in [HashParams -> Seq(File)], order' \in Seq(HashParams), Grouped',
         \/ pc = "read" /\ call' = call
         \/ pc = "rest" /\ call' = "rest" /\ target = "firebase" /\ us # <<>>,
         Shaped(report)', report'.ids = Range(report'.succeeded), TrueReport(report)',
         \A u \in File : Times(queue', {u}) + Times(group'[ParamsOf[u]], {u}) + Times(us, {u})
                             + Reported(report, u)'
                           = Times(queue, {u}) + Times(group[ParamsOf[u]], {u}) + Reported(report, u),
         Dropping => \A u \in drops : u \notin Range(us) \cup Range(group'[ParamsOf[u]])
  PROVE  ImportInv'
<1>1. /\ refs' = refs /\ drops' = drops /\ broken' = broken /\ Readable' = Readable
      /\ Importing /\ batch = <<>> /\ (pc = "read" => call = "none") /\ ~Preparing
  BY DEF mapping, Importing, Readable, ImportInv, Journey, Stations, Preparing
<1>2. /\ batch' = us
      /\ \/ us # <<>> /\ stage' = Payload /\ items' = us /\ raw' = us /\ answered' = {} /\ pc' = "payload"
         \/ /\ stage' = stage /\ items' = items /\ raw' = raw /\ answered' = answered
            /\ pc' = IF us = <<>> THEN "loop" ELSE "send"
  BY DEF Send, AskPayload
<1>3. PrepTypes'
  <2>1. Payload \in ImportStrategies
    BY Strategies
  <2> QED BY <1>1, <1>2, <2>1 DEF PrepTypes, ImportInv, Types
<1>4. SendTypes'
  <2>1. Shaped(file)'
    BY DEF ImportInv, Types, SendTypes, Shaped
  <2> QED BY <1>2, <2>1 DEF SendTypes, ImportInv, Types
<1>5. "idle" # Payload /\ "import.user" # Payload
  BY DEF Payload
<1>6. Stations'
  <2>1. pc' = "payload" <=> stage' = Payload
    BY <1>2, <1>5
  <2>2. ~Preparing'
    BY <1>2 DEF Preparing
  <2> QED BY <1>1, <1>2, <2>1, <2>2 DEF ImportInv, Journey, Stations, Importing
<1>7. ReadingOver'
  BY <1>1 DEF ImportInv, Journey, ReadingOver
<1>8. Importing' /\ pc' \notin {"finish", "after", "save"}
  BY <1>2 DEF Importing
<1>9. Accounted'
  <2>1. ASSUME NEW u \in File
        PROVE  InReader(u)' + Waits(u)' + Reported(report, u)' = IF u <= read' THEN 1 ELSE 0
    <3>1. InReader(u) + Waits(u) + Reported(report, u) = IF u <= read THEN 1 ELSE 0
      BY <1>1 DEF ImportInv, Journey, Accounted
    <3>2. /\ InReader(u) = 0 + Times(queue, {u}) + Times(skipped, {u})
          /\ InReader(u)' = 0 + Times(queue', {u}) + Times(skipped, {u})
      BY <1>1, <1>2 DEF InReader, Preparing
    <3>3. /\ Waits(u) = Times(group[ParamsOf[u]], {u}) + Times(<<>>, {u})
          /\ Waits(u)' = Times(group'[ParamsOf[u]], {u}) + Times(us, {u})
      BY <1>1, <1>2 DEF Waits
    <3>4. ParamsOf[u] \in HashParams
      BY ImportAssumption
    <3>5. /\ Times(queue, {u}) \in Nat /\ Times(queue', {u}) \in Nat /\ Times(skipped, {u}) \in Nat
          /\ Times(us, {u}) \in Nat /\ Times(<<>>, {u}) = 0
      BY Counts DEF ImportInv, Types, PrepTypes
    <3>6. Times(group[ParamsOf[u]], {u}) \in Nat /\ Times(group'[ParamsOf[u]], {u}) \in Nat
      BY <3>4, Counts DEF ImportInv, Types, SendTypes
    <3>7. Reported(report, u) \in Nat
      BY CountsOf DEF ImportInv
    <3>8. Reported(report, u)' \in Nat
      BY CountsOf DEF Reported, Shaped
    <3>9. Times(queue', {u}) + Times(group'[ParamsOf[u]], {u}) + Times(us, {u}) + Reported(report, u)'
            = Times(queue, {u}) + Times(group[ParamsOf[u]], {u}) + Reported(report, u)
      OBVIOUS
    <3>10. read' = read
      OBVIOUS
    <3>12. InReader(u)' + Waits(u)' + Reported(report, u)' = InReader(u) + Waits(u) + Reported(report, u)
      <4>1. PICK q \in Nat, q1 \in Nat, s \in Nat, g \in Nat, g1 \in Nat, w \in Nat, r \in Nat, r1 \in Nat :
              /\ q = Times(queue, {u}) /\ q1 = Times(queue', {u}) /\ s = Times(skipped, {u})
              /\ g = Times(group[ParamsOf[u]], {u}) /\ g1 = Times(group'[ParamsOf[u]], {u})
              /\ w = Times(us, {u}) /\ r = Reported(report, u) /\ r1 = Reported(report, u)'
        BY <3>5, <3>6, <3>7, <3>8
      <4>2. q1 + g1 + w + r1 = q + g + r
        BY <4>1, <3>9, Zenon
      <4>3. (0 + q1 + s) + (g1 + w) + r1 = (0 + q + s) + (g + 0) + r
        <5>1. (0 + q1 + s) + (g1 + w) + r1 = s + (q1 + g1 + w + r1)
          OBVIOUS
        <5>2. (0 + q + s) + (g + 0) + r = s + (q + g + r)
          OBVIOUS
        <5> QED BY <4>2, <5>1, <5>2, Zenon
      <4>4. /\ InReader(u) = 0 + q + s /\ InReader(u)' = 0 + q1 + s /\ Waits(u) = g + 0 /\ Waits(u)' = g1 + w
        BY <4>1, <3>2, <3>3, <3>5
      <4> QED BY <4>1, <4>3, <4>4
    <3> QED BY <3>1, <3>10, <3>12, Zenon
  <2>2. \A u \in File : Reported(file, u)' = Reported(file, u)
    BY DEF Reported
  <2> QED BY <1>8, <2>1, <2>2 DEF ImportInv, Journey, Accounted
<1>10. Accounts' /\ DroppedStaysOut'
  <2>1. Grows
    BY <1>1, Unmoved DEF ImportInv
  <2>2. target = "cognito" => call' = "none"
    BY <1>1
  <2>3. (target = "cognito" => \A u : CallsFor(u))'
    BY <2>2 DEF CallsFor
  <2>4. /\ FoundIsKept' /\ DroppedStaysOut' /\ TrueReport(file)'
        /\ \A u \in File : before'[u].known => dir'[u].known
    BY <2>1, GrownAccounts DEF ImportInv
  <2> QED BY <2>3, <2>4 DEF Accounts
<1>11. Dropped'
  <2>1. Sifted
    BY <1>1 DEF ImportInv, Dropped
  <2>2. Sifted'
    BY <1>1, <1>2, <1>5, <2>1 DEF Sifted, Dropping
  <2> QED BY <1>1, <1>2, <2>2 DEF Dropped, Dropping
<1> QED BY <1>3, <1>4, <1>6, <1>7, <1>9, <1>10, <1>11 DEF ImportInv, Types, Journey

\* The users of us that cannot be translated fail, and the others stay.
LEMMA Translating ==
  ASSUME ImportInv, NEW us \in Seq(File), report' = Untranslated(us),
         UNCHANGED <<refs, drops, onDuplicate, before, dir>>
  PROVE  /\ Shaped(report)' /\ report'.ids = Range(report'.succeeded) /\ TrueReport(report)'
         /\ Select(us, Translatable) \in Seq(File)
         /\ Range(Select(us, Translatable)) = Range(us) \cap Translatable
         /\ \A u \in File : Reported(report, u)' + Times(Select(us, Translatable), {u})
                              = Reported(report, u) + Times(us, {u})
<1> DEFINE bad == Select(us, File \ Translatable)
           good == Select(us, Translatable)
           b == [i \in DOMAIN bad |-> <<bad[i], "TRANSLATION_ERROR">>]
<1>1. /\ bad \in Seq(File) /\ good \in Seq(File) /\ Range(good) = Range(us) \cap Translatable
  BY SelectType
<1>2. "TRANSLATION_ERROR" \in Codes
  BY DEF Codes
<1>4. report' = [report EXCEPT !.failed = @ \o b]
  BY DEF Untranslated
<1> HIDE DEF bad, good
<1>3. /\ b \in Coded /\ Range(b) = Range(bad) \X {"TRANSLATION_ERROR"}
      /\ \A u : Times(b, About(u)) = Times(bad, {u})
  BY <1>1, <1>2, CodedPairs
<1> HIDE DEF b
<1>5. \A u \in File : Times(bad, {u}) + Times(good, {u}) = Times(us, {u})
  <2>1. ASSUME NEW u \in File PROVE Times(bad, {u}) + Times(good, {u}) = Times(us, {u})
    <3>1. /\ Times(bad, {u}) = Times(us, (File \ Translatable) \cap {u})
          /\ Times(good, {u}) = Times(us, Translatable \cap {u})
      BY SelectTimes DEF bad, good
    <3>2. Times(us, {}) = 0 /\ Times(us, {u}) \in Nat
      BY TimesNone, Counts
    <3>3. CASE u \in Translatable
      <4>1. (File \ Translatable) \cap {u} = {} /\ Translatable \cap {u} = {u}
        BY <3>3
      <4>2. Times(bad, {u}) = Times(us, {}) /\ Times(good, {u}) = Times(us, {u})
        BY <3>1, <4>1, Zenon
      <4> QED BY <3>2, <4>2
    <3>4. CASE u \notin Translatable
      <4>1. (File \ Translatable) \cap {u} = {u} /\ Translatable \cap {u} = {}
        BY <3>4
      <4>2. Times(bad, {u}) = Times(us, {u}) /\ Times(good, {u}) = Times(us, {})
        BY <3>1, <4>1, Zenon
      <4> QED BY <3>2, <4>2
    <3> QED BY <3>3, <3>4
  <2> QED BY <2>1
<1>6. Types /\ Accounts /\ DroppedStaysOut /\ Shaped(report)
  BY DEF ImportInv, Types, SendTypes
<1>7. Adds(<<>>, b, <<>>) /\ <<>> \in Seq(File) /\ <<>> \in Coded
  <2>1. /\ DOMAIN report = {"succeeded", "failed", "skipped", "ids"} /\ report.succeeded \in Seq(File)
        /\ report.skipped \in Coded
    BY <1>6 DEF Shaped
  <2>2. report.succeeded \o <<>> = report.succeeded
    BY <2>1
  <2>3. report.skipped \o <<>> = report.skipped
    BY <2>1 DEF Coded
  <2>4. Range(<<>>) = {}
    BY DEF Range
  <2>5. /\ DOMAIN report' = DOMAIN report /\ report'.succeeded = report.succeeded
        /\ report'.failed = report.failed \o b /\ report'.skipped = report.skipped
        /\ report'.ids = report.ids
    BY <2>1, <1>4
  <2> QED BY <2>2, <2>3, <2>4, <2>5, CodedEntries DEF Adds
<1>8. /\ Shaped(report)'
      /\ \A u \in File : Reported(report, u)' = Reported(report, u) + Times(<<>>, {u})
                                       + Times(b, About(u)) + Times(<<>>, About(u))
  BY <1>3, <1>6, <1>7, AddsStep
<1>9. report'.ids = Range(report'.succeeded) /\ TrueReport(report)'
  <2>1. Grows
    BY <1>6, Unmoved
  <2>2. Range(<<>>) = {}
    BY DEF Range
  <2>3. \A f \in Range(b) : f[2] # "EXISTS"
    BY <1>3
  <2> QED BY <1>3, <1>6, <1>7, <2>1, <2>2, <2>3, AddsTruth
<1>10. ASSUME NEW u \in File
       PROVE  Reported(report, u)' + Times(good, {u}) = Reported(report, u) + Times(us, {u})
  <2>1. Times(<<>>, {u}) = 0 /\ Times(<<>>, About(u)) = 0
    BY TimesEmpty
  <2>2. Reported(report, u) \in Nat /\ Times(bad, {u}) \in Nat /\ Times(good, {u}) \in Nat
    BY <1>1, <1>6, CountsOf, Counts
  <2>3. Reported(report, u)' = Reported(report, u) + Times(bad, {u})
    BY <1>3, <1>8, <2>1, <2>2
  <2> QED BY <2>2, <2>3, <1>5
<1> QED BY <1>1, <1>8, <1>9, <1>10 DEF good

LEMMA BuildStep ==
  ASSUME ImportInv, Build
  PROVE  ImportInv'
<1>1. /\ pc = "read" /\ target # "firebase" /\ stage = "idle" /\ report' = Untranslated(queue)
      /\ queue' = <<>> /\ Send(Select(queue, Translatable))
      /\ UNCHANGED <<mapping, read, readErr, batchNo, skipped, applied>>
      /\ UNCHANGED <<target, onDuplicate, job, before, dir, seen, file>>
      /\ UNCHANGED <<refs, drops, group, order, call>>
  BY DEF Build, config, mapping
<1>2. queue \in Seq(File) /\ group \in [HashParams -> Seq(File)] /\ order \in Seq(HashParams)
  BY DEF ImportInv, Types, PrepTypes, SendTypes
<1>3. PICK us : us = Select(queue, Translatable)
  OBVIOUS
<1>4. /\ Shaped(report)' /\ report'.ids = Range(report'.succeeded) /\ TrueReport(report)'
      /\ us \in Seq(File) /\ Range(us) = Range(queue) \cap Translatable
      /\ \A u \in File : Reported(report, u)' + Times(us, {u}) = Reported(report, u) + Times(queue, {u})
  BY <1>1, <1>2, <1>3, Translating
<1>5. Grouped'
  BY <1>1 DEF ImportInv, Journey, Grouped
<1>6. ASSUME NEW u \in File
      PROVE  Times(queue', {u}) + Times(group'[ParamsOf[u]], {u}) + Times(us, {u}) + Reported(report, u)'
               = Times(queue, {u}) + Times(group[ParamsOf[u]], {u}) + Reported(report, u)
  <2>1. Times(queue', {u}) = 0 /\ Times(queue, {u}) \in Nat /\ Times(us, {u}) \in Nat
    BY <1>1, <1>2, <1>4, Counts
  <2>2. ParamsOf[u] \in HashParams
    BY ImportAssumption
  <2>3. Times(group[ParamsOf[u]], {u}) \in Nat /\ group'[ParamsOf[u]] = group[ParamsOf[u]]
    BY <1>1, <1>2, <2>2, Counts
  <2>4. Reported(report, u) \in Nat
    BY CountsOf DEF ImportInv
  <2>5. Reported(report, u)' \in Nat
    BY <1>4, CountsOf DEF Reported, Shaped
  <2>6. \A q, g, w, r, r1 \in Nat : r1 + w = r + q => 0 + g + w + r1 = q + g + r
    OBVIOUS
  <2> QED BY <2>1, <2>3, <2>4, <2>5, <2>6, <1>4
<1>7. Dropping => \A u \in drops : u \notin Range(us) \cup Range(group'[ParamsOf[u]])
  BY <1>1, <1>4 DEF ImportInv, Dropped, Importing, Sifted
<1>8. queue' \in Seq(File) /\ Range(queue') \subseteq Range(queue)
  BY <1>1 DEF Range
<1> QED BY <1>1, <1>2, <1>3, <1>4, <1>5, <1>6, <1>7, <1>8, SendStep

\* Of a group only users of its configuration are sent.
LEMMA OneConfiguration ==
  ASSUME NEW p, NEW us \in Seq(File), \A u \in Range(us) : ParamsOf[u] = p
  PROVE  \A v \in File : ParamsOf[v] # p => Times(us, {v}) = 0
<1>1. ASSUME NEW v \in File, ParamsOf[v] # p PROVE Times(us, {v}) = 0
  <2>1. Range(us) \cap {v} = {}
    BY <1>1
  <2> QED BY <2>1, TimesNone
<1> QED BY <1>1

LEMMA TakeStep ==
  ASSUME ImportInv, Take
  PROVE  ImportInv'
<1>1. /\ pc = "read" /\ target = "firebase" /\ stage = "idle" /\ queue # <<>> /\ queue' = Tail(queue)
      /\ UNCHANGED <<mapping, read, readErr, batchNo, skipped, applied>>
      /\ UNCHANGED <<target, onDuplicate, job, before, dir, seen, file>>
      /\ UNCHANGED <<refs, drops, call>>
  BY DEF Take, config, mapping
<1>2. queue \in Seq(File) /\ group \in [HashParams -> Seq(File)] /\ order \in Seq(HashParams)
  BY DEF ImportInv, Types, PrepTypes, SendTypes
<1>3. PICK u, p, us, one, t, is :
        /\ u = Head(queue) /\ p = ParamsOf[u] /\ us = Append(group[p], u) /\ one = <<u>>
        /\ t = Select(one, Translatable) /\ is = [v \in File |-> IF v = u THEN 1 ELSE 0]
  OBVIOUS
<1>4. /\ report' = Untranslated(one)
      /\ \/ /\ u \in Translatable
            /\ order' = IF p \in Range(order) THEN order ELSE Append(order, p)
            /\ group' = [group EXCEPT ![p] = IF Len(us) = FlushSize THEN <<>> ELSE us]
            /\ Send(IF Len(us) = FlushSize THEN us ELSE <<>>)
         \/ u \notin Translatable /\ UNCHANGED <<order, group>> /\ Send(<<>>)
  BY <1>3 DEF Take
<1>a. \A v \in File : is[v] \in Nat /\ is[v] = IF u \in {v} THEN 1 ELSE 0
  BY <1>3
<1>5. /\ u \in File /\ queue' \in Seq(File) /\ Range(queue) = {u} \cup Range(queue')
      /\ \A v \in File : Times(queue, {v}) = is[v] + Times(queue', {v})
      /\ \A v \in File : Times(queue', {v}) \in Nat
  <2>1. /\ u \in File /\ Tail(queue) \in Seq(File) /\ Range(queue) = {u} \cup Range(Tail(queue))
        /\ \A C : Times(queue, C) = (IF u \in C THEN 1 ELSE 0) + Times(Tail(queue), C)
    BY <1>1, <1>2, <1>3, HeadFirst
  <2> QED BY <2>1, <1>1, <1>a, Counts
<1>6. p \in HashParams /\ group[p] \in Seq(File)
  BY <1>2, <1>3, <1>5, ImportAssumption
<1>7. /\ us \in Seq(File) /\ one \in Seq(File) /\ Range(us) = Range(group[p]) \cup {u} /\ Range(one) = {u}
      /\ us # <<>>
      /\ \A v \in File : Times(us, {v}) = Times(group[p], {v}) + is[v]
      /\ \A v \in File : Times(one, {v}) = is[v]
  <2>1. us \in Seq(File) /\ one \in Seq(File) /\ us # <<>>
    BY <1>3, <1>5, <1>6
  <2>2. Range(us) = Range(group[p]) \cup {u}
    BY <1>3, <1>5, <1>6, RangeAppend
  <2>3. Range(one) = {u}
    BY <1>3 DEF Range
  <2>4. ASSUME NEW v \in File PROVE Times(us, {v}) = Times(group[p], {v}) + is[v]
    <3>1. Times(us, {v}) = Times(group[p], {v}) + (IF u \in {v} THEN 1 ELSE 0)
      BY <1>3, <1>5, <1>6, TimesAppend
    <3> QED BY <3>1, <1>a
  <2>5. ASSUME NEW v \in File PROVE Times(one, {v}) = is[v]
    <3>1. Times(one, {v}) = IF u \in {v} THEN 1 ELSE 0
      BY <1>3, <1>5, OneUser
    <3> QED BY <3>1, <1>a
  <2> QED BY <2>1, <2>2, <2>3, <2>4, <2>5
<1>8. /\ Shaped(report)' /\ report'.ids = Range(report'.succeeded) /\ TrueReport(report)'
      /\ t \in Seq(File) /\ Range(t) = Range(one) \cap Translatable
      /\ \A v \in File : Reported(report, v)' + Times(t, {v}) = Reported(report, v) + Times(one, {v})
  BY <1>1, <1>3, <1>4, <1>7, Translating
<1>9. ASSUME NEW v \in File
      PROVE  /\ Reported(report, v) \in Nat /\ Reported(report, v)' \in Nat /\ Times(t, {v}) \in Nat
             /\ Times(group[ParamsOf[v]], {v}) \in Nat
  <2>1. Reported(report, v) \in Nat
    BY CountsOf DEF ImportInv
  <2>2. Reported(report, v)' \in Nat
    BY <1>8, CountsOf DEF Reported, Shaped
  <2>3. group[ParamsOf[v]] \in Seq(File)
    BY <1>2, ImportAssumption
  <2> QED BY <2>1, <2>2, <2>3, <1>8, Counts
<1>10. \A v \in Range(group[p]) : v \in File /\ ParamsOf[v] = p
  <2>1. Range(group[p]) \subseteq File
    BY <1>6 DEF Range
  <2> QED BY <2>1, <1>6 DEF ImportInv, Journey, Grouped
<1>11. Dropping => \A v \in drops : v # u /\ v \notin Range(group[ParamsOf[v]])
  BY <1>1, <1>5 DEF ImportInv, Dropped, Importing, Sifted
<1>12. queue' \in Seq(File) /\ Range(queue') \subseteq Range(queue) /\ pc \in {"read", "rest"}
  BY <1>1, <1>5
<1>b. <<>> \in Seq(File) /\ Range(<<>>) = {} /\ \A v : Times(<<>>, {v}) = 0
  BY TimesEmpty DEF Range
<1>13. CASE u \notin Translatable /\ UNCHANGED <<order, group>> /\ Send(<<>>)
  <2>1. Grouped'
    BY <1>1, <1>13 DEF ImportInv, Journey, Grouped
  <2>2. Range(t) = {}
    BY <1>7, <1>8, <1>13
  <2>3. ASSUME NEW v \in File
        PROVE  Times(queue', {v}) + Times(group'[ParamsOf[v]], {v}) + Times(<<>>, {v}) + Reported(report, v)'
                 = Times(queue, {v}) + Times(group[ParamsOf[v]], {v}) + Reported(report, v)
    <3>1. Times(t, {v}) = 0
      <4>1. Range(t) \cap {v} = {}
        BY <2>2
      <4> QED BY <4>1, <1>8, TimesNone
    <3>2. PICK q1 \in Nat, g \in Nat, r \in Nat, r1 \in Nat, i \in Nat :
            /\ q1 = Times(queue', {v}) /\ g = Times(group[ParamsOf[v]], {v}) /\ r = Reported(report, v)
            /\ r1 = Reported(report, v)' /\ i = is[v]
      BY <1>5, <1>9, <1>a
    <3>3. Times(queue, {v}) = i + q1 /\ Times(group'[ParamsOf[v]], {v}) = g /\ r1 + 0 = r + i
      BY <3>1, <3>2, <1>5, <1>7, <1>8, <1>13
    <3>4. q1 + g + 0 + r1 = (i + q1) + g + r
      BY <3>3
    <3> QED BY <3>2, <3>3, <3>4, <1>b
  <2>4. Dropping => \A v \in drops : v \notin Range(<<>>) \cup Range(group'[ParamsOf[v]])
    BY <1>11, <1>13, <1>b
  <2>5. call' = call /\ pc # "rest" /\ group' \in [HashParams -> Seq(File)] /\ order' \in Seq(HashParams)
    BY <1>1, <1>2, <1>13
  <2> QED BY <1>1, <1>8, <1>12, <1>13, <1>b, <2>1, <2>3, <2>4, <2>5, SendStep
<1>14. CASE u \in Translatable
  <2>1. PICK sent, rest :
          /\ sent = IF Len(us) = FlushSize THEN us ELSE <<>>
          /\ rest = IF Len(us) = FlushSize THEN <<>> ELSE us
    OBVIOUS
  <2>2. /\ order' = IF p \in Range(order) THEN order ELSE Append(order, p)
        /\ group' = [group EXCEPT ![p] = rest] /\ Send(sent)
    BY <1>4, <1>14, <2>1
  <2>a. (sent = us /\ rest = <<>>) \/ (sent = <<>> /\ rest = us)
    BY <2>1
  <2>3. /\ sent \in Seq(File) /\ rest \in Seq(File)
        /\ Range(sent) \cup Range(rest) \subseteq Range(us)
    BY <1>7, <2>a, <1>b
  <2>4. \A v \in Range(sent) \cup Range(rest) : v \in File /\ ParamsOf[v] = p
    BY <1>3, <1>5, <1>7, <1>10, <2>3
  <2>5. /\ group' \in [HashParams -> Seq(File)]
        /\ \A v \in File :
              /\ ParamsOf[v] = p => group'[ParamsOf[v]] = rest
              /\ ParamsOf[v] # p => group'[ParamsOf[v]] = group[ParamsOf[v]] /\ Times(sent, {v}) = 0
    <3>1. /\ group' \in [HashParams -> Seq(File)] /\ group'[p] = rest
          /\ \A q \in HashParams : q # p => group'[q] = group[q]
      BY <1>2, <1>6, <2>2, <2>3
    <3>2. \A v \in File : ParamsOf[v] # p => Times(sent, {v}) = 0
      BY <2>3, <2>4, OneConfiguration
    <3> QED BY <3>1, <3>2, ImportAssumption
  <2>6. ASSUME NEW v \in File
        PROVE  Times(queue', {v}) + Times(group'[ParamsOf[v]], {v}) + Times(sent, {v}) + Reported(report, v)'
                 = Times(queue, {v}) + Times(group[ParamsOf[v]], {v}) + Reported(report, v)
    <3>1. Times(t, {v}) = Times(one, {v})
      <4>1. Times(t, {v}) = Times(one, Translatable \cap {v})
        <5>1. t = Select(one, Translatable) /\ one \in Seq(File)
          BY <1>3, <1>7
        <5>2. Times(Select(one, Translatable), {v}) = Times(one, Translatable \cap {v})
          BY <5>1, SelectTimes
        <5> QED BY <5>1, <5>2, Zenon
      <4>2. CASE v \in Translatable
        <5>1. Translatable \cap {v} = {v}
          BY <4>2
        <5> QED BY <4>1, <5>1, Zenon
      <4>3. CASE v \notin Translatable
        <5>1. Range(t) \cap {v} = {} /\ u \notin {v}
          BY <4>3, <1>7, <1>8, <1>14
        <5>2. Times(t, {v}) = 0
          BY <5>1, <1>8, TimesNone
        <5>3. is[v] = 0
          BY <5>1, <1>a
        <5> QED BY <5>2, <5>3, <1>7
      <4> QED BY <4>2, <4>3
    <3>2. PICK q1 \in Nat, g \in Nat, r \in Nat, r1 \in Nat, i \in Nat :
            /\ q1 = Times(queue', {v}) /\ g = Times(group[ParamsOf[v]], {v}) /\ r = Reported(report, v)
            /\ r1 = Reported(report, v)' /\ i = is[v]
      BY <1>5, <1>9, <1>a
    <3>3. Times(queue, {v}) = i + q1 /\ r1 + i = r + i
      BY <3>1, <3>2, <1>5, <1>7, <1>8
    <3>4. PICK g1 \in Nat, s \in Nat : g1 = Times(group'[ParamsOf[v]], {v}) /\ s = Times(sent, {v})
      BY <2>3, <2>5, ImportAssumption, Counts
    <3>5. g1 + s = g + i
      <4>1. CASE ParamsOf[v] = p
        <5>1. g1 = Times(rest, {v}) /\ Times(us, {v}) = g + i
          BY <4>1, <2>5, <3>2, <3>4, <1>7
        <5>2. CASE sent = us /\ rest = <<>>
          <6>1. g1 = 0 /\ s = g + i
            BY <5>1, <5>2, <3>4, <1>b
          <6> QED BY <6>1
        <5>3. CASE sent = <<>> /\ rest = us
          <6>1. g1 = g + i /\ s = 0
            BY <5>1, <5>3, <3>4, <1>b
          <6> QED BY <6>1
        <5> QED BY <5>2, <5>3, <2>a
      <4>2. CASE ParamsOf[v] # p
        <5>1. g1 = g /\ s = 0 /\ u \notin {v}
          BY <4>2, <2>5, <3>2, <3>4, <1>3
        <5> QED BY <5>1, <3>2, <1>a
      <4> QED BY <4>1, <4>2
    <3>6. q1 + g1 + s + r1 = (i + q1) + g + r
      BY <3>3, <3>5
    <3> QED BY <3>2, <3>3, <3>4, <3>6
  <2>7. Grouped' /\ order' \in Seq(HashParams)
    <3>1. group'[p] = rest /\ \A q \in HashParams : q # p => group'[q] = group[q]
      BY <1>2, <1>6, <2>2, <2>3
    <3>2. order' \in Seq(HashParams) /\ Range(order') = Range(order) \cup {p}
      BY <1>2, <1>6, <2>2, RangeAppend
    <3>3. \A q \in HashParams : \A v \in Range(group'[q]) : ParamsOf[v] = q
      BY <2>4, <3>1 DEF ImportInv, Journey, Grouped
    <3> QED BY <1>1, <3>1, <3>2, <3>3 DEF ImportInv, Journey, Grouped
  <2>8. ASSUME Dropping, NEW v \in drops PROVE v \notin Range(sent) \cup Range(group'[ParamsOf[v]])
    <3>1. v \in File /\ v # u /\ v \notin Range(group[ParamsOf[v]])
      BY <2>8, <1>11 DEF ImportInv, Types, PrepTypes
    <3>2. v \notin Range(us)
      BY <3>1, <1>7, <1>10
    <3> QED BY <2>3, <2>5, <3>1, <3>2
  <2>9. call' = call /\ pc # "rest"
    BY <1>1
  <2> QED BY <1>1, <1>8, <1>12, <2>2, <2>3, <2>5, <2>6, <2>7, <2>8, <2>9, SendStep
<1> QED BY <1>4, <1>13, <1>14

LEMMA FlushRestStep ==
  ASSUME ImportInv, FlushRest
  PROVE  ImportInv'
<1>1. PICK p, us : p = Head(Waiting) /\ us = group[p]
  OBVIOUS
<1>2. /\ pc = "rest" /\ Waiting # <<>> /\ call' = "rest" /\ Send(us)
      /\ group' = [group EXCEPT ![p] = <<>>] /\ order' = order /\ report' = report /\ queue' = queue
      /\ UNCHANGED <<mapping, read, readErr, batchNo, skipped, applied>>
      /\ UNCHANGED <<target, onDuplicate, job, before, dir, seen, file>>
      /\ UNCHANGED <<refs, drops>>
  BY <1>1 DEF FlushRest, config, mapping
<1>3. queue \in Seq(File) /\ group \in [HashParams -> Seq(File)] /\ order \in Seq(HashParams)
  BY DEF ImportInv, Types, PrepTypes, SendTypes
<1>4. p \in HashParams /\ p \in Range(order) /\ us # <<>> /\ us \in Seq(File)
  <2>1. /\ Waiting \in Seq(HashParams)
        /\ Range(Waiting) = Range(order) \cap {q \in HashParams : group[q] # <<>>}
    BY <1>3, SelectType DEF Waiting
  <2>2. p \in Range(Waiting)
    BY <1>1, <1>2, <2>1, HeadFirst
  <2> QED BY <1>1, <1>3, <2>1, <2>2
<1>5. target = "firebase" /\ stage = "idle" /\ Importing
  <2>1. Range(<<>>) = {}
    BY DEF Range
  <2> QED BY <1>2, <1>4, <2>1 DEF ImportInv, Journey, Grouped, Stations, Importing
<1>6. /\ group' \in [HashParams -> Seq(File)] /\ group'[p] = <<>>
      /\ \A q \in HashParams : q # p => group'[q] = group[q]
  BY <1>2, <1>3, <1>4
<1>7. <<>> \in Seq(File) /\ Range(<<>>) = {} /\ \A v : Times(<<>>, {v}) = 0
  BY TimesEmpty DEF Range
<1>8. Grouped'
  BY <1>2, <1>5, <1>6, <1>7 DEF ImportInv, Journey, Grouped
<1>9. \A v \in Range(us) : ParamsOf[v] = p
  BY <1>1, <1>4 DEF ImportInv, Journey, Grouped
<1>10. ASSUME NEW v \in File
       PROVE  Times(queue', {v}) + Times(group'[ParamsOf[v]], {v}) + Times(us, {v}) + Reported(report, v)'
                = Times(queue, {v}) + Times(group[ParamsOf[v]], {v}) + Reported(report, v)
  <2>1. Reported(report, v)' = Reported(report, v) /\ Reported(report, v) \in Nat
    BY <1>2, CountsOf DEF Reported, ImportInv
  <2>2. PICK q \in Nat, g \in Nat, g1 \in Nat, s \in Nat :
          /\ q = Times(queue, {v}) /\ g = Times(group[ParamsOf[v]], {v})
          /\ g1 = Times(group'[ParamsOf[v]], {v}) /\ s = Times(us, {v})
    BY <1>3, <1>4, <1>6, ImportAssumption, Counts
  <2>3. g1 + s = g
    <3>1. CASE ParamsOf[v] = p
      <4>1. g1 = 0 /\ s = g
        BY <1>1, <1>6, <1>7, <2>2, <3>1
      <4> QED BY <4>1
    <3>2. CASE ParamsOf[v] # p
      <4>1. g1 = g
        <5>1. ParamsOf[v] \in HashParams
          BY ImportAssumption
        <5> QED BY <1>6, <2>2, <3>2, <5>1, Zenon
      <4>2. s = 0
        BY <1>4, <1>9, <2>2, <3>2, OneConfiguration, Zenon
      <4> QED BY <4>1, <4>2
    <3> QED BY <3>1, <3>2
  <2>4. \A r \in Nat : q + g1 + s + r = q + g + r
    BY <2>3
  <2> QED BY <1>2, <2>1, <2>2, <2>4
<1>11. ASSUME Dropping, NEW v \in drops PROVE v \notin Range(us) \cup Range(group'[ParamsOf[v]])
  <2>1. v \in File /\ v \notin Range(group[ParamsOf[v]])
    BY <1>5, <1>11 DEF ImportInv, Types, PrepTypes, Dropped
  <2>2. v \notin Range(us)
    BY <1>1, <1>9, <2>1
  <2> QED BY <1>6, <1>7, <2>1, <2>2, ImportAssumption
<1>12. Shaped(report)' /\ report'.ids = Range(report'.succeeded) /\ TrueReport(report)'
  <2>1. Shaped(report)'
    BY <1>2 DEF ImportInv, Types, SendTypes, Shaped
  <2>2. Grows
    BY <1>2, Unmoved DEF ImportInv
  <2> QED BY <1>2, <2>1, <2>2, GrownAccounts DEF ImportInv
<1>13. order' \in Seq(HashParams) /\ queue' \in Seq(File) /\ Range(queue') \subseteq Range(queue)
       /\ pc \in {"read", "rest"}
  BY <1>2, <1>3
<1> QED BY <1>2, <1>4, <1>5, <1>6, <1>8, <1>10, <1>11, <1>12, <1>13, SendStep

-----------------------------------------------------------------------------
(* The report of an import that ends. *)

\* Everything is sent: the users left out are all that is not reported.
LEMMA ImportEndsStep ==
  ASSUME ImportInv, ImportEnds
  PROVE  ImportInv'
<1>1. PICK c : c = [i \in DOMAIN skipped |-> <<skipped[i], "SKIPPED">>]
  OBVIOUS
<1>2. /\ pc = "rest" /\ Waiting = <<>> /\ pc' = "finish" /\ report' = [report EXCEPT !.skipped = @ \o c]
      /\ UNCHANGED <<mapping, reader>> /\ UNCHANGED <<config, dir, sending, file>>
      /\ UNCHANGED <<target, onDuplicate, job, before, group, order, batch, call, seen>>
      /\ UNCHANGED <<refs, drops>>
  BY <1>1 DEF ImportEnds, prepVars, mapping, reader, config, sending
<1>3. /\ Types /\ Accounts /\ DroppedStaysOut /\ Shaped(report) /\ skipped \in Seq(File)
      /\ group \in [HashParams -> Seq(File)] /\ order \in Seq(HashParams)
  BY DEF ImportInv, Types, SendTypes, PrepTypes
<1>4. c \in Coded /\ Range(c) = Range(skipped) \X {"SKIPPED"} /\ \A u : Times(c, About(u)) = Times(skipped, {u})
  <2>1. "SKIPPED" \in Codes
    BY DEF Codes
  <2> QED BY <1>1, <1>3, <2>1, CodedPairs
<1>5. Adds(<<>>, <<>>, c) /\ <<>> \in Seq(File) /\ <<>> \in Coded /\ Range(<<>>) = {}
  <2>1. /\ DOMAIN report = {"succeeded", "failed", "skipped", "ids"} /\ report.succeeded \in Seq(File)
        /\ report.failed \in Coded
    BY <1>3 DEF Shaped
  <2>2. report.succeeded \o <<>> = report.succeeded
    BY <2>1
  <2>3. report.failed \o <<>> = report.failed
    BY <2>1 DEF Coded
  <2>4. Range(<<>>) = {}
    BY DEF Range
  <2>5. /\ DOMAIN report' = DOMAIN report /\ report'.succeeded = report.succeeded
        /\ report'.failed = report.failed /\ report'.skipped = report.skipped \o c
        /\ report'.ids = report.ids
    BY <2>1, <1>2
  <2> QED BY <2>2, <2>3, <2>4, <2>5, CodedEntries DEF Adds
<1>6. /\ Shaped(report)'
      /\ \A u \in File : Reported(report, u)' = Reported(report, u) + Times(<<>>, {u})
                                       + Times(<<>>, About(u)) + Times(c, About(u))
  BY <1>3, <1>4, <1>5, AddsStep
<1>7. Grows
  BY <1>2, <1>3, Unmoved
<1>8. report'.ids = Range(report'.succeeded) /\ TrueReport(report)'
  BY <1>3, <1>4, <1>5, <1>7, AddsTruth
<1>9. Types'
  <2>1. PrepTypes'
    BY <1>2, <1>3, ReaderKept DEF Types
  <2>2. SendTypes'
    BY <1>2, <1>3, <1>6 DEF Types, SendTypes, Shaped
  <2> QED BY <2>1, <2>2 DEF Types
<1>10. Stations' /\ Dropped'
  BY <1>2 DEF Stations, Dropped, Importing
<1>11. Grouped' /\ ReadingOver'
  <2>1. Grouped'
    BY <1>2 DEF ImportInv, Journey, Grouped
  <2> QED BY <2>1, <1>2, ReaderKept DEF ImportInv, Journey
<1>12. ASSUME NEW u \in File PROVE Reported(report, u)' = 1
  <2>1. /\ queue = <<>> /\ batch = <<>> /\ ~Preparing /\ read = N
        /\ InReader(u) + Waits(u) + Reported(report, u) = IF u <= read THEN 1 ELSE 0
    BY <1>2 DEF ImportInv, Journey, Stations, Importing, Accounted, ReadingOver
  <2>2. group[ParamsOf[u]] = <<>>
    <3>1. Range(Waiting) = Range(order) \cap {q \in HashParams : group[q] # <<>>}
      BY <1>3, SelectType DEF Waiting
    <3>2. Range(<<>>) = {} /\ ParamsOf[u] \in HashParams
      BY ImportAssumption DEF Range
    <3> QED BY <1>2, <3>1, <3>2 DEF ImportInv, Journey, Grouped
  <2>3. InReader(u) = 0 + 0 + Times(skipped, {u}) /\ Waits(u) = 0 + 0
    BY <2>1, <2>2, TimesEmpty DEF InReader, Waits
  <2>4. u \in Nat /\ u <= read
    BY <2>1, PrepAssumption DEF File
  <2>5. Times(skipped, {u}) \in Nat /\ Reported(report, u) \in Nat
    BY <1>3, Counts, CountsOf
  <2>6. Times(skipped, {u}) + Reported(report, u) = 1
    BY <2>1, <2>3, <2>4, <2>5
  <2>7. Times(<<>>, {u}) = 0 /\ Times(<<>>, About(u)) = 0
    BY TimesEmpty
  <2>8. Reported(report, u)' = Reported(report, u) + Times(skipped, {u})
    BY <1>4, <1>6, <2>5, <2>7
  <2> QED BY <2>5, <2>6, <2>8
<1>13. Accounted'
  <2>1. \A u \in File : Reported(file, u)' = Reported(file, u)
    BY <1>2 DEF Reported
  <2> QED BY <1>2, <1>12, <2>1 DEF ImportInv, Journey, Accounted, Importing
<1>14. Accounts' /\ DroppedStaysOut'
  <2>1. /\ FoundIsKept' /\ DroppedStaysOut' /\ TrueReport(file)'
        /\ \A u \in File : before'[u].known => dir'[u].known
    BY <1>2, <1>3, <1>7, GrownAccounts
  <2>2. pc' # "send"
    BY <1>2
  <2> QED BY <1>8, <2>1, <2>2 DEF Accounts
<1> QED BY <1>9, <1>10, <1>11, <1>13, <1>14 DEF ImportInv, Journey

\* The users who were there before move from one heading to another.
LEMMA ConflictsMove ==
  ASSUME NEW r, Shaped(r), NEW q, q = Conflicts(r)
  PROVE  /\ Shaped(q) /\ \A u \in File : Reported(q, u) = Reported(r, u)
         /\ q.succeeded = r.succeeded /\ q.ids = r.ids
         /\ Range(q.failed) \subseteq Range(r.failed)
         /\ \A f \in Range(q.skipped) : f \in Range(r.skipped) \/ (f \in Range(r.failed) /\ f[2] = "EXISTS")
<1>1. CASE onDuplicate # "skip"
  BY <1>1 DEF Conflicts
<1>2. CASE onDuplicate = "skip"
  <2> DEFINE P == File \X Codes
             conflicts == File \X {"EXISTS"}
             moved == Select(r.failed, conflicts)
             left == Select(r.failed, P \ conflicts)
  <2>1. q = [r EXCEPT !.skipped = @ \o moved, !.failed = left]
    BY <1>2 DEF Conflicts
  <2>2. /\ moved \in Coded /\ left \in Coded
        /\ Range(moved) = Range(r.failed) \cap conflicts /\ Range(left) = Range(r.failed) \cap (P \ conflicts)
    BY SelectType DEF Shaped, Coded
  <2>3. ASSUME NEW u \in File
        PROVE  Times(r.failed, About(u)) = Times(moved, About(u)) + Times(left, About(u))
    <3>1. PICK A, B : A = conflicts \cap About(u) /\ B = (P \ conflicts) \cap About(u)
      OBVIOUS
    <3>2. Times(moved, About(u)) = Times(r.failed, A) /\ Times(left, About(u)) = Times(r.failed, B)
      <4> HIDE DEF P, conflicts
      <4> QED BY <3>1, SelectTimes DEF Shaped, Coded
    <3>3. A \cap B = {} /\ About(u) = A \cup B
      BY <3>1 DEF About, Codes
    <3>4. PICK s, T, C : s = r.failed /\ s \in Seq(T) /\ C = About(u)
      BY DEF Shaped, Coded
    <3>5. Times(s, C) = Times(s, A) + Times(s, B)
      BY <3>3, <3>4, TimesSplit
    <3> HIDE DEF P, conflicts, moved, left
    <3> QED BY <3>2, <3>4, <3>5
  <2> HIDE DEF moved, left
  <2>4. /\ DOMAIN q = DOMAIN r /\ q.succeeded = r.succeeded /\ q.ids = r.ids
        /\ q.skipped = r.skipped \o moved /\ q.failed = left
    BY <2>1 DEF Shaped
  <2>5. r.skipped \in Coded /\ r.failed \in Coded
    BY DEF Shaped
  <2>6. q.skipped \in Coded /\ Range(q.skipped) = Range(r.skipped) \cup Range(moved)
    BY <2>2, <2>4, <2>5, CodedEntries
  <2>7. Shaped(q)
    BY <2>2, <2>4, <2>6 DEF Shaped
  <2>8. ASSUME NEW u \in File PROVE Reported(q, u) = Reported(r, u)
    <3>1. PICK s \in Nat, f \in Nat, k \in Nat, m \in Nat :
            /\ s = Times(r.succeeded, {u}) /\ f = Times(left, About(u))
            /\ k = Times(r.skipped, About(u)) /\ m = Times(moved, About(u))
      BY <2>2, <2>5, Counts, CodedEntries DEF Shaped
    <3>2. Times(r.failed, About(u)) = m + f /\ Times(q.skipped, About(u)) = k + m
      BY <2>2, <2>3, <2>4, <2>5, <3>1, CodedEntries
    <3>3. Reported(q, u) = s + f + (k + m) /\ Reported(r, u) = s + (m + f) + k
      BY <2>4, <3>1, <3>2 DEF Reported
    <3> QED BY <3>3
  <2>9. \A f \in Range(moved) : f \in Range(r.failed) /\ f[2] = "EXISTS"
    BY <2>2
  <2> QED BY <2>2, <2>4, <2>6, <2>7, <2>8, <2>9
<1> QED BY <1>1, <1>2

LEMMA WriteReportStep ==
  ASSUME ImportInv, WriteReport
  PROVE  ImportInv'
<1>1. /\ pc = "finish" /\ pc' = "after" /\ report' = Conflicts(report)
      /\ file' = IF job THEN file ELSE report'
      /\ UNCHANGED <<mapping, reader>> /\ UNCHANGED <<config, dir, sending>>
      /\ UNCHANGED <<target, onDuplicate, job, before, group, order, batch, call, seen>>
      /\ UNCHANGED <<refs, drops>>
  BY DEF WriteReport, prepVars, mapping, reader, config, sending
<1>2. Types /\ Accounts /\ DroppedStaysOut /\ Shaped(report) /\ Shaped(file)
  BY DEF ImportInv, Types, SendTypes
<1>3. PICK q : q = Conflicts(report)
  OBVIOUS
<1>4. /\ Shaped(q) /\ \A u \in File : Reported(q, u) = Reported(report, u)
      /\ q.succeeded = report.succeeded /\ q.ids = report.ids
      /\ Range(q.failed) \subseteq Range(report.failed)
      /\ \A f \in Range(q.skipped) : f \in Range(report.skipped) \/ (f \in Range(report.failed) /\ f[2] = "EXISTS")
  BY <1>2, <1>3, ConflictsMove
<1>5. report' = q /\ file' \in {file, q}
  BY <1>1, <1>3
<1>6. Types'
  <2>1. PrepTypes'
    BY <1>1, <1>2, ReaderKept DEF Types
  <2>2. SendTypes'
    BY <1>1, <1>2, <1>4, <1>5 DEF Types, SendTypes, Shaped
  <2> QED BY <2>1, <2>2 DEF Types
<1>7. Stations' /\ Dropped'
  BY <1>1 DEF Stations, Dropped, Importing
<1>8. Grouped' /\ ReadingOver'
  <2>1. Grouped'
    BY <1>1 DEF ImportInv, Journey, Grouped
  <2> QED BY <2>1, <1>1, ReaderKept DEF ImportInv, Journey
<1>9. Accounted'
  <2>1. \A u \in File : Reported(q, u) = 1
    BY <1>1, <1>4 DEF ImportInv, Journey, Accounted
  <2>2. \A u \in File : Reported(report, u)' = Reported(q, u)
    BY <1>5 DEF Reported
  <2>3. \A u \in File : file' # NoReport => Reported(file, u)' = 1
    <3>1. CASE file' = file
      BY <3>1 DEF ImportInv, Journey, Accounted, Reported
    <3>2. CASE file' = q
      BY <3>2, <2>1 DEF Reported
    <3> QED BY <3>1, <3>2, <1>5
  <2>4. NoReport' = NoReport
    BY DEF NoReport
  <2> QED BY <1>1, <2>1, <2>2, <2>3, <2>4 DEF Accounted, Importing
<1>10. Accounts' /\ DroppedStaysOut'
  <2>1. Grows
    BY <1>1, <1>2, Unmoved
  <2>2. /\ FoundIsKept' /\ DroppedStaysOut' /\ (file' = file => TrueReport(file)')
        /\ \A u \in File : before'[u].known => dir'[u].known
    BY <1>1, <1>2, <2>1, GrownAccounts
  <2>3. pc' # "send"
    BY <1>1
  <2>4. \A u \in File : Finished(u)' = Finished(u)
    BY DEF Finished
  <2>5. /\ \A u \in Range(q.succeeded) : dir[u] = Finished(u)
        /\ q.ids = Range(q.succeeded)
        /\ \A f \in Range(q.failed) \cup Range(q.skipped) : f[2] = "EXISTS" => dir[f[1]].known
        /\ \A f \in Range(q.skipped) : f[2] \in {"EXISTS", "SKIPPED"}
    BY <1>2, <1>4 DEF Accounts, TrueReport
  <2>6. Range(q.succeeded) \subseteq File
    BY <1>4, ReportedUsers
  <2>7. report'.ids = Range(report'.succeeded) /\ TrueReport(report)'
    BY <1>1, <1>5, <2>4, <2>5, <2>6 DEF TrueReport
  <2>8. TrueReport(file)'
    <3>1. CASE file' = file
      BY <3>1, <2>2
    <3>2. CASE file' = q
      BY <3>2, <1>1, <2>4, <2>5, <2>6 DEF TrueReport
    <3> QED BY <3>1, <3>2, <1>5
  <2> QED BY <2>2, <2>3, <2>7, <2>8 DEF Accounts
<1> QED BY <1>6, <1>7, <1>8, <1>9, <1>10 DEF ImportInv, Journey

LEMMA SaveReportStep ==
  ASSUME ImportInv, SaveReport
  PROVE  ImportInv'
<1>1. /\ pc = "save" /\ pc' = "idle" /\ report' = report /\ file' = report
      /\ UNCHANGED <<mapping, reader>> /\ UNCHANGED <<config, dir, sending>>
      /\ UNCHANGED <<target, onDuplicate, job, before, group, order, batch, call, seen>>
      /\ UNCHANGED <<refs, drops>>
  BY DEF SaveReport, prepVars, mapping, reader, config, sending
<1>2. Types /\ Accounts /\ DroppedStaysOut /\ Shaped(report)
  BY DEF ImportInv, Types, SendTypes
<1>3. Types'
  <2>1. PrepTypes'
    BY <1>1, <1>2, ReaderKept DEF Types
  <2>2. SendTypes'
    BY <1>1, <1>2 DEF Types, SendTypes, Shaped
  <2> QED BY <2>1, <2>2 DEF Types
<1>4. Stations' /\ Dropped'
  BY <1>1 DEF Stations, Dropped, Importing
<1>5. Grouped' /\ ReadingOver'
  <2>1. Grouped'
    BY <1>1 DEF ImportInv, Journey, Grouped
  <2> QED BY <2>1, <1>1, ReaderKept DEF ImportInv, Journey
<1>6. Accounted'
  <2>1. \A u \in File : Reported(file, u)' = Reported(report, u) /\ Reported(report, u) = 1
    BY <1>1 DEF Reported, ImportInv, Journey, Accounted
  <2> QED BY <1>1, <2>1 DEF Accounted, Importing
<1>7. Accounts' /\ DroppedStaysOut'
  <2>1. Grows
    BY <1>1, <1>2, Unmoved
  <2>2. /\ FoundIsKept' /\ DroppedStaysOut' /\ report'.ids = Range(report'.succeeded) /\ TrueReport(report)'
        /\ \A u \in File : before'[u].known => dir'[u].known
    BY <1>1, <1>2, <2>1, GrownAccounts
  <2>3. TrueReport(file)'
    BY <1>1, <2>2 DEF TrueReport
  <2>4. pc' # "send"
    BY <1>1
  <2> QED BY <2>2, <2>3, <2>4 DEF Accounts
<1> QED BY <1>3, <1>4, <1>5, <1>6, <1>7 DEF ImportInv, Journey

-----------------------------------------------------------------------------
(* Sending. *)

LEMMA FirstUser ==
  ASSUME ImportInv, batch # <<>>, NEW u, u = First
  PROVE  /\ u \in File /\ Tail(batch) \in Seq(File) /\ Range(batch) = {u} \cup Range(Tail(batch))
         /\ \A C : Times(batch, C) = (IF u \in C THEN 1 ELSE 0) + Times(Tail(batch), C)
BY HeadFirst DEF First, ImportInv, Types, SendTypes

\* Users are through: they come into the report, and others are to be sent or not.
LEMMA ThroughStep ==
  ASSUME ImportInv, Sends, Grows,
         NEW a \in Seq(File), NEW b \in Coded, Adds(a, b, <<>>),
         \A u \in Range(a) : dir'[u] = Finished(u),
         \A f \in Range(b) : f[2] = "EXISTS" => dir'[f[1]].known,
         NEW left \in Seq(File), batch' = left, Range(left) \subseteq Range(batch),
         \A u \in File : Times(batch, {u}) = Times(left, {u}) + Times(a, {u}) + Times(b, About(u)),
         call' = "none",
         pc' = IF left # <<>> THEN "send" ELSE IF call = "rest" THEN "rest" ELSE "loop",
         UNCHANGED <<mapping, reader>>, UNCHANGED <<config, group, order, seen, file>>
  PROVE  ImportInv'
<1>1. /\ target' = target /\ job' = job /\ onDuplicate' = onDuplicate /\ before' = before
      /\ pc = "send" /\ Importing /\ Importing'
  BY DEF config, Sends, Importing
<1>2. /\ Types /\ Accounts /\ DroppedStaysOut /\ Shaped(report)
      /\ <<>> \in Coded /\ Range(<<>>) = {} /\ \A C : Times(<<>>, C) = 0
  BY TimesEmpty, CodedEntries DEF ImportInv, Types, SendTypes, Range
<1>3. /\ refs' = refs /\ drops' = drops /\ read' = read /\ readErr' = readErr /\ stage' = stage
      /\ queue' = queue /\ Preparing' = Preparing
      /\ PrepTypes' /\ ReadingOver' /\ (Sifted => Sifted')
      /\ \A u \in File : InReader(u)' = InReader(u)
  BY ReaderKept DEF ImportInv, Types, Journey
<1>4. /\ Shaped(report)'
      /\ \A u \in File : Reported(report, u)' = Reported(report, u) + Times(a, {u})
                                       + Times(b, About(u)) + Times(<<>>, About(u))
  BY <1>2, AddsStep
<1>5. report'.ids = Range(report'.succeeded) /\ TrueReport(report)'
  BY <1>2, AddsTruth
<1>6. Types'
  <2>1. SendTypes'
    BY <1>1, <1>2, <1>4 DEF Types, SendTypes, Shaped, Grows
  <2> QED BY <1>3, <2>1 DEF Types
<1>7. Stations' /\ Grouped'
  <2>1. Grouped'
    BY <1>1 DEF ImportInv, Journey, Grouped
  <2>2. stage = "idle" /\ ~Preparing /\ "idle" # Payload
    BY <1>1 DEF ImportInv, Journey, Stations, Preparing, Payload
  <2>3. call = "rest" => readErr = "eof" /\ queue = <<>>
    BY <1>1 DEF ImportInv, Journey, Stations
  <2>4. pc' \in {"send", "rest", "loop"} /\ (pc' = "rest" => call = "rest") /\ (pc' # "send" => left = <<>>)
    OBVIOUS
  <2> QED BY <1>1, <1>3, <2>1, <2>2, <2>3, <2>4 DEF Stations
<1>8. Accounted'
  <2>1. ASSUME NEW u \in File
        PROVE  InReader(u)' + Waits(u)' + Reported(report, u)' = IF u <= read' THEN 1 ELSE 0
    <3>1. InReader(u) + Waits(u) + Reported(report, u) = IF u <= read THEN 1 ELSE 0
      BY <1>1 DEF ImportInv, Journey, Accounted
    <3>2. PICK i \in Nat, g \in Nat, l \in Nat, s \in Nat, f \in Nat, r \in Nat :
            /\ i = InReader(u) /\ g = Times(group[ParamsOf[u]], {u}) /\ l = Times(left, {u})
            /\ s = Times(a, {u}) /\ f = Times(b, About(u)) /\ r = Reported(report, u)
      <4>1. group[ParamsOf[u]] \in Seq(File)
        BY <1>2, ImportAssumption DEF Types, SendTypes
      <4> QED BY <4>1, <1>2, Counts, CountsOf, CodedEntries
    <3>3. Waits(u) = g + (l + s + f) /\ Waits(u)' = g + l
      BY <3>2 DEF Waits
    <3>4. Reported(report, u)' = r + s + f
      <4>1. Times(<<>>, About(u)) = 0
        BY <1>2
      <4>2. Reported(report, u)' = r + s + f + 0
        BY <1>4, <3>2, <4>1, Zenon
      <4> QED BY <4>2
    <3>5. i + (g + l) + (r + s + f) = i + (g + (l + s + f)) + r
      OBVIOUS
    <3>6. InReader(u)' = i
      BY <1>3, <3>2
    <3>7. InReader(u)' + Waits(u)' + Reported(report, u)' = InReader(u) + Waits(u) + Reported(report, u)
      BY <3>2, <3>3, <3>4, <3>5, <3>6
    <3> QED BY <3>1, <3>7, <1>3
  <2>2. \A u \in File : Reported(file, u)' = Reported(file, u)
    BY DEF Reported
  <2>3. pc' \notin {"finish", "after", "save"}
    OBVIOUS
  <2> QED BY <2>1, <2>2, <2>3 DEF ImportInv, Journey, Accounted
<1>9. Accounts' /\ DroppedStaysOut'
  <2>1. \A u : CallsFor(u)'
    BY DEF CallsFor
  <2>2. /\ FoundIsKept' /\ DroppedStaysOut' /\ TrueReport(file)'
        /\ \A u \in File : before'[u].known => dir'[u].known
    BY <1>1, <1>2, GrownAccounts
  <2> QED BY <1>5, <2>1, <2>2 DEF Accounts
<1>10. Dropped'
  BY <1>1, <1>3 DEF ImportInv, Dropped, Dropping
<1> QED BY <1>3, <1>6, <1>7, <1>8, <1>9, <1>10 DEF ImportInv, Journey

\* A call is made for users that are still to be sent.
LEMMA CallingStep ==
  ASSUME ImportInv, Sends, Grows, NEW u, u = First,
         target = "cognito" => CallsFor(u)' /\ call' # "rest",
         target # "cognito" => call' = call,
         call' \in {"none", "get", "password", "enable", "end", "rest"}, seen' \in Account,
         UNCHANGED <<mapping, reader>>, UNCHANGED <<config, pc, group, order, batch, report, file>>
  PROVE  ImportInv'
<1>1. /\ target' = target /\ job' = job /\ onDuplicate' = onDuplicate /\ before' = before
      /\ pc = "send" /\ pc' = "send" /\ Importing /\ Importing'
  BY DEF config, Sends, Importing
<1>2. Types /\ Accounts /\ DroppedStaysOut
  BY DEF ImportInv
<1>3. /\ refs' = refs /\ drops' = drops /\ read' = read /\ readErr' = readErr /\ stage' = stage
      /\ queue' = queue /\ Preparing' = Preparing
      /\ PrepTypes' /\ ReadingOver' /\ (Sifted => Sifted')
      /\ \A v \in File : InReader(v)' = InReader(v)
  BY ReaderKept DEF ImportInv, Types, Journey
<1>4. Types'
  <2>1. SendTypes'
    BY <1>1, <1>2 DEF Types, SendTypes, Shaped, Grows
  <2> QED BY <1>3, <2>1 DEF Types
<1>5. Stations' /\ Grouped'
  <2>1. Grouped'
    BY <1>1 DEF ImportInv, Journey, Grouped
  <2>2. target = "cognito" => call # "rest"
    BY <1>1 DEF ImportInv, Journey, Stations
  <2>3. Stations'
    BY <1>1, <1>3, <2>2 DEF ImportInv, Journey, Stations
  <2> QED BY <2>1, <2>3
<1>6. Accounted'
  <2>1. \A v \in File : Waits(v)' = Waits(v) /\ Reported(report, v)' = Reported(report, v)
                         /\ Reported(file, v)' = Reported(file, v)
    BY DEF Waits, Reported
  <2> QED BY <1>1, <1>3, <2>1 DEF ImportInv, Journey, Accounted
<1>7. Accounts' /\ DroppedStaysOut'
  <2>1. Head(batch') = u
    BY DEF First
  <2>2. /\ FoundIsKept' /\ DroppedStaysOut' /\ TrueReport(file)' /\ TrueReport(report)'
        /\ report'.ids = Range(report'.succeeded)
        /\ \A v \in File : before'[v].known => dir'[v].known
    BY <1>1, <1>2, GrownAccounts
  <2>3. (target = "cognito" /\ pc = "send" /\ batch # <<>> => CallsFor(Head(batch)))'
    BY <1>1, <2>1 DEF CallsFor, Upsert
  <2> QED BY <2>2, <2>3 DEF Accounts
<1>8. Dropped'
  BY <1>1, <1>3 DEF ImportInv, Dropped, Dropping
<1> QED BY <1>3, <1>4, <1>5, <1>6, <1>7, <1>8 DEF ImportInv, Journey

\* The first user is done with.
LEMMA DoneStep ==
  ASSUME ImportInv, Sends, target # "firebase", Grows, NEW u, u = First,
         \/ Done(Success(u)) /\ dir'[u] = Finished(u)
         \/ \E code \in Codes : Done(Failure(u, code)) /\ (code = "EXISTS" => dir'[u].known),
         UNCHANGED <<mapping, reader>>, UNCHANGED <<config, group, order, seen, file>>
  PROVE  ImportInv'
<1>1. /\ u \in File /\ Tail(batch) \in Seq(File) /\ Range(batch) = {u} \cup Range(Tail(batch))
      /\ \A C : Times(batch, C) = (IF u \in C THEN 1 ELSE 0) + Times(Tail(batch), C)
  BY FirstUser DEF Sends
<1>2. PICK left : left = Tail(batch) /\ left \in Seq(File)
  BY <1>1
<1>3. /\ batch' = left /\ call' = "none" /\ pc' = IF left = <<>> THEN "loop" ELSE "send"
  BY <1>2 DEF Done
<1>4. call # "rest"
  BY DEF ImportInv, Journey, Stations, Importing, Sends
<1>5. pc' = IF left # <<>> THEN "send" ELSE IF call = "rest" THEN "rest" ELSE "loop"
  BY <1>3, <1>4
<1>6. /\ DOMAIN report = {"succeeded", "failed", "skipped", "ids"} /\ report.succeeded \in Seq(File)
      /\ report.failed \in Coded /\ report.skipped \in Coded
  BY DEF ImportInv, Types, SendTypes, Shaped
<1>7. /\ <<>> \in Seq(File) /\ <<>> \in Coded /\ Range(<<>>) = {} /\ \A C : Times(<<>>, C) = 0
  BY TimesEmpty, CodedEntries DEF Range
<1>8. /\ report.succeeded \o <<>> = report.succeeded
      /\ report.failed \o <<>> = report.failed /\ report.skipped \o <<>> = report.skipped
  BY <1>6 DEF Coded
<1>9. \A v \in File : Times(left, {v}) \in Nat
  BY <1>2, Counts
<1>10. CASE Done(Success(u)) /\ dir'[u] = Finished(u)
  <2>1. PICK a : a = <<u>>
    OBVIOUS
  <2>2. a \in Seq(File) /\ Range(a) = {u} /\ report.succeeded \o a = Append(report.succeeded, u)
    BY <1>1, <1>6, <2>1 DEF Range
  <2>3. report' = [report EXCEPT !.succeeded = Append(@, u), !.ids = @ \cup {u}]
    BY <1>10 DEF Done, Success
  <2>4. Adds(a, <<>>, <<>>)
    BY <1>6, <1>8, <2>2, <2>3 DEF Adds
  <2>5. ASSUME NEW v \in File
        PROVE  Times(batch, {v}) = Times(left, {v}) + Times(a, {v}) + Times(<<>>, About(v))
    <3>1. Times(a, {v}) = IF u \in {v} THEN 1 ELSE 0
      BY <1>1, <2>1, OneUser
    <3>2. Times(<<>>, About(v)) = 0
      BY <1>7
    <3> QED BY <1>1, <1>2, <1>9, <3>1, <3>2
  <2>6. \A v \in Range(a) : dir'[v] = Finished(v)
    BY <1>10, <2>2
  <2>7. Range(left) \subseteq Range(batch)
    BY <1>1, <1>2
  <2> QED BY <1>2, <1>3, <1>5, <1>7, <2>2, <2>4, <2>5, <2>6, <2>7, ThroughStep
<1>11. ASSUME NEW code \in Codes, Done(Failure(u, code)), code = "EXISTS" => dir'[u].known
       PROVE  ImportInv'
  <2>1. PICK one, b : one = <<u>> /\ b = [i \in DOMAIN one |-> <<one[i], code>>]
    OBVIOUS
  <2>2. one \in Seq(File) /\ Range(one) = {u}
    BY <1>1, <2>1 DEF Range
  <2>3. b \in Coded /\ Range(b) = Range(one) \X {code} /\ \A v : Times(b, About(v)) = Times(one, {v})
    BY <1>11, <2>1, <2>2, CodedPairs, SMTT(30)
  <2>4. b = <<<<u, code>>>>
    BY <2>1
  <2>5. report' = [report EXCEPT !.failed = Append(@, <<u, code>>)]
    BY <1>11 DEF Done, Failure
  <2>6. report.failed \o b = Append(report.failed, <<u, code>>)
    BY <1>1, <1>6, <2>4 DEF Coded
  <2>7. Adds(<<>>, b, <<>>)
    <3>1. report.ids \cup Range(<<>>) = report.ids
      BY <1>7
    <3> QED BY <1>6, <1>8, <2>5, <2>6, <3>1 DEF Adds
  <2>8. ASSUME NEW v \in File
        PROVE  Times(batch, {v}) = Times(left, {v}) + Times(<<>>, {v}) + Times(b, About(v))
    <3>1. Times(one, {v}) = IF u \in {v} THEN 1 ELSE 0
      BY <1>1, <2>1, OneUser
    <3>2. Times(<<>>, {v}) = 0 /\ Times(b, About(v)) = Times(one, {v})
      BY <1>7, <2>3
    <3> QED BY <1>1, <1>2, <1>9, <3>1, <3>2
  <2>9. \A f \in Range(b) : f[2] = "EXISTS" => dir'[f[1]].known
    BY <1>11, <2>2, <2>3
  <2>10. Range(left) \subseteq Range(batch)
    BY <1>1, <1>2
  <2> QED BY <1>2, <1>3, <1>5, <1>7, <2>3, <2>7, <2>8, <2>9, <2>10, ThroughStep
<1> QED BY <1>10, <1>11

\* A call that its import's context ends.
LEMMA CutShort ==
  ASSUME ImportInv, pc' = "idle", Grows, UNCHANGED <<mapping, reader>>,
         UNCHANGED <<config, sending, report, file>>
  PROVE  ImportInv'
<1>1. PrepTypes' /\ UNCHANGED <<mapping, read, readErr>>
  BY ReaderKept DEF ImportInv, Types, reader
<1> QED BY <1>1, Leaves

\* The first user's account is one the file may create.
LEMMA CreatedGrows ==
  ASSUME ImportInv, Sends, ~dir[First].known,
         NEW a \in Account, a.known, dir' = [dir EXCEPT ![First] = a], UNCHANGED <<refs, drops, config>>
  PROVE  Grows
<1>1. PICK u : u = First
  OBVIOUS
<1>2. u \in File /\ u \in Range(batch)
  BY <1>1, FirstUser DEF Sends
<1>3. /\ dir \in [File -> Account] /\ onDuplicate' = onDuplicate /\ before' = before
      /\ refs' = refs /\ drops' = drops
  BY DEF ImportInv, Types, SendTypes, config
<1>4. dir' \in [File -> Account] /\ dir'[u] = a /\ \A v \in File : v # u => dir'[v] = dir[v]
  BY <1>1, <1>2, <1>3
<1>5. ~dir[u].known /\ ~before[u].known /\ dir[u] # Finished(u)
  BY <1>1, <1>2 DEF ImportInv, Accounts, Finished
<1>6. Dropping => u \notin drops
  BY <1>2 DEF ImportInv, Dropped, Importing, Sends
<1> QED BY <1>2, <1>3, <1>4, <1>5, <1>6 DEF Grows

LEMMA FinishedAccount == \A u \in File : Finished(u) \in Account /\ Finished(u).known
BY DEF Finished, Account

LEMMA PostStep ==
  ASSUME ImportInv, Post
  PROVE  ImportInv'
<1>1. /\ Sends /\ target # "firebase" /\ UNCHANGED <<mapping, reader>>
      /\ UNCHANGED <<config, group, order, seen, file>> /\ UNCHANGED <<refs, drops>>
  BY DEF Post, mapping
<1>2. PICK u : u = First
  OBVIOUS
<1>3. u \in File
  BY <1>1, <1>2, FirstUser DEF Sends
<1>4. CASE ~dir[First].known /\ dir' = Created /\ Done(Success(First))
  <2>1. dir' = [dir EXCEPT ![First] = Finished(u)]
    BY <1>2, <1>4 DEF Created
  <2>2. Grows
    BY <1>1, <1>3, <1>4, <2>1, CreatedGrows, FinishedAccount
  <2>3. dir'[u] = Finished(u)
    BY <1>2, <1>3, <2>1 DEF ImportInv, Types, SendTypes
  <2> QED BY <1>1, <1>2, <1>4, <2>2, <2>3, DoneStep
<1>5. CASE dir' = dir /\ dir[First].known /\ Done(Failure(First, "EXISTS"))
  <2>1. Grows
    BY <1>1, <1>5, Unmoved DEF ImportInv, config
  <2>2. "EXISTS" \in Codes
    BY DEF Codes
  <2> QED BY <1>1, <1>2, <1>5, <2>1, <2>2, DoneStep
<1>6. CASE dir' = dir /\ Done(Failure(First, "REQUEST_ERROR"))
  <2>1. Grows
    BY <1>1, <1>6, Unmoved DEF ImportInv, config
  <2>2. "REQUEST_ERROR" \in Codes
    BY DEF Codes
  <2> QED BY <1>1, <1>2, <1>6, <2>1, <2>2, DoneStep
<1> QED BY <1>4, <1>5, <1>6 DEF Post

LEMMA PostFailsStep ==
  ASSUME ImportInv, PostFails
  PROVE  ImportInv'
<1>1. /\ Sends /\ target # "firebase" /\ UNCHANGED <<mapping, reader>>
      /\ UNCHANGED <<config, group, order, seen, file>> /\ UNCHANGED <<refs, drops>>
  BY DEF PostFails, mapping
<1>2. PICK u : u = First
  OBVIOUS
<1>3. u \in File
  BY <1>1, <1>2, FirstUser DEF Sends
<1>4. Grows
  <2>1. CASE ~dir[First].known /\ dir' = Created
    <3>1. dir' = [dir EXCEPT ![First] = Finished(u)]
      BY <1>2, <2>1 DEF Created
    <3> QED BY <1>1, <1>3, <2>1, <3>1, CreatedGrows, FinishedAccount
  <2>2. CASE UNCHANGED dir
    BY <1>1, <2>2, Unmoved DEF ImportInv, config
  <2> QED BY <2>1, <2>2 DEF PostFails
<1>5. CASE ctx
  <2>1. pc' = "idle" /\ UNCHANGED <<config, sending, report, file>>
    BY <1>1, <1>5 DEF PostFails, Returns, sending
  <2> QED BY <1>1, <1>4, <2>1, CutShort
<1>6. CASE ~ctx
  <2>1. Done(Failure(u, "REQUEST_ERROR"))
    BY <1>2, <1>6 DEF PostFails
  <2>2. "REQUEST_ERROR" \in Codes
    BY DEF Codes
  <2> QED BY <1>1, <1>2, <1>4, <2>1, <2>2, DoneStep
<1> QED BY <1>5, <1>6

\* A password for an account that has one, or an enabling of one enabled as it is to
\* be, changes nothing.
LEMMA AgainNothing ==
  \A u \in File : \A a \in Account :
    /\ [a EXCEPT !.final = TRUE] \in Account /\ [a EXCEPT !.final = TRUE].known = a.known
    /\ [a EXCEPT !.enabled = u \notin Blocked] \in Account
    /\ [a EXCEPT !.enabled = u \notin Blocked].known = a.known
    /\ a = Finished(u) => /\ [a EXCEPT !.final = TRUE] = a
                          /\ [a EXCEPT !.enabled = u \notin Blocked] = a
<1>1. ASSUME NEW u \in File, NEW a \in Account
      PROVE  /\ [a EXCEPT !.final = TRUE] \in Account /\ [a EXCEPT !.final = TRUE].known = a.known
             /\ [a EXCEPT !.enabled = u \notin Blocked] \in Account
             /\ [a EXCEPT !.enabled = u \notin Blocked].known = a.known
  <2>1. (u \notin Blocked) \in BOOLEAN
    OBVIOUS
  <2> QED BY <2>1 DEF Account
<1>2. \A a, b \in Account : a.known = b.known /\ a.final = b.final /\ a.enabled = b.enabled => a = b
  BY DEF Account
<1>3. ASSUME NEW u \in File, NEW a \in Account, a = Finished(u)
      PROVE  /\ [a EXCEPT !.final = TRUE] = a /\ [a EXCEPT !.enabled = u \notin Blocked] = a
  <2>1. a.final = TRUE /\ a.enabled = (u \notin Blocked)
    BY <1>3 DEF Finished
  <2>2. PICK b, c : b = [a EXCEPT !.final = TRUE] /\ c = [a EXCEPT !.enabled = u \notin Blocked]
    OBVIOUS
  <2>3. b \in Account /\ c \in Account
    BY <1>1, <2>2
  <2>4. b.known = a.known /\ b.final = a.final /\ b.enabled = a.enabled
    BY <2>1, <2>2 DEF Account
  <2>5. c.known = a.known /\ c.final = a.final /\ c.enabled = a.enabled
    BY <2>1, <2>2 DEF Account
  <2> QED BY <1>2, <2>2, <2>3, <2>4, <2>5
<1> QED BY <1>1, <1>3

\* A call of Cognito's does to an account what Grows lets it.
LEMMA CallGrows ==
  ASSUME ImportInv, Sends, target = "cognito",
         dir' = [dir EXCEPT ![First] = After(call)], UNCHANGED <<refs, drops, config>>
  PROVE  Grows /\ dir'[First] = After(call)
<1>1. PICK u : u = First
  OBVIOUS
<1>2. u \in File /\ u \in Range(batch)
  BY <1>1, FirstUser DEF Sends
<1>3. /\ dir \in [File -> Account] /\ onDuplicate' = onDuplicate /\ before' = before
      /\ refs' = refs /\ drops' = drops
  BY DEF ImportInv, Types, SendTypes, config
<1>4. CallsFor(u)
  BY <1>1 DEF ImportInv, Accounts, First, Sends
<1>5. PICK a \in Account : a = dir[u]
  BY <1>2, <1>3
<1>6. Dropping => u \notin drops
  BY <1>2 DEF ImportInv, Dropped, Importing, Sends
<1>7. before[u].known => a.known
  BY <1>2, <1>5 DEF ImportInv, Accounts
<1>8. /\ After(call) \in Account
      /\ a.known => After(call).known
      /\ a = Finished(u) => After(call) = a
      /\ ~Upsert /\ before[u].known => After(call) = a
  <2>1. CASE call = "none"
    <3>1. CASE a.known
      <4>1. After(call) = a
        BY <1>1, <1>5, <2>1, <3>1 DEF After
      <4> QED BY <4>1
    <3>2. CASE ~a.known
      <4>1. After(call) = [known |-> TRUE, final |-> FALSE, enabled |-> TRUE]
        BY <1>1, <1>5, <2>1, <3>2 DEF After
      <4>2. a # Finished(u)
        BY <3>2 DEF Finished
      <4> QED BY <1>7, <3>2, <4>1, <4>2 DEF Account
    <3> QED BY <3>1, <3>2
  <2>2. CASE call = "password"
    <3>1. After(call) = [a EXCEPT !.final = TRUE]
      BY <1>1, <1>5, <2>2 DEF After
    <3>2. ~Upsert => ~before[u].known
      BY <1>4, <2>2 DEF CallsFor
    <3> QED BY <1>2, <3>1, <3>2, AgainNothing
  <2>3. CASE call = "enable"
    <3>1. After(call) = [a EXCEPT !.enabled = u \notin Blocked]
      BY <1>1, <1>5, <2>3 DEF After
    <3>2. ~Upsert => ~before[u].known
      BY <1>4, <2>3 DEF CallsFor
    <3>3. PICK b : b = [a EXCEPT !.enabled = u \notin Blocked]
      OBVIOUS
    <3>4. b \in Account /\ b.known = a.known /\ (a = Finished(u) => b = a)
      BY <1>2, <3>3, AgainNothing
    <3> QED BY <3>1, <3>2, <3>3, <3>4
  <2>4. CASE call \notin {"none", "password", "enable"}
    <3>1. After(call) = a
      BY <1>1, <1>5, <2>4 DEF After
    <3> QED BY <3>1
  <2> QED BY <2>1, <2>2, <2>3, <2>4
<1>9. dir' \in [File -> Account] /\ dir'[u] = After(call) /\ \A v \in File : v # u => dir'[v] = dir[v]
  BY <1>1, <1>2, <1>3, <1>8
<1> QED BY <1>1, <1>2, <1>3, <1>5, <1>6, <1>8, <1>9 DEF Grows

\* A call is answered with the account as it then is, and the next one is for it.
LEMMA AnsweredStep ==
  ASSUME ImportInv, Sends, target = "cognito", call # "end", NEW a, Answered(a),
         a = After(call), a.known, call # "none" => call = "get" \/ seen = dir[First],
         call = "none" => ~dir[First].known,
         UNCHANGED <<refs, drops, mapping, reader, config>>
  PROVE  ImportInv'
<1>1. PICK u : u = First
  OBVIOUS
<1>2. u \in File /\ CallsFor(u) /\ (u \in Blocked) \in BOOLEAN
  BY <1>1, FirstUser DEF ImportInv, Accounts, First, Sends
<1>3. Grows /\ dir'[u] = a
  BY <1>1, CallGrows DEF Answered
<1>4. a \in Account
  BY <1>2, <1>3 DEF Grows
<1>5. /\ seen' = a /\ call' = NextCall(a) /\ Upsert' = Upsert /\ before' = before
      /\ UNCHANGED <<pc, group, order, batch, report, file>>
  BY DEF Answered, config, Upsert
<1>6. NextCall(a) \in {"password", "enable", "end"}
  BY DEF NextCall
<1>7. NextCall(a) # "password" => a.final
  BY DEF NextCall
<1>8. NextCall(a) = "end" => a.enabled = (u \notin Blocked)
  <2>1. NextCall(a) = "end" => (u \in Blocked) # a.enabled
    BY <1>1, <1>7 DEF NextCall
  <2>2. a.enabled \in BOOLEAN
    BY <1>4 DEF Account
  <2> QED BY <2>1, <2>2
<1>9. ~Upsert => ~before[u].known
  <2>1. CASE call = "none"
    BY <1>1, <1>2, <2>1 DEF ImportInv, Accounts
  <2>2. CASE call = "get"
    BY <1>2, <2>2 DEF CallsFor
  <2>3. CASE call \in {"password", "enable"}
    BY <1>2, <2>3 DEF CallsFor
  <2>4. call \in {"none", "get", "password", "enable"}
    BY DEF ImportInv, Types, SendTypes, Journey, Stations, Importing, Sends
  <2> QED BY <2>1, <2>2, <2>3, <2>4
<1>10. CallsFor(u)'
  BY <1>3, <1>5, <1>6, <1>7, <1>8, <1>9 DEF CallsFor
<1> QED BY <1>1, <1>3, <1>4, <1>5, <1>6, <1>10, CallingStep

LEMMA CognitoStep ==
  ASSUME ImportInv,
         AdminCreateUser \/ UsernameExists \/ CreateRetried \/ GetAndUpdate
           \/ AdminSetUserPassword \/ AdminDisableOrEnableUser \/ CognitoDone
  PROVE  ImportInv'
<1>1. /\ Sends /\ target = "cognito" /\ UNCHANGED <<mapping, reader, config>>
      /\ UNCHANGED <<refs, drops>>
  BY DEF AdminCreateUser, UsernameExists, CreateRetried, GetAndUpdate, AdminSetUserPassword,
         AdminDisableOrEnableUser, CognitoDone, CognitoAt, Answered, mapping, config
<1>2. PICK u : u = First
  OBVIOUS
<1>3. u \in File /\ CallsFor(u) /\ dir[u] \in Account
  BY <1>1, <1>2, FirstUser DEF ImportInv, Types, SendTypes, Accounts, First, Sends
<1>4. ASSUME AdminCreateUser PROVE ImportInv'
  <2>1. After(call).known
    BY <1>4 DEF After, AdminCreateUser, CognitoAt
  <2> QED BY <1>1, <1>4, <2>1, AnsweredStep DEF AdminCreateUser, CognitoAt
<1>5. ASSUME GetAndUpdate PROVE ImportInv'
  <2>1. After(call) = dir[First] /\ dir[First].known
    BY <1>2, <1>3, <1>5 DEF After, GetAndUpdate, CognitoAt, CallsFor
  <2> QED BY <1>1, <1>5, <2>1, AnsweredStep DEF GetAndUpdate, CognitoAt
<1>6. ASSUME AdminSetUserPassword PROVE ImportInv'
  <2>1. seen = dir[First] /\ seen.known /\ call = "password"
    BY <1>2, <1>3, <1>6 DEF AdminSetUserPassword, CognitoAt, CallsFor
  <2>2. After(call) = [seen EXCEPT !.final = TRUE]
    BY <2>1 DEF After
  <2>3. After(call).known
    BY <1>2, <1>3, <2>1, <2>2, AgainNothing
  <2> QED BY <1>1, <1>6, <2>1, <2>2, <2>3, AnsweredStep DEF AdminSetUserPassword
<1>7. ASSUME AdminDisableOrEnableUser PROVE ImportInv'
  <2>1. seen = dir[First] /\ seen.known /\ call = "enable"
    BY <1>2, <1>3, <1>7 DEF AdminDisableOrEnableUser, CognitoAt, CallsFor
  <2>2. After(call) = [seen EXCEPT !.enabled = First \notin Blocked]
    BY <2>1 DEF After
  <2>3. After(call).known
    <3>1. PICK a \in Account : a = seen
      BY <1>2, <1>3, <2>1
    <3>2. PICK b : b = [a EXCEPT !.enabled = u \notin Blocked]
      OBVIOUS
    <3>3. b.known = a.known
      BY <1>3, <3>2, AgainNothing
    <3> QED BY <1>2, <2>1, <2>2, <3>1, <3>2, <3>3
  <2> QED BY <1>1, <1>7, <2>1, <2>2, <2>3, AnsweredStep DEF AdminDisableOrEnableUser
<1>8. ASSUME CreateRetried PROVE ImportInv'
  <2>1. /\ call = "none" /\ ~dir[First].known /\ dir' = [dir EXCEPT ![First] = After("none")]
        /\ UNCHANGED <<pc, group, order, batch, call, seen, report, file>>
    BY <1>8 DEF CreateRetried, CognitoAt, sending
  <2>2. Grows
    BY <1>1, <2>1, CallGrows
  <2>3. CallsFor(u)' /\ seen' \in Account
    BY <2>1 DEF CallsFor, ImportInv, Types, SendTypes
  <2> QED BY <1>1, <1>2, <2>1, <2>2, <2>3, CallingStep
<1>9. ASSUME UsernameExists PROVE ImportInv'
  <2>1. dir[u].known /\ dir' = dir /\ UNCHANGED <<group, order, seen, file>>
    BY <1>2, <1>9 DEF UsernameExists
  <2>2. Grows
    BY <1>1, <2>1, Unmoved DEF ImportInv, config
  <2>3. CASE Upsert
    <3>1. call' = "get" /\ UNCHANGED <<report, pc, batch>>
      BY <1>9, <2>3 DEF UsernameExists
    <3>2. CallsFor(u)' /\ seen' \in Account
      BY <1>1, <2>1, <2>3, <3>1 DEF CallsFor, Upsert, config, ImportInv, Types, SendTypes
    <3> QED BY <1>1, <1>2, <2>1, <2>2, <3>1, <3>2, CallingStep
  <2>4. CASE ~Upsert
    <3>1. Done(Failure(u, "EXISTS")) /\ "EXISTS" \in Codes
      BY <1>2, <1>9, <2>4 DEF UsernameExists, Codes
    <3> QED BY <1>1, <1>2, <2>1, <2>2, <3>1, DoneStep
  <2> QED BY <2>3, <2>4
<1>10. ASSUME CognitoDone PROVE ImportInv'
  <2>1. dir' = dir /\ call = "end" /\ Done(Success(u)) /\ UNCHANGED <<group, order, seen, file>>
    BY <1>2, <1>10 DEF CognitoDone, CognitoAt
  <2>2. Grows
    BY <1>1, <2>1, Unmoved DEF ImportInv, config
  <2>3. dir[u].known /\ dir[u].final /\ dir[u].enabled = (u \notin Blocked)
    BY <1>3, <2>1 DEF CallsFor
  <2>4. dir[u] = Finished(u)
    <3>1. dir[u].known = TRUE /\ dir[u].final = TRUE
      BY <1>3, <2>3 DEF Account
    <3>2. (u \notin Blocked) \in BOOLEAN
      OBVIOUS
    <3>3. dir[u] = [known |-> dir[u].known, final |-> dir[u].final, enabled |-> dir[u].enabled]
      BY <1>3 DEF Account
    <3> QED BY <2>3, <3>1, <3>3 DEF Finished
  <2> QED BY <1>1, <1>2, <2>1, <2>2, <2>4, DoneStep
<1> QED BY <1>4, <1>5, <1>6, <1>7, <1>8, <1>9, <1>10

LEMMA CognitoFailsStep ==
  ASSUME ImportInv, CognitoFails
  PROVE  ImportInv'
<1>1. /\ Sends /\ target = "cognito" /\ UNCHANGED <<mapping, reader>>
      /\ UNCHANGED <<config, group, order, seen, file>> /\ UNCHANGED <<refs, drops>>
  BY DEF CognitoFails, mapping
<1>2. PICK u : u = First
  OBVIOUS
<1>3. Grows
  <2>1. CASE dir' = [dir EXCEPT ![First] = After(call)]
    BY <1>1, <2>1, CallGrows
  <2>2. CASE UNCHANGED dir
    BY <1>1, <2>2, Unmoved DEF ImportInv, config
  <2> QED BY <2>1, <2>2 DEF CognitoFails
<1>4. CASE ctx
  <2>1. pc' = "idle" /\ UNCHANGED <<config, sending, report, file>>
    BY <1>1, <1>4 DEF CognitoFails, Returns, sending
  <2> QED BY <1>1, <1>3, <2>1, CutShort
<1>5. CASE ~ctx
  <2>1. Done(Failure(u, "REQUEST_ERROR"))
    BY <1>2, <1>5 DEF CognitoFails
  <2>2. "REQUEST_ERROR" \in Codes
    BY DEF Codes
  <2> QED BY <1>1, <1>2, <1>3, <2>1, <2>2, DoneStep
<1> QED BY <1>4, <1>5

-----------------------------------------------------------------------------
(* Firebase's batches. *)

LEMMA BatchGrows ==
  ASSUME ImportInv, Sends, dir' = BatchCreated(batch), UNCHANGED <<refs, drops, config>>
  PROVE  Grows
<1>1. /\ dir \in [File -> Account] /\ onDuplicate' = onDuplicate /\ before' = before
      /\ refs' = refs /\ drops' = drops
  BY DEF ImportInv, Types, SendTypes, config
<1>2. \A u \in File : dir'[u] = IF u \in Range(batch) \ Rejected(batch) THEN Finished(u) ELSE dir[u]
  BY DEF BatchCreated
<1>3. dir' \in [File -> Account]
  <2>1. dir' = [u \in File |-> IF u \in Range(batch) \ Rejected(batch) THEN Finished(u) ELSE dir[u]]
    BY DEF BatchCreated
  <2>2. \A u \in File : (IF u \in Range(batch) \ Rejected(batch) THEN Finished(u) ELSE dir[u]) \in Account
    BY <1>1, FinishedAccount
  <2> HIDE DEF Account
  <2> QED BY <2>1, <2>2
<1>4. ASSUME NEW u \in File
      PROVE  /\ dir[u].known => dir'[u].known
             /\ dir[u] = Finished(u) => dir'[u] = Finished(u)
             /\ ~Upsert /\ before[u].known => dir'[u] = dir[u]
             /\ Dropping /\ u \in drops => dir'[u] = dir[u]
  <2>1. CASE u \in Range(batch) \ Rejected(batch)
    <3>1. dir'[u] = Finished(u) /\ Finished(u).known
      BY <1>2, <2>1, FinishedAccount
    <3>2. ~Upsert => ~before[u].known
      BY <2>1 DEF Rejected, ImportInv, Accounts
    <3>3. ~ (Dropping /\ u \in drops)
      BY <2>1 DEF ImportInv, Dropped, Importing, Sends
    <3> QED BY <3>1, <3>2, <3>3
  <2>2. CASE u \notin Range(batch) \ Rejected(batch)
    <3>1. dir'[u] = dir[u]
      BY <1>2, <2>2
    <3> QED BY <3>1
  <2> QED BY <2>1, <2>2
<1> QED BY <1>1, <1>3, <1>4 DEF Grows

\* The batch is through, every user of it as one that succeeded, or failed.
LEMMA FlushedStep ==
  ASSUME ImportInv, Sends, target = "firebase", Grows,
         NEW a \in Seq(File), NEW b \in Coded, Adds(a, b, <<>>), Flushed(report'),
         \A u \in Range(a) : dir'[u] = Finished(u),
         \A f \in Range(b) : f[2] = "EXISTS" => dir'[f[1]].known,
         \A u \in File : Times(batch, {u}) = Times(a, {u}) + Times(b, About(u)),
         UNCHANGED <<mapping, reader>>, UNCHANGED <<config, group, order, seen, file>>
  PROVE  ImportInv'
<1>1. PICK left : left = <<>>
  OBVIOUS
<1>2. left \in Seq(File) /\ Range(left) \subseteq Range(batch) /\ \A C : Times(left, C) = 0
  BY <1>1, TimesEmpty DEF Range
<1>3. /\ batch' = left /\ call' = "none"
      /\ pc' = IF left # <<>> THEN "send" ELSE IF call = "rest" THEN "rest" ELSE "loop"
  BY <1>1 DEF Flushed
<1>4. ASSUME NEW u \in File
      PROVE  Times(batch, {u}) = Times(left, {u}) + Times(a, {u}) + Times(b, About(u))
  <2>1. Times(left, {u}) = 0 /\ Times(a, {u}) \in Nat /\ Times(b, About(u)) \in Nat
    BY <1>2, Counts, CodedEntries
  <2> QED BY <2>1
<1> QED BY <1>2, <1>3, <1>4, ThroughStep

LEMMA FlushStep ==
  ASSUME ImportInv, Flush
  PROVE  ImportInv'
<1>1. /\ Sends /\ target = "firebase" /\ dir' = BatchCreated(batch) /\ Flushed(report')
      /\ report' = Entries(batch)
      /\ UNCHANGED <<mapping, reader>> /\ UNCHANGED <<config, group, order, seen, file>>
      /\ UNCHANGED <<refs, drops>>
  BY DEF Flush, Flushed, mapping
<1>2. Grows
  BY <1>1, BatchGrows
<1>3. PICK R : R = Rejected(batch)
  OBVIOUS
<1>4. PICK bad, a : bad = Select(batch, R) /\ a = Select(batch, File \ R)
  OBVIOUS
<1>5. batch \in Seq(File) /\ Range(batch) \subseteq File
  BY DEF ImportInv, Types, SendTypes, Range
<1>6. /\ bad \in Seq(File) /\ Range(bad) = Range(batch) \cap R
      /\ a \in Seq(File) /\ Range(a) = Range(batch) \cap (File \ R)
  BY <1>4, <1>5, SelectType
<1>7. PICK b : b = [i \in DOMAIN bad |-> <<bad[i], "EXISTS">>]
  OBVIOUS
<1>8. "EXISTS" \in Codes
  BY DEF Codes
<1>9. b \in Coded /\ Range(b) = Range(bad) \X {"EXISTS"} /\ \A u : Times(b, About(u)) = Times(bad, {u})
  BY <1>6, <1>7, <1>8, CodedPairs, SMTT(30)
<1>10. report' = [report EXCEPT !.failed = @ \o b, !.succeeded = @ \o a, !.ids = @ \cup Range(a)]
  BY <1>1, <1>3, <1>4, <1>7 DEF Entries
<1>11. Adds(a, b, <<>>)
  <2>1. /\ DOMAIN report = {"succeeded", "failed", "skipped", "ids"} /\ report.skipped \in Coded
    BY DEF ImportInv, Types, SendTypes, Shaped
  <2>2. report.skipped \o <<>> = report.skipped
    BY <2>1 DEF Coded
  <2> QED BY <1>10, <2>1, <2>2 DEF Adds
<1>12. \A u \in Range(a) : dir'[u] = Finished(u)
  BY <1>1, <1>3, <1>5, <1>6 DEF BatchCreated
<1>13. \A f \in Range(b) : f[2] = "EXISTS" => dir'[f[1]].known
  <2>1. \A u \in R : u \in File /\ dir[u].known
    BY <1>3, <1>5 DEF Rejected
  <2>2. \A u \in R : dir'[u].known
    BY <1>2, <2>1 DEF Grows
  <2> QED BY <1>6, <1>9, <2>2
<1>14. ASSUME NEW u \in File PROVE Times(batch, {u}) = Times(a, {u}) + Times(b, About(u))
  <2>1. Times(b, About(u)) = Times(bad, {u})
    BY <1>9
  <2>2. Times(bad, {u}) = Times(batch, R \cap {u}) /\ Times(a, {u}) = Times(batch, (File \ R) \cap {u})
    BY <1>4, <1>5, SelectTimes
  <2>3. Times(batch, {}) = 0 /\ Times(batch, {u}) \in Nat
    BY <1>5, TimesNone, Counts
  <2>4. CASE u \in R
    <3>1. R \cap {u} = {u} /\ (File \ R) \cap {u} = {}
      BY <2>4
    <3>2. Times(bad, {u}) = Times(batch, {u}) /\ Times(a, {u}) = Times(batch, {})
      BY <2>2, <3>1, Zenon
    <3> QED BY <2>1, <2>3, <3>2
  <2>5. CASE u \notin R
    <3>1. R \cap {u} = {} /\ (File \ R) \cap {u} = {u}
      BY <2>5
    <3>2. Times(bad, {u}) = Times(batch, {}) /\ Times(a, {u}) = Times(batch, {u})
      BY <2>2, <3>1, Zenon
    <3> QED BY <2>1, <2>3, <3>2
  <2> QED BY <2>4, <2>5
<1> QED BY <1>1, <1>2, <1>6, <1>9, <1>11, <1>12, <1>13, <1>14, FlushedStep

LEMMA FlushRetriedStep ==
  ASSUME ImportInv, FlushRetried
  PROVE  ImportInv'
<1>1. /\ Sends /\ target = "firebase" /\ dir' = BatchCreated(batch)
      /\ UNCHANGED <<mapping, reader, config>> /\ UNCHANGED <<refs, drops>>
      /\ UNCHANGED <<pc, group, order, batch, call, seen, report, file>>
  BY DEF FlushRetried, mapping, sending
<1>2. Grows
  BY <1>1, BatchGrows
<1>3. call' \in {"none", "get", "password", "enable", "end", "rest"} /\ seen' \in Account
  BY <1>1 DEF ImportInv, Types, SendTypes
<1> QED BY <1>1, <1>2, <1>3, CallingStep

LEMMA FlushFailsStep ==
  ASSUME ImportInv, FlushFails
  PROVE  ImportInv'
<1>1. /\ Sends /\ target = "firebase" /\ UNCHANGED <<mapping, reader>>
      /\ UNCHANGED <<config, group, order, seen, file>> /\ UNCHANGED <<refs, drops>>
  BY DEF FlushFails, mapping
<1>2. Grows
  <2>1. CASE dir' = BatchCreated(batch)
    BY <1>1, <2>1, BatchGrows
  <2>2. CASE UNCHANGED dir
    BY <1>1, <2>2, Unmoved DEF ImportInv, config
  <2> QED BY <2>1, <2>2 DEF FlushFails
<1>3. CASE ctx
  <2>1. pc' = "idle" /\ UNCHANGED <<config, sending, report, file>>
    BY <1>1, <1>3 DEF FlushFails, Returns, sending
  <2> QED BY <1>1, <1>2, <2>1, CutShort
<1>4. CASE ~ctx
  <2>1. PICK b : b = [i \in DOMAIN batch |-> <<batch[i], "REQUEST_ERROR">>]
    OBVIOUS
  <2>2. batch \in Seq(File) /\ "REQUEST_ERROR" \in Codes
    BY DEF ImportInv, Types, SendTypes, Codes
  <2>3. b \in Coded /\ Range(b) = Range(batch) \X {"REQUEST_ERROR"}
        /\ \A u : Times(b, About(u)) = Times(batch, {u})
    BY <2>1, <2>2, CodedPairs
  <2>4. report' = [report EXCEPT !.failed = @ \o b] /\ Flushed(report')
    BY <1>4, <2>1 DEF FlushFails, Flushed
  <2>5. /\ DOMAIN report = {"succeeded", "failed", "skipped", "ids"} /\ report.succeeded \in Seq(File)
        /\ report.skipped \in Coded
    BY DEF ImportInv, Types, SendTypes, Shaped
  <2>6. PICK a : a = <<>>
    OBVIOUS
  <2>7. /\ a \in Seq(File) /\ Range(a) = {} /\ \A C : Times(a, C) = 0
        /\ report.succeeded \o a = report.succeeded /\ report.skipped \o <<>> = report.skipped
    BY <2>5, <2>6, TimesEmpty DEF Range, Coded
  <2>8. Adds(a, b, <<>>)
    BY <2>4, <2>5, <2>7 DEF Adds
  <2>9. ASSUME NEW u \in File PROVE Times(batch, {u}) = Times(a, {u}) + Times(b, About(u))
    <3>1. Times(batch, {u}) \in Nat
      BY <2>2, Counts
    <3> QED BY <2>3, <2>7, <3>1
  <2>10. \A f \in Range(b) : f[2] = "EXISTS" => dir'[f[1]].known
    BY <2>3
  <2> QED BY <1>1, <1>2, <2>3, <2>4, <2>7, <2>8, <2>9, <2>10, FlushedStep
<1> QED BY <1>3, <1>4

-----------------------------------------------------------------------------
(* Together. *)

LEMMA ImportStarts ==
  ASSUME Init
  PROVE  ImportInv
<1>1. PICK c \in Scenarios :
        /\ refs = c.refs /\ drops = c.drops /\ broken = c.broken
        /\ target = c.target /\ onDuplicate = c.onDuplicate /\ job = c.job
        /\ dir = [u \in File |-> IF u \in c.there THEN [Finished(u) EXCEPT !.enabled = TRUE] ELSE Absent]
  BY DEF Init
<1>2. /\ refs \in [ImportStrategies -> OnFailure] /\ drops \subseteq File /\ broken \in 0..N
      /\ target \in Targets /\ onDuplicate \in {"fail", "skip", "upsert"} /\ job \in BOOLEAN
  BY <1>1, VerifyAssumption
<1>3. /\ read = 0 /\ readErr = "none" /\ raw = <<>> /\ stage = "idle" /\ items = <<>>
      /\ answered = {} /\ batchNo = [s \in ImportStrategies |-> 0]
      /\ queue = <<>> /\ skipped = <<>> /\ applied = [u \in File |-> {}]
      /\ before = dir /\ pc = "idle" /\ group = [p \in HashParams |-> <<>>] /\ order = <<>>
      /\ batch = <<>> /\ call = "none" /\ seen = Absent /\ report = EmptyReport /\ file = NoReport
  BY DEF Init, PrepInit
<1>4. Absent \in Account
  BY DEF Absent, Account
<1>5. dir \in [File -> Account]
  <2>1. \A u \in File : [Finished(u) EXCEPT !.enabled = TRUE] \in Account
    BY DEF Finished, Account
  <2> QED BY <1>1, <1>4, <2>1
<1>6. <<>> \in Coded /\ <<>> \in Seq(File) /\ Range(<<>>) = {}
  BY CodedEntries DEF Range
<1>7. /\ report.succeeded = <<>> /\ report.failed = <<>> /\ report.skipped = <<>> /\ report.ids = {}
      /\ DOMAIN report = {"succeeded", "failed", "skipped", "ids"}
      /\ file.succeeded = <<>> /\ file.failed = <<>> /\ file.skipped = <<>> /\ file.ids = {0}
      /\ DOMAIN file = {"succeeded", "failed", "skipped", "ids"}
  BY <1>3 DEF EmptyReport, NoReport
<1>8. PrepTypes
  <2>1. 0 \in 0..Readable
    BY <1>2, PrepAssumption DEF Readable
  <2> QED BY <1>2, <1>3, <1>6, <2>1 DEF PrepTypes
<1>9. SendTypes
  <2>1. Shaped(report) /\ Shaped(file)
    BY <1>6, <1>7 DEF Shaped
  <2>2. group \in [HashParams -> Seq(File)] /\ order \in Seq(HashParams)
    BY <1>3
  <2> QED BY <1>2, <1>3, <1>4, <1>5, <1>6, <2>1, <2>2 DEF SendTypes
<1>10. Journey
  <2>1. Grouped
    BY <1>3, <1>6 DEF Grouped
  <2>2. Stations /\ ReadingOver /\ Accounted
    BY <1>3 DEF Stations, Importing, ReadingOver, Accounted
  <2> QED BY <2>1, <2>2 DEF Journey
<1>11. Accounts
  <2>1. TrueReport(report) /\ TrueReport(file)
    BY <1>3, <1>6, <1>7 DEF TrueReport
  <2>2. FoundIsKept
    BY <1>3 DEF FoundIsKept
  <2> QED BY <1>3, <1>6, <1>7, <2>1, <2>2 DEF Accounts
<1>12. Dropped /\ DroppedStaysOut
  BY <1>2, <1>3 DEF Dropped, Importing, DroppedStaysOut
<1> QED BY <1>8, <1>9, <1>10, <1>11, <1>12 DEF ImportInv, Types

\* No step of a diff has to do with what ImportInv says.
LEMMA DiffStep ==
  ASSUME ImportInv, Diff \/ Checks
  PROVE  ImportInv'
<1>1. UNCHANGED importState
  BY DEF Diff, Checks, ReadUser, ReadLast, LookedUp, CheckUser, Compare, CompareIgnored, Count, DiffFails,
         importState, vars, importVars, prepVars, mapping, reader, config, sending
<1> QED BY <1>1, Untouched

LEMMA ImportStep ==
  ASSUME ImportInv, [Next]_allVars
  PROVE  ImportInv'
<1>1. ASSUME Start \/ Refused \/ Cancel \/ Killed PROVE ImportInv'
  BY <1>1, StartStep, StillStep, StopStep
<1>2. ASSUME Interrupted \/ Turn \/ ReadBatch \/ ReadEof \/ ReadBreaks PROVE ImportInv'
  BY <1>2, StopStep, OnwardStep, ReadBatchStep
<1>3. ASSUME HandlerCalled \/ HandlerRetried \/ HandlerIgnored \/ HandlerFailed PROVE ImportInv'
  BY <1>3, HandlerStep, StillStep, HandlerFailedStep
<1>4. ASSUME Build \/ Take \/ FlushRest \/ ImportEnds PROVE ImportInv'
  BY <1>4, BuildStep, TakeStep, FlushRestStep, ImportEndsStep
<1>5. ASSUME Post \/ PostFails PROVE ImportInv'
  BY <1>5, PostStep, PostFailsStep
<1>6. ASSUME AdminCreateUser \/ UsernameExists \/ CreateRetried \/ GetAndUpdate
               \/ AdminSetUserPassword \/ AdminDisableOrEnableUser \/ CognitoDone \/ CognitoFails
      PROVE  ImportInv'
  BY <1>6, CognitoStep, CognitoFailsStep
<1>7. ASSUME Flush \/ FlushRetried \/ FlushFails PROVE ImportInv'
  BY <1>7, FlushStep, FlushRetriedStep, FlushFailsStep
<1>8. ASSUME WriteReport \/ ImportAfter \/ ImportAfterFails \/ SaveReport PROVE ImportInv'
  BY <1>8, WriteReportStep, OnwardStep, SaveReportStep
<1>9. ASSUME Runs PROVE ImportInv'
  BY <1>2, <1>3, <1>4, <1>5, <1>6, <1>7, <1>8, <1>9 DEF Runs
<1>10. ASSUME Diff \/ Checks PROVE ImportInv'
  BY <1>10, DiffStep
<1>11. ASSUME UNCHANGED allVars PROVE ImportInv'
  <2>1. UNCHANGED importState
    BY <1>11 DEF allVars, vars, importVars, prepVars, importState, mapping, reader, config, sending
  <2> QED BY <2>1, Untouched
<1> QED BY <1>1, <1>9, <1>10, <1>11 DEF Next, ImportNext

\* Through every step of an import, cut short or not, and of a diff: each user read is
\* in one place, each report is true of the accounts, and what no request created
\* stays absent.
THEOREM ImportsAccountForAll == Spec => []ImportInv
<1>1. Init => ImportInv
  BY ImportStarts
<1>2. ImportInv /\ [Next]_allVars => ImportInv'
  BY ImportStep
<1> QED BY <1>1, <1>2, PTL DEF Spec

-----------------------------------------------------------------------------
(* What follows. *)

\* How often a report mentions a user is how often its entries are about it.
LEMMA MentionsOf ==
  ASSUME NEW u \in File
  PROVE  /\ \A s : Count1(u, s) = Times(s, {u})
         /\ \A s \in Coded : Count1(u, Users(s)) = Times(s, About(u))
         /\ \A r : Shaped(r) => Mentions(r, u) = Reported(r, u)
<1>1. \A s : Count1(u, s) = Times(s, {u})
  <2>1. \A s : {i \in DOMAIN s : s[i] = u} = {i \in DOMAIN s : s[i] \in {u}}
    OBVIOUS
  <2> QED BY <2>1 DEF Count1, Times
<1>2. ASSUME NEW s \in Coded PROVE Count1(u, Users(s)) = Times(s, About(u))
  <2>1. DOMAIN Users(s) = DOMAIN s /\ \A i \in DOMAIN s : Users(s)[i] = s[i][1]
    BY DEF Users
  <2>2. \A i \in DOMAIN s : s[i] \in File \X Codes
    BY DEF Coded
  <2>3. \A f \in File \X Codes : f[1] = u <=> f \in About(u)
    BY DEF About
  <2>4. {i \in DOMAIN Users(s) : Users(s)[i] = u} = {i \in DOMAIN s : s[i] \in About(u)}
    BY <2>1, <2>2, <2>3
  <2> QED BY <2>4 DEF Count1, Times
<1>3. ASSUME NEW r, Shaped(r) PROVE Mentions(r, u) = Reported(r, u)
  BY <1>1, <1>2, <1>3 DEF Shaped, Mentions, Reported
<1> QED BY <1>1, <1>2, <1>3

\* The report of an import that ends names every user of the file once, whatever the
\* sizes of the batches and of Firebase's groups, whoever is dropped, and whatever fails.
THEOREM ImportsReportEveryUser == Spec => []EveryUserReported
<1>1. ImportInv => EveryUserReported
  BY MentionsOf DEF ImportInv, Types, SendTypes, Journey, Accounted, EveryUserReported
<1> QED BY <1>1, ImportsAccountForAll, PTL

\* A user reported to have succeeded is in the target for good, as the file has it.
THEOREM ReportsAreTrue == Spec => []SucceededIsFinished
<1>1. ImportInv => SucceededIsFinished
  BY DEF ImportInv, Accounts, TrueReport, SucceededIsFinished
<1> QED BY <1>1, ImportsAccountForAll, PTL

\* Without upsert an import leaves the accounts it found as they were.
THEOREM FoundAccountsAreKept == Spec => []FoundIsKept
<1>1. ImportInv => FoundIsKept
  BY DEF ImportInv, Accounts
<1> QED BY <1>1, ImportsAccountForAll, PTL

\* A user import.user drops is never created, unless its failures are ignored.
THEOREM DroppedAreNotCreated == Spec => []DroppedStaysOut
<1>1. ImportInv => DroppedStaysOut
  BY DEF ImportInv
<1> QED BY <1>1, ImportsAccountForAll, PTL

\* The skipped users come into the report at its end.
Unskipped == interrupts \in Nat /\ (Importing => report.skipped = <<>>)

LEMMA UnskippedStep ==
  ASSUME ImportInv, Unskipped, [Next]_allVars
  PROVE  Unskipped'
<1>0. /\ DOMAIN report = {"succeeded", "failed", "skipped", "ids"}
      /\ interrupts \in Nat /\ (Importing => report.skipped = <<>>)
  BY DEF ImportInv, Types, SendTypes, Shaped, Unskipped
<1>1. ASSUME Start \/ Refused \/ Cancel \/ Killed PROVE Unskipped'
  BY <1>0, <1>1 DEF Start, Refused, Cancel, Killed, Unskipped, Importing, EmptyReport, bounds
<1>2. ASSUME Interrupted \/ Turn \/ ReadBatch \/ ReadEof \/ ReadBreaks PROVE Unskipped'
  BY <1>0, <1>2 DEF Interrupted, Turn, ReadBatch, ReadEof, ReadBreaks, Returns, Unskipped, Importing,
                    bounds, importVars
<1>3. ASSUME HandlerCalled \/ HandlerRetried \/ HandlerIgnored \/ HandlerFailed PROVE Unskipped'
  BY <1>0, <1>3 DEF HandlerCalled, HandlerRetried, HandlerIgnored, HandlerFailed, AfterPayloads, Returns,
                    Unskipped, Importing, bounds, importVars
<1>4. ASSUME Build \/ Take \/ FlushRest PROVE Unskipped'
  <2>1. interrupts' = interrupts /\ Importing
    BY <1>4 DEF Build, Take, FlushRest, bounds, Importing
  <2>2. \A us : Untranslated(us).skipped = report.skipped
    BY <1>0 DEF Untranslated
  <2>3. report'.skipped = report.skipped
    BY <1>4, <2>2 DEF Build, Take, FlushRest
  <2> QED BY <1>0, <2>1, <2>3 DEF Unskipped
<1>5. ASSUME ImportEnds \/ WriteReport \/ ImportAfter \/ ImportAfterFails \/ SaveReport PROVE Unskipped'
  BY <1>0, <1>5 DEF ImportEnds, WriteReport, ImportAfter, ImportAfterFails, SaveReport, Unskipped,
                    Importing, bounds
<1>6. ASSUME Post \/ PostFails \/ Flush \/ FlushRetried \/ FlushFails \/ CognitoFails
               \/ AdminCreateUser \/ UsernameExists \/ CreateRetried \/ GetAndUpdate
               \/ AdminSetUserPassword \/ AdminDisableOrEnableUser \/ CognitoDone
      PROVE  Unskipped'
  <2>1. interrupts' = interrupts /\ Importing
    BY <1>6 DEF Post, PostFails, Flush, FlushRetried, FlushFails, CognitoFails, AdminCreateUser,
       UsernameExists, CreateRetried, GetAndUpdate, AdminSetUserPassword, AdminDisableOrEnableUser,
       CognitoDone, CognitoAt, Answered, Sends, bounds, Importing
  <2>2. \A u, c : Success(u).skipped = report.skipped /\ Failure(u, c).skipped = report.skipped
    BY <1>0 DEF Success, Failure
  <2>3. Entries(batch).skipped = report.skipped
    BY <1>0 DEF Entries
  <2>4. \A s : [report EXCEPT !.failed = @ \o s].skipped = report.skipped
    BY <1>0
  <2>5. report'.skipped = report.skipped
    BY <1>6, <2>2, <2>3, <2>4 DEF Post, PostFails, Flush, FlushRetried, FlushFails, CognitoFails,
       AdminCreateUser, UsernameExists, CreateRetried, GetAndUpdate, AdminSetUserPassword,
       AdminDisableOrEnableUser, CognitoDone, Answered, Done, Flushed, sending
  <2> QED BY <1>0, <2>1, <2>5 DEF Unskipped
<1>7. ASSUME Diff \/ Checks PROVE Unskipped'
  BY <1>0, <1>7 DEF Diff, Checks, ReadUser, ReadLast, LookedUp, CheckUser, Compare, CompareIgnored, Count,
                    DiffFails, vars, importVars, Unskipped, Importing
<1>8. ASSUME UNCHANGED allVars PROVE Unskipped'
  BY <1>0, <1>8 DEF allVars, vars, importVars, Unskipped, Importing
<1> QED BY <1>1, <1>2, <1>3, <1>4, <1>5, <1>6, <1>7, <1>8 DEF Next, ImportNext, Runs

LEMMA SkippedLast == Spec => []Unskipped
<1>1. Init => Unskipped
  BY DEF Init, Unskipped, Importing
<1>2. ImportInv /\ Unskipped /\ [Next]_allVars => Unskipped'
  BY UnskippedStep
<1> QED BY <1>1, <1>2, ImportsAccountForAll, PTL DEF Spec

\* A file that breaks off fails the import after the users before it, all of them
\* reported or left out.
THEOREM BrokenFilesFailLast == Spec => BrokenFileIsLast
<1> DEFINE Broken == pc = "read" /\ pc' = "idle" /\ stage = "idle" /\ interrupts' = interrupts
                       /\ target # "firebase"
<1>1. ASSUME ImportInv, Unskipped, Next, Broken
      PROVE  ReadBreaks
  <2>1. ~ (Refused \/ Start \/ Cancel \/ Killed)
    BY <1>1 DEF Refused, Start, Cancel, Killed, Unskipped
  <2>2. ~ (Diff \/ Checks)
    BY <1>1 DEF Diff, Checks, ReadUser, ReadLast, LookedUp, CheckUser, Compare, CompareIgnored, Count,
                DiffFails, vars, importVars
  <2>3. ~ (HandlerCalled \/ HandlerRetried \/ HandlerIgnored \/ HandlerFailed)
    BY <1>1 DEF HandlerCalled, HandlerRetried, HandlerIgnored, HandlerFailed, HandlerAnswers, CallRetried,
       FailureIgnored, FailureFails, AnswerUnusable, Call, Posted
  <2>4. ~ (Build \/ Take \/ ReadEof \/ FlushRest \/ ImportEnds \/ Interrupted \/ Turn \/ ReadBatch)
    BY <1>1 DEF Build, Take, Send, ReadEof, FlushRest, ImportEnds, Interrupted, Turn, ReadBatch, importVars
  <2>5. ~ (Post \/ PostFails \/ Flush \/ FlushRetried \/ FlushFails \/ CognitoFails
               \/ AdminCreateUser \/ UsernameExists \/ CreateRetried \/ GetAndUpdate
               \/ AdminSetUserPassword \/ AdminDisableOrEnableUser \/ CognitoDone
               \/ WriteReport \/ ImportAfter \/ ImportAfterFails \/ SaveReport)
    BY <1>1 DEF Post, PostFails, Flush, FlushRetried, FlushFails, CognitoFails, AdminCreateUser,
       UsernameExists, CreateRetried, GetAndUpdate, AdminSetUserPassword, AdminDisableOrEnableUser,
       CognitoDone, CognitoAt, Sends, WriteReport, ImportAfter, ImportAfterFails, SaveReport
  <2> QED BY <1>1, <2>1, <2>2, <2>3, <2>4, <2>5 DEF Next, ImportNext, Runs
<1>2. ASSUME ImportInv, Unskipped, ReadBreaks, Broken, NEW u \in 1..Readable
      PROVE  Mentions([report EXCEPT !.skipped = Users(<<>>)], u) + Count1(u, skipped) = 1
  <2>1. /\ read = Readable /\ queue = <<>> /\ ~Preparing /\ batch = <<>> /\ Importing /\ u \in File
        /\ group[ParamsOf[u]] = <<>> /\ Shaped(report) /\ report.skipped = <<>> /\ u <= read
        /\ skipped \in Seq(File)
    <3>1. pc = "read" /\ ReadOver /\ readErr = "broken" /\ Importing
      BY <1>2 DEF ReadBreaks, Importing
    <3>2. u \in File /\ u <= Readable
      BY <1>2, PrepAssumption DEF File, Readable, ImportInv, Types, PrepTypes
    <3>3. group[ParamsOf[u]] = <<>>
      BY <1>2, <3>2, ImportAssumption DEF ImportInv, Journey, Grouped
    <3>4. Shaped(report) /\ skipped \in Seq(File)
      BY <1>2 DEF ImportInv, Types, PrepTypes, SendTypes
    <3>5. read = Readable /\ queue = <<>> /\ ~Preparing /\ batch = <<>> /\ report.skipped = <<>>
      BY <1>2, <3>1 DEF ImportInv, Journey, ReadingOver, Stations, ReadOver, Preparing, Unskipped
    <3> QED BY <3>1, <3>2, <3>3, <3>4, <3>5
  <2>2. PICK s \in Nat, r \in Nat : s = Times(skipped, {u}) /\ r = Reported(report, u)
    BY <1>2, <2>1, Counts, CountsOf
  <2>3. InReader(u) + Waits(u) + r = 1
    BY <1>2, <2>1, <2>2 DEF ImportInv, Journey, Accounted
  <2>4. InReader(u) = 0 + 0 + s /\ Waits(u) = 0 + 0
    BY <2>1, <2>2, TimesEmpty DEF InReader, Waits
  <2>5. PICK q : q = [report EXCEPT !.skipped = Users(<<>>)]
    OBVIOUS
  <2>6. Shaped(q) /\ Reported(q, u) = r
    <3>1. Users(<<>>) = <<>> /\ <<>> \in Coded
      BY CodedEntries DEF Users
    <3>2. /\ DOMAIN q = DOMAIN report /\ q.succeeded = report.succeeded /\ q.failed = report.failed
          /\ q.skipped = report.skipped /\ q.ids = report.ids
      BY <2>1, <2>5, <3>1 DEF Shaped
    <3> QED BY <2>1, <2>2, <3>2 DEF Shaped, Reported
  <2>7. Mentions(q, u) = r /\ Count1(u, skipped) = s
    BY <2>1, <2>2, <2>6, MentionsOf
  <2> QED BY <2>2, <2>3, <2>4, <2>5, <2>7
<1>3. ImportInv /\ Unskipped /\ [Next]_allVars =>
        [Broken => \A u \in 1..Readable :
           Mentions([report EXCEPT !.skipped = Users(<<>>)], u) + Count1(u, skipped) = 1]_allVars
  BY <1>1, <1>2
<1> QED BY <1>3, ImportsAccountForAll, SkippedLast, PTL DEF Spec, BrokenFileIsLast
=============================================================================
