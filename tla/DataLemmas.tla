----------------------------- MODULE DataLemmas -----------------------------
(***************************************************************************)
(* What recursive functions compute for every input: filters and sums.     *)
(* Induction is used through sets (a set that holds 0 and with n also      *)
(* n + 1 holds every natural number), for no installed prover can          *)
(* instantiate the library's induction rules.                              *)
(***************************************************************************)
EXTENDS Filters, Integers, Sequences, SequencesExt, Functions, FiniteSets, FiniteSetTheorems,
        SequenceTheorems, WellFoundedInduction, TLAPS

LEMMA SmallestNat ==
  ASSUME NEW T \in SUBSET Nat, T # {}
  PROVE  \E n \in T : \A m \in T : n <= m
<1>1. PICK x \in T : \A y \in T : ~ (<<y, x>> \in OpToRel(<, Nat))
  BY NatLessThanWellFounded, WFMin
<1>2. ASSUME NEW y \in T, y < x PROVE FALSE
  BY <1>1, <1>2 DEF OpToRel
<1> QED
  BY <1>2

LEMMA Induction ==
  ASSUME NEW S, 0 \in S, \A n \in Nat : n \in S => n + 1 \in S
  PROVE  Nat \subseteq S
<1> SUFFICES ASSUME Nat \ S # {} PROVE FALSE
  OBVIOUS
<1>1. PICK n \in Nat \ S : \A m \in Nat \ S : n <= m
  BY SmallestNat
<1>2. n # 0 /\ n - 1 \in Nat /\ n - 1 \in S
  BY <1>1
<1> QED
  BY <1>1, <1>2

\* f starts with e and goes on by step.
Steps(f, V, e, n, step) ==
    f \in [0..n -> V] /\ f[0] = e /\ \A i \in 1..n : f[i] = step[<<f[i - 1], i>>]

\* A function defined by recursion over 0..n exists ...
LEMMA RecursionExists ==
  ASSUME NEW V, NEW e \in V, NEW n \in Nat, NEW step \in [V \X (1..n) -> V]
  PROVE  \E f : Steps(f, V, e, n, step)
<1> DEFINE Upto(f, k) == /\ f \in [0..k -> V]
                         /\ f[0] = e /\ \A i \in 1..k : f[i] = step[<<f[i - 1], i>>]
           S == {k \in Nat : k <= n => \E f : Upto(f, k)}
<1>1. 0 \in S
  <2>1. Upto([i \in 0..0 |-> e], 0)
    OBVIOUS
  <2> QED
    BY <2>1
<1>2. ASSUME NEW k \in Nat, k \in S PROVE k + 1 \in S
  <2> SUFFICES ASSUME k + 1 <= n PROVE \E f : Upto(f, k + 1)
    OBVIOUS
  <2>1. PICK f : Upto(f, k)
    <3>1. k <= n => \E f : Upto(f, k)
      BY <1>2
    <3> QED
      BY <3>1
  <2> DEFINE g == [i \in 0..(k + 1) |-> IF i = k + 1 THEN step[<<f[k], k + 1>>] ELSE f[i]]
  <2>2. g \in [0..(k + 1) -> V]
    <3>1. f[k] \in V /\ k + 1 \in 1..n
      BY <2>1
    <3> QED
      BY <2>1, <3>1
  <2>3. g[0] = e
    BY <2>1
  <2>4. ASSUME NEW i \in 1..(k + 1) PROVE g[i] = step[<<g[i - 1], i>>]
    <3>1. i - 1 \in 0..k /\ g[i - 1] = f[i - 1]
      OBVIOUS
    <3>2. CASE i = k + 1
      <4>1. g[k + 1] = step[<<f[k], k + 1>>] /\ i - 1 = k
        BY <3>2
      <4> QED
        BY <3>1, <3>2, <4>1
    <3>3. CASE i \in 1..k
      BY <2>1, <3>1, <3>3
    <3> QED
      BY <3>2, <3>3
  <2>5. Upto(g, k + 1)
    BY <2>2, <2>3, <2>4
  <2> QED
    BY <2>5
<1> HIDE DEF S
<1>3. n \in S
  BY <1>1, <1>2, Induction
<1> QED
  BY <1>3 DEF S, Steps

\* The same of an f that is not known to take its values in V.
Follows(f, V, e, n, step) ==
    /\ f = [i \in 0..n |-> f[i]] /\ f[0] = e
    /\ \A i \in 1..n : f[i - 1] \in V => f[i] = step[<<f[i - 1], i>>]

\* ... and takes its values where the step does.
LEMMA RecursionTypes ==
  ASSUME NEW V, NEW e \in V, NEW n \in Nat, NEW step \in [V \X (1..n) -> V],
         NEW f, Follows(f, V, e, n, step)
  PROVE  f \in [0..n -> V]
<1> DEFINE S == {k \in Nat : k <= n => f[k] \in V}
<1>1. 0 \in S
  BY DEF Follows
<1>2. ASSUME NEW k \in Nat, k \in S PROVE k + 1 \in S
  <2> SUFFICES ASSUME k + 1 <= n PROVE f[k + 1] \in V
    OBVIOUS
  <2>1. f[k] \in V /\ k + 1 \in 1..n /\ (k + 1) - 1 = k
    BY <1>2
  <2>2. f[k + 1] = step[<<f[k], k + 1>>]
    BY <2>1 DEF Follows
  <2> QED
    BY <2>1, <2>2
<1> HIDE DEF S
<1>3. \A k \in Nat : k \in S
  BY <1>1, <1>2, Induction
<1>4. \A k \in 0..n : f[k] \in V
  BY <1>3 DEF S
<1> QED
  BY <1>4 DEF Follows

-----------------------------------------------------------------------------
(* Filters.                                                                *)

\* f[i] is what is picked of the first i.
Picks(f, S, s, I) ==
    /\ f \in [0..Len(s) -> Seq(S)]
    /\ f[0] = <<>>
    /\ \A i \in 1..Len(s) : f[i] = IF i \in I THEN Append(f[i - 1], s[i]) ELSE f[i - 1]
    /\ Picked(s, I) = f[Len(s)]

\* The equation Picked is defined by has a solution.
LEMMA PickedEquation ==
  ASSUME NEW S, NEW s \in Seq(S), NEW I
  PROVE  \E f : Picks(f, S, s, I)
<1> DEFINE n == Len(s)
           V == Seq(S)
           e == <<>>
           step == [p \in V \X (1..n) |-> IF p[2] \in I THEN Append(p[1], s[p[2]]) ELSE p[1]]
           Body(f, i) == IF i = 0 THEN <<>>
                         ELSE IF i \in I THEN Append(f[i - 1], s[i]) ELSE f[i - 1]
           Eq(f) == f = [i \in 0..n |-> Body(f, i)]
           g == CHOOSE f : Eq(f)
<1>1. n \in Nat /\ e \in V /\ step \in [V \X (1..n) -> V]
  OBVIOUS
<1>2. \A q \in V, i \in 1..n : step[<<q, i>>] = IF i \in I THEN Append(q, s[i]) ELSE q
  OBVIOUS
<1> HIDE DEF n, e, step, V, Eq, g
<1>3. PICK f : Steps(f, V, e, n, step)
  BY <1>1, RecursionExists
<1> USE DEF n, e, Eq, g
<1>4. Eq(f)
  <2>1. ASSUME NEW i \in 0..n PROVE f[i] = Body(f, i)
    <3>1. CASE i = 0
      BY <1>3, <3>1 DEF Steps
    <3>2. CASE i \in 1..n
      <4>1. f[i - 1] \in V
        BY <1>1, <1>3, <3>2 DEF Steps
      <4> QED
        BY <1>2, <1>3, <3>2, <4>1 DEF Steps
    <3> QED
      BY <1>1, <3>1, <3>2
  <2>2. f = [i \in 0..n |-> f[i]]
    BY <1>3 DEF Steps
  <2> QED
    BY <2>1, <2>2
<1>5. Eq(g)
  BY <1>4
<1>6. Picked(s, I) = g[n]
  BY DEF Picked
<1> HIDE DEF g
<1> HIDE DEF n, Body
<1>9. \A i \in 0..n : g[i] = Body(g, i)
  BY <1>5
<1>7. g[0] = e /\ \A i \in 1..n : g[i] = IF i \in I THEN Append(g[i - 1], s[i]) ELSE g[i - 1]
  BY <1>1, <1>9 DEF Body
<1>8. g \in [0..n -> V]
  <2>1. g = [i \in 0..n |-> g[i]]
    BY <1>5
  <2> HIDE DEF Eq, e
  <2>2. \A i \in 1..n : g[i - 1] \in V => g[i] = step[<<g[i - 1], i>>]
    BY <1>2, <1>7
  <2>3. Follows(g, V, e, n, step)
    BY <1>7, <2>1, <2>2 DEF Follows
  <2> QED
    BY <1>1, <2>3, RecursionTypes
<1> QED
  BY <1>6, <1>7, <1>8 DEF n, V, e, Picks

\* p holds what s holds at the positions at[1] < at[2] < ..., which are those
\* of the first n that are in I.
Selects(at, p, s, I, n) ==
    /\ at \in [1..Len(p) -> 1..n]
    /\ \A k \in 1..Len(p) : at[k] \in I /\ p[k] = s[at[k]]
    /\ \A j, k \in 1..Len(p) : j < k => at[j] < at[k]
    /\ \A i \in 1..n : i \in I => \E k \in 1..Len(p) : at[k] = i

LEMMA PickedSelects ==
  ASSUME NEW S, NEW s \in Seq(S), NEW I
  PROVE  Picked(s, I) \in Seq(S) /\ \E at : Selects(at, Picked(s, I), s, I, Len(s))
<1>1. PICK f : Picks(f, S, s, I)
  BY PickedEquation
<1> DEFINE N == {n \in Nat : n <= Len(s) => \E at : Selects(at, f[n], s, I, n)}
<1>2. 0 \in N
  <2>1. Selects([k \in 1..0 |-> 0], f[0], s, I, 0)
    BY <1>1 DEF Selects, Picks
  <2> QED
    BY <2>1
<1>3. ASSUME NEW n \in Nat, n \in N PROVE n + 1 \in N
  <2> SUFFICES ASSUME n + 1 <= Len(s) PROVE \E at : Selects(at, f[n + 1], s, I, n + 1)
    OBVIOUS
  <2>1. PICK at : Selects(at, f[n], s, I, n)
    BY <1>3
  <2>2. /\ n + 1 \in 1..Len(s) /\ (n + 1) - 1 = n /\ f[n] \in Seq(S) /\ s[n + 1] \in S
        /\ f[n + 1] = IF n + 1 \in I THEN Append(f[n], s[n + 1]) ELSE f[n]
    <3>1. n + 1 \in 1..Len(s) /\ n \in 0..Len(s) /\ (n + 1) - 1 = n /\ Len(s) \in Nat
      OBVIOUS
    <3>2. f[n] \in Seq(S) /\ s[n + 1] \in S
      BY <1>1, <3>1 DEF Picks
    <3> QED
      BY <1>1, <3>1, <3>2 DEF Picks
  <2>3. CASE n + 1 \notin I
    <3>1. Selects(at, f[n], s, I, n + 1)
      BY <2>1, <2>2, <2>3 DEF Selects
    <3> QED
      BY <2>2, <2>3, <3>1
  <2>4. CASE n + 1 \in I
    <3> DEFINE l == Len(f[n])
               p == Append(f[n], s[n + 1])
               new == [k \in 1..(l + 1) |-> IF k = l + 1 THEN n + 1 ELSE at[k]]
    <3>1. l \in Nat /\ Len(p) = l + 1 /\ p[l + 1] = s[n + 1] /\ \A k \in 1..l : p[k] = f[n][k]
      BY <2>2
    <3>7. /\ at \in [1..l -> 1..n]
          /\ \A j, k \in 1..l : j < k => at[j] < at[k]
          /\ \A i \in 1..n : i \in I => \E k \in 1..l : at[k] = i
      BY <2>1 DEF Selects
    <3> HIDE DEF l, p
    <3>2. new \in [1..(l + 1) -> 1..(n + 1)]
      BY <3>1, <3>7
    <3>3. \A k \in 1..(l + 1) : new[k] \in I /\ p[k] = s[new[k]]
      BY <2>1, <2>4, <3>1, <3>7 DEF l, Selects
    <3>4. \A j, k \in 1..(l + 1) : j < k => new[j] < new[k]
      <4> SUFFICES ASSUME NEW j \in 1..(l + 1), NEW k \in 1..(l + 1), j < k PROVE new[j] < new[k]
        OBVIOUS
      <4>1. j \in 1..l /\ new[j] = at[j] /\ at[j] \in 1..n
        BY <3>1, <3>7
      <4>2. CASE k = l + 1
        BY <4>1, <4>2
      <4>3. CASE k \in 1..l
        BY <3>7, <4>1, <4>3
      <4> QED
        BY <3>1, <4>2, <4>3
    <3>5. ASSUME NEW i \in 1..(n + 1), i \in I PROVE \E k \in 1..(l + 1) : new[k] = i
      <4>1. CASE i = n + 1
        BY <3>1, <4>1
      <4>2. CASE i \in 1..n
        <5>1. PICK k \in 1..l : at[k] = i
          BY <3>7, <3>5, <4>2
        <5>2. k \in 1..(l + 1) /\ new[k] = i
          BY <3>1, <5>1
        <5> QED
          BY <5>2
      <4>3. i = n + 1 \/ i \in 1..n
        OBVIOUS
      <4> QED
        BY <4>1, <4>2, <4>3
    <3> HIDE DEF new
    <3>6. Selects(new, p, s, I, n + 1)
      BY <3>1, <3>2, <3>3, <3>4, <3>5 DEF Selects
    <3> QED
      BY <2>2, <2>4, <3>6 DEF p
  <2> QED
    BY <2>3, <2>4
<1> HIDE DEF N
<1>4. Len(s) \in N
  BY <1>2, <1>3, Induction
<1> QED
  BY <1>1, <1>4 DEF N, Picks

\* What is kept was there, and at a position to keep.
LEMMA PickedElements ==
  ASSUME NEW S, NEW s \in Seq(S), NEW I
  PROVE  /\ \A k \in 1..Len(Picked(s, I)) : \E i \in 1..Len(s) : i \in I /\ Picked(s, I)[k] = s[i]
         /\ \A i \in 1..Len(s) : i \in I => \E k \in 1..Len(Picked(s, I)) : Picked(s, I)[k] = s[i]
<1> DEFINE p == Picked(s, I)
<1>1. PICK at : Selects(at, p, s, I, Len(s))
  BY PickedSelects
<1> HIDE DEF p
<1>2. \A k \in 1..Len(p) : at[k] \in 1..Len(s) /\ at[k] \in I /\ p[k] = s[at[k]]
  BY <1>1 DEF Selects
<1>3. \A i \in 1..Len(s) : i \in I => \E k \in 1..Len(p) : at[k] = i
  BY <1>1, Zenon DEF Selects
<1>4. \A i \in 1..Len(s) : i \in I => \E k \in 1..Len(p) : p[k] = s[i]
  BY <1>2, <1>3
<1> QED
  BY <1>2, <1>4, Zenon DEF p

\* No repetition is added, however elements are told apart.
LEMMA PickedDistinct ==
  ASSUME NEW S, NEW s \in Seq(S), NEW I, NEW j \in 1..Len(Picked(s, I)),
         NEW k \in 1..Len(Picked(s, I)), j # k
  PROVE  \E i, l \in 1..Len(s) :
            i # l /\ i \in I /\ l \in I /\ Picked(s, I)[j] = s[i] /\ Picked(s, I)[k] = s[l]
<1>1. PICK at : Selects(at, Picked(s, I), s, I, Len(s))
  BY PickedSelects
<1>2. at[j] # at[k] /\ at[j] \in 1..Len(s) /\ at[k] \in 1..Len(s)
  BY <1>1 DEF Selects
<1> QED
  BY <1>1, <1>2 DEF Selects

-----------------------------------------------------------------------------
(* Sums.                                                                   *)

\* Induction over the subsets of a finite set.
LEMMA FiniteInduction ==
  ASSUME NEW D, IsFiniteSet(D), NEW F,
         \A T \in SUBSET D : (\A x \in T : T \ {x} \in F) => T \in F
  PROVE  \A T \in SUBSET D : T \in F
<1> DEFINE N == {n \in Nat : \A T \in SUBSET D : Cardinality(T) = n => T \in F}
<1>1. 0 \in N
  <2> SUFFICES ASSUME NEW T \in SUBSET D, Cardinality(T) = 0 PROVE T \in F
    OBVIOUS
  <2>1. T = {}
    BY FS_Subset, FS_EmptySet
  <2> QED
    BY <2>1
<1>2. ASSUME NEW n \in Nat, n \in N PROVE n + 1 \in N
  <2> SUFFICES ASSUME NEW T \in SUBSET D, Cardinality(T) = n + 1 PROVE T \in F
    OBVIOUS
  <2>1. ASSUME NEW x \in T PROVE T \ {x} \in F
    <3>1. IsFiniteSet(T)
      BY FS_Subset
    <3>2. Cardinality(T \ {x}) = Cardinality(T) - 1
      BY <3>1, FS_RemoveElement
    <3> QED
      BY <1>2, <3>2
  <2> QED
    BY <2>1
<1> HIDE DEF N
<1>3. \A n \in Nat : n \in N
  BY <1>1, <1>2, Induction
<1> SUFFICES ASSUME NEW T \in SUBSET D PROVE T \in F
  OBVIOUS
<1>4. Cardinality(T) \in Nat
  BY FS_Subset, FS_CardinalityType
<1> QED
  BY <1>3, <1>4 DEF N

First(T) == CHOOSE x \in T : TRUE

LEMMA FirstIsElement == ASSUME NEW T, T # {} PROVE First(T) \in T
  BY DEF First

\* sum[T] is the sum of fun over T.
Sums(sum, fun, D) ==
    /\ sum \in [SUBSET D -> Nat]
    /\ \A T \in SUBSET D :
          sum[T] = IF T = {} THEN 0 ELSE fun[First(T)] + sum[T \ {First(T)}]

LEMMA SumsExist ==
  ASSUME NEW D, IsFiniteSet(D), NEW fun, \A x \in D : fun[x] \in Nat
  PROVE  \E sum : Sums(sum, fun, D)
<1> DEFINE Level(n) == {T \in SUBSET D : Cardinality(T) <= n}
           Upto(sum, n) ==
              /\ sum \in [Level(n) -> Nat]
              /\ \A T \in Level(n) :
                    sum[T] = IF T = {} THEN 0 ELSE fun[First(T)] + sum[T \ {First(T)}]
           N == {n \in Nat : \E sum : Upto(sum, n)}
<1>1. 0 \in N
  <2>1. \A T \in Level(0) : T = {}
    BY FS_Subset, FS_EmptySet, FS_CardinalityType
  <2>2. Upto([T \in Level(0) |-> 0], 0)
    BY <2>1
  <2> QED
    BY <2>2
<1>2. ASSUME NEW n \in Nat, n \in N PROVE n + 1 \in N
  <2>1. PICK old : Upto(old, n)
    BY <1>2
  <2> DEFINE sum == [T \in Level(n + 1) |->
                        IF T = {} THEN 0 ELSE fun[First(T)] + old[T \ {First(T)}]]
  <2>2. ASSUME NEW T \in Level(n + 1), T # {} PROVE T \ {First(T)} \in Level(n) /\ fun[First(T)] \in Nat
    <3>1. IsFiniteSet(T) /\ First(T) \in T /\ Cardinality(T) \in Nat
      BY <2>2, FS_Subset, FS_CardinalityType, FirstIsElement
    <3>2. Cardinality(T \ {First(T)}) = Cardinality(T) - 1
      BY <3>1, FS_RemoveElement
    <3> QED
      BY <3>1, <3>2
  <2>3. \A T \in Level(n) : T \in Level(n + 1)
    BY FS_Subset, FS_CardinalityType
  <2> HIDE DEF Level
  <2>4. sum \in [Level(n + 1) -> Nat]
    BY <2>1, <2>2
  <2>5. \A T \in Level(n) : sum[T] = old[T]
    BY <2>1, <2>3
  <2>6. Upto(sum, n + 1)
    BY <2>2, <2>4, <2>5
  <2> HIDE DEF Upto, sum
  <2> QED
    BY <2>6
<1> HIDE DEF N
<1>3. Cardinality(D) \in N
  BY <1>1, <1>2, Induction, FS_CardinalityType
<1>4. Level(Cardinality(D)) = SUBSET D
  BY FS_Subset
<1> QED
  BY <1>3, <1>4 DEF N, Sums

\* The sum of a set depends on its numbers alone.
LEMMA SumsAgree ==
  ASSUME NEW D, NEW E, NEW f, NEW g, NEW s, NEW t, Sums(s, f, D), Sums(t, g, E),
         NEW C \in SUBSET D, IsFiniteSet(C), C \subseteq E, \A x \in C : f[x] = g[x]
  PROVE  s[C] = t[C]
<1> DEFINE F == {T \in SUBSET C : s[T] = t[T]}
<1>1. ASSUME NEW T \in SUBSET C, \A x \in T : T \ {x} \in F PROVE T \in F
  <2>1. CASE T = {}
    BY <2>1 DEF Sums
  <2>2. CASE T # {}
    <3>1. First(T) \in T /\ T \in SUBSET D /\ T \in SUBSET E
      BY <2>2, FirstIsElement
    <3>2. s[T \ {First(T)}] = t[T \ {First(T)}]
      BY <1>1, <3>1
    <3>3. f[First(T)] = g[First(T)]
      BY <3>1
    <3>4. s[T] = f[First(T)] + s[T \ {First(T)}] /\ t[T] = g[First(T)] + t[T \ {First(T)}]
      BY <2>2, <3>1 DEF Sums
    <3> QED
      BY <3>2, <3>3, <3>4
  <2> QED
    BY <2>1, <2>2
<1> HIDE DEF F
<1>2. \A T \in SUBSET C : T \in F
  BY <1>1, FiniteInduction
<1> QED
  BY <1>2 DEF F

LEMMA SumIs ==
  ASSUME NEW D, IsFiniteSet(D), NEW fun, \A x \in D : fun[x] \in Nat
  PROVE  \E sum : Sums(sum, fun, D) /\ SumFunctionOnSet(fun, D) = sum[D]
<1> DEFINE Eq(g) == g = [T \in SUBSET D |-> IF T = {} THEN 0
                           ELSE fun[CHOOSE x \in T : TRUE] + g[T \ {CHOOSE x \in T : TRUE}]]
           g == CHOOSE g : Eq(g)
<1>1. PICK sum : Sums(sum, fun, D)
  BY SumsExist
<1>2. Eq(sum)
  BY <1>1 DEF Sums, First
<1>3. Eq(g)
  BY <1>2
<1>4. SumFunctionOnSet(fun, D) = g[D]
  BY Zenon DEF SumFunctionOnSet, FoldFunctionOnSet, MapThenFoldSet
<1> HIDE DEF g
<1>5. Sums(g, fun, D)
  <2>1. \A T \in SUBSET D : g[T] = IF T = {} THEN 0 ELSE fun[First(T)] + g[T \ {First(T)}]
    BY <1>3 DEF First
  <2>2. g = [T \in SUBSET D |-> g[T]]
    BY <1>3
  <2> HIDE DEF Eq
  <2> DEFINE F == {T \in SUBSET D : g[T] \in Nat}
  <2>3. ASSUME NEW T \in SUBSET D, \A x \in T : T \ {x} \in F PROVE T \in F
    <3>1. CASE T = {}
      <4>1. g[T] = 0
        BY <2>1, <3>1
      <4> QED
        BY <4>1
    <3>2. CASE T # {}
      <4>1. First(T) \in T /\ First(T) \in D
        BY <3>2, FirstIsElement
      <4>2. g[T \ {First(T)}] \in Nat /\ fun[First(T)] \in Nat
        BY <2>3, <4>1
      <4>3. g[T] = fun[First(T)] + g[T \ {First(T)}]
        BY <2>1, <3>2
      <4>4. g[T] \in Nat
        <5> HIDE DEF F
        <5> QED
          BY <4>2, <4>3
      <4> QED
        BY <4>4
    <3> QED
      BY <3>1, <3>2
  <2> HIDE DEF F
  <2>4. \A T \in SUBSET D : T \in F
    BY <2>3, FiniteInduction
  <2> QED
    BY <2>1, <2>2, <2>4 DEF F, Sums
<1> QED
  BY <1>4, <1>5

LEMMA SumType ==
  ASSUME NEW D, IsFiniteSet(D), NEW fun, \A x \in D : fun[x] \in Nat
  PROVE  SumFunctionOnSet(fun, D) \in Nat
<1>1. PICK sum : Sums(sum, fun, D) /\ SumFunctionOnSet(fun, D) = sum[D]
  BY SumIs
<1> QED
  BY <1>1 DEF Sums

LEMMA SumEmpty == ASSUME NEW fun PROVE SumFunctionOnSet(fun, {}) = 0
<1>1. PICK sum : Sums(sum, fun, {}) /\ SumFunctionOnSet(fun, {}) = sum[{}]
  BY SumIs, FS_EmptySet
<1> QED
  BY <1>1 DEF Sums

\* Whichever element is taken out first.
LEMMA SumRemove ==
  ASSUME NEW D, IsFiniteSet(D), NEW fun, \A x \in D : fun[x] \in Nat, NEW x \in D
  PROVE  SumFunctionOnSet(fun, D) = fun[x] + SumFunctionOnSet(fun, D \ {x})
<1>1. PICK s : Sums(s, fun, D) /\ SumFunctionOnSet(fun, D) = s[D]
  BY SumIs
<1> DEFINE F == {T \in SUBSET D : \A y \in T : s[T] = fun[y] + s[T \ {y}]}
<1>2. ASSUME NEW T \in SUBSET D, \A y \in T : T \ {y} \in F PROVE T \in F
  <2> SUFFICES ASSUME NEW y \in T PROVE s[T] = fun[y] + s[T \ {y}]
    OBVIOUS
  <2> DEFINE z == First(T)
  <2>1. z \in T
    BY FirstIsElement
  <2>2. s[T] = fun[z] + s[T \ {z}]
    BY <1>1 DEF Sums
  <2> HIDE DEF z
  <2>3. CASE y = z
    BY <2>2, <2>3
  <2>4. CASE y # z
    <3>1. s[T \ {z}] = fun[y] + s[(T \ {z}) \ {y}]
      BY <1>2, <2>1, <2>4
    <3>2. s[T \ {y}] = fun[z] + s[(T \ {y}) \ {z}]
      BY <1>2, <2>1, <2>4
    <3>3. (T \ {z}) \ {y} = (T \ {y}) \ {z}
      OBVIOUS
    <3>4. fun[y] \in Nat /\ fun[z] \in Nat /\ s[(T \ {y}) \ {z}] \in Nat
      BY <1>1, <2>1 DEF Sums
    <3> DEFINE rest == s[(T \ {y}) \ {z}]
               a == fun[y]
               b == fun[z]
    <3>5. s[T] = b + (a + rest) /\ s[T \ {y}] = b + rest
      BY <2>2, <3>1, <3>2, <3>3
    <3>6. a \in Nat /\ b \in Nat /\ rest \in Nat
      BY <3>4
    <3> HIDE DEF F, rest, a, b
    <3>7. b + (a + rest) = a + (b + rest)
      BY <3>6
    <3>8. s[T] = a + s[T \ {y}]
      BY <3>5, <3>7
    <3> QED
      BY <3>8 DEF a
  <2> QED
    BY <2>3, <2>4
<1> HIDE DEF F
<1>3. \A T \in SUBSET D : T \in F
  BY <1>2, FiniteInduction
<1>4. s[D] = fun[x] + s[D \ {x}]
  BY <1>3 DEF F
<1>5. PICK t : Sums(t, fun, D \ {x}) /\ SumFunctionOnSet(fun, D \ {x}) = t[D \ {x}]
  BY SumIs, FS_RemoveElement
<1>6. s[D \ {x}] = t[D \ {x}]
  BY <1>1, <1>5, SumsAgree, FS_RemoveElement
<1> QED
  BY <1>1, <1>4, <1>5, <1>6

LEMMA SumSame ==
  ASSUME NEW D, IsFiniteSet(D), NEW f, NEW g, \A x \in D : f[x] \in Nat /\ g[x] = f[x]
  PROVE  SumFunctionOnSet(f, D) = SumFunctionOnSet(g, D)
<1>1. PICK s : Sums(s, f, D) /\ SumFunctionOnSet(f, D) = s[D]
  BY SumIs
<1>2. PICK t : Sums(t, g, D) /\ SumFunctionOnSet(g, D) = t[D]
  <2>1. \A x \in D : g[x] \in Nat
    OBVIOUS
  <2> QED
    BY <2>1, SumIs
<1>3. s[D] = t[D]
  BY <1>1, <1>2, SumsAgree
<1> QED
  BY <1>1, <1>2, <1>3

\* One more at one place is one more in the sum.
LEMMA SumCountsOn ==
  ASSUME NEW D, IsFiniteSet(D), NEW f \in [D -> Nat], NEW x \in D
  PROVE  SumFunctionOnSet([f EXCEPT ![x] = @ + 1], D) = SumFunctionOnSet(f, D) + 1
<1> DEFINE g == [f EXCEPT ![x] = @ + 1]
           a == SumFunctionOnSet(f, D \ {x})
           b == SumFunctionOnSet(g, D \ {x})
<1>1. g \in [D -> Nat] /\ g[x] = f[x] + 1 /\ \A y \in D \ {x} : g[y] = f[y]
  OBVIOUS
<1> HIDE DEF g
<1>2. IsFiniteSet(D \ {x}) /\ D \ {x} \subseteq D
  BY FS_RemoveElement
<1>3. a = b
  BY <1>1, <1>2, SumSame
<1>4. a \in Nat
  BY <1>2, SumType
<1>5. SumFunctionOnSet(f, D) = f[x] + a
  BY SumRemove
<1>6. SumFunctionOnSet(g, D) = g[x] + b
  BY <1>1, SumRemove
<1> HIDE DEF a, b
<1>7. f[x] \in Nat
  OBVIOUS
<1> QED
  BY <1>1, <1>3, <1>4, <1>5, <1>6, <1>7 DEF g

LEMMA ZeroSum ==
  ASSUME NEW D, IsFiniteSet(D) PROVE SumFunctionOnSet([d \in D |-> 0], D) = 0
<1> DEFINE F == {T \in SUBSET D : SumFunctionOnSet([d \in D |-> 0], T) = 0}
           f == [d \in D |-> 0]
<1>1. ASSUME NEW T \in SUBSET D, \A x \in T : T \ {x} \in F PROVE T \in F
  <2>1. CASE T = {}
    BY <2>1, SumEmpty
  <2>2. ASSUME NEW x \in T PROVE T \in F
    <3>1. IsFiniteSet(T) /\ f[x] = 0 /\ \A y \in T : f[y] \in Nat
      BY FS_Subset
    <3>2. SumFunctionOnSet(f, T \ {x}) = 0
      BY <1>1
    <3> HIDE DEF f
    <3>3. SumFunctionOnSet(f, T) = f[x] + SumFunctionOnSet(f, T \ {x})
      BY <3>1, SumRemove
    <3>4. SumFunctionOnSet(f, T) = 0
      BY <3>1, <3>2, <3>3
    <3> QED
      BY <3>4 DEF f
  <2> QED
    BY <2>1, <2>2
<1> HIDE DEF F
<1>2. \A T \in SUBSET D : T \in F
  BY <1>1, FiniteInduction
<1> QED
  BY <1>2 DEF F

\* Sums add up, and are ordered as their numbers are.
LEMMA SumPlus ==
  ASSUME NEW D, IsFiniteSet(D), NEW f \in [D -> Nat], NEW g \in [D -> Nat], NEW h \in [D -> Nat],
         \A x \in D : h[x] = f[x] + g[x]
  PROVE  SumFunctionOnSet(h, D) = SumFunctionOnSet(f, D) + SumFunctionOnSet(g, D)
<1> DEFINE F == {T \in SUBSET D :
                   SumFunctionOnSet(h, T) = SumFunctionOnSet(f, T) + SumFunctionOnSet(g, T)}
<1>1. ASSUME NEW T \in SUBSET D, \A x \in T : T \ {x} \in F PROVE T \in F
  <2>1. CASE T = {}
    BY <2>1, SumEmpty
  <2>2. ASSUME NEW x \in T PROVE T \in F
    <3> DEFINE a == SumFunctionOnSet(f, T \ {x})
               b == SumFunctionOnSet(g, T \ {x})
               c == SumFunctionOnSet(h, T \ {x})
    <3>1. IsFiniteSet(T) /\ IsFiniteSet(T \ {x}) /\ \A y \in T : f[y] \in Nat /\ g[y] \in Nat /\ h[y] \in Nat
      BY FS_Subset
    <3>2. c = a + b
      BY <1>1
    <3>3. a \in Nat /\ b \in Nat
      BY <3>1, SumType
    <3>4. /\ SumFunctionOnSet(f, T) = f[x] + a
          /\ SumFunctionOnSet(g, T) = g[x] + b
          /\ SumFunctionOnSet(h, T) = h[x] + c
      BY <3>1, SumRemove
    <3> HIDE DEF a, b, c, F
    <3>5. f[x] \in Nat /\ g[x] \in Nat /\ h[x] = f[x] + g[x]
      OBVIOUS
    <3>6. SumFunctionOnSet(h, T) = SumFunctionOnSet(f, T) + SumFunctionOnSet(g, T)
      BY <3>2, <3>3, <3>4, <3>5
    <3> QED
      BY <3>6 DEF F
  <2> QED
    BY <2>1, <2>2
<1> HIDE DEF F
<1>2. \A T \in SUBSET D : T \in F
  BY <1>1, FiniteInduction
<1> QED
  BY <1>2 DEF F

\* h is f and g added up.
Adds(h, f, g, D) ==
    /\ IsFiniteSet(D) /\ f \in [D -> Nat] /\ g \in [D -> Nat] /\ h \in [D -> Nat]
    /\ \A x \in D : h[x] = f[x] + g[x]

LEMMA SumAdds ==
  ASSUME NEW D, NEW f, NEW g, NEW h, Adds(h, f, g, D)
  PROVE  SumFunctionOnSet(h, D) = SumFunctionOnSet(f, D) + SumFunctionOnSet(g, D)
  BY SumPlus DEF Adds

LEMMA SumMonotone ==
  ASSUME NEW D, IsFiniteSet(D), NEW f \in [D -> Nat], NEW g \in [D -> Nat],
         \A x \in D : f[x] <= g[x]
  PROVE  SumFunctionOnSet(f, D) <= SumFunctionOnSet(g, D)
<1> DEFINE h == [x \in D |-> g[x] - f[x]]
<1>1. h \in [D -> Nat] /\ \A x \in D : g[x] = f[x] + h[x]
  OBVIOUS
<1> HIDE DEF h
<1>2. SumFunctionOnSet(g, D) = SumFunctionOnSet(f, D) + SumFunctionOnSet(h, D)
  BY <1>1, SumPlus
<1>3. SumFunctionOnSet(f, D) \in Nat /\ SumFunctionOnSet(h, D) \in Nat
  BY <1>1, SumType
<1> QED
  BY <1>2, <1>3

\* A sum with one number in it is that number.
LEMMA SumAtOne ==
  ASSUME NEW D, IsFiniteSet(D), NEW z \in D, NEW x \in Nat
  PROVE  SumFunctionOnSet([d \in D |-> IF d = z THEN x ELSE 0], D) = x
<1> DEFINE f == [d \in D |-> IF d = z THEN x ELSE 0]
           g == [d \in D \ {z} |-> 0]
<1>1. f[z] = x /\ \A d \in D : f[d] \in Nat
  OBVIOUS
<1>2. IsFiniteSet(D \ {z}) /\ \A d \in D \ {z} : f[d] \in Nat /\ g[d] = f[d]
  BY FS_RemoveElement
<1>3. SumFunctionOnSet(g, D \ {z}) = 0
  BY <1>2, ZeroSum
<1> HIDE DEF f, g
<1>4. SumFunctionOnSet(f, D \ {z}) = 0
  BY <1>2, <1>3, SumSame
<1>5. SumFunctionOnSet(f, D) = f[z] + SumFunctionOnSet(f, D \ {z})
  BY <1>1, SumRemove
<1>6. SumFunctionOnSet(f, D) = x
  BY <1>1, <1>4, <1>5
<1> QED
  BY <1>6 DEF f

-----------------------------------------------------------------------------
(* Sums over the elements of a sequence.                                   *)

\* Induction over the sequences on a set.
LEMMA SequenceInduction ==
  ASSUME NEW S, NEW F, <<>> \in F, \A s \in Seq(S), x \in S : s \in F => Append(s, x) \in F
  PROVE  \A s \in Seq(S) : s \in F
<1> DEFINE N == {n \in Nat : \A s \in Seq(S) : Len(s) = n => s \in F}
<1>1. 0 \in N
  BY EmptySeq
<1>2. ASSUME NEW n \in Nat, n \in N PROVE n + 1 \in N
  <2> SUFFICES ASSUME NEW s \in Seq(S), Len(s) = n + 1 PROVE s \in F
    OBVIOUS
  <2>1. s # <<>>
    OBVIOUS
  <2>2. PICK t \in Seq(S), x \in S : s = Append(t, x)
    BY <2>1, SequenceEmptyOrAppend
  <2>3. Len(t) = n
    BY <2>2
  <2> QED
    BY <1>2, <2>2, <2>3
<1> HIDE DEF N
<1>3. \A n \in Nat : n \in N
  BY <1>1, <1>2, Induction
<1> QED
  BY <1>3 DEF N

\* The weights of what q holds, summed.
Weight(q, w) == SumFunction([i \in DOMAIN q |-> w[q[i]]])

LEMMA WeightIs ==
  ASSUME NEW S, NEW q \in Seq(S), NEW w \in [S -> Nat]
  PROVE  /\ [i \in 1..Len(q) |-> w[q[i]]] \in [1..Len(q) -> Nat] /\ IsFiniteSet(1..Len(q))
         /\ Weight(q, w) = SumFunctionOnSet([i \in 1..Len(q) |-> w[q[i]]], 1..Len(q))
         /\ Weight(q, w) \in Nat
<1> DEFINE f == [i \in 1..Len(q) |-> w[q[i]]]
<1>1. f \in [1..Len(q) -> Nat] /\ DOMAIN q = 1..Len(q)
  OBVIOUS
<1>2. IsFiniteSet(1..Len(q))
  BY FS_Interval
<1>3. DOMAIN f = 1..Len(q)
  BY <1>1
<1>4. Weight(q, w) = SumFunctionOnSet(f, 1..Len(q))
  BY <1>1, <1>3, Zenon DEF Weight, SumFunction
<1> HIDE DEF f
<1>5. SumFunctionOnSet(f, 1..Len(q)) \in Nat
  BY <1>1, <1>2, SumType
<1> QED
  BY <1>1, <1>2, <1>4, <1>5 DEF f

LEMMA WeightEmpty == ASSUME NEW w PROVE Weight(<<>>, w) = 0
<1>1. DOMAIN [i \in DOMAIN <<>> |-> w[<<>>[i]]] = {}
  OBVIOUS
<1> QED
  BY <1>1, SumEmpty DEF Weight, SumFunction

LEMMA WeightAppend ==
  ASSUME NEW S, NEW q \in Seq(S), NEW x \in S, NEW w \in [S -> Nat]
  PROVE  Weight(Append(q, x), w) = Weight(q, w) + w[x]
<1> DEFINE n == Len(q)
           p == Append(q, x)
           f == [i \in 1..n |-> w[q[i]]]
           g == [i \in 1..Len(p) |-> w[p[i]]]
<1>1. p \in Seq(S) /\ Len(p) = n + 1 /\ n \in Nat /\ p[n + 1] = x /\ \A i \in 1..n : p[i] = q[i]
  OBVIOUS
<1>2. g[n + 1] = w[x] /\ \A i \in 1..n : f[i] \in Nat /\ g[i] = f[i]
  BY <1>1
<1>3. Weight(q, w) = SumFunctionOnSet(f, 1..n) /\ Weight(q, w) \in Nat /\ IsFiniteSet(1..n)
  BY WeightIs
<1>5. n + 1 \in 1..Len(p) /\ (1..Len(p)) \ {n + 1} = 1..n
  BY <1>1
<1> HIDE DEF f, p, n
<1>10. /\ g \in [1..Len(p) -> Nat] /\ IsFiniteSet(1..Len(p))
       /\ Weight(p, w) = SumFunctionOnSet(g, 1..Len(p))
  BY <1>1, WeightIs
<1> HIDE DEF g
<1>4. \A i \in 1..Len(p) : g[i] \in Nat
  BY <1>10
<1>6. SumFunctionOnSet(g, 1..Len(p)) = g[n + 1] + SumFunctionOnSet(g, (1..Len(p)) \ {n + 1})
  BY <1>4, <1>5, <1>10, SumRemove
<1>7. SumFunctionOnSet(f, 1..n) = SumFunctionOnSet(g, 1..n)
  BY <1>2, <1>3, SumSame
<1>8. w[x] \in Nat
  OBVIOUS
<1>9. Weight(p, w) = Weight(q, w) + w[x]
  <2>1. Weight(p, w) = w[x] + Weight(q, w)
    BY <1>2, <1>3, <1>5, <1>6, <1>7, <1>10
  <2> QED
    BY <1>3, <1>8, <2>1
<1> QED
  BY <1>9 DEF p

LEMMA WeightConcat ==
  ASSUME NEW S, NEW a \in Seq(S), NEW b \in Seq(S), NEW w \in [S -> Nat]
  PROVE  Weight(a \o b, w) = Weight(a, w) + Weight(b, w)
<1> DEFINE F == {c \in Seq(S) : Weight(a \o c, w) = Weight(a, w) + Weight(c, w)}
<1>1. <<>> \in F
  <2>1. a \o <<>> = a
    BY ConcatEmptySeq
  <2>2. Weight(a, w) \in Nat
    BY WeightIs
  <2>3. Weight(a \o <<>>, w) = Weight(a, w) + Weight(<<>>, w)
    BY <2>1, <2>2, WeightEmpty
  <2> QED
    BY <2>3
<1>2. ASSUME NEW c \in Seq(S), NEW x \in S, c \in F PROVE Append(c, x) \in F
  <2>1. a \o c \in Seq(S) /\ Append(c, x) \in Seq(S)
    OBVIOUS
  <2>2. a \o Append(c, x) = Append(a \o c, x)
    <3>1. <<x>> \in Seq(S) /\ Append(c, x) = c \o <<x>> /\ Append(a \o c, x) = (a \o c) \o <<x>>
      BY <2>1, AppendIsConcat
    <3> QED
      BY <3>1, ConcatAssociative
  <2>3. Weight(a \o c, w) = Weight(a, w) + Weight(c, w)
    BY <1>2
  <2>4. /\ Weight(Append(a \o c, x), w) = Weight(a \o c, w) + w[x]
        /\ Weight(Append(c, x), w) = Weight(c, w) + w[x]
    BY <2>1, WeightAppend
  <2>5. Weight(a, w) \in Nat /\ Weight(c, w) \in Nat /\ w[x] \in Nat
    BY WeightIs
  <2> HIDE DEF F
  <2>6. Weight(a \o Append(c, x), w) = Weight(a, w) + Weight(Append(c, x), w)
    BY <2>2, <2>3, <2>4, <2>5
  <2> QED
    BY <2>1, <2>6 DEF F
<1> HIDE DEF F
<1>3. \A c \in Seq(S) : c \in F
  BY <1>1, <1>2, SequenceInduction
<1> QED
  BY <1>3 DEF F

\* f[i] is the first i of ss, joined.
Flattens(f, S, ss) ==
    /\ f \in [0..Len(ss) -> Seq(S)]
    /\ f[0] = <<>>
    /\ \A i \in 1..Len(ss) : f[i] = f[i - 1] \o ss[i]
    /\ FlattenSeq(ss) = f[Len(ss)]

LEMMA FlattenEquation ==
  ASSUME NEW S, NEW ss \in Seq(Seq(S))
  PROVE  \E f : Flattens(f, S, ss)
<1> DEFINE n == Len(ss)
           V == Seq(S)
           e == <<>>
           step == [p \in V \X (1..n) |-> p[1] \o ss[p[2]]]
           Body(f, i) == IF i = 1 THEN ss[i] ELSE f[i - 1] \o ss[i]
           Eq(f) == f = [i \in 1..n |-> Body(f, i)]
           g == CHOOSE f : Eq(f)
           h == [i \in 0..n |-> IF i = 0 THEN <<>> ELSE g[i]]
<1>1. n \in Nat /\ e \in V
  OBVIOUS
<1>2. \A i \in 1..n : ss[i] \in V /\ <<>> \o ss[i] = ss[i]
  OBVIOUS
<1>3. step \in [V \X (1..n) -> V]
  BY <1>2
<1>4. \A q \in V, i \in 1..n : step[<<q, i>>] = q \o ss[i]
  OBVIOUS
<1>5. CASE n = 0
  <2>1. ss = <<>> /\ FlattenSeq(ss) = <<>>
    BY <1>5 DEF FlattenSeq
  <2>2. Flattens([i \in 0..0 |-> <<>>], S, ss)
    BY <1>5, <2>1 DEF Flattens
  <2> QED
    BY <2>2
<1>6. ASSUME n # 0 PROVE \E f : Flattens(f, S, ss)
  <2> HIDE DEF n, e, step, V, Eq, g
  <2>1. PICK f : Steps(f, V, e, n, step)
    BY <1>1, <1>3, RecursionExists
  <2> DEFINE r == [i \in 1..n |-> f[i]]
  <2>2. \A i \in 1..n : f[i] = f[i - 1] \o ss[i] /\ f[i - 1] \in V
    <3>1. \A i \in 1..n : f[i - 1] \in V /\ f[i] = step[<<f[i - 1], i>>]
      BY <1>1, <2>1 DEF Steps
    <3> QED
      BY <1>4, <3>1
  <2>3. \A i \in 1..n : r[i] = Body(r, i)
    <3> SUFFICES ASSUME NEW i \in 1..n PROVE r[i] = Body(r, i)
      OBVIOUS
    <3>1. CASE i = 1
      <4>1. 1 \in 1..n
        BY <1>1, <3>1
      <4>2. f[1] = f[1 - 1] \o ss[1] /\ r[1] = f[1]
        BY <2>2, <4>1
      <4>3. f[0] = <<>>
        BY <2>1 DEF Steps, e
      <4>4. <<>> \o ss[1] = ss[1]
        BY <1>2, <4>1
      <4>5. 1 - 1 = 0
        OBVIOUS
      <4> HIDE DEF r, Body
      <4>6. r[1] = ss[1]
        BY <4>2, <4>3, <4>4, <4>5
      <4> USE DEF Body
      <4>7. Body(r, 1) = ss[1]
        OBVIOUS
      <4> HIDE DEF r, Body
      <4> QED
        BY <3>1, <4>6, <4>7
    <3>2. CASE i # 1
      <4>1. i - 1 \in 1..n
        BY <1>1, <3>2
      <4> QED
        BY <2>2, <3>2, <4>1
    <3> QED
      BY <3>1, <3>2
  <2>4. Eq(r)
    <3> HIDE DEF Body
    <3> QED
      BY <2>3 DEF Eq
  <2>5. Eq(g)
    BY <2>4 DEF g
  <2>6. FlattenSeq(ss) = g[n]
    BY <1>6 DEF FlattenSeq, n, g, Eq
  <2>7. \A i \in 1..n : g[i] = Body(g, i)
    <3> HIDE DEF Body
    <3> QED
      BY <2>5 DEF Eq
  <2>8. h[0] = e /\ \A i \in 1..n : h[i] = h[i - 1] \o ss[i]
    <3>1. h[0] = e /\ \A i \in 1..n : h[i] = g[i]
      BY <1>1 DEF e
    <3>2. ASSUME NEW i \in 1..n PROVE g[i] = h[i - 1] \o ss[i]
      <4>1. CASE i = 1
        <5>1. g[1] = ss[1] /\ h[0] = <<>> /\ <<>> \o ss[1] = ss[1]
          BY <1>1, <1>2, <2>7, <4>1
        <5>2. i - 1 = 0
          BY <4>1
        <5> HIDE DEF h
        <5> QED
          BY <4>1, <5>1, <5>2
      <4>2. CASE i # 1
        <5>1. i - 1 \in 0..n /\ i - 1 # 0
          BY <1>1, <4>2
        <5>2. h[i - 1] = g[i - 1] /\ g[i] = g[i - 1] \o ss[i]
          BY <2>7, <4>2, <5>1
        <5> HIDE DEF h
        <5> QED
          BY <5>2
      <4> QED
        BY <4>1, <4>2
    <3> HIDE DEF h
    <3> QED
      BY <3>1, <3>2
  <2>9. Follows(h, V, e, n, step)
    <3>1. h = [i \in 0..n |-> h[i]]
      OBVIOUS
    <3> HIDE DEF h
    <3> QED
      BY <1>4, <2>8, <3>1 DEF Follows
  <2>10. h[n] = g[n]
    BY <1>1, <1>6
  <2> HIDE DEF h
  <2>11. h \in [0..n -> V]
    BY <1>1, <1>3, <2>9, RecursionTypes
  <2>12. Flattens(h, S, ss)
    BY <2>6, <2>8, <2>10, <2>11 DEF Flattens, n, V, e
  <2> QED
    BY <2>12
<1> QED
  BY <1>5, <1>6

\* What the first n of s amount to, one by one.
LEMMA SumNext ==
  ASSUME NEW k \in Nat, NEW fun, \A i \in 1..(k + 1) : fun[i] \in Nat
  PROVE  /\ SumFunctionOnSet(fun, 1..k) \in Nat
         /\ SumFunctionOnSet(fun, 1..(k + 1)) = SumFunctionOnSet(fun, 1..k) + fun[k + 1]
<1>1. IsFiniteSet(1..k) /\ IsFiniteSet(1..(k + 1))
  BY FS_Interval
<1>2. (1..(k + 1)) \ {k + 1} = 1..k /\ k + 1 \in 1..(k + 1)
  OBVIOUS
<1>3. SumFunctionOnSet(fun, 1..k) \in Nat
  BY <1>1, SumType
<1>4. SumFunctionOnSet(fun, 1..(k + 1)) = fun[k + 1] + SumFunctionOnSet(fun, (1..(k + 1)) \ {k + 1})
  BY <1>1, <1>2, SumRemove
<1>5. fun[k + 1] \in Nat
  BY <1>2
<1>6. SumFunctionOnSet(fun, 1..(k + 1)) = fun[k + 1] + SumFunctionOnSet(fun, 1..k)
  BY <1>2, <1>4
<1> QED
  BY <1>3, <1>5, <1>6

\* A running total is a sum.
LEMMA TotalIsSum ==
  ASSUME NEW n \in Nat, NEW fun \in [1..n -> Nat], NEW total, total[0] = 0,
         \A i \in 1..n : total[i - 1] \in Nat => total[i] = total[i - 1] + fun[i]
  PROVE  total[n] = SumFunctionOnSet(fun, 1..n)
<1> DEFINE N == {k \in Nat : k <= n => /\ total[k] = SumFunctionOnSet(fun, 1..k)
                                       /\ total[k] \in Nat}
<1>1. 0 \in N
  <2>1. 1..0 = {}
    OBVIOUS
  <2> QED
    BY <2>1, SumEmpty
<1>2. ASSUME NEW k \in Nat, k \in N PROVE k + 1 \in N
  <2> SUFFICES ASSUME k + 1 <= n
               PROVE  total[k + 1] = SumFunctionOnSet(fun, 1..(k + 1)) /\ total[k + 1] \in Nat
    OBVIOUS
  <2>1. total[k] = SumFunctionOnSet(fun, 1..k) /\ total[k] \in Nat
    BY <1>2
  <2>2. k + 1 \in 1..n /\ (k + 1) - 1 = k /\ \A i \in 1..(k + 1) : fun[i] \in Nat
    OBVIOUS
  <2>3. total[k + 1] = total[k] + fun[k + 1] /\ fun[k + 1] \in Nat
    BY <2>1, <2>2
  <2>4. SumFunctionOnSet(fun, 1..(k + 1)) = SumFunctionOnSet(fun, 1..k) + fun[k + 1]
    BY <2>2, SumNext
  <2> HIDE DEF N
  <2> QED
    BY <2>1, <2>3, <2>4
<1> HIDE DEF N
<1>3. n \in N
  BY <1>1, <1>2, Induction
<1> QED
  BY <1>3 DEF N

\* What w makes of what is joined, and of what is picked.
JoinedWeights(ss, w) == [i \in 1..Len(ss) |-> Weight(ss[i], w)]
PickedWeights(s, I, w) == [i \in 1..Len(s) |-> IF i \in I THEN w[s[i]] ELSE 0]

LEMMA WeightFlatten ==
  ASSUME NEW S, NEW ss \in Seq(Seq(S)), NEW w \in [S -> Nat]
  PROVE  /\ FlattenSeq(ss) \in Seq(S)
         /\ JoinedWeights(ss, w) \in [1..Len(ss) -> Nat]
         /\ Weight(FlattenSeq(ss), w) = SumFunctionOnSet(JoinedWeights(ss, w), 1..Len(ss))
<1> DEFINE n == Len(ss)
           fun == [i \in 1..n |-> Weight(ss[i], w)]
<1>1. PICK f : Flattens(f, S, ss)
  BY FlattenEquation
<1>2. n \in Nat /\ \A i \in 1..n : ss[i] \in Seq(S)
  OBVIOUS
<1>3. fun \in [1..n -> Nat]
  BY <1>2, WeightIs
<1> DEFINE total == [i \in 0..n |-> Weight(f[i], w)]
<1>4. /\ f[0] = <<>> /\ f[n] = FlattenSeq(ss)
      /\ \A i \in 1..n : f[i] = f[i - 1] \o ss[i] /\ f[i - 1] \in Seq(S)
      /\ f[n] \in Seq(S)
  <2>1. /\ f \in [0..n -> Seq(S)] /\ f[0] = <<>> /\ f[n] = FlattenSeq(ss)
        /\ \A i \in 1..n : f[i] = f[i - 1] \o ss[i]
    BY <1>1 DEF Flattens
  <2> HIDE DEF n
  <2>2. n \in 0..n /\ \A i \in 1..n : i - 1 \in 0..n
    BY <1>2
  <2>3. \A i \in 0..n : f[i] \in Seq(S)
    BY <2>1
  <2> QED
    BY <2>1, <2>2, <2>3
<1> HIDE DEF n
<1>5. total[0] = 0
  BY <1>2, <1>4, WeightEmpty
<1>6. \A i \in 1..n : total[i] = total[i - 1] + fun[i]
  <2> SUFFICES ASSUME NEW i \in 1..n PROVE Weight(f[i], w) = Weight(f[i - 1], w) + Weight(ss[i], w)
    BY <1>2
  <2>1. f[i] = f[i - 1] \o ss[i] /\ f[i - 1] \in Seq(S) /\ ss[i] \in Seq(S)
    BY <1>2, <1>4
  <2>2. Weight(f[i - 1] \o ss[i], w) = Weight(f[i - 1], w) + Weight(ss[i], w)
    BY <2>1, WeightConcat
  <2> QED
    BY <2>1, <2>2
<1>7. total[n] = Weight(FlattenSeq(ss), w)
  BY <1>2, <1>4
<1> HIDE DEF total, fun
<1>8. total[n] = SumFunctionOnSet(fun, 1..n)
  BY <1>2, <1>3, <1>5, <1>6, TotalIsSum
<1> QED
  BY <1>3, <1>4, <1>7, <1>8 DEF fun, n, JoinedWeights

LEMMA WeightPicked ==
  ASSUME NEW S, NEW s \in Seq(S), NEW I, NEW w \in [S -> Nat]
  PROVE  /\ Picked(s, I) \in Seq(S)
         /\ PickedWeights(s, I, w) \in [1..Len(s) -> Nat]
         /\ Weight(Picked(s, I), w) = SumFunctionOnSet(PickedWeights(s, I, w), 1..Len(s))
<1> DEFINE n == Len(s)
           fun == [i \in 1..n |-> IF i \in I THEN w[s[i]] ELSE 0]
<1>1. PICK f : Picks(f, S, s, I)
  BY PickedEquation
<1>2. n \in Nat /\ \A i \in 1..n : s[i] \in S
  OBVIOUS
<1>3. fun \in [1..n -> Nat]
  BY <1>2
<1> DEFINE total == [i \in 0..n |-> Weight(f[i], w)]
<1>4. /\ f[0] = <<>> /\ f[n] = Picked(s, I)
      /\ \A i \in 1..n : /\ f[i] = IF i \in I THEN Append(f[i - 1], s[i]) ELSE f[i - 1]
                         /\ f[i - 1] \in Seq(S)
      /\ f[n] \in Seq(S)
  <2>1. /\ f \in [0..n -> Seq(S)] /\ f[0] = <<>> /\ f[n] = Picked(s, I)
        /\ \A i \in 1..n : f[i] = IF i \in I THEN Append(f[i - 1], s[i]) ELSE f[i - 1]
    BY <1>1 DEF Picks
  <2> HIDE DEF n
  <2>2. n \in 0..n /\ \A i \in 1..n : i - 1 \in 0..n
    BY <1>2
  <2>3. \A i \in 0..n : f[i] \in Seq(S)
    BY <2>1
  <2> QED
    BY <2>1, <2>2, <2>3
<1> HIDE DEF n
<1>5. total[0] = 0
  BY <1>2, <1>4, WeightEmpty
<1>6. ASSUME NEW i \in 1..n, total[i - 1] \in Nat PROVE total[i] = total[i - 1] + fun[i]
  <2>1. i - 1 \in 0..n /\ i \in 0..n
    BY <1>2
  <2>2. CASE i \in I
    <3>1. Weight(f[i], w) = Weight(f[i - 1], w) + w[s[i]]
      BY <1>2, <1>4, <2>2, WeightAppend
    <3> QED
      BY <2>1, <2>2, <3>1
  <2>3. CASE i \notin I
    <3>1. total[i] = total[i - 1] /\ fun[i] = 0
      BY <1>4, <2>1, <2>3
    <3> HIDE DEF total, fun
    <3> QED
      BY <1>6, <3>1
  <2> QED
    BY <2>2, <2>3
<1>7. total[n] = Weight(Picked(s, I), w)
  BY <1>2, <1>4
<1> HIDE DEF total, fun
<1>8. total[n] = SumFunctionOnSet(fun, 1..n)
  BY <1>2, <1>3, <1>5, <1>6, TotalIsSum
<1> QED
  BY <1>3, <1>4, <1>7, <1>8 DEF fun, n, PickedWeights

\* What SelectInSeq selects.
LEMMA FirstOf ==
  ASSUME NEW n \in Nat, NEW I \in SUBSET (1..n)
  PROVE  I # {} => Min(I) \in I /\ \A i \in I : Min(I) <= i
<1>1. ASSUME I # {} PROVE Min(I) \in I /\ \A i \in I : Min(I) <= i
  <2>1. \E x \in I : \A y \in I : x <= y
    BY <1>1, SmallestNat
  <2> QED
    BY <2>1 DEF Min
<1> QED
  BY <1>1

-----------------------------------------------------------------------------
(* Filters, maps and joins, element by element.                            *)

\* The same prefix, the same picks.
LEMMA PickedAppend ==
  ASSUME NEW S, NEW s \in Seq(S), NEW x \in S, NEW I, NEW J, \A i \in 1..Len(s) : i \in I <=> i \in J
  PROVE  Picked(Append(s, x), J) = IF Len(s) + 1 \in J THEN Append(Picked(s, I), x) ELSE Picked(s, I)
<1> DEFINE n == Len(s)
           t == Append(s, x)
<1>1. /\ n \in Nat /\ t \in Seq(S) /\ Len(t) = n + 1 /\ t[n + 1] = x
      /\ \A i \in 1..n : t[i] = s[i]
  OBVIOUS
<1>2. PICK f : Picks(f, S, s, I)
  BY PickedEquation
<1> HIDE DEF t
<1>3. PICK g : Picks(g, S, t, J)
  BY <1>1, PickedEquation
<1> DEFINE N == {k \in Nat : k <= n => g[k] = f[k]}
<1>4. 0 \in N
  BY <1>2, <1>3 DEF Picks
<1>5. ASSUME NEW k \in Nat, k \in N PROVE k + 1 \in N
  <2> SUFFICES ASSUME k + 1 <= n PROVE g[k + 1] = f[k + 1]
    OBVIOUS
  <2>1. k + 1 \in 1..Len(s) /\ k + 1 \in 1..Len(t) /\ (k + 1) - 1 = k /\ k <= n
    BY <1>1
  <2>2. f[k + 1] = IF k + 1 \in I THEN Append(f[k], s[k + 1]) ELSE f[k]
    BY <1>2, <2>1 DEF Picks
  <2>3. g[k + 1] = IF k + 1 \in J THEN Append(g[k], t[k + 1]) ELSE g[k]
    BY <1>3, <2>1 DEF Picks
  <2>4. t[k + 1] = s[k + 1] /\ g[k] = f[k]
    BY <1>1, <1>5, <2>1
  <2> HIDE DEF N
  <2> QED
    BY <2>2, <2>3, <2>4
<1> HIDE DEF N
<1>6. n \in N
  BY <1>1, <1>4, <1>5, Induction
<1>7. g[n] = f[n]
  BY <1>1, <1>6 DEF N
<1>8. n + 1 \in 1..Len(t) /\ (n + 1) - 1 = n
  BY <1>1
<1>9. g[n + 1] = IF n + 1 \in J THEN Append(g[n], t[n + 1]) ELSE g[n]
  BY <1>3, <1>8 DEF Picks
<1>10. Picked(t, J) = g[n + 1] /\ Picked(s, I) = f[n]
  BY <1>1, <1>2, <1>3 DEF Picks
<1> QED
  BY <1>1, <1>7, <1>9, <1>10 DEF t

LEMMA FlattenAppend ==
  ASSUME NEW S, NEW ss \in Seq(Seq(S)), NEW q \in Seq(S)
  PROVE  /\ FlattenSeq(Append(ss, q)) = FlattenSeq(ss) \o q
         /\ FlattenSeq(ss) \in Seq(S)
<1> DEFINE n == Len(ss)
           V == Seq(S)
           t == Append(ss, q)
<1>1. /\ n \in Nat /\ t \in Seq(V) /\ Len(t) = n + 1 /\ t[n + 1] = q
      /\ \A i \in 1..n : t[i] = ss[i]
  <2> HIDE DEF V
  <2>1. ss \in Seq(V) /\ q \in V
    BY DEF V
  <2> QED
    BY <2>1
<1>2. PICK f : Flattens(f, S, ss)
  BY FlattenEquation
<1> HIDE DEF t
<1>3. PICK g : Flattens(g, S, t)
  BY <1>1, FlattenEquation
<1> DEFINE N == {k \in Nat : k <= n => g[k] = f[k]}
<1>4. 0 \in N
  BY <1>2, <1>3 DEF Flattens
<1>5. ASSUME NEW k \in Nat, k \in N PROVE k + 1 \in N
  <2> SUFFICES ASSUME k + 1 <= n PROVE g[k + 1] = f[k + 1]
    OBVIOUS
  <2>1. k + 1 \in 1..Len(ss) /\ k + 1 \in 1..Len(t) /\ (k + 1) - 1 = k /\ k <= n
    BY <1>1
  <2>2. f[k + 1] = f[k] \o ss[k + 1]
    BY <1>2, <2>1 DEF Flattens
  <2>3. g[k + 1] = g[k] \o t[k + 1]
    BY <1>3, <2>1 DEF Flattens
  <2>4. t[k + 1] = ss[k + 1] /\ g[k] = f[k]
    BY <1>1, <1>5, <2>1
  <2> HIDE DEF N
  <2> QED
    BY <2>2, <2>3, <2>4
<1> HIDE DEF N
<1>6. n \in N
  BY <1>1, <1>4, <1>5, Induction
<1>7. g[n] = f[n]
  BY <1>1, <1>6 DEF N
<1>8. n + 1 \in 1..Len(t) /\ (n + 1) - 1 = n
  BY <1>1
<1>9. g[n + 1] = g[n] \o t[n + 1]
  BY <1>3, <1>8 DEF Flattens
<1>10. FlattenSeq(t) = g[n + 1] /\ FlattenSeq(ss) = f[n] /\ f[n] \in V
  <2>1. FlattenSeq(t) = g[Len(t)]
    BY <1>3 DEF Flattens
  <2>2. FlattenSeq(ss) = f[n] /\ f \in [0..n -> V]
    BY <1>2 DEF Flattens
  <2>3. n \in 0..n
    BY <1>1
  <2> HIDE DEF n, V
  <2> QED
    BY <1>1, <2>1, <2>2, <2>3
<1> QED
  BY <1>1, <1>7, <1>9, <1>10 DEF t

LEMMA FlattenConcat ==
  ASSUME NEW S, NEW ps \in Seq(Seq(S))
  PROVE  \A qs \in Seq(Seq(S)) : FlattenSeq(ps \o qs) = FlattenSeq(ps) \o FlattenSeq(qs)
<1> DEFINE V == Seq(S)
           F == {qs \in Seq(V) : FlattenSeq(ps \o qs) = FlattenSeq(ps) \o FlattenSeq(qs)}
<1>0. ps \in Seq(V) /\ \A ss \in Seq(V) : FlattenSeq(ss) \in V
  BY FlattenAppend, EmptySeq
<1>1. FlattenSeq(<<>>) = <<>>
  BY DEF FlattenSeq
<1>2. \A q \in V : q \o <<>> = q
  OBVIOUS
<1> HIDE DEF V
<1>3. ps \o <<>> = ps /\ <<>> \in Seq(V)
  BY <1>0
<1>4. <<>> \in F
  BY <1>0, <1>1, <1>2, <1>3
<1>5. ASSUME NEW qs \in Seq(V), NEW q \in V, qs \in F PROVE Append(qs, q) \in F
  <2>1. /\ ps \o qs \in Seq(V) /\ Append(qs, q) \in Seq(V)
        /\ ps \o Append(qs, q) = Append(ps \o qs, q)
    <3>1. ps \o qs \in Seq(V) /\ Append(qs, q) \in Seq(V)
      BY <1>0
    <3>2. <<q>> \in Seq(V) /\ Append(qs, q) = qs \o <<q>> /\ Append(ps \o qs, q) = (ps \o qs) \o <<q>>
      BY <1>0, <3>1, AppendIsConcat
    <3> QED
      BY <1>0, <3>1, <3>2, ConcatAssociative
  <2>2. /\ FlattenSeq(Append(ps \o qs, q)) = FlattenSeq(ps \o qs) \o q
        /\ FlattenSeq(Append(qs, q)) = FlattenSeq(qs) \o q
    BY <2>1, FlattenAppend DEF V
  <2>3. (FlattenSeq(ps) \o FlattenSeq(qs)) \o q = FlattenSeq(ps) \o (FlattenSeq(qs) \o q)
    <3>1. FlattenSeq(ps) \in V /\ FlattenSeq(qs) \in V
      BY <1>0
    <3> QED
      BY <3>1, ConcatAssociative DEF V
  <2>4. FlattenSeq(ps \o qs) = FlattenSeq(ps) \o FlattenSeq(qs)
    BY <1>5
  <2> HIDE DEF F
  <2>5. FlattenSeq(ps \o Append(qs, q)) = FlattenSeq(ps) \o FlattenSeq(Append(qs, q))
    BY <2>1, <2>2, <2>3, <2>4
  <2> QED
    BY <2>1, <2>5 DEF F
<1> HIDE DEF F
<1>6. \A qs \in Seq(V) : qs \in F
  BY <1>4, <1>5, SequenceInduction
<1> QED
  BY <1>6 DEF F, V

\* f of every element.
Mapped(f, s) == [i \in 1..Len(s) |-> f[s[i]]]

Joins(f, p, q) == Mapped(f, p \o q) = Mapped(f, p) \o Mapped(f, q)

LEMMA MappedConcat ==
  ASSUME NEW S, NEW T, NEW f \in [S -> T], NEW p \in Seq(S), NEW q \in Seq(S)
  PROVE  Joins(f, p, q)
<1>1. ASSUME NEW r \in Seq(S)
      PROVE  Mapped(f, r) \in Seq(T) /\ Len(Mapped(f, r)) = Len(r)
             /\ \A i \in 1..Len(r) : Mapped(f, r)[i] = f[r[i]]
  BY DEF Mapped
<1> DEFINE u == Mapped(f, p \o q)
           v == Mapped(f, p) \o Mapped(f, q)
<1>2. /\ p \o q \in Seq(S) /\ Len(p \o q) = Len(p) + Len(q) /\ Len(p) \in Nat /\ Len(q) \in Nat
      /\ \A i \in 1..Len(p \o q) : (p \o q)[i] = IF i <= Len(p) THEN p[i] ELSE q[i - Len(p)]
  OBVIOUS
<1>3. /\ Mapped(f, p) \in Seq(T) /\ Len(Mapped(f, p)) = Len(p)
      /\ Mapped(f, q) \in Seq(T) /\ Len(Mapped(f, q)) = Len(q)
      /\ u \in Seq(T) /\ Len(u) = Len(p) + Len(q)
  BY <1>1, <1>2
<1>4. v \in Seq(T) /\ Len(v) = Len(p) + Len(q)
  <2> DEFINE a == Mapped(f, p)
             b == Mapped(f, q)
  <2>1. a \in Seq(T) /\ b \in Seq(T) /\ Len(a) = Len(p) /\ Len(b) = Len(q)
    BY <1>3
  <2> HIDE DEF a, b
  <2>2. a \o b \in Seq(T) /\ Len(a \o b) = Len(a) + Len(b)
    BY <2>1
  <2> QED
    BY <2>1, <2>2 DEF a, b
<1>5. ASSUME NEW i \in 1..(Len(p) + Len(q)) PROVE u[i] = v[i]
  <2>1. u[i] = f[(p \o q)[i]] /\ (p \o q)[i] = IF i <= Len(p) THEN p[i] ELSE q[i - Len(p)]
    BY <1>1, <1>2
  <2>2. v[i] = IF i <= Len(p) THEN Mapped(f, p)[i] ELSE Mapped(f, q)[i - Len(p)]
    <3> DEFINE a == Mapped(f, p)
               b == Mapped(f, q)
    <3> HIDE DEF a, b
    <3>1. a \in Seq(T) /\ b \in Seq(T) /\ Len(a) = Len(p) /\ Len(b) = Len(q)
      BY <1>3 DEF a, b
    <3>2. (a \o b)[i] = IF i <= Len(p) THEN a[i] ELSE b[i - Len(p)]
      BY <1>2, <3>1
    <3> QED
      BY <3>2 DEF a, b
  <2>3. CASE i <= Len(p)
    <3>1. i \in 1..Len(p)
      BY <1>2, <2>3
    <3> HIDE DEF u, v
    <3> QED
      BY <1>1, <2>1, <2>2, <2>3, <3>1
  <2>4. CASE ~(i <= Len(p))
    <3>1. i - Len(p) \in 1..Len(q)
      BY <1>2, <2>4
    <3> HIDE DEF u, v
    <3> QED
      BY <1>1, <2>1, <2>2, <2>4, <3>1
  <2> QED
    BY <2>3, <2>4
<1> HIDE DEF u, v
<1>6. u = v
  BY <1>3, <1>4, <1>5
<1> QED
  BY <1>6 DEF u, v, Joins

\* What s holds of T.
Keep(s, T) == Picked(s, {i \in DOMAIN s : s[i] \in T})

LEMMA KeepAppend ==
  ASSUME NEW S, NEW s \in Seq(S), NEW x \in S, NEW T
  PROVE  Keep(Append(s, x), T) = IF x \in T THEN Append(Keep(s, T), x) ELSE Keep(s, T)
<1> DEFINE t == Append(s, x)
           I == {i \in DOMAIN s : s[i] \in T}
           J == {i \in DOMAIN t : t[i] \in T}
<1>1. DOMAIN s = 1..Len(s) /\ DOMAIN t = 1..(Len(s) + 1) /\ Len(s) \in Nat
  OBVIOUS
<1>2. t[Len(s) + 1] = x /\ \A i \in 1..Len(s) : t[i] = s[i]
  OBVIOUS
<1>3. (\A i \in 1..Len(s) : i \in I <=> i \in J) /\ (Len(s) + 1 \in J <=> x \in T)
  <2> HIDE DEF t
  <2> QED
    BY <1>1, <1>2
<1> HIDE DEF I, J
<1>4. Picked(t, J) = IF Len(s) + 1 \in J THEN Append(Picked(s, I), x) ELSE Picked(s, I)
  BY <1>3, PickedAppend
<1> QED
  BY <1>3, <1>4 DEF Keep, I, J

LEMMA KeepEmpty == ASSUME NEW T PROVE Keep(<<>>, T) = <<>>
<1> DEFINE I == {i \in DOMAIN <<>> : <<>>[i] \in T}
<1>1. <<>> \in Seq({}) /\ Len(<<>>) = 0
  OBVIOUS
<1> HIDE DEF I
<1>2. PICK f : Picks(f, {}, <<>>, I)
  BY <1>1, PickedEquation
<1> QED
  BY <1>1, <1>2 DEF Picks, Keep, I

LEMMA KeepIn ==
  ASSUME NEW S, NEW s \in Seq(S), NEW T
  PROVE  Keep(s, T) \in Seq(S \cap T)
<1> DEFINE F == {r \in Seq(S) : Keep(r, T) \in Seq(S \cap T)}
<1>1. <<>> \in F
  <2>1. <<>> \in Seq(S) /\ <<>> \in Seq(S \cap T)
    OBVIOUS
  <2> QED
    BY <2>1, KeepEmpty
<1>2. ASSUME NEW r \in Seq(S), NEW x \in S, r \in F PROVE Append(r, x) \in F
  <2>1. Append(r, x) \in Seq(S) /\ Keep(r, T) \in Seq(S \cap T)
    BY <1>2
  <2>2. Keep(Append(r, x), T) = IF x \in T THEN Append(Keep(r, T), x) ELSE Keep(r, T)
    BY KeepAppend
  <2>3. Keep(Append(r, x), T) \in Seq(S \cap T)
    <3>1. CASE x \in T
      <4>1. Keep(Append(r, x), T) = Append(Keep(r, T), x)
        BY <2>2, <3>1
      <4>2. x \in S \cap T
        BY <3>1
      <4> QED
        BY <2>1, <4>1, <4>2
    <3>2. CASE x \notin T
      BY <2>1, <2>2, <3>2
    <3> QED
      BY <3>1, <3>2
  <2> QED
    BY <2>1, <2>3
<1> HIDE DEF F
<1>3. s \in F
  BY <1>1, <1>2, SequenceInduction
<1> QED
  BY <1>3 DEF F

\* Filtering twice is filtering once.
LEMMA KeepTwice ==
  ASSUME NEW S, NEW s \in Seq(S), NEW T, NEW U
  PROVE  Keep(Keep(s, T), U) = Keep(s, T \cap U)
<1> DEFINE F == {r \in Seq(S) : Keep(Keep(r, T), U) = Keep(r, T \cap U)}
<1>1. <<>> \in F
  BY KeepEmpty
<1>2. ASSUME NEW r \in Seq(S), NEW x \in S, r \in F PROVE Append(r, x) \in F
  <2>1. Append(r, x) \in Seq(S) /\ Keep(Keep(r, T), U) = Keep(r, T \cap U)
    BY <1>2
  <2>2. /\ Keep(Append(r, x), T) = IF x \in T THEN Append(Keep(r, T), x) ELSE Keep(r, T)
        /\ Keep(Append(r, x), T \cap U)
              = IF x \in T \cap U THEN Append(Keep(r, T \cap U), x) ELSE Keep(r, T \cap U)
    BY KeepAppend
  <2>3. CASE x \notin T
    BY <2>1, <2>2, <2>3
  <2>4. CASE x \in T
    <3>1. Keep(r, T) \in Seq(S \cap T) /\ x \in S \cap T
      BY <2>4, KeepIn
    <3>2. Keep(Append(Keep(r, T), x), U)
             = IF x \in U THEN Append(Keep(Keep(r, T), U), x) ELSE Keep(Keep(r, T), U)
      <4> DEFINE V == S \cap T
                 k == Keep(r, T)
      <4>1. k \in Seq(V) /\ x \in V
        BY <3>1
      <4> HIDE DEF V, k, F
      <4>2. Keep(Append(k, x), U) = IF x \in U THEN Append(Keep(k, U), x) ELSE Keep(k, U)
        BY <4>1, KeepAppend
      <4> QED
        BY <4>2 DEF k
    <3>3. Keep(Append(r, x), T) = Append(Keep(r, T), x) /\ (x \in T \cap U <=> x \in U)
      BY <2>2, <2>4
    <3> QED
      BY <2>1, <2>2, <3>2, <3>3
  <2> QED
    BY <2>3, <2>4
<1> HIDE DEF F
<1>3. s \in F
  BY <1>1, <1>2, SequenceInduction
<1> QED
  BY <1>3 DEF F

\* What s holds of T after its first element.
Beyond(s, T) == Picked(s, {i \in DOMAIN s : i # 1 /\ s[i] \in T})

LEMMA BeyondFirst ==
  ASSUME NEW S, NEW a \in S, NEW s \in Seq(S), NEW T
  PROVE  Beyond(<<a>> \o s, T) = Keep(s, T)
<1> DEFINE F == {r \in Seq(S) : Beyond(<<a>> \o r, T) = Keep(r, T)}
<1>1. <<>> \in F
  <2> DEFINE I == {i \in DOMAIN <<a>> : i # 1 /\ <<a>>[i] \in T}
  <2>1. /\ <<a>> \o <<>> = <<a>> /\ Append(<<>>, a) = <<a>> /\ I = {}
        /\ <<>> \in Seq(S) /\ Len(<<>>) = 0
    OBVIOUS
  <2> HIDE DEF I
  <2>2. Picked(<<a>>, I) = Keep(<<>>, T)
    <3> DEFINE y == <<a>>
    <3>0. y \in Seq(S)
      OBVIOUS
    <3> HIDE DEF y, F
    <3>1. PICK f : Picks(f, S, y, I)
      BY <3>0, PickedEquation
    <3>2. Len(<<a>>) = 1 /\ 1 \in 1..1 /\ 1 - 1 = 0 /\ 1 \notin I
      BY <2>1
    <3>3. Picked(<<a>>, I) = <<>>
      BY <3>1, <3>2 DEF Picks, y
    <3> QED
      BY <3>3, KeepEmpty
  <2> QED
    BY <2>1, <2>2 DEF Beyond, I
<1>2. ASSUME NEW r \in Seq(S), NEW x \in S, r \in F PROVE Append(r, x) \in F
  <2> DEFINE p == <<a>> \o r
             t == Append(p, x)
             I == {i \in DOMAIN p : i # 1 /\ p[i] \in T}
             J == {i \in DOMAIN t : i # 1 /\ t[i] \in T}
  <2>1. Append(r, x) \in Seq(S) /\ Beyond(p, T) = Keep(r, T)
    BY <1>2
  <2>2. p \in Seq(S) /\ Len(p) = Len(r) + 1 /\ Len(r) \in Nat /\ <<a>> \o Append(r, x) = t
    <3>1. <<a>> \in Seq(S) /\ r \in Seq(S) /\ <<x>> \in Seq(S)
      OBVIOUS
    <3>2. p \in Seq(S) /\ Len(p) = Len(r) + 1 /\ Len(r) \in Nat
      OBVIOUS
    <3>3. t = p \o <<x>> /\ Append(r, x) = r \o <<x>>
      <4> HIDE DEF p
      <4> QED
        BY <3>2, AppendIsConcat
    <3> QED
      BY <3>1, <3>2, <3>3, ConcatAssociative
  <2> HIDE DEF p
  <2>3. /\ DOMAIN p = 1..Len(p) /\ DOMAIN t = 1..(Len(p) + 1)
        /\ t[Len(p) + 1] = x /\ \A i \in 1..Len(p) : t[i] = p[i]
    BY <2>2
  <2> HIDE DEF t
  <2>4. (\A i \in 1..Len(p) : i \in I <=> i \in J) /\ (Len(p) + 1 \in J <=> x \in T)
    BY <2>2, <2>3
  <2> HIDE DEF I, J
  <2>5. Picked(t, J) = IF Len(p) + 1 \in J THEN Append(Picked(p, I), x) ELSE Picked(p, I)
    BY <2>2, <2>4, PickedAppend DEF t
  <2>6. Keep(Append(r, x), T) = IF x \in T THEN Append(Keep(r, T), x) ELSE Keep(r, T)
    BY KeepAppend
  <2>7. Beyond(t, T) = Keep(Append(r, x), T)
    BY <2>1, <2>4, <2>5, <2>6 DEF Beyond, I, J
  <2> QED
    BY <2>1, <2>2, <2>7 DEF p
<1> HIDE DEF F
<1>3. s \in F
  BY <1>1, <1>2, SequenceInduction
<1> QED
  BY <1>3 DEF F

LEMMA MappedAppend ==
  ASSUME NEW S, NEW V, NEW f \in [S -> V], NEW s \in Seq(S), NEW x \in S
  PROVE  Mapped(f, Append(s, x)) = Append(Mapped(f, s), f[x]) /\ Mapped(f, s) \in Seq(V)
<1> DEFINE t == Append(s, x)
           m == Mapped(f, s)
           u == Mapped(f, t)
<1>1. /\ t \in Seq(S) /\ Len(t) = Len(s) + 1 /\ t[Len(s) + 1] = x /\ Len(s) \in Nat
      /\ \A i \in 1..Len(s) : t[i] = s[i]
  OBVIOUS
<1>2. m \in Seq(V) /\ Len(m) = Len(s) /\ \A i \in 1..Len(s) : m[i] = f[s[i]]
  BY DEF Mapped
<1> HIDE DEF t
<1>3. u \in Seq(V) /\ Len(u) = Len(s) + 1 /\ \A i \in 1..(Len(s) + 1) : u[i] = f[t[i]]
  BY <1>1 DEF Mapped
<1> HIDE DEF m, u
<1>4. f[x] \in V
  OBVIOUS
<1> DEFINE v == Append(m, f[x])
<1>5. v \in Seq(V) /\ Len(v) = Len(s) + 1 /\ v[Len(s) + 1] = f[x] /\ \A i \in 1..Len(s) : v[i] = m[i]
  BY <1>2, <1>4
<1> HIDE DEF v
<1>6. \A i \in 1..(Len(s) + 1) : u[i] = v[i]
  BY <1>1, <1>2, <1>3, <1>5
<1>7. u = v
  BY <1>1, <1>3, <1>5, <1>6
<1> QED
  BY <1>2, <1>7 DEF u, v, m, t

\* Of an element of S, b makes what c does if it is in T, and nothing if not.
Empties(b, c, S, T, V) ==
    /\ b \in [S -> Seq(V)] /\ c \in [S -> Seq(V)]
    /\ \A n \in S : b[n] = IF n \in T THEN c[n] ELSE <<>>

\* What maps to nothing may be left out.
LEMMA FlattenKept ==
  ASSUME NEW S, NEW T, NEW V, NEW s \in Seq(S), NEW b, NEW c, Empties(b, c, S, T, V)
  PROVE  FlattenSeq(Mapped(b, s)) = FlattenSeq(Mapped(c, Keep(s, T)))
<1> DEFINE W == Seq(V)
           F == {r \in Seq(S) : FlattenSeq(Mapped(b, r)) = FlattenSeq(Mapped(c, Keep(r, T)))}
<1>1. <<>> \in F
  BY KeepEmpty DEF Mapped
<1>2. ASSUME NEW r \in Seq(S), NEW x \in S, r \in F PROVE Append(r, x) \in F
  <2> HIDE DEF W
  <2> DEFINE k == Keep(r, T)
  <2>1. /\ Append(r, x) \in Seq(S) /\ FlattenSeq(Mapped(b, r)) = FlattenSeq(Mapped(c, k))
        /\ k \in Seq(S)
    <3>1. k \in Seq(S \cap T)
      BY KeepIn
    <3> HIDE DEF k
    <3>2. k \in Seq(S)
      BY <3>1
    <3> QED
      BY <1>2, <3>2 DEF k
  <2>2. Keep(Append(r, x), T) = IF x \in T THEN Append(k, x) ELSE k
    BY KeepAppend
  <2> HIDE DEF F, k
  <2>3. /\ Mapped(b, Append(r, x)) = Append(Mapped(b, r), b[x]) /\ Mapped(b, r) \in Seq(W)
        /\ Mapped(c, Append(k, x)) = Append(Mapped(c, k), c[x]) /\ Mapped(c, k) \in Seq(W)
        /\ b[x] \in W /\ c[x] \in W
    <3>1. b \in [S -> W] /\ c \in [S -> W]
      BY DEF W, Empties
    <3>2. Mapped(b, Append(r, x)) = Append(Mapped(b, r), b[x]) /\ Mapped(b, r) \in Seq(W)
      BY <3>1, MappedAppend
    <3>3. Mapped(c, Append(k, x)) = Append(Mapped(c, k), c[x]) /\ Mapped(c, k) \in Seq(W)
      BY <2>1, <3>1, MappedAppend
    <3> QED
      BY <3>1, <3>2, <3>3
  <2>4. /\ FlattenSeq(Append(Mapped(b, r), b[x])) = FlattenSeq(Mapped(b, r)) \o b[x]
        /\ FlattenSeq(Append(Mapped(c, k), c[x])) = FlattenSeq(Mapped(c, k)) \o c[x]
        /\ FlattenSeq(Mapped(b, r)) \in W
    BY <2>3, FlattenAppend DEF W
  <2>5. FlattenSeq(Mapped(b, Append(r, x))) = FlattenSeq(Mapped(c, Keep(Append(r, x), T)))
    <3>1. CASE x \in T
      BY <2>1, <2>2, <2>3, <2>4, <3>1 DEF Empties
    <3>2. CASE x \notin T
      <4>1. b[x] = <<>> /\ Keep(Append(r, x), T) = k
        BY <2>2, <3>2 DEF Empties
      <4>2. FlattenSeq(Mapped(b, r)) \o <<>> = FlattenSeq(Mapped(b, r))
        BY <2>4 DEF W
      <4> QED
        BY <2>1, <2>3, <2>4, <4>1, <4>2
    <3> QED
      BY <3>1, <3>2
  <2> QED
    BY <2>1, <2>5 DEF F
<1> HIDE DEF F
<1>3. s \in F
  BY <1>1, <1>2, SequenceInduction
<1> QED
  BY <1>3 DEF F

\* Of an element of S, c makes the one-element sequence of what g makes of it.
Singles(c, g, S, V) ==
    c \in [S -> Seq(V)] /\ g \in [S -> V] /\ \A n \in S : c[n] = <<g[n]>>

\* Joining one-element sequences.
LEMMA FlattenSingles ==
  ASSUME NEW S, NEW V, NEW s \in Seq(S), NEW c, NEW g, Singles(c, g, S, V)
  PROVE  FlattenSeq(Mapped(c, s)) = Mapped(g, s)
<1> DEFINE W == Seq(V)
           F == {r \in Seq(S) : FlattenSeq(Mapped(c, r)) = Mapped(g, r)}
<1>1. <<>> \in F
  <2>1. Mapped(c, <<>>) = <<>> /\ Mapped(g, <<>>) = <<>>
    BY DEF Mapped
  <2> QED
    BY <2>1 DEF FlattenSeq
<1>2. ASSUME NEW r \in Seq(S), NEW x \in S, r \in F PROVE Append(r, x) \in F
  <2> HIDE DEF W
  <2>1. Append(r, x) \in Seq(S) /\ FlattenSeq(Mapped(c, r)) = Mapped(g, r)
    BY <1>2
  <2> HIDE DEF F
  <2>2. /\ Mapped(c, Append(r, x)) = Append(Mapped(c, r), c[x]) /\ Mapped(c, r) \in Seq(W)
        /\ Mapped(g, Append(r, x)) = Append(Mapped(g, r), g[x]) /\ Mapped(g, r) \in Seq(V)
        /\ c[x] \in W /\ c[x] = <<g[x]>> /\ g[x] \in V
    <3>1. c \in [S -> W] /\ g \in [S -> V]
      BY DEF W, Singles
    <3>2. Mapped(c, Append(r, x)) = Append(Mapped(c, r), c[x]) /\ Mapped(c, r) \in Seq(W)
      BY <3>1, MappedAppend
    <3>3. Mapped(g, Append(r, x)) = Append(Mapped(g, r), g[x]) /\ Mapped(g, r) \in Seq(V)
      BY <3>1, MappedAppend
    <3> QED
      BY <3>1, <3>2, <3>3 DEF Singles
  <2>3. FlattenSeq(Append(Mapped(c, r), c[x])) = FlattenSeq(Mapped(c, r)) \o c[x]
    BY <2>2, FlattenAppend DEF W
  <2>4. Append(Mapped(g, r), g[x]) = Mapped(g, r) \o <<g[x]>>
    BY <2>2, AppendIsConcat
  <2> QED
    BY <2>1, <2>2, <2>3, <2>4 DEF F
<1> HIDE DEF F
<1>3. s \in F
  BY <1>1, <1>2, SequenceInduction
<1> QED
  BY <1>3 DEF F

LEMMA ElementsOf ==
  ASSUME NEW S, NEW s \in Seq(S)
  PROVE  /\ s \in Seq(ToSet(s))
         /\ \A x \in ToSet(s) : x \in S /\ \E i \in 1..Len(s) : x = s[i]
<1>1. DOMAIN s = 1..Len(s) /\ Len(s) \in Nat /\ s = [i \in 1..Len(s) |-> s[i]]
  OBVIOUS
<1>2. \A i \in 1..Len(s) : s[i] \in ToSet(s) /\ s[i] \in S
  BY <1>1 DEF ToSet
<1>3. \A x \in ToSet(s) : \E i \in 1..Len(s) : x = s[i]
  BY <1>1 DEF ToSet
<1>4. s \in Seq(ToSet(s))
  BY <1>1, <1>2
<1> QED
  BY <1>2, <1>3, <1>4

LEMMA ConstantSeq ==
  ASSUME NEW V, NEW v \in V, NEW k \in Nat
  PROVE  [j \in 1..k |-> v] \in Seq(V)
  OBVIOUS

LEMMA PrefixOfConcat ==
  ASSUME NEW S, NEW p \in Seq(S), NEW q \in Seq(S)
  PROVE  IsPrefix(p, p \o q) /\ IsPrefix(p, p)
<1>1. /\ p \o q \in Seq(S) /\ Len(p \o q) = Len(p) + Len(q) /\ Len(p) \in Nat /\ Len(q) \in Nat
      /\ \A i \in 1..Len(p) : (p \o q)[i] = p[i]
  OBVIOUS
<1>2. SubSeq(p \o q, 1, Len(p)) = SubSeq(p, 1, Len(p))
  <2> DEFINE r == p \o q
             u == SubSeq(r, 1, Len(p))
             v == SubSeq(p, 1, Len(p))
  <2> HIDE DEF r
  <2>1. r \in Seq(S) /\ Len(p) <= Len(r) /\ \A i \in 1..Len(p) : r[i] = p[i]
    BY <1>1 DEF r
  <2>2. u = [i \in 1..Len(p) |-> r[i]]
    BY <1>1, <2>1
  <2>3. v = [i \in 1..Len(p) |-> p[i]]
    BY <1>1
  <2> HIDE DEF u, v
  <2>4. u = v
    BY <2>1, <2>2, <2>3
  <2> QED
    BY <2>4 DEF u, v, r
<1>3. Len(p) <= Len(p \o q) /\ Len(p) <= Len(p)
  BY <1>1
<1> QED
  BY <1>2, <1>3 DEF IsPrefix

LEMMA KeepSame ==
  ASSUME NEW S, NEW s \in Seq(S), NEW T, NEW U, \A x \in S : x \in T <=> x \in U
  PROVE  Keep(s, T) = Keep(s, U)
<1>1. \A i \in DOMAIN s : s[i] \in S
  OBVIOUS
<1>2. {i \in DOMAIN s : s[i] \in T} = {i \in DOMAIN s : s[i] \in U}
  BY <1>1
<1> QED
  BY <1>2 DEF Keep
=============================================================================
