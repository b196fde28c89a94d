--------------------------- MODULE VideoRecProofs ---------------------------
(***************************************************************************)
(* NoInvalidBatch, StatsAddUp, StaleIsTrending, ConnectionsClosed and      *)
(* FreshIsBest of VideoRec and VideoRecDial, for any requests, users,      *)
(* videos, lists, ranks, failures and batch size.                          *)
(***************************************************************************)
EXTENDS VideoRecDial, FiniteSetTheorems, SequenceTheorems, TLAPS

(***************************************************************************)
(* The prover of the leaves that do not name one: those with arithmetic    *)
(* name SMT.                                                               *)
(***************************************************************************)
USE ZenonT(30)

-----------------------------------------------------------------------------
(***************************************************************************)
(* A bounded set of naturals that is not empty has a greatest and a least  *)
(* element.                                                                *)
(***************************************************************************)
LEMMA HasGreatest ==
  ASSUME NEW b \in Nat, NEW S \in SUBSET (0..b), S # {}
  PROVE  \E j \in S : \A y \in S : y <= j
<1> DEFINE Above(j) == {k \in S : k > j}
           T == {Above(j) : j \in S}
<1>0. S \subseteq Nat
  BY SMTT(30)
<1>1. IsFiniteSet(S)
  <2>1. IsFiniteSet(0..b)
    BY SMTT(30), FS_Interval
  <2> QED
    BY <2>1, FS_Subset
<1>2. T \subseteq FiniteSubsetsOf(S)
  BY <1>1, FS_Subset DEF FiniteSubsetsOf
<1>3. PICK x \in T : \A y \in T : ~ (<<y, x>> \in StrictSubsetOrdering(S))
  <2>1. T # {}
    OBVIOUS
  <2>2. IsWellFoundedOn(StrictSubsetOrdering(S), FiniteSubsetsOf(S))
    BY FS_StrictSubsetOrderingWellFounded
  <2> HIDE DEF T
  <2> QED
    BY <1>2, <2>1, <2>2, WFMin
<1>4. PICK j \in S : x = Above(j)
  BY <1>3
<1>5. ASSUME NEW y \in S, y > j PROVE FALSE
  <2>0. y \in Nat /\ j \in Nat
    BY <1>0
  <2>1. y \in Above(j) /\ y \notin Above(y)
    BY SMTT(30), <1>5, <2>0
  <2>2. \A k \in Above(y) : k \in Above(j)
    BY SMTT(30), <1>0, <1>5, <2>0
  <2>3. <<Above(y), Above(j)>> \in StrictSubsetOrdering(S)
    BY <2>1, <2>2 DEF StrictSubsetOrdering
  <2> QED
    BY <1>3, <1>4, <2>3
<1> QED
  BY SMTT(30), <1>0, <1>5

(* A bounded set of naturals that is not empty has a least member.         *)
LEMMA HasLeast ==
  ASSUME NEW b \in Nat, NEW S \in SUBSET (0..b), S # {}
  PROVE  \E j \in S : \A y \in S : j <= y
<1> DEFINE T == {b - k : k \in S}
<1>0. \A y \in S : y \in Nat /\ y <= b /\ b - y \in 0..b
  BY SMTT(30)
<1>1. T \in SUBSET (0..b) /\ T # {}
  BY <1>0
<1>2. PICK t \in T : \A y \in T : y <= t
  <2> HIDE DEF T
  <2> QED
    BY <1>1, HasGreatest
<1>3. PICK j \in S : t = b - j
  OBVIOUS
<1>4. \A y \in S : b - y <= b - j
  BY <1>2, <1>3
<1>5. \A y \in S : j <= y
  BY SMTT(30), <1>0, <1>4
<1> QED
  BY <1>5

(***************************************************************************)
(* Induction up to n, with a set for the predicate.                        *)
(***************************************************************************)
LEMMA UpTo ==
  ASSUME NEW n \in Nat, NEW P \in SUBSET (0..n), 0 \in P,
         \A i \in 1..n : i - 1 \in P => i \in P
  PROVE  P = 0..n
<1> SUFFICES ASSUME P # 0..n PROVE FALSE
  OBVIOUS
<1> DEFINE B == (0..n) \ P
<1>1. B \in SUBSET (0..n) /\ B # {}
  OBVIOUS
<1>2. PICK j \in B : \A y \in B : j <= y
  <2> HIDE DEF B
  <2> QED
    BY <1>1, HasLeast
<1>3. j \in 1..n
  BY SMTT(30), <1>2
<1>4. j - 1 \in 0..n /\ j - 1 \notin B
  BY SMTT(30), <1>2, <1>3
<1> QED
  BY <1>2, <1>3, <1>4

-----------------------------------------------------------------------------
(***************************************************************************)
(* The k-th element of a finite set of naturals, by the number of elements *)
(* up to it: there is one for every k, and only one.                       *)
(***************************************************************************)
UpToCount(S, i) == Cardinality({j \in S : j <= i})

(* Two members with as many members up to them are the same.               *)
LEMMA CountIsUnique ==
  ASSUME NEW S \in SUBSET Nat, IsFiniteSet(S), NEW i \in S, NEW k \in S,
         UpToCount(S, i) = UpToCount(S, k)
  PROVE  i = k
<1> DEFINE U(x) == {j \in S : j <= x}
<1>1. ASSUME NEW x \in S, NEW y \in S, x < y
      PROVE  Cardinality(U(x)) # Cardinality(U(y))
  <2>0. x \in Nat /\ y \in Nat /\ \A j \in S : j \in Nat
    OBVIOUS
  <2>1. U(x) \subseteq U(y) /\ y \in U(y) /\ y \notin U(x)
    <3>1. \A j \in U(x) : j \in U(y)
      BY SMTT(30), <1>1, <2>0
    <3>2. y \in U(y) /\ y \notin U(x)
      BY SMTT(30), <1>1, <2>0
    <3> QED
      BY <3>1, <3>2
  <2>2. IsFiniteSet(U(y))
    BY FS_Subset
  <2> HIDE DEF U
  <2> QED
    BY <2>1, <2>2, FS_Subset
<1>2. i \in Nat /\ k \in Nat
  OBVIOUS
<1> QED
  BY SMTT(30), <1>1, <1>2 DEF UpToCount

(* Every count up to the size of the set is that of some member.           *)
LEMMA CountIsReached ==
  ASSUME NEW b \in Nat, NEW S \in SUBSET (0..b),
         NEW k \in 1..Cardinality(S)
  PROVE  \E i \in S : UpToCount(S, i) = k
<1> DEFINE n == Cardinality(S)
           U(x) == {j \in S : j <= x}
           B == {c \in 1..n : \A i \in S : UpToCount(S, i) # c}
<1>0. S \subseteq Nat /\ \A x \in S : x \in Nat
  BY SMTT(30)
<1>1. IsFiniteSet(S)
  <2>1. IsFiniteSet(0..b)
    BY SMTT(30), FS_Interval
  <2> QED
    BY <2>1, FS_Subset
<1>2. n \in Nat
  BY <1>1, FS_CardinalityType
<1> SUFFICES ASSUME k \in B PROVE FALSE
  OBVIOUS
<1>3. PICK c \in B : \A y \in B : y <= c
  <2>1. B \in SUBSET (0..n) /\ B # {}
    BY SMTT(30), <1>2
  <2> HIDE DEF B, n
  <2> QED
    BY <1>2, <2>1, HasGreatest
<1>4. S # {}
  BY SMTT(30), <1>1, FS_EmptySet
<1>5. CASE c = n
  <2>1. PICK m \in S : \A y \in S : y <= m
    BY <1>4, HasGreatest
  <2>2. U(m) = S
    BY <2>1
  <2> QED
    BY <1>3, <1>5, <2>2 DEF UpToCount
<1>6. CASE c # n
  <2>1. c + 1 \in 1..n /\ c + 1 \notin B
    BY SMTT(30), <1>2, <1>3, <1>6
  <2>2. PICK i \in S : UpToCount(S, i) = c + 1
    BY <2>1
  <2> DEFINE V == {j \in S : j < i}
  <2>3. U(i) = V \cup {i} /\ i \notin V
    <3>1. i \in Nat
      BY <1>0
    <3>2. \A j \in S : j <= i <=> j < i \/ j = i
      BY SMTT(30), <1>0, <3>1
    <3>3. i \notin V
      BY SMTT(30), <3>1
    <3> QED
      BY <3>2, <3>3
  <2>4. IsFiniteSet(V) /\ V \subseteq S
    BY <1>1, FS_Subset
  <2>5. Cardinality(V) = c
    <3>1. Cardinality(V \cup {i}) = Cardinality(V) + 1
      <4> HIDE DEF V
      <4> QED
        BY <2>3, <2>4, FS_AddElement
    <3>2. Cardinality(V) \in Nat
      BY <2>4, FS_CardinalityType
    <3>3. Cardinality(V \cup {i}) = c + 1
      BY <2>2, <2>3 DEF UpToCount
    <3> QED
      BY SMTT(30), <1>2, <1>3, <3>1, <3>2, <3>3
  <2>6. V # {}
    BY SMTT(30), <1>2, <1>3, <2>5, FS_EmptySet
  <2>7. PICK m \in V : \A y \in V : y <= m
    <3>1. V \in SUBSET (0..b)
      OBVIOUS
    <3> HIDE DEF V
    <3> QED
      BY <2>6, <3>1, HasGreatest
  <2>8. U(m) = V
    <3>1. m \in Nat /\ i \in Nat /\ m < i
      BY <1>0
    <3>2. \A j \in S : j <= m <=> j < i
      BY SMTT(30), <1>0, <2>7, <3>1
    <3> QED
      BY <3>2
  <2>9. UpToCount(S, m) = c /\ m \in S
    BY <2>5, <2>8 DEF UpToCount
  <2> QED
    BY <1>3, <2>9
<1> QED
  BY <1>5, <1>6

-----------------------------------------------------------------------------
(***************************************************************************)
(* The helpers of the service.  deduplicateIds returns every id, and none  *)
(* twice.                                                                  *)
(***************************************************************************)
LEMMA DeduplicateIdsFacts ==
  ASSUME NEW ids \in Seq(Videos)
  PROVE  /\ DeduplicateIds(ids) \in Seq(Videos)
         /\ IsInjective(DeduplicateIds(ids))
         /\ Range(DeduplicateIds(ids)) = Range(ids)
<1> DEFINE first == {i \in DOMAIN ids : \A j \in 1..(i - 1) : ids[j] # ids[i]}
           At(k) == CHOOSE i \in first : Cardinality({j \in first : j <= i}) = k
           n == Cardinality(first)
           out == [k \in 1..n |-> ids[At(k)]]
<1>1. DOMAIN ids = 1..Len(ids) /\ Len(ids) \in Nat
  BY SMTT(30)
<1>2. first \in SUBSET (0..Len(ids)) /\ first \in SUBSET (1..Len(ids))
  BY SMTT(30), <1>1
<1>3. IsFiniteSet(first)
  <2>1. IsFiniteSet(0..Len(ids))
    BY SMTT(30), <1>1, FS_Interval
  <2> HIDE DEF first
  <2> QED
    BY <1>2, <2>1, FS_Subset
<1>4. n \in Nat
  BY <1>3, FS_CardinalityType
<1>5. ASSUME NEW k \in 1..n
      PROVE  At(k) \in first /\ UpToCount(first, At(k)) = k
  <2>1. \E i \in first : UpToCount(first, i) = k
    <3> HIDE DEF first
    <3> QED
      BY <1>1, <1>2, CountIsReached
  <2> HIDE DEF first
  <2> QED
    BY <2>1 DEF UpToCount
<1> HIDE DEF At, n
<1>6. \A k \in 1..n : ids[At(k)] \in Videos
  <2>1. \A i \in first : ids[i] \in Videos
    BY SMTT(30), <1>1
  <2> HIDE DEF first
  <2> QED
    BY <1>5, <2>1
<1>7. out \in Seq(Videos) /\ DOMAIN out = 1..n
  <2>1. out \in [1..n -> Videos]
    BY <1>6
  <2> QED
    BY SMTT(30), <1>4, <2>1
<1>8. ASSUME NEW k \in 1..n, NEW m \in 1..n, ids[At(k)] = ids[At(m)]
      PROVE  k = m
  <2>1. At(k) \in first /\ At(m) \in first
    BY <1>5
  <2>2. ASSUME NEW i \in first, NEW j \in first, ids[i] = ids[j], i < j
        PROVE  FALSE
    <3>1. i \in 1..(j - 1)
      BY SMTT(30), <1>1, <2>2
    <3> QED
      BY <2>2, <3>1
  <2>3. \A i, j \in first : i \in Nat /\ j \in Nat
    BY SMTT(30), <1>1
  <2> HIDE DEF first
  <2>4. At(k) = At(m)
    BY SMTT(30), <1>8, <2>1, <2>2, <2>3
  <2> QED
    BY <1>5, <2>4
<1>9. IsInjective(out)
  BY <1>7, <1>8 DEF IsInjective
<1>10. DeduplicateIds(ids) = out
  BY DEF DeduplicateIds, At, n
<1>11. ASSUME NEW i \in 1..Len(ids) PROVE \E k \in 1..n : out[k] = ids[i]
  <2> DEFINE S == {j \in 1..Len(ids) : ids[j] = ids[i]}
  <2>1. PICK j \in S : \A y \in S : j <= y
    <3>1. S \in SUBSET (0..Len(ids)) /\ S # {}
      BY SMTT(30), <1>1
    <3> HIDE DEF S
    <3> QED
      BY <1>1, <3>1, HasLeast
  <2>2. j \in first /\ ids[j] = ids[i]
    <3>1. ASSUME NEW l \in 1..(j - 1) PROVE ids[l] # ids[j]
      <4>1. l \in 1..Len(ids) /\ ~(j <= l)
        BY SMTT(30), <1>1
      <4> QED
        BY <2>1, <4>1
    <3> QED
      BY <1>1, <3>1
  <2> HIDE DEF first
  <2> DEFINE U == {l \in first : l <= j}
             k == Cardinality(U)
  <2>3. k \in 1..n
    <3>1. U \subseteq first /\ j \in U
      <4>1. j <= j
        BY SMTT(30), <1>1
      <4> QED
        BY <2>2, <4>1
    <3>2. IsFiniteSet(U) /\ k <= n
      <4> HIDE DEF U
      <4> QED
        BY <1>3, <3>1, FS_Subset DEF n
    <3>3. k \in Nat /\ k # 0
      <4> HIDE DEF U
      <4> QED
        BY <3>1, <3>2, FS_CardinalityType, FS_EmptySet
    <3> HIDE DEF k
    <3> QED
      BY SMTT(30), <1>4, <3>2, <3>3
  <2>4. UpToCount(first, j) = k
    BY DEF UpToCount
  <2> HIDE DEF k
  <2>5. first \in SUBSET Nat
    BY SMTT(30), <1>1, <1>2
  <2>6. At(k) = j
    <3>1. At(k) \in first /\ UpToCount(first, At(k)) = k
      BY <1>5, <2>3
    <3> QED
      BY <1>3, <2>2, <2>4, <2>5, <3>1, CountIsUnique
  <2> QED
    BY <2>2, <2>3, <2>6
<1>12. ASSUME NEW k \in 1..n PROVE \E i \in 1..Len(ids) : out[k] = ids[i]
  <2> HIDE DEF first
  <2> QED
    BY <1>2, <1>5
<1>13. Range(out) = Range(ids)
  <2> HIDE DEF out
  <2>1. \A x \in Range(out) : x \in Range(ids)
    BY <1>1, <1>7, <1>12 DEF Range
  <2>2. \A x \in Range(ids) : x \in Range(out)
    BY <1>1, <1>7, <1>11 DEF Range
  <2> QED
    BY <2>1, <2>2
<1> HIDE DEF out
<1> QED
  BY <1>7, <1>9, <1>10, <1>13

(***************************************************************************)
(* A batch that a loop takes while its offset is inside is not empty, has  *)
(* at most MaxBatchSize ids, those of the list from the offset on.         *)
(***************************************************************************)
LEMMA BatchFacts ==
  ASSUME NEW S, NEW ids \in Seq(S), NEW o \in Nat, o < Len(ids)
  PROVE  LET b == Batch(ids, o)
             e == IF o + MaxBatchSize < Len(ids) THEN o + MaxBatchSize
                  ELSE Len(ids)
         IN /\ b \in Seq(S) /\ Len(b) = e - o
            /\ b # <<>> /\ Len(b) <= MaxBatchSize /\ Range(b) \subseteq S
            /\ \A i \in 1..e - o : b[i] = ids[o + i]
            /\ IsInjective(ids) => IsInjective(b)
<1> DEFINE e == IF o + MaxBatchSize < Len(ids) THEN o + MaxBatchSize
                ELSE Len(ids)
           b == SubSeq(ids, o + 1, e)
<1>1. MaxBatchSize \in Nat \ {0} /\ Len(ids) \in Nat
  BY SMTT(30), VideoRecAssumption
<1>2. e \in Nat /\ o < e /\ e <= Len(ids) /\ e - o <= MaxBatchSize
  BY SMTT(30), <1>1
<1> HIDE DEF e
<1>3. \A i \in o + 1..e : ids[i] \in S
  BY SMTT(30), <1>1, <1>2
<1>4. /\ b \in Seq(S)
      /\ Len(b) = IF o + 1 <= e THEN e - (o + 1) + 1 ELSE 0
      /\ \A i \in 1..e - (o + 1) + 1 : b[i] = ids[o + 1 + i - 1]
  <2>1. o + 1 \in Int /\ e \in Int
    BY SMTT(30), <1>2
  <2> QED
    BY SMTT(30), <1>3, <2>1, SubSeqProperties
<1>5. b \in Seq(S) /\ Len(b) = e - o /\ \A i \in 1..e - o : b[i] = ids[o + i]
  BY SMTT(30), <1>2, <1>4
<1> HIDE DEF b
<1>6. b # <<>> /\ Len(b) <= MaxBatchSize /\ DOMAIN b = 1..e - o
  BY SMTT(30), <1>2, <1>5
<1>7. Range(b) \subseteq S
  BY SMTT(30), <1>5 DEF Range
<1>8. IsInjective(ids) => IsInjective(b)
  <2> SUFFICES ASSUME IsInjective(ids), NEW i \in 1..e - o, NEW j \in 1..e - o,
                      b[i] = b[j]
               PROVE  i = j
    BY <1>6 DEF IsInjective
  <2>1. o + i \in DOMAIN ids /\ o + j \in DOMAIN ids
    BY SMTT(30), <1>1, <1>2
  <2>2. ids[o + i] = ids[o + j]
    BY <1>5
  <2>3. o + i = o + j
    BY <2>1, <2>2 DEF IsInjective
  <2> QED
    BY SMTT(30), <1>2, <2>3
<1>9. Batch(ids, o) = b
  BY DEF Batch, b, e
<1> QED
  BY <1>2, <1>5, <1>6, <1>7, <1>8, <1>9 DEF e

(***************************************************************************)
(* A recursive function on 0..n exists.                                    *)
(***************************************************************************)
IsRecursive(f, n, z, C) ==
  f = [i \in 0..n |-> IF i = 0 THEN z ELSE C[i][f[i - 1]]]

(* A recursion of n steps that stay in T is satisfied by some function.    *)
LEMMA RecursionExists ==
  ASSUME NEW n \in Nat, NEW T, NEW z \in T, NEW C \in [1..n -> [T -> T]]
  PROVE  \E f \in [0..n -> T] : IsRecursive(f, n, z, C)
<1> DEFINE Upto(m, f) == f[0] = z /\ \A i \in 1..m : f[i] = C[i][f[i - 1]]
           P == {m \in 0..n : \E f \in [0..n -> T] : Upto(m, f)}
<1>1. 0 \in P
  <2>1. [i \in 0..n |-> z] \in [0..n -> T]
    OBVIOUS
  <2>2. Upto(0, [i \in 0..n |-> z])
    BY SMTT(30)
  <2> HIDE DEF Upto
  <2> QED
    BY SMTT(30), <2>1, <2>2
<1>2. ASSUME NEW m \in 1..n, m - 1 \in P PROVE m \in P
  <2>1. PICK f \in [0..n -> T] : Upto(m - 1, f)
    BY <1>2
  <2>2. C[m][f[m - 1]] \in T
    BY SMTT(30)
  <2> DEFINE g == [i \in 0..n |-> IF i = m THEN C[m][f[m - 1]] ELSE f[i]]
  <2>3. g \in [0..n -> T]
    BY <2>2
  <2>4. g[m] = C[m][f[m - 1]] /\ \A i \in 0..n : i # m => g[i] = f[i]
    BY SMTT(30)
  <2> HIDE DEF g
  <2>5. g[0] = z
    BY SMTT(30), <2>1, <2>4
  <2>6. ASSUME NEW i \in 1..m PROVE g[i] = C[i][g[i - 1]]
    <3>1. i - 1 \in 0..n /\ i - 1 # m /\ i \in 0..n
      BY SMTT(30)
    <3>2. CASE i = m
      BY <2>4, <3>1, <3>2
    <3>3. CASE i # m
      <4>1. i \in 1..m - 1
        BY SMTT(30), <3>3
      <4> QED
        BY <2>1, <2>4, <3>1, <3>3, <4>1
    <3> QED
      BY <3>2, <3>3
  <2>7. Upto(m, g)
    BY <2>5, <2>6
  <2> HIDE DEF Upto
  <2> QED
    BY SMTT(30), <2>3, <2>7
<1>3. P = 0..n
  <2>1. P \in SUBSET (0..n)
    OBVIOUS
  <2> HIDE DEF P
  <2> QED
    BY <1>1, <1>2, <2>1, UpTo
<1>4. n \in P
  <2> HIDE DEF P
  <2> QED
    BY SMTT(30), <1>3
<1>5. PICK f \in [0..n -> T] : Upto(n, f)
  <2> HIDE DEF Upto
  <2> QED
    BY <1>4
<1>6. ASSUME NEW i \in 0..n
      PROVE  f[i] = IF i = 0 THEN z ELSE C[i][f[i - 1]]
  BY SMTT(30), <1>5
<1>7. IsRecursive(f, n, z, C)
  BY <1>6 DEF IsRecursive
<1> QED
  BY <1>7

(* The values of two lists, one after the other.                           *)
LEMMA ConcatRange ==
  ASSUME NEW S, NEW s \in Seq(S), NEW t \in Seq(S)
  PROVE  Range(s \o t) = Range(s) \cup Range(t)
<1> DEFINE c == s \o t
<1>1. /\ DOMAIN s = 1..Len(s) /\ DOMAIN t = 1..Len(t) /\ DOMAIN c = 1..Len(c)
      /\ Len(s) \in Nat /\ Len(t) \in Nat /\ Len(c) = Len(s) + Len(t)
  BY SMTT(30)
<1>2. /\ \A i \in 1..Len(s) : i \in 1..Len(c) /\ c[i] = s[i]
      /\ \A i \in 1..Len(t) : Len(s) + i \in 1..Len(c) /\ c[Len(s) + i] = t[i]
  BY SMTT(30)
<1>3. ASSUME NEW i \in 1..Len(c)
      PROVE  \/ \E j \in 1..Len(s) : c[i] = s[j]
             \/ \E j \in 1..Len(t) : c[i] = t[j]
  <2> HIDE DEF c
  <2>1. i \in 1..Len(s) \/ (i - Len(s) \in 1..Len(t) /\ Len(s) + (i - Len(s)) = i)
    BY SMTT(30), <1>1
  <2> QED
    BY <1>2, <2>1
<1> HIDE DEF c
<1>4. Range(c) = Range(s) \cup Range(t)
  <2>1. \A x \in Range(c) : x \in Range(s) \cup Range(t)
    BY <1>1, <1>3 DEF Range
  <2>2. \A x \in Range(s) : x \in Range(c)
    BY <1>1, <1>2 DEF Range
  <2>3. \A x \in Range(t) : x \in Range(c)
    BY <1>1, <1>2 DEF Range
  <2> QED
    BY <2>1, <2>2, <2>3
<1> QED
  BY <1>4 DEF c

(***************************************************************************)
(* The videos that the users of a batch like.                              *)
(***************************************************************************)
LikedBy(ids, S) == UNION {Range(LikedVideos[ids[i]]) : i \in S}

(* Likes lists them, and no others.                                        *)
LEMMA LikesFacts ==
  ASSUME NEW ids \in Seq(Users)
  PROVE  /\ Likes(ids) \in Seq(Videos)
         /\ Range(Likes(ids)) = LikedBy(ids, 1..Len(ids))
<1> DEFINE n == Len(ids)
           T == Seq(Videos)
           C == [i \in 1..n |-> [s \in T |-> s \o LikedVideos[ids[i]]]]
           Body(f) == [i \in 0..n |-> IF i = 0 THEN <<>>
                                      ELSE f[i - 1] \o LikedVideos[ids[i]]]
<1>1. n \in Nat /\ <<>> \in T
  BY SMTT(30), EmptySeq
<1>2. ASSUME NEW i \in 1..n PROVE LikedVideos[ids[i]] \in T
  <2>1. ids[i] \in Users
    BY SMTT(30)
  <2> QED
    BY <2>1, VideoRecAssumption DEF MakeRandomUsers
<1>3. ASSUME NEW i \in 1..n, NEW s \in T
      PROVE  s \o LikedVideos[ids[i]] \in T
  BY <1>2, ConcatProperties
<1>4. C \in [1..n -> [T -> T]]
  BY <1>3
<1>5. \A i \in 1..n : \A s \in T : C[i][s] = s \o LikedVideos[ids[i]]
  OBVIOUS
<1> HIDE DEF C
<1>6. PICK f \in [0..n -> T] : IsRecursive(f, n, <<>>, C)
  <2> HIDE DEF n, T
  <2> QED
    BY <1>1, <1>4, RecursionExists
<1>7. f = Body(f)
  <2>1. ASSUME NEW i \in 0..n
        PROVE  f[i] = IF i = 0 THEN <<>> ELSE f[i - 1] \o LikedVideos[ids[i]]
    <3>1. f[i] = IF i = 0 THEN <<>> ELSE C[i][f[i - 1]]
      BY <1>6 DEF IsRecursive
    <3>2. i # 0 => i \in 1..n /\ f[i - 1] \in T
      BY SMTT(30), <1>1
    <3> QED
      BY <1>5, <3>1, <3>2
  <2>2. f = [i \in 0..n |-> f[i]]
    OBVIOUS
  <2> QED
    BY <2>1, <2>2
<1> DEFINE h == CHOOSE g : g = Body(g)
<1>8. h = Body(h)
  <2> HIDE DEF Body
  <2> QED
    BY <1>7
<1> HIDE DEF h
<1>9. ASSUME NEW g, NEW i \in 0..n
      PROVE  Body(g)[i] = IF i = 0 THEN <<>>
                          ELSE g[i - 1] \o LikedVideos[ids[i]]
  OBVIOUS
<1> HIDE DEF Body
<1>10. h[0] = <<>>
  BY SMTT(30), <1>1, <1>8, <1>9
<1>11. ASSUME NEW i \in 1..n, h[i - 1] \in T PROVE h[i] = C[i][h[i - 1]]
  <2>1. h[i] = h[i - 1] \o LikedVideos[ids[i]]
    <3>1. i \in 0..n /\ i # 0
      BY SMTT(30), <1>1
    <3> QED
      BY <1>8, <1>9, <3>1
  <2> QED
    BY <1>5, <1>11, <2>1
<1> DEFINE P == {m \in 0..n : h[m] \in T /\ Range(h[m]) = LikedBy(ids, 1..m)}
<1>12. 0 \in P
  <2>1. Range(<<>>) = {} /\ 1..0 = {} /\ 0 \in 0..n
    BY SMTT(30), <1>1 DEF Range
  <2> QED
    BY <1>1, <1>10, <2>1 DEF LikedBy
<1>13. ASSUME NEW m \in 1..n, m - 1 \in P PROVE m \in P
  <2> DEFINE l == LikedVideos[ids[m]]
  <2>1. h[m - 1] \in T /\ Range(h[m - 1]) = LikedBy(ids, 1..(m - 1)) /\ l \in T
    BY <1>2, <1>13
  <2>2. h[m] = h[m - 1] \o l
    BY <1>5, <1>11, <2>1
  <2>3. h[m] \in T /\ Range(h[m]) = Range(h[m - 1]) \cup Range(l)
    <3> DEFINE k == h[m - 1]
    <3> HIDE DEF k, l
    <3>1. k \in Seq(Videos) /\ l \in Seq(Videos)
      BY <2>1 DEF k
    <3>2. k \o l \in Seq(Videos)
      BY <3>1, ConcatProperties
    <3>3. Range(k \o l) = Range(k) \cup Range(l)
      BY <3>1, ConcatRange
    <3> QED
      BY <2>2, <3>2, <3>3 DEF k
  <2>4. 1..m = (1..(m - 1)) \cup {m} /\ m \in 0..n
    BY SMTT(30), <1>1
  <2>5. LikedBy(ids, 1..m) = LikedBy(ids, 1..(m - 1)) \cup Range(l)
    BY <2>4 DEF LikedBy
  <2> QED
    BY <2>1, <2>3, <2>4, <2>5
<1>14. P = 0..n
  <2>1. P \in SUBSET (0..n)
    OBVIOUS
  <2> HIDE DEF P, n
  <2> QED
    BY <1>1, <1>12, <1>13, <2>1, UpTo
<1>15. n \in P
  BY SMTT(30), <1>1, <1>14
<1>16. Likes(ids) = h[n]
  BY DEF Likes, h, Body
<1> QED
  BY <1>15, <1>16

-----------------------------------------------------------------------------
(***************************************************************************)
(* The inductive invariant.  Of the videos of a request it has only those  *)
(* of a stale answer: FreshInv, on top of it, has the others.              *)
(***************************************************************************)
Before == {"new", "sent", "lost", "user", "subscribed", "videos", "error",
           "fallback"}
After == {"return", "leave", "answered", "done"}
Inside == {"user", "subscribed", "videos", "error", "fallback", "return",
           "leave"}
Counted == {"leave", "answered", "done"}
Sent == (Before \cup After) \ {"new"}
Failing == {"error", "fallback"}

Record(V) ==
  [pc : Before \cup After, user : Users \cup {None}, limit : Nat,
   offset : Nat, candidates : Seq(Videos), videos : V,
   answer : {None, "fresh", "stale", "error"}, gone : BOOLEAN]

IsStale(r) ==
  /\ r.limit > 0 => r.videos # <<>>
  /\ IsPrefix(r.videos, topVideos)

RequestOK(r, disabled) ==
  /\ r.pc = "new" => ~r.gone
  /\ r.pc # "new" => r.user \in Users
  /\ r.pc = "videos" => IsInjective(r.candidates)
  /\ r.pc \in Before <=> r.answer = None
  /\ disabled => r.pc # "fallback"
  /\ r.answer = "stale" /\ r.pc # "done" => IsStale(r)

RequestInv ==
  /\ options \in [DisableFallback : BOOLEAN]
  /\ \E V : request \in [Requests -> Record(V)]
  /\ \A q \in Requests : RequestOK(request[q], options.DisableFallback)

WholeBatches(vs) ==
  /\ vs \in Seq(Videos) /\ IsPrefix(vs, topVideos)
  /\ Len(vs) % MaxBatchSize = 0 \/ Len(vs) = Len(topVideos)

IsFetched(t) ==
  /\ t.videos \in Seq(Videos) /\ IsPrefix(t.videos, topVideos)
  /\ \E n \in Nat : t.offset = n * MaxBatchSize
  /\ Len(t.videos) = IF t.offset < Len(topVideos) THEN t.offset
                     ELSE Len(topVideos)

Places == {"check", "sleep", "fetch", "lock", "stuck"}

USE DEF Places

TrendingInv ==
  /\ trending \in [pc : Places, offset : Nat,
                   videos : Seq(Videos), expire : Nat]
  /\ trending.pc = "check" => trending = NoRefresh
  /\ cache \in [videos : Seq(Videos), expire : Nat]
  /\ now \in Nat
  /\ IsFetched(trending) /\ WholeBatches(cache.videos)

StaleDone ==
  Cardinality({q \in Requests : request[q].answer = "stale"
                                /\ request[q].pc = "done"})

Heard ==
  Cardinality({q \in Requests : request[q].gone \/ request[q].pc = "done"})

StatsInv ==
  /\ stats \in [requests : Nat, errs : Nat, active : Int, userErrs : Nat,
                videoErrs : Nat, stale : Nat]
  /\ load \in [sent : Nat, responses : Nat, successes : Nat, stale : Nat]
  /\ stats.active = With(Inside)
  /\ stats.requests = With(Counted)
  /\ stats.stale = Answers("stale")
  /\ stats.userErrs + stats.videoErrs
       = With(Failing) + Answers("stale") + Answers("error")
  /\ stats.errs <= Answers("error")
  /\ options.DisableFallback => stats.errs = Answers("error")
  /\ load.sent = With(Sent) /\ load.responses = Heard
  /\ load.successes <= With({"done"}) /\ load.stale <= StaleDone

ConnInv ==
  /\ conns \in [Requests \cup {Refresh} -> Int]
  /\ pooled \in BOOLEAN /\ ConnectionsClosed

VideoInv == RequestInv /\ TrendingInv /\ ~rejected /\ StatsInv /\ ConnInv

-----------------------------------------------------------------------------
(***************************************************************************)
(* A step of a request is a step of that request only.                     *)
(***************************************************************************)
Moves(q) ==
  /\ \E V : request' \in [Requests -> Record(V)]
  /\ \A p \in Requests \ {q} : request'[p] = request[p]

(* How the size of a set of requests changes when one of them moves.       *)
LEMMA CountMoves ==
  ASSUME NEW q \in Requests, NEW A \in SUBSET Requests,
         NEW B \in SUBSET Requests,
         \A p \in Requests \ {q} : p \in A <=> p \in B
  PROVE  /\ Cardinality(A) \in Nat /\ Cardinality(B) \in Nat
         /\ (q \in A <=> q \in B) => Cardinality(B) = Cardinality(A)
         /\ q \in A /\ q \notin B => Cardinality(A) = Cardinality(B) + 1
         /\ q \notin A /\ q \in B => Cardinality(B) = Cardinality(A) + 1
<1>1. IsFiniteSet(A) /\ IsFiniteSet(B)
  BY VideoRecAssumption, FS_Subset
<1>2. Cardinality(A) \in Nat /\ Cardinality(B) \in Nat
  BY <1>1, FS_CardinalityType
<1>3. (q \in A <=> q \in B) => A = B
  BY SMTT(30)
<1>4. ASSUME q \in A, q \notin B PROVE Cardinality(A) = Cardinality(B) + 1
  <2>1. A = B \cup {q}
    BY <1>4
  <2> QED
    BY <1>1, <1>4, <2>1, FS_AddElement
<1>5. ASSUME q \notin A, q \in B PROVE Cardinality(B) = Cardinality(A) + 1
  <2>1. B = A \cup {q}
    BY <1>5
  <2> QED
    BY <1>1, <1>5, <2>1, FS_AddElement
<1> QED
  BY <1>2, <1>3, <1>4, <1>5

(* The same for the requests that are at given points.                     *)
LEMMA WithMoves ==
  ASSUME NEW q \in Requests, Moves(q), NEW S
  PROVE  /\ With(S) \in Nat /\ With(S)' \in Nat
         /\ (request[q].pc \in S <=> request'[q].pc \in S) => With(S)' = With(S)
         /\ request[q].pc \in S /\ request'[q].pc \notin S =>
              With(S) = With(S)' + 1
         /\ request[q].pc \notin S /\ request'[q].pc \in S =>
              With(S)' = With(S) + 1
<1> DEFINE A == {p \in Requests : request[p].pc \in S}
           B == {p \in Requests : request'[p].pc \in S}
<1>1. \A p \in Requests \ {q} : p \in A <=> p \in B
  BY DEF Moves
<1>2. A \in SUBSET Requests /\ B \in SUBSET Requests
  OBVIOUS
<1>3. (q \in A <=> request[q].pc \in S) /\ (q \in B <=> request'[q].pc \in S)
  OBVIOUS
<1>4. With(S) = Cardinality(A) /\ With(S)' = Cardinality(B)
  BY DEF With
<1> HIDE DEF A, B
<1> QED
  BY SMTT(30), <1>1, <1>2, <1>3, <1>4, CountMoves

(* The same for the requests that have a given answer.                     *)
LEMMA AnswersMove ==
  ASSUME NEW q \in Requests, Moves(q), NEW a
  PROVE  /\ Answers(a) \in Nat /\ Answers(a)' \in Nat
         /\ (request[q].answer = a <=> request'[q].answer = a) =>
              Answers(a)' = Answers(a)
         /\ request[q].answer = a /\ request'[q].answer # a =>
              Answers(a) = Answers(a)' + 1
         /\ request[q].answer # a /\ request'[q].answer = a =>
              Answers(a)' = Answers(a) + 1
<1> DEFINE A == {p \in Requests : request[p].answer = a}
           B == {p \in Requests : request'[p].answer = a}
<1>1. \A p \in Requests \ {q} : p \in A <=> p \in B
  BY DEF Moves
<1>2. A \in SUBSET Requests /\ B \in SUBSET Requests
  OBVIOUS
<1>3. (q \in A <=> request[q].answer = a) /\ (q \in B <=> request'[q].answer = a)
  OBVIOUS
<1>4. Answers(a) = Cardinality(A) /\ Answers(a)' = Cardinality(B)
  BY DEF Answers
<1> HIDE DEF A, B
<1> QED
  BY SMTT(30), <1>1, <1>2, <1>3, <1>4, CountMoves

(* The same for the requests that have returned a stale response.          *)
LEMMA StaleDoneMoves ==
  ASSUME NEW q \in Requests, Moves(q), request[q].pc # "done"
  PROVE  /\ StaleDone \in Nat /\ StaleDone' \in Nat
         /\ ~(request'[q].answer = "stale" /\ request'[q].pc = "done") =>
              StaleDone' = StaleDone
         /\ request'[q].answer = "stale" /\ request'[q].pc = "done" =>
              StaleDone' = StaleDone + 1
<1> DEFINE A == {p \in Requests : request[p].answer = "stale"
                                  /\ request[p].pc = "done"}
           B == {p \in Requests : request'[p].answer = "stale"
                                  /\ request'[p].pc = "done"}
<1>1. \A p \in Requests \ {q} : p \in A <=> p \in B
  BY DEF Moves
<1>2. A \in SUBSET Requests /\ B \in SUBSET Requests
  OBVIOUS
<1>3. q \notin A /\ (q \in B <=> /\ request'[q].answer = "stale"
                                 /\ request'[q].pc = "done")
  OBVIOUS
<1>4. StaleDone = Cardinality(A) /\ StaleDone' = Cardinality(B)
  BY DEF StaleDone
<1> HIDE DEF A, B
<1> QED
  BY SMTT(30), <1>1, <1>2, <1>3, <1>4, CountMoves

(* The same for the requests the load generator has counted as answered.   *)
LEMMA HeardMoves ==
  ASSUME NEW q \in Requests, Moves(q), request[q].gone => request'[q].gone,
         request[q].pc # "done"
  PROVE  /\ Heard \in Nat /\ Heard' \in Nat
         /\ request[q].gone => Heard' = Heard
         /\ ~request'[q].gone /\ request'[q].pc # "done" => Heard' = Heard
         /\ ~request[q].gone /\ (request'[q].gone \/ request'[q].pc = "done")
              => Heard' = Heard + 1
<1> DEFINE A == {p \in Requests : request[p].gone \/ request[p].pc = "done"}
           B == {p \in Requests : request'[p].gone \/ request'[p].pc = "done"}
<1>1. \A p \in Requests \ {q} : p \in A <=> p \in B
  BY DEF Moves
<1>2. A \in SUBSET Requests /\ B \in SUBSET Requests
  OBVIOUS
<1>3. /\ q \in A <=> request[q].gone
      /\ q \in B <=> request'[q].gone \/ request'[q].pc = "done"
  OBVIOUS
<1>4. Heard = Cardinality(A) /\ Heard' = Cardinality(B)
  BY DEF Heard
<1> HIDE DEF A, B
<1> QED
  BY SMTT(30), <1>1, <1>2, <1>3, <1>4, CountMoves

(***************************************************************************)
(* What a step of a request may do to its place, its answer and the        *)
(* counters.                                                               *)
(***************************************************************************)
Steps(q, from, to, answer) ==
  /\ request[q].pc \in from /\ request'[q].pc = to
  /\ request'[q].answer = answer /\ request'[q].gone = request[q].gone

Abandons(q) ==
  /\ request[q].pc \in Sent \ {"lost", "done"}
  /\ \/ request'[q].pc = request[q].pc
     \/ request[q].pc = "sent" /\ request'[q].pc = "lost"
  /\ request'[q].answer = request[q].answer
  /\ ~request[q].gone /\ request'[q].gone

Working == {"user", "subscribed", "videos"}

Effect(q) ==
  \/ /\ Steps(q, {"new"}, "sent", None)
     /\ load' = [load EXCEPT !.sent = @ + 1] /\ stats' = stats
  \/ /\ Steps(q, {"sent"}, "user", None)
     /\ stats' = [stats EXCEPT !.active = @ + 1] /\ load' = load
  \/ /\ \E t \in Working : Steps(q, Working, t, None)
     /\ stats' = stats /\ load' = load
  \/ /\ \E t \in Failing : Steps(q, Working, t, None)
     /\ \/ stats' = [stats EXCEPT !.userErrs = @ + 1]
        \/ stats' = [stats EXCEPT !.videoErrs = @ + 1]
     /\ load' = load
  \/ /\ Steps(q, {"videos"}, "return", "fresh")
     /\ stats' = stats /\ load' = load
  \/ /\ Steps(q, {"error"}, "return", "error")
     /\ stats' = [stats EXCEPT !.errs = @ + 1] /\ load' = load
  \/ /\ Steps(q, {"fallback"}, "return", "stale")
     /\ stats' = [stats EXCEPT !.stale = @ + 1] /\ load' = load
  \/ /\ Steps(q, {"fallback"}, "return", "error")
     /\ stats' = stats /\ load' = load
  \/ /\ Steps(q, {"return"}, "leave", request[q].answer)
     /\ stats' = [stats EXCEPT !.requests = @ + 1] /\ load' = load
  \/ /\ Steps(q, {"leave"}, "answered", request[q].answer)
     /\ stats' = [stats EXCEPT !.active = @ - 1] /\ load' = load
  \/ /\ Steps(q, {"answered"}, "done", request[q].answer)
     /\ load' = IF request[q].gone THEN load ELSE [load EXCEPT
          !.responses = @ + 1,
          !.stale = IF request[q].answer = "stale" THEN @ + 1 ELSE @,
          !.successes = IF request[q].answer # "error" THEN @ + 1 ELSE @]
     /\ stats' = stats
  \/ /\ Abandons(q)
     /\ load' = [load EXCEPT !.responses = @ + 1]
     /\ stats' = stats

(***************************************************************************)
(* The counters stay right whatever of this a request does.                *)
(***************************************************************************)
LEMMA EffectOnStats ==
  ASSUME RequestInv, StatsInv, NEW q \in Requests, Moves(q), Effect(q),
         options' = options
  PROVE  StatsInv'
<1> DEFINE r == request[q]
           s == request'[q]
<1>1. /\ r.pc \in Before \cup After
      /\ r.answer \in {None, "fresh", "stale", "error"}
      /\ r.pc \in Before <=> r.answer = None
      /\ options.DisableFallback => r.pc # "fallback"
      /\ options.DisableFallback \in BOOLEAN /\ r.gone \in BOOLEAN
      /\ s.gone \in BOOLEAN
  BY DEF RequestInv, RequestOK, Record, Moves
<1>2. None \notin {"fresh", "stale", "error"}
  BY VideoRecAssumption
<1>3. r.pc # "done"
  BY <1>1 DEF Effect, Steps, Working, Abandons
<1>4. /\ With(Inside) \in Nat /\ With(Inside)' \in Nat
      /\ (r.pc \in Inside <=> s.pc \in Inside) => With(Inside)' = With(Inside)
      /\ r.pc \in Inside /\ s.pc \notin Inside => With(Inside) = With(Inside)' + 1
      /\ r.pc \notin Inside /\ s.pc \in Inside => With(Inside)' = With(Inside) + 1
  BY WithMoves
<1>5. /\ With(Counted) \in Nat /\ With(Counted)' \in Nat
      /\ (r.pc \in Counted <=> s.pc \in Counted) =>
           With(Counted)' = With(Counted)
      /\ r.pc \notin Counted /\ s.pc \in Counted =>
           With(Counted)' = With(Counted) + 1
  BY WithMoves
<1>6. /\ With(Failing) \in Nat /\ With(Failing)' \in Nat
      /\ (r.pc \in Failing <=> s.pc \in Failing) =>
           With(Failing)' = With(Failing)
      /\ r.pc \in Failing /\ s.pc \notin Failing =>
           With(Failing) = With(Failing)' + 1
      /\ r.pc \notin Failing /\ s.pc \in Failing =>
           With(Failing)' = With(Failing) + 1
  BY WithMoves
<1>7. /\ With({"done"}) \in Nat /\ With({"done"})' \in Nat
      /\ s.pc # "done" => With({"done"})' = With({"done"})
      /\ s.pc = "done" => With({"done"})' = With({"done"}) + 1
  BY WithMoves, <1>3
<1>8. /\ Answers("stale") \in Nat /\ Answers("stale")' \in Nat
      /\ (r.answer = "stale" <=> s.answer = "stale") =>
           Answers("stale")' = Answers("stale")
      /\ r.answer # "stale" /\ s.answer = "stale" =>
           Answers("stale")' = Answers("stale") + 1
  BY AnswersMove
<1>9. /\ Answers("error") \in Nat /\ Answers("error")' \in Nat
      /\ (r.answer = "error" <=> s.answer = "error") =>
           Answers("error")' = Answers("error")
      /\ r.answer # "error" /\ s.answer = "error" =>
           Answers("error")' = Answers("error") + 1
  BY AnswersMove
<1>10. /\ StaleDone \in Nat /\ StaleDone' \in Nat
       /\ ~(s.answer = "stale" /\ s.pc = "done") => StaleDone' = StaleDone
       /\ s.answer = "stale" /\ s.pc = "done" => StaleDone' = StaleDone + 1
  BY StaleDoneMoves, <1>3
<1>12. /\ With(Sent) \in Nat /\ With(Sent)' \in Nat
       /\ (r.pc \in Sent <=> s.pc \in Sent) => With(Sent)' = With(Sent)
       /\ r.pc \notin Sent /\ s.pc \in Sent => With(Sent)' = With(Sent) + 1
  BY WithMoves
<1>13. /\ Heard \in Nat /\ Heard' \in Nat
       /\ r.gone => Heard' = Heard
       /\ ~s.gone /\ s.pc # "done" => Heard' = Heard
       /\ ~r.gone /\ (s.gone \/ s.pc = "done") => Heard' = Heard + 1
  <2>1. r.gone => s.gone
    BY DEF Effect, Steps, Abandons
  <2> QED
    BY <1>3, <2>1, HeardMoves
<1>11. /\ stats.requests \in Nat /\ stats.errs \in Nat /\ stats.active \in Int
       /\ stats.userErrs \in Nat /\ stats.videoErrs \in Nat
       /\ stats.stale \in Nat
       /\ load.sent \in Nat /\ load.responses \in Nat /\ load.stale \in Nat
       /\ load.successes \in Nat
  BY DEF StatsInv
<1> USE <1>1, <1>2, <1>3, <1>11 DEF Steps, Working, Failing, Before, After
<1>20. CASE /\ Steps(q, {"new"}, "sent", None)
            /\ load' = [load EXCEPT !.sent = @ + 1] /\ stats' = stats
  BY SMTT(30), <1>20, <1>4, <1>5, <1>6, <1>7, <1>8, <1>9, <1>10,
     <1>12, <1>13 DEF StatsInv, Inside, Counted, Sent
<1>21. CASE /\ Steps(q, {"sent"}, "user", None)
            /\ stats' = [stats EXCEPT !.active = @ + 1] /\ load' = load
  BY SMTT(30), <1>21, <1>4, <1>5, <1>6, <1>7, <1>8, <1>9, <1>10,
     <1>12, <1>13 DEF StatsInv, Inside, Counted, Sent
<1>22. CASE /\ \E t \in Working : Steps(q, Working, t, None)
            /\ stats' = stats /\ load' = load
  BY SMTT(30), <1>22, <1>4, <1>5, <1>6, <1>7, <1>8, <1>9, <1>10,
     <1>12, <1>13 DEF StatsInv, Inside, Counted, Sent
<1>23. CASE /\ \E t \in Failing : Steps(q, Working, t, None)
            /\ \/ stats' = [stats EXCEPT !.userErrs = @ + 1]
               \/ stats' = [stats EXCEPT !.videoErrs = @ + 1]
            /\ load' = load
  <2>1. PICK t \in Failing : Steps(q, Working, t, None)
    BY <1>23
  <2>2. /\ With(Inside)' = With(Inside) /\ With(Counted)' = With(Counted)
        /\ With(Failing)' = With(Failing) + 1
        /\ With({"done"})' = With({"done"}) /\ StaleDone' = StaleDone
        /\ With(Sent)' = With(Sent) /\ Heard' = Heard
        /\ Answers("stale")' = Answers("stale")
        /\ Answers("error")' = Answers("error")
    BY <2>1, <1>4, <1>5, <1>6, <1>7, <1>8, <1>9, <1>10, <1>12, <1>13
       DEF Inside, Counted, Sent
  <2>3. CASE stats' = [stats EXCEPT !.userErrs = @ + 1]
    <3>1. /\ stats' \in [requests : Nat, errs : Nat, active : Int,
                         userErrs : Nat, videoErrs : Nat, stale : Nat]
          /\ stats'.userErrs = stats.userErrs + 1
          /\ stats'.videoErrs = stats.videoErrs
          /\ stats'.active = stats.active /\ stats'.stale = stats.stale
          /\ stats'.requests = stats.requests /\ stats'.errs = stats.errs
      BY SMTT(30), <2>3 DEF StatsInv
    <3>2. stats'.userErrs + stats'.videoErrs
            = With(Failing)' + Answers("stale")' + Answers("error")'
      BY SMTT(30), <3>1, <2>2, <1>6, <1>8, <1>9 DEF StatsInv
    <3> QED
      BY <1>23, <2>2, <3>1, <3>2 DEF StatsInv
  <2>4. CASE stats' = [stats EXCEPT !.videoErrs = @ + 1]
    <3>1. /\ stats' \in [requests : Nat, errs : Nat, active : Int,
                         userErrs : Nat, videoErrs : Nat, stale : Nat]
          /\ stats'.videoErrs = stats.videoErrs + 1
          /\ stats'.userErrs = stats.userErrs
          /\ stats'.active = stats.active /\ stats'.stale = stats.stale
          /\ stats'.requests = stats.requests /\ stats'.errs = stats.errs
      BY SMTT(30), <2>4 DEF StatsInv
    <3>2. stats'.userErrs + stats'.videoErrs
            = With(Failing)' + Answers("stale")' + Answers("error")'
      BY SMTT(30), <3>1, <2>2, <1>6, <1>8, <1>9 DEF StatsInv
    <3> QED
      BY <1>23, <2>2, <3>1, <3>2 DEF StatsInv
  <2> QED
    BY <1>23, <2>3, <2>4
<1>24. CASE /\ Steps(q, {"videos"}, "return", "fresh")
            /\ stats' = stats /\ load' = load
  BY SMTT(30), <1>24, <1>4, <1>5, <1>6, <1>7, <1>8, <1>9, <1>10,
     <1>12, <1>13 DEF StatsInv, Inside, Counted, Sent
<1>25. CASE /\ Steps(q, {"error"}, "return", "error")
            /\ stats' = [stats EXCEPT !.errs = @ + 1] /\ load' = load
  BY SMTT(30), <1>25, <1>4, <1>5, <1>6, <1>7, <1>8, <1>9, <1>10,
     <1>12, <1>13 DEF StatsInv, Inside, Counted, Sent
<1>26. CASE /\ Steps(q, {"fallback"}, "return", "stale")
            /\ stats' = [stats EXCEPT !.stale = @ + 1] /\ load' = load
  BY SMTT(30), <1>26, <1>4, <1>5, <1>6, <1>7, <1>8, <1>9, <1>10,
     <1>12, <1>13 DEF StatsInv, Inside, Counted, Sent
<1>27. CASE /\ Steps(q, {"fallback"}, "return", "error")
            /\ stats' = stats /\ load' = load
  BY SMTT(30), <1>27, <1>4, <1>5, <1>6, <1>7, <1>8, <1>9, <1>10,
     <1>12, <1>13 DEF StatsInv, Inside, Counted, Sent
<1>28. CASE /\ Steps(q, {"return"}, "leave", request[q].answer)
            /\ stats' = [stats EXCEPT !.requests = @ + 1] /\ load' = load
  BY SMTT(30), <1>28, <1>4, <1>5, <1>6, <1>7, <1>8, <1>9, <1>10,
     <1>12, <1>13 DEF StatsInv, Inside, Counted, Sent
<1>29. CASE /\ Steps(q, {"leave"}, "answered", request[q].answer)
            /\ stats' = [stats EXCEPT !.active = @ - 1] /\ load' = load
  BY SMTT(30), <1>29, <1>4, <1>5, <1>6, <1>7, <1>8, <1>9, <1>10,
     <1>12, <1>13 DEF StatsInv, Inside, Counted, Sent
<1>30. CASE /\ Steps(q, {"answered"}, "done", request[q].answer)
            /\ load' = IF request[q].gone THEN load ELSE [load EXCEPT
                 !.responses = @ + 1,
                 !.stale = IF request[q].answer = "stale" THEN @ + 1 ELSE @,
                 !.successes = IF request[q].answer # "error" THEN @ + 1
                               ELSE @]
            /\ stats' = stats
  <2>1. /\ With(Inside)' = With(Inside) /\ With(Counted)' = With(Counted)
        /\ With(Failing)' = With(Failing) /\ With(Sent)' = With(Sent)
        /\ With({"done"})' = With({"done"}) + 1
        /\ Answers("stale")' = Answers("stale")
        /\ Answers("error")' = Answers("error")
        /\ StaleDone' = IF r.answer = "stale" THEN StaleDone + 1
                        ELSE StaleDone
        /\ Heard' = IF r.gone THEN Heard ELSE Heard + 1
    BY <1>30, <1>4, <1>5, <1>6, <1>7, <1>8, <1>9, <1>10, <1>12, <1>13
       DEF Inside, Counted, Sent
  <2>2. load \in [sent : Nat, responses : Nat, successes : Nat, stale : Nat]
        /\ load.responses = Heard /\ load.successes <= With({"done"})
        /\ load.stale <= StaleDone
    BY DEF StatsInv
  <2>3. /\ load' \in [sent : Nat, responses : Nat, successes : Nat, stale : Nat]
        /\ load'.sent = load.sent
        /\ load'.responses = IF r.gone THEN load.responses
                             ELSE load.responses + 1
        /\ load'.successes \in {load.successes, load.successes + 1}
        /\ load'.stale \in {load.stale, load.stale + 1}
        /\ r.answer # "stale" => load'.stale = load.stale
    <3>1. CASE r.gone
      BY <1>30, <2>2, <3>1
    <3>2. CASE ~r.gone
      <4> DEFINE S == IF r.answer = "stale" THEN load.stale + 1 ELSE load.stale
                 U == IF r.answer # "error" THEN load.successes + 1
                      ELSE load.successes
      <4>1. /\ S \in {load.stale, load.stale + 1}
            /\ r.answer # "stale" => S = load.stale
            /\ U \in {load.successes, load.successes + 1}
        OBVIOUS
      <4>2. load' = [load EXCEPT !.responses = @ + 1, !.stale = S,
                                 !.successes = U]
        BY <1>30, <3>2
      <4> HIDE DEF S, U
      <4>3. S \in Nat /\ U \in Nat /\ load.responses + 1 \in Nat
        BY SMTT(30), <4>1
      <4>4. load' \in [sent : Nat, responses : Nat, successes : Nat,
                       stale : Nat]
        BY <2>2, <4>2, <4>3
      <4>5. /\ load'.responses = load.responses + 1 /\ load'.sent = load.sent
            /\ load'.successes = U /\ load'.stale = S
        BY <2>2, <4>2, <4>4
      <4> QED
        BY <3>2, <4>1, <4>4, <4>5
    <3> QED
      BY <3>1, <3>2
  <2>4. /\ load'.successes <= With({"done"})' /\ load'.stale <= StaleDone'
        /\ load'.responses = Heard'
    <3> HIDE DEF r
    <3>1. load'.successes <= With({"done"})'
      BY SMTT(30), <1>7, <2>1, <2>2, <2>3
    <3>2. load'.stale <= StaleDone'
      BY SMTT(30), <1>10, <2>1, <2>2, <2>3
    <3> QED
      BY <2>1, <2>2, <2>3, <3>1, <3>2
  <2> QED
    BY <1>30, <2>1, <2>2, <2>3, <2>4 DEF StatsInv
<1>31. CASE /\ Abandons(q)
            /\ load' = [load EXCEPT !.responses = @ + 1]
            /\ stats' = stats
  <2>1. /\ With(Inside)' = With(Inside) /\ With(Counted)' = With(Counted)
        /\ With(Failing)' = With(Failing) /\ With(Sent)' = With(Sent)
        /\ With({"done"})' = With({"done"}) /\ StaleDone' = StaleDone
        /\ Answers("stale")' = Answers("stale")
        /\ Answers("error")' = Answers("error")
        /\ Heard' = Heard + 1
    BY <1>31, <1>4, <1>5, <1>6, <1>7, <1>8, <1>9, <1>10, <1>12, <1>13
       DEF Inside, Counted, Sent, Abandons
  <2>2. load \in [sent : Nat, responses : Nat, successes : Nat, stale : Nat]
        /\ load.responses + 1 \in Nat
    BY SMTT(30) DEF StatsInv
  <2>3. /\ load' \in [sent : Nat, responses : Nat, successes : Nat, stale : Nat]
        /\ load'.sent = load.sent /\ load'.responses = load.responses + 1
        /\ load'.successes = load.successes /\ load'.stale = load.stale
    BY <1>31, <2>2
  <2> QED
    BY <1>31, <2>1, <2>2, <2>3 DEF StatsInv
<1> QED
  BY <1>20, <1>21, <1>22, <1>23, <1>24, <1>25, <1>26, <1>27, <1>28, <1>29,
     <1>30, <1>31 DEF Effect

-----------------------------------------------------------------------------
(***************************************************************************)
(* The backends: what they answer to a batch they do not reject.           *)
(***************************************************************************)
LEMMA GetUserAnswers ==
  ASSUME NEW ids, ids # <<>>, Len(ids) <= MaxBatchSize,
         Range(ids) \subseteq Users, NEW x \in GetUser(ids)
  PROVE  x \in {"ok", "error", "omitted"}
BY SMTT(30) DEF GetUser, Checked, MaybeInject

(* A valid batch is answered or fails in a way the caller can retry.       *)
LEMMA GetVideoAnswers ==
  ASSUME NEW ids, ids # <<>>, Len(ids) <= MaxBatchSize,
         IsInjective(ids), Range(ids) \subseteq Videos, NEW x \in GetVideo(ids)
  PROVE  x \in {"ok", "error", "omitted"}
BY SMTT(30) DEF GetVideo, Checked, MaybeInject

(***************************************************************************)
(* The users that a user subscribes to are users.                          *)
(***************************************************************************)
LEMMA SubscribedType ==
  ASSUME NEW u \in Users
  PROVE  SubscribedTo[u] \in Seq(Users)
<1>1. SubscribedTo[u] \in Seq(Users \ {u})
  BY VideoRecAssumption DEF MakeRandomUsers
<1> QED
  BY SMTT(30), <1>1

(***************************************************************************)
(* A beginning of the trending videos, video by video.                     *)
(***************************************************************************)
LEMMA PrefixElements ==
  ASSUME NEW s \in Seq(Videos)
  PROVE  IsPrefix(s, topVideos) <=>
           /\ Len(s) <= Len(topVideos)
           /\ \A i \in 1..Len(s) : s[i] = topVideos[i]
<1>1. topVideos \in Seq(Videos) /\ Len(topVideos) \in Nat /\ Len(s) \in Nat
  BY SMTT(30), VideoRecAssumption DEF MakeRandomVideos
<1> SUFFICES ASSUME Len(s) <= Len(topVideos)
             PROVE  s = SubSeq(topVideos, 1, Len(s)) <=>
                      \A i \in 1..Len(s) : s[i] = topVideos[i]
  BY DEF IsPrefix
<1> DEFINE b == SubSeq(topVideos, 1, Len(s))
<1>2. /\ b \in Seq(Videos) /\ Len(b) = Len(s)
      /\ \A i \in 1..Len(s) : b[i] = topVideos[i]
  BY SMTT(30), <1>1
<1> HIDE DEF b
<1>3. s = b <=> \A i \in 1..Len(s) : s[i] = b[i]
  BY SMTT(30), <1>1, <1>2
<1> QED
  BY <1>2, <1>3 DEF b

(***************************************************************************)
(* A beginning of a beginning of the trending videos is a beginning.       *)
(***************************************************************************)
LEMMA PrefixOfPrefix ==
  ASSUME NEW s \in Seq(Videos), IsPrefix(s, topVideos), NEW n \in 0..Len(s)
  PROVE  /\ IsPrefix(SubSeq(s, 1, n), topVideos)
         /\ Len(SubSeq(s, 1, n)) = n
<1>1. topVideos \in Seq(Videos) /\ Len(topVideos) \in Nat /\ Len(s) \in Nat
  BY SMTT(30), VideoRecAssumption DEF MakeRandomVideos
<1>2. Len(s) <= Len(topVideos) /\ \A i \in 1..Len(s) : s[i] = topVideos[i]
  BY PrefixElements
<1> DEFINE t == SubSeq(s, 1, n)
<1>3. t \in Seq(Videos) /\ Len(t) = n /\ \A i \in 1..n : t[i] = s[i]
  BY SMTT(30), <1>1
<1> HIDE DEF t
<1>4. Len(t) <= Len(topVideos) /\ \A i \in 1..Len(t) : t[i] = topVideos[i]
  BY SMTT(30), <1>1, <1>2, <1>3
<1>5. IsPrefix(t, topVideos)
  BY <1>3, <1>4, PrefixElements
<1> QED
  BY <1>3, <1>5 DEF t

(***************************************************************************)
(* What every step of a request is shown to do.                            *)
(***************************************************************************)
Sound(q) ==
  /\ Moves(q) /\ Effect(q)
  /\ RequestOK(request'[q], options.DisableFallback)
  /\ ~rejected'
  /\ UNCHANGED <<options, now, cache, trending>>

(* Writing one request's record leaves the other requests as they are.     *)
LEMMA RecordStep ==
  ASSUME NEW q \in Requests, NEW V, request \in [Requests -> Record(V)],
         NEW W, NEW r \in Record(W), request' = [request EXCEPT ![q] = r]
  PROVE  Moves(q) /\ request'[q] = r
<1>1. \A p \in Requests : request[p] \in Record(V \cup W)
  <2> TAKE p \in Requests
  <2>1. request[p] \in Record(V)
    OBVIOUS
  <2> QED
    BY <2>1 DEF Record
<1>2. r \in Record(V \cup W)
  BY DEF Record
<1>3. request' \in [Requests -> Record(V \cup W)]
  BY <1>1, <1>2
<1> QED
  BY <1>3 DEF Moves

(* Sending a request keeps the invariant.                                  *)
LEMMA SendRequestStep ==
  ASSUME VideoInv, NEW q \in Requests, NEW c \in Calls[q], SendRequest(q, c)
  PROVE  Sound(q)
<1>1. PICK V : request \in [Requests -> Record(V)]
  BY DEF VideoInv, RequestInv
<1>2. c.user \in Users /\ c.limit \in Nat
  BY VideoRecAssumption
<1>3. /\ Moves(q)
      /\ request'[q].pc = "sent" /\ request'[q].user = c.user
      /\ request'[q].answer = request[q].answer
      /\ request'[q].gone = request[q].gone
  <2> DEFINE r == [request[q] EXCEPT !.pc = "sent", !.user = c.user,
                                     !.limit = c.limit]
  <2>1. request' = [request EXCEPT ![q] = r]
    BY <1>1 DEF SendRequest
  <2>2. request[q] \in Record(V)
    BY <1>1
  <2>3. /\ r \in Record(V) /\ r.pc = "sent" /\ r.user = c.user
        /\ r.answer = request[q].answer /\ r.gone = request[q].gone
    BY <1>2, <2>2 DEF Record, Before
  <2> HIDE DEF r
  <2>4. Moves(q) /\ request'[q] = r
    BY <1>1, <2>1, <2>3, RecordStep
  <2> QED
    BY <2>3, <2>4
<1>4. request[q].pc = "new" /\ request[q].answer = None
  BY DEF SendRequest, VideoInv, RequestInv, RequestOK, Before
<1>5. Effect(q)
  BY <1>3, <1>4 DEF SendRequest, Effect, Steps
<1>6. RequestOK(request'[q], options.DisableFallback)
  BY <1>2, <1>3, <1>4, VideoRecAssumption DEF RequestOK, Before
<1> QED
  BY <1>3, <1>5, <1>6 DEF SendRequest, Sound, Moves, VideoInv

(* So does the server's taking it,                                         *)
LEMMA EnterStep ==
  ASSUME VideoInv, NEW q \in Requests, Enter(q)
  PROVE  Sound(q) /\ request[q].pc = "sent" /\ request'[q].pc = "user"
<1>1. PICK V : request \in [Requests -> Record(V)]
  BY DEF VideoInv, RequestInv
<1>3. /\ request' \in [Requests -> Record(V)]
      /\ \A p \in Requests \ {q} : request'[p] = request[p]
      /\ request'[q].pc = "user" /\ request'[q].user = request[q].user
      /\ request'[q].answer = request[q].answer
      /\ request'[q].gone = request[q].gone
  BY Zenon, <1>1 DEF Enter, Record, Before
<1>4. /\ request[q].pc = "sent" /\ request[q].answer = None
      /\ request[q].user \in Users
  BY DEF Enter, VideoInv, RequestInv, RequestOK, Before
<1>5. Effect(q)
  BY <1>3, <1>4 DEF Enter, Effect, Steps
<1>6. RequestOK(request'[q], options.DisableFallback)
  BY <1>3, <1>4, VideoRecAssumption DEF RequestOK, Before
<1> QED
  BY <1>3, <1>4, <1>5, <1>6 DEF Enter, Sound, Moves, VideoInv

(***************************************************************************)
(* A call of a backend that failed, whatever the request was doing.        *)
(***************************************************************************)
LEMMA BackendErrorStep ==
  ASSUME VideoInv, NEW q \in Requests, NEW s, BackendError(q, s),
         request[q].pc \in Working, load' = load
  PROVE  /\ Moves(q) /\ Effect(q)
         /\ RequestOK(request'[q], options.DisableFallback)
         /\ request'[q].pc \in Failing
<1>1. PICK V : request \in [Requests -> Record(V)]
  BY DEF VideoInv, RequestInv
<1>2. /\ request[q].answer = None /\ request[q].user \in Users
      /\ options.DisableFallback \in BOOLEAN
  BY DEF VideoInv, RequestInv, RequestOK, Before, Working
<1>3. <<>> \in Seq(Videos)
  BY SMTT(30)
<1> DEFINE t == IF options.DisableFallback THEN "error" ELSE "fallback"
<1>4. t \in Failing /\ (options.DisableFallback => t # "fallback")
  BY DEF Failing
<1>5. request' = [request EXCEPT ![q].pc = t, ![q].offset = 0,
                    ![q].candidates = <<>>, ![q].videos = <<>>]
  BY DEF BackendError
<1> HIDE DEF t
<1>6. /\ Moves(q)
      /\ request'[q].pc = t /\ request'[q].user = request[q].user
      /\ request'[q].answer = request[q].answer
      /\ request'[q].gone = request[q].gone
  <2> DEFINE r == [request[q] EXCEPT !.pc = t, !.offset = 0,
                     !.candidates = <<>>, !.videos = <<>>]
  <2>1. request' = [request EXCEPT ![q] = r]
    BY <1>1, <1>5
  <2>2. request[q] \in Record(V)
    BY <1>1
  <2>3. /\ r \in Record({<<>>}) /\ r.pc = t /\ r.user = request[q].user
        /\ r.answer = request[q].answer /\ r.gone = request[q].gone
    BY <1>3, <1>4, <2>2 DEF Record, Before, Failing
  <2> HIDE DEF r
  <2>4. Moves(q) /\ request'[q] = r
    BY <1>1, <2>1, <2>3, RecordStep
  <2> QED
    BY <2>3, <2>4
<1>7. Effect(q)
  <2>1. Steps(q, Working, t, None)
    BY <1>2, <1>6 DEF Steps
  <2>2. \/ stats' = [stats EXCEPT !.userErrs = @ + 1]
        \/ stats' = [stats EXCEPT !.videoErrs = @ + 1]
    BY DEF BackendError
  <2> QED
    BY <1>4, <2>1, <2>2 DEF Effect
<1>8. RequestOK(request'[q], options.DisableFallback)
  BY <1>2, <1>4, <1>6, VideoRecAssumption DEF RequestOK, Before, Failing
<1> QED
  BY <1>4, <1>6, <1>7, <1>8 DEF Moves

(***************************************************************************)
(* The calls of the user service.                                          *)
(***************************************************************************)
LEMMA FirstUserRequestStep ==
  ASSUME VideoInv, NEW q \in Requests, FirstUserRequest(q)
  PROVE  /\ Sound(q) /\ request[q].pc = "user"
         /\ request'[q].pc \in {"subscribed"} \cup Failing
<1>1. PICK V : request \in [Requests -> Record(V)]
  BY DEF VideoInv, RequestInv
<1>2. /\ request[q].pc = "user" /\ request[q].answer = None
      /\ request[q].user \in Users
  BY DEF FirstUserRequest, VideoInv, RequestInv, RequestOK, Before
<1>3. PICK x \in Within(GetUser(<<request[q].user>>)) :
        /\ IF x = "ok"
           THEN /\ request' = [request EXCEPT ![q].pc = "subscribed"]
                /\ UNCHANGED stats
           ELSE BackendError(q, "user")
        /\ rejected' = (rejected \/ x = "invalid")
  BY DEF FirstUserRequest
<1>4. x # "invalid"
  <2> DEFINE b == <<request[q].user>>
  <2>1. b \in Seq(Users) /\ b # <<>> /\ Len(b) = 1
    BY SMTT(30), <1>2
  <2>2. Range(b) \subseteq Users
    BY SMTT(30), <1>2 DEF Range
  <2>3. 1 <= MaxBatchSize
    BY SMTT(30), VideoRecAssumption
  <2> HIDE DEF b
  <2>4. x \in GetUser(b) \/ x = "deadline"
    BY <1>3 DEF b, Within
  <2> QED
    BY <2>1, <2>2, <2>3, <2>4, GetUserAnswers
<1>5. ~rejected' /\ UNCHANGED <<options, now, cache, trending, load>>
  BY <1>3, <1>4 DEF FirstUserRequest, VideoInv
<1>6. CASE x = "ok"
  <2>1. /\ Moves(q)
        /\ request'[q].pc = "subscribed" /\ request'[q].user = request[q].user
        /\ request'[q].answer = request[q].answer
        /\ request'[q].gone = request[q].gone
    <3> DEFINE r == [request[q] EXCEPT !.pc = "subscribed"]
    <3>1. request' = [request EXCEPT ![q] = r]
      BY <1>1, <1>3, <1>6
    <3>2. request[q] \in Record(V)
      BY <1>1
    <3>3. /\ r \in Record(V) /\ r.pc = "subscribed"
          /\ r.user = request[q].user /\ r.answer = request[q].answer
          /\ r.gone = request[q].gone
      BY <3>2 DEF Record, Before
    <3> HIDE DEF r
    <3>4. Moves(q) /\ request'[q] = r
      BY <1>1, <3>1, <3>3, RecordStep
    <3> QED
      BY <3>3, <3>4
  <2>2. Effect(q)
    <3>1. Steps(q, Working, "subscribed", None)
      BY <1>2, <2>1 DEF Steps, Working
    <3> QED
      BY <1>3, <1>5, <1>6, <3>1 DEF Effect, Working
  <2>3. RequestOK(request'[q], options.DisableFallback)
    BY <1>2, <2>1, VideoRecAssumption DEF RequestOK, Before
  <2> QED
    BY <1>2, <1>5, <2>1, <2>2, <2>3 DEF Sound, Moves
<1>7. CASE x # "ok"
  <2>1. BackendError(q, "user") /\ request[q].pc \in Working
    BY <1>2, <1>3, <1>7 DEF Working
  <2> QED
    BY <1>2, <1>5, <2>1, BackendErrorStep DEF Sound
<1> QED
  BY <1>6, <1>7

(* the second request for the subscriptions,                               *)
LEMMA SecondUserRequestStep ==
  ASSUME VideoInv, NEW q \in Requests, SecondUserRequest(q)
  PROVE  /\ Sound(q) /\ request[q].pc = "subscribed"
         /\ request'[q].pc \in {"subscribed"} \cup Failing
<1> DEFINE ids == SubscribedTo[request[q].user]
           batch == Batch(ids, request[q].offset)
<1>1. PICK V : request \in [Requests -> Record(V)]
  BY DEF VideoInv, RequestInv
<1>2. /\ request[q].pc = "subscribed" /\ request[q].answer = None
      /\ request[q].user \in Users /\ request[q].offset < Len(ids)
  BY DEF SecondUserRequest, VideoInv, RequestInv, RequestOK, Before
<1>3. PICK x \in Within(GetUser(batch)) :
        /\ IF x = "ok"
           THEN /\ request' = [request EXCEPT
                     ![q].offset = @ + MaxBatchSize,
                     ![q].candidates = @ \o Likes(batch)]
                /\ UNCHANGED stats
           ELSE BackendError(q, "user")
        /\ rejected' = (rejected \/ x = "invalid")
  BY DEF SecondUserRequest
<1>4. /\ ids \in Seq(Users) /\ request[q].offset \in Nat
      /\ request[q].candidates \in Seq(Videos)
  BY <1>1, <1>2, SubscribedType DEF Record
<1>5. /\ batch \in Seq(Users) /\ batch # <<>> /\ Len(batch) <= MaxBatchSize
      /\ Range(batch) \subseteq Users
  <2> HIDE DEF ids
  <2> QED
    BY SMTT(30), <1>2, <1>4, BatchFacts
<1> HIDE DEF batch, ids
<1>6. x # "invalid"
  BY <1>3, <1>5, GetUserAnswers DEF Within
<1>7. ~rejected' /\ UNCHANGED <<options, now, cache, trending, load>>
  BY <1>3, <1>6 DEF SecondUserRequest, VideoInv
<1>8. CASE x = "ok"
  <2> DEFINE o == request[q].offset + MaxBatchSize
             c == request[q].candidates \o Likes(batch)
             r == [request[q] EXCEPT !.offset = o, !.candidates = c]
  <2>1. o \in Nat /\ c \in Seq(Videos)
    <3>1. Likes(batch) \in Seq(Videos)
      BY <1>5, LikesFacts
    <3> QED
      BY SMTT(30), <1>4, <3>1, VideoRecAssumption, ConcatProperties
  <2>2. request' = [request EXCEPT ![q] = r]
    BY <1>1, <1>3, <1>8
  <2>3. request[q] \in Record(V)
    BY <1>1
  <2>4. /\ r \in Record(V) /\ r.pc = "subscribed" /\ r.user = request[q].user
        /\ r.answer = request[q].answer /\ r.gone = request[q].gone
    <3> HIDE DEF o, c
    <3> QED
      BY <1>2, <2>1, <2>3 DEF Record
  <2> HIDE DEF r
  <2>5. Moves(q) /\ request'[q] = r
    BY <1>1, <2>2, <2>4, RecordStep
  <2>6. Effect(q)
    <3>1. Steps(q, Working, "subscribed", None)
      BY <1>2, <2>4, <2>5 DEF Steps, Working
    <3> QED
      BY <1>3, <1>7, <1>8, <3>1 DEF Effect, Working
  <2>7. RequestOK(request'[q], options.DisableFallback)
    BY <1>2, <2>4, <2>5, VideoRecAssumption DEF RequestOK, Before
  <2> QED
    BY <1>2, <1>7, <2>4, <2>5, <2>6, <2>7 DEF Sound
<1>9. CASE x # "ok"
  <2>1. BackendError(q, "user") /\ request[q].pc \in Working
    BY <1>2, <1>3, <1>9 DEF Working
  <2> QED
    BY <1>2, <1>7, <2>1, BackendErrorStep DEF Sound
<1> QED
  BY <1>8, <1>9

(* the removal of duplicates,                                              *)
LEMMA DeduplicateStep ==
  ASSUME VideoInv, NEW q \in Requests, Deduplicate(q)
  PROVE  Sound(q) /\ request[q].pc = "subscribed" /\ request'[q].pc = "videos"
<1>1. PICK V : request \in [Requests -> Record(V)]
  BY DEF VideoInv, RequestInv
<1>2. /\ request[q].pc = "subscribed" /\ request[q].answer = None
      /\ request[q].user \in Users
  BY DEF Deduplicate, VideoInv, RequestInv, RequestOK, Before
<1> DEFINE c == DeduplicateIds(request[q].candidates)
           r == [request[q] EXCEPT !.pc = "videos", !.offset = 0,
                                   !.candidates = c]
<1>3. c \in Seq(Videos) /\ IsInjective(c)
  <2>1. request[q].candidates \in Seq(Videos)
    BY <1>1 DEF Record
  <2> QED
    BY <2>1, DeduplicateIdsFacts
<1> HIDE DEF c
<1>4. request' = [request EXCEPT ![q] = r]
  BY <1>1 DEF Deduplicate, c
<1>5. request[q] \in Record(V)
  BY <1>1
<1>6. /\ r \in Record(V) /\ r.pc = "videos" /\ r.user = request[q].user
      /\ r.answer = request[q].answer /\ r.candidates = c
      /\ r.gone = request[q].gone
  BY <1>2, <1>3, <1>5 DEF Record, Before
<1> HIDE DEF r
<1>7. Moves(q) /\ request'[q] = r
  BY <1>1, <1>4, <1>6, RecordStep
<1>8. Effect(q)
  <2>1. Steps(q, Working, "videos", None)
    BY <1>2, <1>6, <1>7 DEF Steps, Working
  <2> QED
    BY <2>1 DEF Effect, Working, Deduplicate
<1>9. RequestOK(request'[q], options.DisableFallback)
  BY <1>2, <1>3, <1>6, <1>7, VideoRecAssumption DEF RequestOK, Before
<1> QED
  BY <1>2, <1>6, <1>7, <1>8, <1>9 DEF Sound, Deduplicate, VideoInv

(***************************************************************************)
(* The calls of the video service, and the ranking.                        *)
(***************************************************************************)
LEMMA FetchVideosStep ==
  ASSUME VideoInv, NEW q \in Requests, FetchVideos(q)
  PROVE  /\ Sound(q) /\ request[q].pc = "videos"
         /\ request'[q].pc \in {"videos"} \cup Failing
<1> DEFINE ids == request[q].candidates
           batch == Batch(ids, request[q].offset)
<1>1. PICK V : request \in [Requests -> Record(V)]
  BY DEF VideoInv, RequestInv
<1>2. /\ request[q].pc = "videos" /\ request[q].answer = None
      /\ request[q].user \in Users /\ request[q].offset < Len(ids)
      /\ IsInjective(ids)
  BY DEF FetchVideos, VideoInv, RequestInv, RequestOK, Before
<1>3. PICK x \in Within(GetVideo(batch)) :
        /\ IF x = "ok"
           THEN /\ request' = [request EXCEPT
                     ![q].offset = @ + MaxBatchSize,
                     ![q].videos = @ \o batch]
                /\ UNCHANGED stats
           ELSE BackendError(q, "video")
        /\ rejected' = (rejected \/ x = "invalid")
  BY DEF FetchVideos
<1>4. ids \in Seq(Videos) /\ request[q].offset \in Nat
  BY <1>1 DEF Record
<1>5. /\ batch # <<>> /\ Len(batch) <= MaxBatchSize
      /\ Range(batch) \subseteq Videos /\ IsInjective(batch)
  <2>1. ids \in Seq(Videos) /\ request[q].offset < Len(ids) /\ IsInjective(ids)
    BY <1>2, <1>4
  <2> HIDE DEF ids
  <2> QED
    BY SMTT(30), <1>4, <2>1, BatchFacts
<1> HIDE DEF batch
<1>6. x # "invalid"
  BY <1>3, <1>5, GetVideoAnswers DEF Within
<1>7. ~rejected' /\ UNCHANGED <<options, now, cache, trending, load>>
  BY <1>3, <1>6 DEF FetchVideos, VideoInv
<1>8. CASE x = "ok"
  <2> DEFINE o == request[q].offset + MaxBatchSize
             v == request[q].videos \o batch
             r == [request[q] EXCEPT !.offset = o, !.videos = v]
  <2>1. o \in Nat
    BY SMTT(30), <1>4, VideoRecAssumption
  <2>2. request' = [request EXCEPT ![q] = r]
    BY <1>1, <1>3, <1>8
  <2>3. request[q] \in Record(V)
    BY <1>1
  <2>4. /\ r \in Record({v}) /\ r.pc = "videos" /\ r.user = request[q].user
        /\ r.answer = request[q].answer /\ r.candidates = request[q].candidates
        /\ r.gone = request[q].gone
    <3> HIDE DEF o, v
    <3> QED
      BY <1>2, <2>1, <2>3 DEF Record
  <2> HIDE DEF r
  <2>5. Moves(q) /\ request'[q] = r
    <3> HIDE DEF v
    <3> QED
      BY <1>1, <2>2, <2>4, RecordStep
  <2>6. Effect(q)
    <3>1. Steps(q, Working, "videos", None)
      BY <1>2, <2>4, <2>5 DEF Steps, Working
    <3> QED
      BY <1>3, <1>7, <1>8, <3>1 DEF Effect, Working
  <2>7. RequestOK(request'[q], options.DisableFallback)
    BY <1>2, <2>4, <2>5, VideoRecAssumption DEF RequestOK, Before
  <2> QED
    BY <1>2, <1>7, <2>4, <2>5, <2>6, <2>7 DEF Sound
<1>9. CASE x # "ok"
  <2>1. BackendError(q, "video") /\ request[q].pc \in Working
    BY <1>2, <1>3, <1>9 DEF Working
  <2> QED
    BY <1>2, <1>7, <2>1, BackendErrorStep DEF Sound
<1> QED
  BY <1>8, <1>9

(* the ranking,                                                            *)
LEMMA RankVideosStep ==
  ASSUME VideoInv, NEW q \in Requests, RankVideos(q)
  PROVE  Sound(q) /\ request[q].pc = "videos" /\ request'[q].pc = "return"
<1>1. PICK V : request \in [Requests -> Record(V)]
  BY DEF VideoInv, RequestInv
<1>2. request[q].pc = "videos" /\ request[q].user \in Users
  BY DEF RankVideos, VideoInv, RequestInv, RequestOK
<1>0. PICK v : request' = [request EXCEPT ![q].pc = "return",
        ![q].answer = "fresh", ![q].offset = 0, ![q].candidates = <<>>,
        ![q].videos = v]
  BY DEF RankVideos
<1> DEFINE r == [request[q] EXCEPT !.pc = "return", !.answer = "fresh",
                   !.offset = 0, !.candidates = <<>>, !.videos = v]
<1>3. request' = [request EXCEPT ![q] = r]
  BY <1>0, <1>1
<1>4. request[q] \in Record(V) /\ <<>> \in Seq(Videos)
  BY SMTT(30), <1>1
<1>5. /\ r \in Record({v}) /\ r.pc = "return" /\ r.user = request[q].user
      /\ r.answer = "fresh" /\ r.gone = request[q].gone
  BY <1>4 DEF Record, After
<1> HIDE DEF r
<1>6. Moves(q) /\ request'[q] = r
  BY <1>1, <1>3, <1>5, RecordStep
<1>7. Effect(q)
  <2>1. Steps(q, {"videos"}, "return", "fresh")
    BY <1>2, <1>5, <1>6 DEF Steps
  <2> QED
    BY <2>1 DEF Effect, RankVideos
<1>8. RequestOK(request'[q], options.DisableFallback)
  BY <1>2, <1>5, <1>6, VideoRecAssumption DEF RequestOK, Before
<1> QED
  BY <1>2, <1>5, <1>6, <1>7, <1>8 DEF Sound, RankVideos, VideoInv

(***************************************************************************)
(* The ends of a request.                                                  *)
(***************************************************************************)
LEMMA ReturnErrorStep ==
  ASSUME VideoInv, NEW q \in Requests, ReturnError(q)
  PROVE  Sound(q) /\ request[q].pc = "error" /\ request'[q].pc = "return"
<1>1. PICK V : request \in [Requests -> Record(V)]
  BY DEF VideoInv, RequestInv
<1>2. request[q].pc = "error" /\ request[q].user \in Users
  BY DEF ReturnError, VideoInv, RequestInv, RequestOK
<1> DEFINE r == [request[q] EXCEPT !.pc = "return", !.answer = "error"]
<1>3. request' = [request EXCEPT ![q] = r]
  BY <1>1 DEF ReturnError
<1>4. request[q] \in Record(V)
  BY <1>1
<1>5. /\ r \in Record(V) /\ r.pc = "return" /\ r.user = request[q].user
      /\ r.answer = "error" /\ r.gone = request[q].gone
  BY <1>4 DEF Record, After
<1> HIDE DEF r
<1>6. Moves(q) /\ request'[q] = r
  BY <1>1, <1>3, <1>5, RecordStep
<1>7. Effect(q)
  <2>1. Steps(q, {"error"}, "return", "error")
    BY <1>2, <1>5, <1>6 DEF Steps
  <2> QED
    BY <2>1 DEF Effect, ReturnError
<1>8. RequestOK(request'[q], options.DisableFallback)
  BY <1>2, <1>5, <1>6, VideoRecAssumption DEF RequestOK, Before
<1> QED
  BY <1>2, <1>5, <1>6, <1>7, <1>8 DEF Sound, ReturnError, VideoInv

(* the counting of a request that was answered,                            *)
LEMMA CountRequestStep ==
  ASSUME VideoInv, NEW q \in Requests, CountRequest(q)
  PROVE  Sound(q) /\ request[q].pc = "return" /\ request'[q].pc = "leave"
<1>1. PICK V : request \in [Requests -> Record(V)]
  BY DEF VideoInv, RequestInv
<1>2. /\ request[q].pc = "return"
      /\ RequestOK(request[q], options.DisableFallback)
  BY DEF CountRequest, VideoInv, RequestInv
<1> DEFINE r == [request[q] EXCEPT !.pc = "leave"]
<1>3. request' = [request EXCEPT ![q] = r]
  BY <1>1 DEF CountRequest
<1>4. request[q] \in Record(V)
  BY <1>1
<1>5. /\ r \in Record(V) /\ r.pc = "leave" /\ r.user = request[q].user
      /\ r.answer = request[q].answer /\ r.videos = request[q].videos
      /\ r.limit = request[q].limit /\ r.gone = request[q].gone
  BY <1>4 DEF Record, After
<1> HIDE DEF r
<1>6. Moves(q) /\ request'[q] = r
  BY <1>1, <1>3, <1>5, RecordStep
<1>7. Effect(q)
  <2>1. Steps(q, {"return"}, "leave", request[q].answer)
    BY <1>2, <1>5, <1>6 DEF Steps
  <2> QED
    BY <2>1 DEF Effect, CountRequest
<1>8. RequestOK(request'[q], options.DisableFallback)
  BY <1>2, <1>5, <1>6 DEF RequestOK, Before, IsStale
<1> QED
  BY <1>2, <1>5, <1>6, <1>7, <1>8 DEF Sound, CountRequest, VideoInv

(* the deferred end of the handler,                                        *)
LEMMA LeaveStep ==
  ASSUME VideoInv, NEW q \in Requests, Leave(q)
  PROVE  Sound(q) /\ request[q].pc = "leave" /\ request'[q].pc = "answered"
<1>1. PICK V : request \in [Requests -> Record(V)]
  BY DEF VideoInv, RequestInv
<1>2. /\ request[q].pc = "leave"
      /\ RequestOK(request[q], options.DisableFallback)
  BY DEF Leave, VideoInv, RequestInv
<1> DEFINE r == [request[q] EXCEPT !.pc = "answered"]
<1>3. request' = [request EXCEPT ![q] = r]
  BY <1>1 DEF Leave
<1>4. request[q] \in Record(V)
  BY <1>1
<1>5. /\ r \in Record(V) /\ r.pc = "answered" /\ r.user = request[q].user
      /\ r.answer = request[q].answer /\ r.videos = request[q].videos
      /\ r.limit = request[q].limit /\ r.gone = request[q].gone
  BY <1>4 DEF Record, After
<1> HIDE DEF r
<1>6. Moves(q) /\ request'[q] = r
  BY <1>1, <1>3, <1>5, RecordStep
<1>7. Effect(q)
  <2>1. Steps(q, {"leave"}, "answered", request[q].answer)
    BY <1>2, <1>5, <1>6 DEF Steps
  <2> QED
    BY <2>1 DEF Effect, Leave
<1>8. RequestOK(request'[q], options.DisableFallback)
  BY <1>2, <1>5, <1>6 DEF RequestOK, Before, IsStale
<1> QED
  BY <1>2, <1>5, <1>6, <1>7, <1>8 DEF Sound, Leave, VideoInv

(* the load generator's giving up,                                         *)
LEMMA GiveUpStep ==
  ASSUME VideoInv, NEW q \in Requests, GiveUp(q)
  PROVE  /\ Sound(q)
         /\ \/ request'[q].pc = request[q].pc
            \/ request[q].pc = "sent" /\ request'[q].pc = "lost"
<1>1. PICK V : request \in [Requests -> Record(V)]
  BY DEF VideoInv, RequestInv
<1>2. /\ request[q].pc \in (Before \cup After) \ {"new", "lost", "done"}
      /\ ~request[q].gone
      /\ RequestOK(request[q], options.DisableFallback)
  BY <1>1 DEF GiveUp, VideoInv, RequestInv, Record
<1>3. PICK next \in IF request[q].pc = "sent" THEN {"sent", "lost"}
                    ELSE {request[q].pc} :
        request' = [request EXCEPT ![q].pc = next, ![q].gone = TRUE]
  BY DEF GiveUp
<1>4. \/ next = request[q].pc
      \/ request[q].pc = "sent" /\ next = "lost"
  BY <1>3
<1> DEFINE r == [request[q] EXCEPT !.pc = next, !.gone = TRUE]
<1>5. request' = [request EXCEPT ![q] = r]
  BY <1>1, <1>3
<1>6. request[q] \in Record(V) /\ next \in Before \cup After
  BY <1>1, <1>2, <1>4 DEF Before
<1>7. /\ r \in Record(V) /\ r.pc = next /\ r.user = request[q].user
      /\ r.answer = request[q].answer /\ r.videos = request[q].videos
      /\ r.candidates = request[q].candidates
      /\ r.limit = request[q].limit /\ r.gone
  BY <1>6 DEF Record
<1> HIDE DEF r
<1>8. Moves(q) /\ request'[q] = r
  BY <1>1, <1>5, <1>7, RecordStep
<1>9. Effect(q)
  <2>1. Abandons(q)
    BY <1>2, <1>4, <1>7, <1>8 DEF Abandons, Sent
  <2> QED
    BY <2>1 DEF Effect, GiveUp
<1>10. RequestOK(request'[q], options.DisableFallback)
  <2>1. CASE next = request[q].pc
    BY <1>2, <1>7, <1>8, <2>1 DEF RequestOK, IsStale
  <2>2. CASE request[q].pc = "sent" /\ next = "lost"
    BY <1>2, <1>7, <1>8, <2>2, VideoRecAssumption DEF RequestOK, Before
  <2> QED
    BY <1>4, <2>1, <2>2
<1> QED
  BY <1>4, <1>7, <1>8, <1>9, <1>10 DEF Sound, GiveUp, VideoInv

(* and its taking the response.                                            *)
LEMMA ReceiveStep ==
  ASSUME VideoInv, NEW q \in Requests, Receive(q)
  PROVE  Sound(q) /\ request[q].pc = "answered" /\ request'[q].pc = "done"
<1>1. PICK V : request \in [Requests -> Record(V)]
  BY DEF VideoInv, RequestInv
<1>2. /\ request[q].pc = "answered"
      /\ RequestOK(request[q], options.DisableFallback)
  BY DEF Receive, VideoInv, RequestInv
<1> DEFINE r == [request[q] EXCEPT !.pc = "done", !.videos = <<>>]
<1>3. request' = [request EXCEPT ![q] = r]
  BY <1>1 DEF Receive
<1>4. request[q] \in Record(V)
  BY <1>1
<1>5. /\ r \in Record({<<>>}) /\ r.pc = "done" /\ r.user = request[q].user
      /\ r.answer = request[q].answer /\ r.gone = request[q].gone
  BY <1>4 DEF Record, After
<1> HIDE DEF r
<1>6. Moves(q) /\ request'[q] = r
  BY <1>1, <1>3, <1>5, RecordStep
<1>7. Effect(q)
  <2>1. Steps(q, {"answered"}, "done", request[q].answer)
    BY <1>2, <1>5, <1>6 DEF Steps
  <2> QED
    BY <2>1 DEF Effect, Receive
<1>8. RequestOK(request'[q], options.DisableFallback)
  BY <1>2, <1>5, <1>6 DEF RequestOK, Before
<1> QED
  BY <1>2, <1>5, <1>6, <1>7, <1>8 DEF Sound, Receive, VideoInv

(***************************************************************************)
(* The two versions of fallBack differ in how much of the cache they cut.  *)
(***************************************************************************)
LEMMA CutOfCache ==
  ASSUME VideoInv, NEW q \in Requests, request[q].pc = "fallback",
         NEW m \in 0..Len(cache.videos),
         Len(cache.videos) # 0 /\ request[q].limit > 0 => m > 0,
         IF Len(cache.videos) # 0
         THEN /\ request' = [request EXCEPT ![q].pc = "return",
                   ![q].answer = "stale",
                   ![q].videos = SubSeq(cache.videos, 1, m)]
              /\ stats' = [stats EXCEPT !.stale = @ + 1]
         ELSE /\ request' = [request EXCEPT ![q].pc = "return",
                                            ![q].answer = "error"]
              /\ UNCHANGED stats,
         UNCHANGED <<options, now, cache, trending, load, rejected>>
  PROVE  Sound(q) /\ request'[q].pc = "return"
<1>1. PICK V : request \in [Requests -> Record(V)]
  BY DEF VideoInv, RequestInv
<1>2. request[q] \in Record(V) /\ request[q].user \in Users
  BY <1>1 DEF VideoInv, RequestInv, RequestOK
<1>3. CASE Len(cache.videos) # 0
  <2> DEFINE v == SubSeq(cache.videos, 1, m)
             r == [request[q] EXCEPT !.pc = "return", !.answer = "stale",
                                     !.videos = v]
  <2>1. IsPrefix(v, topVideos) /\ Len(v) = m
    <3>1. cache.videos \in Seq(Videos) /\ IsPrefix(cache.videos, topVideos)
      BY DEF VideoInv, TrendingInv, WholeBatches
    <3> QED
      BY <3>1, PrefixOfPrefix
  <2> HIDE DEF v
  <2>2. request' = [request EXCEPT ![q] = r]
    BY <1>1, <1>3 DEF v
  <2>3. /\ r \in Record({v}) /\ r.pc = "return" /\ r.user = request[q].user
        /\ r.answer = "stale" /\ r.videos = v /\ r.limit = request[q].limit
        /\ r.gone = request[q].gone
    BY <1>2 DEF Record, After
  <2> HIDE DEF r
  <2>4. Moves(q) /\ request'[q] = r
    BY <1>1, <2>2, <2>3, RecordStep
  <2>5. Effect(q)
    <3>1. Steps(q, {"fallback"}, "return", "stale")
      BY <2>3, <2>4 DEF Steps
    <3> QED
      BY <1>3, <3>1 DEF Effect
  <2>6. RequestOK(r, options.DisableFallback)
    <3>1. IsStale(r)
      <4>1. r.limit > 0 => r.videos # <<>>
        <5> SUFFICES ASSUME r.limit > 0, v = <<>> PROVE FALSE
          BY <2>3
        <5>1. m > 0 /\ m = 0
          BY <1>3, <2>1, <2>3
        <5> QED
          BY SMTT(30), <5>1
      <4> QED
        BY <2>1, <2>3, <4>1 DEF IsStale
    <3> QED
      BY <1>2, <2>3, <3>1, VideoRecAssumption DEF RequestOK, Before
  <2> QED
    BY <2>3, <2>4, <2>5, <2>6 DEF Sound, VideoInv
<1>4. CASE Len(cache.videos) = 0
  <2> DEFINE r == [request[q] EXCEPT !.pc = "return", !.answer = "error"]
  <2>1. request' = [request EXCEPT ![q] = r]
    BY <1>1, <1>4
  <2>2. /\ r \in Record(V) /\ r.pc = "return" /\ r.user = request[q].user
        /\ r.answer = "error" /\ r.gone = request[q].gone
    BY <1>2 DEF Record, After
  <2> HIDE DEF r
  <2>3. Moves(q) /\ request'[q] = r
    BY <1>1, <2>1, <2>2, RecordStep
  <2>4. Effect(q)
    <3>1. Steps(q, {"fallback"}, "return", "error")
      BY <2>2, <2>3 DEF Steps
    <3> QED
      BY <1>4, <3>1 DEF Effect
  <2>5. RequestOK(r, options.DisableFallback)
    BY <1>2, <2>2, VideoRecAssumption DEF RequestOK, Before
  <2> QED
    BY <2>2, <2>3, <2>4, <2>5 DEF Sound, VideoInv
<1> QED
  BY <1>3, <1>4

(* The fallback to the cached trending videos keeps it,                    *)
LEMMA FallBackStep ==
  ASSUME VideoInv, NEW q \in Requests, FallBack(q)
  PROVE  Sound(q) /\ request[q].pc = "fallback" /\ request'[q].pc = "return"
<1> DEFINE n == Len(cache.videos)
           limit == request[q].limit
           m == IF limit < n /\ limit > 0 THEN limit ELSE n
<1>1. limit \in Nat /\ n \in Nat
  BY SMTT(30) DEF VideoInv, RequestInv, Record, TrendingInv
<1>2. m \in 0..n /\ (n # 0 /\ limit > 0 => m > 0)
  BY SMTT(30), <1>1
<1>3. /\ request[q].pc = "fallback"
      /\ IF n # 0
         THEN /\ request' = [request EXCEPT ![q].pc = "return",
                   ![q].answer = "stale",
                   ![q].videos = SubSeq(cache.videos, 1, m)]
              /\ stats' = [stats EXCEPT !.stale = @ + 1]
         ELSE /\ request' = [request EXCEPT ![q].pc = "return",
                                            ![q].answer = "error"]
              /\ UNCHANGED stats
      /\ UNCHANGED <<options, now, cache, trending, load, rejected>>
  BY DEF FallBack
<1> HIDE DEF m
<1> QED
  BY <1>2, <1>3, CutOfCache

(* and so does the one that cuts them to the limit asked for.              *)
LEMMA FallBackToLimitStep ==
  ASSUME VideoInv, NEW q \in Requests, FallBackToLimit(q)
  PROVE  /\ Sound(q) /\ request[q].pc = "fallback"
         /\ request'[q].pc = "return" /\ UNCHANGED conns
<1> DEFINE n == Len(cache.videos)
           limit == request[q].limit
           m == IF limit < n THEN limit ELSE n
<1>1. limit \in Nat /\ n \in Nat
  BY SMTT(30) DEF VideoInv, RequestInv, Record, TrendingInv
<1>2. m \in 0..n /\ (n # 0 /\ limit > 0 => m > 0)
  BY SMTT(30), <1>1
<1>3. /\ request[q].pc = "fallback"
      /\ IF n # 0
         THEN /\ request' = [request EXCEPT ![q].pc = "return",
                   ![q].answer = "stale",
                   ![q].videos = SubSeq(cache.videos, 1, m)]
              /\ stats' = [stats EXCEPT !.stale = @ + 1]
         ELSE /\ request' = [request EXCEPT ![q].pc = "return",
                                            ![q].answer = "error"]
              /\ UNCHANGED stats
      /\ UNCHANGED <<options, now, cache, trending, load, rejected, conns>>
  BY DEF FallBackToLimit
<1> HIDE DEF m
<1> QED
  BY <1>2, <1>3, CutOfCache

-----------------------------------------------------------------------------
(***************************************************************************)
(* A sound step of a request keeps all but the connections.                *)
(***************************************************************************)
LEMMA SoundKeeps ==
  ASSUME VideoInv, NEW q \in Requests, Sound(q)
  PROVE  RequestInv' /\ TrendingInv' /\ ~rejected' /\ StatsInv'
<1>1. RequestInv'
  <2>1. options' \in [DisableFallback : BOOLEAN]
    BY DEF VideoInv, RequestInv, Sound
  <2>2. \E V : request' \in [Requests -> Record(V)]
    BY DEF Sound, Moves
  <2>3. ASSUME NEW p \in Requests
        PROVE  RequestOK(request'[p], options'.DisableFallback)
    <3>1. CASE p = q
      BY <3>1 DEF Sound
    <3>2. CASE p # q
      BY <3>2 DEF Sound, Moves, VideoInv, RequestInv
    <3> QED
      BY <3>1, <3>2
  <2> QED
    BY <2>1, <2>2, <2>3 DEF RequestInv, RequestOK, IsStale
<1>2. TrendingInv'
  BY DEF Sound, VideoInv, TrendingInv, IsFetched, WholeBatches
<1>3. StatsInv'
  BY EffectOnStats DEF Sound, VideoInv
<1> QED
  BY <1>1, <1>2, <1>3 DEF Sound

(***************************************************************************)
(* The connections a request has open, by where it is.                     *)
(***************************************************************************)
OpenAt(pc) ==
  IF pooled \/ pc \in {"new", "sent", "lost", "leave", "answered", "done"} THEN 0
  ELSE IF pc = "videos" THEN 2 ELSE 1

(* ConnectionsClosed by what each request and the refresh have open,       *)
LEMMA OpenConns ==
  ASSUME pooled \in BOOLEAN
  PROVE  ConnectionsClosed <=>
           /\ \A q \in Requests : conns[q] = OpenAt(request[q].pc)
           /\ conns[Refresh] = IF trending.pc = "check" THEN 0 ELSE 1
BY DEF ConnectionsClosed, OpenAt

(* and the same after a step.                                              *)
LEMMA OpenConnsNext ==
  ASSUME pooled' \in BOOLEAN, pooled' = pooled
  PROVE  ConnectionsClosed' <=>
           /\ \A q \in Requests : conns'[q] = OpenAt(request'[q].pc)
           /\ conns'[Refresh] = IF trending'.pc = "check" THEN 0 ELSE 1
BY DEF ConnectionsClosed, OpenAt

(* A step that changes the connections of the request that moves,          *)
LEMMA ConnsMove ==
  ASSUME VideoInv, NEW q \in Requests, Sound(q), pooled' = pooled,
         NEW n \in Int, conns' = [conns EXCEPT ![q] = n],
         n = OpenAt(request'[q].pc)
  PROVE  VideoInv'
<1>1. RequestInv' /\ TrendingInv' /\ ~rejected' /\ StatsInv'
  BY SoundKeeps
<1>2. /\ conns \in [Requests \cup {Refresh} -> Int] /\ pooled \in BOOLEAN
      /\ \A p \in Requests : conns[p] = OpenAt(request[p].pc)
      /\ conns[Refresh] = IF trending.pc = "check" THEN 0 ELSE 1
  BY OpenConns DEF VideoInv, ConnInv
<1>3. Refresh # q /\ trending' = trending
  BY DialAssumption DEF Sound
<1>4. conns' \in [Requests \cup {Refresh} -> Int] /\ conns'[Refresh] = conns[Refresh]
  BY <1>2, <1>3
<1>5. ASSUME NEW p \in Requests PROVE conns'[p] = OpenAt(request'[p].pc)
  <2>1. CASE p = q
    BY <1>2, <2>1
  <2>2. CASE p # q
    <3>1. request'[p] = request[p] /\ conns'[p] = conns[p]
      BY <1>2, <2>2 DEF Sound, Moves
    <3> QED
      BY <1>2, <3>1
  <2> QED
    BY <2>1, <2>2
<1>6. ConnectionsClosed'
  <2>1. conns'[Refresh] = IF trending'.pc = "check" THEN 0 ELSE 1
    BY <1>2, <1>3, <1>4
  <2> QED
    BY <1>2, <1>5, <2>1, OpenConnsNext
<1>7. ConnInv'
  BY <1>2, <1>3, <1>4, <1>6 DEF ConnInv
<1> QED
  BY <1>1, <1>7 DEF VideoInv

(* and a step that leaves all connections as they are.                     *)
LEMMA ConnsStay ==
  ASSUME VideoInv, NEW q \in Requests, Sound(q), pooled' = pooled,
         conns' = conns, OpenAt(request'[q].pc) = OpenAt(request[q].pc)
  PROVE  VideoInv'
<1>1. /\ conns \in [Requests \cup {Refresh} -> Int]
      /\ conns[q] = OpenAt(request[q].pc)
  BY OpenConns DEF VideoInv, ConnInv
<1>2. conns' = [conns EXCEPT ![q] = conns[q]] /\ conns[q] \in Int
  BY <1>1
<1> QED
  BY <1>1, <1>2, ConnsMove

(***************************************************************************)
(* With the pool a request has no connection of its own; without it every  *)
(* step that dials or closes goes where the number of them says.           *)
(***************************************************************************)
LEMMA ServeStep ==
  ASSUME VideoInv, NEW q \in Requests, ServeEither(q)
  PROVE  VideoInv'
<1>1. /\ conns \in [Requests \cup {Refresh} -> Int] /\ pooled \in BOOLEAN
      /\ conns[q] = OpenAt(request[q].pc) /\ pooled' = pooled
  BY OpenConns DEF VideoInv, ConnInv, ServeEither
<1>2. CASE pooled /\ Serve(q) /\ UNCHANGED conns
  <2>1. Sound(q)
    BY Zenon, <1>2, EnterStep, FirstUserRequestStep, SecondUserRequestStep,
       DeduplicateStep, FetchVideosStep, RankVideosStep, ReturnErrorStep,
       FallBackStep, CountRequestStep, LeaveStep DEF Serve
  <2>2. OpenAt(request'[q].pc) = OpenAt(request[q].pc)
    BY <1>2 DEF OpenAt
  <2> QED
    BY <1>1, <1>2, <2>1, <2>2, ConnsStay
<1>3. CASE ~pooled /\ ServeDialed(q)
  <2>1. CASE DialUser(q)
    <3>1. Sound(q) /\ request[q].pc = "sent" /\ request'[q].pc = "user"
      BY <2>1, EnterStep DEF DialUser
    <3>2. conns' = [conns EXCEPT ![q] = conns[q] + 1]
      BY <2>1 DEF DialUser, Dial
    <3>3. conns[q] + 1 = OpenAt(request'[q].pc) /\ conns[q] + 1 \in Int
      BY SMTT(30), <1>1, <1>3, <3>1 DEF OpenAt
    <3> QED
      BY <1>1, <3>1, <3>2, <3>3, ConnsMove
  <2>2. CASE FirstUserCall(q)
    <3>1. /\ Sound(q) /\ request[q].pc = "user"
          /\ request'[q].pc \in {"subscribed"} \cup Failing /\ conns' = conns
      BY <2>2, FirstUserRequestStep DEF FirstUserCall
    <3>2. OpenAt(request'[q].pc) = OpenAt(request[q].pc)
      BY <1>3, <3>1 DEF OpenAt, Failing
    <3> QED
      BY <1>1, <3>1, <3>2, ConnsStay
  <2>3. CASE SecondUserCall(q)
    <3>1. /\ Sound(q) /\ request[q].pc = "subscribed"
          /\ request'[q].pc \in {"subscribed"} \cup Failing /\ conns' = conns
      BY <2>3, SecondUserRequestStep DEF SecondUserCall
    <3>2. OpenAt(request'[q].pc) = OpenAt(request[q].pc)
      BY <1>3, <3>1 DEF OpenAt, Failing
    <3> QED
      BY <1>1, <3>1, <3>2, ConnsStay
  <2>4. CASE DialVideo(q)
    <3>1. Sound(q) /\ request[q].pc = "subscribed" /\ request'[q].pc = "videos"
      BY <2>4, DeduplicateStep DEF DialVideo
    <3>2. conns' = [conns EXCEPT ![q] = conns[q] + 1]
      BY <2>4 DEF DialVideo, Dial
    <3>3. conns[q] + 1 = OpenAt(request'[q].pc) /\ conns[q] + 1 \in Int
      BY SMTT(30), <1>1, <1>3, <3>1 DEF OpenAt
    <3> QED
      BY Zenon, <1>1, <3>1, <3>2, <3>3, ConnsMove
  <2>5. CASE VideoCall(q)
    <3>1. /\ Sound(q) /\ request[q].pc = "videos"
          /\ request'[q].pc \in {"videos"} \cup Failing
      BY <2>5, FetchVideosStep DEF VideoCall
    <3>2. CASE request'[q].pc = "videos"
      <4>1. conns' = conns
        BY <2>5, <3>2 DEF VideoCall
      <4> QED
        BY <1>1, <3>1, <3>2, <4>1, ConnsStay
    <3>3. CASE request'[q].pc # "videos"
      <4>1. conns' = [conns EXCEPT ![q] = conns[q] - 1]
        BY <2>5, <3>3 DEF VideoCall, Close
      <4>2. conns[q] - 1 = OpenAt(request'[q].pc) /\ conns[q] - 1 \in Int
        BY SMTT(30), <1>1, <1>3, <3>1, <3>3 DEF OpenAt, Failing
      <4> QED
        BY <1>1, <3>1, <4>1, <4>2, ConnsMove
    <3> QED
      BY <3>2, <3>3
  <2>6. CASE RankFetched(q)
    <3>1. Sound(q) /\ request[q].pc = "videos" /\ request'[q].pc = "return"
      BY <2>6, RankVideosStep DEF RankFetched
    <3>2. conns' = [conns EXCEPT ![q] = conns[q] - 1]
      BY <2>6 DEF RankFetched, Close
    <3>3. conns[q] - 1 = OpenAt(request'[q].pc) /\ conns[q] - 1 \in Int
      BY SMTT(30), <1>1, <1>3, <3>1 DEF OpenAt
    <3> QED
      BY <1>1, <3>1, <3>2, <3>3, ConnsMove
  <2>7. CASE ErrorReturned(q)
    <3>1. /\ Sound(q) /\ request[q].pc = "error"
          /\ request'[q].pc = "return" /\ conns' = conns
      BY <2>7, ReturnErrorStep DEF ErrorReturned
    <3>2. OpenAt(request'[q].pc) = OpenAt(request[q].pc)
      BY <1>3, <3>1 DEF OpenAt
    <3> QED
      BY <1>1, <3>1, <3>2, ConnsStay
  <2>8. CASE FallBackToLimit(q)
    <3>1. /\ Sound(q) /\ request[q].pc = "fallback"
          /\ request'[q].pc = "return" /\ conns' = conns
      BY <2>8, FallBackToLimitStep
    <3>2. OpenAt(request'[q].pc) = OpenAt(request[q].pc)
      BY <1>3, <3>1 DEF OpenAt
    <3> QED
      BY <1>1, <3>1, <3>2, ConnsStay
  <2>9. CASE CloseUser(q)
    <3>1. Sound(q) /\ request[q].pc = "return" /\ request'[q].pc = "leave"
      BY <2>9, CountRequestStep DEF CloseUser
    <3>2. conns' = [conns EXCEPT ![q] = conns[q] - 1]
      BY <2>9 DEF CloseUser, Close
    <3>3. conns[q] - 1 = OpenAt(request'[q].pc) /\ conns[q] - 1 \in Int
      BY SMTT(30), <1>1, <1>3, <3>1 DEF OpenAt
    <3> QED
      BY <1>1, <3>1, <3>2, <3>3, ConnsMove
  <2>10. CASE LeaveDialed(q)
    <3>1. /\ Sound(q) /\ request[q].pc = "leave"
          /\ request'[q].pc = "answered" /\ conns' = conns
      BY <2>10, LeaveStep DEF LeaveDialed
    <3>2. OpenAt(request'[q].pc) = OpenAt(request[q].pc)
      BY <1>3, <3>1 DEF OpenAt
    <3> QED
      BY <1>1, <3>1, <3>2, ConnsStay
  <2> QED
    BY SMTT(30), <1>3, <2>1, <2>2, <2>3, <2>4, <2>5, <2>6, <2>7, <2>8, <2>9, <2>10
       DEF ServeDialed
<1> QED
  BY <1>2, <1>3 DEF ServeEither

(* The steps of the load tester change no connection.                      *)
LEMMA LoadStep ==
  ASSUME VideoInv, NEW q \in Requests,
         \/ \E c \in Calls[q] : SendRequest(q, c)
         \/ GiveUp(q) \/ Receive(q),
         UNCHANGED <<pooled, conns>>
  PROVE  VideoInv'
<1>1. CASE \E c \in Calls[q] : SendRequest(q, c)
  <2>1. PICK c \in Calls[q] : SendRequest(q, c)
    BY <1>1
  <2>2. Sound(q)
    BY <2>1, SendRequestStep
  <2>3. request[q].pc = "new" /\ request'[q].pc = "sent"
    BY <2>1 DEF SendRequest, VideoInv, RequestInv, Record
  <2>4. OpenAt(request'[q].pc) = OpenAt(request[q].pc)
    BY <2>3 DEF OpenAt
  <2> QED
    BY <2>2, <2>4, ConnsStay
<1>2. CASE Receive(q)
  <2>1. /\ Sound(q) /\ request[q].pc = "answered" /\ request'[q].pc = "done"
    BY <1>2, ReceiveStep
  <2>2. OpenAt(request'[q].pc) = OpenAt(request[q].pc)
    BY <2>1 DEF OpenAt
  <2> QED
    BY <2>1, <2>2, ConnsStay
<1>3. CASE GiveUp(q)
  <2>1. /\ Sound(q)
        /\ \/ request'[q].pc = request[q].pc
           \/ request[q].pc = "sent" /\ request'[q].pc = "lost"
    BY <1>3, GiveUpStep
  <2>2. OpenAt(request'[q].pc) = OpenAt(request[q].pc)
    BY <2>1 DEF OpenAt
  <2> QED
    BY <2>1, <2>2, ConnsStay
<1> QED
  BY <1>1, <1>2, <1>3

-----------------------------------------------------------------------------
(***************************************************************************)
(* The refresh of the cache leaves the requests and the counters alone.    *)
(***************************************************************************)
LEMMA RequestsKept ==
  ASSUME VideoInv, UNCHANGED <<options, request, stats, load>>
  PROVE  RequestInv' /\ StatsInv'
<1>1. RequestInv'
  BY DEF VideoInv, RequestInv
<1>2. StatsInv'
  BY DEF VideoInv, StatsInv, With, Answers, StaleDone, Heard
<1> QED
  BY <1>1, <1>2

(***************************************************************************)
(* The connection of the refresh is the only one it dials or closes.       *)
(***************************************************************************)
LEMMA RefreshConns ==
  ASSUME VideoInv, NEW n \in {0, 1}, conns' = [conns EXCEPT ![Refresh] = n],
         UNCHANGED <<pooled, request>>, TrendingInv',
         n = IF trending'.pc = "check" THEN 0 ELSE 1
  PROVE  ConnInv'
<1>1. /\ conns \in [Requests \cup {Refresh} -> Int] /\ pooled \in BOOLEAN
      /\ \A p \in Requests : conns[p] = OpenAt(request[p].pc)
  BY OpenConns DEF VideoInv, ConnInv
<1>2. conns' \in [Requests \cup {Refresh} -> Int] /\ conns'[Refresh] = n
  BY SMTT(30), <1>1
<1>3. \A p \in Requests : conns'[p] = OpenAt(request'[p].pc)
  <2> TAKE p \in Requests
  <2>1. p # Refresh
    BY DialAssumption
  <2> QED
    BY <1>1, <2>1
<1>4. ConnectionsClosed'
  <2>1. conns'[Refresh] = IF trending'.pc = "check" THEN 0 ELSE 1
    BY <1>2
  <2> QED
    BY <1>1, <1>3, <2>1, OpenConnsNext
<1> QED
  BY <1>1, <1>2, <1>4 DEF ConnInv

(* A refresh that has fetched nothing is a refresh.                        *)
LEMMA FetchedNothing ==
  /\ IsFetched(NoRefresh)
  /\ NoRefresh.pc = "check" /\ NoRefresh.expire = 0 /\ NoRefresh.offset = 0
  /\ NoRefresh.videos = <<>>
<1>1. topVideos \in Seq(Videos) /\ Len(topVideos) \in Nat
  BY SMTT(30), VideoRecAssumption DEF MakeRandomVideos
<1>2. /\ NoRefresh.offset = 0 /\ NoRefresh.videos = <<>>
      /\ NoRefresh.pc = "check" /\ NoRefresh.expire = 0
  BY DEF NoRefresh
<1>3. <<>> \in Seq(Videos) /\ Len(<<>>) = 0
  BY SMTT(30)
<1>4. IsPrefix(<<>>, topVideos)
  <2>1. PICK z \in Seq(Videos) : z = <<>> /\ Len(z) = 0
    BY <1>3
  <2>2. Len(z) <= Len(topVideos) /\ \A i \in 1..Len(z) : z[i] = topVideos[i]
    BY SMTT(30), <1>1, <2>1
  <2> QED
    BY <2>1, <2>2, PrefixElements
<1>5. 0 = 0 * MaxBatchSize
  BY SMTT(30), VideoRecAssumption
<1> QED
  BY SMTT(30), <1>1, <1>2, <1>3, <1>4, <1>5 DEF IsFetched

(* The start of a refresh keeps the invariant,                             *)
LEMMA RefreshBeginsStep ==
  ASSUME VideoInv, RefreshBegins, UNCHANGED pooled
  PROVE  VideoInv'
<1>1. /\ trending = NoRefresh /\ cache' = cache /\ now' = now
      /\ rejected' = rejected /\ UNCHANGED <<options, request, stats, load>>
  BY DEF RefreshBegins, FetchTrending, VideoInv, TrendingInv
<1>2. PICK x \in GetTrendingVideos :
        trending' = [trending EXCEPT
            !.pc = CASE x = "ok" -> "fetch" [] x = "error" -> "sleep"
                     [] x = "omitted" -> "stuck",
            !.expire = IF x = "ok" THEN now + TtlSeconds ELSE 0]
  BY DEF RefreshBegins, FetchTrending
<1>3. x \in {"ok", "error", "omitted"}
  BY SMTT(30) DEF GetTrendingVideos, MaybeInject
<1> DEFINE e == IF x = "ok" THEN now + TtlSeconds ELSE 0
           p == CASE x = "ok" -> "fetch" [] x = "error" -> "sleep"
                  [] x = "omitted" -> "stuck"
<1>4. p \in {"sleep", "fetch", "stuck"}
  BY <1>3
<1>5. e \in Nat
  BY SMTT(30), VideoRecAssumption DEF VideoInv, TrendingInv
<1>6. trending' = [NoRefresh EXCEPT !.pc = p, !.expire = e]
  BY <1>1, <1>2
<1> HIDE DEF e, p
<1>7. /\ trending'.pc = p /\ trending'.offset = 0 /\ trending'.videos = <<>>
      /\ trending' \in [pc : Places,
                        offset : Nat, videos : Seq(Videos), expire : Nat]
      /\ p # "check"
  <2>1. <<>> \in Seq(Videos)
    BY SMTT(30)
  <2>2. trending' = [pc |-> p, offset |-> 0, videos |-> <<>>, expire |-> e]
    BY <1>6 DEF NoRefresh
  <2> QED
    BY <1>4, <1>5, <2>1, <2>2
<1>8. IsFetched(trending')
  BY <1>7, FetchedNothing DEF IsFetched
<1>9. TrendingInv'
  BY <1>1, <1>7, <1>8 DEF VideoInv, TrendingInv, IsFetched, WholeBatches
<1>10. ConnInv'
  <2>1. conns[Refresh] = 0 /\ conns \in [Requests \cup {Refresh} -> Int]
    BY <1>1, FetchedNothing DEF VideoInv, ConnInv, ConnectionsClosed
  <2>2. conns' = [conns EXCEPT ![Refresh] = 1]
    BY SMTT(30), <2>1 DEF RefreshBegins, Dial
  <2> QED
    BY <1>1, <1>7, <1>9, <2>2, RefreshConns
<1> QED
  BY <1>1, <1>9, <1>10, RequestsKept DEF VideoInv

(* and the end of one whose call for the trending videos has failed.       *)
LEMMA RefreshFailsStep ==
  ASSUME VideoInv, RefreshFails, UNCHANGED pooled
  PROVE  VideoInv'
<1>1. /\ trending.pc = "sleep" /\ trending' = NoRefresh
      /\ cache' = cache /\ now' = now /\ rejected' = rejected
      /\ UNCHANGED <<options, request, stats, load>>
      /\ conns' = [conns EXCEPT ![Refresh] = conns[Refresh] - 1]
  BY DEF RefreshFails, TrendingFailed, Close
<1>2. NoRefresh \in [pc : Places, offset : Nat,
                     videos : Seq(Videos), expire : Nat]
  <2>1. <<>> \in Seq(Videos)
    BY SMTT(30)
  <2> QED
    BY <2>1 DEF NoRefresh
<1>3. TrendingInv'
  <2>1. IsFetched(trending')
    BY <1>1, FetchedNothing
  <2> QED
    BY <1>1, <1>2, <2>1 DEF VideoInv, TrendingInv, IsFetched, WholeBatches
<1>4. ConnInv'
  <2>1. conns[Refresh] = 1
    BY <1>1 DEF VideoInv, ConnInv, ConnectionsClosed
  <2>2. conns' = [conns EXCEPT ![Refresh] = 0]
    BY SMTT(30), <1>1, <2>1
  <2>3. trending'.pc = "check"
    BY <1>1, FetchedNothing
  <2> QED
    BY <1>1, <1>3, <2>2, <2>3, RefreshConns
<1> QED
  BY <1>1, <1>3, <1>4, RequestsKept DEF VideoInv

(***************************************************************************)
(* A batch that is added to what was fetched: the trending videos up to    *)
(* the end of the batch.                                                   *)
(***************************************************************************)
LEMMA BatchFetched ==
  ASSUME NEW t, IsFetched(t), t.offset \in Nat, t.offset < Len(topVideos),
         NEW u, u.offset = t.offset + MaxBatchSize,
         u.videos = t.videos \o Batch(topVideos, t.offset)
  PROVE  IsFetched(u)
<1> DEFINE o == t.offset
           b == Batch(topVideos, o)
           e == IF o + MaxBatchSize < Len(topVideos) THEN o + MaxBatchSize
                ELSE Len(topVideos)
<1>1. /\ topVideos \in Seq(Videos) /\ Len(topVideos) \in Nat
      /\ MaxBatchSize \in Nat \ {0}
  BY SMTT(30), VideoRecAssumption DEF MakeRandomVideos
<1>2. /\ b \in Seq(Videos) /\ Len(b) = e - o
      /\ \A i \in 1..e - o : b[i] = topVideos[o + i]
  <2>1. o \in Nat /\ o < Len(topVideos)
    OBVIOUS
  <2> HIDE DEF o
  <2> QED
    BY SMTT(30), <1>1, <2>1, BatchFacts
<1>3. /\ t.videos \in Seq(Videos) /\ Len(t.videos) = o
      /\ \A i \in 1..o : t.videos[i] = topVideos[i]
  BY <1>1, PrefixElements DEF IsFetched
<1>4. e \in Nat /\ o < e /\ e <= Len(topVideos)
  BY SMTT(30), <1>1
<1> HIDE DEF b, o, e
<1>5. u.videos = t.videos \o b
  BY DEF b, o
<1>6. /\ u.videos \in Seq(Videos) /\ Len(u.videos) = e
      /\ \A i \in 1..e : u.videos[i] =
           IF i <= o THEN t.videos[i] ELSE b[i - o]
  <2>1. o \in Nat
    BY DEF o
  <2>2. u.videos \in Seq(Videos) /\ Len(u.videos) = o + (e - o)
    <3>1. t.videos \in Seq(Videos) /\ b \in Seq(Videos)
      BY <1>2, <1>3
    <3>2. /\ t.videos \o b \in Seq(Videos)
          /\ Len(t.videos \o b) = Len(t.videos) + Len(b)
      BY <3>1, ConcatProperties
    <3> QED
      BY <1>2, <1>3, <1>5, <3>2
  <2>3. o + (e - o) = e
    BY SMTT(30), <1>4, <2>1
  <2> QED
    BY SMTT(30), <1>2, <1>3, <1>4, <1>5, <2>1, <2>2, <2>3
<1>7. \A i \in 1..e : u.videos[i] = topVideos[i]
  <2> TAKE i \in 1..e
  <2>1. o \in Nat /\ e \in Nat /\ i \in Nat
    BY SMTT(30), <1>4 DEF o
  <2>2. CASE i <= o
    <3>1. i \in 1..o
      BY SMTT(30), <2>1, <2>2
    <3>2. u.videos[i] = t.videos[i]
      BY <1>6, <2>2
    <3> QED
      BY <1>3, <3>1, <3>2
  <2>3. CASE ~(i <= o)
    <3>1. i - o \in 1..e - o /\ o + (i - o) = i
      BY SMTT(30), <2>1, <2>3
    <3>2. u.videos[i] = b[i - o]
      BY <1>6, <2>3
    <3>3. b[i - o] = topVideos[o + (i - o)]
      BY <1>2, <3>1
    <3> QED
      BY <3>1, <3>2, <3>3
  <2> QED
    BY <2>2, <2>3
<1>8. IsPrefix(u.videos, topVideos)
  BY <1>4, <1>6, <1>7, PrefixElements
<1>9. \E n \in Nat : u.offset = n * MaxBatchSize
  <2>1. PICK n \in Nat : t.offset = n * MaxBatchSize
    BY DEF IsFetched
  <2>2. (n + 1) * MaxBatchSize = n * MaxBatchSize + MaxBatchSize
    BY SMTT(30), <1>1
  <2> QED
    BY SMTT(30), <2>1, <2>2
<1>10. e = IF u.offset < Len(topVideos) THEN u.offset ELSE Len(topVideos)
  BY DEF e, o
<1> QED
  BY <1>6, <1>8, <1>9, <1>10 DEF IsFetched

(* so does a batch of it,                                                  *)
LEMMA RefreshBatchStep ==
  ASSUME VideoInv, RefreshBatch, UNCHANGED pooled
  PROVE  VideoInv'
<1> DEFINE batch == Batch(topVideos, trending.offset)
<1>1. /\ trending.pc = "fetch" /\ trending.offset < Len(topVideos)
      /\ cache' = cache /\ now' = now /\ conns' = conns
      /\ UNCHANGED <<options, request, stats, load>>
  BY DEF RefreshBatch, FetchTrendingBatch
<1>2. PICK x \in GetVideo(batch) :
        /\ trending' = CASE x = "ok" -> [trending EXCEPT
                              !.offset = @ + MaxBatchSize,
                              !.videos = @ \o batch]
                         [] x = "omitted" -> [NoRefresh EXCEPT !.pc = "stuck"]
                         [] OTHER -> [trending EXCEPT !.pc = "lock"]
        /\ rejected' = (rejected \/ x = "invalid")
  BY DEF RefreshBatch, FetchTrendingBatch
<1>3. /\ topVideos \in Seq(Videos) /\ IsInjective(topVideos)
      /\ MaxBatchSize \in Nat \ {0}
  BY VideoRecAssumption DEF MakeRandomVideos
<1>4. /\ trending \in [pc : Places, offset : Nat,
                       videos : Seq(Videos), expire : Nat]
      /\ IsFetched(trending) /\ trending.offset \in Nat
  BY DEF VideoInv, TrendingInv
<1>5. /\ batch \in Seq(Videos) /\ batch # <<>> /\ Len(batch) <= MaxBatchSize
      /\ Range(batch) \subseteq Videos /\ IsInjective(batch)
  BY SMTT(30), <1>1, <1>3, <1>4, BatchFacts
<1> HIDE DEF batch
<1>6. x \in {"ok", "error", "omitted"}
  BY <1>2, <1>5, GetVideoAnswers
<1>7. ~rejected'
  BY <1>2, <1>6 DEF VideoInv
<1>8. /\ trending' \in [pc : {"fetch", "lock", "stuck"}, offset : Nat,
                        videos : Seq(Videos), expire : Nat]
      /\ IsFetched(trending')
  <2>1. CASE x = "ok"
    <3> DEFINE o == trending.offset + MaxBatchSize
               v == trending.videos \o batch
    <3>1. o \in Nat /\ v \in Seq(Videos)
      BY SMTT(30), <1>3, <1>4, <1>5, ConcatProperties
    <3>2. trending' = [trending EXCEPT !.offset = o, !.videos = v]
      BY <1>2, <2>1
    <3> HIDE DEF o, v
    <3>3. /\ trending' \in [pc : {"fetch", "lock", "stuck"}, offset : Nat,
                            videos : Seq(Videos), expire : Nat]
          /\ trending'.offset = o /\ trending'.videos = v
      BY <1>1, <1>4, <3>1, <3>2
    <3>4. IsFetched(trending')
      BY Zenon, <1>1, <1>4, <3>3, BatchFetched DEF o, v, batch
    <3> QED
      BY <3>3, <3>4
  <2>2. CASE x = "omitted"
    <3>1. trending' = [pc |-> "stuck", offset |-> 0, videos |-> <<>>,
                       expire |-> 0]
      BY <1>2, <2>2 DEF NoRefresh
    <3>2. <<>> \in Seq(Videos)
      BY SMTT(30)
    <3>3. IsFetched(trending')
      BY <3>1, FetchedNothing DEF IsFetched
    <3> QED
      BY <3>1, <3>2, <3>3
  <2>3. CASE x = "error"
    <3>1. trending' = [trending EXCEPT !.pc = "lock"]
      BY <1>2, <2>3
    <3>2. /\ trending' \in [pc : {"fetch", "lock", "stuck"}, offset : Nat,
                            videos : Seq(Videos), expire : Nat]
          /\ trending'.offset = trending.offset
          /\ trending'.videos = trending.videos
      BY <1>4, <3>1
    <3> QED
      BY <1>4, <3>2 DEF IsFetched
  <2> QED
    BY <1>6, <2>1, <2>2, <2>3
<1>9. TrendingInv'
  <2>1. /\ trending' \in [pc : Places,
                          offset : Nat, videos : Seq(Videos), expire : Nat]
        /\ trending'.pc \in {"fetch", "lock", "stuck"}
    BY <1>8
  <2> QED
    BY <1>1, <1>8, <2>1 DEF VideoInv, TrendingInv, IsFetched, WholeBatches
<1>10. ConnInv'
  <2>1. conns[Refresh] = 1 /\ conns \in [Requests \cup {Refresh} -> Int]
    BY <1>1 DEF VideoInv, ConnInv, ConnectionsClosed
  <2>2. conns' = [conns EXCEPT ![Refresh] = 1]
    BY <1>1, <2>1
  <2>3. trending'.pc # "check"
    BY <1>8
  <2> QED
    BY Zenon, <1>1, <1>9, <2>2, <2>3, RefreshConns
<1> QED
  BY <1>1, <1>7, <1>9, <1>10, RequestsKept DEF VideoInv

(* its being complete,                                                     *)
LEMMA RefreshFetchedStep ==
  ASSUME VideoInv, RefreshFetched, UNCHANGED pooled
  PROVE  VideoInv'
<1>1. /\ trending.pc = "fetch" /\ trending' = [trending EXCEPT !.pc = "lock"]
      /\ cache' = cache /\ now' = now /\ conns' = conns /\ rejected' = rejected
      /\ UNCHANGED <<options, request, stats, load>>
  BY DEF RefreshFetched, TrendingFetched
<1>2. /\ trending \in [pc : Places, offset : Nat,
                       videos : Seq(Videos), expire : Nat]
      /\ IsFetched(trending)
  BY DEF VideoInv, TrendingInv
<1>3. /\ trending' \in [pc : Places, offset : Nat,
                        videos : Seq(Videos), expire : Nat]
      /\ trending'.pc = "lock" /\ trending'.offset = trending.offset
      /\ trending'.videos = trending.videos
  BY <1>1, <1>2
<1>4. IsFetched(trending')
  BY <1>2, <1>3 DEF IsFetched
<1>5. TrendingInv'
  BY <1>1, <1>3, <1>4 DEF VideoInv, TrendingInv, IsFetched, WholeBatches
<1>6. ConnInv'
  <2>1. conns[Refresh] = 1 /\ conns \in [Requests \cup {Refresh} -> Int]
    BY <1>1 DEF VideoInv, ConnInv, ConnectionsClosed
  <2>2. conns' = [conns EXCEPT ![Refresh] = 1]
    BY <1>1, <2>1
  <2> QED
    BY Zenon, <1>1, <1>3, <1>5, <2>2, RefreshConns
<1> QED
  BY <1>1, <1>5, <1>6, RequestsKept DEF VideoInv

(* and the end of it, which replaces the cache or does not.                *)
LEMMA RefreshEndsStep ==
  ASSUME VideoInv, RefreshEnds, UNCHANGED pooled
  PROVE  VideoInv'
<1>1. /\ trending.pc = "lock" /\ trending' = NoRefresh
      /\ cache' = [videos |-> trending.videos, expire |-> trending.expire]
      /\ now' = now /\ rejected' = rejected
      /\ UNCHANGED <<options, request, stats, load>>
      /\ conns' = [conns EXCEPT ![Refresh] = conns[Refresh] - 1]
  BY DEF RefreshEnds, UpdateCache, Close
<1>2. /\ trending \in [pc : Places, offset : Nat,
                       videos : Seq(Videos), expire : Nat]
      /\ IsFetched(trending)
  BY DEF VideoInv, TrendingInv
<1>3. WholeBatches(trending.videos)
  <2>1. PICK n \in Nat : trending.offset = n * MaxBatchSize
    BY <1>2 DEF IsFetched
  <2>2. (n * MaxBatchSize) % MaxBatchSize = 0
    BY SMTT(30), VideoRecAssumption
  <2> QED
    BY <1>2, <2>1, <2>2 DEF IsFetched, WholeBatches
<1>4. /\ cache' \in [videos : Seq(Videos), expire : Nat]
      /\ cache'.videos = trending.videos
  BY <1>1, <1>2
<1>5. NoRefresh \in [pc : Places, offset : Nat,
                     videos : Seq(Videos), expire : Nat]
  <2>1. <<>> \in Seq(Videos)
    BY SMTT(30)
  <2> QED
    BY <2>1 DEF NoRefresh
<1>6. TrendingInv'
  <2>1. IsFetched(trending')
    BY <1>1, FetchedNothing
  <2>2. WholeBatches(cache'.videos)
    BY <1>3, <1>4
  <2>3. now' \in Nat
    BY <1>1 DEF VideoInv, TrendingInv
  <2> QED
    BY <1>1, <1>4, <1>5, <2>1, <2>2, <2>3
       DEF TrendingInv, IsFetched, WholeBatches
<1>7. ConnInv'
  <2>1. conns[Refresh] = 1
    BY <1>1 DEF VideoInv, ConnInv, ConnectionsClosed
  <2>2. conns' = [conns EXCEPT ![Refresh] = 0]
    BY SMTT(30), <1>1, <2>1
  <2>3. trending'.pc = "check"
    BY <1>1, FetchedNothing
  <2> QED
    BY <1>1, <1>6, <2>2, <2>3, RefreshConns
<1> QED
  BY <1>1, <1>6, <1>7, RequestsKept DEF VideoInv

-----------------------------------------------------------------------------
(***************************************************************************)
(* Before the first request nothing is counted, fetched or open.           *)
(***************************************************************************)
LEMMA VideoInvInit == DialInit => VideoInv
<1> SUFFICES ASSUME DialInit PROVE VideoInv
  OBVIOUS
<1> USE DEF DialInit, VideoInit
<1>1. /\ \A q \in Requests : /\ request[q].pc = "new"
                             /\ request[q].answer = None
                             /\ ~request[q].gone
      /\ request \in [Requests -> Record({<<>>})]
  <2>1. <<>> \in Seq(Videos)
    BY SMTT(30)
  <2> QED
    BY <2>1 DEF Record, Before
<1>2. RequestInv
  <2>1. options \in [DisableFallback : BOOLEAN]
    OBVIOUS
  <2>2. ASSUME NEW q \in Requests
        PROVE  RequestOK(request[q], options.DisableFallback)
    BY <1>1, VideoRecAssumption DEF RequestOK, Before
  <2> QED
    BY <1>1, <2>1, <2>2 DEF RequestInv
<1>3. /\ cache.videos = <<>> /\ trending = NoRefresh
      /\ cache \in [videos : Seq(Videos), expire : Nat]
  <2>1. <<>> \in Seq(Videos)
    BY SMTT(30)
  <2> QED
    BY <2>1
<1>4. TrendingInv
  <2>1. NoRefresh \in [pc : Places, offset : Nat,
                       videos : Seq(Videos), expire : Nat]
    <3>1. <<>> \in Seq(Videos)
      BY SMTT(30)
    <3> QED
      BY <3>1 DEF NoRefresh
  <2>2. IsPrefix(<<>>, topVideos)
    BY FetchedNothing DEF IsFetched
  <2>3. <<>> \in Seq(Videos) /\ Len(<<>>) = 0
    BY SMTT(30)
  <2>4. 0 % MaxBatchSize = 0
    BY SMTT(30), VideoRecAssumption
  <2>5. WholeBatches(cache.videos)
    BY <1>3, <2>2, <2>3, <2>4 DEF WholeBatches
  <2>6. now \in Nat
    OBVIOUS
  <2> QED
    BY <1>3, <2>1, <2>5, <2>6, FetchedNothing DEF TrendingInv
<1>5. StatsInv
  <2>1. /\ {q \in Requests : request[q].pc \in Inside} = {}
        /\ {q \in Requests : request[q].pc \in Counted} = {}
        /\ {q \in Requests : request[q].pc \in Failing} = {}
        /\ {q \in Requests : request[q].pc \in {"done"}} = {}
        /\ {q \in Requests : request[q].pc \in Sent} = {}
        /\ {q \in Requests : request[q].gone \/ request[q].pc = "done"} = {}
    BY <1>1 DEF Inside, Counted, Failing, Sent
  <2>2. /\ {q \in Requests : request[q].answer = "stale"} = {}
        /\ {q \in Requests : request[q].answer = "error"} = {}
        /\ {q \in Requests : request[q].answer = "stale"
                             /\ request[q].pc = "done"} = {}
    BY <1>1, VideoRecAssumption
  <2>3. /\ With(Inside) = 0 /\ With(Counted) = 0 /\ With(Failing) = 0
        /\ With({"done"}) = 0 /\ Answers("stale") = 0 /\ Answers("error") = 0
        /\ StaleDone = 0 /\ With(Sent) = 0 /\ Heard = 0
    BY <2>1, <2>2, FS_EmptySet DEF With, Answers, StaleDone, Heard
  <2> QED
    BY SMTT(30), <2>3 DEF StatsInv
<1>6. ConnInv
  <2>1. /\ conns \in [Requests \cup {Refresh} -> Int]
        /\ \A o \in Requests \cup {Refresh} : conns[o] = 0
    BY SMTT(30)
  <2>2. \A q \in Requests : conns[q] = OpenAt(request[q].pc)
    BY <1>1, <2>1 DEF OpenAt
  <2>3. pooled \in BOOLEAN /\ conns[Refresh] = 0
    BY <2>1
  <2>4. trending.pc = "check"
    BY <1>3, FetchedNothing
  <2>5. ConnectionsClosed
    BY <2>2, <2>3, <2>4, OpenConns
  <2> QED
    BY <2>1, <2>3, <2>5 DEF ConnInv
<1> QED
  BY <1>2, <1>4, <1>5, <1>6 DEF VideoInv

(***************************************************************************)
(* The clock, the injected failures and a step of nobody.                  *)
(***************************************************************************)
LEMMA OtherSteps ==
  ASSUME VideoInv,
         UNCHANGED <<options, request, stats, cache, trending, load, rejected,
                     pooled, conns>>,
         now' \in Nat
  PROVE  VideoInv'
<1>1. RequestInv' /\ StatsInv'
  BY RequestsKept
<1>2. TrendingInv'
  BY DEF VideoInv, TrendingInv, IsFetched, WholeBatches
<1>3. ConnInv'
  BY DEF VideoInv, ConnInv, ConnectionsClosed
<1> QED
  BY <1>1, <1>2, <1>3 DEF VideoInv

(* Every step of either version keeps the invariant.                       *)
LEMMA VideoInvStep ==
  ASSUME VideoInv, [DialNext]_dialVars
  PROVE  VideoInv'
<1>0. now \in Nat
  BY DEF VideoInv, TrendingInv
<1>1. CASE \E q \in Requests : ServeEither(q)
  BY <1>1, ServeStep
<1>2. CASE RefreshStep /\ UNCHANGED pooled
  BY SMTT(30), <1>2, RefreshBeginsStep, RefreshFailsStep, RefreshBatchStep,
     RefreshFetchedStep, RefreshEndsStep DEF RefreshStep
<1>3. CASE /\ \E q \in Requests : \/ \E c \in Calls[q] : SendRequest(q, c)
                                  \/ GiveUp(q) \/ Receive(q)
           /\ UNCHANGED <<pooled, conns>>
  BY <1>3, LoadStep
<1>4. CASE /\ \E c \in Configs : SetUserConfig(c) \/ SetVideoConfig(c)
           /\ UNCHANGED <<pooled, conns>>
  <2>1. UNCHANGED <<options, now, request, stats, cache, trending, load,
                    rejected, pooled, conns>>
    BY <1>4 DEF SetUserConfig, SetVideoConfig, SetInjectionConfig, serverVars
  <2> QED
    BY <1>0, <2>1, OtherSteps
<1>5. CASE Tick /\ UNCHANGED <<pooled, conns>>
  <2>1. /\ UNCHANGED <<options, request, stats, cache, trending, load,
                       rejected, pooled, conns>>
        /\ now' \in Nat
    BY SMTT(30), <1>0, <1>5 DEF Tick, serverVars
  <2> QED
    BY <2>1, OtherSteps
<1>6. CASE UNCHANGED dialVars
  <2>1. UNCHANGED <<options, now, request, stats, cache, trending, load,
                    rejected, pooled, conns>>
    BY <1>6 DEF dialVars, videoVars, serverVars
  <2> QED
    BY <1>0, <2>1, OtherSteps
<1> QED
  BY Zenon, <1>1, <1>2, <1>3, <1>4, <1>5, <1>6 DEF DialNext

(* The invariant holds of both versions of the service: with a connection  *)
(* per call, as in the handler of lab 1, and with the connection pool.     *)
THEOREM VideoInvHolds == DialSpec => []VideoInv
<1>1. DialInit => VideoInv
  BY VideoInvInit
<1>2. VideoInv /\ [DialNext]_dialVars => VideoInv'
  BY VideoInvStep
<1> QED
  BY <1>1, <1>2, PTL DEF DialSpec

-----------------------------------------------------------------------------
(***************************************************************************)
(* No backend rejects a batch of GetTopVideos or of fetchTrendingVideos,   *)
(* whatever the subscriptions, the likes, the trending videos and the      *)
(* batch size (lab1.md, A8).                                               *)
(***************************************************************************)
THEOREM BatchesAreValid == DialSpec => []NoInvalidBatch
<1>1. VideoInv => NoInvalidBatch
  BY DEF VideoInv, NoInvalidBatch
<1> QED
  BY <1>1, VideoInvHolds, PTL

(***************************************************************************)
(* The counters of GetStats agree with what the requests are doing and     *)
(* have been answered, and those of the load generator with them, for any  *)
(* number of requests and whenever it gives up on one.                     *)
(***************************************************************************)
THEOREM StatsAlwaysAddUp == DialSpec => []StatsAddUp
<1>1. VideoInv => StatsAddUp
  <2> SUFFICES ASSUME VideoInv PROVE StatsAddUp
    OBVIOUS
  <2> DEFINE D == {q \in Requests : request[q].pc \in {"done"}}
             C == {q \in Requests : request[q].pc \in Counted}
             H == {q \in Requests : request[q].gone \/ request[q].pc = "done"}
             N == {q \in Requests : request[q].pc \in Sent}
             S == {q \in Requests : request[q].answer = "stale"
                                    /\ request[q].pc = "done"}
             A == {q \in Requests : request[q].answer = "stale"}
  <2>1. D \subseteq C /\ D \subseteq H /\ S \subseteq A
    BY DEF Counted
  <2>2. H \subseteq N
    <3> SUFFICES ASSUME NEW q \in H PROVE q \in N
      OBVIOUS
    <3>1. request[q].pc \in Before \cup After /\ request[q].pc # "new"
      BY DEF VideoInv, RequestInv, RequestOK, Record
    <3> QED
      BY <3>1 DEF Sent, N
  <2>3. /\ IsFiniteSet(C) /\ IsFiniteSet(A)
        /\ IsFiniteSet(H) /\ IsFiniteSet(N)
    <3>1. /\ C \subseteq Requests /\ A \subseteq Requests
          /\ H \subseteq Requests /\ N \subseteq Requests
      OBVIOUS
    <3> HIDE DEF C, A, H, N
    <3> QED
      BY <3>1, VideoRecAssumption, FS_Subset
  <2> HIDE DEF D, C, H, N, S, A
  <2>4. /\ Cardinality(D) <= Cardinality(C) /\ Cardinality(D) <= Cardinality(H)
        /\ Cardinality(H) <= Cardinality(N) /\ Cardinality(S) <= Cardinality(A)
        /\ IsFiniteSet(D) /\ IsFiniteSet(S)
    BY <2>1, <2>2, <2>3, FS_Subset
  <2>5. /\ Cardinality(D) \in Nat /\ Cardinality(C) \in Nat
        /\ Cardinality(H) \in Nat /\ Cardinality(N) \in Nat
        /\ Cardinality(S) \in Nat /\ Cardinality(A) \in Nat
    BY <2>3, <2>4, FS_CardinalityType
  <2>6. /\ With({"done"}) = Cardinality(D) /\ With(Counted) = Cardinality(C)
        /\ Heard = Cardinality(H) /\ With(Sent) = Cardinality(N)
        /\ StaleDone = Cardinality(S) /\ Answers("stale") = Cardinality(A)
    BY DEF With, Answers, StaleDone, Heard, D, C, H, N, S, A
  <2>7. /\ load.successes <= Cardinality(D) /\ stats.requests = Cardinality(C)
        /\ load.responses = Cardinality(H) /\ load.sent = Cardinality(N)
        /\ load.stale <= Cardinality(S) /\ stats.stale = Cardinality(A)
        /\ load.stale \in Nat /\ load.successes \in Nat
    BY <2>6 DEF VideoInv, StatsInv
  <2>8. /\ load.successes <= load.responses /\ load.responses <= load.sent
        /\ load.successes <= stats.requests /\ load.stale <= stats.stale
    BY SMTT(30), <2>4, <2>5, <2>7
  <2> QED
    BY <2>8 DEF VideoInv, StatsInv, StatsAddUp, Inside, Counted, Failing
<1> QED
  BY <1>1, VideoInvHolds, PTL

(***************************************************************************)
(* What fallBack answers and what fetchTrendingVideos stores is always a   *)
(* beginning of the trending videos, the cache one of whole batches        *)
(* (lab1.md, C2).                                                          *)
(***************************************************************************)
THEOREM StaleIsAlwaysTrending == DialSpec => []StaleIsTrending
<1>1. VideoInv => StaleIsTrending
  BY DEF VideoInv, TrendingInv, WholeBatches, RequestInv, RequestOK, IsStale,
         StaleIsTrending
<1> QED
  BY <1>1, VideoInvHolds, PTL

(***************************************************************************)
(* With the pool and without it, every connection that a request or a      *)
(* refresh has dialed is closed when it is over.                           *)
(***************************************************************************)
THEOREM ConnectionsAlwaysClosed == DialSpec => []ConnectionsClosed
<1>1. VideoInv => ConnectionsClosed
  BY DEF VideoInv, ConnInv
<1> QED
  BY <1>1, VideoInvHolds, PTL

-----------------------------------------------------------------------------
(***************************************************************************)
(* FreshIsBest.  The candidates of a request are what the users of the     *)
(* batches so far like, its videos those of the candidates whose batches   *)
(* were fetched.                                                           *)
(***************************************************************************)
LikedUpTo(u, n) ==
  LikedBy(SubscribedTo[u], {i \in 1..Len(SubscribedTo[u]) : i <= n})

Begins(vs, ids, n) ==
  /\ vs \in Seq(Videos) /\ Len(vs) = IF n < Len(ids) THEN n ELSE Len(ids)
  /\ \A i \in 1..Len(vs) : vs[i] = ids[i]

FreshOK(r) ==
  /\ r.pc \in {"new", "sent", "user"} =>
       r.offset = 0 /\ r.candidates = <<>> /\ r.videos = <<>>
  /\ r.pc = "subscribed" =>
       r.videos = <<>> /\ Range(r.candidates) = LikedUpTo(r.user, r.offset)
  /\ r.pc = "videos" =>
       /\ Range(r.candidates) = Liked(r.user)
       /\ Begins(r.videos, r.candidates, r.offset)
  /\ r.answer = "fresh" /\ r.pc # "done" => AreBest(r.user, r.videos, r.limit)

FreshInv == \A q \in Requests : FreshOK(request[q])

(* A list without duplicates has as many values as it is long.             *)
LEMMA InjectiveSize ==
  ASSUME NEW S, NEW s \in Seq(S), IsInjective(s)
  PROVE  Cardinality(Range(s)) = Len(s)
<1>1. DOMAIN s = 1..Len(s) /\ Len(s) \in Nat /\ s \in [1..Len(s) -> S]
  BY SMTT(30)
<1>2. s \in [1..Len(s) -> Range(s)]
  BY <1>1 DEF Range
<1>3. s \in Bijection(1..Len(s), Range(s))
  BY <1>1, <1>2 DEF Bijection, Injection, Surjection, Range
<1>4. ExistsBijection(1..Len(s), Range(s))
  BY <1>3 DEF ExistsBijection
<1>5. IsFiniteSet(1..Len(s)) /\ Cardinality(1..Len(s)) = Len(s)
  <2>1. 1 \in Int /\ Len(s) \in Int
    BY SMTT(30), <1>1
  <2>2. Cardinality(1..Len(s)) = IF 1 > Len(s) THEN 0 ELSE Len(s) - 1 + 1
    BY <2>1, FS_Interval
  <2>3. IsFiniteSet(1..Len(s))
    BY <2>1, FS_Interval
  <2> QED
    BY SMTT(30), <1>1, <2>2, <2>3
<1> QED
  BY <1>4, <1>5, FS_Bijection

(* What the ranking makes of all that is liked are the best of it, however *)
(* the sort orders videos of the same rank.                                *)
LEMMA RankingsAreBest ==
  ASSUME NEW u, NEW vs \in Seq(Videos), IsInjective(vs), Range(vs) = Liked(u),
         NEW limit \in Nat, NEW s \in Rankings(u, vs, limit)
  PROVE  AreBest(u, s, limit)
<1> DEFINE n == Len(vs)
<1>1. n \in Nat /\ DOMAIN vs = 1..n /\ \A i \in 1..n : vs[i] \in Videos
  BY SMTT(30)
<1>2. PICK t \in Arranged(vs) :
        /\ \A i, j \in 1..n : i < j => Rank(u, t[i]) >= Rank(u, t[j])
        /\ s = Cut(t, limit)
  BY DEF Rankings
<1>3. PICK p \in Bijection(1..n, 1..n) : t = [i \in 1..n |-> vs[p[i]]]
  BY DEF Arranged
<1>4. /\ p \in [1..n -> 1..n] /\ \A i, j \in 1..n : p[i] = p[j] => i = j
      /\ \A m \in 1..n : \E j \in 1..n : p[j] = m
  BY DEF Bijection, Injection, Surjection, IsInjective
<1>5. \A i \in 1..n : t[i] = vs[p[i]] /\ p[i] \in 1..n
  BY <1>3, <1>4
<1>6. t \in Seq(Videos) /\ Len(t) = n
  <2>1. t \in [1..n -> Videos]
    BY <1>1, <1>3, <1>4
  <2> HIDE DEF n
  <2> QED
    BY SMTT(30), <1>1, <2>1
<1> DEFINE k == IF limit < n THEN limit ELSE n
<1>7. k \in 0..n
  <2> HIDE DEF n
  <2> QED
    BY SMTT(30), <1>1
<1>8. s = SubSeq(t, 1, k)
  BY <1>2, <1>6 DEF Cut
<1> HIDE DEF k, n
<1>9. s \in Seq(Videos) /\ Len(s) = k /\ \A i \in 1..k : s[i] = t[i]
  BY SMTT(30), <1>1, <1>6, <1>7, <1>8
<1>10. DOMAIN s = 1..k /\ \A i \in 1..k : i \in 1..n
  BY SMTT(30), <1>1, <1>7, <1>9
<1>11. IsInjective(s)
  <2> SUFFICES ASSUME NEW i \in 1..k, NEW j \in 1..k, s[i] = s[j] PROVE i = j
    BY <1>10 DEF IsInjective
  <2>1. vs[p[i]] = vs[p[j]] /\ p[i] \in 1..n /\ p[j] \in 1..n
    BY <1>5, <1>9, <1>10
  <2>2. p[i] = p[j]
    BY <1>1, <2>1 DEF IsInjective
  <2> QED
    BY <1>4, <1>10, <2>2
<1>12. Range(s) \subseteq Liked(u)
  <2>1. \A i \in 1..k : s[i] \in Range(vs)
    BY <1>1, <1>5, <1>9, <1>10 DEF Range
  <2> QED
    BY <1>10, <2>1 DEF Range
<1>13. Cardinality(Liked(u)) = n
  BY InjectiveSize DEF n
<1>14. ASSUME NEW i \in 1..k, NEW v \in Liked(u) \ Range(s)
       PROVE  Rank(u, s[i]) >= Rank(u, v)
  <2>1. PICK m \in 1..n : v = vs[m]
    BY <1>1 DEF Range
  <2>2. PICK j \in 1..n : p[j] = m
    BY <1>4
  <2>3. v = t[j]
    BY <1>5, <2>1, <2>2
  <2>4. j \notin 1..k
    BY <1>9, <1>10, <2>3 DEF Range
  <2>5. i < j
    BY SMTT(30), <1>1, <1>7, <2>4
  <2> QED
    BY <1>2, <1>9, <1>10, <2>3, <2>5
<1>15. \A i, j \in 1..k : i < j => Rank(u, s[i]) >= Rank(u, s[j])
  BY <1>2, <1>9, <1>10
<1>16. Len(s) = IF limit < Cardinality(Liked(u)) THEN limit
                ELSE Cardinality(Liked(u))
  BY <1>9, <1>13 DEF k
<1> QED
  BY <1>9, <1>11, <1>12, <1>14, <1>15, <1>16 DEF AreBest

(* A batch of the users that one subscribes to adds what they like.        *)
LEMMA LikedBatch ==
  ASSUME NEW u \in Users, NEW o \in Nat, o < Len(SubscribedTo[u])
  PROVE  LET b == Batch(SubscribedTo[u], o)
         IN LikedUpTo(u, o + MaxBatchSize)
              = LikedUpTo(u, o) \cup LikedBy(b, 1..Len(b))
<1> DEFINE ids == SubscribedTo[u]
           b == Batch(ids, o)
           n == Len(ids)
           A == {i \in 1..n : i <= o}
           B == {i \in 1..n : i <= o + MaxBatchSize}
<1>1. ids \in Seq(Users) /\ n \in Nat /\ MaxBatchSize \in Nat \ {0} /\ o < n
  BY SMTT(30), SubscribedType, VideoRecAssumption
<1> HIDE DEF ids
<1> DEFINE e == IF o + MaxBatchSize < n THEN o + MaxBatchSize ELSE n
<1>2. /\ Len(b) = e - o
      /\ \A i \in 1..e - o : b[i] = ids[o + i]
  BY SMTT(30), <1>1, BatchFacts
<1>3. \A i \in 1..e - o : o + i \in B
  <2> HIDE DEF n
  <2> QED
    BY SMTT(30), <1>1
<1>4. \A i \in B : i \in A \/ (i - o \in 1..e - o /\ o + (i - o) = i)
  <2> HIDE DEF n
  <2> QED
    BY SMTT(30), <1>1
<1>5. \A i \in A : i \in B
  <2> HIDE DEF n
  <2> QED
    BY SMTT(30), <1>1
<1> HIDE DEF A, B, b, e
<1>6. ASSUME NEW v, NEW i \in B, v \in Range(LikedVideos[ids[i]])
      PROVE  v \in LikedBy(ids, A) \cup LikedBy(b, 1..Len(b))
  <2>1. CASE i \in A
    BY <1>6, <2>1 DEF LikedBy
  <2>2. CASE i - o \in 1..e - o /\ o + (i - o) = i
    <3>1. b[i - o] = ids[i] /\ i - o \in 1..Len(b)
      BY <1>2, <2>2
    <3> QED
      BY <1>6, <3>1 DEF LikedBy
  <2> QED
    BY <1>4, <2>1, <2>2
<1>7. ASSUME NEW v, NEW i \in 1..Len(b), v \in Range(LikedVideos[b[i]])
      PROVE  v \in LikedBy(ids, B)
  <2>1. o + i \in B /\ b[i] = ids[o + i]
    BY <1>2, <1>3
  <2> QED
    BY <1>7, <2>1 DEF LikedBy
<1>8. LikedBy(ids, B) = LikedBy(ids, A) \cup LikedBy(b, 1..Len(b))
  BY <1>5, <1>6, <1>7 DEF LikedBy
<1> QED
  BY <1>8 DEF LikedUpTo, A, B, b, ids

(* After the last batch that is all that they like.                        *)
LEMMA LikedAll ==
  ASSUME NEW u \in Users, NEW o \in Nat, o >= Len(SubscribedTo[u])
  PROVE  LikedUpTo(u, o) = Liked(u)
<1> DEFINE ids == SubscribedTo[u]
<1>1. ids \in Seq(Users) /\ Len(ids) \in Nat /\ DOMAIN ids = 1..Len(ids)
  BY SMTT(30), SubscribedType
<1>2. {i \in 1..Len(ids) : i <= o} = 1..Len(ids)
  <2>1. \A i \in 1..Len(ids) : i <= o
    BY SMTT(30), <1>1
  <2> QED
    BY <2>1
<1>3. LikedBy(ids, 1..Len(ids)) = Liked(u)
  <2>1. \A v \in LikedBy(ids, 1..Len(ids)) : v \in Liked(u)
    <3>1. \A i \in 1..Len(ids) : ids[i] \in Range(SubscribedTo[u])
      BY <1>1 DEF Range
    <3> QED
      BY <3>1 DEF LikedBy, Liked
  <2>2. \A v \in Liked(u) : v \in LikedBy(ids, 1..Len(ids))
    <3>1. \A w \in Range(SubscribedTo[u]) : \E i \in 1..Len(ids) : w = ids[i]
      BY <1>1 DEF Range
    <3> QED
      BY <3>1 DEF LikedBy, Liked
  <2> QED
    BY <2>1, <2>2
<1> QED
  BY <1>2, <1>3 DEF LikedUpTo

(* A batch of the candidates goes on where the videos so far end.          *)
LEMMA BatchBegins ==
  ASSUME NEW ids \in Seq(Videos), NEW o \in Nat, o < Len(ids), NEW vs,
         Begins(vs, ids, o)
  PROVE  Begins(vs \o Batch(ids, o), ids, o + MaxBatchSize)
<1> DEFINE n == Len(ids)
           b == Batch(ids, o)
           e == IF o + MaxBatchSize < n THEN o + MaxBatchSize ELSE n
           c == vs \o b
<1>1. n \in Nat /\ MaxBatchSize \in Nat \ {0} /\ o < n
  BY SMTT(30), VideoRecAssumption
<1>2. b \in Seq(Videos) /\ Len(b) = e - o /\ \A i \in 1..e - o : b[i] = ids[o + i]
  BY SMTT(30), <1>1, BatchFacts
<1>3. vs \in Seq(Videos) /\ Len(vs) = o /\ \A i \in 1..o : vs[i] = ids[i]
  BY DEF Begins
<1> HIDE DEF n, b
<1>4. e \in Nat /\ o < e /\ e <= n
  BY SMTT(30), <1>1
<1> HIDE DEF e
<1>5. c \in Seq(Videos) /\ Len(c) = e
  BY SMTT(30), <1>2, <1>3, <1>4
<1>6. ASSUME NEW i \in 1..e PROVE c[i] = ids[i]
  <2>1. CASE i \in 1..o
    <3>1. c[i] = vs[i]
      BY SMTT(30), <1>2, <1>3, <2>1
    <3> QED
      BY <1>3, <2>1, <3>1
  <2>2. CASE i - o \in 1..e - o /\ o + (i - o) = i
    <3>1. c[i] = b[i - o]
      BY SMTT(30), <1>2, <1>3, <1>4, <2>2
    <3> QED
      BY <1>2, <2>2, <3>1
  <2>3. i \in 1..o \/ (i - o \in 1..e - o /\ o + (i - o) = i)
    BY SMTT(30), <1>4
  <2> QED
    BY <2>1, <2>2, <2>3
<1> QED
  BY <1>5, <1>6 DEF Begins, e, n, b

(* The entry of a request leaves it without candidates and videos,         *)
LEMMA FreshEnters ==
  ASSUME VideoInv, FreshInv, NEW q \in Requests,
         (\E c \in Calls[q] : SendRequest(q, c)) \/ Enter(q)
  PROVE  FreshOK(request'[q])
<1>1. PICK V : request \in [Requests -> Record(V)]
  BY DEF VideoInv, RequestInv
<1>2. /\ request[q] \in Record(V) /\ FreshOK(request[q])
      /\ RequestOK(request[q], options.DisableFallback)
  BY <1>1 DEF FreshInv, VideoInv, RequestInv
<1>3. \E c : \E t \in {"sent", "user"} :
        /\ request'[q] = [request[q] EXCEPT !.pc = t, !.user = c.user,
                                            !.limit = c.limit]
        /\ request[q].pc \in {"new", "sent"}
  <2>1. CASE Enter(q)
    <3>1. request'[q] = [request[q] EXCEPT !.pc = "user"]
      BY <1>1, <2>1 DEF Enter
    <3>2. request'[q] = [request[q] EXCEPT !.pc = "user",
                           !.user = request[q].user, !.limit = request[q].limit]
      BY <1>2, <3>1 DEF Record
    <3> QED
      BY <2>1, <3>2 DEF Enter
  <2>2. CASE \E c \in Calls[q] : SendRequest(q, c)
    <3>1. PICK c \in Calls[q] : SendRequest(q, c)
      BY <2>2
    <3>2. request'[q] = [request[q] EXCEPT !.pc = "sent", !.user = c.user,
                                           !.limit = c.limit]
      BY <1>1, <3>1 DEF SendRequest
    <3> QED
      BY <3>1, <3>2 DEF SendRequest
  <2> QED
    BY <2>1, <2>2
<1>4. /\ request'[q].offset = request[q].offset
      /\ request[q].pc \in {"new", "sent"} /\ request'[q].pc \in {"sent", "user"}
      /\ request'[q].candidates = request[q].candidates
      /\ request'[q].videos = request[q].videos
      /\ request'[q].answer = request[q].answer
  BY <1>2, <1>3 DEF Record
<1>5. request[q].answer # "fresh"
  BY <1>2, <1>3, VideoRecAssumption DEF RequestOK, Before
<1> QED
  BY <1>2, <1>3, <1>4, <1>5 DEF FreshOK

(* and so does a failed call.                                              *)
LEMMA FreshFails ==
  ASSUME NEW r, NEW d, RequestOK(r, d), r.pc \in Failing
  PROVE  FreshOK(r)
BY VideoRecAssumption DEF RequestOK, Before, Failing, FreshOK

(* The first call of the user service: nothing is gathered yet.            *)
LEMMA FreshFirst ==
  ASSUME VideoInv, FreshInv, NEW q \in Requests, FirstUserRequest(q)
  PROVE  FreshOK(request'[q])
<1>1. PICK V : request \in [Requests -> Record(V)]
  BY DEF VideoInv, RequestInv
<1>2. /\ request[q] \in Record(V) /\ FreshOK(request[q])
      /\ request[q].pc = "user"
  BY <1>1 DEF FreshInv, FirstUserRequest
<1>3. /\ RequestOK(request'[q], options.DisableFallback)
      /\ request'[q].pc \in {"subscribed"} \cup Failing
  BY FirstUserRequestStep DEF Sound
<1>4. CASE request'[q].pc = "subscribed"
  <2>1. \/ request' = [request EXCEPT ![q].pc = "subscribed"]
        \/ BackendError(q, "user")
    BY DEF FirstUserRequest
  <2>2. ~BackendError(q, "user")
    <3> SUFFICES ASSUME BackendError(q, "user") PROVE FALSE
      OBVIOUS
    <3>1. request'[q].pc
            = IF options.DisableFallback THEN "error" ELSE "fallback"
      BY <1>1 DEF BackendError, Record
    <3> QED
      BY <1>4, <3>1
  <2>3. request'[q] = [request[q] EXCEPT !.pc = "subscribed"]
    BY <1>1, <2>1, <2>2
  <2>4. /\ request'[q].offset = 0 /\ request'[q].candidates = <<>>
        /\ request'[q].videos = <<>>
    BY <1>2, <2>3 DEF Record, FreshOK
  <2>5. LikedUpTo(request'[q].user, 0) = {} /\ Range(<<>>) = {}
    <3>1. Range(<<>>) = {} /\ \A n : \A i \in 1..n : ~(i <= 0)
      BY SMTT(30) DEF Range
    <3> QED
      BY <3>1 DEF LikedUpTo, LikedBy
  <2>6. request'[q].answer # "fresh"
    BY <1>3, <1>4, VideoRecAssumption DEF RequestOK, Before
  <2> QED
    BY <1>4, <2>4, <2>5, <2>6 DEF FreshOK
<1> QED
  BY <1>3, <1>4, FreshFails

(* A batch of it: what its users like is among the candidates,             *)
LEMMA FreshSecond ==
  ASSUME VideoInv, FreshInv, NEW q \in Requests, SecondUserRequest(q)
  PROVE  FreshOK(request'[q])
<1> DEFINE u == request[q].user
           o == request[q].offset
           b == Batch(SubscribedTo[u], o)
<1>1. PICK V : request \in [Requests -> Record(V)]
  BY DEF VideoInv, RequestInv
<1>2. /\ request[q] \in Record(V) /\ FreshOK(request[q])
      /\ request[q].pc = "subscribed" /\ o < Len(SubscribedTo[u])
      /\ u \in Users
  BY <1>1 DEF FreshInv, SecondUserRequest, VideoInv, RequestInv, RequestOK
<1>3. /\ RequestOK(request'[q], options.DisableFallback)
      /\ request'[q].pc \in {"subscribed"} \cup Failing
  BY SecondUserRequestStep DEF Sound
<1>4. CASE request'[q].pc = "subscribed"
  <2>1. \/ request' = [request EXCEPT ![q].offset = @ + MaxBatchSize,
                                      ![q].candidates = @ \o Likes(b)]
        \/ BackendError(q, "user")
    BY DEF SecondUserRequest
  <2>2. ~BackendError(q, "user")
    <3> SUFFICES ASSUME BackendError(q, "user") PROVE FALSE
      OBVIOUS
    <3>1. request'[q].pc
            = IF options.DisableFallback THEN "error" ELSE "fallback"
      BY <1>1 DEF BackendError, Record
    <3> QED
      BY <1>4, <3>1
  <2>3. request'[q] = [request[q] EXCEPT !.offset = @ + MaxBatchSize,
                                         !.candidates = @ \o Likes(b)]
    BY <1>1, <2>1, <2>2
  <2>4. /\ request'[q].offset = o + MaxBatchSize /\ request'[q].user = u
        /\ request'[q].candidates = request[q].candidates \o Likes(b)
        /\ request'[q].videos = request[q].videos
    BY <1>2, <2>3 DEF Record
  <2>5. /\ request[q].videos = <<>> /\ o \in Nat
        /\ Range(request[q].candidates) = LikedUpTo(u, o)
        /\ request[q].candidates \in Seq(Videos)
    BY <1>2 DEF FreshOK, Record
  <2>6. b \in Seq(Users)
    BY <1>2, <2>5, SubscribedType, BatchFacts
  <2>7. /\ Likes(b) \in Seq(Videos)
        /\ Range(Likes(b)) = LikedBy(b, 1..Len(b))
    <3> HIDE DEF b
    <3> QED
      BY <2>6, LikesFacts
  <2>8. Range(request'[q].candidates)
          = LikedUpTo(u, o) \cup LikedBy(b, 1..Len(b))
    <3> DEFINE c == request[q].candidates
    <3> HIDE DEF b, c
    <3>1. c \in Seq(Videos)
      BY <2>5 DEF c
    <3>2. Range(c \o Likes(b)) = Range(c) \cup Range(Likes(b))
      BY <2>7, <3>1, ConcatRange
    <3> QED
      BY <2>4, <2>5, <2>7, <3>2 DEF c
  <2>9. LikedUpTo(u, o + MaxBatchSize)
          = LikedUpTo(u, o) \cup LikedBy(b, 1..Len(b))
    <3> HIDE DEF u, o
    <3> QED
      BY <1>2, <2>5, LikedBatch
  <2>10. request'[q].answer # "fresh"
    BY <1>3, <1>4, VideoRecAssumption DEF RequestOK, Before
  <2> HIDE DEF u, o, b
  <2> QED
    BY <1>4, <2>4, <2>5, <2>8, <2>9, <2>10 DEF FreshOK
<1> QED
  BY <1>3, <1>4, FreshFails

(* after the last batch they are all that is liked, each of them once,     *)
LEMMA FreshDeduplicated ==
  ASSUME VideoInv, FreshInv, NEW q \in Requests, Deduplicate(q)
  PROVE  FreshOK(request'[q])
<1> DEFINE u == request[q].user
           c == DeduplicateIds(request[q].candidates)
<1>1. PICK V : request \in [Requests -> Record(V)]
  BY DEF VideoInv, RequestInv
<1>2. /\ request[q] \in Record(V) /\ FreshOK(request[q])
      /\ request[q].pc = "subscribed" /\ u \in Users
      /\ request[q].offset >= Len(SubscribedTo[u])
  BY <1>1 DEF FreshInv, Deduplicate, VideoInv, RequestInv, RequestOK
<1>3. /\ RequestOK(request'[q], options.DisableFallback)
      /\ request'[q].pc = "videos"
  BY DeduplicateStep DEF Sound
<1>4. /\ request'[q].user = u /\ request'[q].candidates = c
      /\ request'[q].offset = 0 /\ request'[q].videos = request[q].videos
  BY <1>1 DEF Deduplicate, Record
<1>5. /\ request[q].videos = <<>> /\ request[q].offset \in Nat
      /\ Range(request[q].candidates) = LikedUpTo(u, request[q].offset)
      /\ request[q].candidates \in Seq(Videos)
  BY <1>2 DEF FreshOK, Record
<1>6. c \in Seq(Videos) /\ Range(c) = LikedUpTo(u, request[q].offset)
  BY <1>5, DeduplicateIdsFacts
<1>7. Range(c) = Liked(u)
  <2> HIDE DEF u, c
  <2> QED
    BY <1>2, <1>5, <1>6, LikedAll
<1> HIDE DEF c
<1>8. Begins(<<>>, c, 0)
  <2>1. /\ <<>> \in Seq(Videos) /\ Len(<<>>) = 0 /\ 1..Len(<<>>) = {}
        /\ (IF 0 < Len(c) THEN 0 ELSE Len(c)) = 0
    BY SMTT(30), <1>6
  <2> QED
    BY <2>1 DEF Begins
<1>9. request'[q].answer # "fresh"
  BY <1>3, VideoRecAssumption DEF RequestOK, Before
<1> QED
  BY <1>3, <1>4, <1>5, <1>7, <1>8, <1>9 DEF FreshOK

(* a batch of them is fetched,                                             *)
LEMMA FreshFetched ==
  ASSUME VideoInv, FreshInv, NEW q \in Requests, FetchVideos(q)
  PROVE  FreshOK(request'[q])
<1> DEFINE c == request[q].candidates
           o == request[q].offset
           b == Batch(c, o)
<1>1. PICK V : request \in [Requests -> Record(V)]
  BY DEF VideoInv, RequestInv
<1>2. /\ request[q] \in Record(V) /\ FreshOK(request[q])
      /\ request[q].pc = "videos" /\ o < Len(c)
  BY <1>1 DEF FreshInv, FetchVideos
<1>3. /\ RequestOK(request'[q], options.DisableFallback)
      /\ request'[q].pc \in {"videos"} \cup Failing
  BY FetchVideosStep DEF Sound
<1>4. CASE request'[q].pc = "videos"
  <2>1. \/ request' = [request EXCEPT ![q].offset = @ + MaxBatchSize,
                                      ![q].videos = @ \o b]
        \/ BackendError(q, "video")
    BY DEF FetchVideos
  <2>2. ~BackendError(q, "video")
    <3> SUFFICES ASSUME BackendError(q, "video") PROVE FALSE
      OBVIOUS
    <3>1. request'[q].pc
            = IF options.DisableFallback THEN "error" ELSE "fallback"
      BY <1>1 DEF BackendError, Record
    <3> QED
      BY <1>4, <3>1
  <2>3. request'[q] = [request[q] EXCEPT !.offset = @ + MaxBatchSize,
                                         !.videos = @ \o b]
    BY <1>1, <2>1, <2>2
  <2>4. /\ request'[q].offset = o + MaxBatchSize
        /\ request'[q].user = request[q].user /\ request'[q].candidates = c
        /\ request'[q].videos = request[q].videos \o b
    BY <1>2, <2>3 DEF Record
  <2>5. /\ o \in Nat /\ c \in Seq(Videos) /\ Range(c) = Liked(request[q].user)
        /\ Begins(request[q].videos, c, o)
    BY <1>2 DEF FreshOK, Record
  <2>6. Begins(request[q].videos \o b, c, o + MaxBatchSize)
    <3> HIDE DEF c, o
    <3> QED
      BY <1>2, <2>5, BatchBegins
  <2>7. request'[q].answer # "fresh"
    BY <1>3, <1>4, VideoRecAssumption DEF RequestOK, Before
  <2> HIDE DEF c, o, b
  <2> QED
    BY <1>4, <2>4, <2>5, <2>6, <2>7 DEF FreshOK
<1> QED
  BY <1>3, <1>4, FreshFails

(* and when all of them are, they are ranked.                              *)
LEMMA FreshRanked ==
  ASSUME VideoInv, FreshInv, NEW q \in Requests, RankVideos(q)
  PROVE  FreshOK(request'[q])
<1> DEFINE u == request[q].user
           c == request[q].candidates
           vs == request[q].videos
<1>1. PICK V : request \in [Requests -> Record(V)]
  BY DEF VideoInv, RequestInv
<1>2. /\ request[q] \in Record(V) /\ FreshOK(request[q])
      /\ request[q].pc = "videos" /\ IsInjective(c)
      /\ request[q].offset >= Len(c)
  BY <1>1 DEF FreshInv, RankVideos, VideoInv, RequestInv, RequestOK
<1>3. PICK s \in Rankings(u, vs, request[q].limit) :
        request' = [request EXCEPT ![q].pc = "return", ![q].answer = "fresh",
          ![q].offset = 0, ![q].candidates = <<>>, ![q].videos = s]
  BY DEF RankVideos
<1>4. /\ request'[q].pc = "return" /\ request'[q].user = u
      /\ request'[q].limit = request[q].limit /\ request'[q].videos = s
  BY <1>1, <1>3 DEF Record
<1>5. /\ request[q].offset \in Nat /\ c \in Seq(Videos)
      /\ Range(c) = Liked(u) /\ Begins(vs, c, request[q].offset)
      /\ request[q].limit \in Nat
  BY <1>2 DEF FreshOK, Record
<1>6. vs = c
  <2> HIDE DEF vs, c
  <2>1. vs \in Seq(Videos) /\ \A i \in 1..Len(vs) : vs[i] = c[i]
    BY <1>5 DEF Begins
  <2>2. Len(vs) = Len(c)
    BY SMTT(30), <1>2, <1>5 DEF Begins
  <2> QED
    BY SMTT(30), <1>5, <2>1, <2>2
<1>7. AreBest(u, s, request[q].limit)
  <2> HIDE DEF vs, c, u
  <2> QED
    BY <1>2, <1>3, <1>5, <1>6, RankingsAreBest
<1> QED
  BY <1>4, <1>7 DEF FreshOK

(* The ends of a request keep a fresh answer, or have another one.         *)
LEMMA FreshEnds ==
  ASSUME VideoInv, FreshInv, NEW q \in Requests,
         \/ ReturnError(q) \/ FallBack(q) \/ FallBackToLimit(q)
         \/ CountRequest(q) \/ Leave(q) \/ Receive(q)
  PROVE  FreshOK(request'[q])
<1>1. PICK V : request \in [Requests -> Record(V)]
  BY DEF VideoInv, RequestInv
<1>2. request[q] \in Record(V) /\ FreshOK(request[q])
  BY <1>1 DEF FreshInv
<1>3. CASE ReturnError(q) \/ FallBack(q) \/ FallBackToLimit(q)
  <2>1. /\ request[q].pc \in Failing /\ request'[q].pc = "return" /\ Effect(q)
    BY <1>3, ReturnErrorStep, FallBackStep, FallBackToLimitStep
       DEF Sound, Failing
  <2>2. request'[q].answer \in {"stale", "error"}
    BY <2>1 DEF Effect, Steps, Failing, Working, Abandons
  <2> QED
    BY <2>1, <2>2 DEF FreshOK
<1>4. CASE CountRequest(q) \/ Leave(q)
  <2>1. /\ request[q].pc \in {"return", "leave"}
        /\ request'[q].pc \in {"leave", "answered"}
    BY <1>4, CountRequestStep, LeaveStep
  <2>2. /\ request'[q].answer = request[q].answer
        /\ request'[q].user = request[q].user
        /\ request'[q].videos = request[q].videos
        /\ request'[q].limit = request[q].limit
    <3>1. \E t : request'[q] = [request[q] EXCEPT !.pc = t]
      BY <1>1, <1>4 DEF CountRequest, Leave
    <3> QED
      BY <1>2, <3>1 DEF Record
  <2> QED
    BY <1>2, <2>1, <2>2 DEF FreshOK
<1>5. CASE Receive(q)
  BY <1>5, ReceiveStep DEF FreshOK
<1> QED
  BY <1>3, <1>4, <1>5

(* So does the load generator's giving up.                                 *)
LEMMA FreshGivenUp ==
  ASSUME VideoInv, FreshInv, NEW q \in Requests, GiveUp(q)
  PROVE  FreshOK(request'[q])
<1>1. PICK V : request \in [Requests -> Record(V)]
  BY DEF VideoInv, RequestInv
<1>2. /\ request[q] \in Record(V) /\ FreshOK(request[q])
      /\ RequestOK(request[q], options.DisableFallback)
  BY <1>1 DEF FreshInv, VideoInv, RequestInv
<1>3. PICK next : request' = [request EXCEPT ![q].pc = next, ![q].gone = TRUE]
  BY DEF GiveUp
<1>4. /\ request'[q].answer = request[q].answer
      /\ request'[q].user = request[q].user
      /\ request'[q].videos = request[q].videos
      /\ request'[q].limit = request[q].limit
      /\ request'[q].offset = request[q].offset
      /\ request'[q].candidates = request[q].candidates
  <2>1. request'[q] = [request[q] EXCEPT !.pc = next, !.gone = TRUE]
    BY <1>1, <1>3
  <2> QED
    BY <1>2, <2>1 DEF Record
<1>5. \/ request'[q].pc = request[q].pc
      \/ request[q].pc = "sent" /\ request'[q].pc = "lost"
  BY GiveUpStep
<1>6. request[q].pc = "sent" => request[q].answer # "fresh"
  BY <1>2, VideoRecAssumption DEF RequestOK, Before
<1>7. request[q].pc # "done"
  BY DEF GiveUp
<1> QED
  BY <1>2, <1>4, <1>5, <1>6, <1>7 DEF FreshOK

(* Every step of either version keeps what is said of the candidates and   *)
(* the videos.                                                             *)
LEMMA FreshInvStep ==
  ASSUME VideoInv, FreshInv, [DialNext]_dialVars
  PROVE  FreshInv'
<1>1. ASSUME NEW q \in Requests, Moves(q), FreshOK(request'[q])
      PROVE  FreshInv'
  <2> SUFFICES ASSUME NEW p \in Requests PROVE FreshOK(request'[p])
    BY DEF FreshInv, FreshOK
  <2> QED
    BY <1>1 DEF FreshInv, Moves
<1>2. ASSUME NEW q \in Requests, Serve(q) \/ FallBackToLimit(q)
      PROVE  FreshInv'
  <2>1. Moves(q)
    BY <1>2, EnterStep, FirstUserRequestStep, SecondUserRequestStep,
       DeduplicateStep, FetchVideosStep, RankVideosStep, ReturnErrorStep,
       FallBackStep, FallBackToLimitStep, CountRequestStep, LeaveStep
       DEF Serve, Sound
  <2>2. FreshOK(request'[q])
    BY <1>2, FreshEnters, FreshFirst, FreshSecond, FreshDeduplicated,
       FreshFetched, FreshRanked, FreshEnds DEF Serve
  <2> QED
    BY <1>1, <2>1, <2>2
<1>3. CASE \E q \in Requests : ServeEither(q)
  <2>1. PICK q \in Requests : ServeEither(q)
    BY <1>3
  <2>2. Serve(q) \/ FallBackToLimit(q)
    BY <2>1 DEF ServeEither, Serve, ServeDialed, DialUser, FirstUserCall,
                SecondUserCall, DialVideo, VideoCall, RankFetched,
                ErrorReturned, CloseUser, LeaveDialed
  <2> QED
    BY <1>2, <2>2
<1>4. CASE \E q \in Requests : \/ \E c \in Calls[q] : SendRequest(q, c)
                               \/ GiveUp(q) \/ Receive(q)
  <2>1. PICK q \in Requests : \/ \E c \in Calls[q] : SendRequest(q, c)
                              \/ GiveUp(q) \/ Receive(q)
    BY <1>4
  <2>2. Moves(q)
    BY <2>1, SendRequestStep, GiveUpStep, ReceiveStep DEF Sound
  <2>3. FreshOK(request'[q])
    BY <2>1, FreshEnters, FreshGivenUp, FreshEnds
  <2> QED
    BY <1>1, <2>2, <2>3
<1>5. CASE UNCHANGED request
  BY <1>5 DEF FreshInv, FreshOK
<1>6. CASE RefreshStep
  <2>1. UNCHANGED request
    BY <1>6 DEF RefreshStep, RefreshBegins, RefreshFails, RefreshBatch,
       RefreshFetched, RefreshEnds, FetchTrending, TrendingFailed,
       FetchTrendingBatch, TrendingFetched, UpdateCache
  <2> QED
    BY <1>5, <2>1
<1>7. CASE (\E c \in Configs : SetUserConfig(c) \/ SetVideoConfig(c)) \/ Tick
  <2>1. UNCHANGED request
    BY <1>7 DEF SetUserConfig, SetVideoConfig, SetInjectionConfig, Tick,
       serverVars
  <2> QED
    BY <1>5, <2>1
<1>8. CASE UNCHANGED dialVars
  BY <1>5, <1>8 DEF dialVars, videoVars, serverVars
<1> QED
  BY <1>3, <1>4, <1>6, <1>7, <1>8 DEF DialNext

(***************************************************************************)
(* A fresh response of either version to a request with a limit has the    *)
(* best of the videos that the users one subscribes to like, as many as    *)
(* the limit says, whatever the lists, the ranks (videos of the same rank  *)
(* included), the batch size and the failures of the backends (lab1.md, A5 *)
(* and A6).                                                                *)
(***************************************************************************)
THEOREM FreshIsAlwaysBest == DialSpec => []FreshIsBest
<1>1. DialInit => FreshInv
  <2> SUFFICES ASSUME DialInit, NEW q \in Requests PROVE FreshOK(request[q])
    BY DEF FreshInv
  <2>1. request[q] = [pc |-> "new", user |-> None, limit |-> 0, offset |-> 0,
                      candidates |-> <<>>, videos |-> <<>>, answer |-> None,
                      gone |-> FALSE]
    BY DEF DialInit, VideoInit
  <2>2. /\ request[q].pc = "new" /\ request[q].offset = 0
        /\ request[q].candidates = <<>> /\ request[q].videos = <<>>
        /\ request[q].answer = None
    BY SMTT(30), <2>1
  <2> QED
    BY <2>2, VideoRecAssumption DEF FreshOK
<1>2. VideoInv /\ FreshInv /\ [DialNext]_dialVars => FreshInv'
  BY FreshInvStep
<1>3. FreshInv => FreshIsBest
  BY DEF FreshInv, FreshOK, FreshIsBest
<1> QED
  BY <1>1, <1>2, <1>3, VideoInvHolds, PTL DEF DialSpec

=============================================================================
