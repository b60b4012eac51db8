------------------------------- MODULE Lemmas -------------------------------
(***************************************************************************)
(* Facts about sequences, sets of numbers, recursion, tables and sums over *)
(* finite sets that the proofs of several components rest on.              *)
(***************************************************************************)
EXTENDS Integers, Sequences, FiniteSets, SequenceTheorems, FiniteSetTheorems, FunctionTheorems, TLAPS

\* A function on the positions of a sequence is a sequence of the same length: a table
\* whose rows are rewritten keeps its order and number.
LEMMA Rewritten ==
    ASSUME NEW S, NEW T, NEW s \in Seq(S), NEW f \in [DOMAIN s -> T]
    PROVE  /\ f \in Seq(T) /\ Len(f) = Len(s) /\ DOMAIN f = DOMAIN s
BY LenProperties, IsASeq

\* A row added to a table is its last, and leaves the others as they are.
LEMMA Added ==
    ASSUME NEW S, NEW s \in Seq(S), NEW e \in S
    PROVE  /\ Append(s, e) \in Seq(S) /\ Len(Append(s, e)) = Len(s) + 1
           /\ DOMAIN s = 1 .. Len(s) /\ DOMAIN Append(s, e) = 1 .. Len(s) + 1
           /\ \A i \in 1 .. Len(s) : Append(s, e)[i] = s[i]
           /\ Append(s, e)[Len(s) + 1] = e
BY AppendProperties, LenProperties

\* A bounded set of numbers that is not empty has a greatest one: of the sets of numbers
\* above an element, one is minimal, and it has no element.
LEMMA Greatest ==
    ASSUME NEW S \in SUBSET Nat, S # {}, NEW n \in Nat, \A s \in S : s <= n
    PROVE  \E m \in S : {c \in S : c > m} = {}
<1> DEFINE Above(b) == {c \in S : c > b}
           T == {Above(b) : b \in S}
<1>1. IsFiniteSet(S)
  BY FS_BoundedSetOfNaturals
<1>2. IsWellFoundedOn(StrictSubsetOrdering(S), FiniteSubsetsOf(S))
  BY <1>1, FS_StrictSubsetOrderingWellFounded
<1>3. T \subseteq FiniteSubsetsOf(S) /\ T # {}
  <2>1. \A b \in S : Above(b) \in SUBSET S /\ IsFiniteSet(Above(b))
    BY <1>1, FS_Subset
  <2> QED
    BY <2>1 DEF FiniteSubsetsOf
<1>4. PICK x \in T : \A y \in T : ~(<<y, x>> \in StrictSubsetOrdering(S))
  BY <1>2, <1>3, WFMin
<1>5. PICK m \in S : x = Above(m)
  BY <1>4
<1>6. ASSUME NEW c \in Above(m) PROVE FALSE
  <2>1. Above(c) \in T /\ Above(c) \subseteq Above(m) /\ c \in Above(m) /\ c \notin Above(c)
    <3>1. c \in S /\ c \in Nat /\ c > m /\ m \in Nat
      BY <1>5, <1>6
    <3>2. \A d \in S : d > c => d > m
      BY <3>1
    <3>3. Above(c) \in T
      BY <3>1
    <3>4. ~(c > c)
      BY <3>1
    <3> QED
      BY <3>1, <3>2, <3>3, <3>4
  <2> QED
    BY <1>4, <1>5, <2>1 DEF StrictSubsetOrdering
<1> QED
  BY <1>6

\* A set of numbers that is not empty has a least one.
LEMMA Least ==
    ASSUME NEW S \in SUBSET Nat, S # {}
    PROVE  \E m \in S : \A c \in S : m <= c
<1>1. PICK x \in S : TRUE
  OBVIOUS
<1> DEFINE T == {x - c : c \in {d \in S : d <= x}}
<1>2. /\ T # {} /\ T \in SUBSET Nat /\ x \in Nat
      /\ \A n \in T : n <= x
  BY <1>1
<1>3. \E t \in T : {n \in T : n > t} = {}
  <2> HIDE DEF T
  <2> QED
    BY <1>2, Greatest
<1>4. PICK t \in T : {n \in T : n > t} = {}
  BY <1>3
<1>5. PICK m \in S : m <= x /\ t = x - m
  BY <1>4
<1>6. ASSUME NEW c \in S PROVE m <= c
  <2>1. CASE c <= x
    <3>1. x - c \in T
      BY <2>1
    <3>2. ~(x - c > t)
      BY <1>4, <3>1
    <3> QED
      BY <1>1, <1>5, <3>2
  <2>2. CASE ~(c <= x)
    BY <1>1, <1>5, <2>2
  <2> QED
    BY <2>1, <2>2
<1> QED
  BY <1>6

\* Induction for a set of numbers, which can be cited for any property by way of the set
\* of the numbers that have it.
LEMMA SetInduction ==
    ASSUME NEW T \in SUBSET Nat, 0 \in T, \A n \in T : n + 1 \in T
    PROVE  T = Nat
<1> DEFINE Out == {n \in Nat : n \notin T}
<1> SUFFICES ASSUME Out # {} PROVE FALSE
  OBVIOUS
<1>1. PICK m \in Out : \A c \in Out : m <= c
  <2>1. Out \in SUBSET Nat
    OBVIOUS
  <2> HIDE DEF Out
  <2> QED
    BY <2>1, Least
<1>2. m \in Nat /\ m # 0 /\ m - 1 \in Nat /\ ~(m <= m - 1)
  BY <1>1
<1>3. m - 1 \in T
  BY <1>1, <1>2
<1>4. (m - 1) + 1 \in T
  BY <1>3
<1> QED
  BY <1>1, <1>2, <1>4

\* f starts at a and each of its values is a step from the one before.
Runs(f, n, a, step) == f[0] = a /\ \A i \in 1 .. n : f[i] = step[<<i, f[i - 1]>>]

\* A function defined by recursion on a number exists: one for every number of steps.
LEMMA Recursion ==
    ASSUME NEW S, NEW a \in S, NEW step \in [Nat \X S -> S]
    PROVE  \A n \in Nat : \E f \in [0 .. n -> S] : Runs(f, n, a, step)
<1> USE DEF Runs
<1> DEFINE T == {n \in Nat : \E f \in [0 .. n -> S] : Runs(f, n, a, step)}
<1>1. 0 \in T
  <2>1. [i \in 0 .. 0 |-> a] \in [0 .. 0 -> S] /\ Runs([i \in 0 .. 0 |-> a], 0, a, step)
    OBVIOUS
  <2> QED
    BY <2>1
<1>2. ASSUME NEW n \in T PROVE n + 1 \in T
  <2>1. PICK f \in [0 .. n -> S] : Runs(f, n, a, step)
    OBVIOUS
  <2> DEFINE e == [i \in 0 .. n + 1 |-> IF i = n + 1 THEN step[<<i, f[n]>>] ELSE f[i]]
  <2>2. n \in Nat /\ f[n] \in S /\ step[<<n + 1, f[n]>>] \in S
    OBVIOUS
  <2>3. e \in [0 .. n + 1 -> S] /\ e[0] = a
    BY <2>1, <2>2
  <2>4. ASSUME NEW i \in 1 .. n + 1 PROVE e[i] = step[<<i, e[i - 1]>>]
    <3>1. CASE i = n + 1
      <4>1. e[i] = step[<<i, f[n]>>] /\ e[i - 1] = f[n]
        BY <2>2, <3>1
      <4> QED
        BY <4>1
    <3>2. CASE i # n + 1
      <4>1. i \in 1 .. n /\ e[i] = f[i] /\ e[i - 1] = f[i - 1]
        BY <2>2, <3>2
      <4> QED
        BY <2>1, <4>1
    <3> QED
      BY <3>1, <3>2
  <2> HIDE DEF e
  <2>5. Runs(e, n + 1, a, step) /\ n + 1 \in Nat
    BY <2>2, <2>3, <2>4
  <2> QED
    BY <2>3, <2>5
<1>3. T \in SUBSET Nat
  OBVIOUS
<1>4. T = Nat
  <2> HIDE DEF T
  <2> QED
    BY <1>1, <1>2, <1>3, SetInduction
<1> QED
  BY <1>4

\* A dearer share makes the position worth no less.
LEMMA WorthGrows ==
    ASSUME NEW q \in Nat, NEW p \in Nat, NEW t \in Nat, p <= t
    PROVE  q * p <= q * t /\ q * p \in Nat /\ q * t \in Nat
<1>1. q * (t - p) >= 0 /\ q * (t - p) = q * t - q * p
  BY Z3
<1> QED
  BY <1>1, Z3

-----------------------------------------------------------------------------
(* Tables: sequences of rows of any kind.                                 *)

\* Rows in a sequence, whatever they are.
IsTable(s) == s \in Seq(Range(s))

\* Any sequence is a table.
LEMMA SeqIsTable ==
    ASSUME NEW S, NEW s \in Seq(S)
    PROVE  IsTable(s) /\ (\A i \in DOMAIN s : s[i] \in S)
<1>1. Len(s) \in Nat /\ DOMAIN s = 1 .. Len(s) /\ s \in [1 .. Len(s) -> S]
  BY LenProperties
<1>2. s \in [1 .. Len(s) -> Range(s)]
  BY <1>1 DEF Range
<1> QED
  BY <1>1, <1>2, IsASeq DEF IsTable

\* A table has finitely many places.
LEMMA TablePlaces ==
    ASSUME NEW s, IsTable(s)
    PROVE  Len(s) \in Nat /\ DOMAIN s = 1 .. Len(s) /\ IsFiniteSet(DOMAIN s)
<1>1. Len(s) \in Nat /\ DOMAIN s = 1 .. Len(s)
  BY LenProperties DEF IsTable
<1>2. IsFiniteSet(1 .. Len(s))
  <2>1. 1 \in Int /\ Len(s) \in Int
    BY <1>1
  <2> QED
    BY <2>1, FS_Interval
<1> QED
  BY <1>1, <1>2

\* The table without a row.
LEMMA NoRows == IsTable(<<>>) /\ DOMAIN <<>> = {}
<1>1. <<>> \in Seq({})
  BY EmptySeq
<1>2. DOMAIN <<>> = {}
  OBVIOUS
<1> QED
  BY <1>1, <1>2, SeqIsTable

\* A row added at the end.
LEMMA TableAdd ==
    ASSUME NEW s, IsTable(s), NEW e
    PROVE  /\ IsTable(Append(s, e))
           /\ DOMAIN Append(s, e) = DOMAIN s \cup {Len(s) + 1} /\ Len(s) + 1 \notin DOMAIN s
           /\ Append(s, e)[Len(s) + 1] = e /\ \A i \in DOMAIN s : Append(s, e)[i] = s[i]
<1> DEFINE S == Range(s) \cup {e}
<1>1. Len(s) \in Nat /\ DOMAIN s = 1 .. Len(s) /\ s \in [1 .. Len(s) -> Range(s)]
  BY LenProperties DEF IsTable
<1>2. s \in Seq(S) /\ e \in S
  <2>1. s \in [1 .. Len(s) -> S] /\ e \in S
    BY <1>1
  <2> HIDE DEF S
  <2> QED
    BY <1>1, <2>1, IsASeq
<1> HIDE DEF S
<1>3. /\ Len(Append(s, e)) = Len(s) + 1 /\ Append(s, e) \in Seq(S)
      /\ \A i \in 1 .. Len(s) : Append(s, e)[i] = s[i]
      /\ Append(s, e)[Len(s) + 1] = e
  BY <1>2, AppendProperties
<1>4. DOMAIN Append(s, e) = 1 .. Len(s) + 1
  BY <1>3, LenProperties
<1>5. 1 .. Len(s) + 1 = (1 .. Len(s)) \cup {Len(s) + 1} /\ Len(s) + 1 \notin 1 .. Len(s)
  BY <1>1
<1> QED
  BY <1>1, <1>3, <1>4, <1>5, SeqIsTable

\* Two tables, one after the other.
LEMMA TableJoin ==
    ASSUME NEW s, IsTable(s), NEW t, IsTable(t)
    PROVE  /\ IsTable(s \o t)
           /\ DOMAIN s \subseteq DOMAIN (s \o t)
           /\ \A i \in DOMAIN s : (s \o t)[i] = s[i]
           /\ \A i \in DOMAIN (s \o t) \ DOMAIN s : \E j \in DOMAIN t : (s \o t)[i] = t[j]
<1> DEFINE S == Range(s) \cup Range(t)
<1>0. /\ Len(s) \in Nat /\ s \in [1 .. Len(s) -> Range(s)] /\ DOMAIN s = 1 .. Len(s)
      /\ Len(t) \in Nat /\ t \in [1 .. Len(t) -> Range(t)] /\ DOMAIN t = 1 .. Len(t)
  BY LenProperties DEF IsTable
<1>1. s \in Seq(S) /\ t \in Seq(S)
  <2>2. s \in [1 .. Len(s) -> S] /\ t \in [1 .. Len(t) -> S]
    BY <1>0
  <2> HIDE DEF S
  <2> QED
    BY <1>0, <2>2, IsASeq
<1> HIDE DEF S
<1>2. /\ s \o t \in Seq(S) /\ Len(s \o t) = Len(s) + Len(t)
      /\ \A i \in 1 .. Len(s) + Len(t) : (s \o t)[i] = (IF i <= Len(s) THEN s[i] ELSE t[i - Len(s)])
  BY <1>1, ConcatProperties
<1>3. IsTable(s \o t) /\ DOMAIN (s \o t) = 1 .. Len(s) + Len(t)
  BY <1>2, SeqIsTable, LenProperties
<1>4. \A i \in 1 .. Len(s) : i \in 1 .. Len(s) + Len(t) /\ i <= Len(s)
  BY <1>0
<1>5. \A i \in (1 .. Len(s) + Len(t)) \ (1 .. Len(s)) : ~(i <= Len(s)) /\ i - Len(s) \in 1 .. Len(t)
  BY <1>0
<1> QED
  BY <1>0, <1>2, <1>3, <1>4, <1>5

-----------------------------------------------------------------------------
(* Sums over finite sets, in any order.                                    *)

\* Induction for the subsets of a finite set, by way of the set of those that have the property.
LEMMA SubsetInduction ==
    ASSUME NEW S, IsFiniteSet(S), NEW P, {} \in P,
           \A U \in SUBSET S, x \in S : x \notin U /\ U \in P => U \cup {x} \in P
    PROVE  S \in P
<1> DEFINE T == {n \in Nat : \A U \in SUBSET S : Cardinality(U) = n => U \in P}
<1>0. \A U \in SUBSET S : IsFiniteSet(U) /\ Cardinality(U) \in Nat
  BY FS_Subset, FS_CardinalityType
<1>1. 0 \in T
  <2>1. \A U \in SUBSET S : Cardinality(U) = 0 => U = {}
    BY <1>0, FS_EmptySet
  <2> QED
    BY <2>1
<1>2. ASSUME NEW n \in T PROVE n + 1 \in T
  <2>1. n \in Nat /\ n + 1 \in Nat /\ n + 1 # 0 /\ (n + 1) - 1 = n
    OBVIOUS
  <2>2. ASSUME NEW U \in SUBSET S, Cardinality(U) = n + 1 PROVE U \in P
    <3>1. U # {}
      BY <2>1, <2>2, FS_EmptySet
    <3>2. PICK x \in U : TRUE
      BY <3>1
    <3>3. Cardinality(U \ {x}) = n
      BY <1>0, <2>1, <2>2, FS_RemoveElement
    <3>4. U \ {x} \in P
      BY <3>3
    <3>5. (U \ {x}) \cup {x} = U /\ x \notin U \ {x} /\ x \in S /\ U \ {x} \in SUBSET S
      OBVIOUS
    <3> HIDE DEF T
    <3>6. (U \ {x}) \cup {x} \in P
      BY <3>4, <3>5
    <3> QED
      BY <3>5, <3>6
  <2> QED
    BY <2>1, <2>2
<1>3. T = Nat
  <2>1. T \in SUBSET Nat
    OBVIOUS
  <2> HIDE DEF T
  <2> QED
    BY <1>1, <1>2, <2>1, SetInduction
<1> QED
  BY <1>0, <1>3

\* The sums of f over the subsets of S, as they are defined.
SumsOf(sums, f, S) ==
    sums = [U \in SUBSET S |-> IF U = {} THEN 0 ELSE f[CHOOSE x \in U : TRUE] + sums[U \ {CHOOSE x \in U : TRUE}]]

\* The sum over S is the last of them.
LEMMA SumUnfolds ==
    ASSUME NEW f, NEW S
    PROVE  SumFunctionOnSet(f, S) = (CHOOSE sums : SumsOf(sums, f, S))[S]
BY DEF SumFunctionOnSet, FoldFunctionOnSet, MapThenFoldSet, SumsOf

\* What each of them is.
LEMMA SumsAt ==
    ASSUME NEW f, NEW S, NEW sums, SumsOf(sums, f, S), NEW U \in SUBSET S
    PROVE  sums[U] = (IF U = {} THEN 0 ELSE f[CHOOSE x \in U : TRUE] + sums[U \ {CHOOSE x \in U : TRUE}])
BY Zenon DEF SumsOf

\* There are such sums over a finite set.
LEMMA SumsExist ==
    ASSUME NEW f, NEW S, IsFiniteSet(S)
    PROVE  \E sums : SumsOf(sums, f, S)
<1> DEFINE Pick(U) == CHOOSE x \in U : TRUE
           Level(n) == {U \in SUBSET S : Cardinality(U) <= n}
           Upto(t, n) == t = [U \in Level(n) |-> IF U = {} THEN 0 ELSE f[Pick(U)] + t[U \ {Pick(U)}]]
           T == {n \in Nat : \E t : Upto(t, n)}
<1>0. \A U \in SUBSET S : IsFiniteSet(U) /\ Cardinality(U) \in Nat
  BY FS_Subset, FS_CardinalityType
<1>1. ASSUME NEW n \in Nat, NEW U \in Level(n), U # {} PROVE n # 0 /\ U \ {Pick(U)} \in Level(n - 1)
  <2>1. Pick(U) \in U
    BY <1>1
  <2>2. U \in SUBSET S /\ Cardinality(U) <= n
    OBVIOUS
  <2>3. Cardinality(U \ {Pick(U)}) = Cardinality(U) - 1
    <3> HIDE DEF Pick, Level
    <3> QED
      BY <1>0, <2>1, <2>2, FS_RemoveElement
  <2>4. Cardinality(U) # 0
    BY <1>0, <1>1, <2>2, FS_EmptySet
  <2>5. Cardinality(U \ {Pick(U)}) <= n - 1 /\ U \ {Pick(U)} \in SUBSET S /\ n # 0
    <3> HIDE DEF Pick, Level
    <3> QED
      BY <1>0, <2>2, <2>3, <2>4
  <2> QED
    BY <2>5
<1> HIDE DEF Pick
<1>2. 0 \in T
  <2> DEFINE t == [U \in Level(0) |-> 0]
  <2>1. Upto(t, 0)
    <3>1. \A U \in Level(0) : U = {}
      BY <1>1
    <3> QED
      BY <3>1
  <2> QED
    BY <2>1
<1>3. ASSUME NEW n \in T PROVE n + 1 \in T
  <2>1. PICK t : Upto(t, n)
    OBVIOUS
  <2>2. n \in Nat /\ n + 1 \in Nat /\ (n + 1) - 1 = n
    OBVIOUS
  <2> DEFINE g == [U \in Level(n + 1) |-> IF U = {} THEN 0 ELSE f[Pick(U)] + t[U \ {Pick(U)}]]
  <2>3. Level(n) \subseteq Level(n + 1)
    BY <1>0, <2>2
  <2>4. \A U \in Level(n) : t[U] = (IF U = {} THEN 0 ELSE f[Pick(U)] + t[U \ {Pick(U)}])
    BY <2>1, Zenon
  <2>5. \A U \in Level(n) : g[U] = t[U]
    BY <2>3, <2>4
  <2>6. ASSUME NEW U \in Level(n + 1), U # {} PROVE U \ {Pick(U)} \in Level(n)
    <3> HIDE DEF Level
    <3> QED
      BY <1>1, <2>2, <2>6
  <2>7. \A U \in Level(n + 1) : U # {} => g[U \ {Pick(U)}] = t[U \ {Pick(U)}]
    <3> HIDE DEF g, Level
    <3> QED
      BY <2>5, <2>6
  <2>8. g = [U \in Level(n + 1) |-> IF U = {} THEN 0 ELSE f[Pick(U)] + g[U \ {Pick(U)}]]
    <3>1. \A U \in Level(n + 1) : (IF U = {} THEN 0 ELSE f[Pick(U)] + t[U \ {Pick(U)}])
                                   = (IF U = {} THEN 0 ELSE f[Pick(U)] + g[U \ {Pick(U)}])
      <4> HIDE DEF g, Level
      <4> QED
        BY <2>7
    <3> DEFINE a(U) == IF U = {} THEN 0 ELSE f[Pick(U)] + t[U \ {Pick(U)}]
               b(U) == IF U = {} THEN 0 ELSE f[Pick(U)] + g[U \ {Pick(U)}]
    <3>2. \A U \in Level(n + 1) : a(U) = b(U)
      BY <3>1
    <3>3. g = [U \in Level(n + 1) |-> a(U)]
      OBVIOUS
    <3> HIDE DEF a, b, g, Level
    <3>4. g = [U \in Level(n + 1) |-> b(U)]
      BY <3>2, <3>3
    <3> QED
      BY <3>4 DEF b
  <2>9. Upto(g, n + 1)
    BY <2>8
  <2> QED
    BY <2>2, <2>9
<1>4. T = Nat
  <2>1. T \in SUBSET Nat
    OBVIOUS
  <2> HIDE DEF T
  <2> QED
    BY <1>2, <1>3, <2>1, SetInduction
<1>5. PICK t : Upto(t, Cardinality(S))
  <2>1. Cardinality(S) \in T
    BY <1>0, <1>4
  <2> QED
    BY <2>1
<1>6. Level(Cardinality(S)) = SUBSET S
  <2>1. \A U \in SUBSET S : Cardinality(U) <= Cardinality(S)
    BY FS_Subset
  <2> QED
    BY <2>1
<1>7. SumsOf(t, f, S)
  <2> HIDE DEF Level
  <2> QED
    BY <1>5, <1>6, Zenon DEF SumsOf, Pick
<1> QED
  BY <1>7

\* Sums over a set and over a set that holds it agree.
LEMMA SumsAgree ==
    ASSUME NEW f, NEW S, IsFiniteSet(S), NEW R \in SUBSET S, NEW s, NEW r, SumsOf(s, f, S), SumsOf(r, f, R)
    PROVE  \A U \in SUBSET R : s[U] = r[U]
<1> DEFINE Pick(U) == CHOOSE x \in U : TRUE
           T == {n \in Nat : \A U \in SUBSET R : Cardinality(U) = n => s[U] = r[U]}
<1>0. \A U \in SUBSET R : IsFiniteSet(U) /\ Cardinality(U) \in Nat /\ U \in SUBSET S
  BY FS_Subset, FS_CardinalityType
<1>1. \A U \in SUBSET R : /\ s[U] = (IF U = {} THEN 0 ELSE f[Pick(U)] + s[U \ {Pick(U)}])
                          /\ r[U] = (IF U = {} THEN 0 ELSE f[Pick(U)] + r[U \ {Pick(U)}])
  <2> TAKE U \in SUBSET R
  <2>1. U \in SUBSET S
    OBVIOUS
  <2>2. s[U] = (IF U = {} THEN 0 ELSE f[Pick(U)] + s[U \ {Pick(U)}])
    BY <2>1, SumsAt
  <2>3. r[U] = (IF U = {} THEN 0 ELSE f[Pick(U)] + r[U \ {Pick(U)}])
    <3>1. SumsOf(r, f, R)
      OBVIOUS
    <3> QED
      BY <3>1, Zenon DEF SumsOf
  <2> QED
    BY <2>2, <2>3
<1>2. 0 \in T
  <2>1. \A U \in SUBSET R : Cardinality(U) = 0 => U = {}
    BY <1>0, FS_EmptySet
  <2>2. s[{}] = 0 /\ r[{}] = 0
    BY <1>1
  <2> QED
    BY <2>1, <2>2
<1>3. ASSUME NEW n \in T PROVE n + 1 \in T
  <2>1. n \in Nat /\ n + 1 \in Nat /\ n + 1 # 0 /\ (n + 1) - 1 = n
    OBVIOUS
  <2>2. ASSUME NEW U \in SUBSET R, Cardinality(U) = n + 1 PROVE s[U] = r[U]
    <3>1. U # {}
      BY <2>1, <2>2, FS_EmptySet
    <3>2. Pick(U) \in U
      BY <3>1
    <3> HIDE DEF Pick
    <3>3. Cardinality(U \ {Pick(U)}) = n /\ U \ {Pick(U)} \in SUBSET R
      BY <1>0, <2>1, <2>2, <3>2, FS_RemoveElement
    <3>4. s[U \ {Pick(U)}] = r[U \ {Pick(U)}]
      BY <3>3
    <3> HIDE DEF T
    <3> QED
      BY <1>1, <3>1, <3>4
  <2> QED
    BY <2>1, <2>2
<1>4. T = Nat
  <2>1. T \in SUBSET Nat
    OBVIOUS
  <2> HIDE DEF T
  <2> QED
    BY <1>2, <1>3, <2>1, SetInduction
<1> QED
  BY <1>0, <1>4

\* Nothing sums to zero, and the first that is chosen is added to the rest.
LEMMA SumFirst ==
    ASSUME NEW f, NEW S, IsFiniteSet(S)
    PROVE  /\ SumFunctionOnSet(f, {}) = 0
           /\ S # {} => LET x == CHOOSE x \in S : TRUE
                        IN SumFunctionOnSet(f, S) = f[x] + SumFunctionOnSet(f, S \ {x})
<1> DEFINE All(U) == CHOOSE sums : SumsOf(sums, f, U)
           x == CHOOSE x \in S : TRUE
<1>1. ASSUME NEW U, IsFiniteSet(U) PROVE SumFunctionOnSet(f, U) = All(U)[U] /\ SumsOf(All(U), f, U)
  BY <1>1, SumUnfolds, SumsExist
<1>2. SumFunctionOnSet(f, {}) = 0
  <2>1. IsFiniteSet({})
    BY FS_EmptySet
  <2>2. SumFunctionOnSet(f, {}) = All({})[{}] /\ SumsOf(All({}), f, {})
    BY <1>1, <2>1
  <2> HIDE DEF All
  <2>3. {} \in SUBSET {}
    OBVIOUS
  <2>4. All({})[{}] = (IF {} = {} THEN 0 ELSE f[CHOOSE y \in {} : TRUE] + All({})[{} \ {CHOOSE y \in {} : TRUE}])
    BY <2>2, <2>3, SumsAt
  <2> QED
    BY <2>2, <2>4
<1>3. ASSUME S # {} PROVE SumFunctionOnSet(f, S) = f[x] + SumFunctionOnSet(f, S \ {x})
  <2>1. IsFiniteSet(S \ {x}) /\ S \ {x} \in SUBSET S
    BY FS_Subset
  <2>2. SumFunctionOnSet(f, S) = All(S)[S] /\ SumsOf(All(S), f, S)
    BY <1>1
  <2>3. SumFunctionOnSet(f, S \ {x}) = All(S \ {x})[S \ {x}] /\ SumsOf(All(S \ {x}), f, S \ {x})
    BY <1>1, <2>1
  <2>4. All(S)[S] = (IF S = {} THEN 0 ELSE f[x] + All(S)[S \ {x}])
    <3>1. S \in SUBSET S
      OBVIOUS
    <3> HIDE DEF All
    <3> QED
      BY <2>2, <3>1, SumsAt
  <2>5. All(S)[S \ {x}] = All(S \ {x})[S \ {x}]
    <3>1. S \ {x} \in SUBSET (S \ {x})
      OBVIOUS
    <3> HIDE DEF All, x
    <3> QED
      BY <2>1, <2>2, <2>3, <3>1, SumsAgree
  <2> HIDE DEF All, x
  <2> QED
    BY <1>3, <2>2, <2>3, <2>4, <2>5
<1> QED
  BY <1>2, <1>3

\* A sum of whole numbers is one.
LEMMA SumIsInt ==
    ASSUME NEW S, IsFiniteSet(S), NEW f, \A x \in S : f[x] \in Int
    PROVE  \A U \in SUBSET S : SumFunctionOnSet(f, U) \in Int
<1> DEFINE T == {n \in Nat : \A U \in SUBSET S : Cardinality(U) = n => SumFunctionOnSet(f, U) \in Int}
<1>0. \A U \in SUBSET S : IsFiniteSet(U) /\ Cardinality(U) \in Nat
  BY FS_Subset, FS_CardinalityType
<1>2. 0 \in T
  <2>1. \A U \in SUBSET S : Cardinality(U) = 0 => U = {}
    BY <1>0, FS_EmptySet
  <2>2. SumFunctionOnSet(f, {}) = 0
    BY SumFirst
  <2> QED
    BY <2>1, <2>2
<1>3. ASSUME NEW n \in T PROVE n + 1 \in T
  <2>1. n \in Nat /\ n + 1 \in Nat /\ n + 1 # 0 /\ (n + 1) - 1 = n
    OBVIOUS
  <2>2. ASSUME NEW U \in SUBSET S, Cardinality(U) = n + 1 PROVE SumFunctionOnSet(f, U) \in Int
    <3> DEFINE x == CHOOSE x \in U : TRUE
    <3>1. U # {}
      BY <2>1, <2>2, FS_EmptySet
    <3>2. x \in U
      BY <3>1
    <3>3. SumFunctionOnSet(f, U) = f[x] + SumFunctionOnSet(f, U \ {x})
      BY <1>0, <3>1, SumFirst
    <3> HIDE DEF x
    <3>4. Cardinality(U \ {x}) = n /\ U \ {x} \in SUBSET S
      BY <1>0, <2>1, <2>2, <3>2, FS_RemoveElement
    <3>5. SumFunctionOnSet(f, U \ {x}) \in Int /\ f[x] \in Int
      BY <3>2, <3>4
    <3> QED
      BY <3>3, <3>5
  <2> QED
    BY <2>1, <2>2
<1>4. T = Nat
  <2>1. T \in SUBSET Nat
    OBVIOUS
  <2> HIDE DEF T
  <2> QED
    BY <1>2, <1>3, <2>1, SetInduction
<1> QED
  BY <1>0, <1>4

\* Any element can be taken out of a sum.
LEMMA SumWithout ==
    ASSUME NEW S, IsFiniteSet(S), NEW f, \A x \in S : f[x] \in Int
    PROVE  \A U \in SUBSET S : \A x \in U : SumFunctionOnSet(f, U) = f[x] + SumFunctionOnSet(f, U \ {x})
<1> DEFINE Out(U) == \A x \in U : SumFunctionOnSet(f, U) = f[x] + SumFunctionOnSet(f, U \ {x})
           T == {n \in Nat : \A U \in SUBSET S : Cardinality(U) = n => Out(U)}
<1>0. \A U \in SUBSET S : IsFiniteSet(U) /\ Cardinality(U) \in Nat /\ SumFunctionOnSet(f, U) \in Int
  BY FS_Subset, FS_CardinalityType, SumIsInt
<1>2. 0 \in T
  <2>1. \A U \in SUBSET S : Cardinality(U) = 0 => U = {}
    BY <1>0, FS_EmptySet
  <2> QED
    BY <2>1
<1>3. ASSUME NEW n \in T PROVE n + 1 \in T
  <2>1. n \in Nat /\ n + 1 \in Nat /\ n + 1 # 0 /\ (n + 1) - 1 = n
    OBVIOUS
  <2>2. ASSUME NEW U \in SUBSET S, Cardinality(U) = n + 1, NEW x \in U
        PROVE  SumFunctionOnSet(f, U) = f[x] + SumFunctionOnSet(f, U \ {x})
    <3> DEFINE y == CHOOSE y \in U : TRUE
    <3>1. y \in U /\ SumFunctionOnSet(f, U) = f[y] + SumFunctionOnSet(f, U \ {y})
      <4>1. IsFiniteSet(U) /\ U # {}
        BY <1>0
      <4> QED
        BY <4>1, SumFirst
    <3> HIDE DEF y
    <3>2. CASE x = y
      BY <3>1, <3>2
    <3>3. CASE x # y
      <4>1. /\ Cardinality(U \ {x}) = n /\ Cardinality(U \ {y}) = n
            /\ U \ {x} \in SUBSET S /\ U \ {y} \in SUBSET S
        BY <1>0, <2>1, <2>2, <3>1, FS_RemoveElement
      <4>2. Out(U \ {x}) /\ Out(U \ {y})
        BY <4>1
      <4>3. y \in U \ {x} /\ x \in U \ {y} /\ (U \ {x}) \ {y} = (U \ {y}) \ {x} /\ (U \ {y}) \ {x} \in SUBSET S
        BY <3>1, <3>3
      <4>4. /\ SumFunctionOnSet(f, U \ {x}) = f[y] + SumFunctionOnSet(f, (U \ {y}) \ {x})
            /\ SumFunctionOnSet(f, U \ {y}) = f[x] + SumFunctionOnSet(f, (U \ {y}) \ {x})
        BY <4>2, <4>3
      <4>5. f[x] \in Int /\ f[y] \in Int /\ SumFunctionOnSet(f, (U \ {y}) \ {x}) \in Int
        BY <1>0, <3>1, <4>3
      <4> HIDE DEF T, Out
      <4> QED
        BY <3>1, <4>4, <4>5
    <3> QED
      BY <3>2, <3>3
  <2> QED
    BY <2>1, <2>2
<1>4. T = Nat
  <2>1. T \in SUBSET Nat
    OBVIOUS
  <2> HIDE DEF T
  <2> QED
    BY <1>2, <1>3, <2>1, SetInduction
<1> QED
  BY <1>0, <1>4

\* One more element adds its value.
LEMMA SumAdd ==
    ASSUME NEW S, IsFiniteSet(S), NEW x, x \notin S, NEW f, \A y \in S : f[y] \in Int, f[x] \in Int
    PROVE  /\ SumFunctionOnSet(f, S \cup {x}) = f[x] + SumFunctionOnSet(f, S)
           /\ SumFunctionOnSet(f, S) \in Int
<1> DEFINE R == S \cup {x}
<1>1. IsFiniteSet(R) /\ (\A y \in R : f[y] \in Int) /\ x \in R /\ R \ {x} = S /\ R \in SUBSET R
  BY FS_AddElement
<1> HIDE DEF R
<1>2. SumFunctionOnSet(f, R) = f[x] + SumFunctionOnSet(f, R \ {x})
  BY <1>1, SumWithout
<1>3. SumFunctionOnSet(f, S) \in Int
  BY SumIsInt
<1> QED
  BY <1>1, <1>2, <1>3 DEF R

\* Functions that agree on a set have the same sum over it.
LEMMA SumSame ==
    ASSUME NEW S, IsFiniteSet(S), NEW f, NEW g, \A x \in S : f[x] \in Int /\ g[x] = f[x]
    PROVE  SumFunctionOnSet(f, S) = SumFunctionOnSet(g, S)
<1> DEFINE P == {U \in SUBSET S : SumFunctionOnSet(f, U) = SumFunctionOnSet(g, U)}
<1>1. {} \in P
  <2>1. SumFunctionOnSet(f, {}) = 0 /\ SumFunctionOnSet(g, {}) = 0
    BY SumFirst
  <2> QED
    BY <2>1
<1>2. ASSUME NEW U \in SUBSET S, NEW x \in S, x \notin U, U \in P PROVE U \cup {x} \in P
  <2>1. IsFiniteSet(U)
    BY FS_Subset
  <2>2. /\ SumFunctionOnSet(f, U \cup {x}) = f[x] + SumFunctionOnSet(f, U)
        /\ SumFunctionOnSet(g, U \cup {x}) = g[x] + SumFunctionOnSet(g, U)
    <3>1. \A y \in U : f[y] \in Int /\ g[y] \in Int
      OBVIOUS
    <3>2. f[x] \in Int /\ g[x] \in Int
      OBVIOUS
    <3> QED
      BY <1>2, <2>1, <3>1, <3>2, SumAdd
  <2> QED
    BY <1>2, <2>2
<1> HIDE DEF P
<1>3. S \in P
  BY <1>1, <1>2, SubsetInduction
<1> QED
  BY <1>3 DEF P

\* The sum over two sets apart is the sum of their sums.
LEMMA SumUnion ==
    ASSUME NEW S, IsFiniteSet(S), NEW R, IsFiniteSet(R), S \cap R = {}, NEW f,
           \A x \in S \cup R : f[x] \in Int
    PROVE  SumFunctionOnSet(f, S \cup R) = SumFunctionOnSet(f, S) + SumFunctionOnSet(f, R)
<1> DEFINE P == {U \in SUBSET S : SumFunctionOnSet(f, U \cup R) = SumFunctionOnSet(f, U) + SumFunctionOnSet(f, R)}
<1>0. SumFunctionOnSet(f, R) \in Int
  BY SumIsInt
<1>1. {} \in P
  <2>1. SumFunctionOnSet(f, {}) = 0 /\ {} \cup R = R
    BY SumFirst
  <2> QED
    BY <1>0, <2>1
<1>2. ASSUME NEW U \in SUBSET S, NEW x \in S, x \notin U, U \in P PROVE U \cup {x} \in P
  <2>1. IsFiniteSet(U) /\ IsFiniteSet(U \cup R) /\ x \notin U \cup R /\ (U \cup {x}) \cup R = (U \cup R) \cup {x}
    <3>1. IsFiniteSet(U)
      BY FS_Subset
    <3>2. IsFiniteSet(U \cup R)
      BY <3>1, FS_Union
    <3> QED
      BY <1>2, <3>1, <3>2
  <2>2. /\ SumFunctionOnSet(f, U \cup {x}) = f[x] + SumFunctionOnSet(f, U)
        /\ SumFunctionOnSet(f, U) \in Int
    BY <1>2, <2>1, SumAdd
  <2>3. SumFunctionOnSet(f, (U \cup R) \cup {x}) = f[x] + SumFunctionOnSet(f, U \cup R)
    <3>1. \A y \in U \cup R : f[y] \in Int
      OBVIOUS
    <3>2. f[x] \in Int
      OBVIOUS
    <3> QED
      BY <2>1, <3>1, <3>2, SumAdd
  <2>4. f[x] \in Int /\ SumFunctionOnSet(f, U \cup R) = SumFunctionOnSet(f, U) + SumFunctionOnSet(f, R)
    BY <1>2
  <2>5. SumFunctionOnSet(f, (U \cup {x}) \cup R) = SumFunctionOnSet(f, (U \cup R) \cup {x})
    BY <2>1, Zenon
  <2> DEFINE a == SumFunctionOnSet(f, U)
             b == SumFunctionOnSet(f, R)
             c == SumFunctionOnSet(f, U \cup R)
             d == SumFunctionOnSet(f, U \cup {x})
             e == SumFunctionOnSet(f, (U \cup {x}) \cup R)
  <2>6. a \in Int /\ b \in Int /\ f[x] \in Int /\ c = a + b /\ d = f[x] + a /\ e = f[x] + c
    BY <1>0, <2>2, <2>3, <2>4, <2>5
  <2>7. U \cup {x} \in SUBSET S
    OBVIOUS
  <2> HIDE DEF a, b, c, d, e
  <2>8. e = d + b
    BY <2>6
  <2> QED
    BY <2>7, <2>8 DEF a, b, c, d, e
<1> HIDE DEF P
<1>3. S \in P
  BY <1>1, <1>2, SubsetInduction
<1> QED
  BY <1>3 DEF P

\* The members of S with the key t.
Group(S, key, t) == {x \in S : key[x] = t}

\* A sum is the sum of the sums of its groups, whatever the rows are grouped by.
LEMMA SumByGroup ==
    ASSUME NEW S, IsFiniteSet(S), NEW f, \A x \in S : f[x] \in Int,
           NEW key, NEW G, IsFiniteSet(G), NEW g,
           \A x \in S : key[x] \in G,
           \A t \in G : g[t] = SumFunctionOnSet(f, Group(S, key, t))
    PROVE  SumFunctionOnSet(g, G) = SumFunctionOnSet(f, S)
<1> DEFINE In(U) == {x \in S : key[x] \in U}
           P == {U \in SUBSET G : SumFunctionOnSet(g, U) = SumFunctionOnSet(f, In(U))}
<1>1. {} \in P
  <2>1. SumFunctionOnSet(f, {}) = 0 /\ SumFunctionOnSet(g, {}) = 0 /\ In({}) = {}
    BY SumFirst, FS_EmptySet
  <2> QED
    BY <2>1
<1>2. \A R \in SUBSET S : IsFiniteSet(R) /\ SumFunctionOnSet(f, R) \in Int
  BY FS_Subset, SumIsInt
<1>3. \A t \in G : g[t] \in Int
  BY <1>2 DEF Group
<1>4. ASSUME NEW U \in SUBSET G, NEW t \in G, t \notin U, U \in P PROVE U \cup {t} \in P
  <2> DEFINE R == Group(S, key, t)
  <2>1. IsFiniteSet(U)
    BY FS_Subset
  <2>2. SumFunctionOnSet(g, U \cup {t}) = g[t] + SumFunctionOnSet(g, U)
    BY <1>3, <1>4, <2>1, SumAdd
  <2>3. In(U \cup {t}) = In(U) \cup R /\ In(U) \cap R = {} /\ In(U) \in SUBSET S /\ R \in SUBSET S
    BY <1>4 DEF Group
  <2>4. g[t] = SumFunctionOnSet(f, R) /\ SumFunctionOnSet(g, U) = SumFunctionOnSet(f, In(U))
    BY <1>4
  <2> HIDE DEF In, R
  <2>5. SumFunctionOnSet(f, In(U) \cup R) = SumFunctionOnSet(f, In(U)) + SumFunctionOnSet(f, R)
    BY <1>2, <2>3, SumUnion
  <2>6. SumFunctionOnSet(f, In(U)) \in Int /\ SumFunctionOnSet(f, R) \in Int
    BY <1>2, <2>3
  <2>7. SumFunctionOnSet(f, In(U \cup {t})) = SumFunctionOnSet(f, In(U) \cup R)
    BY <2>3, Zenon
  <2> DEFINE a == SumFunctionOnSet(f, In(U))
             b == SumFunctionOnSet(f, R)
             c == SumFunctionOnSet(g, U \cup {t})
             d == SumFunctionOnSet(f, In(U \cup {t}))
  <2>8. a \in Int /\ b \in Int /\ c = b + a /\ d = a + b
    BY <2>2, <2>4, <2>5, <2>6, <2>7
  <2> HIDE DEF a, b, c, d
  <2>9. c = d
    BY <2>8
  <2> QED
    BY <2>9 DEF c, d, In
<1>5. G \in P
  <2> HIDE DEF P
  <2> QED
    BY <1>1, <1>4, SubsetInduction
<1>6. In(G) = S
  OBVIOUS
<1> QED
  BY <1>5, <1>6
=============================================================================
