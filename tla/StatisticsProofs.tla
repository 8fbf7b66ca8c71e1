-------------------------- MODULE StatisticsProofs --------------------------
(***************************************************************************)
(* For every size of the ring and of the tables, every set of handlers and *)
(* queries: the export of the ring buffer implements BoundedLog, and the   *)
(* reading backwards agrees with it; the groups of counters lag the total  *)
(* by handlers on their way only; the average is not too low; the client   *)
(* table keeps the latest; the domain tables lose nothing below the limit. *)
(*                                                                         *)
(* The sums of the properties are folds of the library.  That their        *)
(* recursion defines something, and that the order does not matter, is     *)
(* proved first, by induction on finite sets.                              *)
(***************************************************************************)
EXTENDS Statistics, SequenceTheorems, FiniteSetTheorems, WellFoundedInduction, TLAPS

(* Sums. *)

(* Induction on the subsets of a finite set, for a property given as a set. *)
LEMMA BySize ==
  ASSUME NEW S, IsFiniteSet(S), NEW P,
         \A T \in SUBSET S : (\A U \in SUBSET T : U # T => U \in P) => T \in P
  PROVE  \A T \in SUBSET S : T \in P
<1> DEFINE R == StrictSubsetOrdering(S)
           Bad == {T \in SUBSET S : T \notin P}
<1> SUFFICES ASSUME Bad # {} PROVE FALSE
  OBVIOUS
<1>1. IsWellFoundedOn(R, SUBSET S)
  <2>1. FiniteSubsetsOf(S) = SUBSET S
    BY FS_FiniteSubsetsOfFinite
  <2>2. IsWellFoundedOn(R, FiniteSubsetsOf(S))
    BY FS_StrictSubsetOrderingWellFounded
  <2> QED
    BY <2>1, <2>2, Zenon
<1>2. \A T, U \in SUBSET S : U \subseteq T /\ U # T => <<U, T>> \in R
  BY DEF StrictSubsetOrdering
<1>3. PICK T \in Bad : \A U \in Bad : ~ (<<U, T>> \in R)
  <2>1. Bad \subseteq SUBSET S
    OBVIOUS
  <2> HIDE DEF R, Bad
  <2> QED
    BY <1>1, <2>1, WFMin
<1> HIDE DEF R
<1>4. ASSUME NEW U \in SUBSET T, U # T PROVE U \in P
  <2>1. U \in SUBSET S /\ <<U, T>> \in R
    BY <1>2, <1>4
  <2> QED
    BY <1>3, <2>1
<1> QED
  BY <1>3, <1>4

(* Induction on the numbers up to one, likewise. *)
LEMMA ByNumber ==
  ASSUME NEW P, 0 \in P, \A n \in Nat : n \in P => n + 1 \in P
  PROVE  \A n \in Nat : n \in P
<1> DEFINE R == OpToRel(<, Nat)
           Bad == {n \in Nat : n \notin P}
<1> SUFFICES ASSUME Bad # {} PROVE FALSE
  OBVIOUS
<1>1. IsWellFoundedOn(R, Nat)
  BY NatLessThanWellFounded
<1>2. \A m, n \in Nat : m < n => <<m, n>> \in R
  BY Zenon DEF OpToRel
<1> HIDE DEF R
<1>3. PICK n \in Bad : \A m \in Bad : ~ (<<m, n>> \in R)
  BY <1>1, WFMin
<1>4. n \in Nat /\ n # 0 /\ n - 1 \in Nat /\ n - 1 < n
  BY <1>3
<1>5. n - 1 \in P
  BY <1>2, <1>3, <1>4
<1>6. (n - 1) + 1 = n
  BY <1>4
<1> QED
  BY <1>3, <1>4, <1>5, <1>6

-----------------------------------------------------------------------------
(* What the library's fold is defined by. *)
One(s) == CHOOSE x \in s : TRUE

IsSum(F, f, S) ==
  F = [s \in SUBSET S |-> IF s = {} THEN 0 ELSE f[One(s)] + F[s \ {One(s)}]]

LEMMA OneIn == ASSUME NEW s, s # {} PROVE One(s) \in s
BY DEF One

(* The recursion of MapThenFoldSet defines something: its n-th iterate is   *)
(* right for the sets of up to n elements.                                 *)
LEMMA SumExists == ASSUME NEW f, NEW S, IsFiniteSet(S) PROVE \E F : IsSum(F, f, S)
<1> DEFINE Rule(G, s) == IF s = {} THEN 0 ELSE f[One(s)] + G[s \ {One(s)}]
           Upto(n) == {s \in SUBSET S : Cardinality(s) <= n}
           P == {n \in Nat : \E G : \A s \in Upto(n) : G[s] = Rule(G, s)}
<1>1. \A s \in SUBSET S : IsFiniteSet(s) /\ Cardinality(s) \in Nat
  BY FS_Subset, FS_CardinalityType
<1>2. 0 \in P
  <2> DEFINE G == [s \in SUBSET S |-> 0]
  <2>1. \A s \in Upto(0) : s = {}
    BY <1>1, FS_EmptySet
  <2>2. \A s \in Upto(0) : G[s] = Rule(G, s)
    BY <2>1
  <2> QED
    BY <2>2
<1>3. ASSUME NEW n \in Nat, n \in P
      PROVE  n + 1 \in P
  <2>1. PICK G : \A s \in Upto(n) : G[s] = Rule(G, s)
    BY <1>3
  <2> DEFINE H == [s \in SUBSET S |-> Rule(G, s)]
  <2>2. ASSUME NEW s \in Upto(n + 1)
        PROVE  H[s] = Rule(H, s)
    <3> DEFINE t == s \ {One(s)}
    <3>1. CASE s = {}
      BY <3>1
    <3>2. CASE s # {}
      <4>1. t \in Upto(n)
        <5>1. One(s) \in s
          BY <3>2, OneIn
        <5>2. Cardinality(t) = Cardinality(s) - 1
          BY <1>1, <5>1, FS_RemoveElement
        <5> QED
          BY <1>1, <5>2
      <4>2. H[t] = G[t]
        BY <2>1, <4>1
      <4>3. H[s] = f[One(s)] + G[t] /\ Rule(H, s) = f[One(s)] + H[t]
        BY <3>2
      <4> HIDE DEF H
      <4> QED
        BY <4>2, <4>3
    <3> QED
      BY <3>1, <3>2
  <2>3. \E K : \A s \in Upto(n + 1) : K[s] = Rule(K, s)
    <3> HIDE DEF H
    <3> QED
      BY <2>2
  <2>4. n + 1 \in Nat
    OBVIOUS
  <2> QED
    BY <2>3, <2>4, Zenon
<1>4. Cardinality(S) \in Nat /\ Cardinality(S) \in P
  <2>1. Cardinality(S) \in Nat
    BY FS_CardinalityType
  <2> HIDE DEF P
  <2> QED
    BY <1>2, <1>3, <2>1, ByNumber
<1>5. PICK G : \A s \in Upto(Cardinality(S)) : G[s] = Rule(G, s)
  BY <1>4
<1>6. \A s \in SUBSET S : G[s] = Rule(G, s)
  BY <1>5, FS_Subset
<1> DEFINE H == [s \in SUBSET S |-> G[s]]
<1>7. ASSUME NEW s \in SUBSET S PROVE G[s] = Rule(H, s)
  <2>1. s \ {One(s)} \in SUBSET S
    OBVIOUS
  <2>2. H[s \ {One(s)}] = G[s \ {One(s)}]
    BY <2>1
  <2> HIDE DEF H
  <2> QED
    BY <1>6, <2>2
<1>8. H = [s \in SUBSET S |-> Rule(H, s)]
  BY <1>7
<1> QED
  BY <1>8 DEF IsSum

LEMMA SumIsUnique ==
  ASSUME NEW f, NEW S, NEW T \in SUBSET S, IsFiniteSet(S), NEW F, NEW G, IsSum(F, f, S), IsSum(G, f, T)
  PROVE  F[T] = G[T]
<1> DEFINE P == {U \in SUBSET T : F[U] = G[U]}
<1>1. IsFiniteSet(T)
  BY FS_Subset
<1>2. ASSUME NEW U \in SUBSET T, \A V \in SUBSET U : V # U => V \in P
      PROVE  U \in P
  <2>1. CASE U = {}
    BY <2>1 DEF IsSum
  <2>2. CASE U # {}
    <3>1. One(U) \in U
      BY <2>2, OneIn
    <3>2. F[U \ {One(U)}] = G[U \ {One(U)}]
      BY <1>2, <3>1
    <3>3. F[U] = f[One(U)] + F[U \ {One(U)}] /\ G[U] = f[One(U)] + G[U \ {One(U)}]
      BY <2>2 DEF IsSum
    <3> QED
      BY <3>2, <3>3
  <2> QED
    BY <2>1, <2>2
<1> HIDE DEF P
<1>3. T \in P
  BY <1>1, <1>2, BySize
<1> QED
  BY <1>3 DEF P

SumsOf(f, S) == CHOOSE F : IsSum(F, f, S)

(* So the fold has the equations it was written for. *)
LEMMA SumUnfolds ==
  ASSUME NEW f, NEW S, IsFiniteSet(S)
  PROVE  SumFunctionOnSet(f, S) =
           IF S = {} THEN 0 ELSE f[One(S)] + SumFunctionOnSet(f, S \ {One(S)})
<1> DEFINE T == S \ {One(S)}
           F == SumsOf(f, S)
           G == SumsOf(f, T)
<1>1. T \in SUBSET S /\ IsFiniteSet(T)
  BY FS_Subset
<1>2. SumFunctionOnSet(f, S) = F[S] /\ SumFunctionOnSet(f, T) = G[T]
  BY DEF SumFunctionOnSet, FoldFunctionOnSet, MapThenFoldSet, SumsOf, IsSum, One
<1>3. IsSum(F, f, S) /\ IsSum(G, f, T)
  BY <1>1, SumExists DEF SumsOf
<1> HIDE DEF F, G
<1>4. F[S] = IF S = {} THEN 0 ELSE f[One(S)] + F[T]
  BY <1>3 DEF IsSum
<1>5. F[T] = G[T]
  BY <1>1, <1>3, SumIsUnique
<1> QED
  BY <1>2, <1>4, <1>5

LEMMA SumOfNothing == ASSUME NEW f PROVE SumFunctionOnSet(f, {}) = 0
BY SumUnfolds, FS_EmptySet

(* Functions that agree on a set have the same sum there. *)
LEMMA SumSame ==
  ASSUME NEW S, IsFiniteSet(S), NEW f, NEW g, \A x \in S : f[x] = g[x]
  PROVE  SumFunctionOnSet(f, S) = SumFunctionOnSet(g, S)
<1> DEFINE P == {T \in SUBSET S : SumFunctionOnSet(f, T) = SumFunctionOnSet(g, T)}
<1>1. ASSUME NEW T \in SUBSET S, \A U \in SUBSET T : U # T => U \in P
      PROVE  T \in P
  <2>1. IsFiniteSet(T)
    BY FS_Subset
  <2>2. CASE T = {}
    BY <2>2, SumOfNothing
  <2>3. CASE T # {}
    <3>1. One(T) \in T /\ One(T) \in S
      BY <2>3, OneIn
    <3>2. T \ {One(T)} \in P
      BY <1>1, <3>1
    <3>3. /\ SumFunctionOnSet(f, T) = f[One(T)] + SumFunctionOnSet(f, T \ {One(T)})
          /\ SumFunctionOnSet(g, T) = g[One(T)] + SumFunctionOnSet(g, T \ {One(T)})
      BY <2>1, <2>3, SumUnfolds
    <3> QED
      BY <3>1, <3>2, <3>3
  <2> QED
    BY <2>2, <2>3
<1> HIDE DEF P
<1>2. S \in P
  BY <1>1, BySize
<1> QED
  BY <1>2 DEF P

LEMMA SumType ==
  ASSUME NEW S, IsFiniteSet(S), NEW f, \A x \in S : f[x] \in Nat
  PROVE  SumFunctionOnSet(f, S) \in Nat
<1> DEFINE P == {T \in SUBSET S : SumFunctionOnSet(f, T) \in Nat}
<1>1. ASSUME NEW T \in SUBSET S, \A U \in SUBSET T : U # T => U \in P
      PROVE  T \in P
  <2>1. IsFiniteSet(T)
    BY FS_Subset
  <2>2. CASE T = {}
    BY <2>2, SumOfNothing
  <2>3. CASE T # {}
    <3>1. One(T) \in T /\ One(T) \in S
      BY <2>3, OneIn
    <3>2. T \ {One(T)} \in P
      BY <1>1, <3>1
    <3>3. SumFunctionOnSet(f, T) = f[One(T)] + SumFunctionOnSet(f, T \ {One(T)})
      BY <2>1, <2>3, SumUnfolds
    <3> QED
      BY <3>1, <3>2, <3>3
  <2> QED
    BY <2>2, <2>3
<1> HIDE DEF P
<1>2. S \in P
  BY <1>1, BySize
<1> QED
  BY <1>2 DEF P

(* Whatever element the fold takes first: one more is one more term. *)
LEMMA SumAdd ==
  ASSUME NEW S, IsFiniteSet(S), NEW d, d \notin S, NEW f, \A x \in S \cup {d} : f[x] \in Nat
  PROVE  SumFunctionOnSet(f, S \cup {d}) = f[d] + SumFunctionOnSet(f, S)
<1> DEFINE Sum(T) == SumFunctionOnSet(f, T)
           P == {T \in SUBSET S : \A x \in (S \cup {d}) \ T : Sum(T \cup {x}) = f[x] + Sum(T)}
<1>1. \A T \in SUBSET (S \cup {d}) : IsFiniteSet(T) /\ Sum(T) \in Nat
  <2>1. IsFiniteSet(S \cup {d})
    BY FS_AddElement
  <2> QED
    BY <2>1, FS_Subset, SumType
<1>2. ASSUME NEW T \in SUBSET (S \cup {d}), T # {}
      PROVE  Sum(T) = f[One(T)] + Sum(T \ {One(T)})
  BY <1>1, <1>2, SumUnfolds
<1> HIDE DEF Sum
<1>3. ASSUME NEW T \in SUBSET S, \A U \in SUBSET T : U # T => U \in P
      PROVE  T \in P
  <2> SUFFICES ASSUME NEW x \in (S \cup {d}) \ T
               PROVE  Sum(T \cup {x}) = f[x] + Sum(T)
    OBVIOUS
  <2> DEFINE y == One(T \cup {x})
             U == T \ {y}
  <2>1. y \in T \cup {x} /\ Sum(T \cup {x}) = f[y] + Sum((T \cup {x}) \ {y})
    BY <1>2, OneIn
  <2> HIDE DEF y
  <2>2. CASE y = x
    <3>1. (T \cup {x}) \ {y} = T
      BY <2>2
    <3> QED
      BY <2>1, <2>2, <3>1
  <2>3. CASE y # x
    <3>1. y \in T /\ U \in SUBSET T /\ U # T
      BY <2>1, <2>3
    <3>2. U \in P
      BY <1>3, <3>1
    <3>3. Sum(U \cup {x}) = f[x] + Sum(U) /\ Sum(U \cup {y}) = f[y] + Sum(U)
      BY <3>1, <3>2
    <3>4. U \cup {x} = (T \cup {x}) \ {y} /\ U \cup {y} = T
      BY <2>3, <3>1
    <3>5. f[x] \in Nat /\ f[y] \in Nat /\ Sum(U) \in Nat
      BY <1>1, <3>1
    <3>6. Sum(T \cup {x}) = f[y] + (f[x] + Sum(U)) /\ Sum(T) = f[y] + Sum(U)
      BY <2>1, <3>3, <3>4
    <3> HIDE DEF U
    <3> QED
      BY <3>5, <3>6
  <2> QED
    BY <2>2, <2>3
<1>4. S \in P
  <2> HIDE DEF P
  <2> QED
    BY <1>3, BySize
<1> QED
  BY <1>4 DEF Sum

(* One term changes by k: so does the sum. *)
LEMMA SumChange ==
  ASSUME NEW S, IsFiniteSet(S), NEW c \in S, NEW f, NEW g, NEW k \in Int,
         \A x \in S : f[x] \in Nat /\ g[x] \in Nat,
         \A x \in S \ {c} : g[x] = f[x], g[c] = f[c] + k
  PROVE  SumFunctionOnSet(g, S) = SumFunctionOnSet(f, S) + k
<1> DEFINE T == S \ {c}
<1>1. IsFiniteSet(T) /\ S = T \cup {c} /\ c \notin T
  BY FS_Subset
<1>2. SumFunctionOnSet(f, T) \in Nat /\ SumFunctionOnSet(g, T) = SumFunctionOnSet(f, T)
  BY <1>1, SumSame, SumType
<1>3. /\ SumFunctionOnSet(f, S) = f[c] + SumFunctionOnSet(f, T)
      /\ SumFunctionOnSet(g, S) = g[c] + SumFunctionOnSet(g, T)
  <2>1. SumFunctionOnSet(f, T \cup {c}) = f[c] + SumFunctionOnSet(f, T)
    BY <1>1, SumAdd
  <2>2. SumFunctionOnSet(g, T \cup {c}) = g[c] + SumFunctionOnSet(g, T)
    BY <1>1, SumAdd
  <2> QED
    BY <1>1, <2>1, <2>2
<1>4. f[c] \in Nat
  OBVIOUS
<1> HIDE DEF T
<1> QED
  BY <1>2, <1>3, <1>4

LEMMA SumOfZeros ==
  ASSUME NEW S, IsFiniteSet(S), NEW f, \A x \in S : f[x] = 0
  PROVE  SumFunctionOnSet(f, S) = 0
<1> DEFINE P == {T \in SUBSET S : SumFunctionOnSet(f, T) = 0}
<1>1. ASSUME NEW T \in SUBSET S, \A U \in SUBSET T : U # T => U \in P
      PROVE  T \in P
  <2>1. IsFiniteSet(T)
    BY FS_Subset
  <2>2. CASE T = {}
    BY <2>2, SumOfNothing
  <2>3. CASE T # {}
    <3>1. One(T) \in T /\ One(T) \in S
      BY <2>3, OneIn
    <3>2. T \ {One(T)} \in P
      BY <1>1, <3>1
    <3>3. SumFunctionOnSet(f, T) = f[One(T)] + SumFunctionOnSet(f, T \ {One(T)})
      BY <2>1, <2>3, SumUnfolds
    <3> QED
      BY <3>1, <3>2, <3>3
  <2> QED
    BY <2>2, <2>3
<1> HIDE DEF P
<1>2. S \in P
  BY <1>1, BySize
<1> QED
  BY <1>2 DEF P

-----------------------------------------------------------------------------
(* The ring. *)

Ring(S) == [queryLog : [Positions -> S], queryLogIdx : Positions, queryLogLen : 0..queryLogMax]

(* Until the ring is full, it has been written from its start. *)
FilledFromStart(r) == r.queryLogLen < queryLogMax => r.queryLogIdx = r.queryLogLen

LEMMA Wrap ==
  ASSUME NEW n \in Nat \ {0}, NEW x \in 0..2 * n - 1
  PROVE  x % n = IF x < n THEN x ELSE x - n
OBVIOUS

LEMMA NextPosition ==
  ASSUME NEW n \in Nat \ {0}, NEW i \in 0..n - 1
  PROVE  (i + 1) % n = IF i + 1 < n THEN i + 1 ELSE 0
<1> DEFINE x == i + 1
<1>1. x \in 0..2 * n - 1 /\ (x < n \/ x = n)
  OBVIOUS
<1> HIDE DEF x
<1>2. x % n = IF x < n THEN x ELSE x - n
  BY <1>1, Wrap
<1>3. x % n = IF x < n THEN x ELSE 0
  BY <1>1, <1>2
<1> QED BY <1>3 DEF x

(* In a full ring the i-th oldest is next the one before the i-th oldest.  *)
LEMMA OldestMovesOn ==
  ASSUME NEW n \in Nat \ {0}, NEW w \in 0..n - 1, NEW i \in 1..n - 1,
         NEW v, v = IF w + 1 < n THEN w + 1 ELSE 0
  PROVE  (IF w + i < n THEN w + i ELSE w + i - n)
           = (IF v + i - 1 < n THEN v + i - 1 ELSE v + i - 1 - n)
<1>1. CASE w + 1 < n
  <2>1. v = w + 1
    BY <1>1
  <2>2. v + i - 1 = w + i
    BY <2>1
  <2> QED BY <2>2
<1>2. CASE w + 1 = n
  <2>1. v = 0 /\ v + i - 1 = i - 1 /\ w + i - n = i - 1 /\ ~(w + i < n)
    BY <1>2
  <2> QED BY <2>1
<1> QED BY <1>1, <1>2

(* Where the i-th entry of the export stands. *)
LEMMA Export ==
  ASSUME NEW S, NEW r \in Ring(S), FilledFromStart(r), NEW i \in 1..r.queryLogLen
  PROVE  /\ r.queryLogLen < queryLogMax => GetAllQueryLogs(r)[i] = r.queryLog[i - 1]
         /\ r.queryLogLen = queryLogMax =>
              GetAllQueryLogs(r)[i] = r.queryLog[IF r.queryLogIdx + i - 1 < queryLogMax
                                                 THEN r.queryLogIdx + i - 1
                                                 ELSE r.queryLogIdx + i - 1 - queryLogMax]
<1> DEFINE n == queryLogMax
           x == r.queryLogIdx - r.queryLogLen + (i - 1) + n
<1>1. /\ n \in Nat \ {0} /\ r.queryLogIdx \in 0..n - 1 /\ r.queryLogLen \in 0..n
      /\ i \in 1..n /\ i <= r.queryLogLen
  BY RingAssumption DEF Ring, Positions
<1>2. GetAllQueryLogs(r)[i] = r.queryLog[x % n]
  BY DEF GetAllQueryLogs
<1>3. CASE r.queryLogLen < n
  <2>1. x = n + (i - 1) /\ x \in 0..2 * n - 1
    BY <1>1, <1>3 DEF FilledFromStart
  <2>2. x % n = i - 1
    BY <1>1, <2>1, Wrap
  <2> QED BY <1>1, <1>2, <1>3, <2>2
<1>4. CASE r.queryLogLen = n
  <2>1. x = r.queryLogIdx + i - 1 /\ x \in 0..2 * n - 1
    BY <1>1, <1>4
  <2>2. x % n = IF x < n THEN x ELSE x - n
    BY <1>1, <2>1, Wrap
  <2> QED BY <1>1, <1>2, <1>4, <2>1, <2>2
<1> QED BY <1>1, <1>3, <1>4

LEMMA PushIsRing ==
  ASSUME NEW S, NEW r \in Ring(S), FilledFromStart(r), NEW e \in S
  PROVE  Push(r, e) \in Ring(S) /\ FilledFromStart(Push(r, e))
<1> DEFINE n == queryLogMax
<1>1. /\ n \in Nat \ {0} /\ r.queryLogIdx \in 0..n - 1 /\ r.queryLogLen \in 0..n
  BY RingAssumption DEF Ring, Positions
<1>2. (r.queryLogIdx + 1) % n = IF r.queryLogIdx + 1 < n THEN r.queryLogIdx + 1 ELSE 0
  BY <1>1, NextPosition
<1>3. (r.queryLogIdx + 1) % n \in 0..n - 1
  BY <1>1, <1>2
<1>4. [r.queryLog EXCEPT ![r.queryLogIdx] = e] \in [Positions -> S]
  BY DEF Ring
<1>5. Push(r, e) \in Ring(S)
  BY <1>1, <1>3, <1>4 DEF Push, Ring, Positions
<1> QED BY <1>1, <1>2, <1>5 DEF Push, FilledFromStart

LEMMA ExportMember ==
  ASSUME NEW S, NEW r \in Ring(S), NEW i \in 1..r.queryLogLen
  PROVE  GetAllQueryLogs(r)[i] \in S
<1> DEFINE x == r.queryLogIdx - r.queryLogLen + (i - 1) + queryLogMax
<1>1. /\ queryLogMax \in Nat \ {0} /\ x \in 0..2 * queryLogMax - 1
      /\ r.queryLog \in [0..queryLogMax - 1 -> S]
  BY RingAssumption DEF Ring, Positions
<1>2. GetAllQueryLogs(r)[i] = r.queryLog[x % queryLogMax]
  BY DEF GetAllQueryLogs
<1> HIDE DEF x
<1>3. x % queryLogMax \in 0..queryLogMax - 1
  BY <1>1, Wrap
<1> QED BY <1>1, <1>2, <1>3

LEMMA ExportIsSeq ==
  ASSUME NEW S, NEW r \in Ring(S), FilledFromStart(r)
  PROVE  GetAllQueryLogs(r) \in Seq(S) /\ Len(GetAllQueryLogs(r)) = r.queryLogLen
<1>1. /\ queryLogMax \in Nat \ {0} /\ r.queryLogIdx \in 0..queryLogMax - 1
      /\ r.queryLogLen \in 0..queryLogMax /\ r.queryLogLen \in Nat
      /\ r.queryLog \in [0..queryLogMax - 1 -> S]
  BY RingAssumption DEF Ring, Positions
<1>2. \A i \in 1..r.queryLogLen : GetAllQueryLogs(r)[i] \in S
  BY <1>1, ExportMember
<1> DEFINE all == GetAllQueryLogs(r)
<1>3. all = [i \in 1..r.queryLogLen |-> all[i]]
  BY DEF GetAllQueryLogs
<1>4. DOMAIN all = 1..r.queryLogLen
  BY DEF GetAllQueryLogs
<1> HIDE DEF all
<1>5. all \in Seq(S) /\ Len(all) = r.queryLogLen
  <2>1. \A i \in 1..r.queryLogLen : all[i] \in S
    BY <1>2 DEF all
  <2>2. r.queryLogLen \in Nat
    BY <1>1
  <2> QED BY <1>3, <2>1, <2>2
<1> QED BY <1>5 DEF all

(* Logging one more is adding at the end and dropping the oldest if there  *)
(* is no place left.                                                       *)
LEMMA PushAppends ==
  ASSUME NEW S, NEW r \in Ring(S), FilledFromStart(r), NEW e \in S
  PROVE  GetAllQueryLogs(Push(r, e)) = Log!Latest(Append(GetAllQueryLogs(r), e))
<1> DEFINE n == queryLogMax
           all == GetAllQueryLogs(r)
           r2 == Push(r, e)
           all2 == GetAllQueryLogs(r2)
<1>1. /\ n \in Nat \ {0} /\ r.queryLogIdx \in 0..n - 1 /\ r.queryLogLen \in 0..n
      /\ r.queryLog \in [0..n - 1 -> S]
  BY RingAssumption DEF Ring, Positions
<1>2. r2 \in Ring(S) /\ FilledFromStart(r2)
  BY PushIsRing
<1>3. /\ all \in Seq(S) /\ Len(all) = r.queryLogLen
      /\ all2 \in Seq(S) /\ Len(all2) = r2.queryLogLen
  BY <1>2, ExportIsSeq
<1>4. /\ r2.queryLog = [r.queryLog EXCEPT ![r.queryLogIdx] = e]
      /\ r2.queryLogIdx = IF r.queryLogIdx + 1 < n THEN r.queryLogIdx + 1 ELSE 0
      /\ r2.queryLogLen = IF r.queryLogLen < n THEN r.queryLogLen + 1 ELSE r.queryLogLen
  <2>1. (r.queryLogIdx + 1) % n = IF r.queryLogIdx + 1 < n THEN r.queryLogIdx + 1 ELSE 0
    BY <1>1, NextPosition
  <2> QED BY <2>1 DEF Push
<1>5. /\ Append(all, e) \in Seq(S) /\ Len(Append(all, e)) = r.queryLogLen + 1
      /\ \A i \in 1..r.queryLogLen : Append(all, e)[i] = all[i]
      /\ Append(all, e)[r.queryLogLen + 1] = e
  BY <1>3, AppendProperties
<1>6. CASE r.queryLogLen < n
  <2>1. Log!Latest(Append(all, e)) = Append(all, e)
    BY <1>1, <1>5, <1>6 DEF Log!Latest
  <2>2. r.queryLogIdx = r.queryLogLen /\ r2.queryLogLen = r.queryLogLen + 1
    BY <1>4, <1>6 DEF FilledFromStart
  <2>3. ASSUME NEW i \in 1..r2.queryLogLen PROVE all2[i] = Append(all, e)[i]
    <3>1. all2[i] = r2.queryLog[i - 1]
      <4>1. CASE r2.queryLogLen < n
        BY <1>2, <2>3, <4>1, Export
      <4>2. CASE r2.queryLogLen = n
        <5>1. r2.queryLogIdx = 0
          BY <1>1, <1>4, <2>2, <4>2
        <5> QED BY <1>1, <1>2, <2>3, <4>2, <5>1, Export
      <4> QED BY <1>1, <1>6, <2>2, <4>1, <4>2
    <3>2. CASE i = r.queryLogLen + 1
      BY <1>1, <1>4, <1>5, <2>2, <3>1, <3>2
    <3>3. CASE i # r.queryLogLen + 1
      <4>1. i \in 1..r.queryLogLen /\ i - 1 # r.queryLogIdx /\ i - 1 \in 0..n - 1
        BY <1>1, <2>2, <2>3, <3>3
      <4>2. all[i] = r.queryLog[i - 1]
        BY <1>6, <4>1, Export
      <4> QED BY <1>1, <1>4, <1>5, <3>1, <4>1, <4>2
    <3> QED BY <3>2, <3>3
  <2> HIDE DEF all, all2, r2
  <2>4. Len(all2) = Len(Append(all, e)) /\ \A i \in 1..Len(all2) : all2[i] = Append(all, e)[i]
    BY <1>3, <1>5, <2>2, <2>3
  <2>5. all2 = Append(all, e)
    BY <1>3, <1>5, <2>4, SeqEqual
  <2> QED BY <2>1, <2>5 DEF all, all2, r2
<1>7. CASE r.queryLogLen = n
  <2>1. Log!Latest(Append(all, e)) = Tail(Append(all, e))
    BY <1>1, <1>5, <1>7 DEF Log!Latest
  <2>2. r2.queryLogLen = n
    BY <1>1, <1>4, <1>7
  <2> DEFINE t == Tail(Append(all, e))
  <2>3. t \in Seq(S) /\ Len(t) = n /\ \A i \in 1..n : t[i] = Append(all, e)[i + 1]
    <3> HIDE DEF all
    <3>1. Append(all, e) # <<>>
      BY <1>3, AppendProperties
    <3> QED BY <1>1, <1>5, <1>7, <3>1, HeadTailProperties
  <2>4. ASSUME NEW i \in 1..n PROVE all2[i] = t[i]
    <3>1. all2[i] = r2.queryLog[IF r2.queryLogIdx + i - 1 < n THEN r2.queryLogIdx + i - 1
                                                             ELSE r2.queryLogIdx + i - 1 - n]
      BY <1>2, <2>2, Export
    <3>2. CASE i = n
      <4>1. all2[i] = r2.queryLog[r.queryLogIdx]
        BY <1>1, <1>4, <3>1, <3>2
      <4> QED BY <1>1, <1>4, <1>5, <1>7, <2>3, <3>2, <4>1
    <3>3. CASE i # n
      <4>1. i + 1 \in 1..n
        BY <1>1, <3>3
      <4>2. all[i + 1] = r.queryLog[IF r.queryLogIdx + i < n THEN r.queryLogIdx + i
                                                           ELSE r.queryLogIdx + i - n]
        <5>1. all[i + 1] = r.queryLog[IF r.queryLogIdx + (i + 1) - 1 < n
                                      THEN r.queryLogIdx + (i + 1) - 1
                                      ELSE r.queryLogIdx + (i + 1) - 1 - n]
          BY <1>7, <4>1, Export
        <5> QED BY <1>1, <5>1
      <4> DEFINE p == IF r.queryLogIdx + i < n THEN r.queryLogIdx + i ELSE r.queryLogIdx + i - n
      <4>3. p \in 0..n - 1 /\ p # r.queryLogIdx
        BY <1>1, <4>1
      <4>4. all2[i] = r2.queryLog[p]
        <5> DEFINE q == IF r2.queryLogIdx + i - 1 < n THEN r2.queryLogIdx + i - 1
                                                      ELSE r2.queryLogIdx + i - 1 - n
        <5>1. /\ r2.queryLogIdx = IF r.queryLogIdx + 1 < n THEN r.queryLogIdx + 1 ELSE 0
              /\ n \in Nat \ {0} /\ r.queryLogIdx \in 0..n - 1 /\ i \in 1..n - 1
          BY <1>1, <1>4, <4>1
        <5> HIDE DEF r2
        <5>2. p = q
          BY <5>1, OldestMovesOn
        <5>3. all2[i] = r2.queryLog[q]
          BY <3>1
        <5> HIDE DEF p, q, all2
        <5> QED BY <5>2, <5>3
      <4>5. r2.queryLog[p] = r.queryLog[p]
        BY <1>1, <1>4, <4>3
      <4> QED BY <1>5, <1>7, <2>3, <4>1, <4>2, <4>4, <4>5
    <3> QED BY <3>2, <3>3
  <2> HIDE DEF all, all2, r2, t
  <2>5. all2 = t
    BY <1>3, <2>2, <2>3, <2>4, SeqEqual
  <2> QED BY <2>1, <2>5 DEF t, all, all2, r2
<1> QED BY <1>1, <1>6, <1>7

-----------------------------------------------------------------------------
RingInv ==
  /\ query \in [Handlers -> Queries]
  /\ ring \in Ring(Queries \cup {NoEntry}) /\ FilledFromStart(ring)
  /\ logged \in Nat

LEMMA InitRing == Init => RingInv /\ Log!Init
<1> SUFFICES ASSUME Init PROVE RingInv /\ Log!Init
  OBVIOUS
<1>1. query \in [Handlers -> Queries]
  <2>1. (CHOOSE q \in Queries : TRUE) \in Queries
    BY StatisticsAssumption
  <2> QED BY <2>1 DEF Init
<1>2. 0 \in Positions /\ 0 \in 0..queryLogMax
  BY RingAssumption DEF Positions
<1>3. ring \in Ring(Queries \cup {NoEntry}) /\ FilledFromStart(ring) /\ ring.queryLogLen = 0
  BY <1>2 DEF Init, EmptyRing, Ring, FilledFromStart
<1>4. GetAllQueryLogs(ring) = <<>>
  BY <1>3, ExportIsSeq
<1> QED BY <1>1, <1>3, <1>4 DEF Init, RingInv, Log!Init

LEMMA OtherSteps ==
  ASSUME RingInv, Next, ~ \E h \in Handlers : LogQuery(h)
  PROVE  RingInv' /\ ring' = ring /\ logged' = logged
<1>1. ring' = ring /\ logged' = logged
  BY DEF Next, Handle, Start, RecordBlocked, RecordQuery, CountDomain, CountClient,
         FilterDebug, ReadCount, ReadLatency, TrackQPS
<1>2. query' \in [Handlers -> Queries]
  BY DEF RingInv, Next, Handle, Start, RecordBlocked, RecordQuery, CountDomain, CountClient,
         FilterDebug, ReadCount, ReadLatency, TrackQPS
<1> QED BY <1>1, <1>2 DEF RingInv, FilledFromStart

LEMMA RingStep == RingInv /\ [Next]_vars => RingInv' /\ [Log!Next]_<<GetAllQueryLogs(ring), logged>>
<1> SUFFICES ASSUME RingInv, [Next]_vars
             PROVE  RingInv' /\ [Log!Next]_<<GetAllQueryLogs(ring), logged>>
  OBVIOUS
<1>1. ASSUME NEW h \in Handlers, LogQuery(h)
      PROVE  RingInv' /\ Log!Next
  <2>1. query[h] \in Queries /\ ring' = Push(ring, query[h]) /\ logged' = logged + 1
        /\ query' = query
    BY <1>1 DEF LogQuery, RingInv
  <2>2. ring' \in Ring(Queries \cup {NoEntry}) /\ FilledFromStart(ring')
    BY <2>1, PushIsRing DEF RingInv
  <2>3. GetAllQueryLogs(ring') = Log!Latest(Append(GetAllQueryLogs(ring), query[h]))
    BY <2>1, PushAppends DEF RingInv
  <2>4. RingInv'
    BY <2>1, <2>2 DEF RingInv
  <2>5. Log!Add(query[h])
    BY <2>1, <2>3 DEF Log!Add, Log!Latest
  <2> QED BY <2>1, <2>4, <2>5 DEF Log!Next
<1>2. CASE Next /\ ~ \E h \in Handlers : LogQuery(h)
  BY <1>2, OtherSteps
<1>3. CASE UNCHANGED vars
  BY <1>3 DEF vars, RingInv, FilledFromStart
<1> QED BY <1>1, <1>2, <1>3

(* The export of the ring buffer is a log that keeps the latest entries.    *)
THEOREM RingImplementsLog == Spec => ImplementsBoundedLog
BY InitRing, RingStep, PTL DEF Spec, ImplementsBoundedLog, Log!Spec

(* The newest entries first are the export read backwards, for every limit. *)
THEOREM RecentHolds == Spec => []RecentIsExportBackwards
<1>1. RingInv => RecentIsExportBackwards
  <2> SUFFICES ASSUME RingInv, NEW limit \in 0..queryLogMax + 1
               PROVE  LET all == GetAllQueryLogs(ring)
                          recent == GetRecentQueries(ring, limit)
                      IN  /\ Len(recent) = IF limit = 0 \/ limit > Len(all) THEN Len(all) ELSE limit
                          /\ \A i \in 1..Len(recent) : recent[i] = all[Len(all) + 1 - i]
    BY DEF RecentIsExportBackwards
  <2> DEFINE n == queryLogMax
             len == ring.queryLogLen
             all == GetAllQueryLogs(ring)
             recent == GetRecentQueries(ring, limit)
             m == IF limit <= 0 \/ limit > len THEN len ELSE limit
  <2>1. /\ n \in Nat \ {0} /\ ring.queryLogIdx \in 0..n - 1 /\ len \in 0..n
    BY RingAssumption DEF RingInv, Ring, Positions
  <2>2. Len(all) = len
    BY ExportIsSeq DEF RingInv
  <2>3. m \in 0..len
    BY <2>1
  <2>4. Len(recent) = m
    <3>1. recent = [i \in 1..m |-> ring.queryLog[(ring.queryLogIdx - 1 - (i - 1) + queryLogMax)
                                                   % queryLogMax]]
      BY DEF GetRecentQueries
    <3> HIDE DEF m, recent
    <3> QED BY <2>1, <2>3, <3>1
  <2>5. ASSUME NEW i \in 1..m PROVE recent[i] = all[len + 1 - i]
    <3> DEFINE x == ring.queryLogIdx - 1 - (i - 1) + n
               j == len + 1 - i
    <3>1. recent[i] = ring.queryLog[x % n]
      BY DEF GetRecentQueries
    <3>2. i \in 1..n /\ j \in 1..len /\ x \in 0..2 * n - 1
      BY <2>1, <2>3
    <3>3. x % n = IF x < n THEN x ELSE x - n
      BY <2>1, <3>2, Wrap
    <3>4. CASE len < n
      <4>1. all[j] = ring.queryLog[j - 1] /\ ring.queryLogIdx = len
        BY <3>2, <3>4, Export DEF RingInv, FilledFromStart
      <4>2. x - n = j - 1 /\ x >= n
        BY <2>1, <2>3, <3>2, <4>1
      <4> QED BY <3>1, <3>3, <4>1, <4>2, <2>1, <3>2
    <3>5. CASE len = n
      <4>1. all[j] = ring.queryLog[IF ring.queryLogIdx + j - 1 < n THEN ring.queryLogIdx + j - 1
                                                             ELSE ring.queryLogIdx + j - 1 - n]
        BY <3>2, <3>5, Export DEF RingInv
      <4>2. ring.queryLogIdx + j - 1 = x
        BY <2>1, <3>2, <3>5
      <4> HIDE DEF x, j
      <4>3. all[j] = ring.queryLog[IF x < n THEN x ELSE x - n]
        BY <2>1, <3>2, <4>1, <4>2
      <4>4. recent[i] = all[j]
        BY <3>1, <3>3, <4>3
      <4> QED BY <4>4 DEF j
    <3> QED BY <2>1, <3>4, <3>5
  <2> HIDE DEF recent, all
  <2>6. /\ Len(recent) = IF limit = 0 \/ limit > Len(all) THEN Len(all) ELSE limit
        /\ \A i \in 1..Len(recent) : recent[i] = all[Len(all) + 1 - i]
    BY <2>1, <2>2, <2>4, <2>5
  <2> QED BY <2>6 DEF recent, all
<1>2. Spec => []RingInv
  BY InitRing, RingStep, PTL DEF Spec
<1> QED BY <1>1, <1>2, PTL

-----------------------------------------------------------------------------
(* The order in which a query's counters are added to. *)

Buckets == ToSet(BucketNames)

LEMMA BucketSet ==
  /\ Buckets = {"<1ms", "1-5ms", "5-10ms", "10-50ms", "50-100ms", "100-500ms", "500-1000ms", ">1000ms"}
  /\ \A ms \in Nat : Bucket(ms) \in Buckets
<1>1. DOMAIN BucketNames = 1..8
  BY DEF BucketNames
<1>2. Buckets = {BucketNames[i] : i \in 1..8}
  BY <1>1 DEF Buckets, ToSet
<1>3. Buckets = {BucketNames[1], BucketNames[2], BucketNames[3], BucketNames[4], BucketNames[5],
                 BucketNames[6], BucketNames[7], BucketNames[8]}
  BY <1>2
<1>4. ASSUME NEW ms \in Nat PROVE Bucket(ms) \in Buckets
  <2> DEFINE met == {b \in DOMAIN Bounds : Bounds[b] <= ms}
  <2>1. DOMAIN Bounds = 1..7
    BY DEF Bounds
  <2>2. IsFiniteSet(1..7) /\ Cardinality(1..7) = 7
    <3>1. 1 \in Int /\ 7 \in Int
      OBVIOUS
    <3>2. IsFiniteSet(1..7) /\ Cardinality(1..7) = IF 1 > 7 THEN 0 ELSE 7 - 1 + 1
      BY <3>1, FS_Interval, Zenon
    <3> QED
      BY <3>2
  <2>3. met \in SUBSET (1..7)
    BY <2>1
  <2>4. Cardinality(met) <= 7 /\ Cardinality(met) \in Nat
    BY <2>2, <2>3, FS_Subset, FS_CardinalityType
  <2>5. Bucket(ms) = BucketNames[1 + Cardinality(met)]
    BY DEF Bucket
  <2> HIDE DEF met
  <2>6. 1 + Cardinality(met) \in 1..8
    BY <2>4
  <2> QED
    BY <1>2, <2>5, <2>6
<1> QED
  BY <1>3, <1>4 DEF BucketNames

LEMMA AddsShape ==
  ASSUME NEW q \in Queries
  PROVE  LET s == Adds(q)
             n == Len(s)
         IN  /\ n \in {6, 7} /\ s \in Seq(Counter)
             /\ s[1] = "total" /\ s[2] \in {"udp", "tcp"}
             /\ s[n - 2] = "latency" /\ s[n - 1] = "count" /\ s[n] \in Buckets
             /\ n = 6 => s[3] \in {"success", "nxdomain", "failed"} /\ q.rcode # "SERVFAIL"
             /\ n = 7 => s[3] = "servfail" /\ s[4] = "failed" /\ q.rcode = "SERVFAIL"
<1> DEFINE p == q.protocol
           b == Bucket(q.latency)
<1>1. p \in {"udp", "tcp"} /\ b \in Buckets
  BY StatisticsAssumption, BucketSet
<1>2. Adds(q) = <<"total", p>> \o ByRcode(q.rcode) \o <<"latency", "count", b>>
  BY DEF Adds
<1>3. {"total", "udp", "tcp", "success", "nxdomain", "servfail", "failed", "latency", "count"} \cup Buckets = Counter
  BY DEF Counter, Buckets
<1> HIDE DEF p, b
<1> DEFINE first == <<"total", p>>
           last  == <<"latency", "count", b>>
<1>4. /\ first \in Seq(Counter) /\ Len(first) = 2 /\ first[1] = "total" /\ first[2] = p
      /\ last \in Seq(Counter) /\ Len(last) = 3
      /\ last[1] = "latency" /\ last[2] = "count" /\ last[3] = b
  BY <1>1, <1>3
<1> HIDE DEF first, last
<1>5. ASSUME NEW mid \in Seq(Counter), ByRcode(q.rcode) = mid, Len(mid) \in {1, 2}
      PROVE  /\ Adds(q) \in Seq(Counter) /\ Len(Adds(q)) = Len(mid) + 5
             /\ Adds(q)[1] = "total" /\ Adds(q)[2] = p /\ Adds(q)[3] = mid[1]
             /\ Len(mid) = 2 => Adds(q)[4] = mid[2]
             /\ Adds(q)[Len(mid) + 3] = "latency" /\ Adds(q)[Len(mid) + 4] = "count"
             /\ Adds(q)[Len(mid) + 5] = b
  <2>1. PICK s : s = first \o mid
    BY Zenon
  <2>2. PICK t : t = s \o last
    BY Zenon
  <2>3. /\ s \in Seq(Counter) /\ Len(s) = Len(first) + Len(mid)
        /\ \A i \in 1..Len(first) + Len(mid) :
             s[i] = IF i <= Len(first) THEN first[i] ELSE mid[i - Len(first)]
    BY <1>4, <2>1, ConcatProperties, Zenon
  <2>4. /\ t \in Seq(Counter) /\ Len(t) = Len(s) + Len(last)
        /\ \A i \in 1..Len(s) + Len(last) : t[i] = IF i <= Len(s) THEN s[i] ELSE last[i - Len(s)]
    <3>1. s \in Seq(Counter) /\ last \in Seq(Counter)
      BY <1>4, <2>3
    <3> QED
      BY <2>2, <3>1, ConcatProperties, Zenon
  <2>5. Adds(q) = t
    BY <1>2, <1>5, <2>1, <2>2, Zenon DEF first, last
  <2>6. /\ s[1] = first[1] /\ s[2] = first[2] /\ s[3] = mid[1]
        /\ (Len(mid) = 2 => s[4] = mid[2])
    BY <1>4, <1>5, <2>3
  <2>7. /\ t[1] = s[1] /\ t[2] = s[2] /\ t[3] = s[3]
        /\ (Len(mid) = 2 => t[4] = s[4])
        /\ t[Len(mid) + 3] = last[1] /\ t[Len(mid) + 4] = last[2] /\ t[Len(mid) + 5] = last[3]
    <3>1. CASE Len(mid) = 1
      <4>1. Len(s) = 3 /\ Len(last) = 3
        BY <1>4, <2>3, <3>1
      <4> QED
        BY <2>4, <3>1, <4>1
    <3>2. CASE Len(mid) = 2
      <4>1. Len(s) = 4 /\ Len(last) = 3
        BY <1>4, <2>3, <3>2
      <4> QED
        BY <2>4, <3>2, <4>1
    <3> QED
      BY <1>5, <3>1, <3>2
  <2> QED
    BY <1>4, <1>5, <2>3, <2>4, <2>5, <2>6, <2>7
<1>6. CASE q.rcode = "SERVFAIL"
  <2> DEFINE mid == <<"servfail", "failed">>
  <2>1. mid \in Seq(Counter) /\ Len(mid) = 2 /\ mid[1] = "servfail" /\ mid[2] = "failed"
    BY <1>3
  <2>2. ByRcode(q.rcode) = mid
    BY <1>6 DEF ByRcode
  <2> HIDE DEF mid
  <2>3. /\ Adds(q) \in Seq(Counter) /\ Len(Adds(q)) = 7
        /\ Adds(q)[1] = "total" /\ Adds(q)[2] = p /\ Adds(q)[3] = "servfail"
        /\ Adds(q)[4] = "failed" /\ Adds(q)[5] = "latency" /\ Adds(q)[6] = "count"
        /\ Adds(q)[7] = b
    <3>1. /\ Adds(q) \in Seq(Counter) /\ Len(Adds(q)) = Len(mid) + 5
          /\ Adds(q)[1] = "total" /\ Adds(q)[2] = p /\ Adds(q)[3] = mid[1]
          /\ Len(mid) = 2 => Adds(q)[4] = mid[2]
          /\ Adds(q)[Len(mid) + 3] = "latency" /\ Adds(q)[Len(mid) + 4] = "count"
          /\ Adds(q)[Len(mid) + 5] = b
      BY <1>5, <2>1, <2>2
    <3> QED
      BY <2>1, <3>1
  <2> QED
    BY <1>1, <1>6, <2>3
<1>7. CASE q.rcode # "SERVFAIL"
  <2>1. PICK x \in {"success", "nxdomain", "failed"} : ByRcode(q.rcode) = <<x>>
    BY <1>7 DEF ByRcode
  <2> DEFINE mid == <<x>>
  <2>2. mid \in Seq(Counter) /\ Len(mid) = 1 /\ mid[1] = x
    BY <1>3
  <2>3. ByRcode(q.rcode) = mid
    BY <2>1
  <2> HIDE DEF mid
  <2>4. /\ Adds(q) \in Seq(Counter) /\ Len(Adds(q)) = 6
        /\ Adds(q)[1] = "total" /\ Adds(q)[2] = p /\ Adds(q)[3] = x
        /\ Adds(q)[4] = "latency" /\ Adds(q)[5] = "count" /\ Adds(q)[6] = b
    <3>1. /\ Adds(q) \in Seq(Counter) /\ Len(Adds(q)) = Len(mid) + 5
          /\ Adds(q)[1] = "total" /\ Adds(q)[2] = p /\ Adds(q)[3] = mid[1]
          /\ Adds(q)[Len(mid) + 3] = "latency" /\ Adds(q)[Len(mid) + 4] = "count"
          /\ Adds(q)[Len(mid) + 5] = b
      BY <1>5, <2>2, <2>3
    <3> QED
      BY <2>2, <3>1
  <2> QED
    BY <1>1, <1>7, <2>4
<1> QED
  BY <1>6, <1>7

(* Where the query's one counter of a group stands. *)
LEMMA GroupPlace ==
  ASSUME NEW q \in Queries, NEW g \in Groups
  PROVE  \E p \in 2..Len(Adds(q)) :
           /\ Adds(q)[p] \in g
           /\ \A i \in 1..Len(Adds(q)) : i # p => Adds(q)[i] \notin g
<1> DEFINE s == Adds(q)
<1>1. /\ Len(s) \in {6, 7} /\ s[1] = "total" /\ s[2] \in {"udp", "tcp"}
      /\ s[Len(s) - 2] = "latency" /\ s[Len(s) - 1] = "count" /\ s[Len(s)] \in Buckets
      /\ (Len(s) = 6 => s[3] \in {"success", "nxdomain", "failed"})
      /\ (Len(s) = 7 => s[3] = "servfail" /\ s[4] = "failed")
  BY AddsShape
<1>2. Buckets = {"<1ms", "1-5ms", "5-10ms", "10-50ms", "50-100ms", "100-500ms", "500-1000ms", ">1000ms"}
  BY BucketSet
<1>3. g \in {{"udp", "tcp"}, {"success", "nxdomain", "failed"}, {"count"}, Buckets}
  BY DEF Groups, Buckets
<1> HIDE DEF s
<1> SUFFICES \E p \in 2..Len(s) : s[p] \in g /\ \A i \in 1..Len(s) : i # p => s[i] \notin g
  BY DEF s
<1>4. CASE Len(s) = 6
  <2>1. /\ s[1] = "total" /\ s[2] \in {"udp", "tcp"} /\ s[3] \in {"success", "nxdomain", "failed"}
        /\ s[4] = "latency" /\ s[5] = "count" /\ s[6] \in Buckets
    BY <1>1, <1>4
  <2>2. \A i \in 1..Len(s) : i \in {1, 2, 3, 4, 5, 6}
    BY <1>4
  <2>3. CASE g = {"udp", "tcp"}
    BY <1>2, <1>4, <2>1, <2>2, <2>3
  <2>4. CASE g = {"success", "nxdomain", "failed"}
    BY <1>2, <1>4, <2>1, <2>2, <2>4
  <2>5. CASE g = {"count"}
    BY <1>2, <1>4, <2>1, <2>2, <2>5
  <2>6. CASE g = Buckets
    BY <1>2, <1>4, <2>1, <2>2, <2>6
  <2> QED
    BY <1>3, <2>3, <2>4, <2>5, <2>6
<1>5. CASE Len(s) = 7
  <2>1. /\ s[1] = "total" /\ s[2] \in {"udp", "tcp"} /\ s[3] = "servfail" /\ s[4] = "failed"
        /\ s[5] = "latency" /\ s[6] = "count" /\ s[7] \in Buckets
    BY <1>1, <1>5
  <2>2. \A i \in 1..Len(s) : i \in {1, 2, 3, 4, 5, 6, 7}
    BY <1>5
  <2>3. CASE g = {"udp", "tcp"}
    BY <1>2, <1>5, <2>1, <2>2, <2>3
  <2>4. CASE g = {"success", "nxdomain", "failed"}
    BY <1>2, <1>5, <2>1, <2>2, <2>4
  <2>5. CASE g = {"count"}
    BY <1>2, <1>5, <2>1, <2>2, <2>5
  <2>6. CASE g = Buckets
    BY <1>2, <1>5, <2>1, <2>2, <2>6
  <2> QED
    BY <1>3, <2>3, <2>4, <2>5, <2>6
<1> QED
  BY <1>1, <1>4, <1>5

LEMMA GroupsFinite ==
  ASSUME NEW g \in Groups
  PROVE  IsFiniteSet(g) /\ g \subseteq Counter /\ "total" \notin g /\ "latency" \notin g
<1>1. ASSUME NEW x, NEW y PROVE IsFiniteSet({x}) /\ IsFiniteSet({x, y})
  <2>1. IsFiniteSet({x})
    BY FS_Singleton
  <2>2. IsFiniteSet({x} \cup {y})
    BY <2>1, FS_AddElement, Zenon
  <2>3. {x, y} = {x} \cup {y}
    OBVIOUS
  <2> QED
    BY <2>1, <2>2, <2>3, Zenon
<1>2. g \in {{"udp", "tcp"}, {"success", "nxdomain", "failed"}, {"count"}, Buckets}
  BY DEF Groups, Buckets
<1>3. IsFiniteSet({"success", "nxdomain", "failed"})
  <2>1. {"success", "nxdomain", "failed"} = {"success", "nxdomain"} \cup {"failed"}
    OBVIOUS
  <2>2. IsFiniteSet({"success", "nxdomain"} \cup {"failed"})
    BY <1>1, FS_AddElement, Zenon
  <2> QED
    BY <2>1, <2>2, Zenon
<1>4. IsFiniteSet(Buckets)
  <2>1. IsFiniteSet({"<1ms", "1-5ms"} \cup {"5-10ms"} \cup {"10-50ms"} \cup {"50-100ms"} \cup {"100-500ms"}
                     \cup {"500-1000ms"} \cup {">1000ms"})
    BY <1>1, FS_AddElement, Zenon
  <2>2. Buckets = {"<1ms", "1-5ms"} \cup {"5-10ms"} \cup {"10-50ms"} \cup {"50-100ms"} \cup {"100-500ms"}
                     \cup {"500-1000ms"} \cup {">1000ms"}
    BY BucketSet
  <2> QED
    BY <2>1, <2>2
<1>5. IsFiniteSet(g)
  BY <1>1, <1>2, <1>3, <1>4
<1>6. Buckets \subseteq Counter /\ "total" \notin Buckets /\ "latency" \notin Buckets
  BY BucketSet DEF Counter, Buckets
<1>7. g \subseteq Counter /\ "total" \notin g /\ "latency" \notin g
  BY <1>2, <1>6 DEF Counter
<1> QED
  BY <1>5, <1>7

-----------------------------------------------------------------------------
Size(h) == Len(Adds(query[h]))
Due(h) == Size(h) - Len(left[h]) + 1

Shape(h) ==
  /\ pc[h] \in {"idle", "blocked", "counters", "log", "domain", "client"}
  /\ query[h] \in Queries
  /\ Len(left[h]) \in 0..Size(h)
  /\ left[h] = SubSeq(Adds(query[h]), Due(h), Size(h))
  /\ pc[h] = "blocked" => Due(h) = 1
  /\ pc[h] = "counters" => Due(h) <= Size(h)
  /\ pc[h] \notin {"blocked", "counters"} => Due(h) = Size(h) + 1

LeftInv ==
  /\ DOMAIN pc = Handlers /\ DOMAIN query = Handlers /\ DOMAIN left = Handlers
  /\ \A h \in Handlers : Shape(h)
  /\ IsFiniteSet(Busy)

LEMMA SizeType == ASSUME NEW h \in Handlers, query[h] \in Queries
                  PROVE  Size(h) \in {6, 7} /\ Adds(query[h]) \in Seq(Counter)
BY AddsShape DEF Size

(* A step of one handler leaves the others where they are. *)
LEMMA OthersWait ==
  ASSUME LeftInv, NEW h \in Handlers, Handle(h), NEW k \in Handlers, k # h
  PROVE  pc'[k] = pc[k] /\ query'[k] = query[k] /\ left'[k] = left[k]
<1>1. CASE Start(h)
  BY <1>1 DEF Start, Goto, LeftInv
<1>2. CASE RecordQuery(h)
  BY <1>2 DEF RecordQuery, Goto, LeftInv
<1>3. CASE RecordBlocked(h) \/ LogQuery(h) \/ CountDomain(h) \/ CountClient(h)
  BY <1>3 DEF LeftInv, RecordBlocked, LogQuery, CountDomain, CountClient, Goto
<1> QED
  BY <1>1, <1>2, <1>3 DEF Handle

LEMMA ShapeOfOthers ==
  ASSUME LeftInv, NEW h \in Handlers, Handle(h), NEW k \in Handlers, k # h
  PROVE  Shape(k)' /\ Due(k)' = Due(k) /\ Size(k)' = Size(k)
<1>1. Shape(k)
  BY DEF LeftInv
<1> QED
  BY <1>1, OthersWait DEF Shape, Due, Size

(* Start: the whole list is due. *)
LEMMA StartShape ==
  ASSUME LeftInv, NEW h \in Handlers, Start(h)
  PROVE  Shape(h)' /\ Due(h)' = 1 /\ Due(h) = Size(h) + 1 /\ left[h] = <<>>
<1>1. PICK q \in Queries : /\ query' = [query EXCEPT ![h] = q]
                           /\ left' = [left EXCEPT ![h] = Adds(q)]
                           /\ pc' = [pc EXCEPT ![h] = IF q.blocked THEN "blocked" ELSE "counters"]
  BY DEF Start, Goto
<1>2. query'[h] = q /\ left'[h] = Adds(q) /\ pc'[h] \in {"blocked", "counters"}
  BY <1>1 DEF LeftInv
<1>3. Adds(q) \in Seq(Counter) /\ Len(Adds(q)) \in {6, 7}
  BY AddsShape
<1>4. Size(h)' = Len(Adds(q)) /\ Due(h)' = 1
  BY <1>2, <1>3 DEF Size, Due
<1>5. Adds(q) = SubSeq(Adds(q), 1, Len(Adds(q)))
  BY <1>3, SubSeqFull
<1>6. Shape(h)'
  BY <1>2, <1>3, <1>4, <1>5 DEF Shape
<1>7. pc[h] = "idle" /\ Shape(h)
  BY DEF Start, LeftInv
<1>8. Size(h) \in {6, 7} /\ Adds(query[h]) \in Seq(Counter)
  BY <1>7, SizeType DEF Shape
<1>9. Due(h) = Size(h) + 1
  BY <1>7 DEF Shape
<1>10. left[h] = <<>>
  BY <1>7, <1>8, <1>9, SubSeqEmpty DEF Shape
<1> QED
  BY <1>4, <1>6, <1>9, <1>10

(* RecordQuery: the first of what is due is added and crossed out. *)
LEMMA RecordShape ==
  ASSUME LeftInv, NEW h \in Handlers, RecordQuery(h)
  PROVE  /\ Due(h) \in 1..Size(h) /\ Head(left[h]) = Adds(query[h])[Due(h)]
         /\ Shape(h)' /\ Due(h)' = Due(h) + 1 /\ Size(h)' = Size(h) /\ query' = query
<1> DEFINE s == Adds(query[h])
<1>1. Shape(h) /\ pc[h] = "counters" /\ left[h] # <<>>
  BY DEF RecordQuery, LeftInv
<1>2. s \in Seq(Counter) /\ Len(s) \in {6, 7} /\ Size(h) = Len(s)
  BY <1>1, AddsShape DEF Shape, Size
<1>3. Due(h) \in 1..Size(h) /\ left[h] = SubSeq(s, Due(h), Size(h)) /\ Len(left[h]) = Size(h) - Due(h) + 1
  <2>0. left[h] = SubSeq(s, Due(h), Size(h))
    BY <1>1 DEF Shape
  <2>1. Len(left[h]) \in 0..Size(h) /\ Due(h) <= Size(h)
    BY <1>1 DEF Shape
  <2>2. Due(h) = Size(h) - Len(left[h]) + 1
    BY DEF Due
  <2>3. Size(h) \in Nat /\ Len(left[h]) \in 0..Size(h) /\ Due(h) <= Size(h)
    BY <1>2, <2>1
  <2>4. Due(h) \in 1..Size(h) /\ Len(left[h]) = Size(h) - Due(h) + 1
    BY <2>2, <2>3
  <2> QED
    BY <2>0, <2>4, Zenon
<1>4. Head(left[h]) = s[Due(h)] /\ Tail(left[h]) = SubSeq(s, Due(h) + 1, Size(h))
  <2>1. Due(h) \in 1..Len(s) /\ Size(h) \in Due(h)..Len(s)
    BY <1>2, <1>3
  <2> HIDE DEF s
  <2>2. Head(SubSeq(s, Due(h), Size(h))) = s[Due(h)]
        /\ Tail(SubSeq(s, Due(h), Size(h))) = SubSeq(s, Due(h) + 1, Size(h))
    BY <1>2, <2>1, HeadTailOfSubSeq, Zenon
  <2> QED
    BY <1>3, <2>2, Zenon
<1>5. query' = query /\ left'[h] = Tail(left[h])
  BY DEF RecordQuery, LeftInv
<1>6. Len(left'[h]) = Size(h) - Due(h)
  <2>1. left[h] \in Seq(Counter)
    <3>1. \A i \in Due(h)..Size(h) : s[i] \in Counter
      BY <1>2, <1>3
    <3>2. Due(h) \in Int /\ Size(h) \in Int
      BY <1>2, <1>3
    <3> QED
      BY <1>3, <3>1, <3>2, SubSeqProperties
  <2>2. Len(Tail(left[h])) = Len(left[h]) - 1
    BY <1>1, <2>1, HeadTailProperties
  <2> QED
    BY <1>2, <1>3, <1>5, <2>2
<1>7. Size(h)' = Size(h) /\ Due(h)' = Due(h) + 1
  <2>1. Size(h)' = Size(h)
    BY <1>5 DEF Size
  <2>2. Due(h)' = Size(h) - (Size(h) - Due(h)) + 1
    BY <1>6, <2>1 DEF Due
  <2> QED
    BY <1>2, <1>3, <2>1, <2>2
<1>8. pc'[h] = IF Len(left[h]) = 1 THEN "log" ELSE "counters"
  BY <1>1 DEF RecordQuery, LeftInv, Goto
<1>9. Shape(h)'
  <2>1. query'[h] \in Queries /\ Len(left'[h]) \in 0..Size(h)
    BY <1>1, <1>2, <1>3, <1>5, <1>6 DEF Shape
  <2>2. left'[h] = SubSeq(Adds(query'[h]), Due(h) + 1, Size(h))
    BY <1>4, <1>5
  <2>3. \/ pc'[h] = "log" /\ Due(h) + 1 = Size(h) + 1
        \/ pc'[h] = "counters" /\ Due(h) + 1 <= Size(h)
    BY <1>2, <1>3, <1>8
  <2> QED
    BY <1>7, <2>1, <2>2, <2>3 DEF Shape
<1> QED
  BY <1>3, <1>4, <1>5, <1>7, <1>9

(* The other steps move the handler on when nothing, or all, is due. *)
LEMMA MoveShape ==
  ASSUME LeftInv, NEW h \in Handlers,
         RecordBlocked(h) \/ LogQuery(h) \/ CountDomain(h) \/ CountClient(h)
  PROVE  /\ Shape(h)' /\ UNCHANGED <<query, left, counters>>
         /\ Due(h)' = Due(h) /\ Size(h)' = Size(h)
<1>1. Shape(h) /\ UNCHANGED <<query, left, counters>>
  BY DEF LeftInv, RecordBlocked, LogQuery, CountDomain, CountClient
<1>2. Due(h)' = Due(h) /\ Size(h)' = Size(h)
  BY <1>1 DEF Due, Size
<1>3. Size(h) \in {6, 7}
  BY <1>1, SizeType DEF Shape
<1>4. \/ pc[h] = "blocked" /\ pc'[h] = "counters"
      \/ pc[h] \in {"log", "domain", "client"} /\ pc'[h] \in {"domain", "client", "idle"}
  BY DEF LeftInv, RecordBlocked, LogQuery, CountDomain, CountClient, Goto
<1> QED
  BY <1>1, <1>2, <1>3, <1>4 DEF Shape

LEMMA LeftInit == ASSUME Init PROVE LeftInv
<1>1. (CHOOSE q \in Queries : TRUE) \in Queries
  BY StatisticsAssumption
<1>2. query \in [Handlers -> Queries]
  BY <1>1 DEF Init
<1>3. pc = [h \in Handlers |-> "idle"] /\ left = [h \in Handlers |-> <<>>]
  BY DEF Init
<1>4. Busy = {}
  BY <1>3 DEF Busy
<1>5. ASSUME NEW h \in Handlers PROVE Shape(h)
  <2>1. Size(h) \in {6, 7} /\ query[h] \in Queries
    BY <1>2, SizeType
  <2>2. left[h] = <<>> /\ Len(left[h]) = 0 /\ pc[h] = "idle"
    BY <1>3
  <2>3. Due(h) = Size(h) + 1
    BY <2>1, <2>2 DEF Due
  <2>4. SubSeq(Adds(query[h]), Due(h), Size(h)) = <<>>
    BY <2>1, <2>3, SubSeqEmpty
  <2> QED
    BY <2>1, <2>2, <2>3, <2>4 DEF Shape
<1> QED
  BY <1>2, <1>3, <1>4, <1>5, FS_EmptySet DEF LeftInv

LEMMA LeftStep == ASSUME LeftInv, [Next]_vars PROVE LeftInv'
<1>1. ASSUME NEW h \in Handlers, Handle(h) PROVE LeftInv'
  <2>1. Shape(h)'
    BY <1>1, StartShape, RecordShape, MoveShape DEF Handle
  <2>2. \A k \in Handlers : Shape(k)'
    BY <1>1, <2>1, ShapeOfOthers
  <2>3. DOMAIN pc' = Handlers /\ DOMAIN query' = Handlers /\ DOMAIN left' = Handlers
    BY <1>1 DEF LeftInv, Handle, Start, RecordBlocked, RecordQuery, LogQuery, CountDomain, CountClient, Goto
  <2>4. Busy' \subseteq Busy \cup {h}
    BY <1>1, OthersWait DEF Busy
  <2>5. IsFiniteSet(Busy \cup {h})
    BY FS_AddElement DEF LeftInv
  <2>6. IsFiniteSet(Busy')
    BY <2>4, <2>5, FS_Subset
  <2> QED
    BY <2>2, <2>3, <2>6 DEF LeftInv
<1>2. CASE FilterDebug \/ ReadCount \/ ReadLatency \/ TrackQPS \/ UNCHANGED vars
  BY <1>2 DEF FilterDebug, ReadCount, ReadLatency, TrackQPS, vars, LeftInv, Shape, Due, Size, Busy
<1> QED
  BY <1>1, <1>2 DEF Next

-----------------------------------------------------------------------------
(* Two sets that differ at most in h. *)
LEMMA MoveOne ==
  ASSUME NEW A, IsFiniteSet(A), NEW B, NEW h, \A k : k # h => (k \in A <=> k \in B)
  PROVE  /\ IsFiniteSet(B) /\ Cardinality(A) \in Nat /\ Cardinality(B) \in Nat
         /\ (h \in A <=> h \in B) => Cardinality(B) = Cardinality(A)
         /\ h \in B /\ h \notin A => Cardinality(B) = Cardinality(A) + 1
         /\ h \in A /\ h \notin B => Cardinality(A) = Cardinality(B) + 1
<1>1. Cardinality(A) \in Nat
  BY FS_CardinalityType
<1>2. CASE h \in A <=> h \in B
  <2>1. A = B
    BY <1>2
  <2> QED
    BY <1>1, <1>2, <2>1
<1>3. CASE h \in B /\ h \notin A
  <2>1. B = A \cup {h}
    BY <1>3
  <2>2. IsFiniteSet(A \cup {h}) /\ Cardinality(A \cup {h}) = Cardinality(A) + 1
    BY <1>3, FS_AddElement, Zenon
  <2> QED
    BY <1>1, <1>3, <2>1, <2>2
<1>4. CASE h \in A /\ h \notin B
  <2>1. B = A \ {h}
    BY <1>4
  <2>2. IsFiniteSet(A \ {h}) /\ Cardinality(A \ {h}) = Cardinality(A) - 1
    BY <1>4, FS_RemoveElement, Zenon
  <2>3. Cardinality(B) \in Nat
    BY <2>1, <2>2, FS_CardinalityType
  <2> QED
    BY <1>1, <1>4, <2>1, <2>2, <2>3
<1> QED
  BY <1>2, <1>3, <1>4

(* Which of the query's counters is which. *)
LEMMA Places ==
  ASSUME NEW q \in Queries, NEW i \in 1..Len(Adds(q))
  PROVE  LET s == Adds(q)
             n == Len(s)
         IN  /\ s[i] \in Counter
             /\ s[i] = "total" <=> i = 1
             /\ s[i] = "latency" <=> i = n - 2
             /\ s[i] = "count" <=> i = n - 1
             /\ s[i] = "servfail" <=> n = 7 /\ i = 3
             /\ n = 7 => (s[i] = "failed" <=> i = 4)
<1> DEFINE s == Adds(q)
           n == Len(s)
<1>1. /\ n \in {6, 7} /\ s \in Seq(Counter) /\ s[1] = "total" /\ s[2] \in {"udp", "tcp"}
      /\ s[n - 2] = "latency" /\ s[n - 1] = "count" /\ s[n] \in Buckets
      /\ (n = 6 => s[3] \in {"success", "nxdomain", "failed"})
      /\ (n = 7 => s[3] = "servfail" /\ s[4] = "failed")
  BY AddsShape
<1>2. Buckets = {"<1ms", "1-5ms", "5-10ms", "10-50ms", "50-100ms", "100-500ms", "500-1000ms", ">1000ms"}
  BY BucketSet
<1>3. s[i] \in Counter
  BY <1>1, ElementOfSeq
<1> HIDE DEF s
<1>4. CASE n = 6
  <2>1. i \in {1, 2, 3, 4, 5, 6}
    BY <1>4 DEF s
  <2> QED
    BY <1>1, <1>2, <1>3, <1>4, <2>1 DEF s
<1>5. CASE n = 7
  <2>1. i \in {1, 2, 3, 4, 5, 6, 7}
    BY <1>5 DEF s
  <2> QED
    BY <1>1, <1>2, <1>3, <1>5, <2>1 DEF s
<1> QED
  BY <1>1, <1>4, <1>5

-----------------------------------------------------------------------------
CountersOK == counters \in [Counter -> Nat]

(* What RecordQuery does to the counters. *)
Added(h) == Adds(query[h])[Due(h)]

LEMMA RecordAdds ==
  ASSUME LeftInv, CountersOK, NEW h \in Handlers, RecordQuery(h)
  PROVE  /\ Added(h) \in Counter
         /\ \A c \in Counter \ {Added(h)} : counters'[c] = counters[c]
         /\ Added(h) # "latency" => counters'[Added(h)] = counters[Added(h)] + 1
         /\ Added(h) = "latency" => counters'["latency"] = counters["latency"] + query[h].latency
         /\ CountersOK'
         /\ query[h].latency \in Nat
<1>1. Due(h) \in 1..Size(h) /\ Head(left[h]) = Added(h)
  BY RecordShape DEF Added
<1>2. query[h] \in Queries
  BY DEF LeftInv, Shape
<1>3. Added(h) \in Counter /\ query[h].latency \in Nat
  BY <1>1, <1>2, Places, StatisticsAssumption DEF Added, Size
<1>4. counters' = [counters EXCEPT ![Added(h)] = @ + IF Added(h) = "latency" THEN query[h].latency ELSE 1]
  BY <1>1 DEF RecordQuery
<1> QED
  BY <1>3, <1>4 DEF CountersOK

LEMMA CountersStep == ASSUME LeftInv, CountersOK, [Next]_vars PROVE CountersOK'
<1>1. ASSUME NEW h \in Handlers, Handle(h) PROVE CountersOK'
  <2>1. CASE RecordQuery(h)
    BY <2>1, RecordAdds
  <2>2. CASE ~RecordQuery(h)
    BY <1>1, <2>2 DEF Handle, Start, RecordBlocked, LogQuery, CountDomain, CountClient, CountersOK
  <2> QED
    BY <2>1, <2>2
<1>2. CASE FilterDebug \/ ReadCount \/ ReadLatency \/ TrackQPS \/ UNCHANGED vars
  BY <1>2 DEF FilterDebug, ReadCount, ReadLatency, TrackQPS, vars, CountersOK
<1> QED
  BY <1>1, <1>2 DEF Next

(* Only two steps of a handler concern what is due, or the counters. *)
LEMMA RestIsStill ==
  ASSUME LeftInv, [Next]_vars, \A h \in Handlers : ~Start(h) /\ ~RecordQuery(h)
  PROVE  UNCHANGED <<query, left, counters>>
BY DEF Next, Handle, RecordBlocked, LogQuery, CountDomain, CountClient, FilterDebug, ReadCount, ReadLatency,
       TrackQPS, vars

LEMMA DueType ==
  ASSUME LeftInv, NEW h \in Handlers
  PROVE  Size(h) \in {6, 7} /\ Due(h) \in 1..Size(h) + 1 /\ (pc[h] = "idle" => Due(h) = Size(h) + 1)
         /\ query[h] \in Queries
<1>1. Shape(h)
  BY DEF LeftInv
<1>2. Size(h) \in {6, 7}
  BY <1>1, SizeType DEF Shape
<1>3. Len(left[h]) \in 0..Size(h) /\ (pc[h] = "idle" => Due(h) = Size(h) + 1) /\ query[h] \in Queries
  BY <1>1 DEF Shape
<1> QED
  BY <1>2, <1>3 DEF Due

-----------------------------------------------------------------------------
(* Each query is counted once in each group: the handlers between the      *)
(* total and their counter of the group are all that the group lacks.      *)
Behind(g) == {h \in Handlers : Due(h) > 1 /\ \E i \in Due(h)..Size(h) : Adds(query[h])[i] \in g}

GroupsInv ==
  \A g \in Groups : counters["total"] = SumFunctionOnSet(counters, g) + Cardinality(Behind(g))

LEMMA BehindFinite ==
  ASSUME LeftInv, NEW g PROVE IsFiniteSet(Behind(g)) /\ Behind(g) \subseteq Busy
<1>1. Behind(g) \subseteq Busy
  BY DueType DEF Behind, Busy
<1> QED
  BY <1>1, FS_Subset DEF LeftInv

LEMMA GroupsStep == ASSUME LeftInv, CountersOK, GroupsInv, [Next]_vars PROVE GroupsInv'
<1> SUFFICES ASSUME NEW g \in Groups
             PROVE  counters'["total"] = SumFunctionOnSet(counters', g) + Cardinality(Behind(g)')
  BY DEF GroupsInv
<1>1. LeftInv'
  BY LeftStep
<1>2. IsFiniteSet(Behind(g))
  BY BehindFinite
<1>3. counters["total"] = SumFunctionOnSet(counters, g) + Cardinality(Behind(g))
  BY DEF GroupsInv
<1>4. ASSUME NEW h \in Handlers, Handle(h), NEW k, k # h
      PROVE  k \in Behind(g) <=> k \in Behind(g)'
  BY <1>4, ShapeOfOthers, OthersWait DEF Behind
<1>5. ASSUME NEW h \in Handlers, Start(h) PROVE  counters'["total"] = SumFunctionOnSet(counters', g) + Cardinality(Behind(g)')
  <2>1. Handle(h) /\ Due(h)' = 1 /\ Due(h) = Size(h) + 1 /\ Size(h) \in {6, 7}
    BY <1>5, StartShape, DueType DEF Handle
  <2>2. h \notin Behind(g) /\ h \notin Behind(g)'
    BY <2>1 DEF Behind
  <2>3. Behind(g)' = Behind(g)
    BY <1>4, <2>1, <2>2
  <2>4. counters' = counters
    BY <1>5 DEF Start
  <2> QED
    BY <1>3, <2>3, <2>4
<1>6. ASSUME NEW h \in Handlers, RecordQuery(h) PROVE  counters'["total"] = SumFunctionOnSet(counters', g) + Cardinality(Behind(g)')
  <2> DEFINE s == Adds(query[h])
             A == Behind(g)
             B == Behind(g)'
  <2>1. /\ Handle(h) /\ Due(h) \in 1..Size(h) /\ Due(h)' = Due(h) + 1 /\ Size(h)' = Size(h)
        /\ query' = query /\ query[h] \in Queries /\ Size(h) \in {6, 7} /\ Size(h) = Len(s)
    BY <1>6, RecordShape, DueType DEF Handle, Size
  <2>2. PICK p \in 2..Size(h) : s[p] \in g /\ \A i \in 1..Size(h) : i # p => s[i] \notin g
    BY <2>1, GroupPlace
  <2>3. h \in A <=> Due(h) > 1 /\ Due(h) <= p
    BY <2>1, <2>2 DEF Behind
  <2>4. h \in B <=> Due(h) + 1 <= p
    BY <2>1, <2>2 DEF Behind
  <2>5. \A k : k # h => (k \in A <=> k \in B)
    BY <1>4, <2>1
  <2>6. /\ Cardinality(A) \in Nat /\ Cardinality(B) \in Nat
        /\ ((h \in A <=> h \in B) => Cardinality(B) = Cardinality(A))
        /\ (h \in B /\ h \notin A => Cardinality(B) = Cardinality(A) + 1)
        /\ (h \in A /\ h \notin B => Cardinality(A) = Cardinality(B) + 1)
    BY <1>2, <2>5, MoveOne
  <2>7. IsFiniteSet(g) /\ g \subseteq Counter /\ "total" \notin g /\ "latency" \notin g /\ "total" \in Counter
    BY GroupsFinite DEF Counter
  <2>8. /\ Added(h) \in Counter
        /\ \A c \in Counter \ {Added(h)} : counters'[c] = counters[c]
        /\ (Added(h) # "latency" => counters'[Added(h)] = counters[Added(h)] + 1)
        /\ Added(h) = s[Due(h)] /\ (Added(h) = "total" <=> Due(h) = 1)
        /\ (Added(h) \in g <=> Due(h) = p)
    BY <1>6, <2>1, <2>2, RecordAdds, Places DEF Added
  <2>9. /\ \A c \in Counter : counters[c] \in Nat /\ counters'[c] \in Nat
        /\ SumFunctionOnSet(counters, g) \in Nat
    <3>1. \A c \in Counter : counters[c] \in Nat /\ counters'[c] \in Nat
      BY <1>6, RecordAdds DEF CountersOK
    <3> QED
      BY <2>7, <3>1, SumType
  <2> HIDE DEF A, B, s
  <2>10. CASE Due(h) = p
    <3>1. SumFunctionOnSet(counters', g) = SumFunctionOnSet(counters, g) + 1
      <4>1. Added(h) \in g /\ Added(h) # "latency" /\ \A c \in g \ {Added(h)} : counters'[c] = counters[c]
        BY <2>7, <2>8, <2>10
      <4>2. counters'[Added(h)] = counters[Added(h)] + 1
        BY <2>8, <4>1
      <4>3. \A c \in g : counters[c] \in Nat /\ counters'[c] \in Nat
        BY <2>7, <2>9
      <4> QED
        BY <2>7, <4>1, <4>2, <4>3, SumChange
    <3>2. counters'["total"] = counters["total"]
      BY <2>2, <2>7, <2>8, <2>10
    <3>3. Cardinality(A) = Cardinality(B) + 1
      BY <2>1, <2>2, <2>3, <2>4, <2>6, <2>10
    <3> QED
      BY <1>3, <2>6, <2>9, <3>1, <3>2, <3>3 DEF A, B
  <2>11. CASE Due(h) # p
    <3>1. SumFunctionOnSet(counters', g) = SumFunctionOnSet(counters, g)
      <4>1. \A c \in g : counters'[c] = counters[c]
        BY <2>7, <2>8, <2>11
      <4> QED
        BY <2>7, <4>1, SumSame
    <3>2. CASE Due(h) = 1
      <4>1. counters'["total"] = counters["total"] + 1
        BY <2>8, <3>2
      <4>2. Cardinality(B) = Cardinality(A) + 1
        BY <2>2, <2>3, <2>4, <2>6, <3>2
      <4> QED
        BY <1>3, <2>6, <2>7, <2>9, <3>1, <4>1, <4>2 DEF A, B
    <3>3. CASE Due(h) # 1
      <4>1. counters'["total"] = counters["total"]
        BY <2>7, <2>8, <3>3
      <4>2. Cardinality(B) = Cardinality(A)
        BY <2>1, <2>2, <2>3, <2>4, <2>6, <2>11, <3>3
      <4> QED
        BY <1>3, <3>1, <4>1, <4>2 DEF A, B
    <3> QED
      BY <3>2, <3>3
  <2> QED
    BY <2>10, <2>11
<1>7. CASE \A h \in Handlers : ~Start(h) /\ ~RecordQuery(h)
  <2>1. UNCHANGED <<query, left, counters>>
    BY <1>7, RestIsStill
  <2>2. Behind(g)' = Behind(g)
    BY <2>1 DEF Behind, Due, Size
  <2> QED
    BY <1>3, <2>1, <2>2
<1> QED
  BY <1>5, <1>6, <1>7

-----------------------------------------------------------------------------
(* A step of h that moves no other handler moves no other in or out of a   *)
(* set of handlers told by where they are.                                 *)
Unlogged == {h \in Handlers : pc[h] \in {"counters", "log"} /\ Due(h) > 1}

LogInv ==
  /\ logged \in Nat
  /\ counters["total"] = logged + Cardinality(Unlogged)
  /\ ring.queryLogLen = IF logged < queryLogMax THEN logged ELSE queryLogMax

LEMMA UnloggedFinite == ASSUME LeftInv PROVE IsFiniteSet(Unlogged) /\ Unlogged \subseteq Busy
<1>1. Unlogged \subseteq Busy
  BY DEF Unlogged, Busy
<1> QED
  BY <1>1, FS_Subset DEF LeftInv

LEMMA LogStep == ASSUME LeftInv, CountersOK, LogInv, [Next]_vars PROVE LogInv'
<1>1. IsFiniteSet(Unlogged) /\ counters["total"] \in Nat
  BY UnloggedFinite DEF CountersOK, Counter
<1>2. ASSUME NEW h \in Handlers, Handle(h)
      PROVE  /\ Cardinality(Unlogged) \in Nat /\ Cardinality(Unlogged') \in Nat
             /\ ((h \in Unlogged <=> h \in Unlogged') => Cardinality(Unlogged') = Cardinality(Unlogged))
             /\ (h \in Unlogged' /\ h \notin Unlogged => Cardinality(Unlogged') = Cardinality(Unlogged) + 1)
             /\ (h \in Unlogged /\ h \notin Unlogged' => Cardinality(Unlogged) = Cardinality(Unlogged') + 1)
  <2>1. \A k : k # h => (k \in Unlogged <=> k \in Unlogged')
    BY <1>2, ShapeOfOthers, OthersWait DEF Unlogged
  <2> QED
    BY <1>1, <2>1, MoveOne
<1>3. ASSUME NEW h \in Handlers, Start(h) PROVE LogInv'
  <2>1. Handle(h) /\ Due(h)' = 1 /\ pc[h] = "idle" /\ UNCHANGED <<counters, ring, logged>>
    BY <1>3, StartShape DEF Handle, Start
  <2>2. h \notin Unlogged /\ h \notin Unlogged'
    BY <2>1 DEF Unlogged
  <2> QED
    BY <1>2, <2>1, <2>2 DEF LogInv
<1>4. ASSUME NEW h \in Handlers, RecordQuery(h) PROVE LogInv'
  <2>1. /\ Handle(h) /\ Due(h) \in 1..Size(h) /\ Due(h)' = Due(h) + 1
        /\ query[h] \in Queries /\ Size(h) \in {6, 7} /\ UNCHANGED <<ring, logged>>
    BY <1>4, RecordShape, DueType DEF Handle, RecordQuery
  <2>2. pc[h] = "counters" /\ pc'[h] \in {"counters", "log"}
    BY <1>4 DEF RecordQuery, Goto, LeftInv
  <2>3. (h \in Unlogged <=> Due(h) > 1) /\ h \in Unlogged'
    BY <2>1, <2>2 DEF Unlogged
  <2>4. counters'["total"] = IF Due(h) = 1 THEN counters["total"] + 1 ELSE counters["total"]
    <3>1. Added(h) = "total" <=> Due(h) = 1
      BY <2>1, Places DEF Added, Size
    <3>2. "total" \in Counter
      BY DEF Counter
    <3> QED
      BY <1>4, <3>1, <3>2, RecordAdds
  <2>5. Cardinality(Unlogged') = IF Due(h) = 1 THEN Cardinality(Unlogged) + 1 ELSE Cardinality(Unlogged)
    BY <1>2, <2>1, <2>3
  <2>6. counters["total"] = logged + Cardinality(Unlogged) /\ logged \in Nat /\ Cardinality(Unlogged) \in Nat
    BY <1>2, <2>1 DEF LogInv
  <2>7. counters'["total"] = logged + Cardinality(Unlogged')
    BY <2>4, <2>5, <2>6
  <2> QED
    BY <2>1, <2>7 DEF LogInv
<1>5. ASSUME NEW h \in Handlers, LogQuery(h) PROVE LogInv'
  <2>1. Handle(h) /\ pc[h] = "log" /\ counters' = counters /\ logged' = logged + 1 /\ ring' = Push(ring, query[h])
    BY <1>5 DEF Handle, LogQuery
  <2>2. h \in Unlogged
    <3>1. Due(h) = Size(h) + 1 /\ Size(h) \in {6, 7}
      BY <2>1, DueType DEF LeftInv, Shape
    <3> QED
      BY <2>1, <3>1 DEF Unlogged
  <2>3. h \notin Unlogged'
    BY <1>5 DEF Unlogged, LogQuery, Goto, LeftInv
  <2>4. Cardinality(Unlogged) = Cardinality(Unlogged') + 1 /\ Cardinality(Unlogged') \in Nat
    BY <1>2, <2>1, <2>2, <2>3
  <2>5. /\ logged \in Nat /\ counters["total"] = logged + Cardinality(Unlogged)
        /\ ring.queryLogLen = IF logged < queryLogMax THEN logged ELSE queryLogMax
    BY DEF LogInv
  <2>6. ring'.queryLogLen = IF ring.queryLogLen < queryLogMax THEN ring.queryLogLen + 1 ELSE ring.queryLogLen
    BY <2>1 DEF Push
  <2>7. ring'.queryLogLen = IF logged' < queryLogMax THEN logged' ELSE queryLogMax
    BY <2>1, <2>5, <2>6, RingAssumption
  <2>8. counters'["total"] = logged' + Cardinality(Unlogged')
    BY <2>1, <2>4, <2>5
  <2> QED
    BY <2>1, <2>5, <2>7, <2>8 DEF LogInv
<1>6. ASSUME NEW h \in Handlers, RecordBlocked(h) \/ CountDomain(h) \/ CountClient(h) PROVE LogInv'
  <2>1. Handle(h) /\ UNCHANGED <<counters, logged, ring>>
    BY <1>6 DEF Handle, RecordBlocked, CountDomain, CountClient
  <2>2. h \notin Unlogged
    BY <1>6 DEF RecordBlocked, CountDomain, CountClient, Unlogged, LeftInv, Shape
  <2>3. h \notin Unlogged'
    <3>1. CASE RecordBlocked(h)
      <4>1. Due(h)' = 1
        BY <1>6, <3>1, MoveShape DEF RecordBlocked, LeftInv, Shape
      <4> QED
        BY <4>1 DEF Unlogged
    <3>2. CASE CountDomain(h) \/ CountClient(h)
      BY <3>2 DEF CountDomain, CountClient, Goto, LeftInv, Unlogged
    <3> QED
      BY <1>6, <3>1, <3>2
  <2> QED
    BY <1>2, <2>1, <2>2, <2>3 DEF LogInv
<1>7. CASE FilterDebug \/ ReadCount \/ ReadLatency \/ TrackQPS \/ UNCHANGED vars
  <2>1. UNCHANGED <<pc, query, left, counters, ring, logged>>
    BY <1>7 DEF FilterDebug, ReadCount, ReadLatency, TrackQPS, vars
  <2>2. Unlogged' = Unlogged
    BY <2>1 DEF Unlogged, Due, Size
  <2> QED
    BY <2>1, <2>2 DEF LogInv
<1> QED
  BY <1>3, <1>4, <1>5, <1>6, <1>7 DEF Next, Handle

-----------------------------------------------------------------------------
(* servfail is counted just before failed. *)
Between == {h \in Handlers : Size(h) = 7 /\ Due(h) = 4}

ServfailInv == counters["servfail"] <= counters["failed"] + Cardinality(Between)

LEMMA BetweenFinite == ASSUME LeftInv PROVE IsFiniteSet(Between) /\ Between \subseteq Busy
<1>1. Between \subseteq Busy
  BY DueType DEF Between, Busy
<1> QED
  BY <1>1, FS_Subset DEF LeftInv

LEMMA ServfailStep == ASSUME LeftInv, CountersOK, ServfailInv, [Next]_vars PROVE ServfailInv'
<1> DEFINE sf == counters["servfail"]
           fl == counters["failed"]
<1>1. IsFiniteSet(Between) /\ sf \in Nat /\ fl \in Nat
  BY BetweenFinite DEF CountersOK, Counter
<1>2. ASSUME NEW h \in Handlers, Handle(h)
      PROVE  /\ Cardinality(Between) \in Nat /\ Cardinality(Between') \in Nat
             /\ ((h \in Between <=> h \in Between') => Cardinality(Between') = Cardinality(Between))
             /\ (h \in Between' /\ h \notin Between => Cardinality(Between') = Cardinality(Between) + 1)
             /\ (h \in Between /\ h \notin Between' => Cardinality(Between) = Cardinality(Between') + 1)
  <2>1. \A k : k # h => (k \in Between <=> k \in Between')
    BY <1>2, ShapeOfOthers DEF Between
  <2> QED
    BY <1>1, <2>1, MoveOne
<1>3. ASSUME NEW h \in Handlers, Start(h) PROVE ServfailInv'
  <2>1. Handle(h) /\ Due(h)' = 1 /\ Due(h) = Size(h) + 1 /\ counters' = counters
    BY <1>3, StartShape DEF Handle, Start
  <2>2. h \notin Between /\ h \notin Between'
    BY <2>1 DEF Between
  <2> QED
    BY <1>2, <2>1, <2>2 DEF ServfailInv
<1>4. ASSUME NEW h \in Handlers, RecordQuery(h) PROVE ServfailInv'
  <2>1. /\ Handle(h) /\ Due(h) \in 1..Size(h) /\ Due(h)' = Due(h) + 1 /\ Size(h)' = Size(h)
        /\ query[h] \in Queries /\ Size(h) \in {6, 7}
    BY <1>4, RecordShape, DueType DEF Handle
  <2>2. /\ h \in Between <=> Size(h) = 7 /\ Due(h) = 4
        /\ h \in Between' <=> Size(h) = 7 /\ Due(h) = 3
    BY <2>1 DEF Between
  <2>3. /\ Added(h) = "servfail" <=> Size(h) = 7 /\ Due(h) = 3
        /\ Size(h) = 7 => (Added(h) = "failed" <=> Due(h) = 4)
    BY <2>1, Places DEF Added, Size
  <2>4. {"servfail", "failed"} \subseteq Counter
    BY DEF Counter
  <2>5. /\ counters'["servfail"] = IF Added(h) = "servfail" THEN sf + 1 ELSE sf
        /\ counters'["failed"] = IF Added(h) = "failed" THEN fl + 1 ELSE fl
    BY <1>4, <2>4, RecordAdds
  <2>6. sf <= fl + Cardinality(Between) /\ Cardinality(Between) \in Nat /\ Cardinality(Between') \in Nat
    BY <1>2, <2>1 DEF ServfailInv
  <2> HIDE DEF sf, fl
  <2>7. CASE Size(h) = 7 /\ Due(h) = 3
    BY <1>1, <1>2, <2>1, <2>2, <2>3, <2>5, <2>6, <2>7 DEF ServfailInv
  <2>8. CASE Size(h) = 7 /\ Due(h) = 4
    BY <1>1, <1>2, <2>1, <2>2, <2>3, <2>5, <2>6, <2>8 DEF ServfailInv
  <2>9. CASE ~(Size(h) = 7 /\ Due(h) \in {3, 4})
    <3>1. Cardinality(Between') = Cardinality(Between) /\ counters'["servfail"] = sf
      BY <1>2, <2>1, <2>2, <2>3, <2>5, <2>9
    <3> QED
      BY <1>1, <2>5, <2>6, <3>1 DEF ServfailInv
  <2> QED
    BY <2>7, <2>8, <2>9
<1>5. CASE \A h \in Handlers : ~Start(h) /\ ~RecordQuery(h)
  <2>1. UNCHANGED <<query, left, counters>>
    BY <1>5, RestIsStill
  <2>2. Between' = Between
    BY <2>1 DEF Between, Due, Size
  <2> QED
    BY <2>1, <2>2 DEF ServfailInv
<1> QED
  BY <1>3, <1>4, <1>5

-----------------------------------------------------------------------------
(* The time is added just before the query is counted. *)
Timed == {h \in Handlers : Due(h) = Size(h) - 1}
Fastest == Min({q.latency : q \in Queries})

LatencyInv ==
  /\ counters["latency"] >= Fastest * (counters["count"] + Cardinality(Timed))
  /\ snap.at = "latency" => snap.count \in 0..counters["count"]

LEMMA NatHasLeast ==
  ASSUME NEW S, S \subseteq Nat, S # {} PROVE \E x \in S : \A y \in S : x <= y
<1> DEFINE R == OpToRel(<, Nat)
<1>1. IsWellFoundedOn(R, Nat)
  BY NatLessThanWellFounded
<1>2. \A m, n \in Nat : m < n => <<m, n>> \in R
  BY Zenon DEF OpToRel
<1> HIDE DEF R
<1>3. PICK x \in S : \A y \in S : ~ (<<y, x>> \in R)
  BY <1>1, WFMin
<1>4. \A y \in S : ~ (y < x)
  BY <1>2, <1>3
<1> QED
  BY <1>4

LEMMA FastestType == Fastest \in Nat /\ \A q \in Queries : Fastest <= q.latency
<1> DEFINE S == {q.latency : q \in Queries}
<1>1. S \subseteq Nat /\ S # {}
  BY StatisticsAssumption
<1>2. \E x \in S : \A y \in S : x <= y
  BY <1>1, NatHasLeast
<1>3. Fastest \in S /\ \A y \in S : Fastest <= y
  BY <1>2 DEF Fastest, Min
<1> QED
  BY <1>1, <1>3

LEMMA Times ==
  ASSUME NEW a \in Nat, NEW b \in Nat, NEW m \in Nat
  PROVE  /\ m * a \in Nat /\ m * (a + 1) = m * a + m
         /\ a <= b => m * a <= m * b
OBVIOUS

LEMMA TimedFinite == ASSUME LeftInv PROVE IsFiniteSet(Timed) /\ Timed \subseteq Busy
<1>1. Timed \subseteq Busy
  BY DueType DEF Timed, Busy
<1> QED
  BY <1>1, FS_Subset DEF LeftInv

LEMMA LatencyStep == ASSUME LeftInv, CountersOK, LatencyInv, [Next]_vars PROVE LatencyInv'
<1> DEFINE lat == counters["latency"]
           cnt == counters["count"]
           C == Cardinality(Timed)
           D == Cardinality(Timed)'
<1>1. IsFiniteSet(Timed) /\ lat \in Nat /\ cnt \in Nat
  BY TimedFinite DEF CountersOK, Counter
<1>2. ASSUME NEW h \in Handlers, Handle(h)
      PROVE  /\ C \in Nat /\ D \in Nat
             /\ ((h \in Timed <=> h \in Timed') => D = C)
             /\ (h \in Timed' /\ h \notin Timed => D = C + 1)
             /\ (h \in Timed /\ h \notin Timed' => C = D + 1)
  <2>1. \A k : k # h => (k \in Timed <=> k \in Timed')
    BY <1>2, ShapeOfOthers DEF Timed
  <2> QED
    BY <1>1, <2>1, MoveOne
<1>3. ASSUME NEW h \in Handlers, Start(h) PROVE LatencyInv'
  <2>1. /\ Handle(h) /\ Due(h)' = 1 /\ Due(h) = Size(h) + 1 /\ counters' = counters /\ snap' = snap
        /\ Size(h) \in {6, 7}
    BY <1>3, StartShape, DueType DEF Handle, Start
  <2>2. Size(h)' \in {6, 7}
    <3>1. query'[h] \in Queries
      BY <1>3, StartShape DEF Shape
    <3> QED
      BY <3>1, AddsShape DEF Size
  <2>3. h \notin Timed /\ h \notin Timed'
    BY <2>1, <2>2 DEF Timed
  <2> QED
    BY <1>2, <2>1, <2>3 DEF LatencyInv
<1>4. ASSUME NEW h \in Handlers, RecordQuery(h) PROVE LatencyInv'
  <2>1. /\ Handle(h) /\ Due(h) \in 1..Size(h) /\ Due(h)' = Due(h) + 1 /\ Size(h)' = Size(h)
        /\ query[h] \in Queries /\ Size(h) \in {6, 7} /\ snap' = snap
    BY <1>4, RecordShape, DueType DEF Handle, RecordQuery
  <2>2. /\ h \in Timed <=> Due(h) = Size(h) - 1
        /\ h \in Timed' <=> Due(h) = Size(h) - 2
    BY <2>1 DEF Timed
  <2>3. /\ Added(h) = "latency" <=> Due(h) = Size(h) - 2
        /\ Added(h) = "count" <=> Due(h) = Size(h) - 1
    BY <2>1, Places DEF Added, Size
  <2>4. {"latency", "count"} \subseteq Counter
    BY DEF Counter
  <2>5. /\ counters'["latency"] = IF Added(h) = "latency" THEN lat + query[h].latency ELSE lat
        /\ counters'["count"] = IF Added(h) = "count" THEN cnt + 1 ELSE cnt
        /\ query[h].latency \in Nat
    BY <1>4, <2>4, RecordAdds
  <2>6. lat >= Fastest * (cnt + C) /\ C \in Nat /\ D \in Nat
    BY <1>2, <2>1 DEF LatencyInv
  <2>7. Fastest \in Nat /\ Fastest <= query[h].latency
    BY <2>1, FastestType
  <2>8. /\ Fastest * (cnt + C) \in Nat
        /\ Fastest * ((cnt + C) + 1) = Fastest * (cnt + C) + Fastest
    BY <1>1, <2>6, <2>7, Times
  <2>9. counters'["latency"] >= Fastest * (counters'["count"] + D)
    <3> HIDE DEF lat, cnt, C, D
    <3>1. CASE Due(h) = Size(h) - 2
      <4>1. D = C + 1 /\ counters'["count"] = cnt /\ counters'["latency"] = lat + query[h].latency
        BY <1>2, <2>1, <2>2, <2>3, <2>5, <3>1
      <4>2. counters'["count"] + D = (cnt + C) + 1
        BY <1>1, <2>6, <4>1
      <4> QED
        BY <1>1, <2>5, <2>6, <2>7, <2>8, <4>1, <4>2
    <3>2. CASE Due(h) = Size(h) - 1
      <4>1. C = D + 1 /\ counters'["count"] = cnt + 1 /\ counters'["latency"] = lat
        BY <1>2, <2>1, <2>2, <2>3, <2>5, <3>2
      <4>2. counters'["count"] + D = cnt + C
        BY <1>1, <2>6, <4>1
      <4> QED
        BY <2>6, <4>1, <4>2
    <3>3. CASE Due(h) \notin {Size(h) - 2, Size(h) - 1}
      <4>1. D = C /\ counters'["count"] = cnt /\ counters'["latency"] = lat
        BY <1>2, <2>1, <2>2, <2>3, <2>5, <3>3
      <4> QED
        BY <2>6, <4>1
    <3> QED
      BY <3>1, <3>2, <3>3
  <2>10. cnt <= counters'["count"] /\ counters'["count"] \in Nat
    BY <1>1, <2>5
  <2>11. snap.at = "latency" => snap.count \in 0..counters'["count"]
    BY <1>1, <2>10 DEF LatencyInv
  <2> QED
    BY <2>1, <2>9, <2>11 DEF LatencyInv
<1>5. CASE (\A h \in Handlers : ~Start(h) /\ ~RecordQuery(h))
  <2>1. UNCHANGED <<query, left, counters>>
    BY <1>5, RestIsStill
  <2>2. Timed' = Timed
    BY <2>1 DEF Timed, Due, Size
  <2>3. snap' = snap \/ snap' = [at |-> "latency", count |-> cnt] \/ snap' = [at |-> "idle", count |-> 0]
    BY DEF Next, Handle, Start, RecordBlocked, RecordQuery, LogQuery, CountDomain, CountClient,
           FilterDebug, ReadCount, ReadLatency, TrackQPS, vars
  <2>4. snap'.at = "latency" => snap'.count \in 0..cnt
    BY <1>1, <2>3 DEF LatencyInv
  <2> QED
    BY <2>1, <2>2, <2>4 DEF LatencyInv
<1> QED
  BY <1>3, <1>4, <1>5

-----------------------------------------------------------------------------
LEMMA UptoFinite == ASSUME NEW n \in Nat
                    PROVE  IsFiniteSet(1..n) /\ 1..(n + 1) = (1..n) \cup {n + 1} /\ n + 1 \notin 1..n
<1>1. IsFiniteSet(1..n)
  BY FS_Interval
<1> QED
  BY <1>1

(* A sequence's sum when an element is added, and when its first is dropped. *)
LEMMA SumOfAppend ==
  ASSUME NEW s \in Seq(Nat), NEW v \in Nat
  PROVE  SumFunction(s) \in Nat /\ SumFunction(Append(s, v)) = SumFunction(s) + v
<1> DEFINE n == Len(s)
<1>1. n \in Nat /\ DOMAIN s = 1..n /\ \A i \in 1..n : s[i] \in Nat
  OBVIOUS
<1>2. PICK t : t = Append(s, v)
  BY Zenon
<1>3. DOMAIN t = 1..(n + 1) /\ t[n + 1] = v /\ \A i \in 1..n : t[i] = s[i]
  BY <1>1, <1>2
<1>4. IsFiniteSet(1..n) /\ 1..(n + 1) = (1..n) \cup {n + 1} /\ n + 1 \notin 1..n
  BY <1>1, UptoFinite
<1> HIDE DEF n
<1>5. SumFunctionOnSet(s, 1..n) \in Nat /\ SumFunctionOnSet(t, 1..n) = SumFunctionOnSet(s, 1..n)
  BY <1>1, <1>3, <1>4, SumSame, SumType
<1>6. SumFunctionOnSet(t, (1..n) \cup {n + 1}) = t[n + 1] + SumFunctionOnSet(t, 1..n)
  <2>1. \A x \in (1..n) \cup {n + 1} : t[x] \in Nat
    BY <1>1, <1>3
  <2> QED
    BY <1>4, <2>1, SumAdd
<1>7. SumFunction(s) = SumFunctionOnSet(s, 1..n) /\ SumFunction(t) = SumFunctionOnSet(t, (1..n) \cup {n + 1})
  BY <1>1, <1>3, <1>4 DEF SumFunction
<1>8. SumFunction(t) = SumFunction(s) + v
  BY <1>3, <1>5, <1>6, <1>7
<1> QED
  BY <1>2, <1>5, <1>7, <1>8

LEMMA SumOfTail ==
  ASSUME NEW s \in Seq(Nat), s # <<>>
  PROVE  /\ Tail(s) \in Seq(Nat) /\ SumFunction(Tail(s)) \in Nat
         /\ SumFunction(s) = SumFunction(Tail(s)) + s[1] /\ s[1] \in Nat
<1>1. PICK t : t = Tail(s)
  BY Zenon
<1>2. PICK n \in Nat : Len(s) = n + 1
  <2>1. Len(s) \in Nat \ {0}
    BY EmptySeq
  <2>2. Len(s) - 1 \in Nat /\ Len(s) = (Len(s) - 1) + 1
    BY <2>1
  <2> QED
    BY <2>2
<1>3. /\ t \in Seq(Nat) /\ Len(t) = n /\ DOMAIN t = 1..n /\ DOMAIN s = 1..(n + 1)
      /\ \A i \in 1..n : t[i] = s[i + 1]
      /\ \A i \in 1..(n + 1) : s[i] \in Nat
  BY <1>1, <1>2
<1> DEFINE P == {m \in Nat : m <= n => SumFunctionOnSet(s, 1..(m + 1)) = SumFunctionOnSet(t, 1..m) + s[1]}
<1>4. 0 \in P
  <2>1. 1..0 = {} /\ 1..(0 + 1) = {} \cup {1} /\ s[1] \in Nat
    BY <1>3
  <2>2. SumFunctionOnSet(s, {} \cup {1}) = s[1] + SumFunctionOnSet(s, {})
    BY <2>1, SumAdd, FS_EmptySet
  <2> QED
    BY <2>1, <2>2, SumOfNothing
<1>5. ASSUME NEW m \in Nat, m \in P PROVE m + 1 \in P
  <2> SUFFICES ASSUME m + 1 <= n
               PROVE  SumFunctionOnSet(s, 1..((m + 1) + 1)) = SumFunctionOnSet(t, 1..(m + 1)) + s[1]
    OBVIOUS
  <2>1. SumFunctionOnSet(s, 1..(m + 1)) = SumFunctionOnSet(t, 1..m) + s[1]
    BY <1>5
  <2>2. SumFunctionOnSet(t, 1..(m + 1)) = t[m + 1] + SumFunctionOnSet(t, 1..m)
    <3>1. IsFiniteSet(1..m) /\ 1..(m + 1) = (1..m) \cup {m + 1} /\ m + 1 \notin 1..m
      BY UptoFinite
    <3>2. \A x \in (1..m) \cup {m + 1} : t[x] \in Nat
      BY <1>3
    <3>3. SumFunctionOnSet(t, (1..m) \cup {m + 1}) = t[m + 1] + SumFunctionOnSet(t, 1..m)
      BY <3>1, <3>2, SumAdd
    <3> QED
      BY <3>1, <3>3
  <2>3. SumFunctionOnSet(s, 1..((m + 1) + 1)) = s[(m + 1) + 1] + SumFunctionOnSet(s, 1..(m + 1))
    <3>1. /\ IsFiniteSet(1..(m + 1)) /\ 1..((m + 1) + 1) = (1..(m + 1)) \cup {(m + 1) + 1}
          /\ (m + 1) + 1 \notin 1..(m + 1)
      <4>1. m + 1 \in Nat
        OBVIOUS
      <4> QED
        BY <4>1, UptoFinite
    <3>2. \A x \in (1..(m + 1)) \cup {(m + 1) + 1} : s[x] \in Nat
      BY <1>3
    <3>3. SumFunctionOnSet(s, (1..(m + 1)) \cup {(m + 1) + 1}) = s[(m + 1) + 1] + SumFunctionOnSet(s, 1..(m + 1))
      BY <3>1, <3>2, SumAdd
    <3> QED
      BY <3>1, <3>3
  <2>4. t[m + 1] = s[(m + 1) + 1] /\ t[m + 1] \in Nat /\ s[1] \in Nat
    BY <1>3
  <2>5. SumFunctionOnSet(t, 1..m) \in Nat
    <3>1. IsFiniteSet(1..m) /\ \A x \in 1..m : t[x] \in Nat
      BY <1>3, UptoFinite
    <3> QED
      BY <3>1, SumType
  <2> QED
    BY <2>1, <2>2, <2>3, <2>4, <2>5
<1>6. n \in P
  <2> HIDE DEF P
  <2> QED
    BY <1>4, <1>5, ByNumber
<1>7. SumFunctionOnSet(s, 1..(n + 1)) = SumFunctionOnSet(t, 1..n) + s[1]
  BY <1>6
<1>8. SumFunctionOnSet(t, 1..n) \in Nat
  <2>1. IsFiniteSet(1..n) /\ \A x \in 1..n : t[x] \in Nat
    BY <1>3, UptoFinite
  <2> QED
    BY <2>1, SumType
<1>9. SumFunction(s) = SumFunctionOnSet(s, 1..(n + 1)) /\ SumFunction(t) = SumFunctionOnSet(t, 1..n)
  BY <1>3, Zenon DEF SumFunction
<1>10. s[1] \in Nat
  BY <1>3
<1> HIDE DEF P
<1> QED
  BY <1>1, <1>3, <1>7, <1>8, <1>9, <1>10

-----------------------------------------------------------------------------
(* The points of the history say how many queries each tick found: kept in *)
(* full, they sum to what the last tick saw.                               *)
QpsInv ==
  /\ qps.points \in Seq(Nat) /\ Len(qps.points) <= qpsMax
  /\ qps.last \in 0..counters["total"]
  /\ SumFunction(qps.points) <= qps.last
  /\ Len(qps.points) < qpsMax => SumFunction(qps.points) = qps.last

LEMMA TotalGrows ==
  ASSUME LeftInv, CountersOK, [Next]_vars
  PROVE  counters["total"] \in Nat /\ counters'["total"] \in Nat /\ counters["total"] <= counters'["total"]
<1>1. "total" \in Counter /\ counters["total"] \in Nat /\ counters'["total"] \in Nat
  BY CountersStep DEF CountersOK, Counter
<1>2. ASSUME NEW h \in Handlers, RecordQuery(h) PROVE counters["total"] <= counters'["total"]
  BY <1>1, <1>2, RecordAdds
<1>3. CASE \A h \in Handlers : ~Start(h) /\ ~RecordQuery(h)
  BY <1>1, <1>3, RestIsStill
<1>4. ASSUME NEW h \in Handlers, Start(h) PROVE counters["total"] <= counters'["total"]
  BY <1>1, <1>4 DEF Start
<1> QED
  BY <1>1, <1>2, <1>3, <1>4

LEMMA QpsStep == ASSUME LeftInv, CountersOK, QpsInv, [Next]_vars PROVE QpsInv'
<1>1. counters["total"] \in Nat /\ counters'["total"] \in Nat /\ counters["total"] <= counters'["total"]
  BY TotalGrows
<1>2. CASE TrackQPS
  <2> DEFINE v == counters["total"] - qps.last
             s == qps.points
             max == qpsMax
  <2>1. qps.last \in 0..counters["total"] /\ v \in Nat /\ qps.last + v = counters["total"]
    BY <1>1 DEF QpsInv
  <2>2. s \in Seq(Nat) /\ max \in Nat \ {0}
    BY StatisticsAssumption DEF QpsInv
  <2>3. PICK t : t = Append(s, v)
    BY Zenon
  <2>4. counters' = counters /\ qps' = [last |-> counters["total"], points |-> LastOf(t)]
    BY <1>2, <2>3 DEF TrackQPS
  <2> HIDE DEF v
  <2>5. SumFunction(s) \in Nat /\ SumFunction(t) = SumFunction(s) + v
    BY <2>1, <2>2, <2>3, SumOfAppend
  <2>6. t \in Seq(Nat) /\ t # <<>> /\ Len(t) = Len(s) + 1 /\ Len(s) \in Nat
    BY <2>1, <2>2, <2>3
  <2>7. /\ Tail(t) \in Seq(Nat) /\ SumFunction(Tail(t)) \in Nat
        /\ SumFunction(t) = SumFunction(Tail(t)) + t[1] /\ t[1] \in Nat /\ Len(Tail(t)) = Len(t) - 1
    BY <2>6, SumOfTail
  <2>8. Len(s) <= max /\ SumFunction(s) <= qps.last /\ (Len(s) < max => SumFunction(s) = qps.last)
    BY DEF QpsInv
  <2>9. CASE Len(t) > max
    <3>1. LastOf(t) = Tail(t)
      BY <2>9 DEF LastOf
    <3>2. Len(LastOf(t)) = max
      BY <2>2, <2>6, <2>7, <2>8, <2>9, <3>1
    <3>3. SumFunction(LastOf(t)) <= counters["total"]
      BY <1>1, <2>1, <2>5, <2>7, <2>8, <3>1
    <3> QED
      BY <1>1, <2>2, <2>4, <2>7, <3>1, <3>2, <3>3 DEF QpsInv
  <2>10. CASE Len(t) <= max
    <3>1. LastOf(t) = t
      BY <2>2, <2>6, <2>10 DEF LastOf
    <3>2. SumFunction(LastOf(t)) = counters["total"] /\ Len(LastOf(t)) <= max
      BY <1>1, <2>1, <2>2, <2>5, <2>6, <2>8, <2>10, <3>1
    <3> QED
      BY <1>1, <2>4, <2>6, <3>1, <3>2 DEF QpsInv
  <2> QED
    BY <2>2, <2>6, <2>9, <2>10
<1>3. CASE qps' = qps
  BY <1>1, <1>3 DEF QpsInv
<1>4. qps' = qps \/ TrackQPS
  BY DEF Next, Handle, Start, RecordBlocked, RecordQuery, LogQuery, CountDomain, CountClient,
         FilterDebug, ReadCount, ReadLatency, vars
<1> QED
  BY <1>2, <1>3, <1>4

-----------------------------------------------------------------------------
(* The inductive invariant of the counters. *)
CountInv == LeftInv /\ CountersOK /\ GroupsInv /\ LogInv /\ ServfailInv /\ LatencyInv /\ QpsInv

LEMMA CountInit == ASSUME Init PROVE CountInv
<1>1. LeftInv
  BY LeftInit
<1>2. counters = [c \in Counter |-> 0] /\ ring = EmptyRing /\ logged = 0
      /\ qps = [last |-> 0, points |-> <<>>] /\ snap = [at |-> "idle", count |-> 0]
      /\ \A h \in Handlers : pc[h] = "idle"
  BY DEF Init
<1>3. CountersOK /\ \A c \in {"total", "servfail", "failed", "latency", "count"} : counters[c] = 0
  BY <1>2 DEF CountersOK, Counter
<1>4. Busy = {}
  BY <1>2 DEF Busy
<1>5. Cardinality({}) = 0
  BY FS_EmptySet
<1>6. GroupsInv
  <2> SUFFICES ASSUME NEW g \in Groups
               PROVE  counters["total"] = SumFunctionOnSet(counters, g) + Cardinality(Behind(g))
    BY DEF GroupsInv
  <2>1. Behind(g) = {}
    BY <1>1, <1>4, BehindFinite
  <2>2. SumFunctionOnSet(counters, g) = 0
    BY <1>2, GroupsFinite, SumOfZeros
  <2> QED
    BY <1>3, <1>5, <2>1, <2>2
<1>7. LogInv
  <2>1. Unlogged = {}
    BY <1>1, <1>4, UnloggedFinite
  <2> QED
    BY <1>2, <1>3, <1>5, <2>1, RingAssumption DEF LogInv, EmptyRing
<1>8. ServfailInv
  <2>1. Between = {}
    BY <1>1, <1>4, BetweenFinite
  <2> QED
    BY <1>3, <1>5, <2>1 DEF ServfailInv
<1>9. LatencyInv
  <2>1. Timed = {}
    BY <1>1, <1>4, TimedFinite
  <2>2. Fastest \in Nat
    BY FastestType
  <2>3. Fastest * (counters["count"] + Cardinality(Timed)) = 0
    BY <1>3, <1>5, <2>1, <2>2
  <2> QED
    BY <1>2, <1>3, <2>3 DEF LatencyInv
<1>10. QpsInv
  <2>1. SumFunction(<<>>) = 0
    BY SumOfNothing DEF SumFunction
  <2> QED
    BY <1>2, <1>3, <2>1, StatisticsAssumption DEF QpsInv
<1> QED
  BY <1>1, <1>3, <1>6, <1>7, <1>8, <1>9, <1>10 DEF CountInv

LEMMA CountInvHolds == Spec => []CountInv
<1>1. Init => CountInv
  BY CountInit
<1>2. CountInv /\ [Next]_vars => CountInv'
  BY LeftStep, CountersStep, GroupsStep, LogStep, ServfailStep, LatencyStep, QpsStep DEF CountInv
<1> QED
  BY <1>1, <1>2, PTL DEF Spec

LEMMA LeastOfTwo == ASSUME NEW a \in Int, NEW b \in Int
                    PROVE  Min({a, b}) = IF a < b THEN a ELSE b
<1>1. \E x \in {a, b} : \A y \in {a, b} : x =< y
  OBVIOUS
<1>2. Min({a, b}) \in {a, b} /\ \A y \in {a, b} : Min({a, b}) =< y
  BY <1>1 DEF Min
<1> QED
  BY <1>2

(* However handlers and ticker mix (RecordQuery and trackQPS of metrics.go), *)
(* each query is counted once in each group of counters and in one point   *)
(* of the history: a group lags the total by handlers that are under way.  *)
THEOREM EveryQueryCountedOnceHolds == Spec => []EveryQueryCountedOnce
<1>1. ASSUME CountInv PROVE EveryQueryCountedOnce
  <2>1. /\ LeftInv /\ IsFiniteSet(Busy) /\ Cardinality(Busy) \in Nat
        /\ \A c \in Counter : counters[c] \in Nat
        /\ counters["total"] \in Nat /\ counters["servfail"] \in Nat /\ counters["failed"] \in Nat
    BY <1>1, FS_CardinalityType DEF CountInv, LeftInv, CountersOK, Counter
  <2>2. \A S \in SUBSET Busy : Cardinality(S) \in Nat /\ Cardinality(S) <= Cardinality(Busy)
    BY <2>1, FS_Subset, FS_CardinalityType
  <2>3. ASSUME NEW g \in Groups
        PROVE  LET sum == SumFunctionOnSet(counters, g)
               IN  sum <= counters["total"] /\ counters["total"] <= sum + Cardinality(Busy)
    <3>1. SumFunctionOnSet(counters, g) \in Nat
      BY <2>1, GroupsFinite, SumType
    <3>2. Behind(g) \in SUBSET Busy
      BY <2>1, BehindFinite
    <3>3. counters["total"] = SumFunctionOnSet(counters, g) + Cardinality(Behind(g))
      BY <1>1 DEF CountInv, GroupsInv
    <3> QED
      BY <2>1, <2>2, <3>1, <3>2, <3>3
  <2>4. counters["servfail"] <= counters["failed"] + Cardinality(Busy)
    <3>1. Between \in SUBSET Busy
      BY <2>1, BetweenFinite
    <3>2. counters["servfail"] <= counters["failed"] + Cardinality(Between)
      BY <1>1 DEF CountInv, ServfailInv
    <3> QED
      BY <2>1, <2>2, <3>1, <3>2
  <2>5. /\ Len(qps.points) <= qpsMax
        /\ LET kept == SumFunction(qps.points)
           IN  kept <= qps.last /\ (Len(qps.points) < qpsMax => kept = qps.last)
    BY <1>1 DEF CountInv, QpsInv
  <2>6. ASSUME Busy = {} PROVE ring.queryLogLen = Min({counters["total"], queryLogMax})
    <3>1. Unlogged = {}
      BY <2>1, <2>6, UnloggedFinite
    <3>2. counters["total"] = logged /\ ring.queryLogLen = IF logged < queryLogMax THEN logged ELSE queryLogMax
      BY <1>1, <3>1, FS_EmptySet DEF CountInv, LogInv
    <3> QED
      BY <2>1, <3>2, LeastOfTwo, RingAssumption
  <2> QED
    BY <2>3, <2>4, <2>5, <2>6 DEF EveryQueryCountedOnce
<1> QED
  BY <1>1, CountInvHolds, PTL

(* GetSnapshot reads the number of queries before their time and           *)
(* RecordQuery adds the time before the number: the average it shows is    *)
(* never below the time of the fastest query.                              *)
THEOREM AverageNotTooLowHolds == Spec => []AverageNotTooLow
<1>1. ASSUME CountInv PROVE AverageNotTooLow
  <2> SUFFICES ASSUME snap.at = "latency"
               PROVE  counters["latency"] >= snap.count * Fastest
    BY DEF AverageNotTooLow, Fastest
  <2> DEFINE C == Cardinality(Timed)
             lat == counters["latency"]
             cnt == counters["count"]
             n == snap.count
             m == Fastest
  <2>1. C \in Nat /\ m \in Nat /\ lat \in Nat /\ cnt \in Nat
    BY <1>1, TimedFinite, FastestType, FS_CardinalityType DEF CountInv, CountersOK, Counter
  <2>2. lat >= m * (cnt + C) /\ n \in 0..cnt
    BY <1>1 DEF CountInv, LatencyInv
  <2> HIDE DEF C, lat, cnt, n, m
  <2>3. n \in Nat /\ cnt + C \in Nat /\ n <= cnt + C
    BY <2>1, <2>2
  <2>4. m * n \in Nat /\ m * (cnt + C) \in Nat /\ m * n <= m * (cnt + C)
    BY <2>1, <2>3, Times
  <2>5. m * n = n * m
    BY <2>1, <2>3
  <2>6. lat >= n * m
    BY <2>1, <2>2, <2>4, <2>5
  <2> QED
    BY <2>6 DEF lat, n, m
<1> QED
  BY <1>1, CountInvHolds, PTL

-----------------------------------------------------------------------------
(* A table of counts, and what the three operations on it do to a count. *)
Table(t) == IsFiniteSet(DOMAIN t) /\ \A k \in DOMAIN t : t[k] \in Nat

LEMMA CountType == ASSUME NEW t, Table(t) PROVE \A x : CountOf(t, x) \in Nat
BY DEF Table, CountOf

LEMMA PutCounts ==
  ASSUME NEW t, NEW k, NEW v
  PROVE  /\ CountOf(Put(t, k, v), k) = v
         /\ \A x : x # k => CountOf(Put(t, k, v), x) = CountOf(t, x)
BY DEF Put, CountOf

LEMMA PutTable ==
  ASSUME NEW t, Table(t), NEW k, NEW v \in Nat
  PROVE  Table(Put(t, k, v)) /\ DOMAIN Put(t, k, v) = DOMAIN t \cup {k}
<1>1. IsFiniteSet(DOMAIN t \cup {k})
  BY FS_AddElement DEF Table
<1> QED
  BY <1>1 DEF Put, Table

LEMMA WithoutCounts ==
  ASSUME NEW t, NEW k
  PROVE  \A x : CountOf(Without(t, k), x) = IF x = k THEN 0 ELSE CountOf(t, x)
BY DEF Without, CountOf

LEMMA WithoutTable ==
  ASSUME NEW t, Table(t), NEW k
  PROVE  Table(Without(t, k)) /\ DOMAIN Without(t, k) = DOMAIN t \ {k}
<1>1. IsFiniteSet(DOMAIN t \ {k})
  BY FS_Subset DEF Table
<1> QED
  BY <1>1 DEF Without, Table

(* A set and one element more. *)
LEMMA OneMore ==
  ASSUME NEW S, IsFiniteSet(S), NEW k
  PROVE  /\ IsFiniteSet(S \cup {k}) /\ Cardinality(S) \in Nat /\ Cardinality(S \cup {k}) \in Nat
         /\ Cardinality(S) <= Cardinality(S \cup {k})
         /\ Cardinality(S \cup {k}) <= Cardinality(S) + 1
         /\ k \in S => Cardinality(S \cup {k}) = Cardinality(S)
         /\ k \notin S => Cardinality(S \cup {k}) = Cardinality(S) + 1
         /\ k \in S => Cardinality(S \ {k}) = Cardinality(S) - 1
<1>1. Cardinality(S) \in Nat
  BY FS_CardinalityType
<1>2. k \in S => Cardinality(S \ {k}) = Cardinality(S) - 1
  BY FS_RemoveElement
<1>3. IsFiniteSet(S \cup {k}) /\ Cardinality(S \cup {k}) = IF k \in S THEN Cardinality(S) ELSE Cardinality(S) + 1
  BY FS_AddElement, Zenon
<1> QED
  BY <1>1, <1>2, <1>3

-----------------------------------------------------------------------------
Asked == {d \in Domains : asked[d] > 0}

TablesOK ==
  /\ asked \in [Domains -> Nat] /\ IsFiniteSet(Asked)
  /\ \A h \in Busy : query[h].domain \in Asked
  /\ Table(domainCounts) /\ DOMAIN domainCounts \subseteq Asked

Coming == {"blocked", "counters", "log", "domain"}

(* The number of handlers that have still to count d, when h moves. *)
LEMMA PendingMoves ==
  ASSUME LeftInv, NEW h \in Handlers, Handle(h), NEW d, NEW labels, "idle" \notin labels
  PROVE  LET before == pc[h] \in labels /\ query[h].domain = d
             after  == pc'[h] \in labels /\ query'[h].domain = d
         IN  /\ Pending(d, labels) \in Nat /\ Pending(d, labels)' \in Nat
             /\ (before <=> after) => Pending(d, labels)' = Pending(d, labels)
             /\ after /\ ~before => Pending(d, labels)' = Pending(d, labels) + 1
             /\ before /\ ~after => Pending(d, labels) = Pending(d, labels)' + 1
<1> DEFINE A == {k \in Handlers : pc[k] \in labels /\ query[k].domain = d}
           B == {k \in Handlers : pc'[k] \in labels /\ query'[k].domain = d}
<1>1. A \subseteq Busy
  BY DEF Busy
<1>2. IsFiniteSet(A)
  BY <1>1, FS_Subset DEF LeftInv
<1>3. \A k : k # h => (k \in A <=> k \in B)
  BY OthersWait
<1>4. /\ h \in A <=> pc[h] \in labels /\ query[h].domain = d
      /\ h \in B <=> pc'[h] \in labels /\ query'[h].domain = d
  OBVIOUS
<1>5. Pending(d, labels) = Cardinality(A) /\ Pending(d, labels)' = Cardinality(B)
  BY DEF Pending
<1> HIDE DEF A, B
<1> QED
  BY <1>2, <1>3, <1>4, <1>5, MoveOne

LEMMA PendingStill ==
  ASSUME NEW d, NEW labels, UNCHANGED <<pc, query>>
  PROVE  Pending(d, labels)' = Pending(d, labels)
BY DEF Pending

(* Start: one query more for its domain. *)
LEMMA StartAsks ==
  ASSUME LeftInv, TablesOK, NEW h \in Handlers, Start(h)
  PROVE  /\ pc[h] = "idle" /\ pc'[h] \in {"blocked", "counters"} /\ query'[h].domain \in Domains
         /\ asked' \in [Domains -> Nat]
         /\ \A d \in Domains : asked'[d] = IF d = query'[h].domain THEN asked[d] + 1 ELSE asked[d]
         /\ Asked' = Asked \cup {query'[h].domain}
         /\ UNCHANGED <<domainCounts, blockedCounts>>
<1>1. PICK q \in Queries : /\ query' = [query EXCEPT ![h] = q]
                           /\ asked' = [asked EXCEPT ![q.domain] = @ + 1]
                           /\ pc' = [pc EXCEPT ![h] = IF q.blocked THEN "blocked" ELSE "counters"]
  BY DEF Start, Goto
<1>2. query'[h] = q /\ q.domain \in Domains /\ pc'[h] \in {"blocked", "counters"}
  BY <1>1 DEF LeftInv, Domains
<1>3. /\ asked' \in [Domains -> Nat]
      /\ \A d \in Domains : asked'[d] = IF d = q.domain THEN asked[d] + 1 ELSE asked[d]
  BY <1>1, <1>2 DEF TablesOK
<1>4. Asked' = Asked \cup {q.domain}
  <2>1. Domains' = Domains
    BY DEF Domains
  <2>2. \A d \in Domains : asked[d] \in Nat
    BY DEF TablesOK
  <2>3. \A d \in Domains : asked'[d] > 0 <=> (d = q.domain \/ asked[d] > 0)
    BY <1>3, <2>2
  <2> QED
    BY <1>2, <2>1, <2>3 DEF Asked
<1> QED
  BY <1>2, <1>3, <1>4 DEF Start

LEMMA TablesOKStep == ASSUME LeftInv, TablesOK, [Next]_vars PROVE TablesOK'
<1>1. ASSUME NEW h \in Handlers, Start(h) PROVE TablesOK'
  <2>1. IsFiniteSet(Asked') /\ Asked \subseteq Asked'
    <3>1. Asked' = Asked \cup {query'[h].domain}
      BY <1>1, StartAsks
    <3> QED
      BY <3>1, OneMore DEF TablesOK
  <2>2. \A k \in Busy' : query'[k].domain \in Asked'
    <3> SUFFICES ASSUME NEW k \in Busy' PROVE query'[k].domain \in Asked'
      OBVIOUS
    <3>1. CASE k = h
      BY <1>1, <3>1, StartAsks
    <3>2. CASE k # h
      <4>1. k \in Handlers /\ k \in Busy /\ query'[k] = query[k]
        BY <1>1, <3>2, OthersWait DEF Busy, Handle
      <4> QED
        BY <2>1, <4>1 DEF TablesOK
    <3> QED
      BY <3>1, <3>2
  <2> QED
    BY <1>1, <2>1, <2>2, StartAsks DEF TablesOK
<1>2. ASSUME NEW h \in Handlers, CountDomain(h) PROVE TablesOK'
  <2> DEFINE d == query[h].domain
  <2>1. pc[h] = "domain" /\ UNCHANGED <<query, asked>>
    BY <1>2 DEF CountDomain
  <2>2. d \in Asked
    BY <2>1 DEF Busy, TablesOK
  <2>3. \/ domainCounts' = Put(domainCounts, d, CountOf(domainCounts, d) + 1)
        \/ \E k : domainCounts' = Put(Without(domainCounts, k), d, 1)
    BY <1>2 DEF CountDomain
  <2>4. Table(domainCounts') /\ DOMAIN domainCounts' \subseteq Asked
    <3>0. Table(domainCounts) /\ DOMAIN domainCounts \subseteq Asked
      BY DEF TablesOK
    <3>1. CASE domainCounts' = Put(domainCounts, d, CountOf(domainCounts, d) + 1)
      <4>1. CountOf(domainCounts, d) + 1 \in Nat
        BY <3>0, CountType
      <4>2. Table(domainCounts') /\ DOMAIN domainCounts' = DOMAIN domainCounts \cup {d}
        BY <3>0, <3>1, <4>1, PutTable
      <4> QED
        BY <2>2, <3>0, <4>2
    <3>2. ASSUME NEW k, domainCounts' = Put(Without(domainCounts, k), d, 1)
          PROVE  Table(domainCounts') /\ DOMAIN domainCounts' \subseteq Asked
      <4> DEFINE room == Without(domainCounts, k)
      <4>1. Table(room) /\ DOMAIN room = DOMAIN domainCounts \ {k}
        BY <3>0, WithoutTable
      <4> HIDE DEF room
      <4>2. Table(Put(room, d, 1)) /\ DOMAIN Put(room, d, 1) = DOMAIN room \cup {d}
        BY <4>1, PutTable
      <4> QED
        BY <2>2, <3>0, <3>2, <4>1, <4>2 DEF room
    <3> QED
      BY <2>3, <3>1, <3>2
  <2>5. Asked' = Asked /\ Busy' \subseteq Busy
    BY <2>1, <1>2, OthersWait DEF Asked, Domains, Busy, Handle
  <2> QED
    BY <2>1, <2>4, <2>5 DEF TablesOK, Table
<1>3. ASSUME NEW h \in Handlers, RecordBlocked(h) \/ RecordQuery(h) \/ LogQuery(h) \/ CountClient(h)
      PROVE  TablesOK'
  <2>1. UNCHANGED <<query, asked, domainCounts>> /\ pc[h] # "idle"
    BY <1>3 DEF RecordBlocked, RecordQuery, LogQuery, CountClient, tableVars
  <2>2. Asked' = Asked /\ Busy' \subseteq Busy
    BY <2>1, <1>3, OthersWait DEF Asked, Domains, Busy, Handle
  <2> QED
    BY <2>1, <2>2 DEF TablesOK, Table
<1>4. CASE FilterDebug \/ ReadCount \/ ReadLatency \/ TrackQPS \/ UNCHANGED vars
  BY <1>4 DEF FilterDebug, ReadCount, ReadLatency, TrackQPS, vars, tableVars, TablesOK, Table, Asked, Domains, Busy
<1> QED
  BY <1>1, <1>2, <1>3, <1>4 DEF Next, Handle

-----------------------------------------------------------------------------
(* TablesHold in its two halves, one for each table. *)
DomainsHold ==
  /\ Cardinality(DOMAIN domainCounts) <= domainCountsMax
  /\ \A d \in Domains : CountOf(domainCounts, d) + Pending(d, Coming) <= asked[d]
  /\ Cardinality(Asked) <= domainCountsMax =>
       \A d \in Domains : CountOf(domainCounts, d) + Pending(d, Coming) = asked[d]

(* What the filter found blocked, by its own names. *)
Checked == {n \in Names : checked[n] > 0}

BlockedOK ==
  /\ checked \in [Names -> Nat] /\ IsFiniteSet(Checked)
  /\ \A h \in Handlers : pc[h] = "blocked" => Canonical[query[h].domain] \in Checked
  /\ Table(blockedCounts) /\ DOMAIN blockedCounts \subseteq Checked

BlockedHold ==
  /\ Cardinality(DOMAIN blockedCounts) <= blockedMax
  /\ \A n \in Names : CountOf(blockedCounts, n) + PendingBlocked(n) <= checked[n]
  /\ Cardinality(Checked) <= blockedMax =>
       \A n \in Names : CountOf(blockedCounts, n) + PendingBlocked(n) = checked[n]

LEMMA TablesInit == ASSUME Init PROVE TablesOK /\ DomainsHold
<1>1. /\ asked = [d \in Domains |-> 0] /\ domainCounts = Empty
      /\ \A h \in Handlers : pc[h] = "idle"
  BY DEF Init
<1>2. DOMAIN Empty = {} /\ Asked = {} /\ Busy = {}
  BY <1>1 DEF Empty, Asked, Busy
<1>3. TablesOK
  BY <1>1, <1>2, FS_EmptySet DEF TablesOK, Table
<1>4. ASSUME NEW d, NEW labels, "idle" \notin labels PROVE Pending(d, labels) = 0
  <2>1. {h \in Handlers : pc[h] \in labels /\ query[h].domain = d} = {}
    BY <1>1, <1>4
  <2> QED
    BY <2>1, FS_EmptySet DEF Pending
<1>5. \A d : CountOf(domainCounts, d) = 0
  BY <1>1, <1>2 DEF CountOf
<1>6. \A d \in Domains : asked[d] = 0 /\ Pending(d, Coming) = 0
  BY <1>1, <1>4 DEF Coming
<1>7. Cardinality(DOMAIN domainCounts) = 0
  BY <1>1, <1>2, FS_EmptySet
<1> QED
  BY <1>3, <1>5, <1>6, <1>7, StatisticsAssumption DEF DomainsHold

LEMMA BlockedInit == ASSUME Init PROVE BlockedOK /\ BlockedHold
<1>1. /\ checked = [n \in Names |-> 0] /\ blockedCounts = Empty
      /\ \A h \in Handlers : pc[h] = "idle"
  BY DEF Init
<1>2. DOMAIN Empty = {} /\ Checked = {}
  BY <1>1 DEF Empty, Checked
<1>3. BlockedOK
  BY <1>1, <1>2, FS_EmptySet DEF BlockedOK, Table
<1>4. ASSUME NEW n PROVE PendingBlocked(n) = 0
  <2>1. {h \in Handlers : pc[h] = "blocked" /\ Canonical[query[h].domain] = n} = {}
    BY <1>1
  <2> QED
    BY <2>1, FS_EmptySet DEF PendingBlocked
<1>5. \A n \in Names : CountOf(blockedCounts, n) = 0 /\ checked[n] = 0
  BY <1>1, <1>2 DEF CountOf
<1>6. Cardinality(DOMAIN blockedCounts) = 0
  BY <1>1, <1>2, FS_EmptySet
<1> QED
  BY <1>3, <1>4, <1>5, <1>6, StatisticsAssumption DEF BlockedHold

(* The numbers a step finds, and the handlers' share of them. *)
LEMMA TableTypes ==
  ASSUME LeftInv, TablesOK, NEW d \in Domains
  PROVE  asked[d] \in Nat /\ CountOf(domainCounts, d) \in Nat
BY CountType DEF TablesOK

LEMMA DomainsHoldStep ==
  ASSUME LeftInv, TablesOK, DomainsHold, [Next]_vars PROVE DomainsHold'
<1>0. /\ Domains' = Domains /\ Coming = {"blocked", "counters", "log", "domain"} /\ "idle" \notin Coming
      /\ IsFiniteSet(Asked) /\ IsFiniteSet(DOMAIN domainCounts) /\ DOMAIN domainCounts \subseteq Asked
      /\ domainCountsMax \in Nat \ {0} /\ Table(domainCounts)
  BY StatisticsAssumption DEF Domains, Coming, TablesOK, Table
<1>1. ASSUME NEW h \in Handlers, Start(h) PROVE DomainsHold'
  <2> DEFINE e == query'[h].domain
  <2>1. /\ Handle(h) /\ pc[h] = "idle" /\ pc'[h] \in Coming /\ domainCounts' = domainCounts
        /\ Asked' = Asked \cup {e}
        /\ \A d \in Domains : asked'[d] = IF d = e THEN asked[d] + 1 ELSE asked[d]
    BY <1>0, <1>1, StartAsks DEF Handle
  <2>2. Cardinality(Asked) <= Cardinality(Asked') /\ Cardinality(Asked) \in Nat /\ Cardinality(Asked') \in Nat
    BY <1>0, <2>1, OneMore
  <2>3. ASSUME NEW d \in Domains
        PROVE  /\ CountOf(domainCounts, d) \in Nat /\ asked[d] \in Nat
               /\ Pending(d, Coming) \in Nat
               /\ Pending(d, Coming)' = IF d = e THEN Pending(d, Coming) + 1 ELSE Pending(d, Coming)
    BY <1>0, <2>1, PendingMoves, TableTypes
  <2>4. /\ \A d \in Domains : CountOf(domainCounts, d) + Pending(d, Coming) <= asked[d]
        /\ (Cardinality(Asked) <= domainCountsMax =>
              \A d \in Domains : CountOf(domainCounts, d) + Pending(d, Coming) = asked[d])
    BY DEF DomainsHold
  <2>5. \A d \in Domains : CountOf(domainCounts', d) + Pending(d, Coming)' <= asked'[d]
    <3> SUFFICES ASSUME NEW d \in Domains
                 PROVE  CountOf(domainCounts', d) + Pending(d, Coming)' <= asked'[d]
      OBVIOUS
    <3>1. CountOf(domainCounts, d) + Pending(d, Coming) <= asked[d]
      BY <2>4
    <3> QED
      BY <2>1, <2>3, <3>1
  <2>6. ASSUME Cardinality(Asked') <= domainCountsMax
        PROVE  \A d \in Domains : CountOf(domainCounts', d) + Pending(d, Coming)' = asked'[d]
    <3> SUFFICES ASSUME NEW d \in Domains
                 PROVE  CountOf(domainCounts', d) + Pending(d, Coming)' = asked'[d]
      OBVIOUS
    <3>1. CountOf(domainCounts, d) + Pending(d, Coming) = asked[d]
      BY <1>0, <2>2, <2>4, <2>6
    <3> QED
      BY <2>1, <2>3, <3>1
  <2> QED
    BY <1>0, <2>1, <2>5, <2>6 DEF DomainsHold
<1>2. ASSUME NEW h \in Handlers, CountDomain(h) PROVE DomainsHold'
  <2> DEFINE e == query[h].domain
             D == DOMAIN domainCounts
  <2>1. /\ Handle(h) /\ pc[h] = "domain" /\ pc'[h] = "client" /\ query' = query /\ asked' = asked
        /\ e \in Asked /\ Asked' = Asked
    BY <1>2 DEF Handle, CountDomain, Goto, LeftInv, TablesOK, Busy, Asked, Domains
  <2>2. ASSUME NEW d \in Domains
        PROVE  /\ CountOf(domainCounts, d) \in Nat /\ asked[d] \in Nat
               /\ Pending(d, Coming)' \in Nat
               /\ Pending(d, Coming) = IF d = e THEN Pending(d, Coming)' + 1 ELSE Pending(d, Coming)'
    <3>1. pc[h] \in Coming /\ pc'[h] \notin Coming
      BY <1>0, <2>1
    <3> QED
      BY <1>0, <2>1, <3>1, PendingMoves, TableTypes
  <2>3. /\ \A d \in Domains : CountOf(domainCounts, d) + Pending(d, Coming) <= asked[d]
        /\ (Cardinality(Asked) <= domainCountsMax =>
              \A d \in Domains : CountOf(domainCounts, d) + Pending(d, Coming) = asked[d])
        /\ Cardinality(D) <= domainCountsMax
    BY DEF DomainsHold
  <2>4. /\ Cardinality(D) \in Nat /\ (e \in D => Cardinality(D \cup {e}) = Cardinality(D))
        /\ Cardinality(D \cup {e}) <= Cardinality(D) + 1 /\ Cardinality(D \cup {e}) \in Nat
        /\ IsFiniteSet(D \cup {e})
    BY <1>0, OneMore
  <2>5. CASE /\ e \in D \/ Cardinality(D) < domainCountsMax
             /\ domainCounts' = Put(domainCounts, e, CountOf(domainCounts, e) + 1)
    <3>1. CountOf(domainCounts, e) + 1 \in Nat
      BY <1>0, CountType
    <3>2. /\ DOMAIN domainCounts' = D \cup {e}
          /\ \A x : CountOf(domainCounts', x)
                      = IF x = e THEN CountOf(domainCounts, e) + 1 ELSE CountOf(domainCounts, x)
      <4>1. DOMAIN domainCounts' = D \cup {e}
        BY <1>0, <2>5, <3>1, PutTable
      <4> QED
        BY <2>5, <4>1, PutCounts
    <3>3. Cardinality(DOMAIN domainCounts') <= domainCountsMax
      BY <1>0, <2>3, <2>4, <2>5, <3>2
    <3>4. ASSUME NEW d \in Domains
          PROVE  CountOf(domainCounts', d) + Pending(d, Coming)' = CountOf(domainCounts, d) + Pending(d, Coming)
      BY <2>2, <3>2
    <3> QED
      BY <1>0, <2>1, <2>3, <3>3, <3>4 DEF DomainsHold
  <2>6. CASE /\ e \notin D /\ Cardinality(D) >= domainCountsMax
             /\ \E k \in Lowest(domainCounts) : domainCounts' = Put(Without(domainCounts, k), e, 1)
    <3>1. PICK k \in Lowest(domainCounts) : domainCounts' = Put(Without(domainCounts, k), e, 1)
      BY <2>6
    <3> DEFINE room == Without(domainCounts, k)
    <3>2. k \in D
      BY <3>1 DEF Lowest
    <3>3. /\ DOMAIN room = D \ {k} /\ Table(room)
          /\ \A x : CountOf(room, x) = IF x = k THEN 0 ELSE CountOf(domainCounts, x)
      BY <1>0, WithoutTable, WithoutCounts
    <3> HIDE DEF room
    <3>4. /\ DOMAIN Put(room, e, 1) = DOMAIN room \cup {e}
          /\ \A x : CountOf(Put(room, e, 1), x) = IF x = e THEN 1 ELSE CountOf(room, x)
      <4>1. DOMAIN Put(room, e, 1) = DOMAIN room \cup {e}
        BY <3>3, PutTable
      <4> QED
        BY <4>1, PutCounts
    <3>5. domainCounts' = Put(room, e, 1)
      BY <3>1 DEF room
    <3>6. Cardinality(DOMAIN domainCounts') <= domainCountsMax
      <4>1. Cardinality(D \ {k}) = Cardinality(D) - 1 /\ IsFiniteSet(D \ {k})
        BY <1>0, <3>2, OneMore, FS_Subset
      <4>2. Cardinality((D \ {k}) \cup {e}) <= Cardinality(D \ {k}) + 1
        BY <4>1, OneMore
      <4>3. Cardinality((D \ {k}) \cup {e}) \in Nat
        BY <4>1, OneMore
      <4>4. DOMAIN domainCounts' = (D \ {k}) \cup {e}
        BY <3>3, <3>4, <3>5
      <4> QED
        BY <1>0, <2>3, <2>4, <4>1, <4>2, <4>3, <4>4
    <3>7. ASSUME NEW d \in Domains
          PROVE  CountOf(domainCounts', d) + Pending(d, Coming)' <= asked'[d]
      <4>1. CountOf(domainCounts', d) = IF d = e THEN 1 ELSE IF d = k THEN 0 ELSE CountOf(domainCounts, d)
        BY <3>3, <3>4, <3>5
      <4>2. CountOf(domainCounts, e) = 0
        BY <2>6 DEF CountOf
      <4>3. CountOf(domainCounts, d) + Pending(d, Coming) <= asked[d] /\ asked'[d] = asked[d]
        BY <2>1, <2>3
      <4> QED
        BY <2>2, <4>1, <4>2, <4>3
    <3>8. ~ (Cardinality(Asked) <= domainCountsMax)
      <4>1. D \cup {e} \subseteq Asked /\ Cardinality(D \cup {e}) = Cardinality(D) + 1
        BY <1>0, <2>1, <2>6, OneMore
      <4>2. Cardinality(D \cup {e}) <= Cardinality(Asked) /\ Cardinality(Asked) \in Nat
        BY <1>0, <4>1, FS_Subset, FS_CardinalityType
      <4> QED
        BY <1>0, <2>4, <2>6, <4>1, <4>2
    <3> QED
      BY <1>0, <2>1, <3>6, <3>7, <3>8 DEF DomainsHold
  <2> QED
    BY <1>2, <2>5, <2>6 DEF CountDomain
<1>3. ASSUME NEW h \in Handlers, RecordBlocked(h) \/ RecordQuery(h) \/ LogQuery(h) \/ CountClient(h)
      PROVE  DomainsHold'
  <2>1. Handle(h) /\ UNCHANGED <<query, asked, domainCounts>> /\ (pc[h] \in Coming <=> pc'[h] \in Coming)
    BY <1>0, <1>3 DEF Handle, RecordBlocked, RecordQuery, LogQuery, CountClient, Goto, LeftInv, tableVars
  <2>2. Asked' = Asked
    BY <1>0, <2>1 DEF Asked
  <2>3. \A d \in Domains : Pending(d, Coming)' = Pending(d, Coming)
    BY <1>0, <2>1, PendingMoves
  <2> QED
    BY <1>0, <2>1, <2>2, <2>3 DEF DomainsHold
<1>4. CASE FilterDebug \/ ReadCount \/ ReadLatency \/ TrackQPS \/ UNCHANGED vars
  <2>1. UNCHANGED <<pc, query, asked, domainCounts>>
    BY <1>4 DEF FilterDebug, ReadCount, ReadLatency, TrackQPS, vars, tableVars
  <2>2. Asked' = Asked /\ \A d : Pending(d, Coming)' = Pending(d, Coming)
    BY <1>0, <2>1, PendingStill DEF Asked
  <2> QED
    BY <1>0, <2>1, <2>2 DEF DomainsHold
<1> QED
  BY <1>1, <1>2, <1>3, <1>4 DEF Next, Handle

-----------------------------------------------------------------------------
(* The number of handlers that have still to count n as blocked. *)
LEMMA PendingBlockedMoves ==
  ASSUME LeftInv, NEW h \in Handlers, Handle(h), NEW n
  PROVE  LET before == pc[h] = "blocked" /\ Canonical[query[h].domain] = n
             after  == pc'[h] = "blocked" /\ Canonical[query'[h].domain] = n
         IN  /\ PendingBlocked(n) \in Nat /\ PendingBlocked(n)' \in Nat
             /\ (before <=> after) => PendingBlocked(n)' = PendingBlocked(n)
             /\ after /\ ~before => PendingBlocked(n)' = PendingBlocked(n) + 1
             /\ before /\ ~after => PendingBlocked(n) = PendingBlocked(n)' + 1
<1> DEFINE A == {k \in Handlers : pc[k] = "blocked" /\ Canonical[query[k].domain] = n}
           B == {k \in Handlers : pc'[k] = "blocked" /\ Canonical[query'[k].domain] = n}
<1>1. A \subseteq Busy
  BY DEF Busy
<1>2. IsFiniteSet(A)
  BY <1>1, FS_Subset DEF LeftInv
<1>3. \A k : k # h => (k \in A <=> k \in B)
  BY OthersWait
<1>4. /\ h \in A <=> pc[h] = "blocked" /\ Canonical[query[h].domain] = n
      /\ h \in B <=> pc'[h] = "blocked" /\ Canonical[query'[h].domain] = n
  OBVIOUS
<1>5. PendingBlocked(n) = Cardinality(A) /\ PendingBlocked(n)' = Cardinality(B)
  BY DEF PendingBlocked
<1> HIDE DEF A, B
<1> QED
  BY <1>2, <1>3, <1>4, <1>5, MoveOne

LEMMA PendingBlockedType == ASSUME LeftInv, NEW n PROVE PendingBlocked(n) \in Nat
<1> DEFINE A == {k \in Handlers : pc[k] = "blocked" /\ Canonical[query[k].domain] = n}
<1>1. IsFiniteSet(A)
  <2>1. A \subseteq Busy
    BY DEF Busy
  <2> QED
    BY <2>1, FS_Subset DEF LeftInv
<1>2. Cardinality(A) \in Nat
  BY <1>1, FS_CardinalityType
<1> QED
  BY <1>2 DEF PendingBlocked

(* recordBlocked: one more for the name, and at the limit a name less. *)
LEMMA OneBlocked ==
  ASSUME Table(blockedCounts), Cardinality(DOMAIN blockedCounts) <= blockedMax,
         NEW name, recordBlocked(name)
  PROVE  /\ Table(blockedCounts') /\ DOMAIN blockedCounts' \subseteq DOMAIN blockedCounts \cup {name}
         /\ Cardinality(DOMAIN blockedCounts') <= blockedMax
         /\ \A x : CountOf(blockedCounts', x)
                     <= IF x = name THEN CountOf(blockedCounts, x) + 1 ELSE CountOf(blockedCounts, x)
         /\ Cardinality(DOMAIN blockedCounts \cup {name}) <= blockedMax =>
              \A x : CountOf(blockedCounts', x)
                       = IF x = name THEN CountOf(blockedCounts, x) + 1 ELSE CountOf(blockedCounts, x)
<1> DEFINE D == DOMAIN blockedCounts
           counted == Put(blockedCounts, name, CountOf(blockedCounts, name) + 1)
<1>1. /\ Table(counted) /\ DOMAIN counted = D \cup {name}
      /\ \A x : CountOf(counted, x)
                  = IF x = name THEN CountOf(blockedCounts, x) + 1 ELSE CountOf(blockedCounts, x)
  <2>1. CountOf(blockedCounts, name) + 1 \in Nat
    BY CountType
  <2>2. Table(counted) /\ DOMAIN counted = D \cup {name}
    BY <2>1, PutTable
  <2> QED
    BY <2>2, PutCounts
<1>2. /\ Cardinality(D \cup {name}) <= Cardinality(D) + 1 /\ Cardinality(D \cup {name}) \in Nat
      /\ Cardinality(D) \in Nat /\ IsFiniteSet(D \cup {name}) /\ blockedMax \in Nat
  BY OneMore, StatisticsAssumption DEF Table
<1>3. \/ Cardinality(DOMAIN counted) <= blockedMax /\ blockedCounts' = counted
      \/ /\ Cardinality(DOMAIN counted) > blockedMax
         /\ \E k \in Lowest(counted) : blockedCounts' = Without(counted, k)
  BY DEF recordBlocked
<1> HIDE DEF counted
<1>4. \A x : CountOf(counted, x) \in Nat
  BY <1>1, CountType
<1>5. CASE Cardinality(DOMAIN counted) <= blockedMax /\ blockedCounts' = counted
  BY <1>1, <1>4, <1>5
<1>6. CASE /\ Cardinality(DOMAIN counted) > blockedMax
           /\ \E k \in Lowest(counted) : blockedCounts' = Without(counted, k)
  <2>1. PICK k \in Lowest(counted) : blockedCounts' = Without(counted, k)
    BY <1>6
  <2>2. k \in DOMAIN counted
    BY <2>1 DEF Lowest
  <2>3. Table(blockedCounts') /\ DOMAIN blockedCounts' = DOMAIN counted \ {k}
    BY <1>1, <2>1, WithoutTable
  <2>4. \A x : CountOf(blockedCounts', x) = IF x = k THEN 0 ELSE CountOf(counted, x)
    BY <2>1, WithoutCounts
  <2>5. Cardinality(DOMAIN blockedCounts') <= blockedMax
    <3>1. Cardinality(DOMAIN counted \ {k}) = Cardinality(DOMAIN counted) - 1
      BY <1>1, <1>2, <2>2, OneMore
    <3> QED
      BY <1>1, <1>2, <2>3, <3>1
  <2>6. \A x : CountOf(blockedCounts', x) <= CountOf(counted, x)
    BY <1>4, <2>4
  <2>7. ~ (Cardinality(D \cup {name}) <= blockedMax)
    BY <1>1, <1>2, <1>6
  <2>8. \A x : CountOf(blockedCounts', x)
                 <= IF x = name THEN CountOf(blockedCounts, x) + 1 ELSE CountOf(blockedCounts, x)
    BY <1>1, <2>6
  <2> QED
    BY <1>1, <2>3, <2>5, <2>7, <2>8
<1> QED
  BY <1>3, <1>5, <1>6

(* What one more blocked name does to the table and to what was checked.   *)
(* The first case is a handler's, which was counted when it was checked,   *)
(* the second the debug page's.                                            *)
LEMMA BlockedNames == /\ Names' = Names
                      /\ \A q \in Queries : Canonical[q.domain] \in Names
                      /\ TestDomains \subseteq Names
BY DEF Names, Domains

LEMMA CheckedOnce ==
  ASSUME BlockedOK, NEW n \in Names, checked' = [checked EXCEPT ![n] = @ + 1]
  PROVE  /\ checked' \in [Names -> Nat]
         /\ \A m \in Names : checked'[m] = IF m = n THEN checked[m] + 1 ELSE checked[m]
         /\ Checked' = Checked \cup {n} /\ IsFiniteSet(Checked') /\ Checked \subseteq Checked'
         /\ Cardinality(Checked) \in Nat /\ Cardinality(Checked') \in Nat
         /\ Cardinality(Checked) <= Cardinality(Checked')
<1>1. /\ checked' \in [Names -> Nat]
      /\ \A m \in Names : checked'[m] = IF m = n THEN checked[m] + 1 ELSE checked[m]
  BY DEF BlockedOK
<1>2. Checked' = Checked \cup {n}
  <2>1. \A m \in Names : checked[m] \in Nat
    BY DEF BlockedOK
  <2>2. \A m \in Names : checked'[m] > 0 <=> (m = n \/ checked[m] > 0)
    BY <1>1, <2>1
  <2> QED
    BY <2>2, BlockedNames DEF Checked
<1> QED
  BY <1>1, <1>2, OneMore DEF BlockedOK

LEMMA BlockedStep ==
  ASSUME LeftInv, BlockedOK, BlockedHold, [Next]_vars PROVE BlockedOK' /\ BlockedHold'
<1>0. /\ blockedMax \in Nat /\ Table(blockedCounts) /\ DOMAIN blockedCounts \subseteq Checked
      /\ Cardinality(DOMAIN blockedCounts) <= blockedMax /\ IsFiniteSet(Checked)
      /\ \A n \in Names : checked[n] \in Nat /\ CountOf(blockedCounts, n) \in Nat
      /\ Cardinality(Checked) \in Nat
  BY StatisticsAssumption, CountType, FS_CardinalityType DEF BlockedOK, BlockedHold
<1>1. /\ \A n \in Names : CountOf(blockedCounts, n) + PendingBlocked(n) <= checked[n]
      /\ (Cardinality(Checked) <= blockedMax =>
            \A n \in Names : CountOf(blockedCounts, n) + PendingBlocked(n) = checked[n])
  BY DEF BlockedHold
<1>2. ASSUME NEW h \in Handlers, Start(h) PROVE BlockedOK' /\ BlockedHold'
  <2>1. PICK q \in Queries :
          /\ query' = [query EXCEPT ![h] = q]
          /\ checked' = IF q.blocked THEN [checked EXCEPT ![Canonical[q.domain]] = @ + 1] ELSE checked
          /\ pc' = [pc EXCEPT ![h] = IF q.blocked THEN "blocked" ELSE "counters"]
          /\ blockedCounts' = blockedCounts
    BY <1>2 DEF Start, Goto
  <2> DEFINE e == Canonical[q.domain]
  <2>2. /\ query'[h] = q /\ e \in Names /\ Handle(h) /\ pc[h] = "idle"
        /\ pc'[h] = (IF q.blocked THEN "blocked" ELSE "counters")
    BY <1>2, <2>1, BlockedNames DEF LeftInv, Handle, Start
  <2>3. CASE q.blocked
    <3>0. checked' = [checked EXCEPT ![e] = @ + 1] /\ pc'[h] = "blocked"
      BY <2>1, <2>2, <2>3
    <3>1. /\ checked' \in [Names -> Nat]
          /\ \A m \in Names : checked'[m] = IF m = e THEN checked[m] + 1 ELSE checked[m]
          /\ Checked' = Checked \cup {e} /\ IsFiniteSet(Checked') /\ Checked \subseteq Checked'
          /\ Cardinality(Checked') \in Nat /\ Cardinality(Checked) <= Cardinality(Checked')
      BY <2>2, <3>0, CheckedOnce
    <3>2. \A k \in Handlers : pc'[k] = "blocked" => Canonical[query'[k].domain] \in Checked'
      <4> SUFFICES ASSUME NEW k \in Handlers, pc'[k] = "blocked" PROVE Canonical[query'[k].domain] \in Checked'
        OBVIOUS
      <4>1. CASE k = h
        BY <2>2, <3>1, <4>1
      <4>2. CASE k # h
        BY <2>2, <3>1, <4>2, OthersWait DEF BlockedOK
      <4> QED
        BY <4>1, <4>2
    <3>3. BlockedOK'
      BY <1>0, <2>1, <3>1, <3>2, BlockedNames DEF BlockedOK, Table
    <3>4. ASSUME NEW n \in Names
          PROVE  /\ PendingBlocked(n) \in Nat
                 /\ PendingBlocked(n)' = IF n = e THEN PendingBlocked(n) + 1 ELSE PendingBlocked(n)
      BY <2>2, <3>0, PendingBlockedMoves
    <3>5. \A n \in Names : CountOf(blockedCounts', n) + PendingBlocked(n)' <= checked'[n]
      BY <1>0, <1>1, <2>1, <3>1, <3>4
    <3>6. Cardinality(Checked') <= blockedMax =>
            \A n \in Names : CountOf(blockedCounts', n) + PendingBlocked(n)' = checked'[n]
      BY <1>0, <1>1, <2>1, <3>1, <3>4
    <3> QED
      BY <1>0, <2>1, <3>3, <3>5, <3>6, BlockedNames DEF BlockedHold
  <2>4. CASE ~ q.blocked
    <3>0. checked' = checked /\ pc'[h] = "counters"
      BY <2>1, <2>2, <2>4
    <3>1. Checked' = Checked
      BY <3>0, BlockedNames DEF Checked
    <3>2. \A n : PendingBlocked(n)' = PendingBlocked(n)
      BY <2>2, <3>0, PendingBlockedMoves
    <3>3. \A k \in Handlers : pc'[k] = "blocked" => Canonical[query'[k].domain] \in Checked'
      <4> SUFFICES ASSUME NEW k \in Handlers, pc'[k] = "blocked" PROVE Canonical[query'[k].domain] \in Checked'
        OBVIOUS
      <4>1. k # h
        BY <3>0
      <4> QED
        BY <2>2, <3>1, <4>1, OthersWait DEF BlockedOK
    <3> QED
      BY <1>0, <1>1, <2>1, <3>0, <3>1, <3>2, <3>3, BlockedNames DEF BlockedHold, BlockedOK, Table
  <2> QED
    BY <2>3, <2>4
<1>3. ASSUME NEW h \in Handlers, RecordBlocked(h) PROVE BlockedOK' /\ BlockedHold'
  <2> DEFINE e == Canonical[query[h].domain]
  <2>1. /\ Handle(h) /\ pc[h] = "blocked" /\ pc'[h] = "counters" /\ query' = query /\ checked' = checked
        /\ recordBlocked(e) /\ e \in Checked /\ Checked' = Checked
    <3>1. /\ Handle(h) /\ pc[h] = "blocked" /\ pc'[h] = "counters" /\ query' = query /\ checked' = checked
          /\ recordBlocked(e)
      BY <1>3 DEF Handle, RecordBlocked, Goto, LeftInv
    <3>2. e \in Checked /\ Checked' = Checked
      BY <3>1, BlockedNames DEF BlockedOK, Checked
    <3> QED
      BY <3>1, <3>2
  <2>2. /\ Table(blockedCounts') /\ DOMAIN blockedCounts' \subseteq Checked
        /\ Cardinality(DOMAIN blockedCounts') <= blockedMax
        /\ \A x : CountOf(blockedCounts', x)
                    <= IF x = e THEN CountOf(blockedCounts, x) + 1 ELSE CountOf(blockedCounts, x)
        /\ (Cardinality(DOMAIN blockedCounts \cup {e}) <= blockedMax =>
              \A x : CountOf(blockedCounts', x)
                       = IF x = e THEN CountOf(blockedCounts, x) + 1 ELSE CountOf(blockedCounts, x))
    <3>1. recordBlocked(e)
      BY <2>1
    <3>2. /\ Table(blockedCounts') /\ DOMAIN blockedCounts' \subseteq DOMAIN blockedCounts \cup {e}
          /\ Cardinality(DOMAIN blockedCounts') <= blockedMax
          /\ \A x : CountOf(blockedCounts', x)
                      <= IF x = e THEN CountOf(blockedCounts, x) + 1 ELSE CountOf(blockedCounts, x)
          /\ (Cardinality(DOMAIN blockedCounts \cup {e}) <= blockedMax =>
                \A x : CountOf(blockedCounts', x)
                         = IF x = e THEN CountOf(blockedCounts, x) + 1 ELSE CountOf(blockedCounts, x))
      <4> HIDE DEF e
      <4> QED
        BY <1>0, <3>1, OneBlocked
    <3> HIDE DEF e
    <3> QED
      BY <1>0, <2>1, <3>2
  <2>3. ASSUME NEW n \in Names
        PROVE  /\ PendingBlocked(n)' \in Nat /\ CountOf(blockedCounts', n) \in Nat
               /\ PendingBlocked(n) = IF n = e THEN PendingBlocked(n)' + 1 ELSE PendingBlocked(n)'
    <3>1. CountOf(blockedCounts', n) \in Nat
      BY <2>2, CountType
    <3>2. /\ PendingBlocked(n)' \in Nat
          /\ n = e => PendingBlocked(n) = PendingBlocked(n)' + 1
          /\ n # e => PendingBlocked(n)' = PendingBlocked(n)
      BY <2>1, PendingBlockedMoves
    <3> QED
      BY <3>1, <3>2
  <2>4. \A n \in Names : CountOf(blockedCounts', n) + PendingBlocked(n)' <= checked'[n]
    BY <1>0, <1>1, <2>1, <2>2, <2>3
  <2>5. ASSUME Cardinality(Checked') <= blockedMax
        PROVE  \A n \in Names : CountOf(blockedCounts', n) + PendingBlocked(n)' = checked'[n]
    <3>1. Cardinality(DOMAIN blockedCounts \cup {e}) <= Cardinality(Checked)
      <4>1. DOMAIN blockedCounts \cup {e} \subseteq Checked
        BY <1>0, <2>1
      <4> QED
        BY <1>0, <4>1, FS_Subset
    <3>2. Cardinality(DOMAIN blockedCounts \cup {e}) \in Nat
      BY <1>0, OneMore DEF Table
    <3> QED
      BY <1>0, <1>1, <2>1, <2>2, <2>3, <2>5, <3>1, <3>2
  <2>6. BlockedOK'
    <3>1. \A k \in Handlers : pc'[k] = "blocked" => Canonical[query'[k].domain] \in Checked'
      <4> SUFFICES ASSUME NEW k \in Handlers, pc'[k] = "blocked" PROVE Canonical[query'[k].domain] \in Checked'
        OBVIOUS
      <4>1. k # h
        BY <2>1
      <4> QED
        BY <2>1, <4>1, OthersWait DEF BlockedOK
    <3> QED
      BY <1>0, <2>1, <2>2, <3>1, BlockedNames DEF BlockedOK, Table
  <2> QED
    BY <2>2, <2>4, <2>5, <2>6, BlockedNames DEF BlockedHold
<1>4. ASSUME NEW h \in Handlers, RecordQuery(h) \/ LogQuery(h) \/ CountDomain(h) \/ CountClient(h)
      PROVE  BlockedOK' /\ BlockedHold'
  <2>1. /\ Handle(h) /\ UNCHANGED <<query, checked, blockedCounts>>
        /\ pc[h] # "blocked" /\ pc'[h] # "blocked"
    BY <1>4 DEF Handle, CountDomain, RecordQuery, LogQuery, CountClient, Goto, LeftInv, tableVars
  <2>2. \A n : PendingBlocked(n)' = PendingBlocked(n)
    BY <2>1, PendingBlockedMoves
  <2>3. Checked' = Checked
    BY <2>1, BlockedNames DEF Checked
  <2>4. \A k \in Handlers : pc'[k] = "blocked" => pc[k] = "blocked"
    BY <2>1, OthersWait
  <2> QED
    BY <1>0, <1>1, <2>1, <2>2, <2>3, <2>4, BlockedNames DEF BlockedHold, BlockedOK, Table
<1>5. CASE FilterDebug
  <2>1. PICK e \in TestDomains :
          /\ recordBlocked(e) /\ checked' = [checked EXCEPT ![e] = @ + 1] /\ UNCHANGED <<pc, query>>
    BY <1>5 DEF FilterDebug
  <2>2. /\ checked' \in [Names -> Nat]
        /\ \A m \in Names : checked'[m] = IF m = e THEN checked[m] + 1 ELSE checked[m]
        /\ Checked' = Checked \cup {e} /\ IsFiniteSet(Checked') /\ Checked \subseteq Checked'
        /\ Cardinality(Checked') \in Nat /\ Cardinality(Checked) <= Cardinality(Checked')
    BY <2>1, CheckedOnce, BlockedNames
  <2>3. /\ Table(blockedCounts') /\ DOMAIN blockedCounts' \subseteq Checked'
        /\ Cardinality(DOMAIN blockedCounts') <= blockedMax
        /\ \A x : CountOf(blockedCounts', x)
                    <= IF x = e THEN CountOf(blockedCounts, x) + 1 ELSE CountOf(blockedCounts, x)
        /\ (Cardinality(DOMAIN blockedCounts \cup {e}) <= blockedMax =>
              \A x : CountOf(blockedCounts', x)
                       = IF x = e THEN CountOf(blockedCounts, x) + 1 ELSE CountOf(blockedCounts, x))
    BY <1>0, <2>1, <2>2, OneBlocked
  <2>4. ASSUME NEW n \in Names
        PROVE  /\ PendingBlocked(n) \in Nat /\ CountOf(blockedCounts', n) \in Nat
               /\ PendingBlocked(n)' = PendingBlocked(n)
    <3>1. PendingBlocked(n)' = PendingBlocked(n)
      BY <2>1 DEF PendingBlocked
    <3> QED
      BY <2>3, <3>1, PendingBlockedType, CountType
  <2>5. \A n \in Names : CountOf(blockedCounts', n) + PendingBlocked(n)' <= checked'[n]
    BY <1>0, <1>1, <2>2, <2>3, <2>4
  <2>6. ASSUME Cardinality(Checked') <= blockedMax
        PROVE  \A n \in Names : CountOf(blockedCounts', n) + PendingBlocked(n)' = checked'[n]
    <3>1. Cardinality(DOMAIN blockedCounts \cup {e}) <= Cardinality(Checked')
      <4>1. DOMAIN blockedCounts \cup {e} \subseteq Checked'
        BY <1>0, <2>2
      <4> QED
        BY <2>2, <4>1, FS_Subset
    <3>2. Cardinality(DOMAIN blockedCounts \cup {e}) \in Nat
      BY <1>0, OneMore DEF Table
    <3> QED
      BY <1>0, <1>1, <2>2, <2>3, <2>4, <2>6, <3>1, <3>2
  <2>7. BlockedOK'
    BY <2>1, <2>2, <2>3, BlockedNames DEF BlockedOK, Table
  <2> QED
    BY <2>3, <2>5, <2>6, <2>7, BlockedNames DEF BlockedHold
<1>6. CASE ReadCount \/ ReadLatency \/ TrackQPS \/ UNCHANGED vars
  <2>1. UNCHANGED <<pc, query, checked, blockedCounts>>
    BY <1>6 DEF ReadCount, ReadLatency, TrackQPS, vars, tableVars
  <2>2. Checked' = Checked /\ \A n : PendingBlocked(n)' = PendingBlocked(n)
    BY <2>1, BlockedNames DEF Checked, PendingBlocked
  <2> QED
    BY <1>0, <1>1, <2>1, <2>2, BlockedNames DEF BlockedHold, BlockedOK, Table
<1> QED
  BY <1>2, <1>3, <1>4, <1>5, <1>6 DEF Next, Handle

TablesInv == LeftInv /\ TablesOK /\ DomainsHold /\ BlockedOK /\ BlockedHold

(* The domain table and the table of blocked domains keep to their limits  *)
(* and count nothing twice, and below the limit a count lacks only what     *)
(* handlers under way have still to add: of the queries asked, by the names *)
(* as spelled, and of the names found blocked, by the filter's names, for   *)
(* queries and for the debug page (RecordQueryDetail, Filter.recordBlocked). *)
THEOREM TablesHoldHolds == Spec => []TablesHold
<1>1. Init => TablesInv
  BY LeftInit, TablesInit, BlockedInit DEF TablesInv
<1>2. TablesInv /\ [Next]_vars => TablesInv'
  BY LeftStep, TablesOKStep, DomainsHoldStep, BlockedStep DEF TablesInv
<1>3. TablesInv => TablesHold
  BY DEF TablesInv, DomainsHold, BlockedHold, TablesHold, Coming, Asked, Checked
<1> QED
  BY <1>1, <1>2, <1>3, PTL DEF Spec

-----------------------------------------------------------------------------
(* What holds of a client's entry whatever clients come and go. *)
InfoOK(info) ==
  /\ info.TotalQueries \in Nat /\ info.BlockedCount \in Nat /\ Table(info.TopDomains)
  /\ info.BlockedCount <= info.TotalQueries
  /\ SumFunction(info.TopDomains) <= info.TotalQueries

LEMMA TableSum == ASSUME NEW t, Table(t) PROVE SumFunction(t) \in Nat
BY SumType DEF Table, SumFunction

(* One more of d in a table: one more in all. *)
LEMMA CountOneMore ==
  ASSUME NEW t, Table(t), NEW d
  PROVE  LET u == Put(t, d, CountOf(t, d) + 1)
         IN  Table(u) /\ SumFunction(u) = SumFunction(t) + 1
<1> DEFINE v == CountOf(t, d) + 1
           u == Put(t, d, v)
           S == DOMAIN t
<1>1. v \in Nat
  BY CountType
<1>2. Table(u) /\ DOMAIN u = S \cup {d}
  BY <1>1, PutTable
<1>3. u[d] = v /\ \A x \in S \ {d} : u[x] = t[x]
  BY DEF Put
<1>4. IsFiniteSet(S) /\ \A x \in S : t[x] \in Nat
  BY DEF Table
<1>5. CASE d \in S
  <2>1. v = t[d] + 1 /\ S \cup {d} = S
    BY <1>5 DEF CountOf
  <2>2. \A x \in S : t[x] \in Nat /\ u[x] \in Nat
    BY <1>2, <1>4 DEF Table
  <2> HIDE DEF v, u, S
  <2>3. SumFunctionOnSet(u, S) = SumFunctionOnSet(t, S) + 1
    BY <1>3, <1>4, <1>5, <2>1, <2>2, SumChange
  <2>4. SumFunction(u) = SumFunctionOnSet(u, S) /\ SumFunction(t) = SumFunctionOnSet(t, S)
    BY <1>2, <2>1 DEF SumFunction, S
  <2>5. Table(u) /\ SumFunction(u) = SumFunction(t) + 1
    BY <1>2, <2>3, <2>4
  <2> QED
    BY <2>5 DEF u, v
<1>6. CASE d \notin S
  <2>1. v = 1
    BY <1>6 DEF CountOf
  <2>2. \A x \in S \cup {d} : u[x] \in Nat
    BY <1>2 DEF Table
  <2>3. \A x \in S : u[x] = t[x]
    BY <1>3, <1>6
  <2> HIDE DEF v, u, S
  <2>4. SumFunctionOnSet(u, S \cup {d}) = u[d] + SumFunctionOnSet(u, S)
    BY <1>4, <1>6, <2>2, SumAdd
  <2>5. SumFunctionOnSet(u, S) = SumFunctionOnSet(t, S) /\ SumFunctionOnSet(t, S) \in Nat
    BY <1>4, <2>3, SumSame, SumType
  <2>6. SumFunction(u) = SumFunctionOnSet(u, S \cup {d}) /\ SumFunction(t) = SumFunctionOnSet(t, S)
    BY <1>2 DEF SumFunction, S
  <2>7. SumFunction(u) = SumFunction(t) + 1
    BY <1>3, <2>1, <2>4, <2>5, <2>6
  <2> QED
    BY <1>2, <2>7 DEF u, v
<1> QED
  BY <1>5, <1>6

LEMMA RecordedOK ==
  ASSUME NEW info, InfoOK(info), NEW q \in Queries, NEW at
  PROVE  InfoOK(Recorded(info, q, at)) /\ Recorded(info, q, at).LastSeen = at
<1> DEFINE more == Put(info.TopDomains, q.domain, CountOf(info.TopDomains, q.domain) + 1)
           top == Recorded(info, q, at).TopDomains
           n == info.TotalQueries
           s == SumFunction(info.TopDomains)
<1>1. Table(more) /\ SumFunction(more) = s + 1 /\ s \in Nat
  BY CountOneMore, TableSum DEF InfoOK
<1>2. top = more \/ top = info.TopDomains
  BY DEF Recorded
<1>3. n \in Nat /\ s <= n /\ Table(info.TopDomains) /\ info.BlockedCount \in Nat /\ info.BlockedCount <= n
  BY DEF InfoOK
<1>4. Table(top) /\ SumFunction(top) <= n + 1
  <2> HIDE DEF more, top, n
  <2>1. CASE top = more
    BY <1>1, <1>3, <2>1
  <2>2. CASE top = info.TopDomains
    BY <1>1, <1>3, <2>2
  <2> QED
    BY <1>2, <2>1, <2>2
<1>5. /\ Recorded(info, q, at).TotalQueries = n + 1 /\ Recorded(info, q, at).LastSeen = at
      /\ \/ Recorded(info, q, at).BlockedCount = info.BlockedCount + 1
         \/ Recorded(info, q, at).BlockedCount = info.BlockedCount + 0
  BY DEF Recorded
<1> HIDE DEF top, n, s, more
<1>6. Recorded(info, q, at).BlockedCount \in Nat /\ Recorded(info, q, at).BlockedCount <= n + 1
  BY <1>3, <1>5
<1> QED
  BY <1>3, <1>4, <1>5, <1>6 DEF InfoOK, top

LEMMA NewClientOK == InfoOK(NewClient)
<1>1. DOMAIN Empty = {}
  BY DEF Empty
<1>2. Table(Empty) /\ SumFunction(Empty) = 0
  BY <1>1, FS_EmptySet, SumOfNothing DEF Table, SumFunction
<1> QED
  BY <1>2 DEF InfoOK, NewClient

-----------------------------------------------------------------------------
(* The client table against the history of who was seen when.              *)
ClientsOK ==
  /\ now \in Nat /\ IsFiniteSet(DOMAIN seen) /\ \A c \in DOMAIN seen : seen[c] \in 0..now
  /\ DOMAIN clients \subseteq DOMAIN seen
  /\ \A c \in DOMAIN clients : InfoOK(clients[c]) /\ clients[c].LastSeen = seen[c]

LatestKept ==
  /\ Cardinality(DOMAIN clients) = IF maxClients < Cardinality(DOMAIN seen) THEN maxClients
                                                                          ELSE Cardinality(DOMAIN seen)
  /\ \A c \in DOMAIN clients, d \in DOMAIN seen \ DOMAIN clients : seen[d] <= seen[c]

LEMMA ClientsInit == ASSUME Init PROVE ClientsOK /\ LatestKept
<1>1. now = 0 /\ seen = Empty /\ clients = Empty
  BY DEF Init
<1>2. DOMAIN seen = {} /\ DOMAIN clients = {}
  BY <1>1 DEF Empty
<1> QED
  BY <1>1, <1>2, FS_EmptySet, StatisticsAssumption DEF ClientsOK, LatestKept

(* In every case of CountClient some table makes room for c's new entry. *)
LEMMA CountClientStep ==
  ASSUME LeftInv, ClientsOK, LatestKept, NEW h \in Handlers, CountClient(h)
  PROVE  ClientsOK' /\ LatestKept'
<1> DEFINE c == query[h].client
           C == DOMAIN clients
           S == DOMAIN seen
<1>1. query[h] \in Queries /\ maxClients \in Nat \ {0}
  BY StatisticsAssumption DEF LeftInv, Shape
<1>2. /\ now \in Nat /\ now' = now + 1 /\ IsFiniteSet(S) /\ IsFiniteSet(C) /\ C \subseteq S
      /\ \A x \in S : seen[x] \in 0..now
  BY FS_Subset DEF ClientsOK, CountClient
<1>3. seen' = Put(seen, c, now')
  BY DEF CountClient
<1>4. DOMAIN seen' = S \cup {c} /\ seen'[c] = now' /\ \A x \in S \ {c} : seen'[x] = seen[x]
  BY <1>3 DEF Put
<1>5. /\ IsFiniteSet(S \cup {c}) /\ Cardinality(S) \in Nat /\ Cardinality(S \cup {c}) \in Nat
      /\ Cardinality(S) <= Cardinality(S \cup {c}) /\ Cardinality(S \cup {c}) <= Cardinality(S) + 1
      /\ (c \in S => Cardinality(S \cup {c}) = Cardinality(S))
      /\ (c \notin S => Cardinality(S \cup {c}) = Cardinality(S) + 1)
  BY <1>2, OneMore
<1>6. \A x \in DOMAIN seen' : seen'[x] \in 0..now'
  BY <1>2, <1>4
<1>7. /\ Cardinality(C) = IF maxClients < Cardinality(S) THEN maxClients ELSE Cardinality(S)
      /\ \A x \in C, d \in S \ C : seen[d] <= seen[x]
  BY DEF LatestKept
<1>8. /\ Cardinality(C) \in Nat
      /\ (c \notin C => Cardinality(C \cup {c}) = Cardinality(C) + 1)
  BY <1>2, OneMore
<1>9. PICK info \in {NewClient} \cup {clients[x] : x \in C}, room \in SUBSET C :
        /\ InfoOK(info) /\ c \notin room
        /\ DOMAIN clients' = room \cup {c}
        /\ clients'[c] = Recorded(info, query[h], now') /\ \A x \in room : clients'[x] = clients[x]
        /\ \/ c \in C /\ room = C \ {c}
           \/ c \notin C /\ Cardinality(C) < maxClients /\ room = C
           \/ /\ c \notin C /\ Cardinality(C) >= maxClients
              /\ \E k \in Oldest(clients) : room = C \ {k}
  <2>1. \A x \in C : InfoOK(clients[x])
    BY DEF ClientsOK
  <2>2. CASE c \in C /\ clients' = Put(clients, c, Recorded(clients[c], query[h], now'))
    <3>1. /\ DOMAIN clients' = (C \ {c}) \cup {c} /\ clients'[c] = Recorded(clients[c], query[h], now')
          /\ \A x \in C \ {c} : clients'[x] = clients[x]
      BY <2>2 DEF Put
    <3> QED
      BY <2>1, <2>2, <3>1
  <2>3. CASE /\ c \notin C /\ Cardinality(C) < maxClients
             /\ clients' = Put(clients, c, Recorded(NewClient, query[h], now'))
    <3>1. /\ DOMAIN clients' = C \cup {c} /\ clients'[c] = Recorded(NewClient, query[h], now')
          /\ \A x \in C : clients'[x] = clients[x]
      BY <2>3 DEF Put
    <3> QED
      BY <2>3, <3>1, NewClientOK
  <2>4. CASE /\ c \notin C /\ Cardinality(C) >= maxClients
             /\ \E room \in EvictOldest(clients) : clients' = Put(room, c, Recorded(NewClient, query[h], now'))
    <3>1. PICK k \in Oldest(clients) : clients' = Put(Without(clients, k), c, Recorded(NewClient, query[h], now'))
      BY <2>4 DEF EvictOldest
    <3>2. DOMAIN Without(clients, k) = C \ {k} /\ \A x \in C \ {k} : Without(clients, k)[x] = clients[x]
      BY DEF Without
    <3>3. /\ DOMAIN clients' = (C \ {k}) \cup {c} /\ clients'[c] = Recorded(NewClient, query[h], now')
          /\ \A x \in C \ {k} : clients'[x] = clients[x]
      BY <2>4, <3>1, <3>2 DEF Put
    <3> QED
      BY <2>4, <3>1, <3>3, NewClientOK
  <2> QED
    BY <2>2, <2>3, <2>4 DEF CountClient
<1>10. /\ InfoOK(clients'[c]) /\ clients'[c].LastSeen = seen'[c]
       /\ \A x \in room : InfoOK(clients'[x]) /\ clients'[x].LastSeen = seen'[x]
  <2>1. \A x \in room : InfoOK(clients[x]) /\ clients[x].LastSeen = seen[x] /\ x \in S \ {c}
    BY <1>2, <1>9 DEF ClientsOK
  <2>2. InfoOK(clients'[c]) /\ clients'[c].LastSeen = now'
    BY <1>1, <1>9, RecordedOK
  <2> QED
    BY <1>4, <1>9, <2>1, <2>2
<1>11. ClientsOK'
  BY <1>2, <1>4, <1>5, <1>6, <1>9, <1>10 DEF ClientsOK
<1>12. ASSUME NEW x \in DOMAIN clients', NEW d \in DOMAIN seen' \ DOMAIN clients'
       PROVE  seen'[d] <= seen'[x]
  <2>1. d \in S \ {c} /\ seen'[d] = seen[d] /\ d \notin room /\ seen[d] \in 0..now
    BY <1>2, <1>4, <1>9
  <2>2. CASE x = c
    BY <1>2, <1>4, <2>1, <2>2
  <2>3. CASE x # c
    <3>1. x \in room /\ x \in C /\ seen'[x] = seen[x] /\ seen[x] \in 0..now
      BY <1>2, <1>4, <1>9, <2>3
    <3>2. CASE d \notin C
      BY <1>7, <2>1, <3>1, <3>2
    <3>3. CASE d \in C
      <4>1. PICK k \in Oldest(clients) : room = C \ {k}
        BY <1>9, <2>1, <3>3
      <4>2. d = k
        BY <2>1, <3>3, <4>1
      <4>3. clients[d].LastSeen <= clients[x].LastSeen
        BY <3>1, <4>1, <4>2 DEF Oldest
      <4>4. clients[d].LastSeen = seen[d] /\ clients[x].LastSeen = seen[x]
        BY <3>1, <3>3 DEF ClientsOK
      <4> QED
        BY <2>1, <3>1, <4>3, <4>4
    <3> QED
      BY <3>2, <3>3
  <2> QED
    BY <2>2, <2>3
<1>13. Cardinality(DOMAIN clients') = IF maxClients < Cardinality(S \cup {c}) THEN maxClients
                                                                            ELSE Cardinality(S \cup {c})
  <2>1. CASE c \in C
    <3>1. DOMAIN clients' = C /\ S \cup {c} = S
      BY <1>2, <1>9, <2>1
    <3> QED
      BY <1>7, <3>1
  <2>2. CASE c \notin C /\ Cardinality(C) < maxClients
    <3>1. Cardinality(C) = Cardinality(S)
      BY <1>1, <1>5, <1>7, <2>2
    <3>2. C = S
      BY <1>2, <3>1, FS_Subset
    <3>3. DOMAIN clients' = S \cup {c} /\ Cardinality(S \cup {c}) = Cardinality(S) + 1
      BY <1>1, <1>5, <1>8, <1>9, <2>2, <3>2
    <3> QED
      BY <1>1, <1>5, <2>2, <3>1, <3>3
  <2>3. CASE c \notin C /\ Cardinality(C) >= maxClients
    <3>1. Cardinality(C) = maxClients /\ maxClients <= Cardinality(S)
      BY <1>1, <1>5, <1>7, <2>3
    <3>2. PICK k \in Oldest(clients) : room = C \ {k}
      BY <1>1, <1>8, <1>9, <2>3
    <3>3. k \in C
      BY DEF Oldest
    <3>4. Cardinality(room) = Cardinality(C) - 1 /\ IsFiniteSet(room)
      BY <1>2, <3>2, <3>3, OneMore, FS_Subset
    <3>5. Cardinality(room \cup {c}) = Cardinality(room) + 1
      BY <1>9, <3>4, OneMore
    <3>6. Cardinality(DOMAIN clients') = maxClients
      BY <1>1, <1>9, <3>1, <3>4, <3>5
    <3> QED
      BY <1>1, <1>5, <3>1, <3>6
  <2> QED
    BY <1>1, <1>8, <2>1, <2>2, <2>3
<1> QED
  BY <1>4, <1>11, <1>12, <1>13 DEF LatestKept

ClientsInv == LeftInv /\ ClientsOK /\ LatestKept

LEMMA ClientsInvHolds == Spec => []ClientsInv
<1>1. Init => ClientsInv
  BY LeftInit, ClientsInit DEF ClientsInv
<1>2. ClientsInv /\ [Next]_vars => ClientsInv'
  <2> SUFFICES ASSUME ClientsInv, [Next]_vars PROVE ClientsInv'
    OBVIOUS
  <2>1. ASSUME NEW h \in Handlers, CountClient(h) PROVE ClientsOK' /\ LatestKept'
    BY <2>1, CountClientStep DEF ClientsInv
  <2>2. CASE \A h \in Handlers : ~CountClient(h)
    <3>1. UNCHANGED <<clients, seen, now>>
      BY <2>2 DEF Next, Handle, Start, RecordBlocked, RecordQuery, LogQuery, CountDomain,
                  FilterDebug, ReadCount, ReadLatency, TrackQPS, vars, tableVars
    <3>2. ClientsOK' /\ LatestKept'
      BY <3>1 DEF ClientsInv, ClientsOK, LatestKept, InfoOK, Table
    <3> QED
      BY <3>2, LeftStep DEF ClientsInv
  <2> QED
    BY <2>1, <2>2, LeftStep DEF ClientsInv
<1> QED
  BY <1>1, <1>2, PTL DEF Spec

(* The client table (clientstats.RecordQuery) is full before anyone leaves *)
(* it, and then keeps the clients seen last, with counts that add up.      *)
THEOREM KeepsLatestClientsHolds == Spec => []KeepsLatestClients
<1>1. ClientsInv => KeepsLatestClients
  <2> SUFFICES ASSUME ClientsInv PROVE KeepsLatestClients
    OBVIOUS
  <2>1. Cardinality(DOMAIN clients) = Min({maxClients, Cardinality(DOMAIN seen)})
    <3>1. maxClients \in Nat /\ Cardinality(DOMAIN seen) \in Nat
      BY StatisticsAssumption, FS_CardinalityType DEF ClientsInv, ClientsOK
    <3> QED
      BY <3>1, LeastOfTwo DEF ClientsInv, LatestKept
  <2> QED
    BY <2>1 DEF ClientsInv, ClientsOK, LatestKept, InfoOK, KeepsLatestClients
<1> QED
  BY <1>1, ClientsInvHolds, PTL

-----------------------------------------------------------------------------
(* The variables have their types (metrics.go:35-78: atomics that start at  *)
(* 0, a ring of fixed size, a position inside it).                         *)
THEOREM TypeCorrect == Spec => []TypeOK
<1>1. Init => RingInv
  BY InitRing
<1>2. RingInv /\ [Next]_vars => RingInv'
  BY RingStep
<1>3. RingInv /\ CountInv /\ ClientsInv => TypeOK
  BY DEF RingInv, Ring, CountInv, CountersOK, ClientsInv, ClientsOK, LeftInv, Shape, TypeOK
<1> QED
  BY <1>1, <1>2, <1>3, CountInvHolds, ClientsInvHolds, PTL DEF Spec
=============================================================================
