------------------------ MODULE RecommendationProofs ------------------------
(***************************************************************************)
(* Proofs about the comparator's recommendations, for any workloads with   *)
(* any names, resources that the API server accepts, any usage and margin, *)
(* and prices of any kind.                                                 *)
(***************************************************************************)
EXTENDS Recommendation, FiniteSetTheorems, SequenceTheorems, WellFoundedInduction, TLAPS

(* Integer division: the quotient is the greatest number whose product     *)
(* with the divisor is not above the dividend.                             *)
LEMMA Quotient ==
  ASSUME NEW n \in Nat, NEW d \in Nat \ {0}
  PROVE  /\ n \div d \in Nat
         /\ (n \div d) * d <= n
         /\ \A k \in Nat : k * d <= n => k <= n \div d
<1>1. n \div d \in Nat /\ (n \div d) * d <= n /\ n < (n \div d) * d + d
  OBVIOUS
<1>2. ASSUME NEW k \in Nat, k * d <= n, n \div d < k
      PROVE  FALSE
  <2>1. n \div d + 1 <= k
    BY <1>1, <1>2
  <2>2. (n \div d + 1) * d <= k * d
    BY <1>1, <2>1
  <2>3. QED
    BY <1>1, <1>2, <2>2
<1>3. QED
  BY <1>1, <1>2

(* A ratio that is not below one does not make less of it. *)
LEMMA QuotientGrows ==
  ASSUME NEW n \in Nat, NEW d \in Nat \ {0}, NEW q \in Nat \ {0}, NEW l \in Nat, q <= l
  PROVE  n \div d <= (n * l) \div (d * q)
<1> DEFINE k == n \div d
<1>1. k \in Nat /\ k * d <= n
  BY Quotient
<1>2. (k * d) * q <= n * q
  BY <1>1
<1>3. n * q <= n * l
  OBVIOUS
<1>4. k * (d * q) = (k * d) * q
  BY <1>1
<1>5. d * q \in Nat \ {0} /\ n * l \in Nat
  OBVIOUS
<1>6. k * (d * q) <= n * l
  BY <1>1, <1>2, <1>3, <1>4, <1>5
<1>7. QED
  BY <1>1, <1>5, <1>6, Quotient

(* The least-number principle, for sets: the provers cannot instantiate    *)
(* the library's induction theorems, which are about operators.            *)
LessThan == {ss \in Nat \X Nat : ss[1] < ss[2]}
LEMMA Least ==
  ASSUME NEW S \in SUBSET Nat, S # {}
  PROVE  \E n \in S : \A m \in S : n <= m
<1>1. IsWellFoundedOn(LessThan, Nat)
  BY NatLessThanWellFounded DEF OpToRel, LessThan
<1>2. PICK n \in S : \A m \in S : ~(<<m, n>> \in LessThan)
  BY <1>1, WFMin
<1>3. \A m \in S : ~(m < n)
  BY <1>2 DEF LessThan
<1>4. QED
  BY <1>3

(* A finite set of numbers that is not empty has a greatest.  Otherwise    *)
(* there would be smallest sets that have none, and taking an element away *)
(* from one of them would leave one that is smaller still.                 *)
LEMMA Greatest ==
  ASSUME NEW S \in SUBSET Nat, IsFiniteSet(S), S # {}
  PROVE  Max(S) \in S /\ \A y \in S : Max(S) >= y
<1> DEFINE HasMax(T) == \E x \in T : \A y \in T : x >= y
           Sizes == {Cardinality(T) : T \in {U \in SUBSET S : U # {} /\ ~HasMax(U)}}
<1>1. ASSUME ~HasMax(S) PROVE FALSE
  <2>1. Sizes \subseteq Nat
    BY FS_Subset, FS_CardinalityType
  <2>2. Sizes # {}
    BY <1>1
  <2>3. PICK n \in Sizes : \A m \in Sizes : n <= m
    BY <2>1, <2>2, Least
  <2>4. \A m \in Sizes : ~(m < n)
    BY <2>1, <2>3
  <2>5. PICK T \in SUBSET S : T # {} /\ ~HasMax(T) /\ Cardinality(T) = n
    OBVIOUS
  <2>6. IsFiniteSet(T)
    BY FS_Subset
  <2>7. PICK x \in T : TRUE
    BY <2>5
  <2>8. IsFiniteSet(T \ {x}) /\ Cardinality(T \ {x}) = n - 1 /\ n \in Nat
    BY <2>1, <2>5, <2>6, <2>7, FS_RemoveElement
  <2>9. T \ {x} = {} \/ HasMax(T \ {x})
    <3>1. Cardinality(T \ {x}) < n
      BY <2>8
    <3>2. Cardinality(T \ {x}) \notin Sizes
      BY <2>4, <3>1
    <3>3. QED
      BY <3>2
  <2>10. CASE T \ {x} = {}
    <3>1. T = {x} /\ x \in Nat
      BY <2>7, <2>10
    <3>2. QED
      BY <2>5, <3>1
  <2>11. ASSUME NEW m \in T \ {x}, \A y \in T \ {x} : m >= y PROVE FALSE
    <3>1. m \in Nat /\ x \in Nat /\ \A y \in T : y \in Nat
      BY <2>7
    <3>2. CASE m >= x
      BY <2>5, <2>11, <3>1, <3>2
    <3>3. CASE x >= m
      BY <2>5, <2>7, <2>11, <3>1, <3>3
    <3>4. QED
      BY <3>1, <3>2, <3>3
  <2>12. QED
    BY <2>9, <2>10, <2>11
<1>2. QED
  BY <1>1 DEF Max

----------------------------------------------------------------------------
(* What holds of the empty set, and of a set that it holds of without one  *)
(* of its elements, holds of every finite set.  P is the set of the sets   *)
(* it holds of.                                                            *)
LEMMA SetInduction ==
  ASSUME NEW S, IsFiniteSet(S), NEW P, {} \in P,
         \A T \in SUBSET S : \A x \in S \ T : T \in P => T \cup {x} \in P
  PROVE  \A T \in SUBSET S : T \in P
<1> DEFINE Sizes == {Cardinality(T) : T \in {U \in SUBSET S : U \notin P}}
<1>1. ASSUME NEW W \in SUBSET S, W \notin P PROVE FALSE
  <2>1. Sizes \subseteq Nat /\ Sizes # {}
    BY <1>1, FS_Subset, FS_CardinalityType
  <2>2. PICK n \in Sizes : \A m \in Sizes : n <= m
    BY <2>1, Least
  <2>3. PICK T \in SUBSET S : T \notin P /\ Cardinality(T) = n
    OBVIOUS
  <2>4. PICK x \in T : TRUE
    BY <2>3
  <2>5. IsFiniteSet(T)
    BY FS_Subset
  <2>6. Cardinality(T \ {x}) = n - 1 /\ n \in Nat
    BY <2>1, <2>3, <2>5, FS_RemoveElement
  <2>7. Cardinality(T \ {x}) \notin Sizes
    BY <2>1, <2>2, <2>6
  <2>8. T \ {x} \in P /\ T \ {x} \in SUBSET S /\ x \in S \ (T \ {x}) /\ (T \ {x}) \cup {x} = T
    BY <2>7
  <2>9. QED
    BY <2>3, <2>8
<1>2. QED
  BY <1>1

(* The sum over each subset, as a function that does not depend on the     *)
(* order of the addends.                                                   *)
AddsUp(g, c, S) ==
    /\ g \in [SUBSET S -> Nat]
    /\ g[{}] = 0
    /\ \A T \in SUBSET S : \A x \in S \ T : g[T \cup {x}] = g[T] + c[x]
LEMMA SumsExist ==
  ASSUME NEW S, IsFiniteSet(S), NEW c, \A x \in S : c[x] \in Nat
  PROVE  \E g : AddsUp(g, c, S)
<1> DEFINE P == {T \in SUBSET S : \E g : AddsUp(g, c, T)}
<1>1. {} \in P
  <2> DEFINE g == [T \in SUBSET {} |-> 0]
  <2>1. AddsUp(g, c, {})
    BY DEF AddsUp
  <2>2. QED
    BY <2>1
<1>2. ASSUME NEW T \in SUBSET S, NEW x \in S \ T, T \in P PROVE T \cup {x} \in P
  <2>1. PICK g : AddsUp(g, c, T)
    BY <1>2
  <2> DEFINE V == T \cup {x}
             h == [U \in SUBSET V |-> IF x \in U THEN g[U \ {x}] + c[x] ELSE g[U]]
  <2>2. \A U \in SUBSET V : U \ {x} \in SUBSET T /\ (x \notin U => U \in SUBSET T)
    OBVIOUS
  <2>3. \A U \in SUBSET T : g[U] \in Nat
    BY <2>1 DEF AddsUp
  <2>4. h \in [SUBSET V -> Nat]
    BY <2>2, <2>3
  <2>5. h[{}] = 0
    BY <2>1 DEF AddsUp
  <2>6. ASSUME NEW U \in SUBSET V, NEW y \in V \ U PROVE h[U \cup {y}] = h[U] + c[y]
    <3>1. U \cup {y} \in SUBSET V /\ c[x] \in Nat /\ c[y] \in Nat
      OBVIOUS
    <3>2. CASE y = x
      <4>1. (U \cup {y}) \ {x} = U /\ x \in U \cup {y} /\ x \notin U
        BY <3>2
      <4>2. QED
        BY <3>1, <3>2, <4>1
    <3>3. CASE y # x /\ x \in U
      <4>1. (U \cup {y}) \ {x} = (U \ {x}) \cup {y} /\ x \in U \cup {y}
        BY <3>3
      <4>2. U \ {x} \in SUBSET T /\ y \in T \ (U \ {x})
        BY <3>3
      <4>3. g[(U \ {x}) \cup {y}] = g[U \ {x}] + c[y]
        BY <2>1, <4>2 DEF AddsUp
      <4>4. g[U \ {x}] \in Nat
        BY <2>3, <4>2
      <4>5. h[U \cup {y}] = g[(U \ {x}) \cup {y}] + c[x] /\ h[U] = g[U \ {x}] + c[x]
        BY <3>1, <3>3, <4>1
      <4>6. QED
        BY <3>1, <4>3, <4>4, <4>5
    <3>4. CASE y # x /\ x \notin U
      <4>1. U \in SUBSET T /\ y \in T \ U /\ x \notin U \cup {y}
        BY <3>4
      <4>2. g[U \cup {y}] = g[U] + c[y]
        BY <2>1, <4>1 DEF AddsUp
      <4>3. QED
        BY <3>1, <3>4, <4>1, <4>2
    <3>5. QED
      BY <3>2, <3>3, <3>4
  <2>7. AddsUp(h, c, V)
    <3> HIDE DEF h
    <3>1. QED
      BY <2>4, <2>5, <2>6 DEF AddsUp
  <2>8. QED
    BY <2>7
<1>3. \A T \in SUBSET S : T \in P
  <2> HIDE DEF P
  <2>1. QED
    BY <1>1, <1>2, SetInduction
<1>4. QED
  BY <1>3

(* The library's sum takes the elements in the order in which CHOOSE       *)
(* yields them.                                                            *)
SumUpTo(f, c, s) ==
    IF s = {} THEN 0 ELSE c[CHOOSE x \in s : TRUE] + f[s \ {CHOOSE x \in s : TRUE}]
LEMMA SumIsIt ==
  ASSUME NEW S, IsFiniteSet(S), NEW c, \A x \in S : c[x] \in Nat,
         NEW g, AddsUp(g, c, S), NEW T \in SUBSET S
  PROVE  SumFunctionOnSet(c, T) = g[T]
<1>1. \A U \in SUBSET S : U # {} =>
         LET x == CHOOSE y \in U : TRUE
         IN  /\ x \in U /\ U \ {x} \in SUBSET S /\ x \in S \ (U \ {x}) /\ (U \ {x}) \cup {x} = U
             /\ c[x] \in Nat /\ g[U \ {x}] \in Nat
  BY DEF AddsUp
<1>2. ASSUME NEW U \in SUBSET S PROVE g[U] = SumUpTo(g, c, U)
  <2>1. CASE U = {}
    BY <2>1 DEF AddsUp, SumUpTo
  <2>2. CASE U # {}
    <3> DEFINE x == CHOOSE y \in U : TRUE
    <3>1. g[U] = g[U \ {x}] + c[x]
      <4>1. U \ {x} \in SUBSET S /\ x \in S \ (U \ {x}) /\ (U \ {x}) \cup {x} = U
        BY <1>1, <2>2
      <4> HIDE DEF x
      <4>2. g[(U \ {x}) \cup {x}] = g[U \ {x}] + c[x]
        BY <4>1 DEF AddsUp
      <4>3. QED
        BY <4>1, <4>2
    <3>2. c[x] \in Nat /\ g[U \ {x}] \in Nat
      BY <1>1, <2>2
    <3>3. SumUpTo(g, c, U) = c[x] + g[U \ {x}]
      BY <2>2 DEF SumUpTo
    <3> HIDE DEF x
    <3>4. QED
      BY <3>1, <3>2, <3>3
  <2>3. QED
    BY <2>1, <2>2
<1> DEFINE f == CHOOSE h : h = [s \in SUBSET T |-> SumUpTo(h, c, s)]
           gT == [s \in SUBSET T |-> g[s]]
<1>3. gT = [s \in SUBSET T |-> SumUpTo(gT, c, s)]
  <2>1. \A s \in SUBSET T : SumUpTo(gT, c, s) = SumUpTo(g, c, s)
    <3>1. \A s \in SUBSET T : \A y : s \ {y} \in SUBSET T
      OBVIOUS
    <3>2. QED
      BY <3>1 DEF SumUpTo
  <2>2. \A s \in SUBSET T : g[s] = SumUpTo(g, c, s)
    BY <1>2
  <2> HIDE DEF gT
  <2>3. gT = [s \in SUBSET T |-> g[s]]
    BY DEF gT
  <2>4. QED
    BY <2>1, <2>2, <2>3
<1>4. f = [s \in SUBSET T |-> SumUpTo(f, c, s)]
  <2> HIDE DEF gT
  <2>1. \E h : h = [s \in SUBSET T |-> SumUpTo(h, c, s)]
    BY <1>3
  <2>2. QED
    BY <2>1
<1>5. SumFunctionOnSet(c, T) = f[T]
  BY DEF SumFunctionOnSet, FoldFunctionOnSet, MapThenFoldSet, SumUpTo
<1> HIDE DEF f
<1> DEFINE P == {U \in SUBSET T : f[U] = g[U]}
<1>6. {} \in P
  BY <1>4 DEF SumUpTo, AddsUp
<1>7. \A U \in SUBSET T : U # {} => f[U] = c[CHOOSE y \in U : TRUE] + f[U \ {CHOOSE y \in U : TRUE}]
  BY <1>4 DEF SumUpTo
<1>8. \A U \in SUBSET T : U # {} => g[U] = c[CHOOSE y \in U : TRUE] + g[U \ {CHOOSE y \in U : TRUE}]
  BY <1>2 DEF SumUpTo
<1>9. \A U \in SUBSET T : U \in P
  <2> DEFINE Sizes == {Cardinality(W) : W \in {U \in SUBSET T : U \notin P}}
  <2>1. ASSUME NEW W \in SUBSET T, W \notin P PROVE FALSE
    <3>1. Sizes \subseteq Nat /\ Sizes # {}
      BY <2>1, FS_Subset, FS_CardinalityType
    <3>2. PICK n \in Sizes : \A m \in Sizes : n <= m
      BY <3>1, Least
    <3>3. PICK U \in SUBSET T : U \notin P /\ Cardinality(U) = n
      OBVIOUS
    <3> DEFINE x == CHOOSE y \in U : TRUE
    <3>4. U # {} /\ IsFiniteSet(U)
      BY <1>6, <3>3, FS_Subset
    <3>5. x \in U
      BY <3>4
    <3>6. f[U] = c[x] + f[U \ {x}] /\ g[U] = c[x] + g[U \ {x}]
      BY <1>7, <1>8, <3>4
    <3> HIDE DEF x
    <3>7. Cardinality(U \ {x}) = n - 1 /\ n \in Nat
      BY <3>1, <3>3, <3>4, <3>5, FS_RemoveElement
    <3>8. Cardinality(U \ {x}) \notin Sizes
      BY <3>1, <3>2, <3>7
    <3>9. U \ {x} \in P
      BY <3>8
    <3>10. QED
      BY <3>3, <3>6, <3>9
  <2>2. QED
    BY <2>1
<1>10. QED
  BY <1>5, <1>9

(* A sum is a number; it grows with its addends; and addends of zero       *)
(* change nothing.                                                         *)
LEMMA SumType ==
  ASSUME NEW S, IsFiniteSet(S), NEW c, \A x \in S : c[x] \in Nat
  PROVE  SumFunctionOnSet(c, S) \in Nat
<1>1. PICK g : AddsUp(g, c, S)
  BY SumsExist
<1>2. SumFunctionOnSet(c, S) = g[S]
  BY <1>1, SumIsIt
<1>3. QED
  BY <1>1, <1>2 DEF AddsUp

LEMMA SumGrows ==
  ASSUME NEW S, IsFiniteSet(S), NEW c, NEW d,
         \A x \in S : c[x] \in Nat /\ d[x] \in Nat /\ c[x] <= d[x]
  PROVE  SumFunctionOnSet(c, S) <= SumFunctionOnSet(d, S)
<1>1. PICK g : AddsUp(g, c, S)
  BY SumsExist
<1>2. PICK h : AddsUp(h, d, S)
  BY SumsExist
<1> DEFINE P == {T \in SUBSET S : g[T] <= h[T]}
<1>3. {} \in P
  BY <1>1, <1>2 DEF AddsUp
<1>4. ASSUME NEW T \in SUBSET S, NEW x \in S \ T, T \in P PROVE T \cup {x} \in P
  <2>1. g[T \cup {x}] = g[T] + c[x] /\ h[T \cup {x}] = h[T] + d[x]
    BY <1>1, <1>2 DEF AddsUp
  <2>2. g[T] \in Nat /\ h[T] \in Nat
    BY <1>1, <1>2 DEF AddsUp
  <2>3. QED
    BY <1>4, <2>1, <2>2
<1>5. S \in P
  <2> HIDE DEF P
  <2>1. QED
    BY <1>3, <1>4, SetInduction
<1>6. SumFunctionOnSet(c, S) = g[S] /\ SumFunctionOnSet(d, S) = h[S]
  BY <1>1, <1>2, SumIsIt
<1>7. QED
  BY <1>5, <1>6

LEMMA SumsAlike ==
  ASSUME NEW S, IsFiniteSet(S), NEW c, NEW d, \A x \in S : c[x] \in Nat /\ d[x] = c[x]
  PROVE  SumFunctionOnSet(c, S) = SumFunctionOnSet(d, S)
<1>1. SumFunctionOnSet(c, S) <= SumFunctionOnSet(d, S)
  BY SumGrows
<1>2. SumFunctionOnSet(d, S) <= SumFunctionOnSet(c, S)
  BY SumGrows
<1>3. QED
  BY <1>1, <1>2, SumType

LEMMA SumWithoutZeros ==
  ASSUME NEW S, IsFiniteSet(S), NEW c, \A x \in S : c[x] \in Nat,
         NEW T \in SUBSET S, \A x \in S \ T : c[x] = 0
  PROVE  SumFunctionOnSet(c, S) = SumFunctionOnSet(c, T)
<1>1. PICK g : AddsUp(g, c, S)
  BY SumsExist
<1> DEFINE P == {U \in SUBSET S : g[U] = g[U \cap T]}
<1>2. {} \in P
  OBVIOUS
<1>3. ASSUME NEW U \in SUBSET S, NEW x \in S \ U, U \in P PROVE U \cup {x} \in P
  <2>1. g[U \cup {x}] = g[U] + c[x]
    BY <1>1 DEF AddsUp
  <2>2. g[U] \in Nat /\ g[U] = g[U \cap T]
    BY <1>1, <1>3 DEF AddsUp
  <2>3. CASE x \in T
    <3>1. (U \cup {x}) \cap T = (U \cap T) \cup {x} /\ U \cap T \in SUBSET S /\ x \in S \ (U \cap T)
      BY <2>3
    <3>2. g[(U \cap T) \cup {x}] = g[U \cap T] + c[x]
      BY <1>1, <3>1 DEF AddsUp
    <3>3. QED
      BY <2>1, <2>2, <3>1, <3>2
  <2>4. CASE x \notin T
    <3>1. (U \cup {x}) \cap T = U \cap T
      BY <2>4
    <3>2. c[x] = 0
      BY <2>4
    <3>3. g[U \cup {x}] = g[U]
      BY <2>1, <2>2, <3>2
    <3>4. g[U \cup {x}] = g[(U \cup {x}) \cap T]
      BY <2>2, <3>1, <3>3
    <3>5. QED
      BY <3>4
  <2>5. QED
    BY <2>3, <2>4
<1>4. S \in P
  <2> HIDE DEF P
  <2>1. QED
    BY <1>2, <1>3, SetInduction
<1>5. S \cap T = T
  OBVIOUS
<1>6. SumFunctionOnSet(c, S) = g[S] /\ SumFunctionOnSet(c, T) = g[T]
  BY <1>1, SumIsIt
<1>7. QED
  BY <1>4, <1>5, <1>6

----------------------------------------------------------------------------
(* The pods of a workload have names that begin with its own. *)
LEMMA SelectsItself ==
  ASSUME NEW w \in Workloads, NEW kind
  PROVE  Selected(Name[w], PodName(Name[w], kind))
<1> DEFINE Parts == STRING \cup {"-", "hash"}
<1>1. Name[w] \in Seq(Parts)
  <2>1. Name[w] \in Seq(STRING)
    BY WorkloadsAssumption
  <2>2. PICK n \in Nat : Name[w] \in [1..n -> STRING]
    BY <2>1, SeqDef
  <2>3. Name[w] \in [1..n -> Parts]
    BY <2>2
  <2>4. QED
    BY <2>3, SeqDef
<1>2. Len(Owners(kind)) \in Nat
  BY DEF Owners
<1>3. PICK n \in Nat : n = 2 * Len(Owners(kind))
  BY <1>2
<1> DEFINE suffix == [k \in 1..n |-> IF k % 2 = 1 THEN "-" ELSE "hash"]
<1>4. suffix \in Seq(Parts)
  <2>1. suffix \in [1..n -> Parts]
    OBVIOUS
  <2>2. QED
    BY <2>1, SeqDef
<1>5. PodName(Name[w], kind) = Name[w] \o suffix
  BY <1>3 DEF PodName
<1> HIDE DEF suffix, Parts
<1>6. QED
  BY <1>1, <1>4, <1>5 DEF Selected, IsPrefix

(* It is pods of their own only for which no replicas can be asked. *)
LEMMA OnlyPodsHaveNoReplicas ==
  ASSUME NEW kind, kind # "", ~HasReplicas(kind)
  PROVE  kind = "Pod"
BY DEF HasReplicas, RootKind, Owners

(* A function takes finitely many values on a finite set. *)
LEMMA ValuesFinite ==
  ASSUME NEW S, IsFiniteSet(S), NEW f, f = [x \in S |-> f[x]]
  PROVE  IsFiniteSet({f[x] : x \in S})
<1>1. f \in Surjection(S, {f[x] : x \in S})
  BY DEF Surjection
<1>2. QED
  BY <1>1, FS_Surjection

(* What is merged from statistics is one of them or covers them all. *)
LEMMA Merged ==
  ASSUME NEW stats \in SUBSET Statistics, IsFiniteSet(stats),
         NEW d \in MergeTimeSeriesList(stats)
  PROVE  \/ stats = {} /\ d = NoData
         \/ /\ d \in Statistics
            /\ \E s \in stats : HasPercentileOf(d, s)
            /\ \A r \in Resources : /\ \A t \in stats : d[r].max >= t[r].max
                                    /\ \E t \in stats : d[r].max = t[r].max
<1>1. CASE stats = {}
  BY <1>1 DEF MergeTimeSeriesList
<1>2. CASE stats # {}
  <2>1. PICK s \in stats :
          d = [r \in Resources |-> [percentile |-> s[r].percentile,
                                    max |-> Max({t[r].max : t \in stats})]]
    BY <1>2 DEF MergeTimeSeriesList
  <2>2. ASSUME NEW r \in Resources
        PROVE  /\ Max({t[r].max : t \in stats}) \in {t[r].max : t \in stats}
               /\ \A y \in {t[r].max : t \in stats} : Max({t[r].max : t \in stats}) >= y
    <3>1. {t[r].max : t \in stats} \in SUBSET Nat /\ {t[r].max : t \in stats} # {}
      BY <1>2 DEF Statistics
    <3>2. IsFiniteSet({t[r].max : t \in stats})
      <4> DEFINE max == [t \in stats |-> t[r].max]
      <4>1. IsFiniteSet({max[t] : t \in stats})
        BY ValuesFinite
      <4>2. QED
        BY <4>1
    <3>3. QED
      BY <3>1, <3>2, Greatest
  <2>3. \A r \in Resources : /\ d[r].max = Max({t[r].max : t \in stats})
                             /\ d[r].percentile = s[r].percentile
    BY <2>1
  <2>4. \A r \in Resources : /\ \A t \in stats : d[r].max >= t[r].max
                             /\ \E t \in stats : d[r].max = t[r].max
    BY <2>2, <2>3
  <2>5. \A r \in Resources : [percentile |-> s[r].percentile,
                              max |-> Max({t[r].max : t \in stats})]
                             \in [percentile : Nat, max : Nat]
    BY <2>2 DEF Statistics
  <2>6. d \in [Resources -> [percentile : Nat, max : Nat]]
    BY <2>1, <2>5
  <2>7. \A r \in Resources : /\ s[r].percentile \in Nat /\ s[r].max \in Nat /\ d[r].max \in Nat
                             /\ s[r].percentile <= s[r].max /\ s[r].max <= d[r].max
    BY <2>4, <2>6 DEF Statistics
  <2>8. ASSUME NEW r \in Resources PROVE d[r].percentile <= d[r].max
    <3>1. d[r].percentile = s[r].percentile
      BY <2>3
    <3>2. QED
      BY <2>7, <3>1
  <2>9. d \in Statistics
    BY <2>6, <2>8 DEF Statistics
  <2>10. HasPercentileOf(d, s)
    BY <2>3 DEF HasPercentileOf
  <2>11. QED
    BY <2>4, <2>9, <2>10
<1>3. QED
  BY <1>1, <1>2

----------------------------------------------------------------------------
LEMMA InitFoundInv == Init => FoundInv
<1> SUFFICES ASSUME Init PROVE FoundInv
  OBVIOUS
<1>1. DOMAIN None = {}
  BY DEF None
<1>2. Typed
  BY <1>1 DEF Init, Typed, Known
<1>3. PodsAccounted
  BY DEF Init, PodsAccounted
<1>4. KnownByPods /\ DataCovers /\ FollowsData
  BY <1>1 DEF Init, KnownByPods, Known, DataCovers, FollowsData, Finding
<1>5. QED
  BY <1>2, <1>3, <1>4 DEF FoundInv

(* A pod is visited: it is accounted for if it met a failure or its        *)
(* workload is known or ignored.                                           *)
LEMMA VisitFoundInv ==
  ASSUME FoundInv, NEW p, Visit(p),
         met \subseteq met', met' \subseteq met \cup {p},
         failed' \in BOOLEAN, failed => failed',
         p \in met' /\ p \notin met => failed' \/ deployed[p[1]].kind = "Pod",
         Known \subseteq Known', Known' \subseteq Known \cup {p[1]},
         p \in met' \/ p[1] \in Known' \/ deployed[p[1]].kind = "Job"
  PROVE  FoundInv'
<1>1. /\ pc = "init" /\ pc' = "init" /\ p \in podsLeft /\ podsLeft' = podsLeft \ {p}
      /\ UNCHANGED <<deployed, usage, containersData, recommended>>
  BY DEF Visit, cluster
<1>2. p[1] \in Workloads /\ p \in PodsOf(p[1])
  BY <1>1 DEF FoundInv, Typed, PodsOf
<1>3. \A w : PodsOf(w)' = PodsOf(w)
  BY <1>1 DEF PodsOf
<1>4. \A w \in Workloads : p \in PodsOf(w) => w = p[1]
  BY DEF PodsOf
<1>5. Typed'
  BY <1>1, <1>2, <1>3 DEF FoundInv, Typed
<1>6. PodsAccounted'
  <2>1. ASSUME NEW w \in Workloads, w \notin Known', deployed[w].kind # "Job"
        PROVE  PodsOf(w) \subseteq podsLeft' \cup met'
    <3>1. PodsOf(w) \subseteq podsLeft \cup met
      BY <1>1, <2>1 DEF FoundInv, PodsAccounted, Finding
    <3>2. p \in PodsOf(w) => p \in met'
      BY <1>4, <2>1
    <3>3. QED
      BY <1>1, <3>1, <3>2
  <2>2. ASSUME NEW w \in Workloads, PodsOf(w) \cap met' # {}
        PROVE  failed' \/ deployed[w].kind = "Pod"
    <3>1. CASE PodsOf(w) \cap met # {}
      BY <1>1, <3>1 DEF FoundInv, PodsAccounted, Finding
    <3>2. CASE PodsOf(w) \cap met = {}
      BY <1>4, <2>2, <3>2
    <3>3. QED
      BY <3>1, <3>2
  <2>3. QED
    BY <1>1, <1>3, <2>1, <2>2 DEF PodsAccounted
<1>7. KnownByPods'
  BY <1>2, <1>3 DEF FoundInv, KnownByPods
<1>8. DataCovers' /\ FollowsData'
  BY <1>1 DEF FoundInv, DataCovers, FollowsData, Finding
<1>9. QED
  BY <1>5, <1>6, <1>7, <1>8 DEF FoundInv

LEMMA OwnerLostFoundInv == ASSUME FoundInv, NEW p \in podsLeft, OwnerLost(p) PROVE FoundInv'
<1>1. Visit(p) /\ met' = met \cup {p} /\ failed' = TRUE /\ UNCHANGED Known
  BY DEF OwnerLost, Known
<1>2. QED
  BY <1>1, VisitFoundInv

LEMMA SkipPodFoundInv == ASSUME FoundInv, NEW p \in podsLeft, SkipPod(p) PROVE FoundInv'
<1>1. Visit(p) /\ UNCHANGED <<met, failed, Known>>
  BY DEF SkipPod, Known
<1>2. p[1] \in Known' \/ deployed[p[1]].kind = "Job"
  BY <1>1 DEF SkipPod
<1>3. failed' \in BOOLEAN /\ (failed => failed')
  BY <1>1 DEF FoundInv, Typed
<1>4. QED
  BY <1>1, <1>2, <1>3, VisitFoundInv

LEMMA ReplicasLostFoundInv == ASSUME FoundInv, NEW p \in podsLeft, ReplicasLost(p) PROVE FoundInv'
<1> DEFINE kind == deployed[p[1]].kind
<1>1. Visit(p) /\ met' = met \cup {p} /\ UNCHANGED Known
  BY DEF ReplicasLost, Known
<1>2. failed' = (failed \/ HasReplicas(kind))
  BY DEF ReplicasLost
<1>3. kind # ""
  <2>1. p[1] \in Workloads
    BY DEF FoundInv, Typed, PodsOf
  <2>2. deployed[p[1]] \in Specs
    BY <2>1 DEF FoundInv, Typed
  <2>3. QED
    BY <2>2, SpecsAssumption
<1>4. failed' \/ kind = "Pod"
  BY <1>2, <1>3, OnlyPodsHaveNoReplicas
<1>5. failed' \in BOOLEAN /\ (failed => failed')
  BY <1>2
<1>6. QED
  BY <1>1, <1>4, <1>5, VisitFoundInv

LEMMA RecordWorkloadFoundInv ==
  ASSUME FoundInv, NEW p \in podsLeft, NEW converts \in BOOLEAN, RecordWorkload(p, converts)
  PROVE  FoundInv'
<1>1. Visit(p) /\ UNCHANGED met
  BY DEF RecordWorkload
<1>2. Known' = Known \cup {p[1]}
  BY DEF RecordWorkload, Known
<1>3. failed' \in BOOLEAN /\ (failed => failed')
  BY DEF RecordWorkload
<1>4. QED
  BY <1>1, <1>2, <1>3, VisitFoundInv

LEMMA WorkloadsKnownFoundInv == ASSUME FoundInv, WorkloadsKnown PROVE FoundInv'
<1>1. /\ pc = "init" /\ podsLeft = {} /\ pc' = "fetch"
      /\ UNCHANGED <<deployed, usage, podsLeft, met, Known, containersData, recommended, failed>>
  BY DEF WorkloadsKnown, cluster, discovery, Known
<1>2. \A w : PodsOf(w)' = PodsOf(w)
  BY <1>1 DEF PodsOf
<1>3. QED
  BY <1>1, <1>2 DEF FoundInv, Typed, PodsAccounted, KnownByPods, DataCovers, FollowsData, Finding

----------------------------------------------------------------------------
(* What is fetched for a container covers what it has used, although it is *)
(* selected by name.                                                       *)
LEMMA FetchFoundInv ==
  ASSUME FoundInv, NEW used \in [Workloads -> [Containers -> Usages]], NEW lost,
         fetchContainerData(used, lost)
  PROVE  FoundInv'
<1>1. /\ pc = "fetch" /\ pc' = "recommend" /\ usage' = used /\ met' = {}
      /\ failed' = (failed \/ lost # {})
      /\ UNCHANGED <<deployed, podsLeft, Known, recommended>>
  BY DEF fetchContainerData, Known
<1>2. \A w : PodsOf(w)' = PodsOf(w)
  BY <1>1 DEF PodsOf
<1>3. Typed'
  BY <1>1, <1>2 DEF FoundInv, Typed
<1>4. DataCovers'
  <2> SUFFICES ASSUME NEW w \in Known, NEW c \in Containers
               PROVE  /\ containersData'[w][c] \in Statistics \cup {NoData}
                      /\ containersData'[w][c] # NoData =>
                           \E u \in Usages \ {NoData} : HasPercentileOf(containersData'[w][c], u)
                      /\ Covers(w, containersData[w][c], usage[w][c])'
    BY <1>1 DEF DataCovers, HasPercentileOf
  <2> DEFINE d == containersData'[w][c]
             series == {used[x][c] : x \in SelectedWorkloads(w)} \ {NoData}
             stats == IF <<w, c>> \in lost THEN {} ELSE series
  <2>1. d \in MergeTimeSeriesList(stats)
    BY DEF fetchContainerData
  <2>2. /\ IsFiniteSet(stats) /\ stats \in SUBSET Statistics
        /\ stats \subseteq Usages \ {NoData}
    <3>1. SelectedWorkloads(w) \subseteq Workloads
      BY DEF SelectedWorkloads
    <3>2. IsFiniteSet({used[x][c] : x \in SelectedWorkloads(w)})
      <4> DEFINE selected == SelectedWorkloads(w)
                 used_c == [x \in selected |-> used[x][c]]
      <4>1. IsFiniteSet(selected)
        BY <3>1, FS_Subset, WorkloadsAssumption
      <4>2. IsFiniteSet({used_c[x] : x \in selected})
        BY <4>1, ValuesFinite
      <4>3. QED
        BY <4>2
    <3>3. IsFiniteSet(series) /\ IsFiniteSet({})
      BY <3>2, FS_Subset, FS_EmptySet
    <3>4. series \subseteq Statistics /\ series \subseteq Usages \ {NoData}
      BY <3>1, UsagesAssumption
    <3>5. QED
      BY <3>3, <3>4
  <2>3. \/ stats = {} /\ d = NoData
        \/ /\ d \in Statistics
           /\ \E s \in stats : HasPercentileOf(d, s)
           /\ \A r \in Resources : /\ \A t \in stats : d[r].max >= t[r].max
                                   /\ \E t \in stats : d[r].max = t[r].max
    <3> HIDE DEF stats, d
    <3>1. QED
      BY <2>1, <2>2, Merged
  <2>4. w \in Workloads
    BY DEF FoundInv, Typed
  <2>5. ASSUME used[w][c] # NoData, <<w, c>> \notin lost
        PROVE  used[w][c] \in stats
    <3>1. w \in SelectedWorkloads(w)
      BY <2>4, SelectsItself DEF FoundInv, KnownByPods, SelectedWorkloads
    <3>2. QED
      BY <2>5, <3>1
  <2>6. ASSUME Alone(w) PROVE stats \subseteq {used[w][c]}
    <3>1. \A x \in SelectedWorkloads(w) : x = w
      <4> SUFFICES ASSUME NEW x \in SelectedWorkloads(w) PROVE x = w
        OBVIOUS
      <4>1. x \in Workloads /\ Selected(Name[w], PodName(Name[x], deployed[x].kind))
        BY DEF SelectedWorkloads
      <4>2. deployed[x] \in Specs
        BY <4>1 DEF FoundInv, Typed
      <4>3. IsPrefix(Name[w], Name[x])
        BY <2>4, <4>1, <4>2, NamesAssumption
      <4>4. QED
        BY <2>6, <4>1, <4>3 DEF Alone
    <3>2. QED
      BY <3>1
  <2>7. d # NoData => \E u \in Usages \ {NoData} : HasPercentileOf(d, u)
    BY <2>2, <2>3
  <2>8. CASE used[w][c] = NoData
    BY <1>1, <2>3, <2>7, <2>8 DEF Covers
  <2>9. CASE used[w][c] # NoData
    <3>1. failed' \/ d # NoData
      BY <1>1, <2>3, <2>5, <2>9, UsagesAssumption
    <3>2. ASSUME d # NoData, NEW r \in Resources
          PROVE  /\ d[r].max >= used[w][c][r].max
                 /\ Alone(w) => d[r].max = used[w][c][r].max
      <4>1. <<w, c>> \notin lost
        BY <2>3, <3>2
      <4>2. QED
        BY <2>3, <2>5, <2>6, <2>9, <3>2, <4>1
    <3>3. QED
      BY <1>1, <2>3, <2>7, <3>1, <3>2 DEF Covers, Alone
  <2>10. QED
    BY <2>8, <2>9
<1>5. KnownByPods'
  BY <1>1, <1>2 DEF FoundInv, KnownByPods
<1>6. PodsAccounted' /\ FollowsData'
  BY <1>1 DEF FoundInv, PodsAccounted, FollowsData, Finding
<1>7. QED
  BY <1>3, <1>4, <1>5, <1>6 DEF FoundInv

LEMMA DataCoversKept ==
  ASSUME DataCovers, ~Finding, UNCHANGED <<usage, Known, containersData>>, failed => failed'
  PROVE  DataCovers'
<1> SUFFICES ASSUME NEW w \in Known, NEW c \in Containers
             PROVE  /\ containersData[w][c] \in Statistics \cup {NoData}
                    /\ containersData[w][c] # NoData =>
                         \E u \in Usages \ {NoData} : HasPercentileOf(containersData[w][c], u)
                    /\ Covers(w, containersData[w][c], usage[w][c])'
  BY DEF DataCovers, HasPercentileOf
<1>1. Covers(w, containersData[w][c], usage[w][c])
  BY DEF DataCovers
<1>2. Covers(w, containersData[w][c], usage[w][c])'
  BY <1>1 DEF Covers, Alone
<1>3. QED
  BY <1>2 DEF DataCovers

LEMMA RecommendFoundInv ==
  ASSUME FoundInv, NEW unconverted, GetAllWorkloadRecommendedData(unconverted)
  PROVE  FoundInv'
<1>1. /\ pc = "recommend" /\ pc' = "original"
      /\ failed' = (failed \/ unconverted # {})
      /\ UNCHANGED <<deployed, usage, podsLeft, met, Known, containersData>>
  BY DEF GetAllWorkloadRecommendedData, cluster, discovery, Known
<1>2. \A w : PodsOf(w)' = PodsOf(w)
  BY <1>1 DEF PodsOf
<1>3. Typed' /\ PodsAccounted' /\ KnownByPods'
  BY <1>1, <1>2 DEF FoundInv, Typed, PodsAccounted, KnownByPods, Finding
<1>4. DataCovers'
  BY <1>1, DataCoversKept DEF FoundInv, Finding
<1>5. FollowsData'
  <2>1. DOMAIN recommended' = Known
    BY DEF GetAllWorkloadRecommendedData
  <2>2. ASSUME NEW w \in Known, NEW v \in Variants, NEW c \in Containers
        PROVE  recommended'[w][v].containers[c]
                 = RecommendedContainer(v, deployed[w].containers[c], containersData[w][c])
    <3> DEFINE containers == [x \in Containers |->
                 RecommendedContainer(v, deployed[w].containers[x], containersData[w][x])]
    <3>1. recommended'[w][v] =
            [containers |-> containers,
             spec |-> Pod2ServerlessSpec(deployed[w], containers, <<w, v>> \notin unconverted)]
      BY <2>2 DEF GetAllWorkloadRecommendedData
    <3>2. recommended'[w][v].containers = containers
      BY <3>1
    <3>3. QED
      BY <3>2
  <2>3. \A v, c, u : RecommendedContainer(v, c, u)' = RecommendedContainer(v, c, u)
    BY DEF RecommendedContainer
  <2>4. QED
    BY <1>1, <2>1, <2>2 DEF FollowsData, Finding, RecommendedContainer
<1>6. QED
  BY <1>3, <1>4, <1>5 DEF FoundInv

(* The reports read what was found and recommended, and change nothing of  *)
(* it.                                                                     *)
LEMMA ReportFoundInv ==
  ASSUME FoundInv, ~Finding,
         UNCHANGED <<cluster, discovery, workloadsSpecCache, containersData, recommended>>,
         pc' \in {"serverless", "resources", "recommended", "done", "exited"},
         failed' \in BOOLEAN, failed => failed'
  PROVE  FoundInv'
<1>1. UNCHANGED <<deployed, usage, podsLeft, met, Known>>
  BY DEF cluster, discovery, Known
<1>2. \A w : PodsOf(w)' = PodsOf(w)
  BY <1>1 DEF PodsOf
<1>3. Typed' /\ PodsAccounted' /\ KnownByPods'
  BY <1>1, <1>2 DEF FoundInv, Typed, PodsAccounted, KnownByPods, Finding
<1>4. DataCovers'
  BY <1>1, DataCoversKept DEF FoundInv, Finding
<1>5. FollowsData'
  BY <1>1 DEF FoundInv, FollowsData, Finding, RecommendedContainer
<1>6. QED
  BY <1>3, <1>4, <1>5 DEF FoundInv

LEMMA NextFoundInv == FoundInv /\ [DoAnalysis]_vars => FoundInv'
<1> SUFFICES ASSUME FoundInv, [DoAnalysis]_vars PROVE FoundInv'
  OBVIOUS
<1>1. CASE initWorkloadsSpec
  BY <1>1, OwnerLostFoundInv, SkipPodFoundInv, ReplicasLostFoundInv, RecordWorkloadFoundInv,
     WorkloadsKnownFoundInv DEF initWorkloadsSpec
<1>2. ASSUME NEW used \in [Workloads -> [Containers -> Usages]], NEW lost,
             fetchContainerData(used, lost)
      PROVE  FoundInv'
  BY <1>2, FetchFoundInv
<1>3. ASSUME NEW unconverted, GetAllWorkloadRecommendedData(unconverted)
      PROVE  FoundInv'
  BY <1>3, RecommendFoundInv
<1>4. ASSUME NEW unconverted, NEW failing, ReportOriginalCostSummary(unconverted, failing)
      PROVE  FoundInv'
  BY <1>4, ReportFoundInv DEF ReportOriginalCostSummary, Finding
<1>5. ASSUME NEW failing, ReportRawServerlessCostSummary(failing)
      PROVE  FoundInv'
  BY <1>5, ReportFoundInv DEF ReportRawServerlessCostSummary, Finding
<1>6. CASE ReportRecommendedResourceSummary
  BY <1>6, ReportFoundInv DEF ReportRecommendedResourceSummary, Finding, FoundInv, Typed
<1>7. ASSUME NEW failing, ReportRecommendedCostSummary(failing)
      PROVE  FoundInv'
  BY <1>7, ReportFoundInv DEF ReportRecommendedCostSummary, Finding
<1>8. CASE FileFails
  BY <1>8, ReportFoundInv DEF FileFails, Finding, FoundInv, Typed
<1>9. CASE UNCHANGED vars
  <2>1. UNCHANGED <<deployed, usage, podsLeft, met, Known, containersData, recommended,
                    failed, pc>>
    BY <1>9 DEF vars, cluster, discovery, Known
  <2>2. \A w : PodsOf(w)' = PodsOf(w)
    BY <2>1 DEF PodsOf
  <2>3. QED
    BY <2>1, <2>2 DEF FoundInv, Typed, PodsAccounted, KnownByPods, DataCovers, Covers, Alone,
                      FollowsData, Finding, RecommendedContainer
<1>10. QED
  BY <1>1, <1>2, <1>3, <1>4, <1>5, <1>6, <1>7, <1>8, <1>9 DEF DoAnalysis

----------------------------------------------------------------------------
(* What the pods of any workload request are quantities.                   *)
RequestsGiven(containers) ==
    \A c \in Containers : \A r \in DOMAIN containers[c].requests : containers[c].requests[r] \in Nat
Request(containers, c, r) ==
    IF r \in DOMAIN containers[c].requests THEN containers[c].requests[r] ELSE 0
LEMMA RequestsSummed ==
  ASSUME NEW containers, RequestsGiven(containers)
  PROVE  PodRequests(containers) \in Quantities
<1>1. ASSUME NEW r \in Resources
      PROVE  SumFunctionOnSet([c \in Containers |-> Request(containers, c, r)], Containers) \in Nat
  <2> DEFINE req == [c \in Containers |-> Request(containers, c, r)]
  <2>1. \A c \in Containers : req[c] \in Nat
    BY DEF RequestsGiven, Request
  <2> HIDE DEF req
  <2>2. SumFunctionOnSet(req, Containers) \in Nat
    BY <2>1, WorkloadsAssumption, SumType
  <2>3. QED
    BY <2>2 DEF req
<1>2. QED
  BY <1>1 DEF PodRequests, Quantities, Request

LEMMA RoundingGrows ==
  ASSUME NEW m \in Nat, NEW n \in Nat, m <= n
  PROVE  RoundedUp(m) \in Nat /\ RoundedUp(n) \in Nat /\ RoundedUp(m) <= RoundedUp(n)
<1> DEFINE a == m + EKSUnit - 1
           b == n + EKSUnit - 1
<1>1. EKSUnit \in Nat \ {0}
  BY PricesAssumption
<1>2. a \in Nat /\ b \in Nat /\ a <= b
  BY <1>1
<1> HIDE DEF a, b
<1>3. a \div EKSUnit \in Nat /\ (a \div EKSUnit) * EKSUnit <= a
  BY <1>1, <1>2, Quotient
<1>4. b \div EKSUnit \in Nat /\ \A k \in Nat : k * EKSUnit <= b => k <= b \div EKSUnit
  BY <1>1, <1>2, Quotient
<1>5. a \div EKSUnit <= b \div EKSUnit
  <2>1. (a \div EKSUnit) * EKSUnit <= b
    BY <1>1, <1>2, <1>3
  <2>2. QED
    BY <1>3, <1>4, <2>1
<1>6. ASSUME NEW p \in Nat, NEW q \in Nat, p <= q
      PROVE  p * EKSUnit \in Nat /\ q * EKSUnit \in Nat /\ p * EKSUnit <= q * EKSUnit
  BY <1>1, <1>6
<1>7. RoundedUp(m) = (a \div EKSUnit) * EKSUnit /\ RoundedUp(n) = (b \div EKSUnit) * EKSUnit
  BY DEF RoundedUp, a, b
<1>8. QED
  BY <1>3, <1>4, <1>5, <1>6, <1>7

LEMMA SpecsAreQuantities ==
  ASSUME NEW containers, RequestsGiven(containers), NEW w, NEW answers
  PROVE  /\ Pod2Spec(w, containers, answers) \in Quantities
         /\ Pod2ServerlessSpec(w, containers, answers) \in Quantities
<1>1. PodRequests(containers) \in Quantities
  BY RequestsSummed
<1>2. \A a : Pod2EKSSpecConverter(containers, a) \in Quantities
  BY <1>1, RoundingGrows DEF Pod2EKSSpecConverter, Quantities
<1>3. BestEffortPod \in Quantities
  BY PricesAssumption
<1>4. QED
  BY <1>1, <1>2, <1>3 DEF Pod2Spec, Pod2ServerlessSpec

LEMMA DeployedRequests ==
  ASSUME FoundInv, NEW w \in Workloads
  PROVE  /\ deployed[w] \in Specs /\ deployed[w].goodsNum \in Nat
         /\ RequestsGiven(deployed[w].containers)
<1>1. deployed[w] \in Specs
  BY DEF FoundInv, Typed
<1>2. QED
  BY <1>1, SpecsAssumption DEF RequestsGiven, Valid

LEMMA QuantityType ==
  ASSUME NEW v, NEW u \in [percentile : Nat, max : Nat]
  PROVE  Quantity(v, u, <<1, 1>>) \in Nat
<1> DEFINE b == Base(v, u)
           f1 == Factor(v)[1]
           f2 == Factor(v)[2]
<1>1. b \in Nat /\ f1 \in Nat /\ f2 \in Nat \ {0}
  BY MarginAssumption DEF Base, Factor
<1>2. Quantity(v, u, <<1, 1>>) = (b * f1 * 1) \div (f2 * 1)
  BY DEF Quantity
<1> HIDE DEF b, f1, f2
<1>3. b * f1 * 1 \in Nat /\ f2 * 1 \in Nat \ {0}
  BY <1>1
<1>4. QED
  BY <1>2, <1>3, Quotient

LEMMA RecommendedRequests ==
  ASSUME FoundInv, ~Finding, NEW w \in Known, NEW v
  PROVE  RequestsGiven([c \in Containers |->
            RecommendedContainer(v, deployed[w].containers[c], containersData[w][c])])
<1>1. w \in Workloads
  BY DEF FoundInv, Typed
<1>2. ASSUME NEW c \in Containers,
             NEW r \in DOMAIN RecommendedContainer(v, deployed[w].containers[c],
                                                   containersData[w][c]).requests
      PROVE  RecommendedContainer(v, deployed[w].containers[c],
                                  containersData[w][c]).requests[r] \in Nat
  <2>1. containersData[w][c] \in Statistics \cup {NoData}
    BY DEF FoundInv, DataCovers
  <2>2. CASE containersData[w][c] = NoData
    <3>1. RequestsGiven(deployed[w].containers)
      BY <1>1, DeployedRequests
    <3>2. QED
      BY <2>2, <3>1 DEF RecommendedContainer, RequestsGiven
  <2>3. CASE containersData[w][c] # NoData
    <3>1. RecommendedContainer(v, deployed[w].containers[c], containersData[w][c]).requests
            = [x \in Resources |-> Quantity(v, containersData[w][c][x], <<1, 1>>)]
      BY <2>3 DEF RecommendedContainer, Recommend
    <3>2. r \in Resources
      BY <1>2, <3>1
    <3>3. containersData[w][c][r] \in [percentile : Nat, max : Nat]
      BY <2>1, <2>3, <3>2 DEF Statistics
    <3>4. QED
      BY <3>1, <3>2, <3>3, QuantityType
  <2>4. QED
    BY <2>2, <2>3
<1>3. QED
  BY <1>2 DEF RequestsGiven

(* What the costers add up are numbers.                                    *)
LEMMA TimespanType == timespanInHour \in Nat
BY PricesAssumption, Quotient DEF timespanInHour

LEMMA PodPriceType ==
  ASSUME NEW spec \in Quantities, NEW n \in Nat
  PROVE  ServerlessPodPrice(spec, n) \in Nat
<1>1. spec["cpu"] \in Nat /\ spec["mem"] \in Nat
  BY DEF Quantities, Resources
<1>2. QED
  BY <1>1 DEF ServerlessPodPrice

LEMMA MovableFinite ==
  ASSUME FoundInv
  PROVE  /\ Movable \subseteq Known /\ Movable \subseteq Workloads
         /\ IsFiniteSet(Movable)
<1>1. Movable \subseteq Known /\ Movable \subseteq Workloads
  BY DEF FoundInv, Typed, Movable
<1>2. QED
  BY <1>1, WorkloadsAssumption, FS_Subset

LEMMA TotalType ==
  ASSUME FoundInv, NEW cost, \A w \in Movable : cost[w] \in Nat
  PROVE  TotalCost(cost) \in Nat
BY MovableFinite, SumType DEF TotalCost

LEMMA PlatformCostType == ASSUME NEW n \in Nat PROVE PlatformCost(n) \in Nat
<1> DEFINE fitting == {i \in DOMAIN ClusterPriceModel : n <= ClusterPriceModel[i].Nodes}
           i == IF fitting = {} THEN Len(ClusterPriceModel) ELSE Min(fitting)
<1>1. /\ DOMAIN ClusterPriceModel = 1..Len(ClusterPriceModel)
      /\ Len(ClusterPriceModel) \in Nat \ {0}
      /\ \A k \in DOMAIN ClusterPriceModel : ClusterPriceModel[k] \in [Nodes : Nat, PriceHourly : Nat]
  <2>1. ClusterPriceModel \in Seq([Nodes : Nat, PriceHourly : Nat]) /\ ClusterPriceModel # <<>>
    BY PricesAssumption
  <2> DEFINE E == [Nodes : Nat, PriceHourly : Nat]
  <2>2. ClusterPriceModel \in Seq(E)
    BY <2>1
  <2> HIDE DEF E
  <2>3. /\ DOMAIN ClusterPriceModel = 1..Len(ClusterPriceModel)
        /\ Len(ClusterPriceModel) \in Nat
        /\ \A k \in DOMAIN ClusterPriceModel : ClusterPriceModel[k] \in E
    BY <2>2
  <2>4. Len(ClusterPriceModel) # 0
    BY <2>1, <2>2
  <2>5. QED
    BY <2>3, <2>4 DEF E
<1>2. i \in DOMAIN ClusterPriceModel
  <2>1. CASE fitting = {}
    BY <1>1, <2>1
  <2>2. CASE fitting # {}
    <3>1. fitting \in SUBSET Nat
      BY <1>1
    <3>2. \E k \in fitting : \A m \in fitting : k <= m
      BY <2>2, <3>1, Least
    <3>3. Min(fitting) \in fitting
      BY <3>2 DEF Min
    <3>4. QED
      BY <2>2, <3>3
  <2>3. QED
    BY <2>1, <2>2
<1>3. PlatformCost(n) = ClusterPriceModel[i].PriceHourly
  BY DEF PlatformCost
<1> HIDE DEF i
<1>4. QED
  BY <1>1, <1>2, <1>3

LEMMA PodsCounted == ASSUME FoundInv, NEW w \in Workloads PROVE Pods(w) = deployed[w].goodsNum
<1> DEFINE n == deployed[w].goodsNum
           f == [i \in 1..n |-> <<w, i>>]
<1>1. n \in Nat
  BY DeployedRequests
<1>2. IsFiniteSet(1..n) /\ Cardinality(1..n) = n
  <2> HIDE DEF n
  <2>1. IsFiniteSet(1..n) /\ Cardinality(1..n) = IF 1 > n THEN 0 ELSE n - 1 + 1
    BY <1>1, FS_Interval
  <2>2. QED
    BY <1>1, <2>1
<1>3. PodsOf(w) = {<<w, i>> : i \in 1..n}
  BY DEF PodsOf
<1>4. f \in Injection(1..n, PodsOf(w)) /\ f \in Surjection(1..n, PodsOf(w))
  BY <1>3 DEF Injection, Surjection, IsInjective
<1>5. Cardinality(PodsOf(w)) = n
  <2> HIDE DEF n, f
  <2>1. QED
    BY <1>2, <1>4, FS_Surjection
<1>6. QED
  BY <1>5 DEF Pods

LEMMA OriginalCostType ==
  ASSUME FoundInv, NEW unconverted, NEW failing
  PROVE  OriginalCost(unconverted, failing)
            \in [{"ServerfulCost", "ServerlessCost", "PlatformCost"} -> Nat]
<1> DEFINE perNode == [n \in DOMAIN NodePrices |-> NodePrices[n] * timespanInHour]
           perPod == [w \in Workloads |-> Pods(w) * timespanInHour *
              ServerlessPodPrice(Pod2Spec(deployed[w], deployed[w].containers,
                                          w \notin unconverted), 1)]
           nodes == DOMAIN NodePrices \ failing
           virtual == {w \in Workloads \ failing : deployed[w].onVirtualNode}
<1>1. SumFunctionOnSet(perNode, nodes) \in Nat
  <2>1. nodes \subseteq DOMAIN NodePrices /\ IsFiniteSet(nodes)
    BY PricesAssumption, FS_Subset
  <2>2. \A n \in nodes : perNode[n] \in Nat
    BY <2>1, PricesAssumption, TimespanType
  <2> HIDE DEF perNode, nodes
  <2>3. QED
    BY <2>1, <2>2, SumType
<1>2. SumFunctionOnSet(perPod, virtual) \in Nat
  <2>1. virtual \subseteq Workloads /\ IsFiniteSet(virtual)
    BY WorkloadsAssumption, FS_Subset
  <2>2. ASSUME NEW w \in Workloads PROVE perPod[w] \in Nat
    <3> DEFINE price == ServerlessPodPrice(Pod2Spec(deployed[w], deployed[w].containers,
                                                    w \notin unconverted), 1)
    <3>1. Pod2Spec(deployed[w], deployed[w].containers, w \notin unconverted) \in Quantities
      BY DeployedRequests, SpecsAreQuantities
    <3>2. price \in Nat
      BY <3>1, PodPriceType
    <3>3. Pods(w) \in Nat
      BY PodsCounted, DeployedRequests
    <3>4. perPod[w] = Pods(w) * timespanInHour * price
      OBVIOUS
    <3> HIDE DEF price, perPod
    <3>5. QED
      BY <3>2, <3>3, <3>4, TimespanType
  <2> HIDE DEF perPod, virtual
  <2>3. QED
    BY <2>1, <2>2, SumType
<1>3. PlatformCost(Cardinality(DOMAIN NodePrices)) \in Nat
  BY PricesAssumption, FS_CardinalityType, PlatformCostType
<1>4. OriginalCost(unconverted, failing)
        = [ServerfulCost |-> SumFunctionOnSet(perNode, nodes),
           ServerlessCost |-> SumFunctionOnSet(perPod, virtual),
           PlatformCost |-> PlatformCost(Cardinality(DOMAIN NodePrices))]
  BY DEF OriginalCost
<1> HIDE DEF perNode, perPod, nodes, virtual
<1>5. QED
  BY <1>1, <1>2, <1>3, <1>4

LEMMA RawCostType ==
  ASSUME FoundInv, CostInv, NEW failing
  PROVE  RawServerlessCost(failing) \in Nat
<1> DEFINE cost == [w \in Movable |->
       IF w \in failing THEN 0
       ELSE ServerlessPodPrice(workloadsSpecCache[w], deployed[w].goodsNum) * timespanInHour]
<1>1. ASSUME NEW w \in Movable PROVE cost[w] \in Nat
  <2>1. w \in Known /\ w \in Workloads
    BY MovableFinite
  <2>2. workloadsSpecCache[w] \in Quantities
    BY <2>1 DEF CostInv, CostsAreNumbers
  <2>3. ServerlessPodPrice(workloadsSpecCache[w], deployed[w].goodsNum) \in Nat
    BY <2>1, <2>2, DeployedRequests, PodPriceType
  <2>4. QED
    BY <2>3, TimespanType
<1>2. RawServerlessCost(failing) = TotalCost(cost)
  BY DEF RawServerlessCost
<1> HIDE DEF cost
<1>3. QED
  BY <1>1, <1>2, TotalType

LEMMA RecommendedCostType ==
  ASSUME FoundInv, CostInv, DOMAIN recommended = Known, NEW failing
  PROVE  RecommendedCost(failing) \in [Variants -> Nat]
<1>1. ASSUME NEW v \in Variants
      PROVE  TotalCost([w \in Movable |->
                IF <<w, v>> \in failing THEN 0
                ELSE workloadCosting(recommended[w][v].spec, deployed[w].goodsNum)
                       * timespanInHour]) \in Nat
  <2> DEFINE cost == [w \in Movable |->
                IF <<w, v>> \in failing THEN 0
                ELSE workloadCosting(recommended[w][v].spec, deployed[w].goodsNum)
                       * timespanInHour]
  <2>1. ASSUME NEW w \in Movable PROVE cost[w] \in Nat
    <3>1. w \in Known /\ w \in Workloads
      BY MovableFinite
    <3>2. recommended[w][v].spec \in Quantities
      BY <3>1 DEF CostInv, CostsAreNumbers
    <3>3. ServerlessPodPrice(recommended[w][v].spec, deployed[w].goodsNum) \in Nat
      BY <3>1, <3>2, DeployedRequests, PodPriceType
    <3>4. QED
      BY <3>3, TimespanType DEF workloadCosting
  <2> HIDE DEF cost
  <2>2. TotalCost(cost) \in Nat
    BY <2>1, TotalType
  <2>3. QED
    BY <2>2 DEF cost
<1>2. QED
  BY <1>1 DEF RecommendedCost

LEMMA ResourceTotalType ==
  ASSUME FoundInv, CostInv, DOMAIN recommended = Known
  PROVE  ServerlessWorkloadsResourceTotal \in Quantities
<1>1. ASSUME NEW r \in Resources
      PROVE  TotalCost([w \in Movable |-> recommended[w]["Recommended"].spec[r]]) \in Nat
  <2> DEFINE cost == [w \in Movable |-> recommended[w]["Recommended"].spec[r]]
  <2>1. ASSUME NEW w \in Movable PROVE cost[w] \in Nat
    <3>1. w \in Known
      BY MovableFinite
    <3>2. recommended[w]["Recommended"].spec \in Quantities
      BY <3>1 DEF CostInv, CostsAreNumbers, Variants
    <3>3. QED
      BY <3>2 DEF Quantities
  <2> HIDE DEF cost
  <2>2. TotalCost(cost) \in Nat
    BY <2>1, TotalType
  <2>3. QED
    BY <2>2 DEF cost
<1>2. QED
  BY <1>1 DEF ServerlessWorkloadsResourceTotal, Quantities

----------------------------------------------------------------------------
LEMMA InitCostInv == Init => CostInv
<1> SUFFICES ASSUME Init PROVE CostInv
  OBVIOUS
<1>1. DOMAIN None = {}
  BY DEF None
<1>2. CostsAreNumbers
  BY <1>1 DEF Init, CostsAreNumbers, Known
<1>3. SpecsFollow /\ CostsFollow /\ OnlyEmptyUnknown
  BY <1>1 DEF Init, SpecsFollow, CostsFollow, OnlyEmptyUnknown, Known
<1>4. QED
  BY <1>2, <1>3 DEF Init, CostInv, Finding

(* What the reports would say depends on what was found and recommended    *)
(* alone.                                                                  *)
LEMMA CostsUnchanged ==
  ASSUME UNCHANGED <<deployed, workloadsSpecCache, recommended>>
  PROVE  /\ UNCHANGED <<Known, Movable>>
         /\ \A f : OriginalCost({}, f)' = OriginalCost({}, f)
         /\ \A f : RawServerlessCost(f)' = RawServerlessCost(f)
         /\ \A f : RecommendedCost(f)' = RecommendedCost(f)
<1>1. UNCHANGED Known
  BY DEF Known
<1>2. UNCHANGED Movable
  BY <1>1 DEF Movable
<1>3. \A w : Pods(w)' = Pods(w)
  BY DEF Pods, PodsOf
<1>4. \A f : OriginalCost({}, f)' = OriginalCost({}, f)
  BY <1>3 DEF OriginalCost
<1>5. \A f : RawServerlessCost(f)' = RawServerlessCost(f)
  BY <1>2 DEF RawServerlessCost, TotalCost
<1>6. \A f : RecommendedCost(f)' = RecommendedCost(f)
  BY <1>2 DEF RecommendedCost, TotalCost
<1>7. QED
  BY <1>1, <1>2, <1>4, <1>5, <1>6

LEMMA SpecsUnchanged ==
  ASSUME CostInv, UNCHANGED <<deployed, workloadsSpecCache, recommended>>
  PROVE  /\ \A w \in Known' : workloadsSpecCache'[w] \in Quantities
         /\ \A w \in DOMAIN recommended', v \in Variants : recommended'[w][v].spec \in Quantities
         /\ ~failed => SpecsFollow'
<1>1. UNCHANGED Known
  BY DEF Known
<1>2. ~failed => SpecsFollow'
  BY <1>1 DEF CostInv, SpecsFollow
<1>3. QED
  BY <1>1, <1>2 DEF CostInv, CostsAreNumbers

(* As long as workloads are found nothing is reported.                     *)
LEMMA FindingCostInv ==
  ASSUME FoundInv, CostInv, Finding, pc' \in {"init", "fetch", "recommend"},
         UNCHANGED <<deployed, recommended, reports>>, failed => failed',
         Known \subseteq Known',
         \A w \in Known' :
            \/ w \in Known /\ workloadsSpecCache'[w] = workloadsSpecCache[w]
            \/ /\ workloadsSpecCache'[w] \in Quantities
               /\ failed' \/ workloadsSpecCache'[w]
                               = Pod2Spec(deployed[w], deployed[w].containers, TRUE),
         ~failed' => OnlyEmptyUnknown'
  PROVE  CostInv'
<1>1. DOMAIN recommended' = {}
  BY DEF FoundInv, FollowsData
<1>2. UNCHANGED <<originalCost, serverlessCost, recommendedResource, recommendedCost>>
  BY DEF reports
<1>3. CostsAreNumbers'
  BY <1>1, <1>2 DEF CostInv, CostsAreNumbers
<1>4. ~failed' => SpecsFollow'
  BY <1>1 DEF CostInv, SpecsFollow
<1>5. CostsFollow'
  BY DEF CostsFollow
<1>6. Finding' \/ pc' = "recommend"
  BY DEF Finding
<1>7. QED
  BY <1>3, <1>4, <1>5, <1>6 DEF CostInv

LEMMA InitWorkloadsCostInv == ASSUME FoundInv, CostInv, initWorkloadsSpec PROVE CostInv'
<1>1. ASSUME NEW p, Visit(p)
      PROVE  /\ pc = "init" /\ pc' = "init" /\ p[1] \in Workloads
             /\ UNCHANGED <<deployed, recommended, reports>>
             /\ Finding /\ OnlyEmptyUnknown'
  <2>1. p \in podsLeft /\ pc = "init" /\ pc' = "init"
    BY <1>1 DEF Visit
  <2>2. p[1] \in Workloads
    BY <2>1 DEF FoundInv, Typed, PodsOf
  <2>3. UNCHANGED <<deployed, recommended, reports>>
    BY <1>1 DEF Visit, cluster
  <2>4. Finding /\ OnlyEmptyUnknown'
    BY <2>1 DEF Finding, OnlyEmptyUnknown
  <2>5. QED
    BY <2>1, <2>2, <2>3, <2>4
<1>2. ASSUME NEW p \in podsLeft, OwnerLost(p) \/ SkipPod(p) \/ ReplicasLost(p) PROVE CostInv'
  <2>1. Visit(p) /\ UNCHANGED workloadsSpecCache /\ (failed => failed')
    <3>1. CASE OwnerLost(p)
      BY <3>1 DEF OwnerLost
    <3>2. CASE SkipPod(p)
      BY <3>2 DEF SkipPod
    <3>3. CASE ReplicasLost(p)
      <4>1. Visit(p) /\ UNCHANGED workloadsSpecCache
        BY <3>3 DEF ReplicasLost
      <4>2. failed' = (failed \/ HasReplicas(deployed[p[1]].kind))
        BY <3>3 DEF ReplicasLost
      <4>3. QED
        BY <4>1, <4>2
    <3>4. QED
      BY <1>2, <3>1, <3>2, <3>3
  <2>2. UNCHANGED Known
    BY <2>1 DEF Known
  <2>3. QED
    BY <1>1, <2>1, <2>2, FindingCostInv
<1>3. ASSUME NEW p \in podsLeft, NEW converts \in BOOLEAN, RecordWorkload(p, converts)
      PROVE  CostInv'
  <2> DEFINE w == p[1]
             podSpec == Pod2Spec(deployed[w], deployed[w].containers, converts)
  <2>1. /\ Visit(p) /\ w \notin Known
        /\ failed' = (failed \/ ~converts)
        /\ workloadsSpecCache' = [x \in Known \cup {w} |->
                                    IF x = w THEN podSpec ELSE workloadsSpecCache[x]]
    BY <1>3 DEF RecordWorkload
  <2>2. podSpec \in Quantities
    BY <1>1, <2>1, DeployedRequests, SpecsAreQuantities
  <2>3. Known' = Known \cup {w}
    BY <2>1 DEF Known
  <2>4. ~failed' => podSpec = Pod2Spec(deployed[w], deployed[w].containers, TRUE)
    <3>1. ~failed' => converts = TRUE
      BY <2>1
    <3>2. QED
      BY <3>1
  <2> HIDE DEF podSpec
  <2>5. \A x \in Known' :
            \/ x \in Known /\ workloadsSpecCache'[x] = workloadsSpecCache[x]
            \/ /\ workloadsSpecCache'[x] \in Quantities
               /\ failed' \/ workloadsSpecCache'[x]
                               = Pod2Spec(deployed[x], deployed[x].containers, TRUE)
    BY <2>1, <2>2, <2>3, <2>4
  <2>6. (failed => failed') /\ Known \subseteq Known'
    BY <2>1, <2>3
  <2>7. /\ pc' = "init" /\ Finding /\ OnlyEmptyUnknown'
        /\ UNCHANGED <<deployed, recommended, reports>>
    BY <1>1, <2>1
  <2>8. QED
    BY <2>5, <2>6, <2>7, FindingCostInv
<1>4. CASE WorkloadsKnown
  <2>1. /\ pc = "init" /\ podsLeft = {} /\ pc' = "fetch"
        /\ UNCHANGED <<deployed, met, workloadsSpecCache, Known, recommended, reports, failed>>
    BY <1>4 DEF WorkloadsKnown, cluster, discovery, Known
  <2>2. \A w : PodsOf(w)' = PodsOf(w)
    BY <2>1 DEF PodsOf
  <2>3. ASSUME ~failed, NEW w \in Workloads \ Known
        PROVE  deployed[w].kind \in {"Job", "Pod"} \/ PodsOf(w) = {}
    <3>1. deployed[w].kind = "Job" \/ PodsOf(w) \subseteq met
      BY <2>1 DEF FoundInv, PodsAccounted, Finding
    <3>2. PodsOf(w) \cap met # {} => deployed[w].kind = "Pod"
      BY <2>1, <2>3 DEF FoundInv, PodsAccounted, Finding
    <3>3. QED
      BY <3>1, <3>2
  <2>4. ~failed' => OnlyEmptyUnknown'
    BY <2>1, <2>2, <2>3 DEF OnlyEmptyUnknown
  <2>5. QED
    BY <2>1, <2>4, FindingCostInv DEF Finding
<1>5. QED
  BY <1>2, <1>3, <1>4 DEF initWorkloadsSpec

LEMMA FetchCostInv ==
  ASSUME FoundInv, CostInv, NEW used, NEW lost, fetchContainerData(used, lost)
  PROVE  CostInv'
<1>1. /\ pc = "fetch" /\ pc' = "recommend"
      /\ failed' = (failed \/ lost # {})
      /\ UNCHANGED <<deployed, workloadsSpecCache, Known, recommended, reports>>
  BY DEF fetchContainerData, Known
<1>2. \A w : PodsOf(w)' = PodsOf(w)
  BY <1>1 DEF PodsOf
<1>3. ~failed' => OnlyEmptyUnknown'
  BY <1>1, <1>2 DEF CostInv, OnlyEmptyUnknown
<1>4. QED
  BY <1>1, <1>3, FindingCostInv DEF Finding

LEMMA RecommendCostInv ==
  ASSUME FoundInv, CostInv, NEW unconverted, GetAllWorkloadRecommendedData(unconverted)
  PROVE  CostInv'
<1>1. /\ pc = "recommend" /\ pc' = "original" /\ ~Finding
      /\ failed' = (failed \/ unconverted # {})
      /\ UNCHANGED <<deployed, workloadsSpecCache, Known>>
      /\ UNCHANGED <<originalCost, serverlessCost, recommendedResource, recommendedCost>>
  BY DEF GetAllWorkloadRecommendedData, cluster, reports, Known, Finding
<1>2. DOMAIN recommended' = Known
  BY DEF GetAllWorkloadRecommendedData
<1>3. ASSUME NEW w \in Known, NEW v \in Variants
      PROVE  /\ recommended'[w][v].spec \in Quantities
             /\ ~failed' => recommended'[w][v].spec
                  = Pod2ServerlessSpec(deployed[w], recommended'[w][v].containers, TRUE)
  <2> DEFINE containers == [c \in Containers |->
                 RecommendedContainer(v, deployed[w].containers[c], containersData[w][c])]
  <2>1. recommended'[w][v] =
            [containers |-> containers,
             spec |-> Pod2ServerlessSpec(deployed[w], containers, <<w, v>> \notin unconverted)]
    BY <1>3 DEF GetAllWorkloadRecommendedData
  <2>2. RequestsGiven(containers)
    BY <1>1, RecommendedRequests
  <2> HIDE DEF containers
  <2>3. ~failed' => (<<w, v>> \notin unconverted) = TRUE
    BY <1>1
  <2>4. /\ recommended'[w][v].containers = containers
        /\ recommended'[w][v].spec
             = Pod2ServerlessSpec(deployed[w], containers, <<w, v>> \notin unconverted)
    BY <2>1
  <2>5. recommended'[w][v].spec \in Quantities
    BY <2>2, <2>4, SpecsAreQuantities
  <2>6. QED
    BY <2>3, <2>4, <2>5
<1>4. CostsAreNumbers'
  BY <1>1, <1>2, <1>3 DEF CostInv, CostsAreNumbers
<1>5. ~failed' => SpecsFollow'
  BY <1>1, <1>2, <1>3 DEF CostInv, SpecsFollow
<1>6. CostsFollow'
  BY <1>1 DEF CostsFollow
<1>7. \A w : PodsOf(w)' = PodsOf(w)
  BY <1>1 DEF PodsOf
<1>8. ~failed' => OnlyEmptyUnknown'
  BY <1>1, <1>7 DEF CostInv, OnlyEmptyUnknown
<1>9. QED
  BY <1>1, <1>2, <1>4, <1>5, <1>6, <1>8 DEF CostInv

(* A report changes what it reports, and reports what there is.            *)
LEMMA ReportCostInv ==
  ASSUME FoundInv, CostInv, ~Finding, pc # "recommend",
         UNCHANGED <<deployed, workloadsSpecCache, recommended>>,
         pc' \in {"serverless", "resources", "recommended", "done", "exited"},
         failed => failed',
         CostsAreNumbers', ~failed' => CostsFollow'
  PROVE  CostInv'
<1>1. ~failed' => SpecsFollow'
  BY SpecsUnchanged
<1>2. DOMAIN recommended' = Known'
  BY DEF CostInv, Known
<1>3. UNCHANGED Known /\ \A w : PodsOf(w)' = PodsOf(w)
  BY DEF Known, PodsOf
<1>4. ~failed' => OnlyEmptyUnknown'
  BY <1>3 DEF CostInv, OnlyEmptyUnknown, Finding
<1>5. QED
  BY <1>1, <1>2, <1>4 DEF CostInv

LEMMA ReportsCostInv ==
  ASSUME FoundInv, CostInv,
         \/ \E u, f : ReportOriginalCostSummary(u, f)
         \/ \E f : ReportRawServerlessCostSummary(f)
         \/ ReportRecommendedResourceSummary
         \/ \E f : ReportRecommendedCostSummary(f)
         \/ FileFails
  PROVE  CostInv'
<1> DEFINE Reports ==
      /\ UNCHANGED <<deployed, workloadsSpecCache, recommended>>
      /\ ~Finding /\ pc # "recommend" /\ (failed => failed')
      /\ pc' \in {"serverless", "resources", "recommended", "done", "exited"}
<1>1. Reports
  <2>1. ASSUME NEW u, NEW f, ReportOriginalCostSummary(u, f) PROVE Reports
    BY <2>1 DEF ReportOriginalCostSummary, cluster, Finding
  <2>2. ASSUME NEW f, ReportRawServerlessCostSummary(f) PROVE Reports
    BY <2>2 DEF ReportRawServerlessCostSummary, cluster, Finding
  <2>3. CASE ReportRecommendedResourceSummary
    BY <2>3 DEF ReportRecommendedResourceSummary, cluster, Finding
  <2>4. ASSUME NEW f, ReportRecommendedCostSummary(f) PROVE Reports
    BY <2>4 DEF ReportRecommendedCostSummary, cluster, Finding
  <2>5. CASE FileFails
    BY <2>5 DEF FileFails, cluster, Finding
  <2>6. QED
    BY <2>1, <2>2, <2>3, <2>4, <2>5
<1>2. DOMAIN recommended = Known
  BY <1>1 DEF CostInv
<1>3. /\ \A w \in Known' : workloadsSpecCache'[w] \in Quantities
      /\ \A w \in DOMAIN recommended', v \in Variants : recommended'[w][v].spec \in Quantities
  BY <1>1, SpecsUnchanged
<1>4. /\ \A f : OriginalCost({}, f)' = OriginalCost({}, f)
      /\ \A f : RawServerlessCost(f)' = RawServerlessCost(f)
      /\ \A f : RecommendedCost(f)' = RecommendedCost(f)
  BY <1>1, CostsUnchanged
<1>5. ASSUME NEW u, NEW f, ReportOriginalCostSummary(u, f) PROVE CostInv'
  <2>1. /\ originalCost' = OriginalCost(u, f) /\ pc' = "serverless"
        /\ failed' = (failed \/ u \cup f # {})
        /\ UNCHANGED <<serverlessCost, recommendedResource, recommendedCost>>
    BY <1>5 DEF ReportOriginalCostSummary
  <2>2. originalCost' \in [{"ServerfulCost", "ServerlessCost", "PlatformCost"} -> Nat]
    BY <2>1, OriginalCostType
  <2>3. CostsAreNumbers'
    BY <1>3, <2>1, <2>2 DEF CostInv, CostsAreNumbers
  <2>4. ~failed' => u = {} /\ f = {}
    BY <2>1
  <2>5. ~failed' => CostsFollow'
    BY <1>4, <2>1, <2>4 DEF CostsFollow
  <2>6. QED
    BY <1>1, <2>3, <2>5, ReportCostInv
<1>6. ASSUME NEW f, ReportRawServerlessCostSummary(f) PROVE CostInv'
  <2>1. /\ serverlessCost' = RawServerlessCost(f) /\ pc = "serverless" /\ pc' = "resources"
        /\ failed' = (failed \/ f # {})
        /\ UNCHANGED <<originalCost, recommendedResource, recommendedCost>>
    BY <1>6 DEF ReportRawServerlessCostSummary
  <2>2. serverlessCost' \in Nat
    BY <2>1, RawCostType
  <2>3. CostsAreNumbers'
    BY <1>3, <2>1, <2>2 DEF CostInv, CostsAreNumbers
  <2>4. ~failed' => CostsFollow'
    BY <1>4, <2>1 DEF CostInv, CostsFollow
  <2>5. QED
    BY <1>1, <2>3, <2>4, ReportCostInv
<1>7. CASE ReportRecommendedResourceSummary
  <2>1. /\ recommendedResource' = ServerlessWorkloadsResourceTotal
        /\ pc = "resources" /\ pc' = "recommended"
        /\ UNCHANGED <<originalCost, serverlessCost, recommendedCost, failed>>
    BY <1>7 DEF ReportRecommendedResourceSummary
  <2>2. recommendedResource' \in Quantities
    BY <1>2, <2>1, ResourceTotalType
  <2>3. CostsAreNumbers'
    BY <1>3, <2>1, <2>2 DEF CostInv, CostsAreNumbers
  <2>4. ~failed' => CostsFollow'
    BY <1>4, <2>1 DEF CostInv, CostsFollow
  <2>5. QED
    BY <1>1, <2>3, <2>4, ReportCostInv
<1>8. ASSUME NEW f, ReportRecommendedCostSummary(f) PROVE CostInv'
  <2>1. /\ recommendedCost' = RecommendedCost(f) /\ pc = "recommended" /\ pc' = "done"
        /\ failed' = (failed \/ f # {})
        /\ UNCHANGED <<originalCost, serverlessCost, recommendedResource>>
    BY <1>8 DEF ReportRecommendedCostSummary
  <2>2. recommendedCost' \in [Variants -> Nat]
    BY <1>2, <2>1, RecommendedCostType
  <2>3. CostsAreNumbers'
    BY <1>3, <2>1, <2>2 DEF CostInv, CostsAreNumbers
  <2>4. ~failed' => CostsFollow'
    BY <1>4, <2>1 DEF CostInv, CostsFollow
  <2>5. QED
    BY <1>1, <2>3, <2>4, ReportCostInv
<1>9. CASE FileFails
  <2>1. pc' = "exited" /\ UNCHANGED <<originalCost, serverlessCost, recommendedResource,
                                      recommendedCost>>
    BY <1>9 DEF FileFails, reports
  <2>2. CostsAreNumbers'
    BY <1>3, <2>1 DEF CostInv, CostsAreNumbers
  <2>3. CostsFollow'
    BY <2>1 DEF CostsFollow
  <2>4. QED
    BY <1>1, <2>2, <2>3, ReportCostInv
<1>10. QED
  BY <1>5, <1>6, <1>7, <1>8, <1>9

LEMMA StutterCostInv == ASSUME CostInv, UNCHANGED vars PROVE CostInv'
<1>1. /\ UNCHANGED <<deployed, workloadsSpecCache, recommended, failed, pc, Known>>
      /\ UNCHANGED <<originalCost, serverlessCost, recommendedResource, recommendedCost>>
  BY DEF vars, cluster, reports, Known
<1>2. CostsAreNumbers'
  BY <1>1 DEF CostInv, CostsAreNumbers
<1>3. ~failed' => SpecsFollow'
  BY <1>1, SpecsUnchanged
<1>4. ~failed' => CostsFollow'
  BY <1>1, CostsUnchanged DEF CostInv, CostsFollow
<1>5. \A w : PodsOf(w)' = PodsOf(w)
  BY <1>1 DEF PodsOf
<1>6. ~failed' => OnlyEmptyUnknown'
  BY <1>1, <1>5 DEF CostInv, OnlyEmptyUnknown
<1>7. QED
  BY <1>1, <1>2, <1>3, <1>4, <1>6 DEF CostInv, Finding

LEMMA NextCostInv == FoundInv /\ CostInv /\ [DoAnalysis]_vars => CostInv'
<1> SUFFICES ASSUME FoundInv, CostInv, [DoAnalysis]_vars PROVE CostInv'
  OBVIOUS
<1>1. CASE initWorkloadsSpec
  BY <1>1, InitWorkloadsCostInv
<1>2. ASSUME NEW used, NEW lost, fetchContainerData(used, lost) PROVE CostInv'
  BY <1>2, FetchCostInv
<1>3. ASSUME NEW unconverted, GetAllWorkloadRecommendedData(unconverted) PROVE CostInv'
  BY <1>3, RecommendCostInv
<1>4. ASSUME \/ \E u, f : ReportOriginalCostSummary(u, f)
             \/ \E f : ReportRawServerlessCostSummary(f)
             \/ ReportRecommendedResourceSummary
             \/ \E f : ReportRecommendedCostSummary(f)
             \/ FileFails
      PROVE  CostInv'
  BY <1>4, ReportsCostInv
<1>5. CASE UNCHANGED vars
  BY <1>5, StutterCostInv
<1>6. QED
  BY <1>1, <1>2, <1>3, <1>4, <1>5 DEF DoAnalysis

----------------------------------------------------------------------------
(* Pods, what was fetched for their containers, what is recommended for    *)
(* them and what it costs agree at every moment of an analysis.            *)
THEOREM RecommendationsFollowData == Spec => []IInv
<1>1. Init => IInv
  BY InitFoundInv, InitCostInv DEF IInv
<1>2. IInv /\ [DoAnalysis]_vars => IInv'
  BY NextFoundInv, NextCostInv DEF IInv
<1>3. QED
  BY <1>1, <1>2, PTL DEF Spec

(* No workload is missing from the reports without a reason, however many  *)
(* of its owners, replicas and pods cannot be read.                        *)
THEOREM NobodyIsForgotten == Spec => []NobodyForgotten
<1>1. IInv => NobodyForgotten
  <2> SUFFICES ASSUME IInv, pc = "fetch", NEW w \in Workloads \ Known,
                      deployed[w].kind # "Job"
               PROVE  /\ PodsOf(w) \subseteq met
                      /\ failed \/ deployed[w].kind = "Pod" \/ PodsOf(w) = {}
    BY DEF NobodyForgotten
  <2>1. PodsOf(w) \subseteq met
    BY DEF IInv, FoundInv, PodsAccounted, Finding
  <2>2. QED
    BY <2>1 DEF IInv, FoundInv, PodsAccounted, Finding
<1>2. QED
  BY RecommendationsFollowData, <1>1, PTL

(* The quantity by maximum is the maximum itself. *)
LEMMA MaxAsIs ==
  ASSUME NEW u, u.max \in Nat
  PROVE  Quantity("Max", u, <<1, 1>>) = u.max
BY DEF Quantity, Base, Factor

(* A recommendation by maximum covers what the workload's own pods have    *)
(* used, whatever the others are called, and is that maximum when nobody   *)
(* else's name begins alike.                                               *)
THEOREM OwnUsageCovered == Spec => []CoversOwnUsage
<1>1. IInv => CoversOwnUsage
  <2> SUFFICES ASSUME IInv, NEW w \in DOMAIN recommended, NEW c \in Containers,
                      usage[w][c] # NoData
               PROVE  /\ failed \/ containersData[w][c] # NoData
                      /\ containersData[w][c] # NoData => \A r \in Resources :
                           LET request == recommended[w]["Max"].containers[c].requests[r]
                           IN  /\ request >= usage[w][c][r].max
                               /\ Alone(w) => request = usage[w][c][r].max
    BY DEF CoversOwnUsage
  <2> DEFINE d == containersData[w][c]
  <2>1. w \in Known /\ ~Finding
    BY DEF IInv, FoundInv, FollowsData
  <2>2. d \in Statistics \cup {NoData} /\ Covers(w, d, usage[w][c])
    BY <2>1 DEF IInv, FoundInv, DataCovers
  <2>3. ASSUME d # NoData, NEW r \in Resources
        PROVE  recommended[w]["Max"].containers[c].requests[r] = d[r].max
    <3>1. recommended[w]["Max"].containers[c]
            = RecommendedContainer("Max", deployed[w].containers[c], d)
      BY DEF IInv, FoundInv, FollowsData, Variants
    <3>2. recommended[w]["Max"].containers[c].requests[r] = Quantity("Max", d[r], <<1, 1>>)
      BY <2>3, <3>1 DEF RecommendedContainer, Recommend
    <3>3. d[r].max \in Nat
      BY <2>2, <2>3 DEF Statistics
    <3>4. QED
      BY <3>2, <3>3, MaxAsIs
  <2>4. QED
    BY <2>2, <2>3 DEF Covers
<1>2. QED
  BY RecommendationsFollowData, <1>1, PTL

(* Requests and limits are truncated one by one; as long as the limit of   *)
(* the cores was not below the request, what comes out is in order, too.   *)
LEMMA QuantityGrows ==
  ASSUME NEW v \in Variants, NEW u \in [percentile : Nat, max : Nat],
         NEW l \in Nat, NEW q \in Nat \ {0}, q <= l
  PROVE  Quantity(v, u, <<1, 1>>) <= Quantity(v, u, <<l, q>>)
<1> DEFINE b == Base(v, u)
           f1 == Factor(v)[1]
           f2 == Factor(v)[2]
<1>1. b \in Nat /\ f1 \in Nat /\ f2 \in Nat \ {0}
  BY MarginAssumption DEF Base, Factor
<1>2. Quantity(v, u, <<1, 1>>) = (b * f1 * 1) \div (f2 * 1)
  BY DEF Quantity
<1>3. Quantity(v, u, <<l, q>>) = (b * f1 * l) \div (f2 * q)
  BY DEF Quantity
<1> HIDE DEF b, f1, f2
<1>4. PICK n \in Nat : n = b * f1
  BY <1>1
<1>5. n \div f2 <= (n * l) \div (f2 * q)
  BY <1>1, QuotientGrows
<1>6. n * 1 = n /\ f2 * 1 = f2
  BY <1>1
<1>7. QED
  BY <1>2, <1>3, <1>4, <1>5, <1>6

(* No container is given a request above its limit, for any margin and any *)
(* ratio of limit to request that there is.                                *)
THEOREM RequestsStayWithinLimits == Spec => []RequestsWithinLimits
<1>1. IInv => RequestsWithinLimits
  <2> SUFFICES ASSUME IInv, NEW w \in DOMAIN recommended, NEW v \in Variants,
                      NEW c \in Containers, ~HasNoRatio(deployed[w].containers[c]),
                      NEW r \in DOMAIN recommended[w][v].containers[c].limits
               PROVE  recommended[w][v].containers[c].requests[r]
                        <= recommended[w][v].containers[c].limits[r]
    BY DEF RequestsWithinLimits
  <2> DEFINE was == deployed[w].containers[c]
             d == containersData[w][c]
  <2>1. w \in Known /\ w \in Workloads /\ ~Finding
    BY DEF IInv, FoundInv, Typed, FollowsData
  <2>2. Valid(was)
    <3>1. deployed[w] \in Specs
      BY <2>1 DEF IInv, FoundInv, Typed
    <3>2. QED
      BY <3>1, SpecsAssumption
  <2>3. recommended[w][v].containers[c] = RecommendedContainer(v, was, d)
    BY DEF IInv, FoundInv, FollowsData
  <2>4. CASE d = NoData
    BY <2>2, <2>3, <2>4 DEF RecommendedContainer, Valid
  <2>5. CASE d # NoData
    <3>1. recommended[w][v].containers[c] = Recommend(v, was, d)
      BY <2>3, <2>5 DEF RecommendedContainer
    <3>2. r \in DOMAIN was.limits /\ r \in Resources
      BY <2>2, <3>1 DEF Recommend, Valid
    <3>3. /\ recommended[w][v].containers[c].requests[r] = Quantity(v, d[r], <<1, 1>>)
          /\ recommended[w][v].containers[c].limits[r]
               = Quantity(v, d[r], ReqLimRatio(was, r))
      BY <3>1, <3>2 DEF Recommend
    <3>4. d[r] \in [percentile : Nat, max : Nat]
      BY <2>1, <2>5, <3>2 DEF IInv, FoundInv, DataCovers, Statistics
    <3>5. PICK l \in Nat, q \in Nat \ {0} : q <= l /\ ReqLimRatio(was, r) = <<l, q>>
      <4>1. CASE "cpu" \in DOMAIN was.requests \cap DOMAIN was.limits
        BY <2>2, <4>1 DEF HasNoRatio, Valid, ReqLimRatio
      <4>2. CASE "cpu" \notin DOMAIN was.requests \cap DOMAIN was.limits
        BY <4>2 DEF ReqLimRatio
      <4>3. QED
        BY <4>1, <4>2
    <3>6. QED
      BY <3>3, <3>4, <3>5, QuantityGrows
  <2>6. QED
    BY <2>4, <2>5
<1>2. QED
  BY RecommendationsFollowData, <1>1, PTL

(* Who is on serverless pods already pays the same there, for any number   *)
(* of workloads, replicas and requests.                                    *)
THEOREM MovingCostsNothing == Spec => []MovingNowhereIsFree
<1>1. IInv => MovingNowhereIsFree
  <2> SUFFICES ASSUME IInv, pc = "resources", ~failed, AllServerless
               PROVE  originalCost["ServerlessCost"] = serverlessCost
    BY DEF MovingNowhereIsFree
  <2> DEFINE spec(w) == Pod2Spec(deployed[w], deployed[w].containers, TRUE)
             perPod == [w \in Workloads |-> Pods(w) * timespanInHour *
                ServerlessPodPrice(Pod2Spec(deployed[w], deployed[w].containers,
                                            w \notin {}), 1)]
             raw == [w \in Movable |->
                IF w \in {} THEN 0
                ELSE ServerlessPodPrice(workloadsSpecCache[w], deployed[w].goodsNum)
                       * timespanInHour]
  <2>1. FoundInv /\ CostInv /\ SpecsFollow /\ CostsFollow /\ OnlyEmptyUnknown
    BY DEF IInv, CostInv
  <2>2. Movable = Known /\ Known \subseteq Workloads
    BY <2>1 DEF Movable, AllServerless, FoundInv, Typed
  <2>3. originalCost["ServerlessCost"] = SumFunctionOnSet(perPod, Workloads)
    <3>1. originalCost = OriginalCost({}, {})
      BY <2>1 DEF CostsFollow
    <3>2. {w \in Workloads \ {} : deployed[w].onVirtualNode} = Workloads
      BY DEF AllServerless
    <3>3. OriginalCost({}, {})["ServerlessCost"]
            = SumFunctionOnSet(perPod, {w \in Workloads \ {} : deployed[w].onVirtualNode})
      BY DEF OriginalCost
    <3>4. QED
      BY <3>1, <3>2, <3>3
  <2>4. serverlessCost = SumFunctionOnSet(raw, Known)
    BY <2>1, <2>2 DEF CostsFollow, RawServerlessCost, TotalCost
  <2>5. ASSUME NEW w \in Workloads
        PROVE  /\ deployed[w].goodsNum \in Nat /\ spec(w)["cpu"] \in Nat /\ spec(w)["mem"] \in Nat
               /\ perPod[w] = deployed[w].goodsNum * timespanInHour
                                * (1 * (spec(w)["cpu"] + spec(w)["mem"]))
               /\ perPod[w] \in Nat
    <3>1. spec(w) \in Quantities
      BY <2>1, DeployedRequests, SpecsAreQuantities
    <3>2. spec(w)["cpu"] \in Nat /\ spec(w)["mem"] \in Nat
      BY <3>1 DEF Quantities, Resources
    <3>3. Pods(w) = deployed[w].goodsNum /\ deployed[w].goodsNum \in Nat
      BY <2>1, PodsCounted, DeployedRequests
    <3>4. (w \notin {}) = TRUE
      OBVIOUS
    <3>5. perPod[w] = Pods(w) * timespanInHour * ServerlessPodPrice(spec(w), 1)
      BY <3>4
    <3> HIDE DEF spec, perPod
    <3>6. perPod[w] = deployed[w].goodsNum * timespanInHour
                        * (1 * (spec(w)["cpu"] + spec(w)["mem"]))
      BY <3>3, <3>5 DEF ServerlessPodPrice
    <3>7. QED
      BY <3>2, <3>3, <3>6, TimespanType
  <2>6. ASSUME NEW w \in Known PROVE raw[w] = perPod[w]
    <3>1. workloadsSpecCache[w] = spec(w)
      BY <2>1 DEF SpecsFollow
    <3>2. raw[w] = ServerlessPodPrice(spec(w), deployed[w].goodsNum) * timespanInHour
      BY <2>2, <3>1
    <3> HIDE DEF spec, perPod, raw
    <3>3. raw[w] = deployed[w].goodsNum * (spec(w)["cpu"] + spec(w)["mem"]) * timespanInHour
      BY <3>2 DEF ServerlessPodPrice
    <3>4. ASSUME NEW g \in Nat, NEW t \in Nat, NEW p \in Nat PROVE g * p * t = g * t * (1 * p)
      OBVIOUS
    <3>5. spec(w)["cpu"] + spec(w)["mem"] \in Nat
      BY <2>2, <2>5
    <3>6. QED
      BY <2>2, <2>5, <3>3, <3>4, <3>5, TimespanType
  <2>7. ASSUME NEW w \in Workloads \ Known PROVE perPod[w] = 0
    <3>1. deployed[w].kind = "Deployment"
      BY DEF AllServerless
    <3>2. PodsOf(w) = {}
      BY <2>1, <3>1 DEF OnlyEmptyUnknown
    <3>3. deployed[w].goodsNum = 0
      BY <2>1, <3>2, PodsCounted, FS_EmptySet DEF Pods
    <3> HIDE DEF spec, perPod
    <3>4. QED
      BY <2>5, <3>3, TimespanType
  <2> HIDE DEF spec, perPod, raw
  <2>8. SumFunctionOnSet(perPod, Workloads) = SumFunctionOnSet(perPod, Known)
    BY <2>2, <2>5, <2>7, WorkloadsAssumption, SumWithoutZeros
  <2>9. SumFunctionOnSet(perPod, Known) = SumFunctionOnSet(raw, Known)
    <3>1. IsFiniteSet(Known) /\ \A w \in Known : perPod[w] \in Nat /\ raw[w] = perPod[w]
      BY <2>2, <2>5, <2>6, WorkloadsAssumption, FS_Subset
    <3>2. QED
      BY <3>1, SumsAlike
  <2>10. QED
    BY <2>3, <2>4, <2>8, <2>9
<1>2. QED
  BY RecommendationsFollowData, <1>1, PTL

(* With the default time span, an hour, the same requests cost the same in *)
(* both reports.  For more hours they do not: the recommender coster       *)
(* multiplies with the time span twice.                                    *)
THEOREM SameRequestsCostTheSame ==
  ASSUME TimeSpanSeconds = 3600
  PROVE  Spec => []SameRequestsSameCost
<1>1. IInv => SameRequestsSameCost
  <2> SUFFICES ASSUME IInv, pc = "done", ~failed, NEW v \in Variants,
                      \A w \in DOMAIN recommended :
                         recommended[w][v].spec = workloadsSpecCache[w]
               PROVE  recommendedCost[v] = serverlessCost
    BY DEF SameRequestsSameCost
  <2> DEFINE raw == [w \in Movable |->
                IF w \in {} THEN 0
                ELSE ServerlessPodPrice(workloadsSpecCache[w], deployed[w].goodsNum)
                       * timespanInHour]
             cost == [w \in Movable |->
                IF <<w, v>> \in {} THEN 0
                ELSE workloadCosting(recommended[w][v].spec, deployed[w].goodsNum)
                       * timespanInHour]
  <2>1. FoundInv /\ CostInv /\ CostsFollow /\ DOMAIN recommended = Known
    BY DEF IInv, CostInv, Finding
  <2>2. serverlessCost = SumFunctionOnSet(raw, Movable)
    BY <2>1 DEF CostsFollow, RawServerlessCost, TotalCost
  <2>3. recommendedCost[v] = SumFunctionOnSet(cost, Movable)
    BY <2>1 DEF CostsFollow, RecommendedCost, TotalCost
  <2>4. timespanInHour = 1
    BY DEF timespanInHour
  <2>5. ASSUME NEW w \in Movable PROVE raw[w] \in Nat /\ cost[w] = raw[w]
    <3>1. w \in Known /\ w \in Workloads
      BY <2>1, MovableFinite
    <3>2. workloadsSpecCache[w] \in Quantities
      BY <2>1, <3>1 DEF CostInv, CostsAreNumbers
    <3>3. ServerlessPodPrice(workloadsSpecCache[w], deployed[w].goodsNum) \in Nat
      BY <2>1, <3>1, <3>2, DeployedRequests, PodPriceType
    <3>4. recommended[w][v].spec = workloadsSpecCache[w]
      BY <2>1, <3>1
    <3>5. QED
      BY <2>4, <3>3, <3>4 DEF workloadCosting
  <2> HIDE DEF raw, cost
  <2>6. SumFunctionOnSet(raw, Movable) = SumFunctionOnSet(cost, Movable)
    BY <2>1, <2>5, MovableFinite, SumsAlike
  <2>7. QED
    BY <2>2, <2>3, <2>6
<1>2. QED
  BY RecommendationsFollowData, <1>1, PTL

(* The variants in the order of their names, as the report has them.       *)
BoldToSafe == {<<"Percentile", "Recommended">>, <<"Percentile", "Max">>,
               <<"Recommended", "MaxRecommended">>, <<"Max", "MaxRecommended">>}
LEMMA QuantitiesOrdered ==
  ASSUME NEW vv \in BoldToSafe, NEW u \in [percentile : Nat, max : Nat], u.percentile <= u.max
  PROVE  Quantity(vv[1], u, <<1, 1>>) <= Quantity(vv[2], u, <<1, 1>>)
<1>1. ASSUME NEW a \in Nat, NEW b \in Nat, a <= b, NEW f \in Nat, NEW d \in Nat \ {0}
      PROVE  (a * f * 1) \div (d * 1) <= (b * f * 1) \div (d * 1)
  <2> DEFINE m == a * f
             n == b * f
  <2>1. m \in Nat /\ n \in Nat /\ m <= n
    BY <1>1
  <2>2. (a * f * 1) \div (d * 1) = m \div d /\ (b * f * 1) \div (d * 1) = n \div d
    OBVIOUS
  <2> HIDE DEF m, n
  <2>3. m \div d \in Nat /\ (m \div d) * d <= m
    BY <2>1, Quotient
  <2>4. (m \div d) * d <= n
    BY <2>1, <2>3
  <2>5. m \div d <= n \div d
    BY <2>1, <2>3, <2>4, Quotient
  <2>6. QED
    BY <2>2, <2>5
<1>2. ASSUME NEW b \in Nat
      PROVE  (b * 1 * 1) \div (1 * 1) <= (b * Margin[1] * 1) \div (Margin[2] * 1)
  <2>1. /\ Margin[1] \in Nat /\ Margin[2] \in Nat \ {0} /\ Margin[2] <= Margin[1]
    BY MarginAssumption
  <2>2. PICK l \in Nat, q \in Nat \ {0} : l = Margin[1] /\ q = Margin[2]
    BY <2>1
  <2>3. b \div 1 <= (b * l) \div (1 * q)
    BY <2>1, <2>2, QuotientGrows, 1 \in Nat \ {0}
  <2>4. b * 1 * 1 = b /\ 1 * 1 = 1 /\ b * l * 1 = b * l /\ 1 * q = q * 1
    OBVIOUS
  <2>5. QED
    BY <2>2, <2>3, <2>4
<1>3. CASE vv = <<"Percentile", "Recommended">>
  BY <1>2, <1>3 DEF Quantity, Base, Factor
<1>4. CASE vv = <<"Percentile", "Max">>
  BY <1>1, <1>4 DEF Quantity, Base, Factor
<1>5. CASE vv = <<"Recommended", "MaxRecommended">>
  <2>1. /\ Quantity("Recommended", u, <<1, 1>>)
             = (u.percentile * Margin[1] * 1) \div (Margin[2] * 1)
        /\ Quantity("MaxRecommended", u, <<1, 1>>) = (u.max * Margin[1] * 1) \div (Margin[2] * 1)
    BY DEF Quantity, Base, Factor
  <2>2. PICK f \in Nat, d \in Nat \ {0} : f = Margin[1] /\ d = Margin[2]
    BY MarginAssumption
  <2>3. (u.percentile * f * 1) \div (d * 1) <= (u.max * f * 1) \div (d * 1)
    BY <1>1
  <2>4. QED
    BY <1>5, <2>1, <2>2, <2>3
<1>6. CASE vv = <<"Max", "MaxRecommended">>
  BY <1>2, <1>6 DEF Quantity, Base, Factor
<1>7. QED
  BY <1>3, <1>4, <1>5, <1>6 DEF BoldToSafe

(* What can be deployed requests no less of anything.                      *)
RequestsMore(ks, ls) == \A c \in Containers, r \in Resources :
    Request(ks, c, r) \in Nat /\ Request(ls, c, r) \in Nat
    /\ Request(ks, c, r) <= Request(ls, c, r)
LEMMA RequestsOrdered ==
  ASSUME NEW ks, NEW ls, RequestsMore(ks, ls)
  PROVE  /\ PodRequests(ks) \in Quantities /\ PodRequests(ls) \in Quantities
         /\ \A r \in Resources : PodRequests(ks)[r] <= PodRequests(ls)[r]
<1>1. ASSUME NEW r \in Resources
      PROVE  /\ PodRequests(ks)[r] \in Nat /\ PodRequests(ls)[r] \in Nat
             /\ PodRequests(ks)[r] <= PodRequests(ls)[r]
  <2> DEFINE k == [c \in Containers |-> Request(ks, c, r)]
             l == [c \in Containers |-> Request(ls, c, r)]
  <2>1. \A c \in Containers : k[c] \in Nat /\ l[c] \in Nat /\ k[c] <= l[c]
    BY DEF RequestsMore
  <2>2. PodRequests(ks)[r] = SumFunctionOnSet(k, Containers)
    BY DEF PodRequests, Request
  <2>3. PodRequests(ls)[r] = SumFunctionOnSet(l, Containers)
    BY DEF PodRequests, Request
  <2> HIDE DEF k, l
  <2>4. IsFiniteSet(Containers)
    BY WorkloadsAssumption
  <2>5. QED
    BY <2>1, <2>2, <2>3, <2>4, SumType, SumGrows
<1>2. \A ms : PodRequests(ms) = [r \in Resources |-> PodRequests(ms)[r]]
  BY DEF PodRequests
<1>3. QED
  BY <1>1, <1>2 DEF Quantities

LEMMA SpecsOrdered ==
  ASSUME NEW ks, NEW ls, RequestsMore(ks, ls), BestEffort(ks) <=> BestEffort(ls), NEW w,
         NEW r \in Resources
  PROVE  Pod2ServerlessSpec(w, ks, TRUE)[r] <= Pod2ServerlessSpec(w, ls, TRUE)[r]
<1>1. /\ PodRequests(ks)[r] \in Nat /\ PodRequests(ls)[r] \in Nat
      /\ PodRequests(ks)[r] <= PodRequests(ls)[r]
  BY RequestsOrdered DEF Quantities
<1>2. RoundedUp(PodRequests(ks)[r]) <= RoundedUp(PodRequests(ls)[r])
  BY <1>1, RoundingGrows
<1>3. BestEffortPod[r] \in Nat
  BY PricesAssumption DEF Quantities
<1>4. CASE w.kind = "DaemonSet"
  BY <1>1, <1>4 DEF Pod2ServerlessSpec
<1>5. CASE w.kind # "DaemonSet" /\ BestEffort(ks)
  BY <1>3, <1>5 DEF Pod2ServerlessSpec
<1>6. CASE w.kind # "DaemonSet" /\ ~BestEffort(ks)
  BY <1>2, <1>6 DEF Pod2ServerlessSpec, Pod2EKSSpecConverter
<1>7. QED
  BY <1>4, <1>5, <1>6

(* A running container uses memory at any time but for rare moments: no    *)
(* percentile is zero.  Otherwise a recommendation by percentile might     *)
(* request nothing at all, and the default for pods that request nothing   *)
(* costs more than the little that another recommendation requests.        *)
MemoryIsUsed == \A u \in Usages \ {NoData} : u["mem"].percentile > 0

LEMMA RecommendedSpecsOrdered ==
  ASSUME MemoryIsUsed, IInv, ~failed, pc = "done", NEW w \in Known, NEW vv \in BoldToSafe,
         NEW r \in Resources
  PROVE  recommended[w][vv[1]].spec[r] <= recommended[w][vv[2]].spec[r]
<1> DEFINE ks == recommended[w][vv[1]].containers
           ls == recommended[w][vv[2]].containers
           was(c) == deployed[w].containers[c]
           d(c) == containersData[w][c]
<1>1. /\ FoundInv /\ SpecsFollow /\ DOMAIN recommended = Known /\ ~Finding /\ w \in Workloads
      /\ vv[1] \in Variants /\ vv[2] \in Variants
  BY DEF IInv, CostInv, Finding, FoundInv, Typed, BoldToSafe, Variants
<1>2. ASSUME NEW c \in Containers
      PROVE  /\ ks[c] = RecommendedContainer(vv[1], was(c), d(c))
             /\ ls[c] = RecommendedContainer(vv[2], was(c), d(c))
             /\ d(c) \in Statistics \cup {NoData}
             /\ d(c) # NoData => \E u \in Usages \ {NoData} : HasPercentileOf(d(c), u)
             /\ \A x \in DOMAIN was(c).requests : was(c).requests[x] \in Nat
  <2>1. RequestsGiven(deployed[w].containers)
    BY <1>1, DeployedRequests
  <2>2. QED
    BY <1>1, <2>1 DEF FoundInv, FollowsData, DataCovers, RequestsGiven
<1>3. ASSUME NEW c \in Containers, d(c) # NoData, NEW x \in Resources
      PROVE  /\ Request(ks, c, x) = Quantity(vv[1], d(c)[x], <<1, 1>>)
             /\ Request(ls, c, x) = Quantity(vv[2], d(c)[x], <<1, 1>>)
             /\ d(c)[x] \in [percentile : Nat, max : Nat] /\ d(c)[x].percentile <= d(c)[x].max
  <2>1. /\ ks[c].requests = [y \in Resources |-> Quantity(vv[1], d(c)[y], <<1, 1>>)]
        /\ ls[c].requests = [y \in Resources |-> Quantity(vv[2], d(c)[y], <<1, 1>>)]
    <3>1. ks[c] = Recommend(vv[1], was(c), d(c)) /\ ls[c] = Recommend(vv[2], was(c), d(c))
      BY <1>2, <1>3 DEF RecommendedContainer
    <3> HIDE DEF ks, ls, was, d
    <3>2. QED
      BY <3>1 DEF Recommend
  <2>2. d(c) \in Statistics
    BY <1>2, <1>3
  <2> HIDE DEF d, ks, ls
  <2>3. d(c)[x] \in [percentile : Nat, max : Nat] /\ d(c)[x].percentile <= d(c)[x].max
    BY <2>2 DEF Statistics
  <2>4. QED
    BY <2>1, <2>3 DEF Request
<1>4. ASSUME NEW c \in Containers, d(c) = NoData
      PROVE  /\ ks[c] = was(c) /\ ls[c] = was(c)
             /\ \A x \in Resources : /\ Request(ks, c, x) \in Nat
                                     /\ Request(ks, c, x) = Request(ls, c, x)
  <2>1. ks[c] = was(c) /\ ls[c] = was(c)
    BY <1>2, <1>4 DEF RecommendedContainer
  <2>2. QED
    BY <1>2, <2>1 DEF Request
<1>5. RequestsMore(ks, ls)
  <2>1. ASSUME NEW c \in Containers, NEW x \in Resources
        PROVE  /\ Request(ks, c, x) \in Nat /\ Request(ls, c, x) \in Nat
               /\ Request(ks, c, x) <= Request(ls, c, x)
    <3>1. CASE d(c) = NoData
      BY <1>4, <3>1
    <3>2. CASE d(c) # NoData
      <4>1. /\ Request(ks, c, x) = Quantity(vv[1], d(c)[x], <<1, 1>>)
            /\ Request(ls, c, x) = Quantity(vv[2], d(c)[x], <<1, 1>>)
            /\ d(c)[x] \in [percentile : Nat, max : Nat] /\ d(c)[x].percentile <= d(c)[x].max
        BY <1>3, <3>2
      <4> HIDE DEF d, ks, ls
      <4>2. QED
        BY <4>1, QuantitiesOrdered, QuantityType
    <3>3. QED
      BY <3>1, <3>2
  <2> HIDE DEF ks, ls
  <2>2. QED
    BY <2>1 DEF RequestsMore
<1>6. ASSUME NEW c \in Containers, d(c) # NoData PROVE ~BestEffort(ks) /\ ~BestEffort(ls)
  <2>1. PICK u \in Usages \ {NoData} : HasPercentileOf(d(c), u)
    BY <1>2, <1>6
  <2>2. "mem" \in Resources
    BY DEF Resources
  <2>3. d(c)["mem"].percentile > 0 /\ d(c)["mem"] \in [percentile : Nat, max : Nat]
    <3>1. d(c)["mem"].percentile = u["mem"].percentile
      BY <2>1, <2>2 DEF HasPercentileOf
    <3>2. QED
      BY <1>3, <1>6, <2>2, <3>1 DEF MemoryIsUsed
  <2>4. /\ ks[c].requests = [y \in Resources |-> Quantity(vv[1], d(c)[y], <<1, 1>>)]
        /\ ls[c].requests = [y \in Resources |-> Quantity(vv[2], d(c)[y], <<1, 1>>)]
    <3>1. ks[c] = Recommend(vv[1], was(c), d(c)) /\ ls[c] = Recommend(vv[2], was(c), d(c))
      BY <1>2, <1>6 DEF RecommendedContainer
    <3> HIDE DEF ks, ls, was, d
    <3>2. QED
      BY <3>1 DEF Recommend
  <2>5. Quantity("Percentile", d(c)["mem"], <<1, 1>>) = d(c)["mem"].percentile
    <3> HIDE DEF d
    <3>1. QED
      BY <2>3 DEF Quantity, Base, Factor
  <2>6. d(c)["mem"].percentile <= d(c)["mem"].max
    BY <1>3, <1>6, <2>2
  <2>7. /\ Quantity(vv[1], d(c)["mem"], <<1, 1>>) > 0
        /\ Quantity(vv[2], d(c)["mem"], <<1, 1>>) > 0
    <3> HIDE DEF d
    <3>1. \A v \in Variants : Quantity(v, d(c)["mem"], <<1, 1>>) \in Nat
      BY <2>3, QuantityType
    <3>2. \A tt \in BoldToSafe : Quantity(tt[1], d(c)["mem"], <<1, 1>>)
                                   <= Quantity(tt[2], d(c)["mem"], <<1, 1>>)
      BY <2>3, <2>6, QuantitiesOrdered
    <3>3. \A v \in {"Recommended", "Max"} :
            Quantity("Percentile", d(c)["mem"], <<1, 1>>) <= Quantity(v, d(c)["mem"], <<1, 1>>)
      BY <3>2 DEF BoldToSafe
    <3>4. Quantity("Max", d(c)["mem"], <<1, 1>>) <= Quantity("MaxRecommended", d(c)["mem"], <<1, 1>>)
      BY <3>2 DEF BoldToSafe
    <3>5. \A v \in Variants : Quantity(v, d(c)["mem"], <<1, 1>>) > 0
      BY <2>3, <2>5, <3>1, <3>3, <3>4 DEF Variants
    <3>6. QED
      BY <1>1, <3>5
  <2>8. /\ "mem" \in DOMAIN ks[c].requests /\ ks[c].requests["mem"] > 0
        /\ "mem" \in DOMAIN ls[c].requests /\ ls[c].requests["mem"] > 0
        /\ ks[c].requests["mem"] \in Nat /\ ls[c].requests["mem"] \in Nat
    BY <2>2, <2>3, <2>4, <2>7, QuantityType
  <2> HIDE DEF ks, ls
  <2>9. QED
    BY <2>8 DEF BestEffort
<1>7. BestEffort(ks) <=> BestEffort(ls)
  <2>1. CASE \E c \in Containers : d(c) # NoData
    BY <1>6, <2>1
  <2>2. CASE \A c \in Containers : d(c) = NoData
    <3>1. \A c \in Containers : ks[c] = ls[c]
      BY <1>4, <2>2
    <3> HIDE DEF ks, ls
    <3>2. QED
      BY <3>1 DEF BestEffort
  <2>3. QED
    BY <2>1, <2>2
<1>8. /\ recommended[w][vv[1]].spec = Pod2ServerlessSpec(deployed[w], ks, TRUE)
      /\ recommended[w][vv[2]].spec = Pod2ServerlessSpec(deployed[w], ls, TRUE)
  BY <1>1 DEF SpecsFollow
<1> HIDE DEF ks, ls
<1>9. QED
  BY <1>5, <1>7, <1>8, SpecsOrdered

(* The four recommendations cost what their names promise, for any usage,  *)
(* margin and time span, as long as containers that run use memory.        *)
THEOREM RecommendationsCostInOrder ==
  ASSUME MemoryIsUsed
  PROVE  Spec => []CostsOrdered
<1>1. ASSUME IInv, pc = "done", ~failed, NEW vv \in BoldToSafe
      PROVE  recommendedCost[vv[1]] <= recommendedCost[vv[2]]
  <2> DEFINE cost(v) == [w \in Movable |->
                IF <<w, v>> \in {} THEN 0
                ELSE workloadCosting(recommended[w][v].spec, deployed[w].goodsNum)
                       * timespanInHour]
  <2>1. /\ FoundInv /\ CostInv /\ CostsFollow /\ DOMAIN recommended = Known
        /\ vv[1] \in Variants /\ vv[2] \in Variants
    BY <1>1 DEF IInv, CostInv, Finding, BoldToSafe, Variants
  <2>2. \A v \in Variants : recommendedCost[v] = SumFunctionOnSet(cost(v), Movable)
    BY <1>1, <2>1 DEF CostsFollow, RecommendedCost, TotalCost
  <2>3. ASSUME NEW w \in Movable
        PROVE  /\ cost(vv[1])[w] \in Nat /\ cost(vv[2])[w] \in Nat
               /\ cost(vv[1])[w] <= cost(vv[2])[w]
    <3> DEFINE s == recommended[w][vv[1]].spec
               t == recommended[w][vv[2]].spec
               n == deployed[w].goodsNum
    <3>1. w \in Known /\ w \in Workloads
      BY <2>1, MovableFinite
    <3>2. s \in Quantities /\ t \in Quantities /\ n \in Nat
      BY <2>1, <3>1, DeployedRequests DEF CostInv, CostsAreNumbers
    <3>3. \A r \in Resources : s[r] <= t[r]
      BY <1>1, <3>1, RecommendedSpecsOrdered
    <3>4. /\ cost(vv[1])[w] = n * (s["cpu"] + s["mem"]) * timespanInHour * timespanInHour
          /\ cost(vv[2])[w] = n * (t["cpu"] + t["mem"]) * timespanInHour * timespanInHour
      BY DEF workloadCosting, ServerlessPodPrice
    <3>5. ASSUME NEW a \in Nat, NEW b \in Nat, a <= b, NEW k \in Nat
          PROVE  a * k \in Nat /\ b * k \in Nat /\ a * k <= b * k /\ k * a = a * k /\ k * b = b * k
      BY <3>5
    <3> HIDE DEF s, t, n, cost
    <3>6. /\ s["cpu"] + s["mem"] \in Nat /\ t["cpu"] + t["mem"] \in Nat
          /\ s["cpu"] + s["mem"] <= t["cpu"] + t["mem"]
      BY <3>2, <3>3 DEF Quantities, Resources
    <3>7. /\ n * (s["cpu"] + s["mem"]) \in Nat /\ n * (t["cpu"] + t["mem"]) \in Nat
          /\ n * (s["cpu"] + s["mem"]) <= n * (t["cpu"] + t["mem"])
      BY <3>2, <3>5, <3>6
    <3>8. /\ n * (s["cpu"] + s["mem"]) * timespanInHour \in Nat
          /\ n * (t["cpu"] + t["mem"]) * timespanInHour \in Nat
          /\ n * (s["cpu"] + s["mem"]) * timespanInHour <= n * (t["cpu"] + t["mem"]) * timespanInHour
      BY <3>5, <3>7, TimespanType
    <3>9. QED
      BY <3>4, <3>5, <3>8, TimespanType
  <2>4. SumFunctionOnSet(cost(vv[1]), Movable) <= SumFunctionOnSet(cost(vv[2]), Movable)
    <3>1. IsFiniteSet(Movable)
      BY <2>1, MovableFinite
    <3> HIDE DEF cost
    <3>2. QED
      BY <2>3, <3>1, SumGrows
  <2> HIDE DEF cost
  <2>5. QED
    BY <2>1, <2>2, <2>4
<1>2. IInv => CostsOrdered
  BY <1>1 DEF CostsOrdered, BoldToSafe
<1>3. QED
  BY RecommendationsFollowData, <1>2, PTL
=============================================================================
