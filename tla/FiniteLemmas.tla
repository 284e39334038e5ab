---------------------------- MODULE FiniteLemmas ----------------------------
(***************************************************************************)
(* Lemmas about finite sets the proofs of several modules cite: the        *)
(* largest height of a history, and sums as the community modules define   *)
(* them: what they are when an element is added, when terms change, when   *)
(* a set is split.  The proofs go by a smallest set for which the claim    *)
(* would fail.                                                             *)
(***************************************************************************)
EXTENDS Integers, FiniteSetsExt, Functions, FiniteSetTheorems, TLAPS

\* A set of subsets of a finite set has a smallest one.
LEMMA SmallestSubset ==
  ASSUME NEW S, IsFiniteSet(S), NEW bad \in SUBSET (SUBSET S), bad # {}
  PROVE  \E U \in bad : \A V \in SUBSET U : V # U => V \notin bad
<1>1. bad \subseteq FiniteSubsetsOf(S)
  BY FS_FiniteSubsetsOfFinite
<1>2. IsWellFoundedOn(StrictSubsetOrdering(S), FiniteSubsetsOf(S))
  BY FS_StrictSubsetOrderingWellFounded
<1>3. PICK U \in bad : \A V \in bad : <<V, U>> \notin StrictSubsetOrdering(S)
  BY <1>1, <1>2, WFMin
<1>4. \A V \in SUBSET U : V # U => <<V, U>> \in StrictSubsetOrdering(S)
  BY DEF StrictSubsetOrdering
<1>5. \A V \in SUBSET U : V # U => V \notin bad
  BY <1>3, <1>4
<1> QED
  BY <1>3, <1>5

\* What holds of the empty set and whenever one element is added holds of S.
LEMMA SetInduction ==
  ASSUME NEW S, IsFiniteSet(S), NEW good, {} \in good,
         \A U \in SUBSET S : \A x \in S : x \notin U /\ U \in good => U \cup {x} \in good
  PROVE  S \in good
<1> DEFINE bad == {U \in SUBSET S : U \notin good}
<1>1. SUFFICES ASSUME bad # {} PROVE FALSE
  OBVIOUS
<1>2. PICK U \in bad : \A V \in SUBSET U : V # U => V \notin bad
  <2>1. bad \in SUBSET (SUBSET S)
    OBVIOUS
  <2> HIDE DEF bad
  <2> QED
    BY <1>1, <2>1, SmallestSubset
<1>3. PICK x : x \in U
  BY <1>2
<1> DEFINE V == U \ {x}
<1>4. V \in SUBSET U /\ V # U /\ U = V \cup {x} /\ x \notin V
  BY <1>3
<1>5. V \in good /\ V \in SUBSET S /\ x \in S
  BY <1>2, <1>3, <1>4
<1> HIDE DEF V
<1> QED
  BY <1>2, <1>4, <1>5

(***************************************************************************)
(* The largest and the smallest of some numbers                            *)
(***************************************************************************)

\* It is the one that is not below any other.
LEMMA MaxIs ==
  ASSUME NEW S \in SUBSET Int, NEW m \in S, \A x \in S : x <= m
  PROVE  Max(S) = m
<1>1. m \in S /\ \A x \in S : m >= x
  OBVIOUS
<1>2. Max(S) \in S /\ \A x \in S : Max(S) >= x
  <2>1. \E x \in S : \A y \in S : x >= y
    BY <1>1
  <2> QED
    BY <2>1, Zenon DEF Max
<1>3. Max(S) >= m /\ m >= Max(S) /\ Max(S) \in Int /\ m \in Int
  BY <1>1, <1>2
<1> QED
  BY <1>3

\* It exists.
LEMMA MaxExists ==
  ASSUME NEW n \in Nat, NEW S \in SUBSET (0..n), S # {}
  PROVE  Max(S) \in S /\ \A x \in S : x <= Max(S)
<1> DEFINE Bounded(U) == U = {} \/ \E m \in U : \A x \in U : x <= m
           good == {U \in SUBSET S : Bounded(U)}
<1>1. IsFiniteSet(S)
  <2>1. IsFiniteSet(0..n)
    BY FS_Interval
  <2> QED
    BY <2>1, FS_Subset
<1>2. {} \in good
  OBVIOUS
<1>3. ASSUME NEW U \in SUBSET S, NEW y \in S, y \notin U, U \in good
      PROVE  U \cup {y} \in good
  <2>1. CASE U = {}
    BY <2>1
  <2>2. CASE U # {}
    <3>1. PICK m \in U : \A x \in U : x <= m
      BY <1>3, <2>2
    <3>2. CASE y <= m
      BY <3>1, <3>2
    <3>3. CASE m < y
      <4>1. \A x \in U \cup {y} : x <= y
        BY <3>1, <3>3
      <4> QED
        BY <4>1
    <3> QED
      BY <3>1, <3>2, <3>3
  <2> QED
    BY <2>1, <2>2
<1>4. S \in good
  <2> HIDE DEF good
  <2>1. \A U \in SUBSET S : \A x \in S : x \notin U /\ U \in good => U \cup {x} \in good
    BY <1>3
  <2> QED
    BY <1>1, <1>2, <2>1, SetInduction
<1>5. PICK m \in S : \A x \in S : x <= m
  BY <1>4
<1>6. Max(S) = m
  BY <1>5, MaxIs
<1> QED
  BY <1>5, <1>6

\* The newest height of a chain that is numbered from 0.
LEMMA MaxOfRange == ASSUME NEW n \in Nat PROVE Max(0..n) = n
BY MaxIs

\* Rows have heights from -1 on.
LEMMA MaxOfRows ==
  ASSUME NEW n \in Nat, NEW S \in SUBSET (-1..n), S # {}
  PROVE  Max(S) \in S /\ \A x \in S : x <= Max(S)
<1> DEFINE T == {x + 1 : x \in S}
<1>1. T \in SUBSET (0..(n + 1)) /\ T # {} /\ n + 1 \in Nat
  <2>1. \A x \in S : x + 1 \in 0..(n + 1)
    OBVIOUS
  <2>2. T \in SUBSET (0..(n + 1)) /\ T # {}
    BY <2>1, Zenon
  <2> QED
    BY <2>2
<1> HIDE DEF T
<1>2. Max(T) \in T /\ \A x \in T : x <= Max(T)
  BY <1>1, MaxExists
<1>3. PICK m \in S : Max(T) = m + 1
  BY <1>2 DEF T
<1>4. \A x \in S : x + 1 <= m + 1
  BY <1>2, <1>3 DEF T
<1>5. \A x \in S : x <= m
  BY <1>4
<1>6. Max(S) = m
  BY <1>5, MaxIs
<1> QED
  BY <1>5, <1>6

\* The smallest is the one that is not above any other.
LEMMA MinIs ==
  ASSUME NEW S \in SUBSET Int, NEW m \in S, \A x \in S : m <= x
  PROVE  Min(S) = m
<1>1. \E x \in S : \A y \in S : x <= y
  OBVIOUS
<1>2. Min(S) \in S /\ \A x \in S : Min(S) <= x
  BY <1>1, Zenon DEF Min
<1>3. Min(S) <= m /\ m <= Min(S) /\ Min(S) \in Int /\ m \in Int
  BY <1>2
<1> QED
  BY <1>3

\* It exists.
LEMMA MinExists ==
  ASSUME NEW n \in Nat, NEW S \in SUBSET (0..n), S # {}
  PROVE  Min(S) \in S /\ \A x \in S : Min(S) <= x
<1> DEFINE T == {n - x : x \in S}
<1>1. T \in SUBSET (0..n) /\ T # {}
  <2>1. \A x \in S : n - x \in 0..n
    OBVIOUS
  <2> QED
    BY <2>1, Zenon
<1> HIDE DEF T
<1>2. Max(T) \in T /\ \A x \in T : x <= Max(T)
  BY <1>1, MaxExists
<1>3. PICK m \in S : Max(T) = n - m
  BY <1>2 DEF T
<1>4. \A x \in S : n - x <= n - m
  BY <1>2, <1>3 DEF T
<1>5. \A x \in S : m <= x
  BY <1>4
<1> QED
  BY <1>5, MinIs

\* What holds of 0 and goes on by one holds of every number.
LEMMA CountUp ==
  ASSUME NEW good, 0 \in good, \A k \in Nat : k \in good => k + 1 \in good
  PROVE  \A n \in Nat : n \in good
<1> TAKE n \in Nat
<1> DEFINE S == {k \in 0..n : \A j \in 0..k : j \in good}
<1>1. S \in SUBSET (0..n) /\ 0 \in S
  OBVIOUS
<1> DEFINE m == Max(S)
<1>2. m \in S /\ \A x \in S : x <= m
  <2> HIDE DEF S
  <2> QED
    BY <1>1, MaxExists
<1> HIDE DEF m
<1>3. CASE m = n
  BY <1>2, <1>3
<1>4. CASE m # n
  <2>1. m \in Nat /\ m + 1 \in 0..n /\ m \in good
    BY <1>2, <1>4
  <2>2. \A j \in 0..(m + 1) : j \in good
    BY <1>2, <2>1
  <2>3. m + 1 \in S
    BY <2>1, <2>2
  <2> QED
    BY <1>2, <2>1, <2>3
<1> QED
  BY <1>3, <1>4

(***************************************************************************)
(* The fold behind a sum is well defined                                   *)
(***************************************************************************)

PickFrom(s) == CHOOSE x \in s : TRUE

SumStep(f, g, s) == IF s = {} THEN 0 ELSE f[PickFrom(s)] + g[s \ {PickFrom(s)}]

\* The sums over all subsets of S, if there is a function that gives them.
PartialSums(f, S) == CHOOSE g : g = [s \in SUBSET S |-> SumStep(f, g, s)]

SumsDefined(f, S) == PartialSums(f, S) = [s \in SUBSET S |-> SumStep(f, PartialSums(f, S), s)]

LEMMA PickIsElement == \A s : s # {} => PickFrom(s) \in s
BY DEF PickFrom

LEMMA SumIsPartialSum ==
  ASSUME NEW f, NEW S
  PROVE  SumFunctionOnSet(f, S) = PartialSums(f, S)[S]
BY DEF SumFunctionOnSet, FoldFunctionOnSet, MapThenFoldSet, SumStep, PickFrom, PartialSums

LEMMA SumsDefinedIfAny ==
  ASSUME NEW f, NEW S, NEW g, g = [s \in SUBSET S |-> SumStep(f, g, s)]
  PROVE  SumsDefined(f, S)
<1>1. \E h : h = [s \in SUBSET S |-> SumStep(f, h, s)]
  OBVIOUS
<1> QED
  BY <1>1, Zenon DEF SumsDefined, PartialSums

\* Whatever set they start from, partial sums agree.
LEMMA SumsAgree ==
  ASSUME NEW f, NEW S, IsFiniteSet(S), NEW T \in SUBSET S, SumsDefined(f, S), SumsDefined(f, T)
  PROVE  PartialSums(f, S)[T] = PartialSums(f, T)[T]
<1> DEFINE g == PartialSums(f, S)
           h == PartialSums(f, T)
           bad == {U \in SUBSET T : g[U] # h[U]}
<1>1. g = [s \in SUBSET S |-> SumStep(f, g, s)] /\ h = [s \in SUBSET T |-> SumStep(f, h, s)]
  BY DEF SumsDefined
<1>2. IsFiniteSet(T)
  BY FS_Subset
<1> HIDE DEF g, h
<1>3. SUFFICES ASSUME bad # {} PROVE FALSE
  BY DEF g, h
<1>4. PICK U \in bad : \A V \in SUBSET U : V # U => V \notin bad
  <2>1. bad \in SUBSET (SUBSET T)
    OBVIOUS
  <2> HIDE DEF bad
  <2> QED
    BY <1>2, <1>3, <2>1, SmallestSubset
<1>5. g[U] = SumStep(f, g, U) /\ h[U] = SumStep(f, h, U)
  BY <1>1, <1>4
<1>6. CASE U = {}
  BY <1>4, <1>5, <1>6 DEF SumStep
<1>7. CASE U # {}
  <2> DEFINE V == U \ {PickFrom(U)}
  <2>1. V \in SUBSET U /\ V # U
    BY <1>7, PickIsElement
  <2>2. g[V] = h[V]
    BY <1>4, <2>1
  <2> QED
    BY <1>4, <1>5, <1>7, <2>2 DEF SumStep
<1> QED
  BY <1>6, <1>7

\* Over a finite set there are partial sums.
LEMMA SumsExist ==
  ASSUME NEW f, NEW S, IsFiniteSet(S)
  PROVE  SumsDefined(f, S)
<1> DEFINE bad == {U \in SUBSET S : ~SumsDefined(f, U)}
<1>1. SUFFICES ASSUME bad # {} PROVE FALSE
  OBVIOUS
<1>2. PICK U \in bad : \A V \in SUBSET U : V # U => V \notin bad
  <2>1. bad \in SUBSET (SUBSET S)
    OBVIOUS
  <2> HIDE DEF bad
  <2> QED
    BY <1>1, <2>1, SmallestSubset
<1>3. \A V \in SUBSET U : V # U => SumsDefined(f, V) /\ IsFiniteSet(V)
  BY <1>2, FS_Subset
<1> DEFINE Total(s) == PartialSums(f, s)[s]
           Rest(s) == s \ {PickFrom(s)}
           g == [s \in SUBSET U |-> IF s = {} THEN 0 ELSE f[PickFrom(s)] + Total(Rest(s))]
<1>4. \A s \in SUBSET U : s # {} => Rest(s) \in SUBSET s /\ Rest(s) # s
  BY PickIsElement
<1>5. \A s \in SUBSET U : s # U => Total(s) = g[s]
  <2> TAKE s \in SUBSET U
  <2> HAVE s # U
  <2>1. SumsDefined(f, s) /\ IsFiniteSet(s)
    BY <1>3
  <2>2. Total(s) = SumStep(f, PartialSums(f, s), s)
    BY <2>1 DEF SumsDefined
  <2>3. CASE s = {}
    BY <2>2, <2>3 DEF SumStep
  <2>4. CASE s # {}
    <3>1. Rest(s) \in SUBSET s /\ Rest(s) # U /\ SumsDefined(f, Rest(s))
      BY <1>3, <1>4, <2>4
    <3>2. PartialSums(f, s)[Rest(s)] = Total(Rest(s))
      BY <2>1, <3>1, SumsAgree
    <3> QED
      BY <2>2, <2>4, <3>2 DEF SumStep
  <2> QED
    BY <2>3, <2>4
<1>6. \A s \in SUBSET U : g[s] = SumStep(f, g, s)
  <2> TAKE s \in SUBSET U
  <2>1. CASE s = {}
    BY <2>1 DEF SumStep
  <2>2. CASE s # {}
    <3>1. Rest(s) \in SUBSET U /\ Rest(s) # U
      BY <1>4, <2>2
    <3>2. Total(Rest(s)) = g[Rest(s)]
      BY <1>5, <3>1
    <3>3. g[s] = f[PickFrom(s)] + Total(Rest(s))
      BY <2>2
    <3> QED
      BY <2>2, <3>2, <3>3 DEF SumStep
  <2> QED
    BY <2>1, <2>2
<1>7. g = [s \in SUBSET U |-> SumStep(f, g, s)]
  <2>1. g = [s \in SUBSET U |-> g[s]]
    OBVIOUS
  <2> HIDE DEF g
  <2> QED
    BY <1>6, <2>1
<1> HIDE DEF g
<1>8. SumsDefined(f, U)
  BY <1>7, SumsDefinedIfAny
<1> QED
  BY <1>2, <1>8

\* A sum takes one element and goes on with the rest.
LEMMA SumUnfolded ==
  ASSUME NEW f, NEW S, IsFiniteSet(S), S # {}
  PROVE  \E x \in S : SumFunctionOnSet(f, S) = f[x] + SumFunctionOnSet(f, S \ {x})
<1> DEFINE x == PickFrom(S)
           T == S \ {x}
<1>1. x \in S /\ T \in SUBSET S /\ IsFiniteSet(T)
  BY PickIsElement, FS_RemoveElement
<1>2. SumsDefined(f, S) /\ SumsDefined(f, T)
  BY <1>1, SumsExist
<1>3. PartialSums(f, S)[S] = f[x] + PartialSums(f, S)[T]
  <2>1. PartialSums(f, S)[S] = SumStep(f, PartialSums(f, S), S)
    BY <1>2 DEF SumsDefined
  <2> QED
    BY <2>1 DEF SumStep
<1>4. PartialSums(f, S)[T] = PartialSums(f, T)[T]
  BY <1>1, <1>2, SumsAgree
<1> QED
  BY <1>1, <1>3, <1>4, SumIsPartialSum

(***************************************************************************)
(* What sums are                                                           *)
(***************************************************************************)

\* There is nothing to add up.
LEMMA SumOfNone == \A f : SumFunctionOnSet(f, {}) = 0
<1> TAKE f
<1>1. SumsDefined(f, {})
  BY SumsExist, FS_EmptySet
<1>2. PartialSums(f, {})[{}] = SumStep(f, PartialSums(f, {}), {})
  BY <1>1 DEF SumsDefined
<1> QED
  BY <1>2, SumIsPartialSum DEF SumStep

\* A sum of integers is one.
LEMMA SumType ==
  ASSUME NEW f, NEW S, IsFiniteSet(S), \A x \in S : f[x] \in Int
  PROVE  SumFunctionOnSet(f, S) \in Int
<1> DEFINE bad == {U \in SUBSET S : SumFunctionOnSet(f, U) \notin Int}
<1>1. SUFFICES ASSUME bad # {} PROVE FALSE
  OBVIOUS
<1>2. PICK U \in bad : \A V \in SUBSET U : V # U => V \notin bad
  <2>1. bad \in SUBSET (SUBSET S)
    OBVIOUS
  <2> HIDE DEF bad
  <2> QED
    BY <1>1, <2>1, SmallestSubset
<1>3. U # {} /\ IsFiniteSet(U)
  <2>1. SumFunctionOnSet(f, {}) \in Int
    BY SumOfNone
  <2> QED
    BY <1>2, <2>1, FS_Subset
<1>4. PICK x \in U : SumFunctionOnSet(f, U) = f[x] + SumFunctionOnSet(f, U \ {x})
  BY <1>3, SumUnfolded
<1>5. U \ {x} \in SUBSET U /\ U \ {x} # U /\ U \ {x} \in SUBSET S
  BY <1>2, <1>4
<1>6. SumFunctionOnSet(f, U \ {x}) \in Int
  BY <1>2, <1>5
<1>7. f[x] \in Int
  BY <1>2, <1>4
<1> QED
  BY <1>2, <1>4, <1>6, <1>7

\* Any element may be the one that is taken.
LEMMA SumWithout ==
  ASSUME NEW f, NEW S, IsFiniteSet(S), \A x \in S : f[x] \in Int, NEW e \in S
  PROVE  SumFunctionOnSet(f, S) = f[e] + SumFunctionOnSet(f, S \ {e})
<1> DEFINE Wrong(U) == \E x \in U : SumFunctionOnSet(f, U) # f[x] + SumFunctionOnSet(f, U \ {x})
           bad == {U \in SUBSET S : Wrong(U)}
<1>1. SUFFICES ASSUME bad # {} PROVE FALSE
  OBVIOUS
<1>2. PICK U \in bad : \A V \in SUBSET U : V # U => V \notin bad
  <2>1. bad \in SUBSET (SUBSET S)
    OBVIOUS
  <2> HIDE DEF bad
  <2> QED
    BY <1>1, <2>1, SmallestSubset
<1>3. PICK x \in U : SumFunctionOnSet(f, U) # f[x] + SumFunctionOnSet(f, U \ {x})
  BY <1>2
<1>4. IsFiniteSet(U) /\ U \in SUBSET S
  BY <1>2, FS_Subset
<1>5. PICK y \in U : SumFunctionOnSet(f, U) = f[y] + SumFunctionOnSet(f, U \ {y})
  BY <1>3, <1>4, SumUnfolded
<1>6. y # x
  BY <1>3, <1>5
<1> DEFINE R == (U \ {x}) \ {y}
<1>7. SumFunctionOnSet(f, U \ {y}) = f[x] + SumFunctionOnSet(f, R)
  <2>1. U \ {y} \in SUBSET U /\ U \ {y} # U /\ U \ {y} \in SUBSET S /\ x \in U \ {y}
    BY <1>2, <1>3, <1>5, <1>6
  <2>2. ~Wrong(U \ {y})
    BY <1>2, <2>1
  <2>3. (U \ {y}) \ {x} = R
    OBVIOUS
  <2> QED
    BY <2>1, <2>2, <2>3
<1>8. SumFunctionOnSet(f, U \ {x}) = f[y] + SumFunctionOnSet(f, R)
  <2>1. U \ {x} \in SUBSET U /\ U \ {x} # U /\ U \ {x} \in SUBSET S /\ y \in U \ {x}
    BY <1>2, <1>3, <1>5, <1>6
  <2>2. ~Wrong(U \ {x})
    BY <1>2, <2>1
  <2> QED
    BY <2>1, <2>2
<1>9. SumFunctionOnSet(f, R) \in Int /\ f[x] \in Int /\ f[y] \in Int
  <2>1. R \in SUBSET S
    BY <1>4
  <2>2. IsFiniteSet(R) /\ \A z \in R : f[z] \in Int
    BY <2>1, FS_Subset
  <2> HIDE DEF R
  <2> QED
    BY <1>3, <1>4, <1>5, <2>2, SumType
<1> HIDE DEF R
<1> QED
  BY <1>3, <1>5, <1>7, <1>8, <1>9

\* Or be added to it.
LEMMA SumWith ==
  ASSUME NEW f, NEW S, IsFiniteSet(S), NEW e, e \notin S, \A x \in S \cup {e} : f[x] \in Int
  PROVE  /\ SumFunctionOnSet(f, S \cup {e}) = f[e] + SumFunctionOnSet(f, S)
         /\ SumFunctionOnSet(f, S) \in Int
<1> DEFINE T == S \cup {e}
<1>1. IsFiniteSet(T) /\ e \in T /\ T \ {e} = S /\ \A x \in T : f[x] \in Int
  BY FS_AddElement
<1> HIDE DEF T
<1>2. SumFunctionOnSet(f, T) = f[e] + SumFunctionOnSet(f, S)
  BY <1>1, SumWithout
<1> QED
  BY <1>2, SumType DEF T

\* What is zero need not be added up.
LEMMA SumOfSupport ==
  ASSUME NEW f, NEW S, IsFiniteSet(S), NEW T \in SUBSET S,
         \A x \in S : f[x] \in Int, \A x \in S \ T : f[x] = 0
  PROVE  SumFunctionOnSet(f, S) = SumFunctionOnSet(f, T)
<1> DEFINE good == {U \in SUBSET (S \ T) : SumFunctionOnSet(f, T \cup U) = SumFunctionOnSet(f, T)}
<1>1. IsFiniteSet(S \ T) /\ IsFiniteSet(T)
  BY FS_Difference, FS_Subset
<1>2. {} \in good
  <2>1. T \cup {} = T
    OBVIOUS
  <2> QED
    BY <2>1
<1>3. ASSUME NEW U \in SUBSET (S \ T), NEW x \in S \ T, x \notin U, U \in good
      PROVE  U \cup {x} \in good
  <2>1. IsFiniteSet(T \cup U) /\ x \notin T \cup U /\ \A y \in (T \cup U) \cup {x} : f[y] \in Int
    <3>1. T \cup U \in SUBSET S
      OBVIOUS
    <3> QED
      BY <1>3, <3>1, FS_Subset
  <2>2. /\ SumFunctionOnSet(f, (T \cup U) \cup {x}) = f[x] + SumFunctionOnSet(f, T \cup U)
        /\ SumFunctionOnSet(f, T \cup U) \in Int
    BY <2>1, SumWith
  <2>3. SumFunctionOnSet(f, (T \cup U) \cup {x}) = SumFunctionOnSet(f, T)
    <3>1. f[x] = 0 /\ SumFunctionOnSet(f, T \cup U) = SumFunctionOnSet(f, T)
      BY <1>3
    <3> QED
      BY <2>2, <3>1
  <2>4. SumFunctionOnSet(f, T \cup (U \cup {x})) = SumFunctionOnSet(f, T)
    <3>1. (T \cup U) \cup {x} = T \cup (U \cup {x})
      OBVIOUS
    <3> QED
      BY <2>3, <3>1, Zenon
  <2> QED
    BY <1>3, <2>4
<1>4. S \ T \in good
  <2> HIDE DEF good
  <2>1. \A U \in SUBSET (S \ T) : \A x \in S \ T : x \notin U /\ U \in good => U \cup {x} \in good
    BY <1>3
  <2> QED
    BY <1>1, <1>2, <2>1, SetInduction
<1>5. T \cup (S \ T) = S
  OBVIOUS
<1> QED
  BY <1>4, <1>5

\* What was taken and added to the terms is taken and added to the sum.
LEMMA SumOfChanges ==
  ASSUME NEW f, NEW g, NEW h, NEW k, NEW S, IsFiniteSet(S),
         \A x \in S : f[x] \in Int /\ g[x] \in Int /\ h[x] \in Int /\ k[x] = f[x] - g[x] + h[x]
  PROVE  SumFunctionOnSet(k, S) =
           SumFunctionOnSet(f, S) - SumFunctionOnSet(g, S) + SumFunctionOnSet(h, S)
<1> DEFINE Claim(U) == SumFunctionOnSet(k, U) =
                         SumFunctionOnSet(f, U) - SumFunctionOnSet(g, U) + SumFunctionOnSet(h, U)
           good == {U \in SUBSET S : Claim(U)}
<1>1. {} \in good
  BY SumOfNone
<1>2. ASSUME NEW U \in SUBSET S, NEW x \in S, x \notin U, U \in good
      PROVE  U \cup {x} \in good
  <2>1. IsFiniteSet(U)
    BY FS_Subset
  <2>2. k[x] = f[x] - g[x] + h[x] /\ f[x] \in Int /\ g[x] \in Int /\ h[x] \in Int
    OBVIOUS
  <2>3. /\ SumFunctionOnSet(k, U \cup {x}) = k[x] + SumFunctionOnSet(k, U)
        /\ SumFunctionOnSet(f, U \cup {x}) = f[x] + SumFunctionOnSet(f, U)
        /\ SumFunctionOnSet(g, U \cup {x}) = g[x] + SumFunctionOnSet(g, U)
        /\ SumFunctionOnSet(h, U \cup {x}) = h[x] + SumFunctionOnSet(h, U)
        /\ SumFunctionOnSet(f, U) \in Int /\ SumFunctionOnSet(g, U) \in Int /\ SumFunctionOnSet(h, U) \in Int
    <3>1. \A y \in U \cup {x} : f[y] \in Int /\ g[y] \in Int /\ h[y] \in Int /\ k[y] \in Int
      OBVIOUS
    <3> QED
      BY <1>2, <2>1, <3>1, SumWith
  <2>4. Claim(U)
    BY <1>2
  <2>5. Claim(U \cup {x})
    BY <2>2, <2>3, <2>4
  <2>6. U \cup {x} \in SUBSET S
    OBVIOUS
  <2> QED
    BY <2>5, <2>6
<1>3. S \in good
  <2> HIDE DEF good
  <2>1. \A U \in SUBSET S : \A x \in S : x \notin U /\ U \in good => U \cup {x} \in good
    BY <1>2
  <2> QED
    BY <1>1, <2>1, SetInduction
<1> QED
  BY <1>3

\* Terms that are equal have equal sums.
LEMMA SumOfEqual ==
  ASSUME NEW f, NEW g, NEW S, IsFiniteSet(S), \A x \in S : f[x] \in Int /\ g[x] = f[x]
  PROVE  SumFunctionOnSet(g, S) = SumFunctionOnSet(f, S)
<1> DEFINE z == [x \in S |-> 0]
<1>1. \A x \in S : z[x] = 0
  OBVIOUS
<1>2. SumFunctionOnSet(z, S) = SumFunctionOnSet(z, {})
  <2> HIDE DEF z
  <2>1. {} \in SUBSET S /\ \A x \in S : z[x] \in Int
    BY <1>1
  <2> QED
    BY <1>1, <2>1, SumOfSupport
<1> HIDE DEF z
<1>3. SumFunctionOnSet(z, S) = 0 /\ SumFunctionOnSet(f, S) \in Int
  BY <1>2, SumOfNone, SumType
<1>4. SumFunctionOnSet(g, S) = SumFunctionOnSet(f, S) - SumFunctionOnSet(z, S) + SumFunctionOnSet(z, S)
  BY <1>1, SumOfChanges
<1> QED
  BY <1>3, <1>4

\* A sum may be added up by parts: first where g is a, then over all a.
LEMMA SumByParts ==
  ASSUME NEW f, NEW S, IsFiniteSet(S), NEW A, IsFiniteSet(A), NEW g,
         \A x \in S : f[x] \in Int /\ g[x] \in A
  PROVE  SumFunctionOnSet(f, S) =
           SumFunctionOnSet([a \in A |-> SumFunctionOnSet(f, {x \in S : g[x] = a})], A)
<1> DEFINE Part(U, a) == SumFunctionOnSet(f, {x \in U : g[x] = a})
           Parts(U) == [a \in A |-> Part(U, a)]
           good == {U \in SUBSET S : SumFunctionOnSet(f, U) = SumFunctionOnSet(Parts(U), A)}
<1>1. \A U \in SUBSET S : \A a \in A : Part(U, a) \in Int
  <2> TAKE U \in SUBSET S
  <2> TAKE a \in A
  <2> DEFINE P == {x \in U : g[x] = a}
  <2>1. P \in SUBSET S
    OBVIOUS
  <2>2. IsFiniteSet(P) /\ \A x \in P : f[x] \in Int
    BY <2>1, FS_Subset
  <2> HIDE DEF P
  <2>3. SumFunctionOnSet(f, P) \in Int
    BY <2>2, SumType
  <2> QED
    BY <2>3 DEF P
<1>2. {} \in good
  <2>1. \A a \in A : Part({}, a) = 0
    <3> TAKE a \in A
    <3>1. {x \in {} : g[x] = a} = {}
      OBVIOUS
    <3> QED
      BY <3>1, SumOfNone
  <2>2. \A a \in A : Parts({})[a] = 0
    BY <2>1
  <2>3. SumFunctionOnSet(Parts({}), A) = SumFunctionOnSet(Parts({}), {})
    <3> DEFINE z == Parts({})
    <3>1. {} \in SUBSET A /\ \A a \in A : z[a] = 0 /\ z[a] \in Int
      BY <2>2
    <3> HIDE DEF z
    <3>2. SumFunctionOnSet(z, A) = SumFunctionOnSet(z, {})
      BY <3>1, SumOfSupport
    <3> QED
      BY <3>2 DEF z
  <2> QED
    BY <2>3, SumOfNone
<1>3. ASSUME NEW U \in SUBSET S, NEW x \in S, x \notin U, U \in good
      PROVE  U \cup {x} \in good
  <2> DEFINE V == U \cup {x}
             old == Parts(U)
             new == Parts(V)
             a == g[x]
             P == {y \in U : g[y] = a}
  <2>1. IsFiniteSet(U) /\ V \in SUBSET S /\ a \in A /\ f[x] \in Int /\ IsFiniteSet(P)
    <3>1. P \in SUBSET S
      OBVIOUS
    <3> QED
      BY <3>1, FS_Subset
  <2>2. Part(V, a) = f[x] + Part(U, a)
    <3>1. {y \in V : g[y] = a} = P \cup {x}
      OBVIOUS
    <3>2. x \notin P /\ \A y \in P \cup {x} : f[y] \in Int
      BY <1>3
    <3> HIDE DEF P
    <3>3. SumFunctionOnSet(f, P \cup {x}) = f[x] + SumFunctionOnSet(f, P)
      BY <2>1, <3>2, SumWith
    <3> QED
      BY <3>1, <3>3 DEF P
  <2>3. \A b \in A \ {a} : Part(V, b) = Part(U, b)
    <3> TAKE b \in A \ {a}
    <3>1. {y \in V : g[y] = b} = {y \in U : g[y] = b}
      OBVIOUS
    <3> QED
      BY <3>1
  <2>4. /\ \A b \in A : old[b] \in Int /\ new[b] \in Int
        /\ new[a] = f[x] + old[a] /\ \A b \in A \ {a} : new[b] = old[b]
    BY <1>1, <2>1, <2>2, <2>3
  <2>5. SumFunctionOnSet(f, V) = f[x] + SumFunctionOnSet(f, U)
    BY <1>3, <2>1, SumWith
  <2>6. SumFunctionOnSet(f, U) = SumFunctionOnSet(old, A)
    BY <1>3
  <2> HIDE DEF old, new, a, good, Part
  <2>7. /\ SumFunctionOnSet(old, A) = old[a] + SumFunctionOnSet(old, A \ {a})
        /\ SumFunctionOnSet(new, A) = new[a] + SumFunctionOnSet(new, A \ {a})
    BY <2>1, <2>4, SumWithout
  <2>8. /\ SumFunctionOnSet(new, A \ {a}) = SumFunctionOnSet(old, A \ {a})
        /\ SumFunctionOnSet(old, A \ {a}) \in Int
    <3>1. IsFiniteSet(A \ {a}) /\ \A b \in A \ {a} : old[b] \in Int /\ new[b] = old[b]
      BY <2>4, FS_RemoveElement
    <3> QED
      BY <3>1, SumOfEqual, SumType
  <2>9. f[x] \in Int /\ old[a] \in Int
    BY <2>1, <2>4
  <2>10. SumFunctionOnSet(f, V) = SumFunctionOnSet(new, A)
    BY <2>4, <2>5, <2>6, <2>7, <2>8, <2>9
  <2> QED
    BY <2>1, <2>10 DEF good, new
<1>4. S \in good
  <2> HIDE DEF good
  <2>1. \A U \in SUBSET S : \A x \in S : x \notin U /\ U \in good => U \cup {x} \in good
    BY <1>3
  <2> QED
    BY <1>2, <2>1, SetInduction
<1> QED
  BY <1>4

=============================================================================
