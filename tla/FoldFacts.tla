---------------------------- MODULE FoldFacts ----------------------------
(* Induction over the natural numbers and over finite sets in a form that   *)
(* the provers can apply (sets and functions where the library's theorems   *)
(* have operators), and with it what the folds of the models compute: the   *)
(* loops of the code over a queue or a set of requests.                     *)
EXTENDS Integers, FiniteSets, FiniteSetsExt, FiniteSetTheorems, WellFoundedInduction, TLAPS

Below == {p \in Nat \X Nat : p[1] < p[2]}

(* The order of the natural numbers, as a relation, is well-founded. *)
LEMMA BelowIsWellFounded == IsWellFoundedOn(Below, Nat)
BY NatLessThanWellFounded, Zenon DEF OpToRel, Below

(* Induction over the natural numbers, stated with a set in place of a      *)
(* predicate so that the provers can use it. It carries every argument      *)
(* about the loops of the code that the models write as folds.              *)
LEMMA NatSetInduction ==
    ASSUME NEW U, 0 \in U, \A n \in Nat : n \in U => n + 1 \in U
    PROVE  Nat \subseteq U
<1> DEFINE T == Nat \ U
<1> SUFFICES ASSUME T # {} PROVE FALSE
  OBVIOUS
<1>1. PICK x \in T : \A y \in T : <<y, x>> \notin Below
  BY BelowIsWellFounded, WFMin, T \subseteq Nat
<1>2. x \in Nat /\ x # 0
  OBVIOUS
<1>3. x - 1 \in Nat /\ x - 1 + 1 = x
  BY <1>2
<1>4. x - 1 \in T
  BY <1>3
<1>5. <<x - 1, x>> \in Below
  BY <1>2, <1>3 DEF Below
<1> QED
  BY <1>1, <1>4, <1>5

(* a choice function on the non-empty subsets of S *)
Picks(S, pick) == \A s \in SUBSET S : s # {} => pick[s] \in s

(* A loop's rest: removing the element that is taken next leaves a smaller  *)
(* subset.                                                                  *)
LEMMA SmallerByOne ==
    ASSUME NEW S, IsFiniteSet(S), NEW pick, Picks(S, pick), NEW s \in SUBSET S, s # {}
    PROVE  /\ pick[s] \in s
           /\ s \ {pick[s]} \in SUBSET S
           /\ Cardinality(s) \in Nat
           /\ Cardinality(s \ {pick[s]}) \in Nat
           /\ Cardinality(s \ {pick[s]}) = Cardinality(s) - 1
<1>1. pick[s] \in s
  BY DEF Picks
<1>2. IsFiniteSet(s)
  BY FS_Subset
<1>3. Cardinality(s \ {pick[s]}) = Cardinality(s) - 1
  BY <1>1, <1>2, FS_RemoveElement
<1>4. IsFiniteSet(s \ {pick[s]})
  BY <1>2, FS_Subset, s \ {pick[s]} \subseteq s
<1> QED
  BY <1>1, <1>2, <1>3, <1>4, FS_CardinalityType

(* Induction over a finite set along the order in which a loop takes its    *)
(* elements: a set U that contains the empty set, and every subset whose    *)
(* rest it contains, contains S.                                            *)
LEMMA PickInduction ==
    ASSUME NEW S, IsFiniteSet(S), NEW pick, Picks(S, pick), NEW U, {} \in U,
           \A s \in SUBSET S : s # {} /\ s \ {pick[s]} \in U => s \in U
    PROVE  S \in U
<1> DEFINE W == {n \in Nat : \A s \in SUBSET S : Cardinality(s) = n => s \in U}
<1>1. 0 \in W
  <2>1. \A s \in SUBSET S : Cardinality(s) = 0 => s = {}
    BY FS_Subset, FS_EmptySet
  <2> QED
    BY <2>1
<1>2. ASSUME NEW n \in Nat, n \in W PROVE n + 1 \in W
  <2>1. ASSUME NEW s \in SUBSET S, Cardinality(s) = n + 1 PROVE s \in U
    <3>1. s # {}
      BY <2>1, FS_EmptySet
    <3>2. Cardinality(s \ {pick[s]}) = n /\ s \ {pick[s]} \in SUBSET S
      BY <2>1, <3>1, SmallerByOne
    <3> QED
      BY <1>2, <3>1, <3>2
  <2> QED
    BY <2>1
<1>3. Nat \subseteq W
  <2> HIDE DEF W
  <2> QED
    BY <1>1, <1>2, NatSetInduction
<1> QED
  BY <1>3, FS_CardinalityType

IsFold(h, S, pick, base, step) ==
    \A s \in SUBSET S :
        h[s] = IF s = {} THEN base ELSE step[<<pick[s], h[s \ {pick[s]}]>>]

(* A loop over a finite set computes something: some function satisfies the *)
(* loop's recurrence on every subset. MapThenFoldSet, which the models'     *)
(* folds are defined with, chooses that function.                           *)
LEMMA FoldExists ==
    ASSUME NEW S, IsFiniteSet(S), NEW pick, Picks(S, pick),
           NEW D, NEW base \in D, NEW step \in [S \X D -> D]
    PROVE  \E h \in [SUBSET S -> D] : IsFold(h, S, pick, base, step)
<1> DEFINE Next(h) == [s \in SUBSET S |-> IF s = {} THEN base
                                          ELSE step[<<pick[s], h[s \ {pick[s]}]>>]]
           Fixed(h, n) == \A s \in SUBSET S : Cardinality(s) =< n => h[s] = Next(h)[s]
           W == {n \in Nat : \E h \in [SUBSET S -> D] : Fixed(h, n)}
<1>0. ASSUME NEW h \in [SUBSET S -> D] PROVE Next(h) \in [SUBSET S -> D]
  <2>1. ASSUME NEW s \in SUBSET S, s # {} PROVE step[<<pick[s], h[s \ {pick[s]}]>>] \in D
    BY <2>1 DEF Picks
  <2> QED
    BY <2>1
<1>1. 0 \in W
  <2>1. \A s \in SUBSET S : Cardinality(s) =< 0 => s = {}
    BY FS_Subset, FS_EmptySet, FS_CardinalityType
  <2>2. [s \in SUBSET S |-> base] \in [SUBSET S -> D]
    OBVIOUS
  <2>3. Fixed([s \in SUBSET S |-> base], 0)
    BY <2>1
  <2> QED
    BY <2>2, <2>3
<1>2. ASSUME NEW n \in Nat, n \in W PROVE n + 1 \in W
  <2>1. PICK h \in [SUBSET S -> D] : Fixed(h, n)
    BY <1>2
  <2>2. Next(h) \in [SUBSET S -> D]
    BY <1>0
  <2>3. ASSUME NEW s \in SUBSET S, Cardinality(s) =< n + 1
        PROVE  Next(h)[s] = Next(Next(h))[s]
    <3>1. CASE s = {}
      BY <3>1
    <3>2. CASE s # {}
      <4>1. s \ {pick[s]} \in SUBSET S /\ Cardinality(s \ {pick[s]}) =< n
        BY <2>3, <3>2, SmallerByOne
      <4>2. h[s \ {pick[s]}] = Next(h)[s \ {pick[s]}]
        BY <2>1, <4>1
      <4> QED
        BY <3>2, <4>1, <4>2
    <3> QED
      BY <3>1, <3>2
  <2>4. Fixed(Next(h), n + 1)
    BY <2>3
  <2> HIDE DEF Next, Fixed
  <2> QED
    BY <2>2, <2>4
<1>3. Nat \subseteq W
  <2> HIDE DEF W
  <2> QED
    BY <1>1, <1>2, NatSetInduction
<1>4. PICK h \in [SUBSET S -> D] : Fixed(h, Cardinality(S))
  BY <1>3, FS_CardinalityType
<1>5. \A s \in SUBSET S : Cardinality(s) =< Cardinality(S)
  BY FS_Subset
<1> QED
  BY <1>4, <1>5 DEF IsFold

(* The largest element of a non-empty set of positions is one of them. *)
LEMMA LargestPicked ==
    ASSUME NEW n \in Nat, NEW s \in SUBSET (1 .. n), s # {}
    PROVE  Max(s) \in s
<1> DEFINE T == {n - i : i \in s}
<1>1. T \subseteq Nat /\ T # {}
  OBVIOUS
<1>2. PICK x \in T : \A y \in T : <<y, x>> \notin Below
  BY <1>1, BelowIsWellFounded, WFMin
<1>3. PICK i \in s : x = n - i
  OBVIOUS
<1>4. ASSUME NEW j \in s PROVE i >= j
  <2>1. n - j \in T /\ n - j \in Nat /\ x \in Nat
    BY <1>1
  <2>2. ~(n - j < x)
    BY <1>2, <2>1 DEF Below
  <2> QED
    BY <1>3, <2>2
<1>5. \E k \in s : \A j \in s : k >= j
  BY <1>4
<1> QED
  BY <1>5, Zenon DEF Max

(* The loops over the positions of a sequence may take the largest position *)
(* next.                                                                    *)
LEMMA IntervalPicks ==
    ASSUME NEW n \in Nat
    PROVE  IsFiniteSet(1 .. n) /\ Picks(1 .. n, [s \in SUBSET (1 .. n) |-> Max(s)])
<1>1. IsFiniteSet(1 .. n)
  BY FS_Interval
<1>2. \A s \in SUBSET (1 .. n) : s # {} => Max(s) \in s
  BY LargestPicked
<1> QED
  BY <1>1, <1>2 DEF Picks

(* The loops over a set may take an arbitrary element next. *)
LEMMA ChoicePicks ==
    ASSUME NEW S
    PROVE  Picks(S, [s \in SUBSET S |-> CHOOSE x \in s : TRUE])
BY DEF Picks
=============================================================================
