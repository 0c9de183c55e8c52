------------------------------- MODULE Ranks -------------------------------
(***************************************************************************)
(* The position of a number in a finite set of numbers: a loop over the    *)
(* cores (dispatch.sv) or over the channels and the consumers              *)
(* (memory_controller.sv) visits the members of such a set in this order.  *)
(***************************************************************************)
EXTENDS Integers, FiniteSets, FiniteSetTheorems, TLAPS

\* The numbers below a bound form a finite set, as do their subsets.
LEMMA BelowFinite ==
  ASSUME NEW n \in Nat, NEW S \in SUBSET (0 .. n - 1)
  PROVE  /\ IsFiniteSet(S) /\ Cardinality(S) \in Nat
         /\ \A c \in S : c \in Int
  <1>1. n - 1 \in Int /\ 0 \in Int
    OBVIOUS
  <1>2. IsFiniteSet(0 .. n - 1)
    BY <1>1, FS_Interval
  <1>3. IsFiniteSet(S)
    BY <1>2, FS_Subset
  <1>4. Cardinality(S) \in Nat
    BY <1>3, FS_CardinalityType
  <1>. QED BY <1>3, <1>4

\* How many members of S are below c.
Rank(S, c) == Cardinality({d \in S : d < c})

\* A member of a finite set of naturals has fewer members below it than there
\* are in all, and members have different ranks.
LEMMA RankBounds ==
  ASSUME NEW n \in Nat, NEW S \in SUBSET (0 .. n - 1), NEW c \in S
  PROVE  /\ IsFiniteSet(S)
         /\ Rank(S, c) \in 0 .. Cardinality(S) - 1
         /\ \A d \in S : c < d => Rank(S, c) < Rank(S, d)
  <1>1. IsFiniteSet(S) /\ \A d \in S : d \in Int
    BY BelowFinite
  <1>2. ASSUME NEW T \in SUBSET S, {d \in S : d < c} \cup {c} \subseteq T
        PROVE  Rank(S, c) \in Nat /\ Rank(S, c) < Cardinality(T)
    <2>. DEFINE B == {d \in S : d < c}
    <2>1. IsFiniteSet(B) /\ IsFiniteSet(T)
      BY <1>1, FS_Subset
    <2>2. c \notin B
      OBVIOUS
    <2>3. Cardinality(B) \in Nat /\ Cardinality(T) \in Nat
      BY <2>1, FS_CardinalityType
    <2>4. Cardinality(B \cup {c}) = Cardinality(B) + 1
      BY <2>1, <2>2, FS_AddElement
    <2>5. Cardinality(B \cup {c}) <= Cardinality(T)
      BY <1>2, <2>1, FS_Subset
    <2>. QED BY <2>3, <2>4, <2>5 DEF Rank
  <1>3. Rank(S, c) \in 0 .. Cardinality(S) - 1
    <2>1. {d \in S : d < c} \cup {c} \subseteq S
      OBVIOUS
    <2>2. Cardinality(S) \in Nat
      BY <1>1, FS_CardinalityType
    <2>. QED BY <1>2, <2>1, <2>2
  <1>4. ASSUME NEW d \in S, c < d PROVE Rank(S, c) < Rank(S, d)
    <2>. DEFINE T == {e \in S : e < d}
    <2>0. \A e \in S : e < c => e < d
      BY <1>1, <1>4
    <2>1. {e \in S : e < c} \cup {c} \subseteq T
      BY <1>4, <2>0
    <2>. QED BY <1>2, <2>1 DEF Rank
  <1>. QED BY <1>1, <1>3, <1>4

\* Every rank below the cardinality is taken.
LEMMA RankOnto ==
  ASSUME NEW n \in Nat, NEW S \in SUBSET (0 .. n - 1),
         NEW k \in 0 .. Cardinality(S) - 1
  PROVE  \E c \in S : Rank(S, c) = k
  <1>. DEFINE R == 0 .. Cardinality(S) - 1
              f == [c \in S |-> Rank(S, c)]
  <1>1. IsFiniteSet(S) /\ Cardinality(S) \in Nat
    BY BelowFinite
  <1>2. IsFiniteSet(R) /\ Cardinality(R) = Cardinality(S)
    <2>. DEFINE top == Cardinality(S) - 1
    <2>1. top \in Int /\ 0 \in Int
      BY <1>1
    <2>2. /\ IsFiniteSet(0 .. top)
          /\ Cardinality(0 .. top) = IF 0 > top THEN 0 ELSE top - 0 + 1
      <3>. HIDE DEF top
      <3>. QED BY <2>1, FS_Interval
    <2>. QED BY <1>1, <2>2
  <1>3. \A c \in S : /\ Rank(S, c) \in R
                     /\ \A d \in S : c < d => Rank(S, c) < Rank(S, d)
    <2>. SUFFICES ASSUME NEW c \in S
                  PROVE  /\ Rank(S, c) \in R
                         /\ \A d \in S : c < d => Rank(S, c) < Rank(S, d)
      OBVIOUS
    <2>. QED BY RankBounds
  <1>4. \A c, d \in S : f[c] = f[d] => c = d
    <2>. SUFFICES ASSUME NEW c \in S, NEW d \in S, Rank(S, c) = Rank(S, d), c # d
                  PROVE  FALSE
      OBVIOUS
    <2>1. c < d \/ d < c
      BY BelowFinite
    <2>2. Rank(S, c) \in Int /\ Rank(S, d) \in Int
      BY <1>1, <1>3
    <2>3. Rank(S, c) < Rank(S, d) \/ Rank(S, d) < Rank(S, c)
      BY <1>3, <2>1
    <2>. QED BY <2>2, <2>3
  <1>5. f \in Injection(S, R)
    BY <1>3, <1>4 DEF Injection, IsInjective
  <1>6. f \in Surjection(S, R)
    BY <1>2, <1>5, FS_Injection
  <1>7. \E c \in S : f[c] = k
    BY <1>6 DEF Surjection
  <1>. QED BY <1>7

\* Members with the same rank are the same: a loop visits each once.
LEMMA RankInjective ==
  ASSUME NEW n \in Nat, NEW S \in SUBSET (0 .. n - 1),
         NEW c \in S, NEW d \in S, Rank(S, c) = Rank(S, d)
  PROVE  c = d
  <1>1. SUFFICES ASSUME c # d PROVE FALSE
    OBVIOUS
  <1>2. c < d \/ d < c
    BY <1>1, BelowFinite
  <1>3. Rank(S, c) < Rank(S, d) \/ Rank(S, d) < Rank(S, c)
    BY <1>2, RankBounds
  <1>4. Rank(S, c) \in Int /\ Rank(S, d) \in Int
    BY RankBounds, BelowFinite
  <1>. QED BY <1>3, <1>4
=============================================================================
