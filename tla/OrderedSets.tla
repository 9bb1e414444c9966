------------------------------ MODULE OrderedSets ------------------------------
(***************************************************************************)
(* Lemmas on finite sets of integers, which the timestamps of snapshots and *)
(* the ranks of a communicator are: every position in their order is taken, *)
(* the newest and the oldest exist.                                         *)
(***************************************************************************)
EXTENDS Integers, FiniteSets, FiniteSetsExt, FiniteSetTheorems, TLAPS

\* The members of S that come after t, and those that come before it.
Newer(S, t) == {u \in S : u > t}
Older(S, t) == {u \in S : u < t}

LEMMA NewerFacts ==
  ASSUME NEW S, S \subseteq Int, IsFiniteSet(S), NEW t \in S
  PROVE  /\ IsFiniteSet(Newer(S, t)) /\ Newer(S, t) \subseteq S \ {t}
         /\ Cardinality(Newer(S, t)) \in 0 .. Cardinality(S) - 1
         /\ Cardinality(S) \in Nat \ {0}
         /\ Cardinality(Newer(S, t)) = Cardinality(S) - 1 => Newer(S, t) = S \ {t}
<1>1. Newer(S, t) \in SUBSET (S \ {t})
  BY DEF Newer
<1>2. IsFiniteSet(S \ {t}) /\ Cardinality(S \ {t}) = Cardinality(S) - 1
  BY FS_RemoveElement
<1>3. /\ IsFiniteSet(Newer(S, t)) /\ Cardinality(Newer(S, t)) <= Cardinality(S \ {t})
      /\ Cardinality(S \ {t}) = Cardinality(Newer(S, t)) => S \ {t} = Newer(S, t)
  BY <1>1, <1>2, FS_Subset
<1>4. Cardinality(S) \in Nat /\ Cardinality(S \ {t}) \in Nat /\ Cardinality(Newer(S, t)) \in Nat
  BY <1>2, <1>3, FS_CardinalityType
<1>5. QED
  BY <1>1, <1>2, <1>3, <1>4

LEMMA NewerDecreases ==
  ASSUME NEW S, S \subseteq Int, IsFiniteSet(S), NEW t \in S, NEW u \in S, t < u
  PROVE  Cardinality(Newer(S, u)) < Cardinality(Newer(S, t))
<1>1. IsFiniteSet(Newer(S, t)) /\ IsFiniteSet(Newer(S, u))
  BY NewerFacts
<1>2. Newer(S, u) \in SUBSET Newer(S, t) /\ u \in Newer(S, t) /\ u \notin Newer(S, u)
  <2>1. ASSUME NEW x \in Newer(S, u) PROVE x \in Newer(S, t)
    <3>1. x \in Int /\ u \in Int /\ t \in Int /\ x > u
      BY <2>1 DEF Newer
    <3>2. QED
      BY <2>1, <3>1 DEF Newer
  <2>2. t \in Int /\ u \in Int /\ u > t /\ ~(u > u)
    OBVIOUS
  <2>3. QED
    BY <2>1, <2>2 DEF Newer
<1>3. /\ Cardinality(Newer(S, u)) <= Cardinality(Newer(S, t))
      /\ Cardinality(Newer(S, t)) = Cardinality(Newer(S, u)) => Newer(S, t) = Newer(S, u)
  BY <1>1, <1>2, FS_Subset
<1>4. Cardinality(Newer(S, u)) \in Nat /\ Cardinality(Newer(S, t)) \in Nat
  BY <1>1, FS_CardinalityType
<1>5. QED
  BY <1>2, <1>3, <1>4

\* Every position is taken.
LEMMA PositionTaken ==
  ASSUME NEW S, S \subseteq Int, IsFiniteSet(S), NEW i \in 0 .. Cardinality(S) - 1
  PROVE  \E t \in S : Cardinality(Newer(S, t)) = i
<1> DEFINE T == 0 .. Cardinality(S) - 1
           f == [t \in S |-> Cardinality(Newer(S, t))]
<1>1. Cardinality(S) \in Nat
  BY FS_CardinalityType
<1>2. IsFiniteSet(T) /\ Cardinality(T) = Cardinality(S)
  BY <1>1, FS_Interval
<1>3. f \in [S -> T]
  BY NewerFacts
<1>4. ASSUME NEW t \in S, NEW u \in S, t # u
      PROVE  f[t] # f[u]
  <2>1. f[t] = Cardinality(Newer(S, t)) /\ f[u] = Cardinality(Newer(S, u)) /\ f[t] \in Int /\ f[u] \in Int
    BY <1>1, <1>3
  <2>2. t < u => f[u] < f[t]
    BY <2>1, NewerDecreases
  <2>3. u < t => f[t] < f[u]
    BY <2>1, NewerDecreases
  <2>4. t < u \/ u < t
    BY <1>4
  <2>5. QED
    BY <2>1, <2>2, <2>3, <2>4
<1>5. f \in Injection(S, T)
  BY <1>3, <1>4 DEF Injection, IsInjective
<1>6. f \in Surjection(S, T)
  BY <1>2, <1>5, FS_Injection
<1>7. QED
  BY <1>6 DEF Surjection

LEMMA OlderPositionTaken ==
  ASSUME NEW S, S \subseteq Int, IsFiniteSet(S), NEW i \in 0 .. Cardinality(S) - 1
  PROVE  \E t \in S : Cardinality(Older(S, t)) = i
<1>1. PICK k \in Nat : k = Cardinality(S)
  BY FS_CardinalityType
<1>2. PICK t \in S : Cardinality(Newer(S, t)) = k - 1 - i
  <2>1. k - 1 - i \in 0 .. Cardinality(S) - 1
    BY <1>1
  <2>2. QED
    BY <2>1, PositionTaken
<1>3. IsFiniteSet(Newer(S, t)) /\ Newer(S, t) \in SUBSET (S \ {t})
  BY NewerFacts
<1>4. IsFiniteSet(S \ {t}) /\ Cardinality(S \ {t}) = k - 1
  BY <1>1, FS_RemoveElement
<1>5. Older(S, t) = (S \ {t}) \ Newer(S, t)
  <2>1. ASSUME NEW u \in S PROVE u < t <=> u # t /\ ~(u > t)
    <3>1. u \in Int /\ t \in Int
      OBVIOUS
    <3>2. QED
      BY <3>1
  <2>2. QED
    BY <2>1 DEF Older, Newer
<1>6. Cardinality((S \ {t}) \ Newer(S, t)) = Cardinality(S \ {t}) - Cardinality((S \ {t}) \cap Newer(S, t))
  BY <1>4, FS_Difference
<1>7. (S \ {t}) \cap Newer(S, t) = Newer(S, t)
  BY <1>3
<1>8. Cardinality(Older(S, t)) = i
  <2>1. Cardinality(Older(S, t)) = (k - 1) - (k - 1 - i)
    BY <1>2, <1>4, <1>5, <1>6, <1>7
  <2>2. i \in Int /\ (k - 1) - (k - 1 - i) = i
    BY <1>1
  <2>3. QED
    BY <2>1, <2>2
<1>9. QED
  BY <1>8

LEMMA MaxOf ==
  ASSUME NEW S, S \subseteq Int, IsFiniteSet(S), S # {}
  PROVE  Max(S) \in S /\ (\A t \in S : t <= Max(S)) /\ Newer(S, Max(S)) = {}
<1>1. Cardinality(S) \in Nat \ {0}
  BY FS_CardinalityType, FS_EmptySet
<1>2. PICK t \in S : Cardinality(Newer(S, t)) = 0
  <2>1. 0 \in 0 .. Cardinality(S) - 1
    BY <1>1
  <2>2. QED
    BY <2>1, PositionTaken
<1>3. Newer(S, t) = {}
  BY <1>2, NewerFacts, FS_EmptySet
<1>4. \A u \in S : t >= u
  BY <1>3 DEF Newer
<1>5. Max(S) \in S /\ \A u \in S : Max(S) >= u
  BY <1>4 DEF Max
<1>6. \A u \in S : u <= Max(S) /\ ~(u > Max(S))
  <2>1. ASSUME NEW u \in S PROVE u <= Max(S) /\ ~(u > Max(S))
    <3>1. u \in Int /\ Max(S) \in Int /\ Max(S) >= u
      BY <1>5
    <3>2. QED
      BY <3>1
  <2>2. QED
    BY <2>1
<1>7. QED
  BY <1>5, <1>6 DEF Newer

LEMMA MinOf ==
  ASSUME NEW S, S \subseteq Int, IsFiniteSet(S), S # {}
  PROVE  Min(S) \in S /\ (\A t \in S : Min(S) <= t)
<1>1. Cardinality(S) \in Nat \ {0}
  BY FS_CardinalityType, FS_EmptySet
<1>2. PICK t \in S : Cardinality(Newer(S, t)) = Cardinality(S) - 1
  <2>1. Cardinality(S) - 1 \in 0 .. Cardinality(S) - 1
    BY <1>1
  <2>2. QED
    BY <2>1, PositionTaken
<1>3. Newer(S, t) = S \ {t}
  BY <1>2, NewerFacts
<1>4. \A u \in S : t <= u
  BY <1>3 DEF Newer
<1>5. Min(S) \in S /\ \A u \in S : Min(S) =< u
  BY <1>4 DEF Min
<1>6. QED
  BY <1>5

=============================================================================
