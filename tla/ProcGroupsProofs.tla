--------------------------- MODULE ProcGroupsProofs ---------------------------
(***************************************************************************)
(* Facts about rebuild_proc_groups that hold for every number of processes  *)
(* and spares, whatever set of processes has failed.                        *)
(***************************************************************************)
EXTENDS ProcGroups, FunctionTheorems, FiniteSetTheorems, TLAPS

LEMMA ProcsFacts ==
  /\ NProcs \in Nat /\ Spares \in Nat /\ NActive \in Nat /\ NActive > 0 /\ NActive <= NProcs
  /\ Procs \subseteq Nat /\ Procs \subseteq Int
  /\ IsFiniteSet(Procs)
  /\ MPI_UNDEFINED \notin Procs /\ MPI_UNDEFINED \in Int
<1>1. IsFiniteSet(Procs)
  BY ProcsAssumption, FS_Interval DEF Procs
<1>2. QED
  BY <1>1, ProcsAssumption DEF Procs, NActive, MPI_UNDEFINED

-----------------------------------------------------------------------------
(***************************************************************************)
(* Ranks in an ascending enumeration.                                       *)
(***************************************************************************)

\* The position of a member of a finite set lies between 0 and its size.
LEMMA IndexInRange ==
  ASSUME NEW S, S \subseteq Int, IsFiniteSet(S), NEW x \in S
  PROVE  /\ IndexIn(S, x) \in 0 .. Cardinality(S) - 1
         /\ IsFiniteSet({y \in S : y < x})
<1> DEFINE B == {y \in S : y < x}
<1>1. x \notin B
  OBVIOUS
<1>2. IsFiniteSet(B) /\ Cardinality(B) <= Cardinality(S)
      /\ (Cardinality(S) = Cardinality(B) => S = B)
  BY FS_Subset
<1>3. Cardinality(B) \in Nat /\ Cardinality(S) \in Nat
  BY <1>2, FS_CardinalityType
<1>4. Cardinality(B) # Cardinality(S)
  BY <1>1, <1>2
<1>5. QED
  BY <1>2, <1>3, <1>4 DEF IndexIn

\* Positions follow the order of the members.
LEMMA IndexInMonotonic ==
  ASSUME NEW S, S \subseteq Int, IsFiniteSet(S), NEW x \in S, NEW z \in S, x < z
  PROVE  IndexIn(S, x) < IndexIn(S, z)
<1> DEFINE B == {y \in S : y < x}
           C == {y \in S : y < z}
<1>1. IsFiniteSet(C)
  BY IndexInRange
<1>2. B \in SUBSET C
  <2>1. ASSUME NEW y \in B PROVE y \in C
    <3>1. y \in Int /\ x \in Int /\ z \in Int /\ y < x
      OBVIOUS
    <3>2. y < z
      BY <3>1
    <3>3. QED
      BY <3>2
  <2>2. QED
    BY <2>1
<1>3. x \in C /\ x \notin B
  OBVIOUS
<1>4. Cardinality(B) <= Cardinality(C) /\ (Cardinality(C) = Cardinality(B) => C = B)
      /\ IsFiniteSet(B)
  BY <1>1, <1>2, FS_Subset
<1>5. Cardinality(B) \in Nat /\ Cardinality(C) \in Nat
  BY <1>1, <1>4, FS_CardinalityType
<1>6. QED
  BY <1>3, <1>4, <1>5 DEF IndexIn

\* Every position below the size of the set is taken, by exactly one member.
LEMMA NthExists ==
  ASSUME NEW S, S \subseteq Int, IsFiniteSet(S), NEW i \in 0 .. Cardinality(S) - 1
  PROVE  Nth(S, i) \in S /\ IndexIn(S, Nth(S, i)) = i
<1> DEFINE T == 0 .. Cardinality(S) - 1
           f == [x \in S |-> IndexIn(S, x)]
<1>1. Cardinality(S) \in Nat
  BY FS_CardinalityType
<1>2. IsFiniteSet(T) /\ Cardinality(T) = Cardinality(S)
  BY <1>1, FS_Interval
<1>3. f \in [S -> T]
  BY IndexInRange
<1>4. ASSUME NEW x \in S, NEW z \in S, x # z
      PROVE  f[x] # f[z]
  <2>1. f[x] = IndexIn(S, x) /\ f[z] = IndexIn(S, z) /\ f[x] \in Int /\ f[z] \in Int
    BY <1>1, <1>3
  <2>2. CASE x < z
    <3>1. IndexIn(S, x) < IndexIn(S, z)
      BY <2>2, IndexInMonotonic
    <3>2. QED
      BY <2>1, <3>1
  <2>3. CASE z < x
    <3>1. IndexIn(S, z) < IndexIn(S, x)
      BY <2>3, IndexInMonotonic
    <3>2. QED
      BY <2>1, <3>1
  <2>4. x < z \/ z < x
    BY <1>4
  <2>5. QED
    BY <2>2, <2>3, <2>4
<1>5. f \in Injection(S, T)
  BY <1>3, <1>4 DEF Injection, IsInjective
<1>6. f \in Surjection(S, T)
  BY <1>2, <1>5, FS_Injection
<1>7. PICK x \in S : f[x] = i
  BY <1>6 DEF Surjection
<1>8. QED
  BY <1>7 DEF Nth

LEMMA NthOfIndex ==
  ASSUME NEW S, S \subseteq Int, IsFiniteSet(S), NEW x \in S
  PROVE  Nth(S, IndexIn(S, x)) = x
<1> DEFINE i == IndexIn(S, x)
           z == Nth(S, i)
<1>1. i \in 0 .. Cardinality(S) - 1
  BY IndexInRange
<1>2. z \in S /\ IndexIn(S, z) = i
  BY <1>1, NthExists
<1>3. i \in Int
  BY <1>1, FS_CardinalityType
<1>4. CASE x < z
  <2>1. IndexIn(S, x) < IndexIn(S, z)
    BY <1>2, <1>4, IndexInMonotonic
  <2>2. QED
    BY <1>2, <1>3, <2>1
<1>5. CASE z < x
  <2>1. IndexIn(S, z) < IndexIn(S, x)
    BY <1>2, <1>5, IndexInMonotonic
  <2>2. QED
    BY <1>2, <1>3, <2>1
<1>6. x \in Int /\ z \in Int
  BY <1>2
<1>7. CASE x = z
  BY <1>7
<1>8. QED
  BY <1>4, <1>5, <1>6, <1>7

\* Erasing elements of a sequence leaves a sequence over the same set.
LEMMA PickedIsSeq ==
  ASSUME NEW T, NEW s \in Seq(T), NEW I \in SUBSET (DOMAIN s)
  PROVE  Picked(s, I) \in Seq(T)
<1>1. Len(s) \in Nat /\ DOMAIN s = 1 .. Len(s)
  OBVIOUS
<1>2. IsFiniteSet(I) /\ I \subseteq Int
  <2>1. IsFiniteSet(DOMAIN s)
    BY <1>1, FS_Interval
  <2>2. IsFiniteSet(I)
    BY <2>1, FS_Subset
  <2>3. QED
    BY <1>1, <2>2
<1>3. Cardinality(I) \in Nat
  BY <1>2, FS_CardinalityType
<1>4. ASSUME NEW k \in 1 .. Cardinality(I) PROVE s[Nth(I, k - 1)] \in T
  <2>1. k - 1 \in 0 .. Cardinality(I) - 1
    BY <1>3
  <2>2. Nth(I, k - 1) \in I
    BY <2>1, <1>2, NthExists
  <2>3. QED
    BY <2>2
<1>5. Picked(s, I) \in [1 .. Cardinality(I) -> T]
  BY <1>4 DEF Picked
<1>6. QED
  BY <1>3, <1>5

\* What is left are the elements at the chosen indices, each at the place of its index among them.
LEMMA PickedElements ==
  ASSUME NEW s, NEW I, I \subseteq Int, IsFiniteSet(I)
  PROVE  /\ DOMAIN Picked(s, I) = 1 .. Cardinality(I)
         /\ \A k \in DOMAIN Picked(s, I) : \E i \in I : Picked(s, I)[k] = s[i] /\ IndexIn(I, i) = k - 1
         /\ \A i \in I : IndexIn(I, i) + 1 \in DOMAIN Picked(s, I)
                           /\ Picked(s, I)[IndexIn(I, i) + 1] = s[i]
         /\ {Picked(s, I)[k] : k \in DOMAIN Picked(s, I)} = {s[i] : i \in I}
<1> DEFINE n == Cardinality(I)
           Q == Picked(s, I)
<1>1. n \in Nat
  BY FS_CardinalityType
<1>2. DOMAIN Q = 1 .. n /\ \A k \in 1 .. n : Q[k] = s[Nth(I, k - 1)]
  BY DEF Picked
<1>3. ASSUME NEW k \in DOMAIN Q
      PROVE  \E i \in I : Q[k] = s[i] /\ IndexIn(I, i) = k - 1
  <2>1. k \in 1 .. n /\ k - 1 \in 0 .. Cardinality(I) - 1
    BY <1>1, <1>2
  <2>2. Nth(I, k - 1) \in I /\ IndexIn(I, Nth(I, k - 1)) = k - 1
    BY <2>1, NthExists
  <2>3. QED
    BY <1>2, <2>1, <2>2
<1>4. ASSUME NEW i \in I
      PROVE  IndexIn(I, i) + 1 \in DOMAIN Q /\ Q[IndexIn(I, i) + 1] = s[i]
  <2>1. IndexIn(I, i) \in 0 .. n - 1
    BY IndexInRange
  <2>2. Nth(I, IndexIn(I, i)) = i
    BY NthOfIndex
  <2>3. IndexIn(I, i) + 1 \in 1 .. n /\ (IndexIn(I, i) + 1) - 1 = IndexIn(I, i)
    BY <1>1, <2>1
  <2>4. QED
    BY <1>2, <2>2, <2>3
<1>5. QED
  BY <1>2, <1>3, <1>4

-----------------------------------------------------------------------------
(***************************************************************************)
(* rebuild_proc_groups.                                                     *)
(***************************************************************************)

LEMMA InitialGroupsWellFormed == WellFormed(InitialGroups)
<1> USE ProcsFacts
<1> DEFINE g == InitialGroups
<1>1. g \in Groups
  <2>1. NActive .. NProcs - 1 \in SUBSET Procs
    BY DEF Procs
  <2>2. g.user_procs \in Seq(Procs)
    BY DEF InitialGroups, Procs
  <2>3. g.pid_to_rank \in [Procs -> 0 .. NActive - 1 \cup {MPI_UNDEFINED}]
    BY DEF InitialGroups, Procs
  <2>4. g.rank_to_pid \in [0 .. NActive - 1 -> Procs \cup {MPI_UNDEFINED}]
    BY DEF InitialGroups, Procs
  <2>5. QED
    BY <2>1, <2>2, <2>3, <2>4 DEF InitialGroups, Groups
<1>2. DOMAIN g.user_procs = 1 .. NActive /\ \A i \in 1 .. NActive : g.user_procs[i] = i - 1
  BY DEF InitialGroups
<1>3. UserSet(g) = 0 .. NActive - 1
  <2>1. ASSUME NEW u \in 0 .. NActive - 1 PROVE u \in UserSet(g)
    <3>1. u + 1 \in 1 .. NActive /\ g.user_procs[u + 1] = u
      BY <1>2
    <3>2. QED
      BY <1>2, <3>1 DEF UserSet
  <2>2. ASSUME NEW u \in UserSet(g) PROVE u \in 0 .. NActive - 1
    <3>1. PICK i \in 1 .. NActive : u = g.user_procs[i]
      BY <1>2 DEF UserSet
    <3>2. QED
      BY <1>2, <3>1
  <2>3. QED
    BY <2>1, <2>2
<1>4. g.spare_procs = NActive .. NProcs - 1 /\ g.world = 0 .. NProcs - 1
  BY DEF InitialGroups, Procs
<1>5. g.world = UserSet(g) \cup g.spare_procs
  BY <1>3, <1>4
<1>6. \A u \in UserSet(g), s \in g.spare_procs : u < s
  BY <1>3, <1>4
<1>7. \A i, j \in DOMAIN g.user_procs : g.user_procs[i] = g.user_procs[j] => i = j
  BY <1>2
<1>8. QED
  BY <1>1, <1>5, <1>6, <1>7 DEF WellFormed

(***************************************************************************)
(* The replacement loop: distinct dead users get distinct live spares, and  *)
(* the spares it leaves are above all those it takes.                       *)
(***************************************************************************)
LEMMA ReplacementFacts ==
  ASSUME NEW g, WellFormed(g), NEW world \in SUBSET g.world
  PROVE  LET D == DeadUsers(g, world)
             L == LiveSpares(g, world)
             R == Replaced(g, world)
         IN  /\ \A i \in R : SparePid(g, world, i) \in L
             /\ \A i, j \in R : SparePid(g, world, i) = SparePid(g, world, j) => i = j
             /\ \A i \in R, s \in L : s < SparePid(g, world, i)
                   => \E j \in R : SparePid(g, world, j) = s
             /\ D \subseteq Int /\ IsFiniteSet(D) /\ D \subseteq DOMAIN g.user_procs
             /\ L \subseteq Procs /\ R \subseteq D
             /\ IsFiniteSet(DOMAIN g.user_procs) /\ DOMAIN g.user_procs \subseteq Int
<1> DEFINE D == DeadUsers(g, world)
           L == LiveSpares(g, world)
           R == Replaced(g, world)
           pid(i) == SparePid(g, world, i)
<1>1. g \in Groups
  BY DEF WellFormed
<1>2. g.user_procs \in Seq(Procs) /\ g.spare_procs \in SUBSET Procs
  BY <1>1 DEF Groups
<1>3. Len(g.user_procs) \in Nat /\ DOMAIN g.user_procs = 1 .. Len(g.user_procs)
  BY <1>2
<1>4. IsFiniteSet(DOMAIN g.user_procs) /\ DOMAIN g.user_procs \subseteq Int
  BY <1>3, FS_Interval
<1>5. D \subseteq DOMAIN g.user_procs /\ IsFiniteSet(D) /\ D \subseteq Int
  <2>1. D \in SUBSET DOMAIN g.user_procs
    BY DEF DeadUsers
  <2>2. IsFiniteSet(D)
    BY <1>4, <2>1, FS_Subset
  <2>3. QED
    BY <1>4, <2>1, <2>2
<1>6. L \subseteq Procs /\ IsFiniteSet(L) /\ L \subseteq Int
  <2>1. L \in SUBSET Procs
    BY <1>2 DEF LiveSpares
  <2>2. IsFiniteSet(L)
    BY <2>1, ProcsFacts, FS_Subset
  <2>3. QED
    BY <2>1, <2>2, ProcsFacts
<1>7. R \subseteq D
  BY DEF Replaced
<1>8. Cardinality(D) \in Nat /\ Cardinality(L) \in Nat
  BY <1>5, <1>6, FS_CardinalityType
<1>9. ASSUME NEW i \in R
      PROVE  pid(i) \in L /\ IndexIn(L, pid(i)) = IndexIn(D, i)
  <2>1. IndexIn(D, i) \in 0 .. Cardinality(D) - 1
    BY <1>5, <1>7, IndexInRange
  <2>2. IndexIn(D, i) < Cardinality(L)
    BY DEF Replaced
  <2>3. IndexIn(D, i) \in 0 .. Cardinality(L) - 1
    BY <2>1, <2>2, <1>8
  <2>4. QED
    BY <2>3, <1>6, NthExists DEF SparePid
<1>10. ASSUME NEW i \in R, NEW j \in R, pid(i) = pid(j)
       PROVE  i = j
  <2>1. IndexIn(D, i) = IndexIn(D, j)
    BY <1>9, <1>10
  <2>2. Nth(D, IndexIn(D, i)) = i /\ Nth(D, IndexIn(D, j)) = j
    BY <1>5, <1>7, NthOfIndex
  <2>3. QED
    BY <2>1, <2>2
<1>11. ASSUME NEW i \in R, NEW s \in L, s < pid(i)
       PROVE  \E j \in R : pid(j) = s
  <2> DEFINE n == IndexIn(L, s)
             j == Nth(D, n)
  <2>1. n < IndexIn(L, pid(i))
    BY <1>6, <1>9, <1>11, IndexInMonotonic
  <2>2. n \in 0 .. Cardinality(L) - 1
    BY <1>6, IndexInRange
  <2>3. IndexIn(D, i) \in 0 .. Cardinality(D) - 1
    BY <1>5, <1>7, IndexInRange
  <2>4. n < IndexIn(D, i)
    BY <2>1, <1>9
  <2>5. n \in 0 .. Cardinality(D) - 1
    BY <2>2, <2>3, <2>4, <1>8
  <2>6. j \in D /\ IndexIn(D, j) = n
    BY <2>5, <1>5, NthExists
  <2>7. n < Cardinality(L)
    BY <2>2, <1>8
  <2>8. j \in R
    BY <2>6, <2>7 DEF Replaced
  <2>9. pid(j) = Nth(L, n)
    BY <2>6 DEF SparePid
  <2>10. Nth(L, n) = s
    BY <1>6, NthOfIndex
  <2>11. QED
    BY <2>8, <2>9, <2>10
<1>12. QED
  BY <1>4, <1>5, <1>6, <1>7, <1>9, <1>10, <1>11

(***************************************************************************)
(* The users that rebuild_proc_groups lists: a sequence without repetition  *)
(* of the pids left at the kept indices.                                    *)
(***************************************************************************)
LEMMA RebuiltUsersFacts ==
  ASSUME NEW g, WellFormed(g), NEW world \in SUBSET g.world
  PROVE  LET K == KeptUsers(g, world)
             P == ReplacedPids(g, world)
             U == RebuiltUsers(g, world)
         IN  /\ U \in Seq(Procs)
             /\ {U[k] : k \in DOMAIN U} = {P[i] : i \in K}
             /\ \A k, l \in DOMAIN U : U[k] = U[l] => k = l
             /\ \A i \in K : P[i] \in world
<1> DEFINE D == DeadUsers(g, world)
           L == LiveSpares(g, world)
           R == Replaced(g, world)
           K == KeptUsers(g, world)
           P == ReplacedPids(g, world)
           U == RebuiltUsers(g, world)
           n == Cardinality(K)
<1>1. /\ \A i \in R : SparePid(g, world, i) \in L
      /\ \A i, j \in R : SparePid(g, world, i) = SparePid(g, world, j) => i = j
      /\ L \subseteq Procs /\ R \subseteq D
      /\ IsFiniteSet(DOMAIN g.user_procs) /\ DOMAIN g.user_procs \subseteq Int
  BY ReplacementFacts
<1>2. g \in Groups
  BY DEF WellFormed
<1>3. g.user_procs \in Seq(Procs) /\ g.world \subseteq Procs /\ Procs \subseteq Int
  BY <1>2, ProcsFacts DEF Groups
<1>4. K \subseteq DOMAIN g.user_procs /\ \A i \in K : i \in R \/ i \notin D
  BY DEF KeptUsers
<1>5. IsFiniteSet(K) /\ K \subseteq Int
  <2>1. K \in SUBSET DOMAIN g.user_procs
    BY <1>4
  <2>2. QED
    BY <1>1, <2>1, FS_Subset
<1>6. n \in Nat
  BY <1>5, FS_CardinalityType
<1>7. ASSUME NEW i \in K
      PROVE  /\ P[i] = IF i \in R THEN SparePid(g, world, i) ELSE g.user_procs[i]
             /\ P[i] \in world /\ P[i] \in Procs
             /\ i \notin R => P[i] \in UserSet(g)
             /\ i \in R => P[i] \in g.spare_procs
  <2>1. P[i] = IF i \in R THEN SparePid(g, world, i) ELSE g.user_procs[i]
    BY <1>4 DEF ReplacedPids
  <2>2. CASE i \in R
    BY <2>1, <2>2, <1>1 DEF LiveSpares
  <2>3. CASE i \notin R
    <3>1. i \notin D /\ i \in DOMAIN g.user_procs
      BY <1>4, <2>3
    <3>2. g.user_procs[i] \in world
      BY <3>1 DEF DeadUsers
    <3>3. g.user_procs[i] \in UserSet(g)
      BY <3>1 DEF UserSet
    <3>4. QED
      BY <2>1, <2>3, <3>2, <3>3, <1>3
  <2>4. QED
    BY <2>1, <2>2, <2>3
<1>8. ASSUME NEW i \in K, NEW j \in K, P[i] = P[j]
      PROVE  i = j
  <2>1. \A u \in UserSet(g), s \in g.spare_procs : u < s
    BY DEF WellFormed
  <2>2. P[i] \in Int /\ ~(P[i] < P[i])
    <3>1. P[i] \in Procs
      BY <1>7
    <3>2. P[i] \in Int
      BY <3>1, <1>3
    <3>3. QED
      BY <3>2
  <2>3. i \in R <=> j \in R
    BY <1>7, <1>8, <2>1, <2>2
  <2>4. CASE i \in R
    BY <1>1, <1>7, <1>8, <2>3, <2>4
  <2>5. CASE i \notin R
    <3>1. g.user_procs[i] = g.user_procs[j]
      BY <1>7, <1>8, <2>3, <2>5
    <3>2. QED
      BY <3>1, <1>4 DEF WellFormed
  <2>6. QED
    BY <2>4, <2>5
<1>9. U = [k \in 1 .. n |-> P[Nth(K, k - 1)]]
  BY DEF RebuiltUsers, Picked
<1>10. ASSUME NEW k \in 1 .. n
       PROVE  Nth(K, k - 1) \in K /\ IndexIn(K, Nth(K, k - 1)) = k - 1
  <2>1. k - 1 \in 0 .. Cardinality(K) - 1
    BY <1>6
  <2>2. QED
    BY <2>1, <1>5, NthExists
<1>11. U \in Seq(Procs) /\ DOMAIN U = 1 .. n
  <2>1. \A k \in 1 .. n : P[Nth(K, k - 1)] \in Procs
    BY <1>7, <1>10
  <2>2. U \in [1 .. n -> Procs]
    BY <1>9, <2>1
  <2>3. QED
    BY <2>2, <1>6
<1>12. {U[k] : k \in DOMAIN U} = {P[i] : i \in K}
  <2>1. ASSUME NEW k \in DOMAIN U PROVE U[k] \in {P[i] : i \in K}
    BY <1>9, <1>10, <1>11
  <2>2. ASSUME NEW i \in K PROVE P[i] \in {U[k] : k \in DOMAIN U}
    <3>1. IndexIn(K, i) \in 0 .. n - 1
      BY <1>5, IndexInRange
    <3>2. Nth(K, IndexIn(K, i)) = i
      BY <1>5, NthOfIndex
    <3>3. IndexIn(K, i) + 1 \in 1 .. n /\ (IndexIn(K, i) + 1) - 1 = IndexIn(K, i)
      BY <3>1, <1>6
    <3>4. U[IndexIn(K, i) + 1] = P[i]
      BY <1>9, <3>2, <3>3
    <3>5. QED
      BY <3>3, <3>4, <1>11
  <2>3. QED
    BY <2>1, <2>2
<1>13. ASSUME NEW k \in DOMAIN U, NEW l \in DOMAIN U, U[k] = U[l]
       PROVE  k = l
  <2>1. k \in 1 .. n /\ l \in 1 .. n
    BY <1>11
  <2>2. P[Nth(K, k - 1)] = P[Nth(K, l - 1)]
    BY <1>9, <1>13, <2>1
  <2>3. Nth(K, k - 1) = Nth(K, l - 1)
    BY <1>8, <1>10, <2>1, <2>2
  <2>4. k - 1 = l - 1
    BY <1>10, <2>1, <2>3
  <2>5. QED
    BY <2>1, <2>4, <1>6
<1>14. QED
  BY <1>7, <1>11, <1>12, <1>13

(***************************************************************************)
(* Rebuilding keeps the groups well formed, whichever members of the old    *)
(* world are missing from the new one.                                      *)
(***************************************************************************)
LEMMA RebuildWellFormed ==
  ASSUME NEW g, WellFormed(g), NEW world \in SUBSET g.world
  PROVE  WellFormed(RebuildProcGroups(g, world))
<1> DEFINE D == DeadUsers(g, world)
           L == LiveSpares(g, world)
           R == Replaced(g, world)
           K == KeptUsers(g, world)
           P == ReplacedPids(g, world)
           U == RebuiltUsers(g, world)
           h == RebuildProcGroups(g, world)
           pid(i) == SparePid(g, world, i)
<1>1. /\ \A i \in R : pid(i) \in L
      /\ \A i \in R, s \in L : s < pid(i) => \E j \in R : pid(j) = s
      /\ D \subseteq DOMAIN g.user_procs /\ L \subseteq Procs /\ R \subseteq D
  BY ReplacementFacts
<1>2. /\ U \in Seq(Procs)
      /\ {U[k] : k \in DOMAIN U} = {P[i] : i \in K}
      /\ \A k, l \in DOMAIN U : U[k] = U[l] => k = l
      /\ \A i \in K : P[i] \in world
  BY RebuiltUsersFacts
<1>3. g \in Groups
  BY DEF WellFormed
<1>4. /\ g.user_procs \in Seq(Procs) /\ g.world \subseteq Procs /\ g.spare_procs \subseteq Procs
      /\ g.pid_to_rank \in [Procs -> 0 .. NActive - 1 \cup {MPI_UNDEFINED}]
      /\ g.rank_to_pid \in [0 .. NActive - 1 -> Procs \cup {MPI_UNDEFINED}]
      /\ Procs \subseteq Int
  BY <1>3, ProcsFacts DEF Groups
<1>5. /\ h.world = world /\ h.user_procs = U
      /\ h.spare_procs = L \ {U[k] : k \in DOMAIN U}
      /\ h.pid_to_rank = RebuiltPidToRank(g, world)
      /\ h.rank_to_pid = RebuiltRankToPid(g, world)
      /\ UserSet(h) = {P[i] : i \in K}
  BY <1>2 DEF RebuildProcGroups, UserSet
<1>6. /\ \A i \in DOMAIN g.user_procs :
           P[i] = IF i \in R THEN pid(i) ELSE g.user_procs[i]
      /\ K \subseteq DOMAIN g.user_procs
      /\ R \subseteq K
      /\ \A i \in DOMAIN g.user_procs : g.user_procs[i] \in world => i \in K /\ i \notin R
  BY <1>1 DEF ReplacedPids, KeptUsers, DeadUsers
<1>7. h \in Groups
  <2>1. RebuiltPidToRank(g, world) \in [Procs -> 0 .. NActive - 1 \cup {MPI_UNDEFINED}]
    <3>1. DOMAIN g.pid_to_rank = Procs
      BY <1>4
    <3>2. ASSUME NEW p \in Procs
          PROVE  RebuiltPidToRank(g, world)[p] \in 0 .. NActive - 1 \cup {MPI_UNDEFINED}
      <4>1. CASE \E i \in R : pid(i) = p
        <5> DEFINE i == CHOOSE i \in R : pid(i) = p
        <5>1. i \in R
          BY <4>1
        <5>2. g.user_procs[i] \in Procs
          BY <5>1, <1>1, <1>4
        <5>3. RebuiltPidToRank(g, world)[p] = g.pid_to_rank[g.user_procs[i]]
          BY <3>1, <4>1 DEF RebuiltPidToRank
        <5>4. QED
          BY <5>2, <5>3, <1>4
      <4>2. CASE ~\E i \in R : pid(i) = p
        <5>1. RebuiltPidToRank(g, world)[p] = g.pid_to_rank[p]
          BY <3>1, <4>2 DEF RebuiltPidToRank
        <5>2. QED
          BY <5>1, <1>4
      <4>3. QED
        BY <4>1, <4>2
    <3>3. QED
      BY <3>1, <3>2 DEF RebuiltPidToRank
  <2>2. RebuiltRankToPid(g, world) \in [0 .. NActive - 1 -> Procs \cup {MPI_UNDEFINED}]
    <3>1. DOMAIN g.rank_to_pid = 0 .. NActive - 1
      BY <1>4
    <3>2. ASSUME NEW r \in 0 .. NActive - 1
          PROVE  RebuiltRankToPid(g, world)[r] \in Procs \cup {MPI_UNDEFINED}
      <4>1. CASE \E i \in D : g.pid_to_rank[g.user_procs[i]] = r
        <5> DEFINE i == CHOOSE i \in D : g.pid_to_rank[g.user_procs[i]] = r
        <5>1. RebuiltRankToPid(g, world)[r] = IF i \in R THEN pid(i) ELSE MPI_UNDEFINED
          BY <3>1, <4>1 DEF RebuiltRankToPid
        <5>2. i \in R => pid(i) \in Procs
          BY <1>1
        <5>3. QED
          BY <5>1, <5>2
      <4>2. CASE ~\E i \in D : g.pid_to_rank[g.user_procs[i]] = r
        <5>1. RebuiltRankToPid(g, world)[r] = g.rank_to_pid[r]
          BY <3>1, <4>2 DEF RebuiltRankToPid
        <5>2. QED
          BY <5>1, <1>4
      <4>3. QED
        BY <4>1, <4>2
    <3>3. QED
      BY <3>1, <3>2 DEF RebuiltRankToPid
  <2>3. world \in SUBSET Procs /\ h.spare_procs \in SUBSET Procs
    BY <1>1, <1>4, <1>5
  <2>4. QED
    BY <2>1, <2>2, <2>3, <1>2 DEF Groups, RebuildProcGroups
<1>8. h.world = UserSet(h) \cup h.spare_procs
  <2>1. ASSUME NEW w \in world PROVE w \in UserSet(h) \cup h.spare_procs
    <3>1. w \in UserSet(g) \/ w \in g.spare_procs
      BY DEF WellFormed
    <3>2. CASE w \in g.spare_procs
      <4>1. w \in L
        BY <3>2 DEF LiveSpares
      <4>2. QED
        BY <4>1, <1>2, <1>5
    <3>3. CASE w \in UserSet(g)
      <4>1. PICK i \in DOMAIN g.user_procs : w = g.user_procs[i]
        BY <3>3 DEF UserSet
      <4>2. i \in K /\ P[i] = w
        BY <4>1, <1>6
      <4>3. QED
        BY <4>2, <1>5
    <3>4. QED
      BY <3>1, <3>2, <3>3
  <2>2. UserSet(h) \subseteq world
    BY <1>2, <1>5
  <2>3. h.spare_procs \subseteq world
    BY <1>5 DEF LiveSpares
  <2>4. QED
    BY <2>1, <2>2, <2>3, <1>5
<1>9. ASSUME NEW u \in UserSet(h), NEW s \in h.spare_procs
      PROVE  u < s
  <2>1. PICK i \in K : u = P[i]
    BY <1>5
  <2>2. s \in L /\ s \notin {P[j] : j \in K} /\ s \in g.spare_procs
    BY <1>2, <1>5 DEF LiveSpares
  <2>3. CASE i \notin R
    <3>1. u = g.user_procs[i] /\ i \in DOMAIN g.user_procs
      BY <2>1, <2>3, <1>6
    <3>2. u \in UserSet(g)
      BY <3>1 DEF UserSet
    <3>3. QED
      BY <3>2, <2>2 DEF WellFormed
  <2>4. CASE i \in R
    <3>1. u = pid(i)
      BY <2>1, <2>4, <1>6
    <3>2. u \in Int /\ s \in Int
      BY <3>1, <2>2, <2>4, <1>1, <1>4
    <3>3. u # s
      BY <2>1, <2>2
    <3>4. ~(s < u)
      <4>1. SUFFICES ASSUME s < pid(i) PROVE FALSE
        BY <3>1
      <4>2. PICK j \in R : pid(j) = s
        BY <4>1, <2>2, <2>4, <1>1
      <4>3. j \in K /\ P[j] = s
        BY <4>2, <1>6
      <4>4. QED
        BY <4>3, <2>2
    <3>5. QED
      BY <3>2, <3>3, <3>4
  <2>5. QED
    BY <2>3, <2>4
<1>10. \A i, j \in DOMAIN h.user_procs : h.user_procs[i] = h.user_procs[j] => i = j
  BY <1>2, <1>5
<1>11. QED
  BY <1>7, <1>8, <1>9, <1>10 DEF WellFormed

\* The number of users is the length of the list of users.
LEMMA UserCount ==
  ASSUME NEW g, WellFormed(g)
  PROVE  /\ Cardinality(UserSet(g)) = Len(g.user_procs)
         /\ UserSet(g) = g.world \ g.spare_procs
         /\ UserSet(g) \subseteq Procs
<1> DEFINE n == Len(g.user_procs)
           V == UserSet(g)
<1>1. g \in Groups
  BY DEF WellFormed
<1>2. g.user_procs \in Seq(Procs)
  BY <1>1 DEF Groups
<1>3. n \in Nat /\ DOMAIN g.user_procs = 1 .. n
  BY <1>2
<1>4. g.user_procs \in Bijection(1 .. n, V)
  <2>1. g.user_procs \in [1 .. n -> V]
    BY <1>2, <1>3 DEF UserSet
  <2>2. IsInjective(g.user_procs)
    BY DEF WellFormed, IsInjective
  <2>3. \A v \in V : \E i \in 1 .. n : g.user_procs[i] = v
    BY <1>3 DEF UserSet
  <2>4. QED
    BY <2>1, <2>2, <2>3 DEF Bijection, Injection, Surjection
<1>5. Cardinality(V) = n
  <2>1. ExistsBijection(1 .. n, V)
    BY <1>4 DEF ExistsBijection
  <2>2. QED
    BY <2>1, <1>3, FS_CountingElements
<1>6. V \subseteq Procs
  BY <1>2 DEF UserSet
<1>7. \A v \in V : v \notin g.spare_procs
  <2>1. \A u \in V, s \in g.spare_procs : u < s
    BY DEF WellFormed
  <2>2. \A v \in V : ~(v < v)
    <3>1. V \subseteq Int
      BY <1>6, ProcsFacts
    <3>2. QED
      BY <3>1
  <2>3. QED
    BY <2>1, <2>2
<1>8. QED
  BY <1>5, <1>6, <1>7 DEF WellFormed

(***************************************************************************)
(* In well-formed groups the world ranks from the number of users up are    *)
(* exactly the spares: what Fenix_Finalize takes for granted.               *)
(***************************************************************************)
LEMMA WellFormedTail ==
  ASSUME NEW g, WellFormed(g)
  PROVE  {w \in g.world : IndexIn(g.world, w) >= Len(g.user_procs)} = g.spare_procs
<1> DEFINE n == Len(g.user_procs)
           V == UserSet(g)
<1>1. g \in Groups
  BY DEF WellFormed
<1>2. g.user_procs \in Seq(Procs) /\ g.world \in SUBSET Procs
  BY <1>1 DEF Groups
<1>3. IsFiniteSet(g.world) /\ g.world \subseteq Int
  BY <1>2, ProcsFacts, FS_Subset
<1>4. n \in Nat /\ DOMAIN g.user_procs = 1 .. n
  BY <1>2
<1>5. Cardinality(V) = n
  BY UserCount
<1>6. g.world = V \cup g.spare_procs /\ \A u \in V, s \in g.spare_procs : u < s
  BY DEF WellFormed
<1>7. V \in SUBSET g.world /\ IsFiniteSet(V)
  BY <1>3, <1>6, FS_Subset
<1>8. ASSUME NEW s \in g.spare_procs PROVE IndexIn(g.world, s) >= n
  <2> DEFINE B == {y \in g.world : y < s}
  <2>1. V \in SUBSET B
    BY <1>6
  <2>2. s \in g.world
    BY <1>6
  <2>3. IsFiniteSet(B)
    BY <2>2, <1>3, IndexInRange
  <2>4. Cardinality(V) <= Cardinality(B) /\ Cardinality(B) \in Nat
    BY <2>1, <2>3, FS_Subset, FS_CardinalityType
  <2>5. QED
    BY <2>4, <1>4, <1>5 DEF IndexIn
<1>9. ASSUME NEW u \in V PROVE ~(IndexIn(g.world, u) >= n)
  <2> DEFINE B == {y \in g.world : y < u}
  <2>1. u \in g.world /\ u \in Int
    BY <1>3, <1>6
  <2>2. ASSUME NEW y \in B PROVE y \in V
    <3>1. y \in g.world /\ y < u /\ y \in Int
      BY <1>3
    <3>2. ~(u < y)
      BY <2>1, <3>1
    <3>3. QED
      BY <3>1, <3>2, <1>6
  <2>3. B \in SUBSET V
    BY <2>2
  <2>4. u \notin B
    BY <2>1
  <2>5. Cardinality(B) <= Cardinality(V) /\ Cardinality(B) # Cardinality(V) /\ IsFiniteSet(B)
    BY <2>3, <2>4, <1>7, FS_Subset
  <2>6. Cardinality(B) \in Nat
    BY <2>5, FS_CardinalityType
  <2>7. QED
    BY <2>5, <2>6, <1>4, <1>5 DEF IndexIn
<1>10. QED
  BY <1>6, <1>8, <1>9

\* In an interval from 1 the position of a number is one less than itself.
LEMMA IndexInInterval ==
  ASSUME NEW n \in Nat, NEW i \in 1 .. n
  PROVE  IndexIn(1 .. n, i) = i - 1
<1>1. {y \in 1 .. n : y < i} = 1 .. (i - 1)
  OBVIOUS
<1>2. Cardinality(1 .. (i - 1)) = i - 1
  BY FS_Interval
<1>3. QED
  BY <1>1, <1>2 DEF IndexIn

(***************************************************************************)
(* What rebuild_proc_groups does to those that are left: live users stay    *)
(* users, only spares become users, and when no user is lost everybody who  *)
(* is alive keeps its rank.                                                 *)
(***************************************************************************)
LEMMA RebuildKeeps ==
  ASSUME NEW g, WellFormed(g), NEW world \in SUBSET g.world
  PROVE  LET h == RebuildProcGroups(g, world)
             s == g.user_procs
             U == h.user_procs
         IN  /\ UserSet(g) \cap world \subseteq UserSet(h)
             /\ UserSet(h) \subseteq world
             /\ h.spare_procs \subseteq g.spare_procs
             /\ Len(U) <= Len(s)
             /\ Len(U) = Len(s) => \A i \in DOMAIN s : s[i] \in world => U[i] = s[i]
<1> DEFINE h == RebuildProcGroups(g, world)
           s == g.user_procs
           n == Len(s)
           K == KeptUsers(g, world)
           R == Replaced(g, world)
           P == ReplacedPids(g, world)
           U == RebuiltUsers(g, world)
<1>1. g \in Groups
  BY DEF WellFormed
<1>2. s \in Seq(Procs)
  BY <1>1 DEF Groups
<1>3. n \in Nat /\ DOMAIN s = 1 .. n
  BY <1>2
<1>4. IsFiniteSet(DOMAIN s) /\ Cardinality(DOMAIN s) = n
  BY <1>3, FS_Interval
<1>5. K \in SUBSET DOMAIN s
  BY DEF KeptUsers
<1>6. /\ IsFiniteSet(K) /\ K \subseteq Int
      /\ Cardinality(K) <= n /\ (Cardinality(K) = n => K = DOMAIN s)
  BY <1>3, <1>4, <1>5, FS_Subset
<1>7. U = Picked(P, K) /\ h.user_procs = U /\ h.world = world
  BY DEF RebuildProcGroups, RebuiltUsers
<1>8. /\ DOMAIN U = 1 .. Cardinality(K)
      /\ \A i \in K : IndexIn(K, i) + 1 \in DOMAIN U /\ U[IndexIn(K, i) + 1] = P[i]
  BY <1>6, <1>7, PickedElements
<1>9. \A i \in DOMAIN s : s[i] \in world => i \in K /\ P[i] = s[i]
  BY DEF KeptUsers, Replaced, DeadUsers, ReplacedPids
<1>10. UserSet(g) \cap world \subseteq UserSet(h)
  <2>1. ASSUME NEW i \in DOMAIN s, s[i] \in world PROVE s[i] \in UserSet(h)
    <3>1. i \in K /\ P[i] = s[i]
      BY <1>9, <2>1
    <3>2. QED
      BY <3>1, <1>7, <1>8 DEF UserSet
  <2>2. QED
    BY <2>1 DEF UserSet
<1>11. WellFormed(h)
  BY RebuildWellFormed
<1>12. UserSet(h) \subseteq world /\ h.spare_procs \subseteq g.spare_procs
  BY <1>7, <1>11 DEF WellFormed, RebuildProcGroups, LiveSpares
<1>13. Len(U) = Cardinality(K)
  <2>1. U \in Seq(Procs)
    BY <1>7, <1>11 DEF WellFormed, Groups
  <2>2. Cardinality(K) \in Nat
    BY <1>6, FS_CardinalityType
  <2>3. DOMAIN U = 1 .. Len(U) /\ Len(U) \in Nat
    BY <2>1
  <2>4. QED
    BY <1>8, <2>2, <2>3
<1>14. ASSUME Len(U) = n, NEW i \in DOMAIN s, s[i] \in world
       PROVE  U[i] = s[i]
  <2>1. K = 1 .. n /\ i \in 1 .. n
    BY <1>3, <1>6, <1>13, <1>14
  <2>2. IndexIn(K, i) + 1 = i
    BY <1>3, <2>1, IndexInInterval
  <2>3. QED
    BY <1>8, <1>9, <1>14, <2>1, <2>2
<1>15. QED
  BY <1>6, <1>7, <1>10, <1>12, <1>13, <1>14

-----------------------------------------------------------------------------
(***************************************************************************)
(* The rank maps.                                                           *)
(***************************************************************************)

\* f maps the finite set of integers S to T and keeps the order.
IncreasingOnto(f, S, T) ==
  /\ S \subseteq Int /\ IsFiniteSet(S) /\ \A i \in S : f[i] \in Int
  /\ \A i, j \in S : i < j => f[i] < f[j]
  /\ T = {f[i] : i \in S}

\* A strictly increasing function carries positions over to its image.
LEMMA IncreasingImage ==
  ASSUME NEW f, NEW S, NEW T, IncreasingOnto(f, S, T)
  PROVE  /\ T \subseteq Int /\ IsFiniteSet(T) /\ Cardinality(T) = Cardinality(S)
         /\ \A i \in S : IndexIn(T, f[i]) = IndexIn(S, i) /\ Nth(T, IndexIn(S, i)) = f[i]
<1> USE DEF IncreasingOnto
<1>1. T \subseteq Int
  OBVIOUS
<1>2. ASSUME NEW i \in S, NEW j \in S
      PROVE  i < j <=> f[i] < f[j]
  <2>1. i \in Int /\ j \in Int /\ f[i] \in Int /\ f[j] \in Int
    OBVIOUS
  <2>2. i < j \/ i = j \/ j < i
    BY <2>1
  <2>3. (i < j => f[i] < f[j]) /\ (j < i => f[j] < f[i])
    OBVIOUS
  <2>4. QED
    BY <2>1, <2>2, <2>3
<1>3. ASSUME NEW B \in SUBSET S
      PROVE  IsFiniteSet({f[i] : i \in B}) /\ Cardinality({f[i] : i \in B}) = Cardinality(B)
  <2> DEFINE I == {f[i] : i \in B}
             b == [i \in B |-> f[i]]
  <2>1. b \in [B -> I]
    OBVIOUS
  <2>2. ASSUME NEW i \in B, NEW j \in B, b[i] = b[j] PROVE i = j
    <3>1. i \in Int /\ j \in Int /\ f[i] \in Int /\ f[j] = f[i] /\ i \in S /\ j \in S
      BY <2>2
    <3>2. ~(i < j) /\ ~(j < i)
      BY <1>2, <3>1
    <3>3. QED
      BY <3>1, <3>2
  <2>3. b \in Bijection(B, I)
    BY <2>1, <2>2 DEF Bijection, Injection, Surjection, IsInjective
  <2>4. IsFiniteSet(B) /\ ExistsBijection(B, I)
    BY <2>3, FS_Subset DEF ExistsBijection
  <2>5. QED
    BY <2>4, FS_Bijection
<1>4. IsFiniteSet(T) /\ Cardinality(T) = Cardinality(S)
  BY <1>3
<1>5. ASSUME NEW i \in S
      PROVE  IndexIn(T, f[i]) = IndexIn(S, i) /\ Nth(T, IndexIn(S, i)) = f[i]
  <2> DEFINE B == {j \in S : j < i}
  <2>1. {y \in T : y < f[i]} = {f[j] : j \in B}
    BY <1>2
  <2>2. Cardinality({f[j] : j \in B}) = Cardinality(B)
    BY <1>3
  <2>3. IndexIn(T, f[i]) = IndexIn(S, i)
    BY <2>1, <2>2 DEF IndexIn
  <2>4. Nth(T, IndexIn(T, f[i])) = f[i]
    BY <1>1, <1>4, NthOfIndex
  <2>5. QED
    BY <2>3, <2>4
<1>6. QED
  BY <1>1, <1>4, <1>5

\* The ranks that are held, and what the assertions of rebuild_proc_groups ask of the maps.
Held(g) == {r \in 0 .. NActive - 1 : g.rank_to_pid[r] # MPI_UNDEFINED}

MapsConsistent(g) ==
  /\ g.user_procs = Picked(g.rank_to_pid, Held(g))
  /\ \A r \in Held(g) : g.pid_to_rank[g.rank_to_pid[r]] = r

LEMMA InitialMapsConsistent == MapsConsistent(InitialGroups)
<1> DEFINE g == InitialGroups
           T == 0 .. NActive - 1
<1>1. NActive \in Nat /\ NActive <= NProcs /\ NProcs \in Nat
  BY ProcsFacts
<1>2. Held(g) = T /\ \A r \in T : g.rank_to_pid[r] = r
  BY <1>1 DEF InitialGroups, Held, MPI_UNDEFINED
<1>3. IsFiniteSet(T) /\ Cardinality(T) = NActive /\ T \subseteq Int
  BY <1>1, FS_Interval
<1>4. ASSUME NEW k \in 1 .. NActive PROVE Nth(T, k - 1) = k - 1
  <2>1. k - 1 \in T
    BY <1>1
  <2>2. {y \in T : y < k - 1} = 0 .. (k - 1) - 1
    BY <1>1, <2>1
  <2>3. Cardinality(0 .. (k - 1) - 1) = k - 1
    BY <1>1, FS_Interval
  <2>4. IndexIn(T, k - 1) = k - 1
    BY <2>2, <2>3 DEF IndexIn
  <2>5. Nth(T, IndexIn(T, k - 1)) = k - 1
    BY <1>3, <2>1, NthOfIndex
  <2>6. QED
    BY <2>4, <2>5
<1>5. \A k \in 1 .. NActive : Nth(T, k - 1) = k - 1 /\ k - 1 \in T
  BY <1>1, <1>4
<1>6. [k \in 1 .. NActive |-> g.rank_to_pid[Nth(T, k - 1)]] = [k \in 1 .. NActive |-> k - 1]
  BY <1>2, <1>5
<1>7. g.user_procs = Picked(g.rank_to_pid, Held(g))
  BY <1>2, <1>3, <1>6 DEF InitialGroups, Picked
<1>8. \A r \in T : g.pid_to_rank[r] = r
  BY <1>1 DEF InitialGroups, Procs
<1>9. QED
  BY <1>2, <1>7, <1>8 DEF MapsConsistent

(***************************************************************************)
(* Rebuilding keeps the rank maps consistent: the rank of a dead user goes  *)
(* to the spare that takes its place in user_procs, or is given up, so the  *)
(* order in which the maps list the users remains theirs.                   *)
(***************************************************************************)
LEMMA RebuildMapsConsistent ==
  ASSUME NEW g, WellFormed(g), MapsConsistent(g), NEW world \in SUBSET g.world
  PROVE  MapsConsistent(RebuildProcGroups(g, world))
<1> DEFINE s == g.user_procs
           D == DeadUsers(g, world)
           R == Replaced(g, world)
           K == KeptUsers(g, world)
           P == ReplacedPids(g, world)
           U == RebuiltUsers(g, world)
           h == RebuildProcGroups(g, world)
           H == Held(g)
           n == Cardinality(H)
           rank == [i \in 1 .. n |-> Nth(H, i - 1)]
           pid(i) == SparePid(g, world, i)
<1>1. /\ \A i \in R : pid(i) \in g.spare_procs
      /\ \A i, j \in R : pid(i) = pid(j) => i = j
      /\ D \subseteq DOMAIN s /\ R \subseteq D
  BY ReplacementFacts DEF LiveSpares
<1>2. /\ s \in Seq(Procs)
      /\ g.pid_to_rank \in [Procs -> 0 .. NActive - 1 \cup {MPI_UNDEFINED}]
      /\ g.rank_to_pid \in [0 .. NActive - 1 -> Procs \cup {MPI_UNDEFINED}]
      /\ g.spare_procs \subseteq Procs
  BY DEF WellFormed, Groups
<1>3. H \subseteq 0 .. NActive - 1 /\ H \subseteq Int /\ IsFiniteSet(H) /\ n \in Nat
  <2>1. IsFiniteSet(0 .. NActive - 1) /\ H \in SUBSET (0 .. NActive - 1)
    BY ProcsFacts, FS_Interval DEF Held
  <2>2. IsFiniteSet(H)
    BY <2>1, FS_Subset
  <2>3. QED
    BY <2>1, <2>2, FS_CardinalityType
<1>4. /\ DOMAIN s = 1 .. n
      /\ \A i \in 1 .. n : s[i] = g.rank_to_pid[Nth(H, i - 1)]
  BY DEF MapsConsistent, Picked
<1>5. ASSUME NEW i \in 1 .. n
      PROVE  /\ rank[i] \in H /\ rank[i] = Nth(H, i - 1) /\ IndexIn(H, rank[i]) = i - 1
             /\ s[i] = g.rank_to_pid[rank[i]] /\ g.pid_to_rank[s[i]] = rank[i]
  <2>1. i - 1 \in 0 .. Cardinality(H) - 1
    BY <1>3
  <2>2. Nth(H, i - 1) \in H /\ IndexIn(H, Nth(H, i - 1)) = i - 1
    BY <1>3, <2>1, NthExists
  <2>3. QED
    BY <1>4, <2>2 DEF MapsConsistent
<1>6. ASSUME NEW i \in 1 .. n, NEW j \in 1 .. n, i < j
      PROVE  rank[i] < rank[j]
  <2>1. rank[i] \in H /\ rank[j] \in H /\ IndexIn(H, rank[i]) = i - 1 /\ IndexIn(H, rank[j]) = j - 1
    BY <1>5
  <2>2. CASE rank[j] < rank[i]
    <3>1. IndexIn(H, rank[j]) < IndexIn(H, rank[i])
      BY <1>3, <2>1, <2>2, IndexInMonotonic
    <3>2. QED
      BY <1>3, <1>6, <2>1, <3>1
  <2>3. CASE rank[j] = rank[i]
    BY <1>3, <1>6, <2>1, <2>3
  <2>4. rank[i] \in Int /\ rank[j] \in Int
    BY <1>3, <2>1
  <2>5. QED
    BY <2>2, <2>3, <2>4
<1>7. ASSUME NEW i \in 1 .. n, NEW j \in 1 .. n, rank[i] = rank[j]
      PROVE  i = j
  BY <1>3, <1>5, <1>7
<1>8. ASSUME NEW r \in H PROVE \E i \in 1 .. n : rank[i] = r
  <2>1. IndexIn(H, r) \in 0 .. n - 1 /\ Nth(H, IndexIn(H, r)) = r
    BY <1>3, IndexInRange, NthOfIndex
  <2>2. IndexIn(H, r) + 1 \in 1 .. n /\ (IndexIn(H, r) + 1) - 1 = IndexIn(H, r)
    BY <1>3, <2>1
  <2>3. QED
    BY <2>1, <2>2
<1>9. /\ K \in SUBSET (1 .. n) /\ K \subseteq Int /\ IsFiniteSet(K)
      /\ \A i \in 1 .. n : i \in K <=> (i \notin D \/ i \in R)
  <2>1. /\ K \in SUBSET (1 .. n)
        /\ \A i \in 1 .. n : i \in K <=> (i \notin D \/ i \in R)
    BY <1>4 DEF KeptUsers
  <2>2. IsFiniteSet(1 .. n)
    BY <1>3, FS_Interval
  <2>3. IsFiniteSet(K)
    BY <2>1, <2>2, FS_Subset
  <2>4. 1 .. n \subseteq Int
    BY <1>3
  <2>5. QED
    BY <2>1, <2>3, <2>4
<1>10. \A i \in 1 .. n : P[i] = IF i \in R THEN pid(i) ELSE s[i]
  BY <1>4 DEF ReplacedPids
<1>11. ASSUME NEW i \in 1 .. n
       PROVE  h.rank_to_pid[rank[i]] = IF i \in K THEN P[i] ELSE MPI_UNDEFINED
  <2> DEFINE r == rank[i]
  <2>1. r \in DOMAIN g.rank_to_pid /\ h.rank_to_pid = RebuiltRankToPid(g, world)
    BY <1>2, <1>3, <1>5 DEF RebuildProcGroups
  <2>2. \A j \in D : g.pid_to_rank[s[j]] = r <=> j = i
    BY <1>1, <1>4, <1>5, <1>7
  <2>3. CASE i \in D
    <3>1. (CHOOSE j \in D : g.pid_to_rank[s[j]] = r) = i
      BY <2>2, <2>3
    <3>2. h.rank_to_pid[r] = IF i \in R THEN pid(i) ELSE MPI_UNDEFINED
      BY <2>1, <2>2, <2>3, <3>1 DEF RebuiltRankToPid
    <3>3. QED
      BY <2>3, <3>2, <1>9, <1>10
  <2>4. CASE i \notin D
    <3>1. h.rank_to_pid[r] = g.rank_to_pid[r]
      BY <2>1, <2>2, <2>4 DEF RebuiltRankToPid
    <3>2. QED
      BY <2>4, <3>1, <1>1, <1>5, <1>9, <1>10
  <2>5. QED
    BY <2>3, <2>4
<1>12. ASSUME NEW r \in 0 .. NActive - 1, r \notin H
       PROVE  h.rank_to_pid[r] = MPI_UNDEFINED
  <2>1. \A j \in D : g.pid_to_rank[s[j]] # r
    BY <1>1, <1>4, <1>5, <1>12
  <2>2. h.rank_to_pid[r] = g.rank_to_pid[r]
    BY <2>1, <1>2 DEF RebuildProcGroups, RebuiltRankToPid
  <2>3. QED
    BY <2>2, <1>12 DEF Held
<1>13. \A i \in 1 .. n : P[i] \in Procs /\ P[i] # MPI_UNDEFINED
  <2>1. \A i \in 1 .. n : P[i] \in Procs
    <3>1. \A i \in DOMAIN s : s[i] \in Procs
      BY <1>2
    <3>2. \A i \in R : pid(i) \in Procs
      BY <1>1, <1>2
    <3>3. QED
      BY <3>1, <3>2, <1>4, <1>10
  <2>2. QED
    BY <2>1, ProcsFacts
<1>14. Held(h) = {rank[i] : i \in K}
  <2>1. ASSUME NEW r \in Held(h) PROVE r \in {rank[i] : i \in K}
    <3>1. r \in 0 .. NActive - 1 /\ h.rank_to_pid[r] # MPI_UNDEFINED
      BY DEF Held
    <3>2. r \in H
      BY <3>1, <1>12
    <3>3. PICK i \in 1 .. n : rank[i] = r
      BY <3>2, <1>8
    <3>4. i \in K
      BY <3>1, <3>3, <1>11
    <3>5. QED
      BY <3>3, <3>4
  <2>2. ASSUME NEW i \in K PROVE rank[i] \in Held(h)
    <3>1. i \in 1 .. n /\ rank[i] \in 0 .. NActive - 1
      BY <1>3, <1>5, <1>9
    <3>2. h.rank_to_pid[rank[i]] # MPI_UNDEFINED
      BY <3>1, <1>11, <1>13
    <3>3. QED
      BY <3>1, <3>2 DEF Held
  <2>3. QED
    BY <2>1, <2>2
<1>15. /\ Cardinality(Held(h)) = Cardinality(K)
       /\ \A i \in K : Nth(Held(h), IndexIn(K, i)) = rank[i]
  <2>1. \A i \in K : rank[i] \in Int
    BY <1>3, <1>5, <1>9
  <2>2. \A i, j \in K : i < j => rank[i] < rank[j]
    BY <1>6, <1>9
  <2>3. K \subseteq Int /\ IsFiniteSet(K)
    BY <1>9
  <2> HIDE DEF rank, K, h
  <2>4. IncreasingOnto(rank, K, Held(h))
    BY <1>14, <2>1, <2>2, <2>3 DEF IncreasingOnto
  <2>5. QED
    BY <2>4, IncreasingImage
<1>16. h.user_procs = Picked(h.rank_to_pid, Held(h))
  <2> DEFINE m == Cardinality(K)
  <2>1. m \in Nat
    BY <1>9, FS_CardinalityType
  <2>2. h.user_procs = [k \in 1 .. m |-> P[Nth(K, k - 1)]]
    BY DEF RebuildProcGroups, RebuiltUsers, Picked
  <2>3. ASSUME NEW k \in 1 .. m
        PROVE  P[Nth(K, k - 1)] = h.rank_to_pid[Nth(Held(h), k - 1)]
    <3> DEFINE i == Nth(K, k - 1)
    <3>1. k - 1 \in 0 .. Cardinality(K) - 1
      BY <2>1
    <3>2. i \in K /\ IndexIn(K, i) = k - 1
      BY <3>1, <1>9, NthExists
    <3>3. Nth(Held(h), k - 1) = rank[i]
      BY <3>2, <1>15
    <3>4. h.rank_to_pid[rank[i]] = P[i]
      BY <3>2, <1>9, <1>11
    <3>5. QED
      BY <3>3, <3>4
  <2>4. QED
    BY <2>2, <2>3, <1>15 DEF Picked
<1>17. ASSUME NEW r \in Held(h)
       PROVE  h.pid_to_rank[h.rank_to_pid[r]] = r
  <2>1. PICK i \in K : rank[i] = r
    BY <1>14
  <2>2. i \in 1 .. n /\ h.rank_to_pid[r] = P[i] /\ P[i] \in Procs
    BY <2>1, <1>9, <1>11, <1>13
  <2>3. h.pid_to_rank = RebuiltPidToRank(g, world) /\ DOMAIN g.pid_to_rank = Procs
    BY <1>2 DEF RebuildProcGroups
  <2>4. CASE i \in R
    <3>1. P[i] = pid(i) /\ (CHOOSE j \in R : pid(j) = P[i]) = i
      BY <2>2, <2>4, <1>1, <1>10
    <3>2. h.pid_to_rank[P[i]] = g.pid_to_rank[s[i]]
      BY <2>2, <2>3, <2>4, <3>1 DEF RebuiltPidToRank
    <3>3. QED
      BY <2>1, <2>2, <3>2, <1>5
  <2>5. CASE i \notin R
    <3>1. P[i] = s[i] /\ s[i] \in UserSet(g)
      BY <2>2, <2>5, <1>4, <1>10 DEF UserSet
    <3>2. \A j \in R : pid(j) # P[i]
      <4>1. UserSet(g) = g.world \ g.spare_procs
        BY UserCount
      <4>2. QED
        BY <3>1, <4>1, <1>1
    <3>3. h.pid_to_rank[P[i]] = g.pid_to_rank[s[i]]
      BY <2>2, <2>3, <3>1, <3>2 DEF RebuiltPidToRank
    <3>4. QED
      BY <2>1, <2>2, <3>3, <1>5
  <2>6. QED
    BY <2>4, <2>5
<1>18. QED
  BY <1>16, <1>17 DEF MapsConsistent
=============================================================================
