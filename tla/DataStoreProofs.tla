--------------------------- MODULE DataStoreProofs ---------------------------
(***************************************************************************)
(* The snapshots of any number of members on one rank, for any depth and    *)
(* any sequence of calls.                                                   *)
(***************************************************************************)
EXTENDS DataStore, OrderedSets, SequenceTheorems

-----------------------------------------------------------------------------
(* The types of snapshots and members *)

Buffers == {buf \in Seq(Nat) : Len(buf) <= MAX}
Snaps == [max : 0 .. MAX, buf : Buffers, staged : SUBSET (0 .. MAX), prot : SUBSET (0 .. MAX)]
Tables == UNION {[T -> Snaps] : T \in SUBSET Nat}

MemberType ==
  [count : 0 .. MAX - 1, ser : BOOLEAN, stage : Snaps, committed : Tables, avail : Seq(Snaps),
   open : [dir : {"none", "stage", "load"}, at : Int]]

LEMMA TableFacts ==
  ASSUME NEW f
  PROVE  f \in Tables <=> /\ f = [t \in DOMAIN f |-> f[t]] /\ DOMAIN f \subseteq Nat
                          /\ \A t \in DOMAIN f : f[t] \in Snaps
<1>1. ASSUME f \in Tables
      PROVE  f = [t \in DOMAIN f |-> f[t]] /\ DOMAIN f \subseteq Nat /\ \A t \in DOMAIN f : f[t] \in Snaps
  <2>1. PICK T \in SUBSET Nat : f \in [T -> Snaps]
    BY <1>1 DEF Tables
  <2>2. QED
    BY <2>1
<1>2. ASSUME f = [t \in DOMAIN f |-> f[t]], DOMAIN f \subseteq Nat, \A t \in DOMAIN f : f[t] \in Snaps
      PROVE  f \in Tables
  <2>1. f \in [DOMAIN f -> Snaps]
    BY <1>2
  <2>2. QED
    BY <1>2, <2>1 DEF Tables
<1>3. QED
  BY <1>1, <1>2

LEMMA SnapshotType ==
  ASSUME NEW n \in 0 .. MAX
  PROVE  Snapshot(n) \in Snaps /\ Snapshot(n).max = n /\ Snapshot(n).buf = << >>
         /\ Snapshot(n).staged = {} /\ Snapshot(n).prot = {}
<1>1. << >> \in Seq(Nat) /\ Len(<< >>) = 0 /\ 0 <= MAX
  BY DataStoreAssumption
<1>2. << >> \in Buffers
  BY <1>1 DEF Buffers
<1>3. QED
  BY <1>2 DEF Snapshot, Snaps

LEMMA SnapFields ==
  ASSUME NEW s \in Snaps
  PROVE  /\ s.max \in 0 .. MAX /\ s.max \in Nat /\ s.buf \in Seq(Nat) /\ Len(s.buf) <= MAX /\ s.staged \subseteq 0 .. MAX /\ s.prot \subseteq 0 .. MAX
         /\ Len(s.buf) \in Nat /\ DOMAIN s.buf = 1 .. Len(s.buf)
         /\ \A buf \in Buffers : /\ [s EXCEPT !.buf = buf] \in Snaps /\ [s EXCEPT !.buf = buf].buf = buf
                                  /\ [s EXCEPT !.buf = buf].max = s.max
                                  /\ [s EXCEPT !.buf = buf].staged = s.staged
                                  /\ [s EXCEPT !.buf = buf].prot = s.prot
<1>1. /\ s.max \in 0 .. MAX /\ s.buf \in Buffers /\ s.staged \subseteq 0 .. MAX /\ s.prot \subseteq 0 .. MAX
      /\ s = [max |-> s.max, buf |-> s.buf, staged |-> s.staged, prot |-> s.prot]
  BY DEF Snaps
<1>2. /\ s.max \in Nat /\ s.buf \in Seq(Nat) /\ Len(s.buf) <= MAX
      /\ Len(s.buf) \in Nat /\ DOMAIN s.buf = 1 .. Len(s.buf)
  BY <1>1, DataStoreAssumption DEF Buffers
<1>3. ASSUME NEW buf \in Buffers
      PROVE  /\ [s EXCEPT !.buf = buf] \in Snaps /\ [s EXCEPT !.buf = buf].buf = buf
             /\ [s EXCEPT !.buf = buf].max = s.max /\ [s EXCEPT !.buf = buf].staged = s.staged
             /\ [s EXCEPT !.buf = buf].prot = s.prot
  BY DEF Snaps
<1>4. QED
  BY <1>1, <1>2, <1>3

LEMMA Rebuffered ==
  ASSUME NEW s \in Snaps, NEW b \in Buffers
  PROVE  LET n == [s EXCEPT !.buf = b] IN
         /\ n \in Snaps /\ n.max = s.max /\ n.buf = b /\ n.staged = s.staged /\ n.prot = s.prot
BY DEF Snaps

LEMMA MemberFields ==
  ASSUME NEW m \in MemberType
  PROVE  /\ m.count \in 0 .. MAX - 1 /\ m.count \in Nat /\ m.count <= MAX /\ m.ser \in BOOLEAN /\ m.stage \in Snaps
         /\ m.committed \in Tables /\ m.avail \in Seq(Snaps) /\ m.open.at \in Int
         /\ m.open = [dir |-> m.open.dir, at |-> m.open.at]
         /\ Len(m.avail) \in Nat /\ DOMAIN m.avail = 1 .. Len(m.avail)
<1>1. m.count \in 0 .. MAX - 1 /\ m.avail \in Seq(Snaps)
  BY DEF MemberType
<1>2. m.count \in Nat /\ m.count <= MAX /\ Len(m.avail) \in Nat /\ DOMAIN m.avail = 1 .. Len(m.avail)
  BY <1>1, DataStoreAssumption
<1>3. QED
  BY <1>1, <1>2 DEF MemberType

LEMMA SubsetTypes ==
  /\ FULL \subseteq 0 .. MAX
  /\ \A S \in Subsets : S \subseteq 0 .. MAX
  /\ \A k \in Lengths : k \in 0 .. MAX /\ k \in Nat
BY DataStoreAssumption DEF FULL

-----------------------------------------------------------------------------
(* Staging *)

LEMMA FilledType ==
  ASSUME NEW n \in Nat, NEW v \in Nat
  PROVE  /\ Filled(n, v) \in Seq(Nat) /\ Len(Filled(n, v)) = n
         /\ n <= MAX => Filled(n, v) \in Buffers
         /\ \A i \in 1 .. n : Filled(n, v)[i] = v
<1>1. Filled(n, v) \in Seq(Nat) /\ Len(Filled(n, v)) = n /\ \A i \in 1 .. n : Filled(n, v)[i] = v
  BY DEF Filled
<1>2. QED
  BY <1>1 DEF Buffers

LEMMA GrownType ==
  ASSUME NEW buf \in Seq(Nat), NEW n \in Nat
  PROVE  /\ Grown(buf, n) \in Seq(Nat)
         /\ Len(Grown(buf, n)) = IF n > Len(buf) THEN n ELSE Len(buf)
         /\ \A i \in 1 .. Len(buf) : Grown(buf, n)[i] = buf[i]
<1>1. PICK l \in Nat : l = Len(buf)
  OBVIOUS
<1>2. CASE n > l
  <2>1. n - l \in Nat /\ Junk \in Nat
    BY <1>1, <1>2 DEF Junk
  <2>2. Filled(n - l, Junk) \in Seq(Nat) /\ Len(Filled(n - l, Junk)) = n - l
    BY <2>1, FilledType
  <2>3. Grown(buf, n) = buf \o Filled(n - l, Junk)
    BY <1>1, <1>2 DEF Grown
  <2>4. /\ Grown(buf, n) \in Seq(Nat) /\ Len(Grown(buf, n)) = l + (n - l)
        /\ \A i \in 1 .. l + (n - l) : Grown(buf, n)[i] = IF i <= l THEN buf[i] ELSE Filled(n - l, Junk)[i - l]
    BY <1>1, <2>2, <2>3, ConcatProperties
  <2>5. QED
    BY <1>1, <1>2, <2>4
<1>3. CASE ~(n > l)
  BY <1>1, <1>3 DEF Grown
<1>4. QED
  BY <1>2, <1>3

\* The elements that a subset with an end reaches.
LEMMA MaxCountFacts ==
  ASSUME NEW S \in SUBSET (0 .. MAX)
  PROVE  /\ MaxCount(S) \in 0 .. MAX
         /\ Bounded(S) => (\A i \in S : i < MaxCount(S)) /\ (S # {} => MaxCount(S) - 1 \in S)
         /\ (Bounded(S) /\ S # {}) => MaxCount(S) > 0
         /\ \A n \in Nat : (\A i \in S : i < n) => MaxCount(S) <= n
<1>1. MAX \in Nat /\ 0 \in 0 .. MAX
  BY DataStoreAssumption
<1>2. IsFiniteSet(S)
  <2>1. IsFiniteSet(0 .. MAX)
    BY <1>1, FS_Interval
  <2>2. QED
    BY <2>1, FS_Subset
<1>3. CASE S = {} \/ MAX \in S
  <2>1. MaxCount(S) = 0 /\ 0 \in 0 .. MAX /\ \A n \in Nat : 0 <= n
    BY <1>1, <1>3 DEF MaxCount
  <2>2. QED
    BY <1>3, <2>1 DEF Bounded
<1>4. CASE ~(S = {} \/ MAX \in S)
  <2>1. Max(S) \in S /\ \A i \in S : i <= Max(S)
    <3>1. S \subseteq Int
      BY <1>1
    <3>2. QED
      BY <1>2, <1>4, <3>1, MaxOf
  <2>2. MaxCount(S) = Max(S) + 1
    BY <1>4 DEF MaxCount
  <2>3. PICK x \in 0 .. MAX : x = Max(S) /\ x # MAX
    BY <1>4, <2>1
  <2>4. QED
    BY <1>1, <1>4, <2>1, <2>2, <2>3
<1>5. QED
  BY <1>3, <1>4

LEMMA BelowType ==
  ASSUME NEW S \in SUBSET (0 .. MAX), NEW n
  PROVE  Below(S, n) \in SUBSET (0 .. MAX) /\ Below(S, n) \subseteq S
BY DEF Below

\* Replacing the stage of a member, and the buffer of a stage.
LEMMA Restage ==
  ASSUME NEW m \in MemberType, NEW s \in Snaps
  PROVE  LET n == [m EXCEPT !.stage = s] IN
         /\ n \in MemberType /\ n.stage = s /\ n.count = m.count /\ n.ser = m.ser
         /\ n.committed = m.committed /\ n.avail = m.avail /\ n.open = m.open
BY DEF MemberType

LEMMA FitTypes ==
  ASSUME NEW s \in Snaps, NEW S \in SUBSET (0 .. MAX)
  PROVE  /\ Fitted(s, S) \in SUBSET (0 .. MAX) /\ FitCount(s, S) \in 0 .. MAX /\ FitCount(s, S) \in Nat
         /\ AddAndFit(s, S) \in Snaps
         /\ AddAndFit(s, S).max = s.max /\ AddAndFit(s, S).prot = s.prot
         /\ AddAndFit(s, S).staged = Fitted(s, S)
         /\ AddAndFit(s, S).buf = Grown(s.buf, FitCount(s, S))
<1>1. s.max \in 0 .. MAX /\ s.buf \in Seq(Nat) /\ Len(s.buf) <= MAX /\ s.staged \in SUBSET (0 .. MAX)
  BY SnapFields
<1>2. Fitted(s, S) \in SUBSET (0 .. MAX)
  <2>1. s.staged \cup S \in SUBSET (0 .. MAX)
    BY <1>1
  <2>2. QED
    BY <2>1, BelowType DEF Fitted
<1>3. FitCount(s, S) \in 0 .. MAX /\ FitCount(s, S) \in Nat
  <2>1. MaxCount(Fitted(s, S)) \in 0 .. MAX
    BY <1>2, MaxCountFacts
  <2>2. QED
    BY <1>1, <2>1 DEF FitCount
<1>4. Grown(s.buf, FitCount(s, S)) \in Buffers
  <2>1. PICK c \in 0 .. MAX : c = FitCount(s, S) /\ c \in Nat
    BY <1>3
  <2>2. Grown(s.buf, c) \in Seq(Nat) /\ Len(Grown(s.buf, c)) = IF c > Len(s.buf) THEN c ELSE Len(s.buf)
    BY <1>1, <2>1, GrownType
  <2>3. Len(Grown(s.buf, c)) <= MAX
    BY <1>1, <2>1, <2>2
  <2>4. QED
    BY <2>1, <2>2, <2>3 DEF Buffers
<1>5. QED
  BY <1>2, <1>3, <1>4 DEF AddAndFit, Snaps

LEMMA CopiedType ==
  ASSUME NEW m \in MemberType, NEW S \in SUBSET (0 .. MAX), NEW v \in Nat, NEW k \in 0 .. MAX
  PROVE  /\ Source(m, S) \in Nat /\ Source(m, S) <= MAX
         /\ Copied(m, S, v, k) \in Seq(Nat) /\ Copied(m, S, v, k) \in Buffers
         /\ ~Dynamic(m, S) =>
              /\ Len(Copied(m, S, v, k)) = IF Source(m, S) > Len(m.stage.buf) THEN Source(m, S) ELSE Len(m.stage.buf)
              /\ \A i \in 1 .. Len(Copied(m, S, v, k)) :
                   Copied(m, S, v, k)[i] = IF i - 1 \in S /\ i <= Source(m, S) THEN v
                                           ELSE Grown(m.stage.buf, Source(m, S))[i]
<1>1. Source(m, S) \in Nat /\ Source(m, S) <= MAX
  <2>1. m.count \in Nat /\ m.count <= MAX /\ MaxCount(S) \in Nat /\ MaxCount(S) <= MAX
    <3>1. MaxCount(S) \in 0 .. MAX
      BY MaxCountFacts
    <3>2. MAX \in Nat
      BY DataStoreAssumption
    <3>3. MaxCount(S) \in Nat /\ MaxCount(S) <= MAX
      BY <3>1, <3>2
    <3>4. QED
      BY <3>3, MemberFields
  <2>2. QED
    BY <2>1 DEF Source, Smaller
<1>2. PICK buf \in Seq(Nat) : buf = Grown(m.stage.buf, Source(m, S))
  BY <1>1, GrownType, MemberFields, SnapFields
<1>3. Len(buf) = IF Source(m, S) > Len(m.stage.buf) THEN Source(m, S) ELSE Len(m.stage.buf)
  BY <1>1, <1>2, GrownType, MemberFields, SnapFields
<1>4. CASE Dynamic(m, S)
  <2>1. k \in Nat /\ k <= MAX
    BY DataStoreAssumption
  <2>2. QED
    BY <1>1, <1>4, <2>1, FilledType DEF Copied
<1>5. CASE ~Dynamic(m, S)
  <2>1. Copied(m, S, v, k) = [i \in 1 .. Len(buf) |-> IF i - 1 \in S /\ i <= Source(m, S) THEN v ELSE buf[i]]
    BY <1>2, <1>5 DEF Copied
  <2>2. \A i \in 1 .. Len(buf) : (IF i - 1 \in S /\ i <= Source(m, S) THEN v ELSE buf[i]) \in Nat
    BY <1>2
  <2>3. Copied(m, S, v, k) \in Seq(Nat) /\ Len(Copied(m, S, v, k)) = Len(buf)
    BY <2>1, <2>2
  <2>4. Copied(m, S, v, k) \in Buffers
    <3>1. Len(m.stage.buf) <= MAX
      BY MemberFields, SnapFields
    <3>2. Len(buf) <= MAX
      BY <1>1, <1>3, <3>1
    <3>3. QED
      BY <2>3, <3>2 DEF Buffers
  <2>5. QED
    BY <1>1, <1>2, <1>3, <1>5, <2>1, <2>3, <2>4
<1>6. QED
  BY <1>4, <1>5

\* stage and istore change nothing but the stage.
OnlyStaged(m, n) == \E s \in Snaps : n = [m EXCEPT !.stage = s] /\ s.max = m.stage.max

LEMMA StagedType ==
  ASSUME NEW m \in MemberType, NEW S \in SUBSET (0 .. MAX), NEW v \in Nat, NEW k \in 0 .. MAX
  PROVE  OnlyStaged(m, Staged(m, S, v, k))
<1>1. m.stage \in Snaps
  BY MemberFields
<1>2. PICK s : s = [m.stage EXCEPT !.buf = Copied(m, S, v, k)]
  OBVIOUS
<1>3. s \in Snaps /\ s.max = m.stage.max
  BY <1>1, <1>2, CopiedType, SnapFields
<1>4. Below(S, Len(s.buf)) \in SUBSET (0 .. MAX)
  BY BelowType
<1>5. AddAndFit(s, Below(S, Len(s.buf))) \in Snaps /\ AddAndFit(s, Below(S, Len(s.buf))).max = m.stage.max
  BY <1>3, <1>4, FitTypes
<1>6. Staged(m, S, v, k) = [m EXCEPT !.stage = AddAndFit(s, Below(S, Len(s.buf)))]
  BY <1>2 DEF Staged
<1>7. QED
  BY <1>5, <1>6 DEF OnlyStaged

LEMMA StoredType ==
  ASSUME NEW m \in MemberType
  PROVE  /\ OnlyStaged(m, StoredStage(m))
         /\ Protected(m.stage) \in Snaps
<1>1. m.stage \in Snaps
  BY MemberFields
<1>2. Protected(m.stage) \in Snaps /\ Protected(m.stage).max = m.stage.max
  BY <1>1 DEF Protected, Snaps
<1>3. QED
  BY <1>2 DEF OnlyStaged, StoredStage

LEMMA OnlyStagedFacts ==
  ASSUME NEW m \in MemberType, NEW n, OnlyStaged(m, n)
  PROVE  /\ n \in MemberType /\ n.count = m.count /\ n.ser = m.ser /\ n.committed = m.committed
         /\ n.avail = m.avail /\ n.open = m.open /\ n.stage.max = m.stage.max
         /\ \A x : OnlyStaged(n, x) => OnlyStaged(m, x)
<1>1. PICK s \in Snaps : n = [m EXCEPT !.stage = s] /\ s.max = m.stage.max
  BY DEF OnlyStaged
<1>2. /\ n \in MemberType /\ n.stage = s /\ n.count = m.count /\ n.ser = m.ser /\ n.committed = m.committed
      /\ n.avail = m.avail /\ n.open = m.open
  BY <1>1, Restage
<1>3. ASSUME NEW x, OnlyStaged(n, x) PROVE OnlyStaged(m, x)
  <2>1. PICK u \in Snaps : x = [n EXCEPT !.stage = u] /\ u.max = n.stage.max
    BY <1>3 DEF OnlyStaged
  <2>2. x = [m EXCEPT !.stage = u]
    BY <1>1, <2>1 DEF MemberType
  <2>3. QED
    BY <1>1, <1>2, <2>1, <2>2 DEF OnlyStaged
<1>4. QED
  BY <1>1, <1>2, <1>3

LEMMA StoresType ==
  ASSUME NEW m \in MemberType, NEW S \in SUBSET (0 .. MAX), NEW v \in Nat, NEW k \in 0 .. MAX
  PROVE  OnlyStaged(m, Stores(m, S, v, k))
<1>1. OnlyStaged(m, Staged(m, S, v, k))
  BY StagedType
<1>2. Staged(m, S, v, k) \in MemberType
  BY <1>1, OnlyStagedFacts
<1>3. OnlyStaged(Staged(m, S, v, k), Stores(m, S, v, k))
  BY <1>2, StoredType DEF Stores
<1>4. QED
  BY <1>1, <1>3, OnlyStagedFacts
-----------------------------------------------------------------------------
(* The pool and the committed snapshots of a member *)

Own(m) == DOMAIN m.committed

Pool(m) ==
  /\ Len(m.avail) + Cardinality(Own(m)) = Depth + 1
  /\ \A i \in DOMAIN m.avail : m.avail[i] = Snapshot(m.avail[i].max)

\* A member has the newest of the snapshots of its group.
Newest(m, T) == Own(m) \subseteq T /\ \A t \in Own(m) : \A u \in T : u > t => u \in Own(m)

\* All snapshots of a member have one limit.
Uniform(m, n) ==
  /\ m.stage.max = n /\ \A i \in DOMAIN m.avail : m.avail[i].max = n
  /\ \A t \in Own(m) : m.committed[t].max = n

Stamps(T, t) == T \in SUBSET Nat /\ IsFiniteSet(T) /\ Cardinality(T) <= Depth + 1 /\ \A u \in T : u <= t

LEMMA OwnFinite ==
  ASSUME NEW m \in MemberType, NEW T \in SUBSET Nat, IsFiniteSet(T), Own(m) \subseteq T
  PROVE  /\ Own(m) \in SUBSET Nat /\ IsFiniteSet(Own(m)) /\ Cardinality(Own(m)) \in Nat /\ Cardinality(T) \in Nat
         /\ Cardinality(Own(m)) <= Cardinality(T) /\ (Cardinality(Own(m)) = Cardinality(T) => Own(m) = T)
<1>1. Own(m) \in SUBSET T
  OBVIOUS
<1>2. QED
  BY <1>1, FS_Subset, FS_CardinalityType

\* snapshot_delete puts a blank snapshot at the end of the pool.
LEMMA DeletedFacts ==
  ASSUME NEW m \in MemberType, NEW T \in SUBSET Nat, IsFiniteSet(T), Own(m) \subseteq T, NEW t \in Own(m)
  PROVE  LET n == Deleted(m, t) IN
         /\ n \in MemberType /\ n.stage = m.stage /\ n.count = m.count /\ n.ser = m.ser /\ n.open = m.open
         /\ Own(n) = Own(m) \ {t} /\ \A u \in Own(n) : n.committed[u] = m.committed[u]
         /\ Len(n.avail) = Len(m.avail) + 1
         /\ \A i \in 1 .. Len(m.avail) : n.avail[i] = m.avail[i]
         /\ n.avail[Len(m.avail) + 1] = Snapshot(m.committed[t].max)
         /\ Cardinality(Own(n)) = Cardinality(Own(m)) - 1
<1> DEFINE n == Deleted(m, t)
<1>1. PICK f : f = [u \in Own(m) \ {t} |-> m.committed[u]]
  OBVIOUS
<1>2. PICK r : r = Reset(m.committed[t])
  OBVIOUS
<1>3. n = [m EXCEPT !.committed = f, !.avail = Append(m.avail, r)]
  BY <1>1, <1>2 DEF Deleted, Own, MemberType
<1>4. m.committed \in Tables /\ m.avail \in Seq(Snaps) /\ m.committed[t] \in Snaps
  BY MemberFields, TableFacts DEF Own
<1>5. r \in Snaps /\ r = Snapshot(m.committed[t].max)
  BY <1>2, <1>4, SnapFields, SnapshotType DEF Reset
<1>6. f \in Tables /\ DOMAIN f = Own(m) \ {t} /\ \A u \in DOMAIN f : f[u] = m.committed[u]
  <2>1. /\ DOMAIN f = Own(m) \ {t} /\ (\A u \in DOMAIN f : f[u] = m.committed[u])
        /\ f = [u \in DOMAIN f |-> f[u]]
    BY <1>1
  <2>2. DOMAIN f \subseteq Nat /\ \A u \in DOMAIN f : f[u] \in Snaps
    BY <1>4, <2>1, TableFacts DEF Own
  <2>3. QED
    BY <2>1, <2>2, TableFacts
<1>7. PICK a \in Seq(Snaps) : a = Append(m.avail, r)
  BY <1>4, <1>5, AppendProperties
<1>8. /\ Len(a) = Len(m.avail) + 1 /\ (\A i \in 1 .. Len(m.avail) : a[i] = m.avail[i])
      /\ a[Len(m.avail) + 1] = r
  BY <1>4, <1>5, <1>7, AppendProperties
<1>9. /\ n \in MemberType /\ n.stage = m.stage /\ n.count = m.count /\ n.ser = m.ser /\ n.open = m.open
      /\ n.committed = f /\ n.avail = a
  BY <1>3, <1>6, <1>7 DEF MemberType
<1>10. Cardinality(Own(n)) = Cardinality(Own(m)) - 1
  BY <1>6, <1>9, OwnFinite, FS_RemoveElement DEF Own
<1>11. QED
  BY <1>5, <1>6, <1>8, <1>9, <1>10 DEF Own

\* The next stage is the last snapshot of the pool.
LEMMA NewStageFacts ==
  ASSUME NEW m \in MemberType, m.avail # << >>
  PROVE  LET n == NewStage(m) IN
         /\ n \in MemberType /\ n.count = m.count /\ n.ser = m.ser /\ n.open = m.open /\ n.committed = m.committed
         /\ n.stage = m.avail[Len(m.avail)]
         /\ Len(n.avail) = Len(m.avail) - 1 /\ \A i \in 1 .. Len(m.avail) - 1 : n.avail[i] = m.avail[i]
<1> DEFINE n == NewStage(m)
<1>1. m.avail \in Seq(Snaps) /\ Len(m.avail) \in Nat /\ Len(m.avail) >= 1
  <2>1. m.avail \in Seq(Snaps)
    BY MemberFields
  <2>2. QED
    BY <2>1, EmptySeq
<1>2. PICK a \in Seq(Snaps) : /\ a = Front(m.avail) /\ Len(a) = Len(m.avail) - 1
                              /\ \A i \in 1 .. Len(m.avail) - 1 : a[i] = m.avail[i]
  <2>1. \A i \in 1 .. Len(m.avail) - 1 : m.avail[i] \in Snaps
    BY <1>1
  <2>2. /\ SubSeq(m.avail, 1, Len(m.avail) - 1) \in Seq(Snaps)
        /\ Len(SubSeq(m.avail, 1, Len(m.avail) - 1)) = Len(m.avail) - 1
        /\ \A i \in 1 .. Len(m.avail) - 1 : SubSeq(m.avail, 1, Len(m.avail) - 1)[i] = m.avail[i]
    BY <1>1, <2>1
  <2>3. QED
    BY <2>2 DEF Front
<1>3. PICK s \in Snaps : s = m.avail[Len(m.avail)]
  BY <1>1
<1>4. n = [m EXCEPT !.stage = s, !.avail = a]
  BY <1>2, <1>3 DEF NewStage, Last, MemberType
<1>5. QED
  BY <1>2, <1>3, <1>4 DEF MemberType
-----------------------------------------------------------------------------
(* A commit *)

LEMMA TrimmedFacts ==
  ASSUME NEW T, NEW now \in Int, Stamps(T, now), NEW t \in Nat, \A u \in T : u < t
  PROVE  /\ Stamps(Trimmed(T) \cup {t}, t)
         /\ Cardinality(T) = Depth + 1 => /\ Trimmed(T) = T \ {Min(T)} /\ Min(T) \in T
                                          /\ \A u \in T : Min(T) <= u
         /\ Cardinality(T) # Depth + 1 => Trimmed(T) = T /\ Cardinality(T) <= Depth
<1>1. T \in SUBSET Nat /\ T \subseteq Int /\ IsFiniteSet(T) /\ Cardinality(T) <= Depth + 1 /\ Depth \in Nat
  BY DataStoreAssumption DEF Stamps
<1>2. Cardinality(T) \in Nat
  BY <1>1, FS_CardinalityType
<1>3. t \notin T
  BY <1>1
<1>4. CASE Cardinality(T) = Depth + 1
  <2>1. T # {}
    BY <1>1, <1>4, FS_EmptySet
  <2>2. Min(T) \in T /\ \A u \in T : Min(T) <= u
    BY <1>1, <2>1, MinOf
  <2>3. Trimmed(T) = T \ {Min(T)}
    BY <1>4 DEF Trimmed
  <2>4. IsFiniteSet(T \ {Min(T)}) /\ Cardinality(T \ {Min(T)}) = Depth
    BY <1>1, <1>4, <2>2, FS_RemoveElement
  <2>5. /\ IsFiniteSet((T \ {Min(T)}) \cup {t})
        /\ Cardinality((T \ {Min(T)}) \cup {t}) = Depth + 1
    BY <1>3, <2>4, FS_AddElement
  <2>6. \A u \in (T \ {Min(T)}) \cup {t} : u \in Nat /\ u <= t
    BY <1>1
  <2>7. Stamps(Trimmed(T) \cup {t}, t)
    <3>1. (T \ {Min(T)}) \cup {t} \in SUBSET Nat
      BY <2>6
    <3>2. Depth + 1 <= Depth + 1
      BY <1>1
    <3>3. QED
      BY <2>3, <2>5, <2>6, <3>1, <3>2 DEF Stamps
  <2>8. QED
    BY <1>4, <2>2, <2>3, <2>7
<1>5. CASE Cardinality(T) # Depth + 1
  <2>1. Trimmed(T) = T /\ Cardinality(T) <= Depth
    BY <1>1, <1>2, <1>5 DEF Trimmed
  <2>2. IsFiniteSet(T \cup {t}) /\ Cardinality(T \cup {t}) = Cardinality(T) + 1
    BY <1>1, <1>3, FS_AddElement
  <2>3. \A u \in T \cup {t} : u \in Nat /\ u <= t
    BY <1>1
  <2>4. Stamps(T \cup {t}, t)
    BY <1>1, <1>2, <2>1, <2>2, <2>3 DEF Stamps
  <2>5. QED
    BY <1>5, <2>1, <2>4
<1>6. QED
  BY <1>4, <1>5

\* DataMember::commit, before it looks for a stage.
Entered(m, t) ==
  [m EXCEPT !.committed = [u \in DOMAIN @ \cup {t} |-> IF u = t THEN m.stage ELSE @[u]],
            !.open.at = IF m.open.dir = "stage" THEN t ELSE @]

LEMMA EnteredFacts ==
  ASSUME NEW m \in MemberType, NEW t \in Nat
  PROVE  LET n == Entered(m, t) IN
         /\ n \in MemberType /\ n.stage = m.stage /\ n.count = m.count /\ n.ser = m.ser /\ n.avail = m.avail
         /\ n.open.dir = m.open.dir /\ n.open.at = IF m.open.dir = "stage" THEN t ELSE m.open.at
         /\ Own(n) = Own(m) \cup {t} /\ n.committed[t] = m.stage
         /\ \A u \in Own(m) \ {t} : n.committed[u] = m.committed[u]
<1> DEFINE n == Entered(m, t)
<1>1. PICK f : f = [u \in Own(m) \cup {t} |-> IF u = t THEN m.stage ELSE m.committed[u]]
  OBVIOUS
<1>2. PICK o : o = [dir |-> m.open.dir, at |-> IF m.open.dir = "stage" THEN t ELSE m.open.at]
  OBVIOUS
<1>3. n = [m EXCEPT !.committed = f, !.open = o]
  <2>1. m.open = [dir |-> m.open.dir, at |-> m.open.at]
    BY MemberFields
  <2>2. [m.open EXCEPT !.at = IF m.open.dir = "stage" THEN t ELSE @] = o
    BY <1>2, <2>1
  <2>3. n = [m EXCEPT !.committed = f, !.open = [m.open EXCEPT !.at = IF m.open.dir = "stage" THEN t ELSE @]]
    BY <1>1 DEF Entered, Own, MemberType
  <2>4. QED
    BY <2>2, <2>3
<1>4. f \in Tables
  <2>1. f = [u \in DOMAIN f |-> f[u]] /\ DOMAIN f = Own(m) \cup {t}
    BY <1>1
  <2>2. \A u \in DOMAIN f : f[u] \in Snaps /\ u \in Nat
    BY <1>1, <2>1, MemberFields, TableFacts DEF Own
  <2>3. QED
    BY <2>1, <2>2, TableFacts
<1>5. o \in [dir : {"none", "stage", "load"}, at : Int]
  BY <1>2 DEF MemberType
<1>6. /\ n \in MemberType /\ n.stage = m.stage /\ n.count = m.count /\ n.ser = m.ser /\ n.avail = m.avail
      /\ n.committed = f /\ n.open = o
  BY <1>3, <1>4, <1>5 DEF MemberType
<1>7. QED
  BY <1>1, <1>2, <1>6 DEF Own

LEMMA CommittedIsNewStage ==
  ASSUME NEW m, NEW t
  PROVE  Committed(m, t) = NewStage(IF Cardinality(Own(Entered(m, t))) > Depth + 1
                                    THEN Deleted(Entered(m, t), Min(Own(Entered(m, t)))) ELSE Entered(m, t))
BY DEF Committed, Entered, Own

\* What is kept of the snapshots of a member, that of a commit included.
Retains(n, m, T, t) == Own(n) = (Own(m) \cup {t}) \cap (Trimmed(T) \cup {t})

(***************************************************************************)
(* A member that has the newest snapshots of its group has the newest ones  *)
(* after a commit, though it and the group count for themselves.            *)
(***************************************************************************)
LEMMA CommittedFacts ==
  ASSUME NEW m \in MemberType, Pool(m), NEW T, NEW now \in Int, Stamps(T, now), Newest(m, T),
         NEW t \in Nat, \A u \in T : u < t
  PROVE  LET n == Committed(m, t) IN
         /\ n \in MemberType /\ n.count = m.count /\ n.ser = m.ser
         /\ n.open.dir = m.open.dir /\ n.open.at = IF m.open.dir = "stage" THEN t ELSE m.open.at
         /\ Pool(n) /\ Newest(n, Trimmed(T) \cup {t})
         /\ Retains(n, m, T, t)
         /\ n.committed[t] = m.stage
         /\ \A u \in Own(n) : u # t => u \in Own(m) /\ n.committed[u] = m.committed[u]
         /\ n.stage = Snapshot(n.stage.max)
         /\ \A x \in Nat : Uniform(m, x) => Uniform(n, x)
<1> DEFINE e == Entered(m, t)
           n == Committed(m, t)
<1>1. /\ T \in SUBSET Nat /\ T \subseteq Int /\ IsFiniteSet(T) /\ Cardinality(T) <= Depth + 1 /\ Depth \in Nat
      /\ t \notin T /\ Cardinality(T) \in Nat
  BY DataStoreAssumption, FS_CardinalityType DEF Stamps
<1>2. /\ Own(m) \in SUBSET Nat /\ IsFiniteSet(Own(m)) /\ Cardinality(Own(m)) \in Nat /\ Own(m) \subseteq T
      /\ Cardinality(Own(m)) <= Cardinality(T) /\ (Cardinality(Own(m)) = Cardinality(T) => Own(m) = T)
  BY <1>1, OwnFinite DEF Newest
<1>3. /\ e \in MemberType /\ e.stage = m.stage /\ e.count = m.count /\ e.ser = m.ser /\ e.avail = m.avail
      /\ e.open.dir = m.open.dir /\ e.open.at = IF m.open.dir = "stage" THEN t ELSE m.open.at
      /\ Own(e) = Own(m) \cup {t} /\ e.committed[t] = m.stage
      /\ \A u \in Own(m) \ {t} : e.committed[u] = m.committed[u]
  BY EnteredFacts
<1>4. IsFiniteSet(Own(e)) /\ Cardinality(Own(e)) = Cardinality(Own(m)) + 1 /\ t \notin Own(m)
  BY <1>1, <1>2, <1>3, FS_AddElement
<1>5. /\ m.avail \in Seq(Snaps) /\ Len(m.avail) \in Nat /\ DOMAIN m.avail = 1 .. Len(m.avail)
      /\ Len(m.avail) + Cardinality(Own(m)) = Depth + 1
      /\ \A i \in 1 .. Len(m.avail) : m.avail[i] = Snapshot(m.avail[i].max)
  BY MemberFields DEF Pool
<1> HIDE DEF e
<1>6. CASE Cardinality(Own(m)) = Depth + 1
  <2> DEFINE old == Min(Own(e))
             d   == Deleted(e, old)
  <2>1. Own(m) = T /\ Cardinality(T) = Depth + 1 /\ Len(m.avail) = 0
    <3>1. PICK c \in Nat, o \in Nat, l \in Nat : c = Cardinality(T) /\ o = Cardinality(Own(m)) /\ l = Len(m.avail)
      BY ZenonT(60), <1>1, <1>2, <1>5
    <3>2. o <= c /\ c <= Depth + 1
      BY ZenonT(60), <1>1, <1>2, <3>1
    <3>3. l + o = Depth + 1 /\ o = Depth + 1 /\ Depth \in Nat
      BY ZenonT(60), <1>1, <1>5, <1>6, <3>1
    <3>4. o = c /\ l = 0
      BY <3>2, <3>3
    <3>5. QED
      BY ZenonT(60), <1>2, <1>6, <3>1, <3>4
  <2>2. old \in Own(e) /\ \A u \in Own(e) : old <= u
    <3>1. Own(e) \subseteq Int /\ Own(e) # {}
      BY <1>1, <1>2, <1>3
    <3>2. QED
      BY <1>4, <3>1, MinOf
  <2>3. Trimmed(T) = T \ {Min(T)} /\ Min(T) \in T /\ \A u \in T : Min(T) <= u
    BY <2>1, TrimmedFacts
  <2>4. old = Min(T)
    <3>1. old \in Nat /\ Min(T) \in Nat /\ old <= Min(T) /\ Min(T) < t
      BY <1>1, <1>2, <1>3, <2>1, <2>2, <2>3
    <3>2. old \in T
      BY <1>3, <2>1, <2>2, <3>1
    <3>3. QED
      BY <2>3, <3>1, <3>2
  <2>5. Own(e) \in SUBSET Nat
    BY <1>2, <1>3
  <2>6. /\ d \in MemberType /\ d.stage = e.stage /\ d.count = e.count /\ d.ser = e.ser /\ d.open = e.open
        /\ Own(d) = Own(e) \ {old} /\ \A u \in Own(d) : d.committed[u] = e.committed[u]
        /\ Len(d.avail) = 1 /\ d.avail[1] = Snapshot(e.committed[old].max)
        /\ Cardinality(Own(d)) = Depth + 1
    <3>1. /\ d \in MemberType /\ d.stage = e.stage /\ d.count = e.count /\ d.ser = e.ser /\ d.open = e.open
          /\ Own(d) = Own(e) \ {old} /\ \A u \in Own(d) : d.committed[u] = e.committed[u]
          /\ Len(d.avail) = Len(e.avail) + 1
          /\ d.avail[Len(e.avail) + 1] = Snapshot(e.committed[old].max)
          /\ Cardinality(Own(d)) = Cardinality(Own(e)) - 1
      BY ZenonT(60), <1>3, <1>4, <2>2, <2>5, DeletedFacts
    <3>2. Len(e.avail) = 0 /\ Cardinality(Own(e)) = Depth + 2
      BY <1>1, <1>3, <1>4, <1>6, <2>1
    <3>3. Len(e.avail) + 1 = 1 /\ Cardinality(Own(e)) - 1 = Depth + 1
      BY <1>1, <3>2
    <3>4. QED
      BY <3>1, <3>3
  <2>7. n = NewStage(d)
    BY <1>1, <1>4, <1>6, CommittedIsNewStage DEF e
  <2> HIDE DEF n, d
  <2>8. d.avail # << >>
    BY <2>6
  <2>9. /\ n \in MemberType /\ n.count = d.count /\ n.ser = d.ser /\ n.open = d.open /\ n.committed = d.committed
        /\ n.stage = d.avail[1] /\ Len(n.avail) = 0
    BY <2>6, <2>7, <2>8, NewStageFacts
  <2>10. Own(n) = Own(d) /\ Own(n) = Trimmed(T) \cup {t}
    <3>1. Own(n) = Own(d)
      BY <2>9 DEF Own
    <3>2. Own(d) = (T \cup {t}) \ {Min(T)} /\ t # Min(T)
      BY <1>1, <1>3, <2>1, <2>3, <2>4, <2>6
    <3>3. QED
      BY <2>3, <3>1, <3>2
  <2>11. Pool(n) /\ DOMAIN n.avail = {}
    BY <1>1, <2>6, <2>9, <2>10, MemberFields DEF Pool
  <2>12. Newest(n, Trimmed(T) \cup {t})
    BY <2>10 DEF Newest
  <2>13. t \in Own(n) /\ n.committed[t] = m.stage
    BY ZenonT(60), <1>3, <2>6, <2>9, <2>10
  <2>14. \A u \in Own(n) : u # t => u \in Own(m) /\ n.committed[u] = m.committed[u]
    BY <1>3, <2>1, <2>3, <2>6, <2>9, <2>10
  <2>15. n.stage = Snapshot(n.stage.max) /\ old \in Own(m) /\ n.stage = Snapshot(m.committed[old].max)
         /\ n.stage.max = m.committed[old].max
    <3>1. old \in Own(m) /\ old # t
      BY <1>1, <2>1, <2>3, <2>4
    <3>2. n.stage = Snapshot(m.committed[old].max)
      BY <1>3, <2>6, <2>9, <3>1
    <3>3. n.stage.max = m.committed[old].max
      BY <3>2 DEF Snapshot
    <3>4. QED
      BY <3>1, <3>2, <3>3
  <2>16. \A x \in Nat : Uniform(m, x) => Uniform(n, x)
    BY <2>11, <2>13, <2>14, <2>15 DEF Uniform
  <2>17. Retains(n, m, T, t)
    BY <2>1, <2>3, <2>10 DEF Retains
  <2>18. QED
    BY <1>3, <2>6, <2>9, <2>11, <2>12, <2>13, <2>14, <2>15, <2>16, <2>17 DEF n
<1>7. CASE Cardinality(Own(m)) # Depth + 1
  <2>1. Cardinality(Own(m)) <= Depth /\ Len(m.avail) >= 1
    BY <1>1, <1>2, <1>5, <1>7
  <2>2. n = NewStage(e)
    BY <1>1, <1>2, <1>4, <2>1, CommittedIsNewStage DEF e
  <2> HIDE DEF n
  <2>3. e.avail # << >>
    BY <1>3, <1>5, <2>1
  <2>4. /\ n \in MemberType /\ n.count = e.count /\ n.ser = e.ser /\ n.open = e.open /\ n.committed = e.committed
        /\ n.stage = m.avail[Len(m.avail)] /\ Len(n.avail) = Len(m.avail) - 1
        /\ \A i \in 1 .. Len(m.avail) - 1 : n.avail[i] = m.avail[i]
    <3>1. /\ n \in MemberType /\ n.count = e.count /\ n.ser = e.ser /\ n.open = e.open /\ n.committed = e.committed
          /\ n.stage = e.avail[Len(e.avail)] /\ Len(n.avail) = Len(e.avail) - 1
          /\ \A i \in 1 .. Len(e.avail) - 1 : n.avail[i] = e.avail[i]
      BY <1>3, <2>2, <2>3, NewStageFacts
    <3>2. e.avail = m.avail
      BY <1>3
    <3>3. QED
      BY <3>1, <3>2
  <2>5. Own(n) = Own(m) \cup {t}
    BY <1>3, <2>4 DEF Own
  <2>6. Own(m) \subseteq Trimmed(T)
    <3>1. CASE Cardinality(T) = Depth + 1
      <4>1. Trimmed(T) = T \ {Min(T)} /\ Min(T) \in T /\ \A u \in T : Min(T) <= u
        BY <3>1, TrimmedFacts
      <4>2. ASSUME Min(T) \in Own(m) PROVE FALSE
        <5>1. ASSUME NEW u \in T PROVE u \in Own(m)
          <6>1. u = Min(T) \/ u > Min(T)
            <7>1. u \in Nat /\ Min(T) \in Nat /\ Min(T) <= u
              BY <1>1, <4>1
            <7>2. QED
              BY <7>1
          <6>2. QED
            BY <4>2, <6>1 DEF Newest
        <5>2. Own(m) = T
          BY <1>2, <5>1
        <5>3. QED
          BY <1>7, <3>1, <5>2
      <4>3. QED
        BY <1>2, <4>1, <4>2
    <3>2. CASE Cardinality(T) # Depth + 1
      BY <1>2, <3>2, TrimmedFacts
    <3>3. QED
      BY <3>1, <3>2
  <2>7. Trimmed(T) \subseteq T
    BY DEF Trimmed
  <2>8. Newest(n, Trimmed(T) \cup {t})
    <3>1. ASSUME NEW a \in Own(n), NEW u \in Trimmed(T) \cup {t}, u > a PROVE u \in Own(n)
      <4>1. CASE u = t
        BY <2>5, <4>1
      <4>2. CASE u \in T
        <5>1. a # t
          BY <1>1, <3>1, <4>2
        <5>2. a \in Own(m)
          BY <2>5, <5>1
        <5>3. QED
          BY <2>5, <3>1, <4>2, <5>2 DEF Newest
      <4>3. QED
        BY <2>7, <4>1, <4>2
    <3>2. QED
      BY <2>5, <2>6, <3>1 DEF Newest
  <2>9. DOMAIN n.avail = 1 .. Len(m.avail) - 1
    BY <2>4, MemberFields
  <2>10. Pool(n)
    <3>1. Len(n.avail) + Cardinality(Own(n)) = Depth + 1
      BY SMTT(30), <1>1, <1>2, <1>3, <1>4, <1>5, <2>4, <2>5
    <3>2. \A i \in DOMAIN n.avail : n.avail[i] = Snapshot(n.avail[i].max)
      BY <1>5, <2>4, <2>9
    <3>3. QED
      BY <3>1, <3>2 DEF Pool
  <2>11. t \in Own(n) /\ n.committed[t] = m.stage
    BY <1>3, <2>4, <2>5
  <2>12. \A u \in Own(n) : u # t => u \in Own(m) /\ n.committed[u] = m.committed[u]
    BY <1>3, <2>4, <2>5
  <2>13. n.stage = Snapshot(n.stage.max)
    BY <1>5, <2>1, <2>4
  <2>14. ASSUME NEW x \in Nat, Uniform(m, x) PROVE Uniform(n, x)
    <3>1. n.stage.max = x
      BY <1>5, <2>1, <2>4, <2>14 DEF Uniform
    <3>2. \A i \in DOMAIN n.avail : n.avail[i].max = x
      BY <1>5, <2>4, <2>9, <2>14 DEF Uniform
    <3>3. \A u \in Own(n) : n.committed[u].max = x
      BY <2>11, <2>12, <2>14 DEF Uniform
    <3>4. QED
      BY <3>1, <3>2, <3>3 DEF Uniform
  <2>15. Retains(n, m, T, t)
    BY <2>5, <2>6 DEF Retains
  <2>16. QED
    BY <1>3, <2>4, <2>8, <2>10, <2>11, <2>12, <2>13, <2>14, <2>15 DEF n
<1>8. QED
  BY <1>6, <1>7
-----------------------------------------------------------------------------
(***************************************************************************)
(* The inductive invariant of every application, whatever rules it breaks.  *)
(***************************************************************************)
Typed ==
  /\ timestamp \in Int /\ timestamp >= NoTime /\ Stamps(timestamps, timestamp)
  /\ DOMAIN members \subseteq Member /\ members \in [DOMAIN members -> MemberType]
  /\ writes \in Nat /\ aborted \in BOOLEAN

DInv ==
  /\ Typed
  /\ \A id \in DOMAIN members : Pool(members[id]) /\ Newest(members[id], timestamps)

\* What a call may change without touching the pool or which snapshots there are.
SameCopies(m, n) == n \in MemberType /\ n.avail = m.avail /\ Own(n) = Own(m)

LEMMA OneOf ==
  ASSUME DInv, NEW id \in DOMAIN members
  PROVE  /\ members[id] \in MemberType /\ id \in Member /\ Pool(members[id])
         /\ Newest(members[id], timestamps)
BY DEF DInv, Typed

LEMMA CopiesKept ==
  ASSUME DInv, UNCHANGED Groups, writes' \in Nat, aborted' \in BOOLEAN,
         members' = [id \in DOMAIN members |-> members'[id]],
         \A id \in DOMAIN members : SameCopies(members[id], members'[id])
  PROVE  DInv'
<1>1. timestamp' = timestamp /\ timestamps' = timestamps /\ DOMAIN members' = DOMAIN members
  BY DEF Groups
<1>2. Typed'
  <2>1. members' \in [DOMAIN members -> MemberType]
    BY DEF SameCopies
  <2>2. QED
    BY <1>1, <2>1 DEF DInv, Typed, Stamps
<1>3. ASSUME NEW id \in DOMAIN members
      PROVE  Pool(members'[id]) /\ Newest(members'[id], timestamps)
  BY OneOf DEF SameCopies, Pool, Newest
<1>4. QED
  BY <1>1, <1>2, <1>3 DEF DInv, Pool, Newest, Own

LEMMA OneKept ==
  ASSUME DInv, UNCHANGED Groups, writes' \in Nat, aborted' \in BOOLEAN, NEW id \in DOMAIN members,
         NEW n, Becomes(id, n), SameCopies(members[id], n)
  PROVE  DInv'
<1>1. /\ members' = [x \in DOMAIN members |-> members'[x]]
      /\ \A x \in DOMAIN members : members'[x] = IF x = id THEN n ELSE members[x]
  BY DEF Becomes, DInv, Typed
<1>2. \A x \in DOMAIN members : SameCopies(members[x], members'[x])
  BY <1>1, OneOf DEF SameCopies
<1>3. QED
  BY <1>1, <1>2, CopiesKept

LEMMA NothingKept ==
  ASSUME DInv, UNCHANGED Groups, writes' \in Nat, aborted' \in BOOLEAN, UNCHANGED members
  PROVE  DInv'
<1>1. members' = [x \in DOMAIN members |-> members'[x]]
  BY DEF DInv, Typed
<1>2. \A x \in DOMAIN members : SameCopies(members[x], members'[x])
  BY OneOf DEF SameCopies
<1>3. QED
  BY <1>1, <1>2, CopiesKept

LEMMA Aborts ==
  ASSUME DInv, Abort, writes' = writes + 1
  PROVE  DInv'
<1>1. UNCHANGED Groups /\ UNCHANGED members /\ writes' \in Nat /\ aborted' \in BOOLEAN
  BY DEF Abort, DInv, Typed
<1>2. QED
  BY <1>1, NothingKept

LEMMA StagedCopies ==
  ASSUME NEW m \in MemberType, NEW n, OnlyStaged(m, n)
  PROVE  SameCopies(m, n)
BY OnlyStagedFacts DEF SameCopies, Own

LEMMA InitDInv ==
  ASSUME Init PROVE DInv
<1>1. Stamps({}, NoTime)
  BY FS_EmptySet, DataStoreAssumption DEF Stamps
<1>2. timestamp = NoTime /\ timestamps = {} /\ writes = 0 /\ aborted = FALSE /\ members = [m \in {} |-> 0]
  BY DEF Init
<1>3. DOMAIN members = {} /\ members \in [{} -> MemberType]
  BY <1>2
<1>4. Stamps(timestamps, timestamp)
  BY <1>1, <1>2
<1>5. Typed
  <2>1. /\ timestamp \in Int /\ timestamp >= NoTime
        /\ writes \in Nat
        /\ aborted \in BOOLEAN
    <3>1. NoTime \in Int /\ NoTime >= NoTime
      BY DEF NoTime
    <3>2. writes \in Nat
      BY <1>2
    <3>3. aborted \in BOOLEAN
      BY <1>2
    <3>4. QED
      BY <1>2, <3>1, <3>2, <3>3
  <2>2. DOMAIN members \subseteq Member /\ members \in [DOMAIN members -> MemberType]
    BY <1>3
  <2>3. QED
    BY <1>4, <2>1, <2>2 DEF Typed
<1>6. QED
  BY <1>3, <1>5 DEF DInv

LEMMA NoTimeType ==
  /\ NoTime \in Int /\ NoTime \notin Nat /\ \A u \in Nat : u > NoTime
  /\ Closed \in [dir : {"none", "stage", "load"}, at : Int]
  /\ [dir |-> "stage", at |-> NoTime] \in [dir : {"none", "stage", "load"}, at : Int]
<1>1. NoTime \in Int /\ NoTime \notin Nat /\ \A u \in Nat : u > NoTime
  BY DEF NoTime
<1>2. QED
  BY <1>1 DEF Closed

LEMMA ShapeType ==
  ASSUME NEW id \in Member, NEW shape \in Shapes[id]
  PROVE  shape[1] \in 0 .. MAX - 1 /\ shape[2] \in BOOLEAN
BY DataStoreAssumption

LEMMA NewMemberFacts ==
  ASSUME NEW n \in 0 .. MAX - 1, NEW ser \in BOOLEAN
  PROVE  LET m == NewMember(n, ser) IN
         /\ m \in MemberType /\ m.count = n /\ m.ser = ser /\ m.stage = Snapshot(n) /\ m.open = Closed
         /\ Own(m) = {} /\ Pool(m) /\ (\A T : Newest(m, T)) /\ Uniform(m, n)
<1> DEFINE m == NewMember(n, ser)
<1>1. n \in Nat /\ Snapshot(n) \in Snaps /\ Snapshot(n).max = n
  <2>1. n \in 0 .. MAX /\ n \in Nat
    BY DataStoreAssumption
  <2>2. QED
    BY <2>1, SnapshotType
<1>2. PICK a \in Seq(Snaps) : /\ a = [i \in 1 .. Depth + 1 |-> Snapshot(n)] /\ Len(a) = Depth + 1
                              /\ \A i \in DOMAIN a : a[i] = Snapshot(n)
  <2>1. Depth + 1 \in Nat
    BY DataStoreAssumption
  <2>2. PICK s \in Snaps : s = Snapshot(n)
    BY <1>1
  <2>3. PICK k \in Nat : k = Depth + 1
    BY <2>1
  <2>4. [i \in 1 .. k |-> s] \in Seq(Snaps) /\ Len([i \in 1 .. k |-> s]) = k
    OBVIOUS
  <2>5. QED
    BY <2>2, <2>3, <2>4
<1>3. PICK f \in Tables : f = [t \in {} |-> Snapshot(n)] /\ DOMAIN f = {}
  <2>1. PICK f : f = [t \in {} |-> Snapshot(n)]
    OBVIOUS
  <2>2. DOMAIN f = {} /\ f \in [{} -> Snaps] /\ {} \in SUBSET Nat
    BY <2>1
  <2>3. f \in Tables
    BY <2>2 DEF Tables
  <2>4. QED
    BY <2>1, <2>2, <2>3
<1>4. Closed \in [dir : {"none", "stage", "load"}, at : Int]
  BY DEF Closed, NoTime
<1>5. m = [count |-> n, ser |-> ser, stage |-> Snapshot(n), committed |-> f, avail |-> a, open |-> Closed]
  BY <1>2, <1>3 DEF NewMember
<1>6. /\ m \in MemberType /\ m.count = n /\ m.ser = ser /\ m.stage = Snapshot(n) /\ m.open = Closed
      /\ m.committed = f /\ m.avail = a
  BY <1>1, <1>4, <1>5 DEF MemberType
<1>7. Own(m) = {}
  BY <1>3, <1>6 DEF Own
<1>8. Pool(m)
  BY <1>1, <1>2, <1>6, <1>7, FS_EmptySet, DataStoreAssumption DEF Pool
<1>9. Uniform(m, n)
  BY <1>1, <1>2, <1>6, <1>7 DEF Uniform
<1>10. QED
  BY <1>6, <1>7, <1>8, <1>9 DEF Newest
-----------------------------------------------------------------------------
(* The calls, one by one *)

LEMMA CreateDInv ==
  ASSUME DInv, NEW id \in Member, NEW n \in 0 .. MAX - 1, NEW ser \in BOOLEAN, MemberCreate(id, n, ser)
  PROVE  DInv'
<1>1. /\ UNCHANGED Groups /\ UNCHANGED writes /\ UNCHANGED aborted /\ id \notin DOMAIN members
      /\ members' = [x \in DOMAIN members \cup {id} |-> IF x = id THEN NewMember(n, ser) ELSE members[x]]
  BY DEF MemberCreate
<1>2. timestamp' = timestamp /\ timestamps' = timestamps
  BY <1>1 DEF Groups
<1>3. PICK m \in MemberType : m = NewMember(n, ser) /\ Pool(m) /\ \A T : Newest(m, T)
  BY NewMemberFacts
<1>4. DOMAIN members' = DOMAIN members \cup {id} /\ members'[id] = m
      /\ \A x \in DOMAIN members : members'[x] = members[x]
  BY <1>1, <1>3
<1>5. members' \in [DOMAIN members' -> MemberType] /\ DOMAIN members' \subseteq Member
  BY <1>1, <1>3, <1>4, OneOf DEF DInv, Typed
<1>6. \A x \in DOMAIN members' : Pool(members'[x]) /\ Newest(members'[x], timestamps)
  BY <1>3, <1>4, OneOf
<1>7. QED
  BY ZenonT(60), <1>1, <1>2, <1>5, <1>6 DEF DInv, Typed, Stamps, Pool, Newest, Own

LEMMA SettingDInv ==
  ASSUME DInv, NEW id, NEW n \in 0 .. MAX - 1, NEW ser \in BOOLEAN,
         MemberAttrSet(id, n) \/ MemberDefine(id, n, ser)
  PROVE  DInv'
<1>1. /\ UNCHANGED Groups /\ writes' \in Nat /\ aborted' \in BOOLEAN /\ id \in DOMAIN members
  BY DEF MemberAttrSet, MemberDefine, Free, Exists, DInv, Typed
<1>2. PICK m \in MemberType : m = members[id]
  BY <1>1, OneOf
<1>3. CASE MemberAttrSet(id, n)
  <2>1. SameCopies(m, [m EXCEPT !.count = n])
    BY DEF SameCopies, Own, MemberType
  <2>2. Becomes(id, [m EXCEPT !.count = n])
    BY <1>2, <1>3 DEF MemberAttrSet
  <2>3. QED
    BY <1>1, <1>2, <2>1, <2>2, OneKept
<1>4. CASE MemberDefine(id, n, ser)
  <2>1. SameCopies(m, [m EXCEPT !.count = n, !.ser = ser])
    BY DEF SameCopies, Own, MemberType
  <2>2. Becomes(id, [m EXCEPT !.count = n, !.ser = ser])
    BY <1>2, <1>4 DEF MemberDefine
  <2>3. QED
    BY <1>1, <1>2, <2>1, <2>2, OneKept
<1>5. QED
  BY <1>3, <1>4

LEMMA DeleteDInv ==
  ASSUME DInv, NEW id, MemberDelete(id)
  PROVE  DInv'
<1>1. /\ UNCHANGED Groups /\ UNCHANGED writes /\ UNCHANGED aborted
      /\ members' = [x \in DOMAIN members \ {id} |-> members[x]]
  BY DEF MemberDelete
<1>2. timestamp' = timestamp /\ timestamps' = timestamps
  BY <1>1 DEF Groups
<1>3. DOMAIN members' = DOMAIN members \ {id} /\ \A x \in DOMAIN members' : members'[x] = members[x]
  BY <1>1
<1>4. members' \in [DOMAIN members' -> MemberType] /\ DOMAIN members' \subseteq Member
  BY <1>1, <1>3, OneOf DEF DInv, Typed
<1>5. \A x \in DOMAIN members' : Pool(members'[x]) /\ Newest(members'[x], timestamps)
  BY <1>3, OneOf
<1>6. QED
  BY <1>1, <1>2, <1>4, <1>5 DEF DInv, Typed, Stamps, Pool, Newest, Own

LEMMA StageDInv ==
  ASSUME DInv, NEW id, NEW S \in SUBSET (0 .. MAX), NEW k \in 0 .. MAX, MemberStage(id, S, k)
  PROVE  DInv'
<1>1. id \in DOMAIN members /\ writes' = writes + 1 /\ writes \in Nat /\ aborted \in BOOLEAN
  BY DEF MemberStage, Free, Exists, Writes, DInv, Typed
<1>2. \/ Abort
      \/ UNCHANGED aborted /\ Becomes(id, Staged(members[id], S, writes + 1, k)) /\ UNCHANGED Groups
  BY DEF MemberStage, Writes
<1>3. SameCopies(members[id], Staged(members[id], S, writes + 1, k))
  <2>1. members[id] \in MemberType /\ writes + 1 \in Nat
    BY <1>1, OneOf
  <2>2. QED
    BY <2>1, StagedType, StagedCopies
<1>4. QED
  BY <1>1, <1>2, <1>3, Aborts, OneKept

LEMMA PrestagedDInv ==
  ASSUME DInv, NEW id, MemberStorePrestaged(id)
  PROVE  DInv'
<1>1. /\ UNCHANGED Groups /\ writes' \in Nat /\ aborted' \in BOOLEAN /\ id \in DOMAIN members
      /\ Becomes(id, StoredStage(members[id]))
  BY DEF MemberStorePrestaged, Free, Exists, DInv, Typed
<1>2. SameCopies(members[id], StoredStage(members[id]))
  BY <1>1, OneOf, StoredType, StagedCopies
<1>3. QED
  BY <1>1, <1>2, OneKept

LEMMA AfterStoresCopies ==
  ASSUME DInv, NEW ids, NEW S \in SUBSET (0 .. MAX), NEW k \in 0 .. MAX
  PROVE  /\ DOMAIN AfterStores(ids, S, k) = DOMAIN members
         /\ AfterStores(ids, S, k) = [id \in DOMAIN members |-> AfterStores(ids, S, k)[id]]
         /\ \A id \in DOMAIN members : SameCopies(members[id], AfterStores(ids, S, k)[id])
<1>1. /\ DOMAIN AfterStores(ids, S, k) = DOMAIN members
      /\ AfterStores(ids, S, k) = [id \in DOMAIN members |-> AfterStores(ids, S, k)[id]]
      /\ \A id \in DOMAIN members :
           AfterStores(ids, S, k)[id] = IF id \in ToSet(ids) THEN Stores(members[id], S, writes + 1, k) ELSE members[id]
  BY DEF AfterStores
<1>2. ASSUME NEW id \in DOMAIN members
      PROVE  SameCopies(members[id], AfterStores(ids, S, k)[id])
  <2>1. members[id] \in MemberType /\ writes + 1 \in Nat
    BY OneOf DEF DInv, Typed
  <2>2. SameCopies(members[id], Stores(members[id], S, writes + 1, k))
    BY <2>1, StoresType, StagedCopies
  <2>3. SameCopies(members[id], members[id])
    BY <2>1 DEF SameCopies
  <2>4. QED
    BY <1>1, <2>2, <2>3
<1>3. QED
  BY <1>1, <1>2

LEMMA StoreDInv ==
  ASSUME DInv, NEW ids, NEW S \in SUBSET (0 .. MAX), NEW k \in 0 .. MAX, MemberStore(ids, S, k)
  PROVE  DInv'
<1>1. writes' = writes + 1 /\ writes \in Nat /\ aborted \in BOOLEAN
  BY DEF MemberStore, Writes, DInv, Typed
<1>2. \/ Abort
      \/ UNCHANGED aborted /\ members' = AfterStores(Reached(ids, S), S, k) /\ UNCHANGED Groups
  BY DEF MemberStore, Writes
<1>3. QED
  BY <1>1, <1>2, AfterStoresCopies, CopiesKept, Aborts

LEMMA InplaceDInv ==
  ASSUME DInv, NEW id, NEW S \in SUBSET (0 .. MAX), Exists(id), MemberStageInplace(id, S)
  PROVE  DInv'
<1>1. id \in DOMAIN members /\ writes' = writes + 1 /\ writes \in Nat /\ aborted \in BOOLEAN
  BY DEF MemberStageInplace, Exists, Writes, DInv, Typed
<1>2. PICK m \in MemberType : m = members[id]
  BY <1>1, OneOf
<1>3. PICK n \in Nat : n <= MAX /\ n = IF Bounded(S) /\ m.count > MaxCount(S) THEN MaxCount(S) ELSE m.count
  <2>1. m.count \in Nat /\ m.count <= MAX /\ MaxCount(S) \in Nat /\ MaxCount(S) <= MAX
    <3>1. MaxCount(S) \in 0 .. MAX
      BY MaxCountFacts
    <3>2. MAX \in Nat
      BY DataStoreAssumption
    <3>3. MaxCount(S) \in Nat /\ MaxCount(S) <= MAX
      BY <3>1, <3>2
    <3>4. QED
      BY <3>3, MemberFields
  <2>2. QED
    BY <2>1
<1>4. PICK s \in Snaps : s = [m.stage EXCEPT !.buf = Filled(n, writes + 1)] /\ s.max = m.stage.max
  <2>1. m.stage \in Snaps
    BY MemberFields
  <2>2. writes + 1 \in Nat
    BY <1>1
  <2>3. Filled(n, writes + 1) \in Buffers
    BY <1>3, <2>2, FilledType
  <2>4. QED
    BY <2>1, <2>3, SnapFields
<1>5. \/ Abort
      \/ /\ UNCHANGED aborted /\ UNCHANGED Groups
         /\ Becomes(id, [m EXCEPT !.stage = AddAndFit(s, Below(S, n))])
  BY <1>2, <1>3, <1>4 DEF MemberStageInplace, Writes
<1>6. SameCopies(m, [m EXCEPT !.stage = AddAndFit(s, Below(S, n))])
  <2>1. Below(S, n) \in SUBSET (0 .. MAX)
    BY BelowType
  <2>2. AddAndFit(s, Below(S, n)) \in Snaps /\ AddAndFit(s, Below(S, n)).max = m.stage.max
    BY <1>4, <2>1, FitTypes
  <2>3. OnlyStaged(m, [m EXCEPT !.stage = AddAndFit(s, Below(S, n))])
    BY <2>2 DEF OnlyStaged
  <2>4. QED
    BY <2>3, StagedCopies
<1>7. QED
  BY <1>1, <1>2, <1>5, <1>6, Aborts, OneKept

LEMMA BeginDInv ==
  ASSUME DInv, NEW id, MemberStageBegin(id) \/ MemberLoadBegin(id, LATEST) \/ MemberLoadEnd(id)
  PROVE  DInv'
<1>1. UNCHANGED Groups /\ writes' \in Nat /\ aborted' \in BOOLEAN /\ id \in DOMAIN members
  BY DEF MemberStageBegin, MemberLoadBegin, MemberLoadEnd, CanOpen, Free, Exists, DInv, Typed
<1>2. PICK m \in MemberType : m = members[id]
  BY <1>1, OneOf
<1>3. Own(m) \subseteq Int /\ IsFiniteSet(Own(m))
  BY <1>1, <1>2, OneOf, OwnFinite DEF DInv, Typed, Stamps, Newest
<1>4. ASSUME NEW o \in [dir : {"none", "stage", "load"}, at : Int]
      PROVE  SameCopies(m, [m EXCEPT !.open = o])
  BY DEF SameCopies, Own, MemberType
<1>5. CASE MemberStageBegin(id)
  <2>1. PICK s \in Snaps : s = [m.stage EXCEPT !.buf = Filled(m.count, Junk)]
    <3>1. m.count \in Nat /\ m.count <= MAX /\ Junk \in Nat
      BY MemberFields DEF Junk
    <3>2. QED
      BY <3>1, MemberFields, SnapFields, FilledType
  <2>2. PICK o \in [dir : {"none", "stage", "load"}, at : Int] : o = [dir |-> "stage", at |-> NoTime]
    BY NoTimeType
  <2>3. Becomes(id, [m EXCEPT !.stage = s, !.open = o])
    <3>1. [m EXCEPT !.stage.buf = Filled(m.count, Junk), !.open = o] = [m EXCEPT !.stage = s, !.open = o]
      BY <2>1 DEF MemberType
    <3>2. QED
      BY <1>2, <1>5, <2>2, <3>1 DEF MemberStageBegin
  <2>4. SameCopies(m, [m EXCEPT !.stage = s, !.open = o])
    BY DEF SameCopies, Own, MemberType
  <2>5. QED
    BY <1>1, <1>2, <2>3, <2>4, OneKept
<1>6. CASE MemberLoadBegin(id, LATEST)
  <2>1. Own(m) # {}
    BY <1>2, <1>6 DEF MemberLoadBegin, Finds, LATEST, Own
  <2>2. FindSnapshot(m, LATEST) \in Int
    BY <1>3, <2>1, MaxOf DEF FindSnapshot, Own
  <2>3. PICK o \in [dir : {"none", "stage", "load"}, at : Int] : o = [dir |-> "load", at |-> FindSnapshot(m, LATEST)]
    BY <2>2
  <2>4. Becomes(id, [m EXCEPT !.open = o])
    BY <1>2, <1>6, <2>3 DEF MemberLoadBegin
  <2>5. QED
    BY <1>1, <1>2, <1>4, <2>4, OneKept
<1>7. CASE MemberLoadEnd(id)
  <2>1. PICK o \in [dir : {"none", "stage", "load"}, at : Int] : o = Closed
    BY NoTimeType
  <2>2. Becomes(id, [m EXCEPT !.open = o])
    BY <1>2, <1>7, <2>1 DEF MemberLoadEnd
  <2>3. QED
    BY <1>1, <1>2, <1>4, <2>2, OneKept
<1>8. QED
  BY <1>5, <1>6, <1>7

(***************************************************************************)
(* A serializer that writes at the snapshot of a time stamp changes neither *)
(* which snapshots there are nor their limits.                              *)
(***************************************************************************)
Rewritten(m, s, t) == [m EXCEPT !.open = Closed, !.committed[t] = s]

LEMMA RewrittenFacts ==
  ASSUME NEW m \in MemberType, NEW t \in Own(m), NEW s \in Snaps
  PROVE  LET n == Rewritten(m, s, t) IN
         /\ n \in MemberType /\ n.stage = m.stage /\ n.count = m.count /\ n.ser = m.ser /\ n.avail = m.avail
         /\ n.open = Closed /\ Own(n) = Own(m) /\ n.committed[t] = s
         /\ \A u \in Own(m) \ {t} : n.committed[u] = m.committed[u]
<1> DEFINE n == Rewritten(m, s, t)
<1>1. PICK f : f = [m.committed EXCEPT ![t] = s]
  OBVIOUS
<1>2. m.committed \in Tables /\ m.committed = [u \in Own(m) |-> m.committed[u]]
  BY MemberFields, TableFacts DEF Own
<1>3. /\ DOMAIN f = Own(m) /\ f[t] = s /\ \A u \in Own(m) \ {t} : f[u] = m.committed[u]
      /\ f = [u \in DOMAIN f |-> f[u]]
  BY <1>1, <1>2 DEF Own
<1>4. f \in Tables
  <2>1. DOMAIN f \subseteq Nat /\ \A u \in DOMAIN f : f[u] \in Snaps
    BY <1>2, <1>3, TableFacts DEF Own
  <2>2. QED
    BY <1>3, <2>1, TableFacts
<1>5. n = [m EXCEPT !.open = Closed, !.committed = f]
  BY <1>1 DEF Rewritten, MemberType
<1>6. Closed \in [dir : {"none", "stage", "load"}, at : Int]
  BY DEF Closed, NoTime
<1>7. QED
  BY <1>3, <1>4, <1>5, <1>6 DEF MemberType, Own

LEMMA StageEndDInv ==
  ASSUME DInv, NEW id, NEW k \in 0 .. MAX, MemberStageEnd(id, k)
  PROVE  DInv'
<1>1. id \in DOMAIN members /\ writes' = writes + 1 /\ writes \in Nat /\ aborted \in BOOLEAN
  BY DEF MemberStageEnd, Exists, Writes, DInv, Typed
<1>2. PICK m \in MemberType : m = members[id]
  BY <1>1, OneOf
<1>3. PICK v \in Nat : v = writes + 1
  BY <1>1
<1> DEFINE written(s) == [s EXCEPT !.buf = Filled(IF m.count = RESIZEABLE THEN k ELSE Len(@), v)]
           n == IF m.open.at = NoTime THEN [m EXCEPT !.open = Closed, !.stage = written(@)]
                ELSE [m EXCEPT !.open = Closed, !.committed[m.open.at] = written(@)]
           all == 0 .. (IF Len(n.stage.buf) = 0 THEN MAX ELSE Len(n.stage.buf) - 1)
<1>4. \/ Abort
      \/ /\ UNCHANGED aborted /\ UNCHANGED Groups
         /\ Fits(n.stage, all)
         /\ Becomes(id, [n EXCEPT !.stage = AddAndFit(@, all)])
  BY SMTT(30), <1>2, <1>3 DEF MemberStageEnd, Writes
<1>5. ASSUME NEW s \in Snaps PROVE written(s) \in Snaps /\ written(s).max = s.max
  <2>1. PICK l \in Nat : l <= MAX /\ l = IF m.count = RESIZEABLE THEN k ELSE Len(s.buf)
    BY SnapFields
  <2>2. Filled(IF m.count = RESIZEABLE THEN k ELSE Len(s.buf), v) \in Buffers
    BY <2>1, FilledType
  <2>3. QED
    BY <2>2, SnapFields
<1>6. n \in MemberType /\ n.avail = m.avail /\ Own(n) = Own(m)
  <2>1. CASE m.open.at = NoTime
    <3>1. n = [m EXCEPT !.open = Closed, !.stage = written(m.stage)]
      BY <2>1 DEF MemberType
    <3>2. PICK s \in Snaps : s = written(m.stage)
      BY <1>5, MemberFields
    <3>3. n = [m EXCEPT !.open = Closed, !.stage = s]
      BY <3>1, <3>2
    <3> HIDE DEF n
    <3>4. QED
      BY <3>3, NoTimeType DEF MemberType, Own
  <2>2. CASE m.open.at # NoTime /\ m.open.at \in Own(m)
    <3>1. m.committed[m.open.at] \in Snaps
      BY <2>2, MemberFields, TableFacts DEF Own
    <3>2. PICK s \in Snaps : s = written(m.committed[m.open.at])
      BY <1>5, <3>1
    <3>3. n = Rewritten(m, s, m.open.at)
      BY <2>2, <3>2 DEF Rewritten, MemberType
    <3>4. QED
      BY <2>2, <3>3, RewrittenFacts
  <2>3. CASE m.open.at # NoTime /\ m.open.at \notin Own(m)
    <3>1. \A s : [m.committed EXCEPT ![m.open.at] = s] = m.committed
      <4>1. m.committed = [u \in DOMAIN m.committed |-> m.committed[u]]
        BY MemberFields, TableFacts
      <4>2. QED
        BY <2>3, <4>1 DEF Own
    <3>2. n = [m EXCEPT !.open = Closed, !.committed = [m.committed EXCEPT ![m.open.at] = written(m.committed[m.open.at])]]
      BY <2>3 DEF MemberType
    <3>3. n = [m EXCEPT !.open = Closed, !.committed = m.committed]
      BY <3>1, <3>2
    <3> HIDE DEF n
    <3>4. QED
      BY <3>3, NoTimeType, MemberFields DEF MemberType, Own
  <2>4. QED
    BY <2>1, <2>2, <2>3
<1> HIDE DEF n
<1>7. all \in SUBSET (0 .. MAX)
  <2>1. PICK l \in 0 .. MAX : l = Len(n.stage.buf)
    <3>1. Len(n.stage.buf) \in Nat /\ Len(n.stage.buf) <= MAX
      BY <1>6, MemberFields, SnapFields
    <3>2. QED
      BY <3>1, DataStoreAssumption
  <2>2. QED
    BY <2>1, DataStoreAssumption
<1>8. SameCopies(m, [n EXCEPT !.stage = AddAndFit(@, all)])
  <2>1. PICK s \in Snaps : s = AddAndFit(n.stage, all)
    BY <1>6, <1>7, MemberFields, FitTypes
  <2>2. [n EXCEPT !.stage = AddAndFit(@, all)] = [n EXCEPT !.stage = s]
    BY <1>6, <2>1 DEF MemberType
  <2>3. SameCopies(n, [n EXCEPT !.stage = s])
    BY <1>6 DEF SameCopies, Own, MemberType
  <2>4. QED
    BY <1>6, <2>2, <2>3 DEF SameCopies
<1>9. QED
  BY <1>1, <1>2, <1>4, <1>8, Aborts, OneKept
-----------------------------------------------------------------------------
(* The calls on the whole group *)

LEMMA NextTimestampFacts ==
  ASSUME DInv
  PROVE  /\ NextTimestamp \in Nat /\ NextTimestamp > timestamp /\ \A u \in timestamps : u < NextTimestamp
         /\ timestamp \in Int /\ timestamps \in SUBSET Nat /\ \A u \in timestamps : u <= timestamp
<1>1. /\ timestamp \in Int /\ timestamp >= NoTime /\ timestamps \in SUBSET Nat
      /\ \A u \in timestamps : u \in Nat /\ u <= timestamp
  BY DEF DInv, Typed, Stamps
<1>2. TimeStart \in Nat
  BY DataStoreAssumption
<1>3. NextTimestamp \in Nat /\ NextTimestamp > timestamp
  BY <1>1, <1>2 DEF NextTimestamp, NoTime
<1>4. \A u \in timestamps : u < NextTimestamp
  BY <1>1, <1>3
<1>5. QED
  BY <1>1, <1>3, <1>4

LEMMA GroupCommitDInv ==
  ASSUME DInv, NEW current, GroupCommit(current), writes' \in Nat, aborted' \in BOOLEAN,
         \A id \in DOMAIN members : SameCopies(members[id], current[id])
  PROVE  DInv'
<1>1. PICK t \in Nat : t = NextTimestamp /\ (\A u \in timestamps : u < t) /\ t >= NoTime
  BY NextTimestampFacts DEF NoTime
<1>2. /\ timestamp' = t /\ timestamps' = Trimmed(timestamps) \cup {t}
      /\ members' = [id \in DOMAIN members |-> Committed(current[id], t)]
  BY <1>1 DEF GroupCommit
<1>3. Stamps(timestamps, timestamp) /\ timestamp \in Int
  BY DEF DInv, Typed
<1>4. Stamps(Trimmed(timestamps) \cup {t}, t)
  BY <1>1, <1>3, TrimmedFacts
<1>5. ASSUME NEW id \in DOMAIN members
      PROVE  /\ members'[id] \in MemberType /\ Pool(members'[id])
             /\ Newest(members'[id], Trimmed(timestamps) \cup {t})
  <2>1. PICK m \in MemberType : m = current[id] /\ Pool(m) /\ Newest(m, timestamps)
    <3>1. current[id] \in MemberType /\ current[id].avail = members[id].avail /\ Own(current[id]) = Own(members[id])
      BY DEF SameCopies
    <3>2. QED
      BY <3>1, OneOf DEF Pool, Newest
  <2>2. /\ Committed(m, t) \in MemberType /\ Pool(Committed(m, t))
        /\ Newest(Committed(m, t), Trimmed(timestamps) \cup {t})
    BY <1>1, <1>3, <2>1, CommittedFacts
  <2>3. QED
    BY <1>2, <2>1, <2>2
<1>6. DOMAIN members' = DOMAIN members /\ members' \in [DOMAIN members -> MemberType]
  BY <1>2, <1>5
<1>7. Typed'
  <2>1. Stamps(timestamps', timestamp')
    BY <1>2, <1>4
  <2>2. DOMAIN members \subseteq Member
    BY DEF DInv, Typed
  <2>3. timestamp' \in Int /\ timestamp' >= NoTime
    BY <1>1, <1>2
  <2>4. QED
    BY <1>6, <2>1, <2>2, <2>3 DEF Typed, Stamps
<1>8. QED
  BY ZenonT(60), <1>2, <1>5, <1>6, <1>7 DEF DInv, Pool, Newest, Own

LEMMA CommitDInv ==
  ASSUME DInv, Commit
  PROVE  DInv'
<1>1. writes' \in Nat /\ aborted' \in BOOLEAN
  BY DEF Commit, DInv, Typed
<1>2. CASE Unstored
  <2>1. timestamp' = NextTimestamp /\ UNCHANGED timestamps /\ UNCHANGED members
    BY <1>2 DEF Commit
  <2>2. Stamps(timestamps, NextTimestamp) /\ NextTimestamp \in Int /\ NextTimestamp >= NoTime
    <3>1. \A u \in timestamps : u <= NextTimestamp
      BY NextTimestampFacts
    <3>2. NextTimestamp \in Int /\ NextTimestamp >= NoTime
      BY NextTimestampFacts DEF NoTime
    <3>3. QED
      BY <3>1, <3>2 DEF DInv, Typed, Stamps
  <2>3. Typed'
    BY <1>1, <2>1, <2>2 DEF DInv, Typed, Stamps
  <2>4. QED
    BY <2>1, <2>3, OneOf DEF DInv, Pool, Newest, Own
<1>3. CASE ~Unstored
  <2>1. GroupCommit(members)
    BY <1>3 DEF Commit
  <2>2. \A id \in DOMAIN members : SameCopies(members[id], members[id])
    BY OneOf DEF SameCopies
  <2>3. QED
    BY <1>1, <2>1, <2>2, GroupCommitDInv
<1>4. QED
  BY <1>2, <1>3

LEMMA CheckpointDInv ==
  ASSUME DInv, NEW S \in SUBSET (0 .. MAX), NEW k \in 0 .. MAX, Checkpoint(S, k)
  PROVE  DInv'
<1>1. writes' = writes + 1 /\ writes \in Nat /\ aborted \in BOOLEAN
  BY DEF Checkpoint, Writes, DInv, Typed
<1>2. \/ Abort
      \/ UNCHANGED aborted /\ GroupCommit(AfterStores(order, S, k))
      \/ UNCHANGED aborted /\ members' = AfterStores(Reached(order, S), S, k) /\ UNCHANGED Groups
  BY DEF Checkpoint, Writes
<1>3. CASE UNCHANGED aborted /\ GroupCommit(AfterStores(order, S, k))
  BY <1>1, <1>3, AfterStoresCopies, GroupCommitDInv
<1>4. QED
  BY <1>1, <1>2, <1>3, AfterStoresCopies, CopiesKept, Aborts

LEMMA SnapshotDeleteDInv ==
  ASSUME DInv, NEW t \in timestamps, SnapshotDelete(t)
  PROVE  DInv'
<1>1. /\ timestamps' = timestamps \ {t} /\ timestamp' = timestamp /\ UNCHANGED writes /\ UNCHANGED aborted
      /\ members' = [id \in DOMAIN members |-> Deleted(members[id], t)]
  BY DEF SnapshotDelete
<1>2. /\ timestamps \in SUBSET Nat /\ IsFiniteSet(timestamps) /\ Cardinality(timestamps) <= Depth + 1
      /\ Cardinality(timestamps) \in Nat /\ Depth \in Nat /\ \A u \in timestamps : u <= timestamp
  BY DataStoreAssumption, FS_CardinalityType DEF DInv, Typed, Stamps
<1>3. Stamps(timestamps \ {t}, timestamp)
  <2>1. IsFiniteSet(timestamps \ {t}) /\ Cardinality(timestamps \ {t}) = Cardinality(timestamps) - 1
    BY <1>2, FS_RemoveElement
  <2>2. Cardinality(timestamps \ {t}) <= Depth + 1
    BY <1>2, <2>1
  <2>3. QED
    BY <1>2, <2>1, <2>2 DEF Stamps
<1>4. ASSUME NEW id \in DOMAIN members
      PROVE  /\ members'[id] \in MemberType /\ Pool(members'[id]) /\ Newest(members'[id], timestamps \ {t})
  <2>1. PICK m \in MemberType : m = members[id] /\ Pool(m) /\ Newest(m, timestamps)
    BY OneOf
  <2>2. members'[id] = Deleted(m, t)
    BY <1>1, <2>1
  <2>3. CASE t \in Own(m)
    <3>1. PICK n : n = Deleted(m, t)
      OBVIOUS
    <3>2. /\ n \in MemberType /\ Own(n) = Own(m) \ {t} /\ Len(n.avail) = Len(m.avail) + 1
          /\ \A i \in 1 .. Len(m.avail) : n.avail[i] = m.avail[i]
          /\ n.avail[Len(m.avail) + 1] = Snapshot(m.committed[t].max)
          /\ Cardinality(Own(n)) = Cardinality(Own(m)) - 1
      BY <1>2, <2>1, <2>3, <3>1, DeletedFacts DEF Newest
    <3>3. Len(m.avail) \in Nat /\ Cardinality(Own(m)) \in Nat
      BY <1>2, <2>1, OwnFinite, MemberFields DEF Newest
    <3>4. DOMAIN n.avail = 1 .. Len(m.avail) + 1 /\ DOMAIN m.avail = 1 .. Len(m.avail)
      BY <2>1, <3>2, MemberFields
    <3>5. ASSUME NEW i \in DOMAIN n.avail PROVE n.avail[i] = Snapshot(n.avail[i].max)
      <4>1. CASE i = Len(m.avail) + 1
        <5>1. n.avail[i] = Snapshot(m.committed[t].max)
          BY <3>2, <4>1
        <5>2. n.avail[i].max = m.committed[t].max
          BY <5>1 DEF Snapshot
        <5>3. QED
          BY <5>1, <5>2
      <4>2. CASE i # Len(m.avail) + 1
        <5>1. i \in 1 .. Len(m.avail)
          BY <3>3, <3>4, <4>2
        <5>2. QED
          BY <2>1, <3>2, <3>4, <5>1 DEF Pool
      <4>3. QED
        BY <4>1, <4>2
    <3>6. Len(n.avail) + Cardinality(Own(n)) = Depth + 1
      BY <2>1, <3>2, <3>3 DEF Pool
    <3>7. Pool(n) /\ Newest(n, timestamps \ {t})
      BY <2>1, <3>2, <3>5, <3>6 DEF Pool, Newest
    <3>8. QED
      BY <2>2, <3>1, <3>2, <3>7
  <2>4. CASE t \notin Own(m)
    <3>1. Deleted(m, t) = m
      BY <2>4 DEF Deleted, Own
    <3>2. QED
      BY <2>1, <2>2, <2>4, <3>1 DEF Newest
  <2>5. QED
    BY <2>3, <2>4
<1>5. DOMAIN members' = DOMAIN members /\ members' \in [DOMAIN members -> MemberType]
  BY <1>1, <1>4
<1>6. Stamps(timestamps', timestamp')
  BY <1>1, <1>3
<1>7. Typed'
  BY <1>1, <1>5, <1>6 DEF DInv, Typed, Stamps
<1>8. QED
  BY <1>1, <1>4, <1>5, <1>7 DEF DInv, Pool, Newest, Own

LEMMA NothingRestricted ==
  ASSUME NEW m \in MemberType, NEW T, Own(m) \subseteq T
  PROVE  RestrictedTo(m, T) = m
<1> DEFINE gone == Own(m) \ T
           old(k) == CHOOSE t \in gone : Cardinality({u \in gone : u < t}) = k - 1
<1>1. Cardinality(gone) = 0
  <2>1. gone = {}
    OBVIOUS
  <2>2. QED
    BY <2>1, FS_EmptySet
<1>2. m.avail \in Seq(Snaps) /\ m.committed = [u \in Own(m) |-> m.committed[u]]
  BY MemberFields, TableFacts DEF Own
<1>3. [u \in Own(m) \cap T |-> m.committed[u]] = m.committed
  BY <1>2
<1>4. [k \in 1 .. Cardinality(gone) |-> Reset(m.committed[old(k)])] = << >>
  <2> HIDE DEF old, gone
  <2>1. 1 .. Cardinality(gone) = {}
    BY <1>1
  <2>2. QED
    BY <2>1
<1>5. m.avail \o [k \in 1 .. Cardinality(gone) |-> Reset(m.committed[old(k)])] = m.avail
  <2>1. m.avail \o << >> = m.avail
    BY <1>2, ConcatEmptySeq
  <2>2. QED
    BY <1>4, <2>1
<1>6. RestrictedTo(m, T) =
        [m EXCEPT !.committed = [u \in Own(m) \cap T |-> m.committed[u]],
                  !.avail = m.avail \o [k \in 1 .. Cardinality(gone) |-> Reset(m.committed[old(k)])]]
  BY DEF RestrictedTo, Own, MemberType
<1>7. RestrictedTo(m, T) = [m EXCEPT !.committed = m.committed, !.avail = m.avail]
  BY <1>3, <1>5, <1>6
<1>8. QED
  BY <1>7 DEF MemberType

LEMMA GroupDInv ==
  ASSUME DInv, GroupCreate \/ GroupDelete
  PROVE  DInv'
<1>1. /\ timestamps \in SUBSET Nat /\ IsFiniteSet(timestamps) /\ Cardinality(timestamps) <= Depth + 1
      /\ timestamp \in Int /\ timestamp >= NoTime
  BY DEF DInv, Typed, Stamps
<1>2. CASE GroupCreate
  <2>1. /\ timestamp' = (IF timestamps = {} THEN NoTime ELSE Max(timestamps)) /\ timestamps' = timestamps
        /\ UNCHANGED writes /\ UNCHANGED aborted
        /\ members' = [id \in DOMAIN members |-> RestrictedTo(members[id], timestamps)]
    BY <1>2 DEF GroupCreate
  <2>2. members' = [id \in DOMAIN members |-> members[id]]
    <3>1. \A id \in DOMAIN members : RestrictedTo(members[id], timestamps) = members[id]
      BY OneOf, NothingRestricted DEF Newest
    <3>2. QED
      BY <2>1, <3>1
  <2>3. members' = members
    BY <2>2 DEF DInv, Typed
  <2>4. timestamp' \in Int /\ timestamp' >= NoTime /\ \A u \in timestamps : u <= timestamp'
    <3>1. CASE timestamps = {}
      BY <2>1, <3>1, NoTimeType
    <3>2. CASE timestamps # {}
      <4>1. timestamps \subseteq Int
        BY <1>1
      <4>2. Max(timestamps) \in timestamps /\ \A u \in timestamps : u <= Max(timestamps)
        BY <1>1, <3>2, <4>1, MaxOf
      <4>3. Max(timestamps) \in Nat
        BY <1>1, <4>2
      <4>4. QED
        BY <2>1, <3>2, <4>2, <4>3 DEF NoTime
    <3>3. QED
      BY <3>1, <3>2
  <2>5. Typed'
    BY <1>1, <2>1, <2>3, <2>4 DEF DInv, Typed, Stamps
  <2>6. QED
    BY <2>1, <2>3, <2>5, OneOf DEF DInv, Pool, Newest, Own
<1>3. CASE GroupDelete
  <2>1. /\ timestamp' = NoTime /\ timestamps' = {} /\ UNCHANGED writes /\ UNCHANGED aborted
        /\ members' = [m \in {} |-> 0]
    BY <1>3 DEF GroupDelete
  <2>2. DOMAIN members' = {} /\ members' \in [{} -> MemberType]
    BY <2>1
  <2>3. IsFiniteSet({}) /\ Cardinality({}) = 0 /\ 0 <= Depth + 1
    BY FS_EmptySet, DataStoreAssumption
  <2>4. timestamp' \in Int /\ timestamp' >= NoTime
    BY <2>1, NoTimeType
  <2>5. Typed'
    BY <2>1, <2>2, <2>3, <2>4 DEF DInv, Typed, Stamps
  <2>6. QED
    BY <2>2, <2>5 DEF DInv
<1>4. QED
  BY <1>2, <1>3

LEMMA NextDInv ==
  ASSUME DInv, Next PROVE DInv'
<1>1. ASSUME NEW S \in Subsets, NEW k \in LengthsFor(S),
             \/ MemberStore(ById, S, k) \/ Checkpoint(S, k)
             \/ \E id \in Member : MemberStage(id, S, k) \/ (Exists(id) /\ MemberStore(<<id>>, S, k))
      PROVE  DInv'
  <2>1. S \in SUBSET (0 .. MAX) /\ k \in 0 .. MAX
    BY SubsetTypes DEF LengthsFor
  <2>2. QED
    BY <1>1, <2>1, StoreDInv, CheckpointDInv, StageDInv
<1>2. ASSUME NEW id \in Member, NEW shape \in Shapes[id],
             \/ MemberCreate(id, shape[1], shape[2]) \/ MemberDefine(id, shape[1], shape[2])
             \/ MemberAttrSet(id, shape[1])
      PROVE  DInv'
  BY <1>2, ShapeType, CreateDInv, SettingDInv
<1>3. ASSUME NEW id \in Member,
             \/ MemberDelete(id) \/ MemberStorePrestaged(id) \/ MemberStageBegin(id) \/ MemberLoadEnd(id)
             \/ MemberLoadBegin(id, LATEST)
      PROVE  DInv'
  BY <1>3, DeleteDInv, PrestagedDInv, BeginDInv
<1>4. ASSUME NEW id \in Member, NEW S \in Subsets, Exists(id), MemberStageInplace(id, S)
      PROVE  DInv'
  BY <1>4, SubsetTypes, InplaceDInv
<1>5. ASSUME NEW id \in Member, NEW k \in Lengths, MemberStageEnd(id, k)
      PROVE  DInv'
  BY <1>5, SubsetTypes, StageEndDInv
<1>6. ASSUME NEW t \in timestamps, SnapshotDelete(t)
      PROVE  DInv'
  BY <1>6, SnapshotDeleteDInv
<1>7. QED
  BY <1>1, <1>2, <1>3, <1>4, <1>5, <1>6, CommitDInv, GroupDInv DEF Next, Staging

LEMMA UnchangedDInv ==
  ASSUME DInv, UNCHANGED vars PROVE DInv'
<1>1. timestamp' = timestamp /\ timestamps' = timestamps /\ members' = members /\ writes' = writes /\ aborted' = aborted
  BY DEF vars
<1>2. QED
  BY <1>1 DEF DInv, Typed, Stamps, Pool, Newest, Own

(***************************************************************************)
(* The inductive invariant, for every member, depth, subset and call: the   *)
(* pool holds the snapshots that are not committed, blank, and a member has  *)
(* the newest snapshots of its group (group.cpp 176-192, member.cpp 372-411). *)
(***************************************************************************)
THEOREM AlwaysDInv == Spec => []DInv
<1>1. Init => DInv
  BY InitDInv
<1>2. DInv /\ [Next]_vars => DInv'
  BY NextDInv, UnchangedDInv
<1>3. QED
  BY <1>1, <1>2, PTL DEF Spec

(***************************************************************************)
(* A member has exactly the group's snapshots since it was created, at most  *)
(* depth + 1, though both count for themselves (group.cpp 188-192, member.cpp *)
(* 381-383) and a failed commit uses up a time stamp.                         *)
(***************************************************************************)
THEOREM AlwaysTimestampsAgree == Spec => []TimestampsAgree
<1>1. DInv => TimestampsAgree
  BY DEF DInv, Typed, Stamps, Newest, Own, TimestampsAgree
<1>2. QED
  BY <1>1, AlwaysDInv, PTL

(***************************************************************************)
(* No snapshot is ever lost, and the pool holds only blank ones: a commit     *)
(* finds the next stage there (member.cpp 385-391, 405-410).                   *)
(***************************************************************************)
THEOREM AlwaysPoolExact == Spec => []PoolExact
<1>1. ASSUME DInv PROVE PoolExact
  <2>1. ASSUME NEW id \in DOMAIN members, NEW s \in Range(members[id].avail)
        PROVE  s = Snapshot(s.max)
    BY <1>1, <2>1 DEF DInv, Pool, Range
  <2>2. QED
    BY <1>1, <2>1 DEF DInv, Pool, Own, PoolExact
<1>2. QED
  BY <1>1, AlwaysDInv, PTL

-----------------------------------------------------------------------------
(***************************************************************************)
(* What is loaded, and that the snapshots implement the promised store, for  *)
(* an application that keeps to the rules of DataStore.                       *)
(***************************************************************************)
(***************************************************************************)
(* Of an application that keeps to the rules, and never stages all of no    *)
(* elements (the bound of the subset would wrap): what is found is real.    *)
(***************************************************************************)
Obedient == Rules = {"count", "fresh", "sized", "growing", "closed"} /\ 0 \notin Lengths

\* What a snapshot claims to hold has been written.
Written(s, i) == i < Len(s.buf) /\ s.buf[i + 1] # Junk
Real(s) == \A i \in s.staged \cup s.prot : Written(s, i)

LEMMA FitReal ==
  ASSUME NEW s \in Snaps, Real(s), NEW S \in SUBSET (0 .. MAX), \A i \in S : Written(s, i)
  PROVE  /\ Real(AddAndFit(s, S)) /\ Fits(s, S) /\ AddAndFit(s, S).max = s.max
         /\ AddAndFit(s, S).prot = s.prot /\ AddAndFit(s, S).staged \subseteq s.staged \cup S
         /\ \A c \in Nat \ {0} : (s.max \in {0, c} /\ Len(s.buf) <= c) => Len(AddAndFit(s, S).buf) <= c
<1> DEFINE n == AddAndFit(s, S)
<1>1. PICK F \in SUBSET (0 .. MAX) : F = Fitted(s, S) /\ F \subseteq s.staged \cup S
  BY FitTypes, SnapFields DEF Fitted, Below
<1>2. PICK c \in Nat : c = FitCount(s, S) /\ c <= MAX
  BY FitTypes
<1>3. /\ n \in Snaps /\ n.max = s.max /\ n.prot = s.prot /\ n.staged = F /\ n.buf = Grown(s.buf, c)
  BY <1>1, <1>2, FitTypes
<1>4. PICK l \in Nat : l = Len(s.buf) /\ l <= MAX /\ s.buf \in Seq(Nat) /\ MAX \in Nat
  BY SnapFields, DataStoreAssumption
<1>5. /\ n.buf \in Seq(Nat) /\ Len(n.buf) = IF c > l THEN c ELSE l
      /\ \A i \in 1 .. l : n.buf[i] = s.buf[i]
  BY SMTT(30), <1>3, <1>4, GrownType
<1>6. \A i \in s.staged \cup s.prot \cup S : i \in Nat /\ i < l /\ s.buf[i + 1] # Junk
  BY <1>4, SnapFields DEF Real, Written
<1> HIDE DEF n
<1>7. Real(n)
  <2>1. ASSUME NEW i \in n.staged \cup n.prot PROVE Written(n, i)
    <3>1. i \in Nat /\ i < l /\ s.buf[i + 1] # Junk
      BY <1>1, <1>3, <1>6
    <3>2. i + 1 \in 1 .. l /\ i < Len(n.buf)
      BY <1>5, <3>1
    <3>3. QED
      BY <1>5, <3>1, <3>2 DEF Written
  <2>2. QED
    BY <2>1 DEF Real
<1>8. Bounded(s.staged) /\ Bounded(F)
  BY <1>1, <1>4, <1>6 DEF Bounded
<1>9. Fits(s, S)
  <2>1. F # {} => MaxCount(F) > 0
    BY <1>8, MaxCountFacts
  <2>2. c = IF s.max = 0 THEN MaxCount(F) ELSE s.max
    BY <1>1, <1>2 DEF FitCount
  <2>3. c # 0 \/ F = {}
    BY <2>1, <2>2
  <2>4. QED
    BY <1>1, <1>2, <1>8, <2>3 DEF Fits
<1>10. ASSUME NEW x \in Nat \ {0}, s.max \in {0, x}, l <= x PROVE Len(n.buf) <= x
  <2>1. MaxCount(F) <= l
    <3>1. \A i \in F : i < l
      BY <1>1, <1>6
    <3>2. QED
      BY <1>4, <3>1, MaxCountFacts
  <2>2. c <= x
    <3>1. CASE s.max = 0
      <4>1. c = MaxCount(F)
        BY <1>1, <1>2, <3>1 DEF FitCount
      <4>2. QED
        BY <1>4, <1>10, <2>1, <4>1
    <3>2. CASE s.max # 0
      BY <1>2, <1>10, <3>2 DEF FitCount
    <3>3. QED
      BY <3>1, <3>2
  <2>3. QED
    BY <1>5, <1>10, <2>2
<1>11. QED
  BY <1>1, <1>3, <1>4, <1>7, <1>9, <1>10 DEF n

LEMMA CopiedReal ==
  ASSUME NEW m \in MemberType, Real(m.stage), m.count # 0 => Len(m.stage.buf) <= m.count,
         NEW S \in SUBSET (0 .. MAX), NEW v \in Nat, v # Junk, NEW k \in 1 .. MAX,
         Dynamic(m, S) => k >= MaxCount(InUse(m))
  PROVE  LET s == [m.stage EXCEPT !.buf = Copied(m, S, v, k)] IN
         /\ s \in Snaps /\ s.max = m.stage.max /\ s.staged = m.stage.staged /\ s.prot = m.stage.prot
         /\ s.buf = Copied(m, S, v, k) /\ Real(s)
         /\ \A i \in Below(S, Len(s.buf)) : Written(s, i)
         /\ m.count # 0 => Len(s.buf) <= m.count
<1> DEFINE s == [m.stage EXCEPT !.buf = Copied(m, S, v, k)]
<1>1. /\ s \in Snaps /\ s.max = m.stage.max /\ s.staged = m.stage.staged /\ s.prot = m.stage.prot
      /\ s.buf = Copied(m, S, v, k)
  <2>1. k \in 0 .. MAX
    OBVIOUS
  <2>2. PICK b \in Buffers : b = Copied(m, S, v, k)
    BY <2>1, CopiedType
  <2>3. m.stage \in Snaps
    BY MemberFields
  <2>4. QED
    BY <2>2, <2>3, SnapFields
<1>2. PICK l \in Nat : l = Len(m.stage.buf) /\ l <= MAX /\ m.stage.buf \in Seq(Nat) /\ MAX \in Nat
  BY MemberFields, SnapFields, DataStoreAssumption
<1>3. PICK c \in Nat : c = m.count
  BY MemberFields
<1>4. PICK U \in SUBSET (0 .. MAX) : U = InUse(m)
  BY MemberFields, SnapFields DEF InUse
<1>5. /\ \A i \in U : i \in Nat /\ i < l /\ m.stage.buf[i + 1] # Junk
      /\ U = s.staged \cup s.prot
  BY <1>1, <1>2, <1>4 DEF Real, Written, InUse
<1>6. Bounded(U)
  BY <1>2, <1>5 DEF Bounded
<1> HIDE DEF s
<1>7. CASE Dynamic(m, S)
  <2>1. s.buf = Filled(k, v) /\ k \in Nat /\ k >= 1
    BY <1>1, <1>7 DEF Copied
  <2>2. Len(s.buf) = k /\ \A i \in 1 .. k : s.buf[i] # Junk
    BY <2>1, FilledType
  <2>3. \A i \in 0 .. k - 1 : Written(s, i)
    <3>1. ASSUME NEW i \in 0 .. k - 1 PROVE Written(s, i)
      <4>1. i + 1 \in 1 .. k /\ i < k
        BY <2>1
      <4>2. QED
        BY <2>2, <4>1 DEF Written
    <3>2. QED
      BY <3>1
  <2>4. \A i \in U : i \in 0 .. k - 1
    <3>1. MaxCount(U) \in 0 .. MAX /\ \A i \in U : i < MaxCount(U)
      BY <1>6, MaxCountFacts
    <3>2. PICK x \in Nat : x = MaxCount(U) /\ k >= x
      BY <1>4, <1>7, <3>1
    <3>3. \A i \in U : i \in Nat /\ i < x
      BY <1>5, <3>1, <3>2
    <3>4. QED
      BY <2>1, <3>2, <3>3
  <2>5. Real(s)
    BY <1>5, <2>3, <2>4 DEF Real
  <2>6. \A i \in Below(S, Len(s.buf)) : i \in 0 .. k - 1
    BY <2>1, <2>2 DEF Below
  <2>7. m.count = 0
    BY <1>7 DEF Dynamic, RESIZEABLE
  <2>8. QED
    BY <1>1, <2>3, <2>5, <2>6, <2>7 DEF s
<1>8. CASE ~Dynamic(m, S)
  <2>1. PICK r \in Nat : r = Source(m, S)
    <3>1. k \in 0 .. MAX
      OBVIOUS
    <3>2. QED
      BY <3>1, CopiedType
  <2>2. PICK g : g = Grown(m.stage.buf, r)
    OBVIOUS
  <2>3. /\ Len(s.buf) = IF r > l THEN r ELSE l
        /\ \A i \in 1 .. Len(s.buf) : s.buf[i] = IF i - 1 \in S /\ i <= r THEN v ELSE g[i]
        /\ \A i \in 1 .. l : g[i] = m.stage.buf[i]
    <3>1. k \in 0 .. MAX
      OBVIOUS
    <3>2. /\ Len(Copied(m, S, v, k)) = IF r > l THEN r ELSE l
          /\ \A i \in 1 .. Len(Copied(m, S, v, k)) :
               Copied(m, S, v, k)[i] = IF i - 1 \in S /\ i <= r THEN v ELSE g[i]
      BY SMTT(30), <1>2, <1>8, <2>1, <2>2, <3>1, CopiedType
    <3>3. \A i \in 1 .. l : g[i] = m.stage.buf[i]
      BY <1>2, <2>1, <2>2, GrownType
    <3>4. QED
      BY <1>1, <3>2, <3>3
  <2>4. Real(s)
    <3>1. ASSUME NEW i \in U PROVE Written(s, i)
      <4>1. i + 1 \in 1 .. l /\ i + 1 \in 1 .. Len(s.buf) /\ i < Len(s.buf)
        BY <1>5, <2>3
      <4>2. g[i + 1] # Junk
        BY <1>5, <2>3, <4>1
      <4>3. QED
        BY <2>3, <4>1, <4>2 DEF Written
    <3>2. QED
      BY <1>5, <3>1 DEF Real
  <2>5. c # 0 => l <= c /\ r <= c
    <3>1. c # 0 => r <= c
      <4>1. MaxCount(S) \in Nat
        <5>1. MaxCount(S) \in 0 .. MAX
          BY MaxCountFacts
        <5>2. QED
          BY <5>1
      <4>2. QED
        BY <1>3, <2>1, <4>1 DEF Source, Smaller, RESIZEABLE
    <3>2. QED
      BY <1>2, <1>3, <3>1
  <2>6. ASSUME NEW i \in Below(S, Len(s.buf)) PROVE Written(s, i)
    <3>1. i \in S /\ i \in Nat /\ (Len(s.buf) # 0 => i < Len(s.buf))
      BY DEF Below
    <3>2. MaxCount(S) \in Nat /\ (Bounded(S) => i < MaxCount(S))
      <4>1. MaxCount(S) \in 0 .. MAX /\ (Bounded(S) => \A x \in S : x < MaxCount(S))
        BY MaxCountFacts
      <4>2. QED
        BY <3>1, <4>1
    <3>3. CASE ~Bounded(S)
      <4>1. c # 0 /\ r = c
        BY <1>3, <1>8, <2>1, <3>3 DEF Dynamic, Source, RESIZEABLE
      <4>2. Len(s.buf) = r /\ r # 0
        BY <2>3, <2>5, <4>1
      <4>3. i + 1 \in 1 .. Len(s.buf) /\ i + 1 <= r /\ i < Len(s.buf)
        BY <3>1, <4>2
      <4>4. QED
        BY <2>3, <3>1, <4>3 DEF Written
    <3>4. CASE Bounded(S)
      <4>1. r # 0 /\ (c = 0 => r = MaxCount(S)) /\ (c # 0 => r = IF c < MaxCount(S) THEN c ELSE MaxCount(S))
        BY <1>3, <2>1, <3>2, <3>4, <3>1 DEF Source, RESIZEABLE, Smaller
      <4>2. Len(s.buf) # 0 /\ i < Len(s.buf)
        BY <2>3, <3>1, <4>1
      <4>3. i < r
        BY <2>3, <2>5, <3>2, <3>4, <4>1, <4>2
      <4>4. i + 1 \in 1 .. Len(s.buf) /\ i + 1 <= r
        BY <2>3, <3>1, <4>2, <4>3
      <4>5. QED
        BY <2>3, <3>1, <4>2, <4>4 DEF Written
    <3>5. QED
      BY <3>3, <3>4
  <2>7. m.count # 0 => Len(s.buf) <= m.count
    BY <1>3, <2>3, <2>5
  <2>8. QED
    BY <1>1, <2>4, <2>6, <2>7 DEF s
<1>9. QED
  BY <1>7, <1>8

\* The invariant of one member.
Sound(m) ==
  /\ Uniform(m, 0) \/ Uniform(m, m.count)
  /\ m.count # 0 => Len(m.stage.buf) <= m.count
  /\ Real(m.stage) /\ \A t \in Own(m) : Real(m.committed[t])
  /\ m.open.dir = "stage" =>
       m.open.at = NoTime /\ InUse(m) = {} /\ (m.count # 0 => Len(m.stage.buf) = m.count)

LEMMA SoundStage ==
  ASSUME NEW m \in MemberType, Sound(m), NEW s \in Snaps, s.max = m.stage.max, Real(s),
         m.count # 0 => Len(s.buf) <= m.count, m.open.dir # "stage"
  PROVE  Sound([m EXCEPT !.stage = s])
<1>1. PICK n \in MemberType : n = [m EXCEPT !.stage = s]
  BY Restage
<1>2. /\ n.stage = s /\ n.count = m.count /\ n.committed = m.committed /\ n.avail = m.avail /\ n.open = m.open
      /\ Own(n) = Own(m)
  BY <1>1, Restage DEF Own
<1>3. Uniform(n, 0) \/ Uniform(n, n.count)
  BY <1>2 DEF Sound, Uniform
<1>4. Sound(n)
  BY <1>2, <1>3 DEF Sound
<1>5. QED
  BY <1>1, <1>4

\* A call that adds what has been written to a stage fails no assertion.
LEMMA FitSound ==
  ASSUME NEW m \in MemberType, Sound(m), m.open.dir # "stage", NEW s \in Snaps, s.max = m.stage.max, Real(s),
         m.count # 0 => Len(s.buf) <= m.count, NEW S \in SUBSET (0 .. MAX), \A i \in S : Written(s, i)
  PROVE  Fits(s, S) /\ Sound([m EXCEPT !.stage = AddAndFit(s, S)])
<1>1. PICK n \in Snaps : n = AddAndFit(s, S)
  BY FitTypes
<1>2. Fits(s, S) /\ n.max = m.stage.max /\ Real(n)
  BY <1>1, FitReal
<1>3. m.count # 0 => Len(n.buf) <= m.count
  <2>1. ASSUME m.count # 0 PROVE Len(n.buf) <= m.count
    <3>1. PICK c \in Nat \ {0} : c = m.count
      BY <2>1, MemberFields
    <3>2. s.max \in {0, c} /\ Len(s.buf) <= c
      BY <2>1, <3>1 DEF Sound, Uniform
    <3>3. QED
      BY <1>1, <3>1, <3>2, FitReal
  <2>2. QED
    BY <2>1
<1>4. QED
  BY <1>1, <1>2, <1>3, SoundStage

LEMMA StagedSound ==
  ASSUME NEW m \in MemberType, Sound(m), m.open.dir # "stage",
         NEW S \in SUBSET (0 .. MAX), NEW v \in Nat, v # Junk, NEW k \in 1 .. MAX,
         Dynamic(m, S) => k >= MaxCount(InUse(m))
  PROVE  StageAsserts(m, S, v, k) /\ Sound(Staged(m, S, v, k))
<1>1. PICK s : s = [m.stage EXCEPT !.buf = Copied(m, S, v, k)]
  OBVIOUS
<1>2. /\ s \in Snaps /\ s.max = m.stage.max /\ s.staged = m.stage.staged /\ s.prot = m.stage.prot
      /\ s.buf = Copied(m, S, v, k) /\ Real(s)
      /\ \A i \in Below(S, Len(s.buf)) : Written(s, i)
      /\ m.count # 0 => Len(s.buf) <= m.count
  <2>1. Real(m.stage) /\ (m.count # 0 => Len(m.stage.buf) <= m.count)
    BY DEF Sound
  <2>2. LET n == [m.stage EXCEPT !.buf = Copied(m, S, v, k)] IN
        /\ n \in Snaps /\ n.max = m.stage.max /\ n.staged = m.stage.staged /\ n.prot = m.stage.prot
        /\ n.buf = Copied(m, S, v, k) /\ Real(n)
        /\ \A i \in Below(S, Len(n.buf)) : Written(n, i)
        /\ m.count # 0 => Len(n.buf) <= m.count
    BY <2>1, CopiedReal
  <2>3. QED
    BY <1>1, <2>2
<1>3. PICK B \in SUBSET (0 .. MAX) : B = Below(S, Len(s.buf))
  BY BelowType
<1>4. Fits(s, B) /\ Sound([m EXCEPT !.stage = AddAndFit(s, B)])
  BY <1>2, <1>3, FitSound
<1>5. Fits(m.stage, B)
  BY <1>2, <1>4 DEF Fits, FitCount, Fitted
<1>6. StageAsserts(m, S, v, k)
  BY <1>2, <1>3, <1>5 DEF StageAsserts, RESIZEABLE
<1>7. Staged(m, S, v, k) = [m EXCEPT !.stage = AddAndFit(s, B)]
  BY <1>1, <1>3 DEF Staged
<1>8. QED
  BY <1>4, <1>6, <1>7

LEMMA StoredSound ==
  ASSUME NEW m \in MemberType, Sound(m), m.open.dir # "stage"
  PROVE  Sound(StoredStage(m))
<1>1. PICK s \in Snaps : s = Protected(m.stage)
  BY StoredType
<1>2. /\ s.max = m.stage.max /\ s.buf = m.stage.buf /\ s.staged = {}
      /\ s.prot = m.stage.prot \cup m.stage.staged
  BY <1>1, MemberFields DEF Protected, Snaps
<1>3. Real(s)
  BY <1>2 DEF Sound, Real, Written
<1>4. Sound([m EXCEPT !.stage = s])
  BY <1>2, <1>3, SoundStage DEF Sound
<1>5. QED
  BY <1>1, <1>4 DEF StoredStage

LEMMA StoresSound ==
  ASSUME NEW m \in MemberType, Sound(m), m.open.dir # "stage",
         NEW S \in SUBSET (0 .. MAX), NEW v \in Nat, v # Junk, NEW k \in 1 .. MAX,
         Dynamic(m, S) => k >= MaxCount(InUse(m))
  PROVE  StageAsserts(m, S, v, k) /\ Sound(Stores(m, S, v, k))
<1>1. StageAsserts(m, S, v, k) /\ Sound(Staged(m, S, v, k))
  BY StagedSound
<1>2. Staged(m, S, v, k) \in MemberType /\ Staged(m, S, v, k).open = m.open
  <2>1. k \in 0 .. MAX
    OBVIOUS
  <2>2. QED
    BY <2>1, StagedType, OnlyStagedFacts
<1>3. QED
  BY <1>1, <1>2, StoredSound DEF Stores

-----------------------------------------------------------------------------
SInv == ~aborted /\ \A id \in DOMAIN members : Sound(members[id])

LEMMA OneSound ==
  ASSUME DInv, SInv, NEW id \in DOMAIN members, NEW n, Becomes(id, n), Sound(n), UNCHANGED aborted
  PROVE  SInv'
<1>1. DOMAIN members' = DOMAIN members /\ \A x \in DOMAIN members : members'[x] = IF x = id THEN n ELSE members[x]
  BY DEF Becomes, DInv, Typed
<1>2. QED
  BY <1>1 DEF SInv

LEMMA InputFacts ==
  ASSUME Obedient, DInv
  PROVE  /\ \A k \in Lengths : k \in 1 .. MAX /\ k \in 0 .. MAX
         /\ writes + 1 \in Nat /\ writes + 1 # Junk
         /\ \A rule \in {"count", "fresh", "sized", "growing", "closed"} : \A c : Obeys(rule, c) <=> c
<1>1. \A k \in Lengths : k \in 1 .. MAX /\ k \in 0 .. MAX
  <2>1. ASSUME NEW k \in Lengths PROVE k \in 1 .. MAX /\ k \in 0 .. MAX
    <3>1. k \in 0 .. MAX /\ k # 0
      BY SubsetTypes DEF Obedient
    <3>2. QED
      BY <3>1
  <2>2. QED
    BY <2>1
<1>2. writes + 1 \in Nat /\ writes + 1 # Junk
  BY DEF DInv, Typed, Junk
<1>3. QED
  BY <1>1, <1>2 DEF Obedient, Obeys

LEMMA FreeFacts ==
  ASSUME DInv, SInv, NEW id, Free(id)
  PROVE  /\ id \in DOMAIN members /\ members[id] \in MemberType /\ Sound(members[id])
         /\ members[id].open.dir # "stage"
BY OneOf DEF Free, Exists, SInv, Closed

LEMMA CreateSound ==
  ASSUME DInv, SInv, NEW id, NEW n \in 0 .. MAX - 1, NEW ser \in BOOLEAN, MemberCreate(id, n, ser)
  PROVE  SInv'
<1>1. PICK m \in MemberType : /\ m = NewMember(n, ser) /\ m.count = n /\ m.stage = Snapshot(n) /\ m.open = Closed
                              /\ Own(m) = {} /\ Uniform(m, n)
  BY NewMemberFacts
<1>2. n \in Nat /\ n \in 0 .. MAX
  BY DataStoreAssumption
<1>3. m.stage.buf = << >> /\ m.stage.staged = {} /\ m.stage.prot = {} /\ Len(m.stage.buf) = 0
  BY <1>1, <1>2, SnapshotType
<1>4. Real(m.stage)
  BY <1>3 DEF Real
<1>5. Sound(m)
  BY <1>1, <1>2, <1>3, <1>4 DEF Sound, Closed
<1>6. DOMAIN members' = DOMAIN members \cup {id} /\ members'[id] = m
      /\ \A x \in DOMAIN members \ {id} : members'[x] = members[x]
  BY <1>1 DEF MemberCreate
<1>7. aborted' = aborted
  BY DEF MemberCreate
<1>8. QED
  BY <1>5, <1>6, <1>7 DEF SInv

LEMMA ResizedSound ==
  ASSUME NEW m \in MemberType, Sound(m), m.open = Closed, NEW n \in 0 .. MAX - 1, NEW x, x \in MemberType,
         x.count = n, x.stage = m.stage, x.committed = m.committed, x.avail = m.avail, x.open = m.open,
         n # m.count => m.stage.max = 0 /\ m.stage.buf = << >>
  PROVE  Sound(x)
<1>1. Own(x) = Own(m) /\ n \in Nat
  BY DEF Own
<1>2. Uniform(x, 0) \/ Uniform(x, n)
  <2>1. CASE n = m.count
    BY <1>1, <2>1 DEF Sound, Uniform
  <2>2. CASE n # m.count
    BY <1>1, <2>2 DEF Sound, Uniform
  <2>3. QED
    BY <2>1, <2>2
<1>3. n # 0 => Len(x.stage.buf) <= n
  BY <1>1 DEF Sound
<1>4. QED
  BY <1>1, <1>2, <1>3 DEF Sound, Closed

LEMMA SettingSound ==
  ASSUME Obedient, DInv, SInv, NEW id, NEW n \in 0 .. MAX - 1, NEW ser \in BOOLEAN,
         MemberAttrSet(id, n) \/ MemberDefine(id, n, ser)
  PROVE  SInv'
<1>1. /\ UNCHANGED aborted /\ id \in DOMAIN members /\ members[id].open = Closed
      /\ n # members[id].count => members[id].stage.max = 0 /\ members[id].stage.buf = << >>
  BY InputFacts DEF MemberAttrSet, MemberDefine, Free, Exists, CountKept
<1>2. PICK m \in MemberType : m = members[id] /\ Sound(m)
  BY <1>1, OneOf DEF SInv
<1>3. CASE MemberAttrSet(id, n)
  <2>1. PICK x : x = [m EXCEPT !.count = n]
    OBVIOUS
  <2>2. /\ x \in MemberType /\ x.count = n /\ x.stage = m.stage /\ x.committed = m.committed
        /\ x.avail = m.avail /\ x.open = m.open
    BY <2>1 DEF MemberType
  <2>3. Sound(x)
    BY <1>1, <1>2, <2>2, ResizedSound
  <2>4. Becomes(id, x)
    BY <1>2, <1>3, <2>1 DEF MemberAttrSet
  <2>5. QED
    BY <1>1, <2>3, <2>4, OneSound
<1>4. CASE MemberDefine(id, n, ser)
  <2>1. PICK x : x = [m EXCEPT !.count = n, !.ser = ser]
    OBVIOUS
  <2>2. /\ x \in MemberType /\ x.count = n /\ x.stage = m.stage /\ x.committed = m.committed
        /\ x.avail = m.avail /\ x.open = m.open
    BY <2>1 DEF MemberType
  <2>3. Sound(x)
    BY <1>1, <1>2, <2>2, ResizedSound
  <2>4. Becomes(id, x)
    BY <1>2, <1>4, <2>1 DEF MemberDefine
  <2>5. QED
    BY <1>1, <2>3, <2>4, OneSound
<1>5. QED
  BY <1>3, <1>4

LEMMA DeleteSound ==
  ASSUME SInv, NEW id, MemberDelete(id)
  PROVE  SInv'
<1>1. DOMAIN members' = DOMAIN members \ {id} /\ \A x \in DOMAIN members' : members'[x] = members[x]
  BY DEF MemberDelete
<1>2. aborted' = aborted
  BY DEF MemberDelete
<1>3. QED
  BY <1>1, <1>2 DEF SInv

LEMMA StageSound ==
  ASSUME Obedient, DInv, SInv, NEW id, NEW S \in SUBSET (0 .. MAX), NEW k \in Lengths, MemberStage(id, S, k)
  PROVE  SInv'
<1>1. PICK m \in MemberType : m = members[id] /\ Sound(m) /\ m.open.dir # "stage" /\ id \in DOMAIN members
  BY FreeFacts DEF MemberStage
<1>2. Dynamic(m, S) => k >= MaxCount(InUse(m))
  BY <1>1, InputFacts DEF MemberStage, CanGrow
<1>3. PICK v \in Nat : v = writes + 1 /\ v # Junk
  BY InputFacts
<1>4. StageAsserts(m, S, v, k) /\ Sound(Staged(m, S, v, k))
  BY <1>1, <1>2, <1>3, InputFacts, StagedSound
<1>5. UNCHANGED aborted /\ Becomes(id, Staged(m, S, v, k))
  BY <1>1, <1>3, <1>4 DEF MemberStage, Writes
<1>6. QED
  BY <1>1, <1>4, <1>5, OneSound

LEMMA PrestagedSound ==
  ASSUME DInv, SInv, NEW id, MemberStorePrestaged(id)
  PROVE  SInv'
<1>1. PICK m \in MemberType : m = members[id] /\ Sound(m) /\ m.open.dir # "stage" /\ id \in DOMAIN members
  BY FreeFacts DEF MemberStorePrestaged
<1>2. UNCHANGED aborted /\ Becomes(id, StoredStage(m))
  BY <1>1 DEF MemberStorePrestaged
<1>3. QED
  BY <1>1, <1>2, StoredSound, OneSound

LEMMA AfterStoresSound ==
  ASSUME Obedient, DInv, SInv, NEW ids, NEW S \in SUBSET (0 .. MAX), NEW k \in Lengths, CanStore(ids, S, k),
         ToSet(ids) \subseteq DOMAIN members
  PROVE  /\ StoresAssert(ids, S, k)
         /\ \A id \in DOMAIN members : Sound(AfterStores(ids, S, k)[id])
<1>1. PICK v \in Nat : v = writes + 1 /\ v # Junk
  BY InputFacts
<1>2. ASSUME NEW id \in ToSet(ids)
      PROVE  StageAsserts(members[id], S, v, k) /\ Sound(Stores(members[id], S, v, k))
  <2>1. PICK m \in MemberType : m = members[id] /\ Sound(m) /\ m.open.dir # "stage"
    BY FreeFacts DEF CanStore
  <2>2. Dynamic(m, S) => k >= MaxCount(InUse(m))
    BY <2>1, InputFacts DEF CanStore, CanGrow
  <2>3. QED
    BY <1>1, <2>1, <2>2, InputFacts, StoresSound
<1>3. StoresAssert(ids, S, k)
  BY <1>1, <1>2 DEF StoresAssert
<1>4. \A id \in DOMAIN members :
        AfterStores(ids, S, k)[id] = IF id \in ToSet(ids) THEN Stores(members[id], S, v, k) ELSE members[id]
  BY <1>1 DEF AfterStores
<1>5. QED
  BY <1>2, <1>3, <1>4 DEF SInv

LEMMA StoreSound ==
  ASSUME Obedient, DInv, SInv, NEW ids, NEW S \in SUBSET (0 .. MAX), NEW k \in Lengths, MemberStore(ids, S, k)
  PROVE  SInv'
<1>1. PICK reached : reached = Reached(ids, S) /\ CanStore(reached, S, k)
  BY DEF MemberStore
<1>2. ToSet(reached) \subseteq DOMAIN members
  BY <1>1, FreeFacts DEF CanStore
<1>3. /\ StoresAssert(reached, S, k)
      /\ \A id \in DOMAIN members : Sound(AfterStores(reached, S, k)[id])
  BY <1>1, <1>2, AfterStoresSound
<1>4. UNCHANGED aborted /\ members' = AfterStores(reached, S, k)
  BY <1>1, <1>3 DEF MemberStore, Writes
<1>5. DOMAIN AfterStores(reached, S, k) = DOMAIN members
  BY DEF AfterStores
<1>6. QED
  BY <1>3, <1>4, <1>5 DEF SInv

\* The stage of n becomes s, of which nothing was staged, and the elements of B, which have just been written.
Replaced(id, n, s, B) ==
  /\ Becomes(id, [n EXCEPT !.stage = AddAndFit(s, B)]) /\ Sound([n EXCEPT !.stage = AddAndFit(s, B)])
  /\ s.staged = {} /\ s.prot = {} /\ (s.max # 0 => Len(s.buf) <= s.max)
  /\ \A i \in B : Written(s, i) /\ s.buf[i + 1] = writes + 1

\* What stage_inplace adds is what there is of the subset, and what stage_end adds is everything.
LEMMA InplaceFacts ==
  ASSUME Obedient, DInv, SInv, NEW id, NEW S \in SUBSET (0 .. MAX), Exists(id), MemberStageInplace(id, S)
  PROVE  /\ id \in DOMAIN members /\ UNCHANGED aborted /\ members[id].count # 0 /\ InUse(members[id]) = {}
         /\ \E s \in Snaps, B \in SUBSET (0 .. MAX) :
              Replaced(id, members[id], s, B) /\ B = {i \in S : i < members[id].count}
<1>1. PICK m \in MemberType : m = members[id] /\ Sound(m) /\ m.open.dir # "stage" /\ id \in DOMAIN members
  BY FreeFacts DEF MemberStageInplace
<1>2. m.count # 0 /\ InUse(m) = {}
  BY <1>1, InputFacts DEF MemberStageInplace, RESIZEABLE
<1>3. PICK v \in Nat : v = writes + 1 /\ v # Junk
  BY InputFacts
<1>4. PICK n \in Nat : /\ n <= MAX /\ n <= m.count /\ n = IF Bounded(S) /\ m.count > MaxCount(S) THEN MaxCount(S) ELSE m.count
                       /\ (Bounded(S) /\ S # {}) => n # 0
                       /\ ~Bounded(S) => n # 0
  <2>1. PICK c \in Nat : c = m.count /\ c <= MAX /\ c # 0
    BY <1>2, MemberFields
  <2>2. MaxCount(S) \in 0 .. MAX /\ ((Bounded(S) /\ S # {}) => MaxCount(S) > 0)
    BY MaxCountFacts
  <2>3. PICK x \in Nat : x = MaxCount(S) /\ ((Bounded(S) /\ S # {}) => x > 0)
    BY <2>2
  <2>4. PICK n \in Nat : n = IF Bounded(S) /\ c > x THEN x ELSE c
    BY <2>1, <2>3
  <2>5. n <= MAX /\ n <= c /\ ((Bounded(S) /\ S # {}) => n # 0) /\ (~Bounded(S) => n # 0)
    <3>1. MAX \in Nat
      BY DataStoreAssumption
    <3>2. CASE Bounded(S) /\ c > x
      BY <2>1, <2>3, <2>4, <3>1, <3>2
    <3>3. CASE ~(Bounded(S) /\ c > x)
      BY <2>1, <2>4, <3>1, <3>3
    <3>4. QED
      BY <3>2, <3>3
  <2>6. n = IF Bounded(S) /\ m.count > MaxCount(S) THEN MaxCount(S) ELSE m.count
    BY <2>1, <2>3, <2>4
  <2>7. QED
    BY <2>1, <2>5, <2>6
<1>5. PICK s \in Snaps : /\ s = [m.stage EXCEPT !.buf = Filled(n, v)] /\ s.max = m.stage.max /\ s.buf = Filled(n, v)
                         /\ s.staged = {} /\ s.prot = {}
  <2>1. PICK b \in Buffers : b = Filled(n, v)
    BY <1>4, FilledType
  <2>2. m.stage \in Snaps /\ m.stage.staged = {} /\ m.stage.prot = {}
    BY <1>2, MemberFields DEF InUse
  <2>3. PICK s : s = [m.stage EXCEPT !.buf = b]
    OBVIOUS
  <2>4. s \in Snaps /\ s.max = m.stage.max /\ s.buf = b /\ s.staged = m.stage.staged /\ s.prot = m.stage.prot
    BY <2>2, <2>3, Rebuffered
  <2>5. QED
    BY <2>1, <2>2, <2>3, <2>4
<1>6. PICK B \in SUBSET (0 .. MAX) : B = Below(S, n)
  BY BelowType
<1>7. Len(s.buf) = n /\ \A i \in 1 .. n : s.buf[i] = v
  BY <1>5, FilledType
<1>8. \A i \in B : Written(s, i) /\ s.buf[i + 1] = v
  <2>1. ASSUME NEW i \in B PROVE Written(s, i) /\ s.buf[i + 1] = v
    <3>1. i \in S /\ i \in Nat /\ n # 0 /\ i < n
      BY <1>4, <1>6 DEF Below, Bounded
    <3>2. i + 1 \in 1 .. n
      BY <3>1
    <3>3. QED
      BY <1>3, <1>7, <3>1, <3>2 DEF Written
  <2>2. QED
    BY <2>1
<1>9. Real(s)
  BY <1>5 DEF Real
<1>10. Fits(s, B) /\ Sound([m EXCEPT !.stage = AddAndFit(s, B)])
  BY ZenonT(60), <1>1, <1>4, <1>5, <1>7, <1>8, <1>9, FitSound
<1>11. UNCHANGED aborted /\ Becomes(id, [m EXCEPT !.stage = AddAndFit(s, B)])
  BY <1>1, <1>3, <1>4, <1>5, <1>6, <1>10 DEF MemberStageInplace, Writes
<1>12. B = {i \in S : i < m.count}
  <2>1. PICK c \in Nat : c = m.count /\ c # 0
    BY <1>2, MemberFields
  <2>2. PICK x \in Nat : x = MaxCount(S) /\ (Bounded(S) => \A i \in S : i < x)
    <3>1. MaxCount(S) \in 0 .. MAX /\ (Bounded(S) => \A i \in S : i < MaxCount(S))
      BY MaxCountFacts
    <3>2. QED
      BY <3>1
  <2>3. ASSUME NEW i \in S PROVE i \in B <=> i < c
    <3>1. i \in Nat /\ n # 0
      BY <1>4
    <3>2. i \in B <=> i < n
      BY <1>6, <3>1 DEF Below
    <3>3. CASE Bounded(S) /\ c > x
      BY <1>4, <2>1, <2>2, <3>1, <3>2, <3>3
    <3>4. CASE ~(Bounded(S) /\ c > x)
      BY <1>4, <2>1, <2>2, <3>2, <3>4
    <3>5. QED
      BY <3>3, <3>4
  <2>4. B \subseteq S
    BY <1>6, BelowType
  <2>5. QED
    BY <2>1, <2>3, <2>4
<1>13. s.max # 0 => Len(s.buf) <= s.max
  BY <1>1, <1>4, <1>5, <1>7 DEF Sound, Uniform
<1>14. Replaced(id, m, s, B)
  BY <1>3, <1>5, <1>8, <1>10, <1>11, <1>13 DEF Replaced
<1>15. QED
  BY <1>1, <1>2, <1>11, <1>12, <1>14

LEMMA InplaceSound ==
  ASSUME Obedient, DInv, SInv, NEW id, NEW S \in SUBSET (0 .. MAX), Exists(id), MemberStageInplace(id, S)
  PROVE  SInv'
BY InplaceFacts, OneSound DEF Replaced

LEMMA BeginSound ==
  ASSUME Obedient, DInv, SInv, NEW id, MemberStageBegin(id) \/ MemberLoadBegin(id, LATEST) \/ MemberLoadEnd(id)
  PROVE  SInv'
<1>1. /\ UNCHANGED aborted /\ id \in DOMAIN members
      /\ members[id].open.dir # "stage"
  BY DEF MemberStageBegin, MemberLoadBegin, MemberLoadEnd, CanOpen, Free, Exists, Closed
<1>2. PICK m \in MemberType : m = members[id] /\ Sound(m)
  BY <1>1, OneOf DEF SInv
<1>3. ASSUME NEW o, o.dir # "stage", Becomes(id, [m EXCEPT !.open = o])
      PROVE  SInv'
  <2>1. PICK n : n = [m EXCEPT !.open = o]
    OBVIOUS
  <2>2. /\ n.count = m.count /\ n.stage = m.stage /\ n.committed = m.committed /\ n.avail = m.avail
        /\ n.open = o /\ Own(n) = Own(m)
    BY <2>1 DEF MemberType, Own
  <2>3. Sound(n)
    <3>1. Uniform(n, 0) \/ Uniform(n, n.count)
      BY <1>2, <2>2 DEF Sound, Uniform
    <3>2. QED
      BY <1>2, <1>3, <2>2, <3>1 DEF Sound
  <2>4. QED
    BY <1>1, <1>3, <2>1, <2>3, OneSound
<1>4. CASE MemberStageBegin(id)
  <2>1. InUse(m) = {}
    BY <1>2, <1>4, InputFacts DEF MemberStageBegin
  <2>2. PICK c \in Nat : c = m.count /\ c <= MAX
    BY MemberFields
  <2>3. PICK s \in Snaps : /\ s = [m.stage EXCEPT !.buf = Filled(c, Junk)] /\ s.max = m.stage.max /\ Len(s.buf) = c
                           /\ s.staged = {} /\ s.prot = {}
    <3>1. Junk \in Nat
      BY DEF Junk
    <3>2. PICK b \in Buffers : b = Filled(c, Junk) /\ Len(b) = c
      BY <2>2, <3>1, FilledType
    <3>3. m.stage \in Snaps /\ m.stage.staged = {} /\ m.stage.prot = {}
      BY <2>1, MemberFields DEF InUse
    <3>4. PICK s : s = [m.stage EXCEPT !.buf = b]
      OBVIOUS
    <3>5. s \in Snaps /\ s.max = m.stage.max /\ s.buf = b /\ s.staged = m.stage.staged /\ s.prot = m.stage.prot
      BY <3>3, <3>4, Rebuffered
    <3>6. QED
      BY <3>2, <3>3, <3>4, <3>5
  <2>4. PICK n : n = [m EXCEPT !.stage = s, !.open = [dir |-> "stage", at |-> NoTime]]
    OBVIOUS
  <2>5. /\ n.count = m.count /\ n.stage = s /\ n.committed = m.committed /\ n.avail = m.avail
        /\ n.open.dir = "stage" /\ n.open.at = NoTime /\ Own(n) = Own(m)
    BY <2>4 DEF MemberType, Own
  <2>6. Becomes(id, n)
    <3>1. [m EXCEPT !.stage.buf = Filled(m.count, Junk), !.open = [dir |-> "stage", at |-> NoTime]] = n
      BY <2>2, <2>3, <2>4 DEF MemberType
    <3>2. QED
      BY <1>2, <1>4, <3>1 DEF MemberStageBegin
  <2>7. Uniform(n, 0) \/ Uniform(n, n.count)
    BY <1>2, <2>3, <2>5 DEF Sound, Uniform
  <2>8. Real(n.stage) /\ InUse(n) = {}
    BY <2>3, <2>5 DEF Real, InUse
  <2>9. Sound(n)
    BY <1>2, <2>2, <2>3, <2>5, <2>7, <2>8 DEF Sound
  <2>10. QED
    BY <1>1, <2>6, <2>9, OneSound
<1>5. CASE MemberLoadBegin(id, LATEST)
  <2>1. PICK o : o = [dir |-> "load", at |-> FindSnapshot(m, LATEST)]
    OBVIOUS
  <2>2. Becomes(id, [m EXCEPT !.open = o])
    BY <1>2, <1>5, <2>1 DEF MemberLoadBegin
  <2>3. o.dir # "stage"
    BY <2>1
  <2>4. QED
    BY <1>3, <2>2, <2>3
<1>6. CASE MemberLoadEnd(id)
  <2>1. Becomes(id, [m EXCEPT !.open = Closed]) /\ Closed.dir # "stage"
    BY <1>2, <1>6 DEF MemberLoadEnd, Closed
  <2>2. QED
    BY <1>3, <2>1
<1>7. QED
  BY <1>4, <1>5, <1>6

LEMMA StageEndFacts ==
  ASSUME Obedient, DInv, SInv, NEW id, NEW k \in Lengths, MemberStageEnd(id, k)
  PROVE  /\ id \in DOMAIN members /\ UNCHANGED aborted /\ InUse(members[id]) = {}
         /\ \E n \in MemberType, s \in Snaps, B \in SUBSET (0 .. MAX) :
              /\ Replaced(id, n, s, B) /\ n.count = members[id].count /\ n.committed = members[id].committed
              /\ B = 0 .. (IF members[id].count = 0 THEN k ELSE members[id].count) - 1
<1>1. id \in DOMAIN members /\ members[id].open.dir = "stage"
  BY DEF MemberStageEnd, Exists
<1>2. PICK m \in MemberType : m = members[id] /\ Sound(m)
  BY <1>1, OneOf DEF SInv
<1>3. m.open.at = NoTime /\ InUse(m) = {} /\ (m.count # 0 => Len(m.stage.buf) = m.count)
  BY <1>1, <1>2 DEF Sound
<1>4. PICK v \in Nat : v = writes + 1 /\ v # Junk
  BY InputFacts
<1>5. PICK l \in Nat : l = (IF m.count = RESIZEABLE THEN k ELSE Len(m.stage.buf)) /\ l # 0 /\ l <= MAX
                       /\ (m.count # 0 => l = m.count)
  <2>1. m.count \in Nat /\ m.count <= MAX
    BY MemberFields
  <2>2. k \in 1 .. MAX
    BY InputFacts
  <2>3. QED
    BY <1>3, <2>1, <2>2 DEF RESIZEABLE
<1>6. PICK s \in Snaps : /\ s = [m.stage EXCEPT !.buf = Filled(l, v)] /\ s.max = m.stage.max /\ s.buf = Filled(l, v)
                         /\ s.staged = {} /\ s.prot = {}
  <2>1. PICK b \in Buffers : b = Filled(l, v)
    BY <1>5, FilledType
  <2>2. m.stage \in Snaps /\ m.stage.staged = {} /\ m.stage.prot = {}
    BY <1>3, MemberFields DEF InUse
  <2>3. PICK s : s = [m.stage EXCEPT !.buf = b]
    OBVIOUS
  <2>4. s \in Snaps /\ s.max = m.stage.max /\ s.buf = b /\ s.staged = m.stage.staged /\ s.prot = m.stage.prot
    BY <2>2, <2>3, Rebuffered
  <2>5. QED
    BY <2>1, <2>2, <2>3, <2>4
<1>7. PICK n : n = [m EXCEPT !.open = Closed, !.stage = s]
  OBVIOUS
<1>8. /\ n \in MemberType /\ n.count = m.count /\ n.stage = s /\ n.committed = m.committed /\ n.avail = m.avail
      /\ n.open = Closed /\ Own(n) = Own(m)
  BY <1>7, NoTimeType DEF MemberType, Own
<1>9. Len(s.buf) = l /\ \A i \in 1 .. l : s.buf[i] = v
  BY <1>6, FilledType
<1>10. PICK all \in SUBSET (0 .. MAX) : all = 0 .. l - 1 /\ \A i \in all : Written(s, i) /\ s.buf[i + 1] = v
  <2>1. 0 .. l - 1 \in SUBSET (0 .. MAX)
    BY <1>5, DataStoreAssumption
  <2>2. ASSUME NEW i \in 0 .. l - 1 PROVE Written(s, i) /\ s.buf[i + 1] = v
    <3>1. i < l /\ i + 1 \in 1 .. l
      BY <1>5
    <3>2. QED
      BY <1>4, <1>9, <3>1 DEF Written
  <2>3. QED
    BY <2>1, <2>2
<1>11. Real(s)
  BY <1>6 DEF Real
<1>12. Sound(n)
  <2>1. Uniform(n, 0) \/ Uniform(n, n.count)
    BY <1>2, <1>6, <1>8 DEF Sound, Uniform
  <2>2. n.count # 0 => Len(n.stage.buf) <= n.count
    BY <1>5, <1>8, <1>9
  <2>3. QED
    BY <1>2, <1>8, <1>11, <2>1, <2>2 DEF Sound, Closed
<1>13. Fits(n.stage, all) /\ Sound([n EXCEPT !.stage = AddAndFit(s, all)])
  <2>1. n.open.dir # "stage" /\ s.max = n.stage.max /\ (n.count # 0 => Len(s.buf) <= n.count)
    BY <1>5, <1>8, <1>9 DEF Closed
  <2>2. QED
    BY <1>8, <1>10, <1>11, <1>12, <2>1, FitSound
<1>14. UNCHANGED aborted /\ Becomes(id, [n EXCEPT !.stage = AddAndFit(s, all)])
  <2> DEFINE written(x) == [x EXCEPT !.buf = Filled(IF m.count = RESIZEABLE THEN k ELSE Len(@), v)]
             e == IF m.open.at = NoTime THEN [m EXCEPT !.open = Closed, !.stage = written(@)]
                  ELSE [m EXCEPT !.open = Closed, !.committed[m.open.at] = written(@)]
             full == 0 .. (IF Len(e.stage.buf) = 0 THEN MAX ELSE Len(e.stage.buf) - 1)
  <2>1. \/ ~Fits(e.stage, full)
        \/ UNCHANGED aborted /\ Becomes(id, [e EXCEPT !.stage = AddAndFit(@, full)])
    BY <1>2, <1>4 DEF MemberStageEnd, Writes
  <2>2. written(m.stage) = s
    BY <1>5, <1>6, MemberFields DEF Snaps
  <2>3. e = n
    <3>1. e = [m EXCEPT !.open = Closed, !.stage = written(m.stage)]
      BY <1>3 DEF MemberType
    <3>2. QED
      BY <1>7, <2>2, <3>1
  <2> HIDE DEF e
  <2>4. full = all
    BY <1>5, <1>8, <1>9, <1>10, <2>3
  <2>5. [e EXCEPT !.stage = AddAndFit(@, full)] = [n EXCEPT !.stage = AddAndFit(s, all)]
    BY <1>8, <2>3, <2>4 DEF MemberType
  <2>6. QED
    BY <1>13, <2>1, <2>3, <2>4, <2>5
<1>15. l = IF m.count = 0 THEN k ELSE m.count
  BY <1>5 DEF RESIZEABLE
<1>16. s.max # 0 => Len(s.buf) <= s.max
  BY <1>2, <1>5, <1>6, <1>9 DEF Sound, Uniform
<1>17. all = 0 .. (IF m.count = 0 THEN k ELSE m.count) - 1
  BY <1>10, <1>15
<1>18. Replaced(id, n, s, all) /\ n.count = m.count /\ n.committed = m.committed
  BY <1>4, <1>6, <1>8, <1>10, <1>13, <1>14, <1>16 DEF Replaced
<1>19. n \in MemberType /\ s \in Snaps /\ all \in SUBSET (0 .. MAX)
  BY <1>6, <1>8, <1>10
<1>20. QED
  BY <1>2, <1>3, <1>1, <1>14, <1>17, <1>18, <1>19

LEMMA StageEndSound ==
  ASSUME Obedient, DInv, SInv, NEW id, NEW k \in Lengths, MemberStageEnd(id, k)
  PROVE  SInv'
BY StageEndFacts, OneSound DEF Replaced

-----------------------------------------------------------------------------
LEMMA ClosedAll ==
  ASSUME Obedient, DInv, SInv, MayRetire, NEW id \in DOMAIN members
  PROVE  members[id].open = Closed
BY InputFacts DEF MayRetire

\* A commit of members that are closed, whatever has been stored in them.
LEMMA GroupCommitSound ==
  ASSUME DInv, ~aborted', NEW current, GroupCommit(current),
         \A id \in DOMAIN members : /\ SameCopies(members[id], current[id]) /\ Sound(current[id])
                                    /\ current[id].open.dir # "stage"
  PROVE  SInv'
<1>1. PICK t \in Nat : t = NextTimestamp /\ \A u \in timestamps : u < t
  BY NextTimestampFacts
<1>2. DOMAIN members' = DOMAIN members /\ \A id \in DOMAIN members : members'[id] = Committed(current[id], t)
  BY <1>1 DEF GroupCommit
<1>3. Stamps(timestamps, timestamp) /\ timestamp \in Int
  BY DEF DInv, Typed
<1>4. ASSUME NEW id \in DOMAIN members PROVE Sound(members'[id])
  <2>1. PICK m \in MemberType : /\ m = current[id] /\ Pool(m) /\ Newest(m, timestamps)
                                /\ Sound(m) /\ m.open.dir # "stage"
    <3>1. current[id] \in MemberType /\ current[id].avail = members[id].avail /\ Own(current[id]) = Own(members[id])
      BY DEF SameCopies
    <3>2. QED
      BY <3>1, OneOf DEF Pool, Newest
  <2>2. PICK n : n = Committed(m, t)
    OBVIOUS
  <2>3. /\ n \in MemberType /\ n.count = m.count /\ n.open.dir = m.open.dir
        /\ n.committed[t] = m.stage
        /\ \A u \in Own(n) : u # t => u \in Own(m) /\ n.committed[u] = m.committed[u]
        /\ n.stage = Snapshot(n.stage.max)
        /\ \A x \in Nat : Uniform(m, x) => Uniform(n, x)
    <3>1. /\ n \in MemberType /\ n.count = m.count /\ n.open.dir = m.open.dir
          /\ n.committed[t] = m.stage
      BY ZenonT(60), <1>1, <1>3, <2>1, <2>2, CommittedFacts
    <3>2. \A u \in Own(n) : u # t => u \in Own(m) /\ n.committed[u] = m.committed[u]
      BY ZenonT(60), <1>1, <1>3, <2>1, <2>2, CommittedFacts
    <3>3. n.stage = Snapshot(n.stage.max) /\ \A x \in Nat : Uniform(m, x) => Uniform(n, x)
      BY ZenonT(60), <1>1, <1>3, <2>1, <2>2, CommittedFacts
    <3>4. QED
      BY <3>1, <3>2, <3>3
  <2>4. n.stage.buf = << >> /\ n.stage.staged = {} /\ n.stage.prot = {}
    BY <2>3 DEF Snapshot
  <2>5. Real(n.stage) /\ \A u \in Own(n) : Real(n.committed[u])
    BY <2>1, <2>3, <2>4 DEF Real, Sound
  <2>6. Uniform(n, 0) \/ Uniform(n, n.count)
    <3>1. m.count \in Nat /\ 0 \in Nat
      BY MemberFields
    <3>2. QED
      BY <2>1, <2>3, <3>1 DEF Sound
  <2>7. n.count # 0 => Len(n.stage.buf) <= n.count
    <3>1. n.count \in Nat /\ Len(n.stage.buf) = 0
      BY <2>3, <2>4, MemberFields
    <3>2. QED
      BY <3>1
  <2>8. Sound(n)
    BY <2>1, <2>3, <2>5, <2>6, <2>7 DEF Sound
  <2>9. QED
    BY <1>2, <2>1, <2>2, <2>8
<1>5. QED
  BY <1>2, <1>4 DEF SInv

LEMMA CommitSound ==
  ASSUME Obedient, DInv, SInv, Commit
  PROVE  SInv'
<1>1. ~aborted'
  BY DEF Commit, SInv
<1>2. CASE Unstored
  <2>1. members' = members
    BY <1>2 DEF Commit
  <2>2. QED
    BY <1>1, <2>1 DEF SInv
<1>3. CASE ~Unstored
  <2>1. GroupCommit(members)
    BY <1>3 DEF Commit
  <2>2. \A id \in DOMAIN members : /\ SameCopies(members[id], members[id]) /\ Sound(members[id])
                                   /\ members[id].open.dir # "stage"
    BY OneOf, ClosedAll DEF SameCopies, SInv, Commit, Closed
  <2>3. QED
    BY <1>1, <2>1, <2>2, GroupCommitSound
<1>4. QED
  BY <1>2, <1>3

LEMMA CheckpointSound ==
  ASSUME Obedient, DInv, SInv, NEW S \in SUBSET (0 .. MAX), NEW k \in Lengths, Checkpoint(S, k)
  PROVE  SInv'
<1>1. PICK reached : reached = Reached(order, S) /\ CanStore(reached, S, k) /\ MayRetire
  BY DEF Checkpoint
<1>2. ToSet(reached) \subseteq DOMAIN members
  BY <1>1, FreeFacts DEF CanStore
<1>3. PICK f : f = AfterStores(reached, S, k)
  OBVIOUS
<1>4. /\ StoresAssert(reached, S, k) /\ \A id \in DOMAIN members : Sound(f[id])
  BY <1>1, <1>2, <1>3, AfterStoresSound
<1>5. DOMAIN f = DOMAIN members /\ \A id \in DOMAIN members : SameCopies(members[id], f[id])
  BY <1>3, InputFacts, AfterStoresCopies
<1>6. UNCHANGED aborted /\ ((reached = order /\ GroupCommit(f)) \/ members' = f)
  BY <1>1, <1>3, <1>4 DEF Checkpoint, Writes
<1>7. ASSUME NEW id \in DOMAIN members PROVE f[id].open.dir # "stage"
  <2>1. members[id] \in MemberType /\ members[id].open = Closed
    BY <1>1, OneOf, ClosedAll
  <2>2. CASE id \in ToSet(reached)
    <3>1. k \in 0 .. MAX /\ writes + 1 \in Nat
      BY InputFacts
    <3>2. Stores(members[id], S, writes + 1, k).open = members[id].open
      BY <2>1, <3>1, StoresType, OnlyStagedFacts
    <3>3. f[id] = Stores(members[id], S, writes + 1, k)
      BY <1>3, <2>2 DEF AfterStores
    <3>4. QED
      BY <2>1, <3>2, <3>3 DEF Closed
  <2>3. CASE id \notin ToSet(reached)
    BY <1>3, <2>1, <2>3 DEF AfterStores, Closed
  <2>4. QED
    BY <2>2, <2>3
<1>8. CASE GroupCommit(f)
  <2>1. ~aborted'
    BY <1>6 DEF SInv
  <2>2. QED
    BY <1>4, <1>5, <1>7, <1>8, <2>1, GroupCommitSound
<1>9. CASE members' = f
  BY <1>4, <1>5, <1>6, <1>9 DEF SInv
<1>10. QED
  BY <1>6, <1>8, <1>9

LEMMA SnapshotDeleteSound ==
  ASSUME Obedient, DInv, SInv, NEW t \in timestamps, SnapshotDelete(t)
  PROVE  SInv'
<1>1. /\ UNCHANGED aborted /\ MayRetire
      /\ members' = [id \in DOMAIN members |-> Deleted(members[id], t)]
  BY DEF SnapshotDelete
<1>2. timestamps \in SUBSET Nat /\ IsFiniteSet(timestamps)
  BY DEF DInv, Typed, Stamps
<1>3. ASSUME NEW id \in DOMAIN members PROVE Sound(members'[id])
  <2>1. PICK m \in MemberType : m = members[id] /\ Sound(m) /\ Own(m) \subseteq timestamps /\ m.open = Closed
    BY <1>1, OneOf, ClosedAll DEF SInv, Newest
  <2>2. members'[id] = Deleted(m, t)
    BY <1>1, <2>1
  <2>3. CASE t \in Own(m)
    <3>1. LET x == Deleted(m, t) IN
          /\ x \in MemberType /\ x.stage = m.stage /\ x.count = m.count /\ x.ser = m.ser /\ x.open = m.open
          /\ Own(x) = Own(m) \ {t} /\ \A u \in Own(x) : x.committed[u] = m.committed[u]
          /\ Len(x.avail) = Len(m.avail) + 1
          /\ \A i \in 1 .. Len(m.avail) : x.avail[i] = m.avail[i]
          /\ x.avail[Len(m.avail) + 1] = Snapshot(m.committed[t].max)
          /\ Cardinality(Own(x)) = Cardinality(Own(m)) - 1
      BY <1>2, <2>1, <2>3, DeletedFacts
    <3>2. PICK n \in MemberType :
            /\ n = Deleted(m, t) /\ n.stage = m.stage /\ n.count = m.count /\ n.open = m.open
            /\ Own(n) = Own(m) \ {t} /\ \A u \in Own(n) : n.committed[u] = m.committed[u]
            /\ Len(n.avail) = Len(m.avail) + 1
            /\ \A i \in 1 .. Len(m.avail) : n.avail[i] = m.avail[i]
            /\ n.avail[Len(m.avail) + 1] = Snapshot(m.committed[t].max)
      BY <3>1
    <3>3. PICK l \in Nat : l = Len(m.avail) /\ DOMAIN m.avail = 1 .. l /\ DOMAIN n.avail = 1 .. l + 1
      BY <3>2, MemberFields
    <3>4. ASSUME NEW x, Uniform(m, x) PROVE Uniform(n, x)
      <4>1. ASSUME NEW i \in DOMAIN n.avail PROVE n.avail[i].max = x
        <5>1. CASE i = l + 1
          <6>1. m.committed[t].max = x
            BY <2>3, <3>4 DEF Uniform
          <6>2. n.avail[i] = Snapshot(m.committed[t].max)
            BY <3>2, <3>3, <5>1
          <6>3. QED
            BY <6>1, <6>2 DEF Snapshot
        <5>2. CASE i # l + 1
          <6>1. i \in 1 .. l
            BY <3>3, <5>2
          <6>2. QED
            BY <3>2, <3>3, <3>4, <6>1 DEF Uniform
        <5>3. QED
          BY <5>1, <5>2
      <4>2. n.stage.max = x /\ \A u \in Own(n) : n.committed[u].max = x
        BY <3>2, <3>4 DEF Uniform
      <4>3. QED
        BY <4>1, <4>2 DEF Uniform
    <3>5. Sound(n)
      BY <2>1, <3>2, <3>4 DEF Sound, Closed
    <3>6. QED
      BY <2>2, <3>2, <3>5
  <2>4. CASE t \notin Own(m)
    BY <2>1, <2>2, <2>4 DEF Deleted, Own
  <2>5. QED
    BY <2>3, <2>4
<1>4. DOMAIN members' = DOMAIN members
  BY <1>1
<1>5. QED
  BY <1>1, <1>3, <1>4 DEF SInv

LEMMA GroupSound ==
  ASSUME DInv, SInv, GroupCreate \/ GroupDelete
  PROVE  SInv'
<1>1. CASE GroupCreate
  <2>1. UNCHANGED aborted /\ members' = [id \in DOMAIN members |-> RestrictedTo(members[id], timestamps)]
    BY <1>1 DEF GroupCreate
  <2>2. \A id \in DOMAIN members : RestrictedTo(members[id], timestamps) = members[id]
    BY OneOf, NothingRestricted DEF Newest
  <2>3. DOMAIN members' = DOMAIN members /\ \A id \in DOMAIN members : members'[id] = members[id]
    BY <2>1, <2>2
  <2>4. QED
    BY <2>1, <2>3 DEF SInv
<1>2. CASE GroupDelete
  <2>1. UNCHANGED aborted /\ DOMAIN members' = {}
    BY <1>2 DEF GroupDelete
  <2>2. QED
    BY <2>1 DEF SInv
<1>3. QED
  BY <1>1, <1>2

LEMMA NextSound ==
  ASSUME Obedient, DInv, SInv, [Next]_vars PROVE SInv'
<1>1. ASSUME NEW S \in Subsets, NEW k \in LengthsFor(S),
             \/ MemberStore(ById, S, k) \/ Checkpoint(S, k)
             \/ \E id \in Member : MemberStage(id, S, k) \/ (Exists(id) /\ MemberStore(<<id>>, S, k))
      PROVE  SInv'
  <2>1. S \in SUBSET (0 .. MAX) /\ k \in Lengths
    BY SubsetTypes DEF LengthsFor
  <2>2. QED
    BY <1>1, <2>1, StoreSound, CheckpointSound, StageSound
<1>2. ASSUME NEW id \in Member, NEW shape \in Shapes[id],
             \/ MemberCreate(id, shape[1], shape[2]) \/ MemberDefine(id, shape[1], shape[2])
             \/ MemberAttrSet(id, shape[1])
      PROVE  SInv'
  BY <1>2, ShapeType, CreateSound, SettingSound
<1>3. ASSUME NEW id \in Member,
             \/ MemberDelete(id) \/ MemberStorePrestaged(id) \/ MemberStageBegin(id) \/ MemberLoadEnd(id)
             \/ MemberLoadBegin(id, LATEST)
      PROVE  SInv'
  BY <1>3, DeleteSound, PrestagedSound, BeginSound
<1>4. ASSUME NEW id \in Member, NEW S \in Subsets, Exists(id), MemberStageInplace(id, S)
      PROVE  SInv'
  BY <1>4, SubsetTypes, InplaceSound
<1>5. ASSUME NEW id \in Member, NEW k \in Lengths, MemberStageEnd(id, k)
      PROVE  SInv'
  BY <1>5, StageEndSound
<1>6. ASSUME NEW t \in timestamps, SnapshotDelete(t)
      PROVE  SInv'
  BY <1>6, SnapshotDeleteSound
<1>7. CASE Next
  BY <1>1, <1>2, <1>3, <1>4, <1>5, <1>6, <1>7, CommitSound, GroupSound DEF Next, Staging
<1>8. CASE UNCHANGED vars
  <2>1. members' = members /\ aborted' = aborted
    BY <1>8 DEF vars
  <2>2. QED
    BY <2>1 DEF SInv
<1>9. QED
  BY <1>7, <1>8

(***************************************************************************)
(* Whatever sequence of calls an application makes that keeps to the rules,  *)
(* no assertion fails and every element that a snapshot claims to hold has    *)
(* been written (snapshot.cpp 75-89, member.cpp 201-212).                      *)
(***************************************************************************)
THEOREM AlwaysFoundIsReal == Obedient => (Spec => []FoundIsReal)
<1> SUFFICES ASSUME Obedient PROVE Spec => []FoundIsReal
  OBVIOUS
<1>1. Init => SInv
  BY DEF Init, SInv
<1>2. DInv /\ SInv /\ [Next]_vars => SInv'
  BY NextSound
<1>3. DInv /\ SInv => FoundIsReal
  <2>1. ASSUME DInv, SInv, NEW id \in DOMAIN members,
               NEW s \in Range(members[id].committed) \cup {members[id].stage}, NEW i \in s.staged \cup s.prot
        PROVE  ValueAt(s, i) # Junk
    <3>1. Real(s)
      BY <2>1 DEF SInv, Sound, Own, Range
    <3>2. QED
      BY <3>1 DEF Real, Written, ValueAt
  <2>2. QED
    BY <2>1 DEF FoundIsReal, SInv
<1>4. QED
  BY <1>1, <1>2, <1>3, AlwaysDInv, PTL DEF Spec

-----------------------------------------------------------------------------
(* Loading *)

Holding(m, i) == {t \in Own(m) : i \in m.committed[t].prot}

LEMMA OwnInt ==
  ASSUME NEW m \in MemberType
  PROVE  Own(m) \subseteq Int
<1>1. m.committed \in Tables
  BY MemberFields
<1>2. DOMAIN m.committed \subseteq Nat
  BY <1>1, TableFacts
<1>3. QED
  BY <1>2 DEF Own

LEMMA HoldingFacts ==
  ASSUME NEW m \in MemberType, IsFiniteSet(Own(m)), NEW i, NEW T \in SUBSET Holding(m, i), T # {}
  PROVE  Max(T) \in T /\ (\A t \in T : t <= Max(T)) /\ Max(T) \in Own(m) /\ Max(T) \in Int
<1>1. Own(m) \subseteq Int
  BY OwnInt
<1>2. T \subseteq Int /\ IsFiniteSet(T) /\ T \subseteq Own(m)
  <2>1. T \in SUBSET Own(m)
    BY DEF Holding
  <2>2. QED
    BY <1>1, <2>1, FS_Subset
<1>3. Max(T) \in T /\ \A t \in T : t <= Max(T)
  BY <1>2, MaxOf
<1>4. QED
  BY <1>2, <1>3

\* The newest snapshot that holds an element of the target is looked at.
LEMMA NewestVisited ==
  ASSUME NEW m \in MemberType, IsFiniteSet(Own(m)), NEW n \in 1 .. MAX,
         NEW i \in 0 .. n - 1, Holding(m, i) # {}
  PROVE  Max(Holding(m, i)) \in Visited(m, n)
<1>1. PICK t \in Own(m) : t = Max(Holding(m, i)) /\ t \in Int /\ \A u \in Holding(m, i) : u <= t
  BY HoldingFacts
<1>2. i \notin Held(m, {u \in Own(m) : u > t})
  <2>1. ASSUME NEW u \in Own(m), u > t, i \in m.committed[u].prot PROVE FALSE
    <3>1. u \in Holding(m, i)
      BY <2>1 DEF Holding
    <3>2. u \in Int
      BY OwnInt
    <3>3. QED
      BY <1>1, <2>1, <3>1, <3>2
  <2>2. QED
    BY <2>1 DEF Held
<1>3. QED
  BY <1>1, <1>2 DEF Visited, Own

\* What can be read of a snapshot that is real ends with the target.
LEMMA ReadableReal ==
  ASSUME NEW s \in Snaps, Real(s), NEW n \in 1 .. MAX
  PROVE  /\ Readable(s, s.prot, n) = {i \in s.prot : i < n}
         /\ \A i \in s.prot : i \in Nat /\ ValueAt(s, i) = s.buf[i + 1]
<1>1. PICK l \in Nat : l = Len(s.buf)
  BY SnapFields
<1>2. \A i \in s.prot : i \in Nat /\ i < l
  BY <1>1, SnapFields DEF Real, Written
<1>3. ASSUME NEW i \in s.prot PROVE i \in Readable(s, s.prot, n) <=> i < n
  <2>1. i \in Nat /\ i < l /\ n \in Nat /\ n # 0
    BY <1>2
  <2>2. Smaller(l, n) # 0 /\ (i < Smaller(l, n) <=> i < n)
    BY <2>1 DEF Smaller
  <2>3. QED
    BY <1>1, <2>2 DEF Readable, Below
<1>4. Readable(s, s.prot, n) \subseteq s.prot
  BY DEF Readable, Below
<1>5. QED
  BY <1>1, <1>2, <1>3, <1>4 DEF ValueAt

LEMMA LoadAllFacts ==
  ASSUME NEW m \in MemberType, IsFiniteSet(Own(m)), \A t \in Own(m) : Real(m.committed[t]), NEW n \in 1 .. MAX
  PROVE  /\ LoadAll(m, n).found \in SUBSET (0 .. MAX)
         /\ \A i \in 0 .. n - 1 : i \in LoadAll(m, n).found <=> Holding(m, i) # {}
         /\ LoadAll(m, n).data = [i \in {j \in 0 .. n - 1 : Holding(m, j) # {}} |->
                                    m.committed[Max(Holding(m, i))].buf[i + 1]]
<1> DEFINE found     == Held(m, Visited(m, n))
           seen(i)   == {t \in Visited(m, n) : i \in m.committed[t].prot}
           source(i) == m.committed[Max(seen(i))]
           read      == {i \in found : i \in Readable(source(i), source(i).prot, n)}
           wanted    == {j \in 0 .. n - 1 : Holding(m, j) # {}}
<1>1. LoadAll(m, n).found = found /\ LoadAll(m, n).data = [i \in read |-> ValueAt(source(i), i)]
  BY DEF LoadAll
<1>2. Visited(m, n) \subseteq Own(m)
  BY DEF Visited, Own
<1>3. \A t \in Own(m) : m.committed[t] \in Snaps /\ m.committed[t].prot \subseteq 0 .. MAX
  BY MemberFields, TableFacts, SnapFields DEF Own
<1>4. found \in SUBSET (0 .. MAX) /\ \A i : i \in found <=> seen(i) # {}
  BY <1>2, <1>3 DEF Held
<1>5. \A i : seen(i) \in SUBSET Holding(m, i)
  BY <1>2 DEF Holding
<1>6. ASSUME NEW i \in wanted PROVE i \in found /\ Max(seen(i)) = Max(Holding(m, i))
  <2>1. PICK t : t = Max(Holding(m, i)) /\ t \in Holding(m, i) /\ t \in Int /\ \A u \in Holding(m, i) : u <= t
    BY HoldingFacts
  <2>2. t \in seen(i)
    BY <2>1, NewestVisited DEF Holding
  <2>3. PICK u : u = Max(seen(i)) /\ u \in seen(i) /\ u \in Int /\ t <= u
    BY <1>5, <2>2, HoldingFacts
  <2>4. u <= t
    BY <1>5, <2>1, <2>3
  <2>5. QED
    BY <1>4, <2>1, <2>2, <2>3, <2>4
<1>7. ASSUME NEW i \in found
      PROVE  /\ i \in Nat /\ i \in source(i).prot /\ (i \in Readable(source(i), source(i).prot, n) <=> i < n)
             /\ ValueAt(source(i), i) = source(i).buf[i + 1] /\ Holding(m, i) # {}
  <2>1. PICK t \in Own(m) : t = Max(seen(i)) /\ t \in seen(i)
    BY <1>4, <1>5, HoldingFacts
  <2>2. PICK s \in Snaps : s = m.committed[t] /\ s = source(i) /\ Real(s) /\ i \in s.prot
    BY <1>3, <2>1
  <2>3. QED
    BY <1>5, <2>1, <2>2, ReadableReal
<1>8. read = wanted
  <2> HIDE DEF found, source
  <2>1. ASSUME NEW i \in read PROVE i \in wanted
    <3>1. i \in found /\ i \in Readable(source(i), source(i).prot, n)
      OBVIOUS
    <3>2. i \in Nat /\ i < n /\ Holding(m, i) # {}
      BY <1>7, <3>1
    <3>3. QED
      BY <3>2
  <2>2. ASSUME NEW i \in wanted PROVE i \in read
    <3>1. i \in found
      BY <1>6
    <3>2. i < n
      OBVIOUS
    <3>3. i \in Readable(source(i), source(i).prot, n)
      BY <1>7, <3>1, <3>2
    <3>4. QED
      BY <3>1, <3>3
  <2>3. QED
    BY <2>1, <2>2
<1>9. \A i \in wanted : ValueAt(source(i), i) = m.committed[Max(Holding(m, i))].buf[i + 1]
  BY <1>6, <1>7
<1>10. \A i \in 0 .. n - 1 : i \in found <=> Holding(m, i) # {}
  BY <1>6, <1>7
<1> HIDE DEF found, read, wanted, source, seen
<1>11. [i \in read |-> ValueAt(source(i), i)] = [i \in wanted |-> m.committed[Max(Holding(m, i))].buf[i + 1]]
  BY <1>8, <1>9
<1>12. QED
  BY <1>1, <1>4, <1>10, <1>11 DEF wanted

LEMMA PartialFacts ==
  ASSUME NEW found \in SUBSET (0 .. MAX), NEW n \in 1 .. MAX, NEW held,
         \A i \in 0 .. n - 1 : i \in found <=> i \in held
  PROVE  PartialRestore(found, n) <=> \E i \in 0 .. (IF n = MAX THEN MaxCount(found) ELSE n) - 1 : i \notin held
<1>1. PICK c \in 0 .. n : c = IF n = MAX THEN MaxCount(found) ELSE n
  BY MaxCountFacts
<1>2. \A i \in 0 .. c - 1 : i \in 0 .. n - 1
  OBVIOUS
<1>3. QED
  BY <1>1, <1>2 DEF PartialRestore

LEMMA PositionZero ==
  ASSUME DInv, NEW id \in DOMAIN members, Own(members[id]) # {}
  PROVE  SnapshotAtPosition(0) = Max(Own(members[id]))
<1>1. PICK m \in MemberType : m = members[id] /\ Newest(m, timestamps) /\ Own(m) # {}
  BY OneOf
<1>2. timestamps \subseteq Int /\ IsFiniteSet(timestamps) /\ Own(m) \in SUBSET timestamps
  BY <1>1 DEF DInv, Typed, Stamps, Newest
<1>3. IsFiniteSet(Own(m)) /\ Own(m) \subseteq Int
  BY <1>2, FS_Subset
<1>4. Max(Own(m)) \in Own(m) /\ \A u \in Own(m) : u <= Max(Own(m))
  BY <1>1, <1>3, MaxOf
<1>5. timestamps # {} /\ Cardinality(timestamps) \in Nat \ {0}
  BY <1>1, <1>2, FS_CardinalityType, FS_EmptySet
<1>6. PICK p \in timestamps : p = SnapshotAtPosition(0) /\ Cardinality(Newer(timestamps, p)) = 0
  <2>1. 0 \in 0 .. Cardinality(timestamps) - 1
    BY <1>5
  <2>2. \E x \in timestamps : Cardinality({u \in timestamps : u > x}) = 0
    BY <1>2, <2>1, PositionTaken DEF Newer
  <2>3. QED
    BY <2>2 DEF SnapshotAtPosition, Newer
<1>7. Newer(timestamps, p) = {}
  BY <1>2, <1>6, NewerFacts, FS_EmptySet
<1>8. PICK x \in Int : x = Max(Own(m)) /\ x \in Own(m) /\ x \in timestamps
  BY <1>2, <1>4
<1>9. ~(x > p) /\ p \in Int
  BY <1>2, <1>7, <1>8 DEF Newer
<1>10. p > x => p \in Own(m)
  BY <1>1, <1>8 DEF Newest
<1>11. p \in Own(m) => p <= x
  BY <1>4, <1>8
<1>12. QED
  BY <1>1, <1>6, <1>8, <1>9, <1>10, <1>11

LEMMA NewestLoaded ==
  ASSUME DInv, SInv PROVE LoadNewest
<1> DEFINE Loaded(m) ==
             /\ \A n \in 1 .. MAX :
                  /\ MemberRestore(m, ALL, n).data = [i \in {j \in 0 .. n - 1 : Holding(m, j) # {}} |->
                                                        m.committed[Max(Holding(m, i))].buf[i + 1]]
                  /\ PartialRestore(MemberRestore(m, ALL, n).found, n) <=>
                       \E i \in 0 .. (IF n = MAX THEN MaxCount(MemberRestore(m, ALL, n).found) ELSE n) - 1 :
                         Holding(m, i) = {}
             /\ \A t \in GroupSnapshots : Finds(m, t) =>
                  \A n \in 1 .. MAX : DOMAIN MemberRestore(m, t, n).data = {i \in m.committed[t].prot : i < n}
             /\ Finds(m, LATEST) => MemberLoad(m, LATEST) = MemberLoad(m, SnapshotAtPosition(0))
<1>1. SUFFICES ASSUME NEW id \in DOMAIN members PROVE Loaded(members[id])
  BY DEF LoadNewest, Holding, Own
<1>2. PICK m \in MemberType : m = members[id] /\ Sound(m) /\ Newest(m, timestamps)
  BY OneOf DEF SInv
<1>3. timestamps \in SUBSET Nat /\ IsFiniteSet(timestamps) /\ Own(m) \in SUBSET timestamps
  BY <1>2 DEF DInv, Typed, Stamps, Newest
<1>4. IsFiniteSet(Own(m)) /\ Own(m) \in SUBSET Nat /\ \A t \in Own(m) : Real(m.committed[t])
  BY <1>2, <1>3, FS_Subset DEF Sound
<1>5. \A t \in Nat : \A n : MemberRestore(m, t, n) = LoadOne(m, t, n)
  BY DEF MemberRestore, FindSnapshot, ALL, LATEST
<1>6. ASSUME NEW n \in 1 .. MAX
      PROVE  /\ MemberRestore(m, ALL, n).data = [i \in {j \in 0 .. n - 1 : Holding(m, j) # {}} |->
                                                   m.committed[Max(Holding(m, i))].buf[i + 1]]
             /\ PartialRestore(MemberRestore(m, ALL, n).found, n) <=>
                  \E i \in 0 .. (IF n = MAX THEN MaxCount(MemberRestore(m, ALL, n).found) ELSE n) - 1 : Holding(m, i) = {}
  <2>1. MemberRestore(m, ALL, n) = LoadAll(m, n)
    BY DEF MemberRestore
  <2>2. PICK a : a = LoadAll(m, n)
    OBVIOUS
  <2>3. /\ a.found \in SUBSET (0 .. MAX)
        /\ \A i \in 0 .. n - 1 : i \in a.found <=> Holding(m, i) # {}
        /\ a.data = [i \in {j \in 0 .. n - 1 : Holding(m, j) # {}} |-> m.committed[Max(Holding(m, i))].buf[i + 1]]
    BY <1>4, <2>2, LoadAllFacts
  <2>4. PICK c : c = IF n = MAX THEN MaxCount(a.found) ELSE n
    OBVIOUS
  <2>5. PICK held : held = {i \in Int : Holding(m, i) # {}}
    OBVIOUS
  <2>6. PartialRestore(a.found, n) <=> \E i \in 0 .. c - 1 : i \notin held
    <3>1. \A i \in 0 .. n - 1 : i \in a.found <=> i \in held
      BY <2>3, <2>5
    <3>2. PICK f \in SUBSET (0 .. MAX) : f = a.found
      BY <2>3
    <3>3. PartialRestore(f, n) <=> \E i \in 0 .. (IF n = MAX THEN MaxCount(f) ELSE n) - 1 : i \notin held
      BY <3>1, <3>2, PartialFacts
    <3>4. QED
      BY <2>4, <3>2, <3>3
  <2>7. \A i \in 0 .. c - 1 : i \notin held <=> Holding(m, i) = {}
    BY <2>5
  <2>8. QED
    BY <2>1, <2>2, <2>3, <2>4, <2>6, <2>7
<1>7. ASSUME NEW t \in GroupSnapshots, Finds(m, t), NEW n \in 1 .. MAX
      PROVE  DOMAIN MemberRestore(m, t, n).data = {i \in m.committed[t].prot : i < n}
  <2>1. t \in Nat
    <3>1. PICK k \in 0 .. Cardinality(timestamps) - 1 : t = SnapshotAtPosition(k)
      BY <1>7 DEF GroupSnapshots
    <3>2. \E x \in timestamps : Cardinality({u \in timestamps : u > x}) = k
      <4>1. timestamps \subseteq Int
        BY <1>3
      <4>2. QED
        BY <1>3, <4>1, PositionTaken DEF Newer
    <3>3. QED
      BY <1>3, <3>1, <3>2 DEF SnapshotAtPosition
  <2>2. t \in Own(m)
    BY <1>7, <2>1 DEF Finds, Own
  <2>3. PICK s \in Snaps : s = m.committed[t] /\ Real(s)
    BY <1>4, <2>2, MemberFields, TableFacts DEF Own
  <2>4. DOMAIN LoadOne(m, t, n).data = Readable(s, s.prot, n)
    BY <2>3 DEF LoadOne
  <2>5. QED
    BY <1>5, <2>1, <2>3, <2>4, ReadableReal
<1>8. ASSUME Finds(m, LATEST)
      PROVE  MemberLoad(m, LATEST) = MemberLoad(m, SnapshotAtPosition(0))
  <2>1. Own(m) # {}
    BY <1>8 DEF Finds, LATEST, Own
  <2>2. PICK x \in Nat : x = Max(Own(m)) /\ x = SnapshotAtPosition(0)
    <3>1. Own(m) \subseteq Int
      BY OwnInt
    <3>2. Max(Own(m)) \in Own(m)
      BY <1>4, <2>1, <3>1, MaxOf
    <3>3. QED
      BY <1>2, <1>4, <2>1, <3>2, PositionZero
  <2>3. MemberLoad(m, LATEST) = LoadOne(m, x, MAX)
    BY <2>2 DEF MemberLoad, MemberRestore, FindSnapshot, ALL, LATEST, Own
  <2>4. QED
    BY <1>5, <2>2, <2>3 DEF MemberLoad
<1>9. \A t \in GroupSnapshots : Finds(m, t) =>
        \A n \in 1 .. MAX : DOMAIN MemberRestore(m, t, n).data = {i \in m.committed[t].prot : i < n}
  BY <1>7
<1>10. Loaded(m)
  BY <1>6, <1>8, <1>9
<1> HIDE DEF Loaded
<1>11. QED
  BY <1>2, <1>10

(***************************************************************************)
(* The loop over all snapshots loads each element from the newest that holds *)
(* it, though it stops early, and warns exactly when one was in none; a       *)
(* member's latest is the group's at position 0 (member.cpp 290-329, 546-563, *)
(* group.cpp 212-224).                                                         *)
(***************************************************************************)
THEOREM AlwaysLoadNewest == Obedient => (Spec => []LoadNewest)
<1> SUFFICES ASSUME Obedient PROVE Spec => []LoadNewest
  OBVIOUS
<1>1. Init => SInv
  BY DEF Init, SInv
<1>2. DInv /\ SInv /\ [Next]_vars => SInv'
  BY NextSound
<1>3. DInv /\ SInv => LoadNewest
  BY NewestLoaded
<1>4. QED
  BY <1>1, <1>2, <1>3, AlwaysDInv, PTL DEF Spec

-----------------------------------------------------------------------------
(***************************************************************************)
(* The promised store: what a member shows of its stage and its snapshots.  *)
(***************************************************************************)
Working(m) == Content(m.stage, InUse(m))
Frozen(m)  == [t \in Own(m) |-> Content(m.committed[t], m.committed[t].prot)]

\* What a store of value v makes of the working copy.
StoredWorking(m, S, k, v) ==
  IF m.count = 0 /\ MAX \in S THEN [i \in DOMAIN Working(m) \cup {j \in S : j < k} |-> v]
  ELSE LET new == {j \in S : m.count # 0 => j < m.count}
       IN  [i \in DOMAIN Working(m) \cup new |-> IF i \in new THEN v ELSE Working(m)[i]]

LEMMA ContentReal ==
  ASSUME NEW s, NEW S, \A i \in S : Written(s, i)
  PROVE  Content(s, S) = [i \in S |-> s.buf[i + 1]]
<1>1. {j \in S : j < Len(s.buf)} = S
  BY DEF Written
<1>2. QED
  BY <1>1 DEF Content

LEMMA WorkingReal ==
  ASSUME NEW m, Real(m.stage)
  PROVE  /\ Working(m) = [i \in InUse(m) |-> m.stage.buf[i + 1]] /\ DOMAIN Working(m) = InUse(m)
         /\ \A i \in InUse(m) : Working(m)[i] = m.stage.buf[i + 1]
<1>1. \A i \in InUse(m) : Written(m.stage, i)
  BY DEF Real, InUse
<1>2. Working(m) = [i \in InUse(m) |-> m.stage.buf[i + 1]]
  BY <1>1, ContentReal DEF Working
<1>3. QED
  BY <1>2

\* What is added is within the limit, and stays where it is.
LEMMA FitExact ==
  ASSUME NEW s \in Snaps, Real(s), s.max # 0 => Len(s.buf) <= s.max,
         NEW S \in SUBSET (0 .. MAX), \A i \in S : Written(s, i)
  PROVE  /\ AddAndFit(s, S).staged = s.staged \cup S /\ AddAndFit(s, S).prot = s.prot
         /\ \A i \in s.staged \cup s.prot \cup S : AddAndFit(s, S).buf[i + 1] = s.buf[i + 1]
<1>1. PICK l \in Nat : l = Len(s.buf) /\ s.buf \in Seq(Nat)
  BY SnapFields
<1>2. \A i \in s.staged \cup s.prot \cup S : i \in Nat /\ i < l
  BY <1>1, SnapFields DEF Real, Written
<1>3. Fitted(s, S) = s.staged \cup S
  <2>1. s.max \in Nat
    BY SnapFields
  <2>2. CASE s.max = 0
    BY <2>2 DEF Fitted
  <2>3. CASE s.max # 0
    <3>1. \A i \in s.staged \cup S : i < s.max
      <4>1. l <= s.max
        BY <1>1, <2>3
      <4>2. QED
        BY <1>2, <2>1, <4>1
    <3>2. QED
      BY <2>3, <3>1 DEF Fitted, Below
  <2>4. QED
    BY <2>2, <2>3
<1>4. PICK c \in Nat : c = FitCount(s, S)
  BY FitTypes
<1>5. AddAndFit(s, S).staged = Fitted(s, S) /\ AddAndFit(s, S).prot = s.prot /\ AddAndFit(s, S).buf = Grown(s.buf, c)
  BY <1>4, FitTypes
<1>6. \A i \in 1 .. l : Grown(s.buf, c)[i] = s.buf[i]
  BY <1>1, <1>4, GrownType
<1>7. \A i \in s.staged \cup s.prot \cup S : i + 1 \in 1 .. l
  BY <1>2
<1>8. QED
  BY <1>3, <1>5, <1>6, <1>7

LEMMA LimitFacts ==
  ASSUME NEW m \in MemberType, Sound(m)
  PROVE  /\ m.stage \in Snaps /\ Real(m.stage) /\ m.stage.max \in {0, m.count}
         /\ m.stage.max # 0 => Len(m.stage.buf) <= m.stage.max
         /\ m.count # 0 => Len(m.stage.buf) <= m.count
BY MemberFields DEF Sound, Uniform

\* What stage copies, exactly.
LEMMA CopiedExact ==
  ASSUME NEW m \in MemberType, Sound(m),
         NEW S \in SUBSET (0 .. MAX), NEW v \in Nat, NEW k \in 1 .. MAX,
         Dynamic(m, S) => k >= MaxCount(InUse(m))
  PROVE  LET b == Copied(m, S, v, k)
             B == Below(S, Len(b))
         IN  /\ Dynamic(m, S) => B = {j \in S : j < k} /\ \A i \in InUse(m) \cup B : b[i + 1] = v
             /\ ~Dynamic(m, S) => /\ B = {j \in S : m.count # 0 => j < m.count}
                                  /\ \A i \in B : b[i + 1] = v
                                  /\ \A i \in InUse(m) \ B : b[i + 1] = m.stage.buf[i + 1]
<1>1. PICK b : b = Copied(m, S, v, k)
  OBVIOUS
<1>2. PICK l \in Nat : l = Len(m.stage.buf) /\ m.stage.buf \in Seq(Nat)
  BY MemberFields, SnapFields
<1>3. PICK c \in Nat : c = m.count /\ (c # 0 => l <= c)
  BY <1>2, MemberFields, LimitFacts
<1>4. PICK U \in SUBSET (0 .. MAX) : U = InUse(m) /\ \A i \in U : i \in Nat /\ i < l
  <2>1. InUse(m) \in SUBSET (0 .. MAX)
    BY MemberFields, SnapFields DEF InUse
  <2>2. \A i \in InUse(m) : i < l
    BY <1>2, LimitFacts DEF InUse, Real, Written
  <2>3. QED
    BY <2>1, <2>2
<1>5. S \subseteq Nat
  OBVIOUS
<1>6. CASE Dynamic(m, S)
  <2>1. b = Filled(k, v) /\ k \in Nat /\ k >= 1
    BY <1>1, <1>6 DEF Copied
  <2>2. Len(b) = k /\ \A i \in 1 .. k : b[i] = v
    BY <2>1, FilledType
  <2>3. Below(S, Len(b)) = {j \in S : j < k}
    BY <2>1, <2>2 DEF Below
  <2>4. \A i \in U : i < k
    <3>1. Bounded(U)
      <4>1. Real(m.stage) /\ MAX \in Nat /\ l <= MAX
        BY <1>2, LimitFacts, SnapFields, DataStoreAssumption
      <4>2. QED
        BY <1>4, <4>1 DEF Bounded
    <3>2. MaxCount(U) \in 0 .. MAX /\ \A i \in U : i < MaxCount(U)
      BY <3>1, MaxCountFacts
    <3>3. PICK x \in Nat : x = MaxCount(U) /\ k >= x
      BY <1>4, <1>6, <3>2
    <3>4. \A i \in U : i < x
      BY <3>2, <3>3
    <3>5. QED
      BY <1>4, <2>1, <3>3, <3>4
  <2>5. \A i \in U \cup Below(S, Len(b)) : i + 1 \in 1 .. k
    BY <1>4, <1>5, <2>1, <2>3, <2>4
  <2>6. \A i \in U \cup Below(S, Len(b)) : b[i + 1] = v
    BY <2>2, <2>5
  <2>7. QED
    BY <1>1, <1>4, <1>6, <2>3, <2>6
<1>7. CASE ~Dynamic(m, S)
  <2>1. PICK r \in Nat : r = Source(m, S)
    <3>1. k \in 0 .. MAX
      OBVIOUS
    <3>2. QED
      BY <3>1, CopiedType
  <2>2. PICK g : g = Grown(m.stage.buf, r)
    OBVIOUS
  <2>3. PICK h \in Nat :
        /\ h = Len(b) /\ h = IF r > l THEN r ELSE l
        /\ \A i \in 1 .. h : b[i] = IF i - 1 \in S /\ i <= r THEN v ELSE g[i]
        /\ \A i \in 1 .. l : g[i] = m.stage.buf[i]
    <3>1. k \in 0 .. MAX
      OBVIOUS
    <3>2. /\ Len(Copied(m, S, v, k)) = IF r > l THEN r ELSE l
          /\ \A i \in 1 .. Len(Copied(m, S, v, k)) :
               Copied(m, S, v, k)[i] = IF i - 1 \in S /\ i <= r THEN v ELSE g[i]
      <4>1. /\ Len(Copied(m, S, v, k)) = IF Source(m, S) > Len(m.stage.buf) THEN Source(m, S) ELSE Len(m.stage.buf)
            /\ \A i \in 1 .. Len(Copied(m, S, v, k)) :
                 Copied(m, S, v, k)[i] = IF i - 1 \in S /\ i <= Source(m, S) THEN v
                                         ELSE Grown(m.stage.buf, Source(m, S))[i]
        BY <1>7, <3>1, CopiedType
      <4>2. QED
        BY <1>2, <2>1, <2>2, <4>1
    <3>3. \A i \in 1 .. l : g[i] = m.stage.buf[i]
      BY <1>2, <2>1, <2>2, GrownType
    <3>4. QED
      BY <1>1, <1>2, <2>1, <3>2, <3>3
  <2>4. PICK x \in Nat : x = MaxCount(S) /\ (Bounded(S) => \A i \in S : i < x)
    <3>1. MaxCount(S) \in 0 .. MAX /\ (Bounded(S) => \A i \in S : i < MaxCount(S))
      BY MaxCountFacts
    <3>2. QED
      BY <3>1
  <2>5. /\ ~Bounded(S) => c # 0 /\ r = c
        /\ Bounded(S) => r = IF c = 0 THEN x ELSE IF c < x THEN c ELSE x
    BY <1>3, <1>7, <2>1, <2>4 DEF Dynamic, Source, RESIZEABLE, Smaller
  <2>6. \A j \in S : (c # 0 => j < c) => j < r
    BY <1>5, <2>4, <2>5
  <2>7. ASSUME NEW j \in S PROVE j \in Below(S, h) <=> (c # 0 => j < c)
    <3>1. j \in Nat
      BY <1>5
    <3>2. CASE h = 0
      <4>1. r = 0
        BY <2>3, <3>2
      <4>2. ~(c # 0 => j < c)
        BY <2>6, <3>1, <4>1
      <4>3. c = 0 => j < r
        BY <2>6
      <4>4. QED
        BY <3>1, <4>1, <4>2, <4>3, <2>4, <2>5
    <3>3. CASE h # 0
      <4>1. j \in Below(S, h) <=> j < h
        BY <3>3 DEF Below
      <4>2. (c # 0 => j < c) => j < h
        BY <2>3, <2>6, <3>1
      <4>3. (j < h /\ c # 0) => j < c
        BY <1>3, <2>3, <2>4, <2>5, <3>1
      <4>4. QED
        BY <4>1, <4>2, <4>3
    <3>4. QED
      BY <3>2, <3>3
  <2>8. Below(S, h) = {j \in S : c # 0 => j < c}
    BY <2>7 DEF Below
  <2>9. ASSUME NEW i \in Below(S, h) PROVE b[i + 1] = v
    <3>1. i \in Nat /\ i \in S /\ i < r
      BY <1>5, <2>6, <2>8
    <3>2. PICK y \in 1 .. h : y = i + 1 /\ y - 1 \in S /\ y <= r
      BY <2>3, <3>1
    <3>3. b[y] = v
      BY <2>3, <3>2
    <3>4. QED
      BY <3>2, <3>3
  <2>10. ASSUME NEW i \in U, i \notin Below(S, h) PROVE b[i + 1] = m.stage.buf[i + 1]
    <3>1. i \in Nat /\ i < l /\ i < h /\ h # 0
      BY <1>4, <2>3
    <3>2. i \notin S
      BY <2>10, <3>1 DEF Below
    <3>3. i + 1 \in 1 .. h /\ i + 1 \in 1 .. l /\ i + 1 - 1 \notin S
      BY <3>1, <3>2
    <3>4. b[i + 1] = g[i + 1]
      BY <2>3, <3>3
    <3>5. QED
      BY <2>3, <3>3, <3>4
  <2>11. QED
    BY <1>1, <1>3, <1>4, <1>7, <2>3, <2>8, <2>9, <2>10
<1>8. QED
  BY <1>6, <1>7

(***************************************************************************)
(* Each way to stage does to the working copy what a store of it promises.  *)
(***************************************************************************)
SameButWorking(m, n) == n.count = m.count /\ Frozen(n) = Frozen(m)

LEMMA StagedPromised ==
  ASSUME NEW m \in MemberType, Sound(m), m.open.dir # "stage",
         NEW S \in SUBSET (0 .. MAX), NEW v \in Nat, v # Junk, NEW k \in 1 .. MAX,
         Dynamic(m, S) => k >= MaxCount(InUse(m))
  PROVE  SameButWorking(m, Staged(m, S, v, k)) /\ Working(Staged(m, S, v, k)) = StoredWorking(m, S, k, v)
<1>1. PICK s : s = [m.stage EXCEPT !.buf = Copied(m, S, v, k)]
  OBVIOUS
<1>2. /\ s \in Snaps /\ s.max = m.stage.max /\ s.staged = m.stage.staged /\ s.prot = m.stage.prot
      /\ s.buf = Copied(m, S, v, k) /\ Real(s)
      /\ \A i \in Below(S, Len(s.buf)) : Written(s, i)
      /\ m.count # 0 => Len(s.buf) <= m.count
  <2>1. Real(m.stage) /\ (m.count # 0 => Len(m.stage.buf) <= m.count)
    BY DEF Sound
  <2>2. LET n == [m.stage EXCEPT !.buf = Copied(m, S, v, k)] IN
        /\ n \in Snaps /\ n.max = m.stage.max /\ n.staged = m.stage.staged /\ n.prot = m.stage.prot
        /\ n.buf = Copied(m, S, v, k) /\ Real(n)
        /\ \A i \in Below(S, Len(n.buf)) : Written(n, i)
        /\ m.count # 0 => Len(n.buf) <= m.count
    BY <2>1, CopiedReal
  <2>3. QED
    BY <1>1, <2>2
<1>3. PICK B \in SUBSET (0 .. MAX) : B = Below(S, Len(s.buf))
  BY BelowType
<1>4. PICK a \in Snaps : a = AddAndFit(s, B)
  BY <1>2, FitTypes
<1>5. /\ a.staged = s.staged \cup B /\ a.prot = s.prot
      /\ \A i \in s.staged \cup s.prot \cup B : a.buf[i + 1] = s.buf[i + 1]
  <2>1. s.max # 0 => Len(s.buf) <= s.max
    BY <1>2, LimitFacts
  <2>2. QED
    BY <1>2, <1>3, <1>4, <2>1, FitExact
<1>6. Real(a)
  BY <1>2, <1>3, <1>4, FitReal
<1>7. PICK n : n = [m EXCEPT !.stage = a] /\ n = Staged(m, S, v, k)
  BY <1>1, <1>3, <1>4 DEF Staged
<1>8. /\ n.stage = a /\ n.count = m.count /\ n.committed = m.committed
      /\ InUse(n) = InUse(m) \cup B
  <2>1. n.stage = a /\ n.count = m.count /\ n.committed = m.committed
    BY <1>7, Restage
  <2>2. QED
    BY <1>2, <1>5, <2>1 DEF InUse
<1>9. Working(n) = [i \in InUse(m) \cup B |-> s.buf[i + 1]]
  <2>1. Working(n) = [i \in InUse(n) |-> n.stage.buf[i + 1]]
    BY <1>6, <1>8, WorkingReal
  <2>2. \A i \in InUse(m) \cup B : a.buf[i + 1] = s.buf[i + 1]
    BY <1>2, <1>5 DEF InUse
  <2>3. QED
    BY <1>8, <2>1, <2>2
<1>10. DOMAIN Working(m) = InUse(m) /\ \A i \in InUse(m) : Working(m)[i] = m.stage.buf[i + 1]
  BY LimitFacts, WorkingReal
<1>11. /\ Dynamic(m, S) => B = {j \in S : j < k} /\ \A i \in InUse(m) \cup B : s.buf[i + 1] = v
       /\ ~Dynamic(m, S) => /\ B = {j \in S : m.count # 0 => j < m.count}
                            /\ \A i \in B : s.buf[i + 1] = v
                            /\ \A i \in InUse(m) \ B : s.buf[i + 1] = m.stage.buf[i + 1]
  BY <1>2, <1>3, CopiedExact
<1>12. Dynamic(m, S) <=> m.count = 0 /\ MAX \in S
  BY DEF Dynamic, Bounded, RESIZEABLE
<1>13. Working(n) = StoredWorking(m, S, k, v)
  <2>1. CASE Dynamic(m, S)
    <3>1. StoredWorking(m, S, k, v) = [i \in InUse(m) \cup B |-> v]
      BY <1>10, <1>11, <1>12, <2>1 DEF StoredWorking
    <3>2. QED
      BY <1>9, <1>11, <2>1, <3>1
  <2>2. CASE ~Dynamic(m, S)
    <3>1. StoredWorking(m, S, k, v) = [i \in InUse(m) \cup B |-> IF i \in B THEN v ELSE Working(m)[i]]
      BY <1>10, <1>11, <1>12, <2>2 DEF StoredWorking
    <3>2. \A i \in InUse(m) \cup B : s.buf[i + 1] = IF i \in B THEN v ELSE Working(m)[i]
      BY <1>10, <1>11, <2>2
    <3>3. QED
      BY <1>9, <3>1, <3>2
  <2>3. QED
    BY <2>1, <2>2
<1>14. Frozen(n) = Frozen(m)
  BY <1>8 DEF Frozen, Own
<1>15. QED
  BY <1>7, <1>8, <1>13, <1>14 DEF SameButWorking

LEMMA StoredPromised ==
  ASSUME NEW m \in MemberType
  PROVE  SameButWorking(m, StoredStage(m)) /\ Working(StoredStage(m)) = Working(m)
         /\ StoredStage(m).stage.staged = {}
<1>1. PICK s \in Snaps : s = Protected(m.stage)
  BY StoredType
<1>2. s.buf = m.stage.buf /\ s.staged = {} /\ s.prot = m.stage.prot \cup m.stage.staged
  BY <1>1, MemberFields DEF Protected, Snaps
<1>3. PICK n : n = StoredStage(m) /\ n.stage = s /\ n.count = m.count /\ n.committed = m.committed
  <2>1. PICK n : n = [m EXCEPT !.stage = s]
    OBVIOUS
  <2>2. n.stage = s /\ n.count = m.count /\ n.committed = m.committed
    BY <2>1, Restage
  <2>3. n = StoredStage(m)
    BY <1>1, <2>1 DEF StoredStage
  <2>4. QED
    BY <2>2, <2>3
<1>4. InUse(n) = InUse(m)
  BY <1>2, <1>3 DEF InUse
<1>5. Working(n) = Working(m)
  BY <1>2, <1>3, <1>4 DEF Working, Content
<1>6. Frozen(n) = Frozen(m)
  BY <1>3 DEF Frozen, Own
<1>7. QED
  BY <1>2, <1>3, <1>5, <1>6 DEF SameButWorking

LEMMA StoresPromised ==
  ASSUME NEW m \in MemberType, Sound(m), m.open.dir # "stage",
         NEW S \in SUBSET (0 .. MAX), NEW v \in Nat, v # Junk, NEW k \in 1 .. MAX,
         Dynamic(m, S) => k >= MaxCount(InUse(m))
  PROVE  SameButWorking(m, Stores(m, S, v, k)) /\ Working(Stores(m, S, v, k)) = StoredWorking(m, S, k, v)
         /\ Stores(m, S, v, k).stage.staged = {}
<1>1. PICK n \in MemberType : n = Staged(m, S, v, k)
  <2>1. k \in 0 .. MAX
    OBVIOUS
  <2>2. QED
    BY <2>1, StagedType, OnlyStagedFacts
<1>2. SameButWorking(m, n) /\ Working(n) = StoredWorking(m, S, k, v)
  BY <1>1, StagedPromised
<1>3. SameButWorking(n, StoredStage(n)) /\ Working(StoredStage(n)) = Working(n) /\ StoredStage(n).stage.staged = {}
  BY StoredPromised
<1>4. QED
  BY <1>1, <1>2, <1>3 DEF Stores, SameButWorking

Constantly(B, v) == [i \in B |-> v]

\* Of a stage that was empty, all that is there afterwards is what was added.
LEMMA AddedPromised ==
  ASSUME NEW id, NEW x \in MemberType, NEW s \in Snaps, NEW B \in SUBSET (0 .. MAX), Replaced(id, x, s, B)
  PROVE  \E n : Becomes(id, n) /\ SameButWorking(x, n) /\ Working(n) = Constantly(B, writes + 1)
<1> DEFINE v == writes + 1
<1>1. /\ s.staged = {} /\ s.prot = {} /\ (s.max # 0 => Len(s.buf) <= s.max)
      /\ \A i \in B : Written(s, i) /\ s.buf[i + 1] = v
  BY DEF Replaced
<1>2. PICK a \in Snaps : a = AddAndFit(s, B)
  BY FitTypes
<1>3. Real(s)
  BY <1>1 DEF Real
<1>4. a.staged = B /\ a.prot = {} /\ \A i \in B : a.buf[i + 1] = s.buf[i + 1]
  <2>1. /\ AddAndFit(s, B).staged = s.staged \cup B /\ AddAndFit(s, B).prot = s.prot
        /\ \A i \in s.staged \cup s.prot \cup B : AddAndFit(s, B).buf[i + 1] = s.buf[i + 1]
    BY <1>1, <1>3, FitExact
  <2>2. QED
    BY <1>1, <1>2, <2>1
<1>5. Real(a)
  BY <1>1, <1>2, <1>3, FitReal
<1>6. PICK n : n = [x EXCEPT !.stage = a]
  OBVIOUS
<1>7. n.stage = a /\ n.count = x.count /\ n.committed = x.committed
  BY <1>6, Restage
<1>8. InUse(n) = B
  BY <1>4, <1>7 DEF InUse
<1>9. Working(n) = [i \in B |-> n.stage.buf[i + 1]]
  BY <1>5, <1>7, <1>8, WorkingReal
<1>10. Working(n) = [i \in B |-> v]
  BY <1>1, <1>4, <1>7, <1>9
<1>11. Frozen(n) = Frozen(x)
  BY <1>7 DEF Frozen, Own
<1>12. Becomes(id, n)
  BY <1>2, <1>6 DEF Replaced
<1>13. QED
  BY <1>7, <1>10, <1>11, <1>12 DEF SameButWorking, Constantly

-----------------------------------------------------------------------------
(* The steps of the promised store *)

LEMMA Shown ==
  /\ [id \in DOMAIN members |-> Content(members[id].stage, InUse(members[id]))]
       = [id \in DOMAIN members |-> Working(members[id])]
  /\ [id \in DOMAIN members |-> [t \in DOMAIN members[id].committed |->
                                   Content(members[id].committed[t], members[id].committed[t].prot)]]
       = [id \in DOMAIN members |-> Frozen(members[id])]
BY DEF Working, Frozen, Own

LEMMA StoresShown ==
  ASSUME NEW M \in SUBSET DOMAIN members, NEW S \in Subsets \cup {FULL}, NEW k \in Lengths, writes' = writes + 1
  PROVE  Promised!AfterStores(M, S, k)
           = [id \in DOMAIN members |-> IF id \in M THEN StoredWorking(members[id], S, k, writes + 1)
                                        ELSE Working(members[id])]
<1>1. PICK D : D = DOMAIN members
  OBVIOUS
<1>2. ASSUME NEW id \in D
      PROVE  Promised!Stored(id, S, k) = StoredWorking(members[id], S, k, writes + 1)
  BY <1>1 DEF Promised!Stored, StoredWorking, Working
<1>3. QED
  BY <1>1, <1>2 DEF Promised!AfterStores, Working

LEMMA StoreStep ==
  ASSUME NEW M \in SUBSET DOMAIN members, NEW S \in Subsets \cup {FULL}, NEW k \in Lengths,
         DOMAIN members' = DOMAIN members, writes' = writes + 1, timestamps' = timestamps,
         \A id \in DOMAIN members :
           /\ SameButWorking(members[id], members'[id])
           /\ Working(members'[id]) = IF id \in M THEN StoredWorking(members[id], S, k, writes + 1)
                                      ELSE Working(members[id])
  PROVE  Promised!Next
<1>1. PICK D : D = DOMAIN members
  OBVIOUS
<1>2. [id \in DOMAIN members' |-> Content(members'[id].stage, InUse(members'[id]))]
        = [id \in D |-> Working(members'[id])]
  BY <1>1 DEF Working
<1>3. Promised!AfterStores(M, S, k)
        = [id \in D |-> IF id \in M THEN StoredWorking(members[id], S, k, writes + 1) ELSE Working(members[id])]
  BY <1>1, StoresShown
<1>4. [id \in DOMAIN members' |-> members'[id].count] = [id \in DOMAIN members |-> members[id].count]
  BY DEF SameButWorking
<1>5. [id \in DOMAIN members' |-> [t \in DOMAIN members'[id].committed |->
                                   Content(members'[id].committed[t], members'[id].committed[t].prot)]]
       = [id \in DOMAIN members |-> [t \in DOMAIN members[id].committed |->
                                   Content(members[id].committed[t], members[id].committed[t].prot)]]
  BY DEF SameButWorking, Frozen, Own
<1>6. Promised!Store(M, S, k)
  BY <1>1, <1>2, <1>3, <1>4, <1>5 DEF Promised!Store
<1>7. QED
  BY <1>6 DEF Promised!Next

LEMMA StutterStep ==
  ASSUME DOMAIN members' = DOMAIN members, writes' = writes, timestamps' = timestamps,
         \A id \in DOMAIN members :
           SameButWorking(members[id], members'[id]) /\ Working(members'[id]) = Working(members[id])
  PROVE  UNCHANGED Promised!svars
<1>1. [id \in DOMAIN members' |-> Content(members'[id].stage, InUse(members'[id]))]
        = [id \in DOMAIN members |-> Content(members[id].stage, InUse(members[id]))]
  BY DEF Working
<1>2. [id \in DOMAIN members' |-> members'[id].count] = [id \in DOMAIN members |-> members[id].count]
  BY DEF SameButWorking
<1>3. [id \in DOMAIN members' |-> [t \in DOMAIN members'[id].committed |->
                                   Content(members'[id].committed[t], members'[id].committed[t].prot)]]
       = [id \in DOMAIN members |-> [t \in DOMAIN members[id].committed |->
                                   Content(members[id].committed[t], members[id].committed[t].prot)]]
  BY DEF SameButWorking, Frozen, Own
<1>4. QED
  BY <1>1, <1>2, <1>3 DEF Promised!svars

\* The steps of one member.
LEMMA OneStep ==
  ASSUME DInv, NEW id \in DOMAIN members, NEW n, Becomes(id, n), timestamps' = timestamps
  PROVE  /\ DOMAIN members' = DOMAIN members /\ members'[id] = n
         /\ \A x \in DOMAIN members \ {id} : members'[x] = members[x]
         /\ (writes' = writes /\ SameButWorking(members[id], n) /\ Working(n) = Working(members[id]))
              => UNCHANGED Promised!svars
         /\ \A S \in Subsets \cup {FULL}, k \in Lengths :
              (writes' = writes + 1 /\ SameButWorking(members[id], n)
                 /\ Working(n) = StoredWorking(members[id], S, k, writes + 1)) => Promised!Next
<1>1. DOMAIN members' = DOMAIN members /\ members'[id] = n /\ \A x \in DOMAIN members \ {id} : members'[x] = members[x]
  BY DEF Becomes, DInv, Typed
<1>2. \A m : SameButWorking(m, m)
  BY DEF SameButWorking
<1>3. ASSUME writes' = writes, SameButWorking(members[id], n), Working(n) = Working(members[id])
      PROVE  UNCHANGED Promised!svars
  <2>1. \A x \in DOMAIN members :
          SameButWorking(members[x], members'[x]) /\ Working(members'[x]) = Working(members[x])
    BY <1>1, <1>2, <1>3
  <2>2. QED
    BY <1>1, <1>3, <2>1, StutterStep
<1>4. ASSUME NEW S \in Subsets \cup {FULL}, NEW k \in Lengths, writes' = writes + 1,
             SameButWorking(members[id], n), Working(n) = StoredWorking(members[id], S, k, writes + 1)
      PROVE  Promised!Next
  <2>1. \A x \in DOMAIN members :
          /\ SameButWorking(members[x], members'[x])
          /\ Working(members'[x]) = IF x \in {id} THEN StoredWorking(members[x], S, k, writes + 1)
                                    ELSE Working(members[x])
    BY <1>1, <1>2, <1>4
  <2>2. {id} \in SUBSET DOMAIN members
    OBVIOUS
  <2>3. QED
    BY <1>1, <1>4, <2>1, <2>2, StoreStep
<1>5. QED
  BY <1>1, <1>3, <1>4

LEMMA NothingShown ==
  ASSUME NEW m, InUse(m) = {}, Own(m) = {}
  PROVE  Working(m) = Promised!Nothing /\ Frozen(m) = [t \in {} |-> Promised!Nothing]
BY DEF Working, Content, Frozen, Promised!Nothing

LEMMA CreateStep ==
  ASSUME DInv, NEW id \in Member, NEW shape \in Shapes[id], MemberCreate(id, shape[1], shape[2])
  PROVE  Promised!Next
<1> DEFINE n == shape[1]
<1>1. PICK m \in MemberType : /\ m = NewMember(shape[1], shape[2]) /\ m.count = n /\ m.stage = Snapshot(n)
                              /\ Own(m) = {}
  BY ShapeType, NewMemberFacts
<1>2. InUse(m) = {}
  BY <1>1 DEF InUse, Snapshot
<1>3. Working(m) = Promised!Nothing /\ Frozen(m) = [t \in {} |-> Promised!Nothing] /\ Frozen(m) = Promised!Nothing
  BY <1>1, <1>2, NothingShown DEF Promised!Nothing
<1>4. /\ id \notin DOMAIN members /\ DOMAIN members' = DOMAIN members \cup {id} /\ members'[id] = m
      /\ \A x \in DOMAIN members : members'[x] = members[x]
      /\ timestamps' = timestamps /\ writes' = writes
  BY <1>1 DEF MemberCreate, Groups
<1>5. PICK D : D = DOMAIN members
  OBVIOUS
<1>6. [x \in DOMAIN members' |-> members'[x].count]
        = [x \in D \cup {id} |-> IF x = id THEN n ELSE members[x].count]
  BY <1>1, <1>4, <1>5
<1>7. [x \in DOMAIN members' |-> Content(members'[x].stage, InUse(members'[x]))]
        = [x \in D \cup {id} |-> IF x = id THEN Promised!Nothing ELSE Working(members[x])]
  BY <1>3, <1>4, <1>5 DEF Working
<1>8. [x \in DOMAIN members' |-> [t \in DOMAIN members'[x].committed |->
                                   Content(members'[x].committed[t], members'[x].committed[t].prot)]]
        = [x \in D \cup {id} |-> IF x = id THEN Promised!Nothing ELSE Frozen(members[x])]
  BY <1>3, <1>4, <1>5 DEF Frozen, Own
<1>9. Promised!Create(id, n)
  <2>1. Promised!With([x \in DOMAIN members |-> members[x].count], id, n)
          = [x \in D \cup {id} |-> IF x = id THEN n ELSE members[x].count]
    BY <1>4, <1>5 DEF Promised!With
  <2>2. Promised!With([x \in DOMAIN members |-> Content(members[x].stage, InUse(members[x]))], id, Promised!Nothing)
          = [x \in D \cup {id} |-> IF x = id THEN Promised!Nothing ELSE Working(members[x])]
    BY <1>4, <1>5 DEF Promised!With, Working
  <2>3. Promised!With([x \in DOMAIN members |-> [t \in DOMAIN members[x].committed |->
                          Content(members[x].committed[t], members[x].committed[t].prot)]], id, Promised!Nothing)
          = [x \in D \cup {id} |-> IF x = id THEN Promised!Nothing ELSE Frozen(members[x])]
    BY <1>4, <1>5 DEF Promised!With, Frozen, Own
  <2>4. QED
    BY <1>4, <1>5, <1>6, <1>7, <1>8, <2>1, <2>2, <2>3 DEF Promised!Create
<1>10. n \in {s[1] : s \in UNION {Shapes[x] : x \in Member}}
  OBVIOUS
<1>11. QED
  BY <1>9, <1>10 DEF Promised!Next

-----------------------------------------------------------------------------
(* The order of creation lists each member once. *)

Ordered ==
  /\ order \in Seq(Member) /\ \A i, j \in DOMAIN order : order[i] = order[j] => i = j
  /\ ToSet(order) = DOMAIN members

LEMMA RemoveAtFacts ==
  ASSUME NEW T, NEW s \in Seq(T), NEW i \in DOMAIN s
  PROVE  /\ RemoveAt(s, i) \in Seq(T) /\ Len(RemoveAt(s, i)) = Len(s) - 1
         /\ \A j \in 1 .. Len(s) - 1 : RemoveAt(s, i)[j] = IF j < i THEN s[j] ELSE s[j + 1]
<1>1. PICK l \in Nat : l = Len(s) /\ DOMAIN s = 1 .. l /\ i \in 1 .. l
  OBVIOUS
<1>2. PICK a \in Seq(T) : a = SubSeq(s, 1, i - 1) /\ Len(a) = i - 1 /\ \A j \in 1 .. i - 1 : a[j] = s[j]
  <2>1. \A j \in 1 .. i - 1 : s[j] \in T
    BY <1>1
  <2>2. SubSeq(s, 1, i - 1) \in Seq(T) /\ Len(SubSeq(s, 1, i - 1)) = i - 1
    BY <1>1, <2>1
  <2>3. \A j \in 1 .. i - 1 : SubSeq(s, 1, i - 1)[j] = s[j]
    BY <1>1
  <2>4. QED
    BY <2>2, <2>3
<1>3. PICK b \in Seq(T) : b = SubSeq(s, i + 1, l) /\ Len(b) = l - i /\ \A j \in 1 .. l - i : b[j] = s[i + j]
  <2>1. \A j \in i + 1 .. l : s[j] \in T
    BY <1>1
  <2>2. SubSeq(s, i + 1, l) \in Seq(T) /\ Len(SubSeq(s, i + 1, l)) = l - i
    BY <1>1, <2>1
  <2>3. \A j \in 1 .. l - i : SubSeq(s, i + 1, l)[j] = s[i + j]
    BY <1>1
  <2>4. QED
    BY <2>2, <2>3
<1>4. RemoveAt(s, i) = a \o b
  BY <1>1, <1>2, <1>3 DEF RemoveAt
<1>5. a \o b \in Seq(T) /\ Len(a \o b) = l - 1
  BY SMTT(30), <1>1, <1>2, <1>3
<1>6. ASSUME NEW j \in 1 .. l - 1 PROVE (a \o b)[j] = IF j < i THEN s[j] ELSE s[j + 1]
  <2>1. CASE j < i
    BY SMTT(30), <1>1, <1>2, <1>3, <2>1
  <2>2. CASE ~(j < i)
    <3>1. (a \o b)[j] = b[j - (i - 1)]
      <4>1. Len(a) = i - 1 /\ Len(b) = l - i /\ i \in Nat /\ j \in Nat /\ j >= i /\ j <= l - 1
        BY SMTT(30), <1>1, <1>2, <1>3, <2>2
      <4>2. j \in Len(a) + 1 .. Len(a) + Len(b)
        BY <4>1
      <4>3. (a \o b)[j] = b[j - Len(a)]
        BY <4>2
      <4>4. QED
        BY <4>1, <4>3
    <3>2. j - (i - 1) \in 1 .. l - i /\ i + (j - (i - 1)) = j + 1
      BY <1>1, <2>2
    <3>3. QED
      BY <1>3, <2>2, <3>1, <3>2
  <2>3. QED
    BY <2>1, <2>2
<1>7. QED
  BY <1>1, <1>4, <1>5, <1>6

LEMMA CreateOrdered ==
  ASSUME DInv, Ordered, NEW id \in Member, NEW n, NEW ser, MemberCreate(id, n, ser)
  PROVE  Ordered'
<1>1. /\ DOMAIN members' = DOMAIN members \cup {id} /\ id \notin DOMAIN members
      /\ order' = Append(order, id)
  BY DEF MemberCreate
<1>2. PICK l \in Nat : l = Len(order) /\ DOMAIN order = 1 .. l /\ order \in Seq(Member)
  BY DEF Ordered
<1>3. /\ order' \in Seq(Member) /\ DOMAIN order' = 1 .. l + 1 /\ order'[l + 1] = id
      /\ \A i \in 1 .. l : order'[i] = order[i]
  BY <1>1, <1>2
<1>4. \A i \in 1 .. l : order[i] \in DOMAIN members
  BY <1>2 DEF Ordered, ToSet
<1>5. \A i, j \in DOMAIN order' : order'[i] = order'[j] => i = j
  <2>1. \A i \in 1 .. l + 1 : i # l + 1 => i \in 1 .. l
    BY <1>2
  <2>2. \A i \in 1 .. l : order'[i] # id
    BY <1>1, <1>3, <1>4
  <2>3. QED
    BY <1>2, <1>3, <2>1, <2>2 DEF Ordered
<1>6. ToSet(order') = DOMAIN members'
  <2>1. \A x : x \in ToSet(order') <=> (x = id \/ \E i \in 1 .. l : x = order[i])
    <3>1. \A i : i \in 1 .. l + 1 <=> (i = l + 1 \/ i \in 1 .. l)
      BY <1>2
    <3>2. QED
      BY <1>3, <3>1 DEF ToSet
  <2>2. QED
    BY <1>1, <1>2, <2>1 DEF Ordered, ToSet
<1>7. QED
  BY <1>3, <1>5, <1>6 DEF Ordered

LEMMA DeleteOrdered ==
  ASSUME Ordered, NEW id, MemberDelete(id)
  PROVE  Ordered'
<1>1. DOMAIN members' = DOMAIN members \ {id}
  BY DEF MemberDelete
<1>2. PICK i \in DOMAIN order : order[i] = id /\ order' = RemoveAt(order, i)
  BY DEF MemberDelete
<1>3. PICK l \in Nat : l = Len(order) /\ DOMAIN order = 1 .. l /\ order \in Seq(Member) /\ i \in 1 .. l
  BY <1>2 DEF Ordered
<1>4. /\ order' \in Seq(Member) /\ DOMAIN order' = 1 .. l - 1
      /\ \A j \in 1 .. l - 1 : order'[j] = IF j < i THEN order[j] ELSE order[j + 1]
  <2>1. /\ RemoveAt(order, i) \in Seq(Member) /\ Len(RemoveAt(order, i)) = Len(order) - 1
        /\ \A j \in 1 .. Len(order) - 1 : RemoveAt(order, i)[j] = IF j < i THEN order[j] ELSE order[j + 1]
    BY <1>3, RemoveAtFacts
  <2>2. QED
    BY <1>2, <1>3, <2>1
<1>5. \A j, k \in 1 .. l : order[j] = order[k] => j = k
  BY <1>3 DEF Ordered
<1>6. \A j, k \in DOMAIN order' : order'[j] = order'[k] => j = k
  <2>1. ASSUME NEW j \in 1 .. l - 1, NEW k \in 1 .. l - 1, order'[j] = order'[k] PROVE j = k
    <3>1. PICK x \in 1 .. l, y \in 1 .. l : /\ x = (IF j < i THEN j ELSE j + 1) /\ order'[j] = order[x]
                                            /\ y = (IF k < i THEN k ELSE k + 1) /\ order'[k] = order[y]
      BY <1>3, <1>4
    <3>2. x = y
      BY <1>5, <2>1, <3>1
    <3>3. QED
      BY <1>3, <3>1, <3>2
  <2>2. QED
    BY <1>4, <2>1
<1>7. ToSet(order') = DOMAIN members'
  <2>1. ASSUME NEW j \in 1 .. l - 1 PROVE order'[j] \in ToSet(order) \ {id}
    <3>1. PICK x \in 1 .. l : x = (IF j < i THEN j ELSE j + 1) /\ order'[j] = order[x] /\ x # i
      BY <1>3, <1>4
    <3>2. QED
      BY <1>2, <1>3, <1>5, <3>1 DEF ToSet
  <2>2. ASSUME NEW x \in 1 .. l, x # i PROVE \E j \in 1 .. l - 1 : order'[j] = order[x]
    <3>1. PICK j \in 1 .. l - 1 : x = IF j < i THEN j ELSE j + 1
      <4>1. CASE x < i
        BY <1>3, <4>1
      <4>2. CASE ~(x < i)
        <5>1. x - 1 \in 1 .. l - 1 /\ ~(x - 1 < i) /\ x = x - 1 + 1
          BY <1>3, <2>2, <4>2
        <5>2. QED
          BY <5>1
      <4>3. QED
        BY <4>1, <4>2
    <3>2. QED
      BY <1>4, <3>1
  <2>3. ToSet(order') = ToSet(order) \ {id}
    <3>1. ToSet(order') \subseteq ToSet(order) \ {id}
      BY <1>4, <2>1 DEF ToSet
    <3>2. ASSUME NEW y \in ToSet(order) \ {id} PROVE y \in ToSet(order')
      <4>1. PICK x \in 1 .. l : order[x] = y /\ x # i
        BY <1>2, <1>3 DEF ToSet
      <4>2. PICK j \in 1 .. l - 1 : order'[j] = y
        BY <2>2, <4>1
      <4>3. QED
        BY <1>4, <4>2 DEF ToSet
    <3>3. QED
      BY <3>1, <3>2
  <2>4. QED
    BY <1>1, <2>3 DEF Ordered
<1>8. QED
  BY <1>4, <1>6, <1>7 DEF Ordered

LEMMA KeptOrdered ==
  ASSUME Ordered, order' = order, DOMAIN members' = DOMAIN members
  PROVE  Ordered'
BY DEF Ordered, ToSet

LEMMA NextOrdered ==
  ASSUME DInv, Ordered, [Next]_vars
  PROVE  Ordered'
<1>1. ASSUME NEW id, NEW n, Becomes(id, n), order' = order PROVE Ordered'
  <2>1. DOMAIN members' = DOMAIN members
    BY <1>1 DEF Becomes, DInv, Typed
  <2>2. QED
    BY <1>1, <2>1, KeptOrdered
<1>2. ASSUME Abort PROVE Ordered'
  <2>1. DOMAIN members' = DOMAIN members /\ order' = order
    BY <1>2 DEF Abort
  <2>2. QED
    BY <2>1, KeptOrdered
<1>3. ASSUME NEW current, GroupCommit(current), order' = order PROVE Ordered'
  <2>1. DOMAIN members' = DOMAIN members
    BY <1>3 DEF GroupCommit
  <2>2. QED
    BY <1>3, <2>1, KeptOrdered
<1>4. ASSUME NEW ids, NEW S, NEW k, members' = AfterStores(ids, S, k), order' = order PROVE Ordered'
  <2>1. DOMAIN members' = DOMAIN members
    BY <1>4 DEF AfterStores
  <2>2. QED
    BY <1>4, <2>1, KeptOrdered
<1>5. ASSUME NEW id, NEW n, NEW ser, MemberDefine(id, n, ser) \/ MemberAttrSet(id, n)
      PROVE  Ordered'
  BY <1>1, <1>5 DEF MemberDefine, MemberAttrSet
<1>6. ASSUME NEW S, NEW k,
             \/ \E ids : MemberStore(ids, S, k)
             \/ Checkpoint(S, k) \/ \E id : MemberStage(id, S, k)
      PROVE  Ordered'
  <2>1. CASE \E ids : MemberStore(ids, S, k)
    BY <1>2, <1>4, <2>1 DEF MemberStore, Writes
  <2>2. CASE Checkpoint(S, k)
    BY <1>2, <1>3, <1>4, <2>2 DEF Checkpoint, Writes
  <2>3. CASE \E id : MemberStage(id, S, k)
    BY <1>1, <1>2, <2>3 DEF MemberStage, Writes
  <2>4. QED
    BY <1>6, <2>1, <2>2, <2>3
<1>7. ASSUME NEW id, \/ MemberStorePrestaged(id) \/ MemberStageBegin(id) \/ MemberLoadEnd(id)
                     \/ MemberLoadBegin(id, LATEST)
      PROVE  Ordered'
  BY <1>1, <1>7 DEF MemberStorePrestaged, MemberStageBegin, MemberLoadEnd, MemberLoadBegin
<1>8. ASSUME NEW id, NEW S, MemberStageInplace(id, S) PROVE Ordered'
  <2>1. Abort \/ (order' = order /\ \E n : Becomes(id, n))
    BY <1>8 DEF MemberStageInplace, Writes
  <2>2. QED
    BY <1>1, <1>2, <2>1
<1>9. ASSUME NEW id, NEW k, MemberStageEnd(id, k) PROVE Ordered'
  <2>1. Abort \/ (order' = order /\ \E n : Becomes(id, n))
    BY <1>9 DEF MemberStageEnd, Writes
  <2>2. QED
    BY <1>1, <1>2, <2>1
<1>10. ASSUME Commit PROVE Ordered'
  BY <1>3, <1>10, KeptOrdered DEF Commit
<1>11. ASSUME GroupCreate \/ \E t \in timestamps : SnapshotDelete(t) PROVE Ordered'
  <2>1. DOMAIN members' = DOMAIN members /\ order' = order
    BY <1>11 DEF GroupCreate, SnapshotDelete
  <2>2. QED
    BY <2>1, KeptOrdered
<1>12. ASSUME GroupDelete PROVE Ordered'
  <2>1. order' = << >> /\ DOMAIN members' = {}
    BY <1>12 DEF GroupDelete
  <2>2. QED
    BY <2>1 DEF Ordered, ToSet
<1>13. ASSUME UNCHANGED vars PROVE Ordered'
  BY <1>13, KeptOrdered DEF vars
<1>14. ASSUME Next PROVE Ordered'
  <2>1. ASSUME NEW id \in Member, NEW shape \in Shapes[id],
               \/ MemberCreate(id, shape[1], shape[2]) \/ MemberDefine(id, shape[1], shape[2])
               \/ MemberAttrSet(id, shape[1])
        PROVE  Ordered'
    BY <1>5, <2>1, CreateOrdered
  <2>2. ASSUME Staging PROVE Ordered'
    BY <1>6, <2>2 DEF Staging
  <2>3. ASSUME NEW id \in Member,
               \/ MemberDelete(id) \/ MemberStorePrestaged(id) \/ MemberStageBegin(id) \/ MemberLoadEnd(id)
               \/ \E S \in Subsets : Exists(id) /\ MemberStageInplace(id, S)
               \/ \E k \in Lengths : Exists(id) /\ MemberStageEnd(id, k)
               \/ MemberLoadBegin(id, LATEST)
        PROVE  Ordered'
    BY <1>7, <1>8, <1>9, <2>3, DeleteOrdered
  <2>4. QED
    BY <1>10, <1>11, <1>12, <1>14, <2>1, <2>2, <2>3 DEF Next
<1>15. QED
  BY <1>13, <1>14

-----------------------------------------------------------------------------
(* The calls on one member *)

LEMMA SettingStep ==
  ASSUME DInv, NEW id \in Member, NEW shape \in Shapes[id],
         MemberAttrSet(id, shape[1]) \/ MemberDefine(id, shape[1], shape[2])
  PROVE  Promised!Next \/ UNCHANGED Promised!svars
<1>1. PICK n : n = shape[1] /\ n \in {s[1] : s \in UNION {Shapes[x] : x \in Member}}
  OBVIOUS
<1>2. id \in DOMAIN members /\ writes' = writes /\ timestamps' = timestamps /\ CountAllowed(members[id], n)
  BY <1>1 DEF MemberAttrSet, MemberDefine, Free, Exists, Groups
<1>3. PICK m \in MemberType : m = members[id]
  BY <1>2, OneOf
<1>4. PICK x : Becomes(id, x) /\ x.count = n /\ x.stage = m.stage /\ x.committed = m.committed
  <2>1. \/ Becomes(id, [m EXCEPT !.count = n])
        \/ Becomes(id, [m EXCEPT !.count = n, !.ser = shape[2]])
    BY <1>1, <1>3 DEF MemberAttrSet, MemberDefine
  <2>2. /\ [m EXCEPT !.count = n].count = n /\ [m EXCEPT !.count = n].stage = m.stage
        /\ [m EXCEPT !.count = n].committed = m.committed
    BY DEF MemberType
  <2>3. /\ [m EXCEPT !.count = n, !.ser = shape[2]].count = n
        /\ [m EXCEPT !.count = n, !.ser = shape[2]].stage = m.stage
        /\ [m EXCEPT !.count = n, !.ser = shape[2]].committed = m.committed
    BY DEF MemberType
  <2>4. QED
    BY <2>1, <2>2, <2>3
<1>5. Working(x) = Working(m) /\ Frozen(x) = Frozen(m)
  BY <1>4 DEF Working, Frozen, Own, InUse
<1>6. CASE n = m.count
  <2>1. SameButWorking(m, x)
    BY <1>4, <1>5, <1>6 DEF SameButWorking
  <2>2. QED
    BY <1>2, <1>3, <1>4, <1>5, <2>1, OneStep
<1>7. CASE n # m.count
  <2>1. Working(m) = Promised!Nothing /\ Frozen(m) = Promised!Nothing
    <3>1. InUse(m) = {} /\ Own(m) = {}
      BY <1>2, <1>3, <1>7 DEF CountAllowed, HasData, Own
    <3>2. QED
      BY <3>1, NothingShown DEF Promised!Nothing
  <2>2. /\ DOMAIN members' = DOMAIN members /\ members'[id] = x
        /\ \A y \in DOMAIN members \ {id} : members'[y] = members[y]
    BY <1>2, <1>4, OneStep
  <2>3. PICK D : D = DOMAIN members
    OBVIOUS
  <2>4. [y \in DOMAIN members' |-> members'[y].count]
          = [y \in D \cup {id} |-> IF y = id THEN n ELSE members[y].count]
    BY <1>2, <1>4, <2>2, <2>3
  <2>5. [y \in DOMAIN members' |-> Content(members'[y].stage, InUse(members'[y]))]
          = [y \in DOMAIN members |-> Content(members[y].stage, InUse(members[y]))]
    <3>1. \A y \in DOMAIN members : Working(members'[y]) = Working(members[y])
      BY <1>3, <1>5, <2>2
    <3>2. QED
      BY <2>2, <3>1 DEF Working
  <2>6. [y \in DOMAIN members' |-> [t \in DOMAIN members'[y].committed |->
                                   Content(members'[y].committed[t], members'[y].committed[t].prot)]]
          = [y \in DOMAIN members |-> [t \in DOMAIN members[y].committed |->
                                   Content(members[y].committed[t], members[y].committed[t].prot)]]
    <3>1. \A y \in DOMAIN members : Frozen(members'[y]) = Frozen(members[y])
      BY <1>3, <1>5, <2>2
    <3>2. QED
      BY <2>2, <3>1 DEF Frozen, Own
  <2>7. Promised!Resize(id, n)
    <3>1. Promised!With([y \in DOMAIN members |-> members[y].count], id, n)
            = [y \in D \cup {id} |-> IF y = id THEN n ELSE members[y].count]
      BY <1>2, <2>3 DEF Promised!With
    <3>2. Content(members[id].stage, InUse(members[id])) = Promised!Nothing
      BY <1>3, <2>1 DEF Working
    <3>3. [t \in DOMAIN members[id].committed |->
             Content(members[id].committed[t], members[id].committed[t].prot)] = Promised!Nothing
      BY <1>3, <2>1 DEF Frozen, Own
    <3>4. QED
      BY <1>2, <2>4, <2>5, <2>6, <3>1, <3>2, <3>3 DEF Promised!Resize
  <2>8. QED
    BY <1>1, <2>7 DEF Promised!Next
<1>8. QED
  BY <1>6, <1>7

LEMMA DeleteStep ==
  ASSUME DInv, NEW id \in Member, MemberDelete(id)
  PROVE  Promised!Next
<1>1. /\ DOMAIN members' = DOMAIN members \ {id} /\ timestamps' = timestamps /\ writes' = writes
      /\ \A x \in DOMAIN members \ {id} : members'[x] = members[x]
  BY DEF MemberDelete, Groups
<1>2. PICK D : D = DOMAIN members
  OBVIOUS
<1>3. [x \in DOMAIN members' |-> members'[x].count] = [x \in D \ {id} |-> members[x].count]
  BY <1>1, <1>2
<1>4. [x \in DOMAIN members' |-> Content(members'[x].stage, InUse(members'[x]))]
        = [x \in D \ {id} |-> Working(members[x])]
  BY <1>1, <1>2 DEF Working
<1>5. [x \in DOMAIN members' |-> [t \in DOMAIN members'[x].committed |->
                                 Content(members'[x].committed[t], members'[x].committed[t].prot)]]
        = [x \in D \ {id} |-> Frozen(members[x])]
  BY <1>1, <1>2 DEF Frozen, Own
<1>6. Promised!Drop(id)
  <2>1. Promised!Without([x \in DOMAIN members |-> members[x].count], id) = [x \in D \ {id} |-> members[x].count]
    BY <1>2 DEF Promised!Without
  <2>2. Promised!Without([x \in DOMAIN members |-> Content(members[x].stage, InUse(members[x]))], id)
          = [x \in D \ {id} |-> Working(members[x])]
    BY <1>2 DEF Promised!Without, Working
  <2>3. Promised!Without([x \in DOMAIN members |-> [t \in DOMAIN members[x].committed |->
                            Content(members[x].committed[t], members[x].committed[t].prot)]], id)
          = [x \in D \ {id} |-> Frozen(members[x])]
    BY <1>2 DEF Promised!Without, Frozen, Own
  <2>4. QED
    BY <1>1, <1>3, <1>4, <1>5, <2>1, <2>2, <2>3 DEF Promised!Drop
<1>7. QED
  BY <1>6 DEF Promised!Next

LEMMA StageStep ==
  ASSUME Obedient, DInv, SInv, NEW id, NEW S \in Subsets, NEW k \in Lengths, MemberStage(id, S, k)
  PROVE  Promised!Next
<1>1. PICK m \in MemberType : m = members[id] /\ Sound(m) /\ m.open.dir # "stage" /\ id \in DOMAIN members
  BY FreeFacts DEF MemberStage
<1>2. Dynamic(m, S) => k >= MaxCount(InUse(m))
  BY <1>1, InputFacts DEF MemberStage, CanGrow
<1>3. PICK v \in Nat : v = writes + 1 /\ v # Junk
  BY InputFacts
<1>4. S \in SUBSET (0 .. MAX) /\ k \in 1 .. MAX
  BY SubsetTypes, InputFacts
<1>5. StageAsserts(m, S, v, k)
  BY <1>1, <1>2, <1>3, <1>4, StagedSound
<1>6. Becomes(id, Staged(m, S, v, k)) /\ timestamps' = timestamps /\ writes' = writes + 1
  BY <1>1, <1>3, <1>5 DEF MemberStage, Writes, Groups
<1>7. SameButWorking(m, Staged(m, S, v, k)) /\ Working(Staged(m, S, v, k)) = StoredWorking(m, S, k, v)
  BY <1>1, <1>2, <1>3, <1>4, StagedPromised
<1>8. QED
  BY <1>1, <1>3, <1>6, <1>7, OneStep

LEMMA PrestagedStep ==
  ASSUME DInv, NEW id, MemberStorePrestaged(id)
  PROVE  UNCHANGED Promised!svars
<1>1. /\ id \in DOMAIN members /\ Becomes(id, StoredStage(members[id]))
      /\ timestamps' = timestamps /\ writes' = writes
  BY DEF MemberStorePrestaged, Free, Exists, Groups
<1>2. SameButWorking(members[id], StoredStage(members[id])) /\ Working(StoredStage(members[id])) = Working(members[id])
  BY <1>1, OneOf, StoredPromised
<1>3. QED
  BY <1>1, <1>2, OneStep

LEMMA AfterStoresPromised ==
  ASSUME Obedient, DInv, SInv, NEW ids, NEW S \in Subsets, NEW k \in Lengths, CanStore(ids, S, k)
  PROVE  /\ ToSet(ids) \in SUBSET DOMAIN members /\ StoresAssert(ids, S, k)
         /\ DOMAIN AfterStores(ids, S, k) = DOMAIN members
         /\ \A id \in DOMAIN members :
              /\ SameButWorking(members[id], AfterStores(ids, S, k)[id])
              /\ Working(AfterStores(ids, S, k)[id])
                   = IF id \in ToSet(ids) THEN StoredWorking(members[id], S, k, writes + 1) ELSE Working(members[id])
              /\ id \in ToSet(ids) => AfterStores(ids, S, k)[id].stage.staged = {}
<1>1. ToSet(ids) \in SUBSET DOMAIN members
  BY FreeFacts DEF CanStore
<1>2. S \in SUBSET (0 .. MAX)
  BY SubsetTypes
<1>3. StoresAssert(ids, S, k)
  BY <1>1, <1>2, AfterStoresSound
<1>4. PICK v \in Nat : v = writes + 1 /\ v # Junk
  BY InputFacts
<1>5. /\ DOMAIN AfterStores(ids, S, k) = DOMAIN members
      /\ \A id \in DOMAIN members :
           AfterStores(ids, S, k)[id] = IF id \in ToSet(ids) THEN Stores(members[id], S, v, k) ELSE members[id]
  BY <1>4 DEF AfterStores
<1>6. ASSUME NEW id \in ToSet(ids)
      PROVE  /\ SameButWorking(members[id], Stores(members[id], S, v, k))
             /\ Working(Stores(members[id], S, v, k)) = StoredWorking(members[id], S, k, v)
             /\ Stores(members[id], S, v, k).stage.staged = {}
  <2>1. PICK m \in MemberType : m = members[id] /\ Sound(m) /\ m.open.dir # "stage"
    BY FreeFacts DEF CanStore
  <2>2. Dynamic(m, S) => k >= MaxCount(InUse(m))
    BY <2>1, InputFacts DEF CanStore, CanGrow
  <2>3. k \in 1 .. MAX
    BY InputFacts
  <2>4. QED
    BY <1>2, <1>4, <2>1, <2>2, <2>3, StoresPromised
<1>7. \A m : SameButWorking(m, m)
  BY DEF SameButWorking
<1>8. QED
  BY <1>1, <1>3, <1>4, <1>5, <1>6, <1>7

LEMMA MemberStoreStep ==
  ASSUME Obedient, DInv, SInv, NEW ids, NEW S \in Subsets, NEW k \in Lengths, MemberStore(ids, S, k)
  PROVE  Promised!Next
<1>1. PICK reached : reached = Reached(ids, S) /\ CanStore(reached, S, k)
  BY DEF MemberStore
<1>2. PICK f : f = AfterStores(reached, S, k)
  OBVIOUS
<1>3. PICK M \in SUBSET DOMAIN members :
        /\ M = ToSet(reached) /\ StoresAssert(reached, S, k) /\ DOMAIN f = DOMAIN members
        /\ \A id \in DOMAIN members :
             /\ SameButWorking(members[id], f[id])
             /\ Working(f[id]) = IF id \in M THEN StoredWorking(members[id], S, k, writes + 1) ELSE Working(members[id])
  BY <1>1, <1>2, AfterStoresPromised
<1>4. members' = f /\ writes' = writes + 1 /\ timestamps' = timestamps
  BY <1>1, <1>2, <1>3 DEF MemberStore, Writes, Groups
<1>5. QED
  BY <1>3, <1>4, StoreStep

LEMMA InplaceStep ==
  ASSUME Obedient, DInv, SInv, NEW id, NEW S \in Subsets, Exists(id), MemberStageInplace(id, S)
  PROVE  Promised!Next
<1>1. S \in SUBSET (0 .. MAX)
  BY SubsetTypes
<1>2. PICK m \in MemberType : m = members[id] /\ id \in DOMAIN members /\ m.count # 0 /\ InUse(m) = {} /\ Sound(m)
  BY <1>1, InplaceFacts, OneOf DEF SInv
<1>3. PICK s \in Snaps, B \in SUBSET (0 .. MAX) : Replaced(id, m, s, B) /\ B = {i \in S : i < m.count}
  BY <1>1, <1>2, InplaceFacts
<1>4. writes' = writes + 1 /\ timestamps' = timestamps
  <2>1. aborted' = aborted
    BY <1>1, InplaceFacts
  <2>2. QED
    BY <2>1 DEF MemberStageInplace, Writes, Abort, Groups
<1>5. PICK n : Becomes(id, n) /\ SameButWorking(m, n) /\ Working(n) = Constantly(B, writes + 1)
  BY <1>3, AddedPromised
<1>6. PICK k \in Lengths : TRUE
  BY DataStoreAssumption
<1>7. Working(n) = StoredWorking(m, S, k, writes + 1)
  <2>1. DOMAIN Working(m) = {}
    BY <1>2, WorkingReal, LimitFacts
  <2>2. {j \in S : m.count # 0 => j < m.count} = B
    BY <1>2, <1>3
  <2>3. StoredWorking(m, S, k, writes + 1) = [i \in {} \cup B |-> IF i \in B THEN writes + 1 ELSE Working(m)[i]]
    BY <1>2, <2>1, <2>2 DEF StoredWorking
  <2>4. QED
    BY <1>5, <2>3 DEF Constantly
<1>8. QED
  BY <1>2, <1>4, <1>5, <1>7, OneStep

\* An open serializer shows nothing of what it writes.
LEMMA BeginStep ==
  ASSUME Obedient, DInv, SInv, NEW id, MemberStageBegin(id) \/ MemberLoadBegin(id, LATEST) \/ MemberLoadEnd(id)
  PROVE  UNCHANGED Promised!svars
<1>1. id \in DOMAIN members /\ writes' = writes /\ timestamps' = timestamps
  BY DEF MemberStageBegin, MemberLoadBegin, MemberLoadEnd, CanOpen, Free, Exists, Groups
<1>2. PICK m \in MemberType : m = members[id]
  BY <1>1, OneOf
<1>3. ASSUME NEW o, Becomes(id, [m EXCEPT !.open = o])
      PROVE  UNCHANGED Promised!svars
  <2>1. PICK n : n = [m EXCEPT !.open = o]
    OBVIOUS
  <2>2. n.count = m.count /\ n.stage = m.stage /\ n.committed = m.committed
    BY <2>1 DEF MemberType
  <2>3. SameButWorking(m, n) /\ Working(n) = Working(m)
    BY <2>2 DEF SameButWorking, Frozen, Own, Working, InUse
  <2>4. QED
    BY <1>1, <1>2, <1>3, <2>1, <2>3, OneStep
<1>4. CASE MemberStageBegin(id)
  <2>1. InUse(m) = {}
    BY <1>2, <1>4, InputFacts DEF MemberStageBegin
  <2>2. PICK n : n = [m EXCEPT !.stage.buf = Filled(m.count, Junk), !.open = [dir |-> "stage", at |-> NoTime]]
    OBVIOUS
  <2>3. n.count = m.count /\ n.committed = m.committed /\ InUse(n) = {}
    <3>1. n.count = m.count /\ n.committed = m.committed
      BY <2>2 DEF MemberType
    <3>2. n.stage.staged = m.stage.staged /\ n.stage.prot = m.stage.prot
      BY <2>2 DEF MemberType, Snaps
    <3>3. QED
      BY <2>1, <3>1, <3>2 DEF InUse
  <2>4. SameButWorking(m, n) /\ Working(n) = Working(m)
    BY <2>1, <2>3 DEF SameButWorking, Frozen, Own, Working, Content
  <2>5. Becomes(id, n)
    BY <1>2, <1>4, <2>2 DEF MemberStageBegin
  <2>6. QED
    BY <1>1, <1>2, <2>4, <2>5, OneStep
<1>5. CASE MemberLoadBegin(id, LATEST)
  BY <1>2, <1>3, <1>5 DEF MemberLoadBegin
<1>6. CASE MemberLoadEnd(id)
  BY <1>2, <1>3, <1>6 DEF MemberLoadEnd
<1>7. QED
  BY <1>4, <1>5, <1>6

LEMMA StageEndStep ==
  ASSUME Obedient, DInv, SInv, NEW id, NEW k \in Lengths, MemberStageEnd(id, k)
  PROVE  Promised!Next
<1>1. PICK m \in MemberType : m = members[id] /\ id \in DOMAIN members /\ InUse(m) = {} /\ Sound(m)
  BY StageEndFacts, OneOf DEF SInv
<1>2. PICK x \in MemberType, s \in Snaps, B \in SUBSET (0 .. MAX) :
        /\ Replaced(id, x, s, B) /\ x.count = m.count /\ x.committed = m.committed
        /\ B = 0 .. (IF m.count = 0 THEN k ELSE m.count) - 1
  BY <1>1, StageEndFacts
<1>3. writes' = writes + 1 /\ timestamps' = timestamps
  <2>1. aborted' = aborted
    BY StageEndFacts
  <2>2. QED
    BY <2>1 DEF MemberStageEnd, Writes, Abort, Groups
<1>4. PICK n : Becomes(id, n) /\ SameButWorking(x, n) /\ Working(n) = Constantly(B, writes + 1)
  BY ZenonT(60), <1>2, AddedPromised
<1>5. SameButWorking(m, n)
  BY <1>2, <1>4 DEF SameButWorking, Frozen, Own
<1>6. Working(n) = StoredWorking(m, FULL, k, writes + 1)
  <2>1. DOMAIN Working(m) = {}
    BY <1>1, WorkingReal, LimitFacts
  <2>2. PICK l \in Nat : l = (IF m.count = 0 THEN k ELSE m.count) /\ l <= MAX
    <3>1. k \in 1 .. MAX /\ m.count \in Nat /\ m.count <= MAX
      BY MemberFields, InputFacts
    <3>2. QED
      BY <3>1
  <2>3. MAX \in Nat /\ MAX \in FULL
    BY DataStoreAssumption DEF FULL
  <2>4. {j \in FULL : j < l} = B
    <3>1. ASSUME NEW j PROVE j \in FULL /\ j < l <=> j \in B
      BY <1>2, <2>2, <2>3 DEF FULL
    <3>2. QED
      BY <3>1
  <2>5. CASE m.count = 0
    <3>1. StoredWorking(m, FULL, k, writes + 1) = [i \in {} \cup B |-> writes + 1]
      BY <2>1, <2>2, <2>3, <2>4, <2>5 DEF StoredWorking
    <3>2. QED
      BY <1>4, <3>1 DEF Constantly
  <2>6. CASE m.count # 0
    <3>1. {j \in FULL : m.count # 0 => j < m.count} = B
      BY <2>2, <2>4, <2>6
    <3>2. StoredWorking(m, FULL, k, writes + 1)
            = [i \in {} \cup B |-> IF i \in B THEN writes + 1 ELSE Working(m)[i]]
      BY <2>1, <2>6, <3>1 DEF StoredWorking
    <3>3. QED
      BY <1>4, <3>2 DEF Constantly
  <2>7. QED
    BY <2>5, <2>6
<1>7. QED
  BY <1>1, <1>3, <1>4, <1>5, <1>6, OneStep

-----------------------------------------------------------------------------
(* The calls on the whole group *)

LEMMA SameCardinality ==
  ASSUME NEW S PROVE Promised!Cardinality(S) = Cardinality(S)
BY DEF Promised!Cardinality, Cardinality

LEMMA TrimmedNewest ==
  ASSUME NEW T, NEW now \in Int, Stamps(T, now), NEW t \in Nat, \A u \in T : u < t
  PROVE  Promised!Newest(T \cup {t}) = Trimmed(T) \cup {t}
<1>1. PICK A : A = T \cup {t}
  OBVIOUS
<1>2. /\ T \subseteq Int /\ IsFiniteSet(T) /\ t \notin T /\ A \subseteq Int /\ IsFiniteSet(A)
      /\ Cardinality(T) \in Nat /\ Cardinality(A) = Cardinality(T) + 1 /\ Cardinality(T) <= Depth + 1
  <2>1. T \subseteq Int /\ IsFiniteSet(T) /\ Cardinality(T) <= Depth + 1 /\ t \notin T
    BY DEF Stamps
  <2>2. IsFiniteSet(A) /\ Cardinality(A) = Cardinality(T) + 1 /\ Cardinality(T) \in Nat
    BY <1>1, <2>1, FS_AddElement, FS_CardinalityType
  <2>3. QED
    BY <1>1, <2>1, <2>2
<1>3. Promised!Newest(A) = {x \in A : Cardinality(Newer(A, x)) <= Depth}
  <2>1. Promised!Newest(A) = {x \in A : Cardinality(Promised!Newer(A, x)) <= Depth}
    BY SameCardinality DEF Promised!Newest
  <2>2. \A x : Promised!Newer(A, x) = Newer(A, x)
    BY DEF Promised!Newer, Newer
  <2>3. QED
    BY <2>1, <2>2
<1>4. Depth \in Nat
  BY DataStoreAssumption
<1>5. ASSUME NEW x \in A
      PROVE  /\ Cardinality(Newer(A, x)) \in 0 .. Cardinality(T)
             /\ (Cardinality(Newer(A, x)) = Cardinality(T) <=> Newer(A, x) = A \ {x})
  <2>1. /\ Cardinality(Newer(A, x)) \in 0 .. Cardinality(A) - 1
        /\ Cardinality(Newer(A, x)) = Cardinality(A) - 1 => Newer(A, x) = A \ {x}
    BY <1>2, NewerFacts
  <2>2. Cardinality(A \ {x}) = Cardinality(A) - 1
    BY <1>2, FS_RemoveElement
  <2>3. PICK c \in Nat : c = Cardinality(T) /\ Cardinality(A) = c + 1
    BY <1>2
  <2>4. PICK y : y = Cardinality(Newer(A, x)) /\ y \in 0 .. c
    BY <2>1, <2>3
  <2>5. y = c => Newer(A, x) = A \ {x}
    BY <2>1, <2>3, <2>4
  <2>6. Newer(A, x) = A \ {x} => y = c
    BY <2>2, <2>3, <2>4
  <2>7. QED
    BY <2>3, <2>4, <2>5, <2>6
<1>6. CASE Cardinality(T) = Depth + 1
  <2>1. PICK o \in T : o = Min(T) /\ Trimmed(T) = T \ {o} /\ \A u \in T : o <= u
    BY <1>6, TrimmedFacts
  <2>2. ASSUME NEW x \in A PROVE Newer(A, x) = A \ {x} <=> x = o
    <3>1. CASE x = o
      <4>1. \A u \in A \ {o} : u > o
        BY <1>1, <1>2, <2>1
      <4>2. ~(o > o)
        BY <1>2
      <4>3. QED
        BY <3>1, <4>1, <4>2 DEF Newer
    <3>2. CASE x # o
      <4>1. o \in A \ {x} /\ ~(o > x)
        BY <1>1, <1>2, <2>1, <3>2
      <4>2. o \notin Newer(A, x)
        BY <4>1 DEF Newer
      <4>3. QED
        BY <3>2, <4>1, <4>2
    <3>3. QED
      BY <3>1, <3>2
  <2>3. \A x \in A : Cardinality(Newer(A, x)) <= Depth <=> x # o
    BY <1>2, <1>4, <1>5, <1>6, <2>2
  <2>4. o # t
    BY <1>2, <2>1
  <2>5. QED
    BY <1>1, <1>3, <2>1, <2>3, <2>4
<1>7. CASE Cardinality(T) # Depth + 1
  <2>1. Trimmed(T) = T
    BY <1>7, TrimmedFacts
  <2>2. \A x \in A : Cardinality(Newer(A, x)) <= Depth
    BY <1>2, <1>4, <1>5, <1>7
  <2>3. QED
    BY <1>1, <1>3, <2>1, <2>2
<1>8. QED
  BY <1>6, <1>7

\* A commit freezes the working copy of a member.
LEMMA CommittedPromised ==
  ASSUME NEW m \in MemberType, Pool(m), NEW T, NEW now \in Int, Stamps(T, now), Newest(m, T),
         NEW t \in Nat, \A u \in T : u < t, m.stage.staged = {}
  PROVE  LET n == Committed(m, t) IN
         /\ n.count = m.count /\ Working(n) = Promised!Nothing
         /\ Frozen(n) = Promised!Within(Promised!With(Frozen(m), t, Working(m)), Trimmed(T) \cup {t})
<1>1. PICK n : n = Committed(m, t)
  OBVIOUS
<1>2. /\ n.count = m.count /\ n.committed[t] = m.stage /\ n.stage = Snapshot(n.stage.max)
      /\ Own(n) = (Own(m) \cup {t}) \cap (Trimmed(T) \cup {t})
  <2>1. n.count = m.count /\ n.committed[t] = m.stage /\ n.stage = Snapshot(n.stage.max)
    BY <1>1, CommittedFacts
  <2>2. Retains(n, m, T, t)
    BY <1>1, CommittedFacts
  <2>3. QED
    BY <2>1, <2>2 DEF Retains
<1>3. \A u \in Own(n) : u # t => u \in Own(m) /\ n.committed[u] = m.committed[u]
  BY <1>1, CommittedFacts
<1>4. Working(n) = Promised!Nothing
  <2>1. n.stage.buf = << >> /\ n.stage.staged = {} /\ n.stage.prot = {}
    BY <1>2 DEF Snapshot
  <2>2. InUse(n) = {}
    BY <2>1 DEF InUse
  <2>3. QED
    BY <2>2 DEF Working, Content, Promised!Nothing
<1>5. Content(m.stage, m.stage.prot) = Working(m)
  BY DEF Working, InUse
<1>6. ASSUME NEW u \in Own(n)
      PROVE  Content(n.committed[u], n.committed[u].prot) = IF u = t THEN Working(m) ELSE Frozen(m)[u]
  <2>1. CASE u = t
    BY <1>2, <1>5, <2>1
  <2>2. CASE u # t
    BY <1>3, <2>2 DEF Frozen
  <2>3. QED
    BY <2>1, <2>2
<1>7. Frozen(n) = Promised!Within(Promised!With(Frozen(m), t, Working(m)), Trimmed(T) \cup {t})
  <2>1. Frozen(n) = [u \in Own(n) |-> IF u = t THEN Working(m) ELSE Frozen(m)[u]]
    BY <1>6 DEF Frozen
  <2>2. PICK f : f = Promised!With(Frozen(m), t, Working(m))
    OBVIOUS
  <2>3. DOMAIN f = Own(m) \cup {t} /\ \A u \in DOMAIN f : f[u] = IF u = t THEN Working(m) ELSE Frozen(m)[u]
    BY <2>2 DEF Promised!With, Frozen
  <2>4. Promised!Within(f, Trimmed(T) \cup {t}) = [u \in Own(n) |-> f[u]]
    BY <1>2, <2>3 DEF Promised!Within
  <2>5. \A u \in Own(n) : f[u] = IF u = t THEN Working(m) ELSE Frozen(m)[u]
    BY <1>2, <2>3
  <2>6. QED
    BY <2>1, <2>2, <2>4, <2>5
<1>8. QED
  BY <1>1, <1>2, <1>4, <1>7

LEMMA FreezeStep ==
  ASSUME DInv, NEW current, GroupCommit(current),
         \A id \in DOMAIN members :
           /\ SameCopies(members[id], current[id]) /\ SameButWorking(members[id], current[id])
           /\ current[id].stage.staged = {}
  PROVE  \E t \in timestamps' : Promised!Freeze([id \in DOMAIN members |-> Working(current[id])], t)
<1>1. PICK t \in Nat : t = NextTimestamp /\ \A u \in timestamps : u < t
  BY NextTimestampFacts
<1>2. PICK T : T = timestamps /\ T \in SUBSET Nat /\ Stamps(T, timestamp) /\ timestamp \in Int /\ \A u \in T : u < t
  BY <1>1 DEF DInv, Typed, Stamps
<1>3. PICK D : D = DOMAIN members
  OBVIOUS
<1>4. /\ DOMAIN members' = D /\ \A id \in D : members'[id] = Committed(current[id], t)
      /\ timestamps' = Trimmed(T) \cup {t}
  BY <1>1, <1>2, <1>3 DEF GroupCommit
<1>5. ASSUME NEW id \in D
      PROVE  /\ members'[id].count = members[id].count /\ Working(members'[id]) = Promised!Nothing
             /\ Frozen(members'[id])
                  = Promised!Within(Promised!With(Frozen(members[id]), t, Working(current[id])), timestamps')
  <2>1. PICK m \in MemberType : /\ m = current[id] /\ Pool(m) /\ Newest(m, T) /\ m.stage.staged = {}
                                /\ m.count = members[id].count /\ Frozen(m) = Frozen(members[id])
    <3>1. current[id] \in MemberType /\ current[id].avail = members[id].avail /\ Own(current[id]) = Own(members[id])
      BY <1>3 DEF SameCopies
    <3>2. Pool(members[id]) /\ Newest(members[id], T)
      BY <1>2, <1>3, OneOf
    <3>3. QED
      BY <1>3, <3>1, <3>2 DEF Pool, Newest, SameButWorking
  <2>2. LET x == Committed(m, t) IN
        /\ x.count = m.count /\ Working(x) = Promised!Nothing
        /\ Frozen(x) = Promised!Within(Promised!With(Frozen(m), t, Working(m)), Trimmed(T) \cup {t})
    BY <1>2, <2>1, CommittedPromised
  <2>3. QED
    BY <1>4, <2>1, <2>2
<1>6. [id \in DOMAIN members' |-> members'[id].count] = [id \in DOMAIN members |-> members[id].count]
  BY <1>3, <1>4, <1>5
<1>7. [id \in DOMAIN members' |-> Content(members'[id].stage, InUse(members'[id]))]
        = [id \in D |-> Promised!Nothing]
  BY <1>4, <1>5 DEF Working
<1>8. PICK copies : copies = [id \in D |-> Working(current[id])]
  OBVIOUS
<1>9. [id \in DOMAIN members' |-> [u \in DOMAIN members'[id].committed |->
                                  Content(members'[id].committed[u], members'[id].committed[u].prot)]]
        = [id \in D |-> Promised!Within(Promised!With(
             [x \in DOMAIN members |-> [u \in DOMAIN members[x].committed |->
                                       Content(members[x].committed[u], members[x].committed[u].prot)]][id],
             t, copies[id]), timestamps')]
  <2>1. ASSUME NEW id \in D
        PROVE  [x \in DOMAIN members |-> [u \in DOMAIN members[x].committed |->
                  Content(members[x].committed[u], members[x].committed[u].prot)]][id] = Frozen(members[id])
    BY <1>3 DEF Frozen, Own
  <2>2. [id \in DOMAIN members' |-> [u \in DOMAIN members'[id].committed |->
                                    Content(members'[id].committed[u], members'[id].committed[u].prot)]]
          = [id \in D |-> Frozen(members'[id])]
    BY <1>4 DEF Frozen, Own
  <2>3. QED
    BY <1>5, <1>8, <2>1, <2>2
<1>10. timestamps' = Promised!Newest(timestamps \cup {t})
  BY <1>2, <1>4, TrimmedNewest
<1>11. t \notin timestamps /\ \A u \in timestamps : u < t
  BY <1>2
<1>12. Promised!Freeze(copies, t)
  BY <1>3, <1>6, <1>7, <1>9, <1>10, <1>11 DEF Promised!Freeze
<1>13. QED
  BY <1>3, <1>4, <1>8, <1>12

LEMMA FreezeCommits ==
  ASSUME NEW t \in timestamps', writes' = writes,
         Promised!Freeze([id \in DOMAIN members |-> Working(members[id])], t)
  PROVE  Promised!Next
<1>1. Promised!Freeze([id \in DOMAIN members |-> Content(members[id].stage, InUse(members[id]))], t)
  BY Shown
<1>2. Promised!Commit(t)
  BY <1>1 DEF Promised!Commit
<1>3. QED
  BY <1>2 DEF Promised!Next

LEMMA CommitStep ==
  ASSUME DInv, Commit
  PROVE  Promised!Next \/ UNCHANGED Promised!svars
<1>1. writes' = writes
  BY DEF Commit
<1>2. \A m : SameButWorking(m, m)
  BY DEF SameButWorking
<1>3. CASE Unstored
  <2>1. timestamps' = timestamps /\ members' = members
    BY <1>3 DEF Commit
  <2>2. QED
    BY <1>1, <1>2, <2>1, StutterStep
<1>4. CASE ~Unstored
  <2>1. GroupCommit(members)
    BY <1>4 DEF Commit
  <2>2. \A id \in DOMAIN members :
          /\ SameCopies(members[id], members[id]) /\ SameButWorking(members[id], members[id])
          /\ members[id].stage.staged = {}
    BY <1>2, <1>4, OneOf DEF SameCopies, Unstored
  <2>3. PICK t \in timestamps' : Promised!Freeze([id \in DOMAIN members |-> Working(members[id])], t)
    BY <2>1, <2>2, FreezeStep
  <2>4. QED
    BY <1>1, <2>3, FreezeCommits
<1>5. QED
  BY <1>3, <1>4

LEMMA CheckpointStep ==
  ASSUME Obedient, DInv, SInv, Ordered, NEW S \in Subsets, NEW k \in Lengths, Checkpoint(S, k)
  PROVE  Promised!Next
<1>1. PICK reached : reached = Reached(order, S) /\ CanStore(reached, S, k)
  BY DEF Checkpoint
<1>2. PICK f : f = AfterStores(reached, S, k)
  OBVIOUS
<1>3. PICK M \in SUBSET DOMAIN members :
        /\ M = ToSet(reached) /\ StoresAssert(reached, S, k) /\ DOMAIN f = DOMAIN members
        /\ \A id \in DOMAIN members :
             /\ SameButWorking(members[id], f[id])
             /\ Working(f[id]) = IF id \in M THEN StoredWorking(members[id], S, k, writes + 1) ELSE Working(members[id])
             /\ id \in M => f[id].stage.staged = {}
  BY <1>1, <1>2, AfterStoresPromised
<1>4. writes' = writes + 1 /\ ((reached = order /\ GroupCommit(f)) \/ (members' = f /\ timestamps' = timestamps))
  BY <1>1, <1>2, <1>3 DEF Checkpoint, Writes, Groups
<1>5. CASE members' = f /\ timestamps' = timestamps
  BY <1>3, <1>4, <1>5, StoreStep
<1>6. CASE reached = order /\ GroupCommit(f)
  <2>1. M = DOMAIN members
    BY <1>3, <1>6 DEF Ordered
  <2>2. k \in 0 .. MAX /\ S \in SUBSET (0 .. MAX)
    BY SubsetTypes
  <2>3. \A id \in DOMAIN members :
          /\ SameCopies(members[id], f[id]) /\ SameButWorking(members[id], f[id])
          /\ f[id].stage.staged = {}
    BY <1>2, <1>3, <2>1, <2>2, AfterStoresCopies
  <2>4. PICK t \in timestamps' : Promised!Freeze([id \in DOMAIN members |-> Working(f[id])], t)
    BY <1>6, <2>3, FreezeStep
  <2>5. Promised!AfterStores(DOMAIN [id \in DOMAIN members |-> members[id].count], S, k)
          = [id \in DOMAIN members |-> Working(f[id])]
    <3>1. DOMAIN [id \in DOMAIN members |-> members[id].count] = DOMAIN members
      OBVIOUS
    <3>2. DOMAIN members \in SUBSET DOMAIN members
      OBVIOUS
    <3>3. Promised!AfterStores(DOMAIN members, S, k)
            = [id \in DOMAIN members |-> IF id \in DOMAIN members THEN StoredWorking(members[id], S, k, writes + 1)
                                         ELSE Working(members[id])]
      BY <1>4, <3>2, StoresShown
    <3>4. [id \in DOMAIN members |-> IF id \in DOMAIN members THEN StoredWorking(members[id], S, k, writes + 1)
                                     ELSE Working(members[id])]
            = [id \in DOMAIN members |-> Working(f[id])]
      BY <1>3, <2>1
    <3>5. QED
      BY <3>1, <3>3, <3>4
  <2>6. Promised!Checkpoint(S, k, t)
    BY <1>4, <2>4, <2>5 DEF Promised!Checkpoint
  <2>7. QED
    BY <2>6 DEF Promised!Next
<1>7. QED
  BY <1>4, <1>5, <1>6

LEMMA SnapshotDeleteStep ==
  ASSUME DInv, NEW t \in timestamps, SnapshotDelete(t)
  PROVE  Promised!Next
<1>1. PICK D : D = DOMAIN members
  OBVIOUS
<1>2. /\ timestamps' = timestamps \ {t} /\ writes' = writes
      /\ DOMAIN members' = D /\ \A id \in D : members'[id] = Deleted(members[id], t)
  BY <1>1 DEF SnapshotDelete
<1>3. ASSUME NEW id \in D
      PROVE  /\ members'[id].count = members[id].count /\ Working(members'[id]) = Working(members[id])
             /\ Frozen(members'[id]) = Promised!Without(Frozen(members[id]), t)
  <2>1. PICK m \in MemberType : m = members[id] /\ Own(m) \subseteq timestamps
    BY <1>1, OneOf DEF Newest
  <2>2. PICK n : n = Deleted(m, t) /\ n = members'[id]
    BY <1>2, <2>1
  <2>3. n.count = m.count /\ n.stage = m.stage /\ Own(n) = Own(m) \ {t} /\ \A u \in Own(n) : n.committed[u] = m.committed[u]
    <3>1. CASE t \in Own(m)
      <4>1. timestamps \in SUBSET Nat /\ IsFiniteSet(timestamps)
        BY DEF DInv, Typed, Stamps
      <4>2. LET x == Deleted(m, t) IN
            /\ x \in MemberType /\ x.stage = m.stage /\ x.count = m.count /\ x.ser = m.ser /\ x.open = m.open
            /\ Own(x) = Own(m) \ {t} /\ \A u \in Own(x) : x.committed[u] = m.committed[u]
            /\ Len(x.avail) = Len(m.avail) + 1
            /\ \A i \in 1 .. Len(m.avail) : x.avail[i] = m.avail[i]
            /\ x.avail[Len(m.avail) + 1] = Snapshot(m.committed[t].max)
            /\ Cardinality(Own(x)) = Cardinality(Own(m)) - 1
        BY <2>1, <3>1, <4>1, DeletedFacts
      <4>3. QED
        BY <2>2, <4>2
    <3>2. CASE t \notin Own(m)
      <4>1. n = m
        BY <2>2, <3>2 DEF Deleted, Own
      <4>2. QED
        BY <3>2, <4>1
    <3>3. QED
      BY <3>1, <3>2
  <2>4. Working(n) = Working(m)
    BY <2>3 DEF Working, InUse
  <2>5. Frozen(n) = Promised!Without(Frozen(m), t)
    BY <2>3 DEF Frozen, Promised!Without
  <2>6. QED
    BY <2>1, <2>2, <2>3, <2>4, <2>5
<1>4. [id \in DOMAIN members' |-> members'[id].count] = [id \in DOMAIN members |-> members[id].count]
  BY <1>1, <1>2, <1>3
<1>5. [id \in DOMAIN members' |-> Content(members'[id].stage, InUse(members'[id]))]
        = [id \in DOMAIN members |-> Content(members[id].stage, InUse(members[id]))]
  <2>1. \A id \in D : Working(members'[id]) = Working(members[id])
    BY <1>3
  <2>2. QED
    BY <1>1, <1>2, <2>1 DEF Working
<1>6. [id \in DOMAIN members' |-> [u \in DOMAIN members'[id].committed |->
                                  Content(members'[id].committed[u], members'[id].committed[u].prot)]]
        = [id \in D |-> Promised!Without(
             [x \in DOMAIN members |-> [u \in DOMAIN members[x].committed |->
                                       Content(members[x].committed[u], members[x].committed[u].prot)]][id], t)]
  <2>1. ASSUME NEW id \in D
        PROVE  [x \in DOMAIN members |-> [u \in DOMAIN members[x].committed |->
                  Content(members[x].committed[u], members[x].committed[u].prot)]][id] = Frozen(members[id])
    BY <1>1 DEF Frozen, Own
  <2>2. [id \in DOMAIN members' |-> [u \in DOMAIN members'[id].committed |->
                                    Content(members'[id].committed[u], members'[id].committed[u].prot)]]
          = [id \in D |-> Frozen(members'[id])]
    BY <1>2 DEF Frozen, Own
  <2>3. QED
    BY ZenonT(60), <1>3, <2>1, <2>2
<1>7. Promised!Delete(t)
  BY <1>1, <1>2, <1>4, <1>5, <1>6 DEF Promised!Delete
<1>8. QED
  BY <1>7 DEF Promised!Next

LEMMA GroupStep ==
  ASSUME DInv, GroupCreate \/ GroupDelete
  PROVE  Promised!Next \/ UNCHANGED Promised!svars
<1>1. CASE GroupCreate
  <2>1. /\ writes' = writes /\ timestamps' = timestamps
        /\ members' = [id \in DOMAIN members |-> RestrictedTo(members[id], timestamps)]
    BY <1>1 DEF GroupCreate
  <2>2. \A id \in DOMAIN members : RestrictedTo(members[id], timestamps) = members[id]
    BY OneOf, NothingRestricted DEF Newest
  <2>3. DOMAIN members' = DOMAIN members /\ \A id \in DOMAIN members : members'[id] = members[id]
    BY <2>1, <2>2
  <2>4. \A m : SameButWorking(m, m)
    BY DEF SameButWorking
  <2>5. QED
    BY <2>1, <2>3, <2>4, StutterStep
<1>2. CASE GroupDelete
  <2>1. timestamps' = {} /\ members' = [m \in {} |-> 0] /\ writes' = writes
    BY <1>2 DEF GroupDelete
  <2>2. DOMAIN members' = {}
    BY <2>1
  <2>3. [id \in DOMAIN members' |-> members'[id].count] = [m \in {} |-> 0]
    BY <2>2
  <2>4. [id \in DOMAIN members' |-> Content(members'[id].stage, InUse(members'[id]))] = [m \in {} |-> Promised!Nothing]
    BY <2>2
  <2>5. [id \in DOMAIN members' |-> [u \in DOMAIN members'[id].committed |->
                                    Content(members'[id].committed[u], members'[id].committed[u].prot)]]
          = [m \in {} |-> Promised!Nothing]
    BY <2>2
  <2>6. Promised!DropAll
    BY <2>1, <2>3, <2>4, <2>5 DEF Promised!DropAll
  <2>7. QED
    BY <2>6 DEF Promised!Next
<1>3. QED
  BY <1>1, <1>2

LEMMA NextStep ==
  ASSUME Obedient, DInv, SInv, Ordered, [Next]_vars
  PROVE  Promised!Next \/ UNCHANGED Promised!svars
<1>1. ASSUME NEW S \in Subsets, NEW k \in LengthsFor(S),
             \/ MemberStore(ById, S, k) \/ Checkpoint(S, k)
             \/ \E id \in Member : MemberStage(id, S, k) \/ (Exists(id) /\ MemberStore(<<id>>, S, k))
      PROVE  Promised!Next
  <2>1. k \in Lengths
    BY DEF LengthsFor
  <2>2. QED
    BY <1>1, <2>1, MemberStoreStep, CheckpointStep, StageStep
<1>2. ASSUME NEW id \in Member, NEW shape \in Shapes[id],
             \/ MemberCreate(id, shape[1], shape[2]) \/ MemberDefine(id, shape[1], shape[2])
             \/ MemberAttrSet(id, shape[1])
      PROVE  Promised!Next \/ UNCHANGED Promised!svars
  BY <1>2, CreateStep, SettingStep
<1>3. ASSUME NEW id \in Member,
             \/ MemberDelete(id) \/ MemberStorePrestaged(id) \/ MemberStageBegin(id) \/ MemberLoadEnd(id)
             \/ MemberLoadBegin(id, LATEST)
      PROVE  Promised!Next \/ UNCHANGED Promised!svars
  BY <1>3, DeleteStep, PrestagedStep, BeginStep
<1>4. ASSUME NEW id \in Member, NEW S \in Subsets, Exists(id), MemberStageInplace(id, S)
      PROVE  Promised!Next
  BY <1>4, InplaceStep
<1>5. ASSUME NEW id \in Member, NEW k \in Lengths, MemberStageEnd(id, k)
      PROVE  Promised!Next
  BY <1>5, StageEndStep
<1>6. ASSUME NEW t \in timestamps, SnapshotDelete(t)
      PROVE  Promised!Next
  BY <1>6, SnapshotDeleteStep
<1>7. CASE Next
  BY <1>1, <1>2, <1>3, <1>4, <1>5, <1>6, <1>7, CommitStep, GroupStep DEF Next, Staging
<1>8. CASE UNCHANGED vars
  <2>1. members' = members /\ timestamps' = timestamps /\ writes' = writes
    BY <1>8 DEF vars
  <2>2. \A m : SameButWorking(m, m)
    BY DEF SameButWorking
  <2>3. QED
    BY <2>1, <2>2, StutterStep
<1>9. QED
  BY <1>7, <1>8

LEMMA InitPromised ==
  ASSUME Init PROVE Promised!Init /\ Ordered
<1>1. timestamps = {} /\ members = [m \in {} |-> 0] /\ order = << >> /\ writes = 0
  BY DEF Init
<1>2. DOMAIN members = {}
  BY <1>1
<1>3. Ordered
  BY <1>1, <1>2 DEF Ordered, ToSet
<1>4. [id \in DOMAIN members |-> members[id].count] = [m \in {} |-> 0]
  BY <1>2
<1>5. [id \in DOMAIN members |-> Content(members[id].stage, InUse(members[id]))] = [m \in {} |-> Promised!Nothing]
  BY <1>2
<1>6. [id \in DOMAIN members |-> [u \in DOMAIN members[id].committed |->
                                Content(members[id].committed[u], members[id].committed[u].prot)]]
        = [m \in {} |-> Promised!Nothing]
  BY <1>2
<1>7. Promised!Init
  BY <1>1, <1>4, <1>5, <1>6 DEF Promised!Init
<1>8. QED
  BY <1>3, <1>7

(***************************************************************************)
(* For an application that keeps to the rules the members, with their stage, *)
(* pool and committed snapshots, are the promised store: whatever the call,  *)
(* it stores, commits or deletes what the API says and nothing else ever     *)
(* changes a snapshot (group.cpp 66-212, member.cpp 87-411).                   *)
(***************************************************************************)
THEOREM StoreImplemented == Obedient => (Spec => ImplementsStore)
<1> SUFFICES ASSUME Obedient PROVE Spec => ImplementsStore
  OBVIOUS
<1>1. Init => Promised!Init /\ Ordered /\ SInv
  BY InitPromised DEF Init, SInv
<1>2. DInv /\ SInv /\ Ordered /\ [Next]_vars => SInv' /\ Ordered'
  BY NextSound, NextOrdered
<1>3. DInv /\ SInv /\ Ordered /\ [Next]_vars => [Promised!Next]_(Promised!svars)
  BY NextStep
<1>4. QED
  BY <1>1, <1>2, <1>3, AlwaysDInv, PTL DEF Spec, ImplementsStore, Promised!Spec
=============================================================================
