---------------------------- MODULE BuddyProofs ----------------------------
(***************************************************************************)
(* The data of a cohort of buddies, for any depth, member and failures.     *)
(***************************************************************************)
EXTENDS BuddyIMR, OrderedSets, SequenceTheorems

-----------------------------------------------------------------------------
(* The ring of ranks *)

LEMMA RingFacts ==
  /\ Ranks \in SUBSET {0, 1, 2} /\ IsFiniteSet(Ranks) /\ Ranks # {} /\ Depth \in Nat /\ IsFiniteSet(Elems)
  /\ \A r \in Ranks : /\ left(r) \in Ranks /\ right(r) \in Ranks /\ left(r) # r
                      /\ left(right(r)) = r /\ right(left(r)) = r
<1>1. IsFiniteSet(0 .. N - 1)
  BY FS_Interval, BuddyAssumption
<1>2. QED
  BY <1>1, BuddyAssumption DEF Ranks, left, right

-----------------------------------------------------------------------------
(* Types *)

Data     == {None, Garbage} \cup Ranks \X Nat \X Nat
Buffers  == [Elems -> Data]
Layouts  == [Ranks -> SUBSET Elems]
Snaps    == [own : Buffers, part : Buffers, staged : Layouts, prot : Layouts, pstaged : SUBSET Elems]
Messages == UNION {[S -> Data] : S \in SUBSET Elems}
Stores   == UNION {[T -> Snaps] : T \in SUBSET Nat}

LEMMA ContentType ==
  ASSUME NEW b \in Buffers, NEW S \in SUBSET Elems
  PROVE  /\ Content(b, S) \in Messages /\ DOMAIN Content(b, S) = S
         /\ \A e \in S : Content(b, S)[e] = b[e] /\ b[e] \in Data
  BY DEF Content, Buffers, Messages

LEMMA MessageType ==
  ASSUME NEW msg \in Messages
  PROVE  DOMAIN msg \in SUBSET Elems /\ \A e \in DOMAIN msg : msg[e] \in Data
  BY DEF Messages

LEMMA UnpackedType ==
  ASSUME NEW b \in Buffers, NEW S \in SUBSET Elems, NEW msg \in Messages
  PROVE  Unpacked(b, S, msg) \in Buffers
<1>1. Garbage \in Data
  BY DEF Data
<1>2. ASSUME NEW e \in Elems
      PROVE  (IF e \notin S THEN b[e] ELSE IF S = DOMAIN msg THEN msg[e] ELSE Garbage) \in Data
  BY <1>1, MessageType DEF Buffers
<1>3. QED
  BY <1>2 DEF Unpacked, Buffers

\* A message of the layout that is expected arrives as it was sent.
LEMMA UnpackedContent ==
  ASSUME NEW b \in Buffers, NEW S \in SUBSET Elems, NEW msg \in Messages, DOMAIN msg = S
  PROVE  Content(Unpacked(b, S, msg), S) = msg
<1>1. \A e \in S : Unpacked(b, S, msg)[e] = msg[e]
  BY DEF Unpacked
<1>2. msg = [e \in S |-> msg[e]]
  BY DEF Messages
<1>3. QED
  BY <1>1, <1>2 DEF Content

LEMMA FreshType ==
  /\ FreshSnapshot \in Snaps /\ NoSets \in Layouts /\ Blank \in Buffers
  /\ FreshSnapshot.pstaged = {} /\ FreshSnapshot.staged = NoSets /\ FreshSnapshot.prot = NoSets
  /\ \A q \in Ranks : NoSets[q] = {}
  BY DEF FreshSnapshot, Snaps, Buffers, Layouts, Blank, NoSets, Data

LEMMA ResetType ==
  ASSUME NEW s \in Snaps
  PROVE  reset(s) \in Snaps /\ reset(s).staged = NoSets /\ reset(s).prot = NoSets /\ reset(s).pstaged = s.pstaged
  BY FreshType DEF reset, Snaps

LEMMA SnapFields ==
  ASSUME NEW s \in Snaps
  PROVE  /\ s.own \in Buffers /\ s.part \in Buffers /\ s.pstaged \in SUBSET Elems
         /\ s.staged \in Layouts /\ s.prot \in Layouts
         /\ \A q \in Ranks : s.staged[q] \in SUBSET Elems /\ s.prot[q] \in SUBSET Elems
  BY DEF Snaps, Layouts

LEMMA StoreFields ==
  /\ \A c : c \in Stores <=> (DOMAIN c \in SUBSET Nat /\ c \in [DOMAIN c -> Snaps])
  /\ << >> \in Stores /\ DOMAIN << >> = {}
<1>1. ASSUME NEW c, c \in Stores PROVE DOMAIN c \in SUBSET Nat /\ c \in [DOMAIN c -> Snaps]
  BY <1>1 DEF Stores
<1>2. ASSUME NEW c, DOMAIN c \in SUBSET Nat, c \in [DOMAIN c -> Snaps] PROVE c \in Stores
  BY <1>2 DEF Stores
<1>3. DOMAIN << >> = {} /\ << >> \in [{} -> Snaps]
  OBVIOUS
<1>4. QED
  BY <1>1, <1>2, <1>3

-----------------------------------------------------------------------------
(* A commit of one member *)

LEMMA InsertedFacts ==
  ASSUME NEW c \in Stores, NEW t \in Nat, NEW s \in Snaps
  PROVE  /\ Inserted(c, t, s) \in Stores /\ DOMAIN Inserted(c, t, s) = DOMAIN c \cup {t}
         /\ Inserted(c, t, s)[t] = s /\ \A u \in DOMAIN c : u # t => Inserted(c, t, s)[u] = c[u]
<1> DEFINE e == Inserted(c, t, s)
<1>1. DOMAIN e = DOMAIN c \cup {t} /\ \A u \in DOMAIN e : e[u] = IF u = t THEN s ELSE c[u]
  BY DEF Inserted
<1>2. DOMAIN c \in SUBSET Nat /\ c \in [DOMAIN c -> Snaps]
  BY StoreFields
<1>3. e = [u \in DOMAIN e |-> e[u]]
  BY DEF Inserted
<1> HIDE DEF e
<1>4. \A u \in DOMAIN e : e[u] \in Snaps
  BY <1>1, <1>2
<1>5. e \in [DOMAIN e -> Snaps] /\ DOMAIN e \in SUBSET Nat
  BY <1>1, <1>2, <1>3, <1>4
<1>6. e \in Stores
  BY <1>5, StoreFields
<1>7. QED
  BY <1>1, <1>6 DEF e

\* The sizes of what a member has; c is committed, a the pool.
Full(c, a) ==
  /\ IsFiniteSet(DOMAIN c) /\ Cardinality(DOMAIN c) <= Depth + 1
  /\ Len(a) + Cardinality(DOMAIN c) = 2 * (Depth + 1)

LEMMA FullFacts ==
  ASSUME NEW c \in Stores, NEW a \in Seq(Snaps), Full(c, a)
  PROVE  /\ Cardinality(DOMAIN c) \in Nat /\ Len(a) \in Nat /\ Len(a) >= Depth + 1 /\ Len(a) >= 1
         /\ a # << >> /\ a[Len(a)] \in Snaps
         /\ SubSeq(a, 1, Len(a) - 1) \in Seq(Snaps) /\ Len(SubSeq(a, 1, Len(a) - 1)) = Len(a) - 1
         /\ \A i \in 1 .. Len(a) - 1 : SubSeq(a, 1, Len(a) - 1)[i] = a[i]
<1>1. Cardinality(DOMAIN c) \in Nat /\ Len(a) \in Nat /\ Depth \in Nat
  BY FS_CardinalityType, RingFacts DEF Full
<1>2. Len(a) >= Depth + 1 /\ Len(a) >= 1
  BY <1>1 DEF Full
<1>3. \A i \in 1 .. Len(a) : a[i] \in Snaps
  BY ElementOfSeq
<1>4. PICK n \in Nat : n = Len(a) /\ n >= 1
  BY <1>1, <1>2
<1>5. \A i \in 1 .. n - 1 : a[i] \in Snaps
  BY <1>3, <1>4
<1>6. /\ SubSeq(a, 1, n - 1) \in Seq(Snaps) /\ Len(SubSeq(a, 1, n - 1)) = n - 1
      /\ \A i \in 1 .. n - 1 : SubSeq(a, 1, n - 1)[i] = a[i]
  <2>1. 1 \in Int /\ n - 1 \in Int /\ (1 <= n - 1 \/ n - 1 = 0)
    BY <1>4
  <2>2. /\ SubSeq(a, 1, n - 1) \in Seq(Snaps)
        /\ Len(SubSeq(a, 1, n - 1)) = IF 1 <= n - 1 THEN (n - 1) - 1 + 1 ELSE 0
        /\ \A i \in 1 .. (n - 1) - 1 + 1 : SubSeq(a, 1, n - 1)[i] = a[1 + i - 1]
    BY <1>5, <2>1, SubSeqProperties
  <2>3. (n - 1) - 1 + 1 = n - 1 /\ \A i \in 1 .. n - 1 : 1 + i - 1 = i
    BY <1>4
  <2>4. QED
    BY <2>1, <2>2, <2>3
<1>7. a # << >> /\ n \in 1 .. Len(a)
  BY <1>4, EmptySeq
<1>8. QED
  BY <1>1, <1>2, <1>3, <1>4, <1>6, <1>7

\* What becomes of a member, c, with the pool a, when s is committed at t.
CommitsTo(c, a, t, s) ==
  LET e == Inserted(c, t, s)
      p == Recycled(e, a)
      b == SubSeq(p, 1, Len(p) - 1)
      f == Trimmed(e)
      old == Min(DOMAIN c \cup {t})
  IN  /\ p # << >> /\ p[Len(p)] \in Snaps /\ f \in Stores /\ b \in Seq(Snaps) /\ Full(f, b)
      /\ \A u \in DOMAIN f : f[u] = IF u = t THEN s ELSE c[u]
      /\ Len(b) <= Len(a) /\ \A i \in 1 .. Len(b) : b[i] = a[i]
      /\ Cardinality(DOMAIN c) = Depth + 1 =>
           /\ old \in DOMAIN c \cup {t} /\ \A u \in DOMAIN c \cup {t} : old <= u
           /\ DOMAIN f = (DOMAIN c \cup {t}) \ {old} /\ p[Len(p)] = reset(IF old = t THEN s ELSE c[old])
      /\ Cardinality(DOMAIN c) # Depth + 1 =>
           DOMAIN f = DOMAIN c \cup {t} /\ Len(a) \in 1 .. Len(a) /\ p[Len(p)] = a[Len(a)]

LEMMA CommitFacts ==
  ASSUME NEW c \in Stores, NEW a \in Seq(Snaps), Full(c, a), NEW t \in Nat, t \notin DOMAIN c, NEW s \in Snaps
  PROVE  CommitsTo(c, a, t, s)
<1> DEFINE e == Inserted(c, t, s)
           p == Recycled(e, a)
           b == SubSeq(p, 1, Len(p) - 1)
           f == Trimmed(e)
           old == Min(DOMAIN c \cup {t})
<1>1. /\ e \in Stores /\ DOMAIN e = DOMAIN c \cup {t}
      /\ \A u \in DOMAIN e : e[u] = IF u = t THEN s ELSE c[u]
  <2>1. e \in Stores /\ DOMAIN e = DOMAIN c \cup {t} /\ e[t] = s /\ \A u \in DOMAIN c : u # t => e[u] = c[u]
    BY ZenonT(60), InsertedFacts
  <2> HIDE DEF e
  <2>2. QED
    BY <2>1
<1>2. DOMAIN c \in SUBSET Nat /\ DOMAIN e \in SUBSET Nat /\ e \in [DOMAIN e -> Snaps]
  BY <1>1, StoreFields
<1>3. /\ IsFiniteSet(DOMAIN e) /\ Cardinality(DOMAIN e) = Cardinality(DOMAIN c) + 1
      /\ Cardinality(DOMAIN c) \in Nat /\ Depth \in Nat /\ Cardinality(DOMAIN c) <= Depth + 1
  BY <1>1, FS_AddElement, FullFacts, RingFacts DEF Full
<1>4. /\ Len(a) \in Nat /\ Len(a) >= 1 /\ a[Len(a)] \in Snaps /\ a # << >>
      /\ SubSeq(a, 1, Len(a) - 1) \in Seq(Snaps) /\ Len(SubSeq(a, 1, Len(a) - 1)) = Len(a) - 1
      /\ \A i \in 1 .. Len(a) - 1 : SubSeq(a, 1, Len(a) - 1)[i] = a[i]
  BY FullFacts
<1> HIDE DEF e
<1>5. CASE Cardinality(DOMAIN c) = Depth + 1
  <2>1. Trims(e)
    BY <1>3, <1>5 DEF Trims
  <2>2. old = Min(DOMAIN e) /\ old \in DOMAIN e /\ \A u \in DOMAIN e : old <= u
    <3>1. DOMAIN e \subseteq Int /\ DOMAIN e # {}
      BY <1>1, <1>2
    <3>2. QED
      BY <1>1, <1>3, <3>1, MinOf
  <2> HIDE DEF old
  <2>3. f = [u \in DOMAIN e \ {old} |-> e[u]] /\ p = Append(a, reset(e[old]))
    BY <2>1, <2>2 DEF Trimmed, Recycled
  <2>4. e[old] \in Snaps /\ reset(e[old]) \in Snaps
    BY <1>2, <2>2, ResetType
  <2>5. PICK x \in Snaps : x = reset(e[old])
    BY <2>4
  <2>6. /\ p \in Seq(Snaps) /\ Len(p) = Len(a) + 1 /\ p[Len(a) + 1] = x
        /\ \A i \in 1 .. Len(a) : p[i] = a[i]
    BY <1>4, <2>3, <2>5, AppendProperties
  <2> HIDE DEF p
  <2>7. b \in Seq(Snaps) /\ Len(b) = Len(a) /\ \A i \in 1 .. Len(b) : b[i] = a[i]
    <3>1. PICK n \in Nat : n = Len(a) /\ n >= 1
      BY <1>4
    <3>2. Len(p) - 1 = n /\ n \in Int /\ 1 \in Int
      BY <2>6, <3>1
    <3>3. \A i \in 1 .. n : p[i] = a[i] /\ a[i] \in Snaps
      BY <2>6, <3>1, ElementOfSeq
    <3>4. /\ SubSeq(p, 1, n) \in Seq(Snaps) /\ Len(SubSeq(p, 1, n)) = IF 1 <= n THEN n - 1 + 1 ELSE 0
          /\ \A i \in 1 .. n - 1 + 1 : SubSeq(p, 1, n)[i] = p[1 + i - 1]
      BY <3>2, <3>3, SubSeqProperties
    <3>5. n - 1 + 1 = n /\ 1 <= n /\ \A i \in 1 .. n : 1 + i - 1 = i
      BY <3>1
    <3>6. b = SubSeq(p, 1, n)
      BY <3>2
    <3> HIDE DEF b
    <3>7. QED
      BY <3>1, <3>3, <3>4, <3>5, <3>6
  <2> HIDE DEF b
  <2>8. /\ DOMAIN f = DOMAIN e \ {old} /\ \A u \in DOMAIN f : f[u] = e[u]
        /\ f \in [DOMAIN f -> Snaps]
    BY <1>2, <2>3
  <2>9. f \in Stores
    BY <1>2, <2>8, StoreFields
  <2> HIDE DEF f
  <2>10. IsFiniteSet(DOMAIN f) /\ Cardinality(DOMAIN f) = Depth + 1
    BY <1>3, <1>5, <2>2, <2>8, FS_RemoveElement
  <2>11. Full(f, b)
    BY <1>3, <1>5, <2>7, <2>10 DEF Full
  <2>12. p # << >> /\ p[Len(p)] = x
    BY <1>4, <2>6, EmptySeq
  <2>13. x = reset(IF old = t THEN s ELSE c[old])
    BY <1>1, <2>2, <2>5
  <2>14. \A u \in DOMAIN f : f[u] = IF u = t THEN s ELSE c[u]
    BY <1>1, <2>8
  <2>15. Len(b) <= Len(a)
    BY <1>4, <2>7
  <2>16. QED
    BY <1>1, <1>5, <2>2, <2>7, <2>8, <2>9, <2>11, <2>12, <2>13, <2>14, <2>15 DEF f, b, p, e, old, CommitsTo
<1>6. CASE Cardinality(DOMAIN c) # Depth + 1
  <2>1. ~Trims(e)
    BY <1>3, <1>6 DEF Trims
  <2>2. f = e /\ p = a /\ b = SubSeq(a, 1, Len(a) - 1)
    BY <2>1 DEF Trimmed, Recycled
  <2> HIDE DEF f, p, b
  <2>3. Full(f, b)
    BY <1>3, <1>4, <1>6, <2>2 DEF Full
  <2>4. Len(b) <= Len(a) /\ Len(a) \in 1 .. Len(a) /\ p # << >> /\ p[Len(p)] = a[Len(a)]
    BY <1>4, <2>2
  <2>5. \A i \in 1 .. Len(b) : b[i] = a[i]
    BY <1>4, <2>2
  <2>6. QED
    BY <1>1, <1>4, <1>6, <2>2, <2>3, <2>4, <2>5 DEF f, b, p, e, CommitsTo
<1>7. QED
  BY <1>5, <1>6

-----------------------------------------------------------------------------
(* What the pool invariant says of every state *)

Labels == {"app", "exchange", "storing", "stored", "recover", "init", "repair", "aborted"}
Truths == UNION {[T -> Messages] : T \in SUBSET Nat}

Typed ==
  /\ pc \in [Ranks -> Labels] /\ timestamps \in [Ranks -> SUBSET Nat] /\ timestamp \in [Ranks -> Nat \cup {-1}]
  /\ member \in [Ranks -> BOOLEAN] /\ stage \in [Ranks -> Snaps] /\ committed \in [Ranks -> Stores]
  /\ avail \in [Ranks -> Seq(Snaps)] /\ chan \in [Ranks -> Seq(Messages)] /\ todo \in [Ranks -> SUBSET Nat]
  /\ failed \in SUBSET Ranks /\ broken \in BOOLEAN /\ gen \in Nat
  /\ lost \in SUBSET Ranks /\ fatal \in BOOLEAN /\ truth \in [Ranks -> Truths]

\* What rank r keeps fits in the pool, and so does what is left to be repaired.
Pooled(r) ==
  /\ Full(committed[r], avail[r])
  /\ IsFiniteSet(timestamps[r]) /\ Cardinality(timestamps[r]) <= Depth + 1
  /\ DOMAIN committed[r] \subseteq 0 .. timestamp[r] /\ timestamps[r] \subseteq 0 .. timestamp[r]
  /\ todo[r] \subseteq timestamps[r]
  /\ todo[r] # {} => DOMAIN committed[r] \subseteq timestamps[r]
  /\ pc[r] \in {"app", "exchange", "storing", "stored", "init"} => todo[r] = {}

\* Ranks in the repair have the same turns of its loop before them.
InStep == \A r, q \in Ranks \ failed : (pc[r] = "repair" /\ pc[q] = "repair") => todo[r] = todo[q]

Steady == Typed /\ (\A r \in Ranks : Pooled(r)) /\ InStep

OnRanks(f) == f = [r \in Ranks |-> f[r]]

LEMMA OnRanksType ==
  ASSUME NEW f, OnRanks(f), NEW S, \A r \in Ranks : f[r] \in S
  PROVE  f \in [Ranks -> S]
  BY DEF OnRanks

LEMMA CommittedTimesFacts ==
  ASSUME NEW t \in Int, NEW ts \in SUBSET Nat, ts \subseteq 0 .. t, IsFiniteSet(ts), Cardinality(ts) <= Depth + 1
  PROVE  LET new == CommittedTimes(ts, t + 1)
         IN  IsFiniteSet(new) /\ Cardinality(new) <= Depth + 1 /\ new \subseteq ts \cup {t + 1}
<1>1. Cardinality(ts) \in Nat /\ Depth \in Nat /\ t + 1 \notin ts
  BY FS_CardinalityType, RingFacts
<1>2. CASE Cardinality(ts) = Depth + 1
  <2>1. Min(ts) \in ts
    <3>1. ts # {} /\ ts \subseteq Int
      BY <1>1, <1>2, FS_EmptySet
    <3>2. QED
      BY <3>1, MinOf
  <2>2. /\ IsFiniteSet(ts \ {Min(ts)}) /\ Cardinality(ts \ {Min(ts)}) = Cardinality(ts) - 1
        /\ t + 1 \notin ts \ {Min(ts)}
    BY <1>1, <2>1, FS_RemoveElement
  <2>3. /\ IsFiniteSet((ts \ {Min(ts)}) \cup {t + 1})
        /\ Cardinality((ts \ {Min(ts)}) \cup {t + 1}) = Cardinality(ts \ {Min(ts)}) + 1
    BY <2>2, FS_AddElement
  <2>4. CommittedTimes(ts, t + 1) = (ts \ {Min(ts)}) \cup {t + 1}
    BY <1>2 DEF CommittedTimes
  <2>5. QED
    BY <1>1, <1>2, <2>2, <2>3, <2>4
<1>3. CASE Cardinality(ts) # Depth + 1
  <2>1. CommittedTimes(ts, t + 1) = ts \cup {t + 1}
    BY <1>3 DEF CommittedTimes
  <2>2. IsFiniteSet(ts \cup {t + 1}) /\ Cardinality(ts \cup {t + 1}) = Cardinality(ts) + 1
    BY <1>1, FS_AddElement
  <2>3. QED
    BY <1>1, <1>3, <2>1, <2>2
<1>4. QED
  BY <1>2, <1>3

\* What a commit does, rank by rank.
LEMMA CommitOnEffects ==
  ASSUME Typed, NEW R \in SUBSET Ranks, CommitOn(R)
  PROVE  /\ \A r \in Ranks \ R :
              /\ timestamp'[r] = timestamp[r] /\ timestamps'[r] = timestamps[r] /\ committed'[r] = committed[r]
              /\ stage'[r] = stage[r] /\ avail'[r] = avail[r] /\ truth'[r] = truth[r] /\ pc'[r] = pc[r]
         /\ \A r \in R :
              LET t == timestamp[r] + 1
                  e == Inserted(committed[r], t, stage[r])
                  p == Recycled(e, avail[r])
              IN  /\ timestamp'[r] = t /\ timestamps'[r] = CommittedTimes(timestamps[r], t)
                  /\ committed'[r] = Trimmed(e) /\ pc'[r] = "app"
                  /\ stage'[r] = IF p = <<>> THEN FreshSnapshot ELSE p[Len(p)]
                  /\ avail'[r] = IF p = <<>> THEN <<>> ELSE SubSeq(p, 1, Len(p) - 1)
                  /\ truth'[r] = [u \in DOMAIN truth[r] \cup {t} |->
                                    IF u = t THEN OwnContent(stage[r], r) ELSE truth[r][u]]
         /\ OnRanks(timestamp') /\ OnRanks(timestamps') /\ OnRanks(committed') /\ OnRanks(stage')
         /\ OnRanks(avail') /\ OnRanks(truth') /\ OnRanks(pc')
         /\ UNCHANGED <<member, chan, todo, failed, broken, gen, fails, lost, fatal>>
  BY DEF CommitOn, NextTime, faultVars, OnRanks


\* The state of one rank after its commit.
LEMMA CommittedRank ==
  ASSUME Typed, NEW R \in SUBSET Ranks, CommitOn(R), NEW r \in R, Pooled(r), pc[r] = "stored"
  PROVE  /\ Pooled(r)' /\ timestamp'[r] \in Nat \cup {-1} /\ timestamps'[r] \in SUBSET Nat /\ committed'[r] \in Stores
         /\ stage'[r] \in Snaps /\ avail'[r] \in Seq(Snaps) /\ truth'[r] \in Truths /\ pc'[r] = "app"
<1>1. PICK c \in Stores, a \in Seq(Snaps), s \in Snaps, n \in Nat \cup {-1}, ts \in SUBSET Nat :
        c = committed[r] /\ a = avail[r] /\ s = stage[r] /\ n = timestamp[r] /\ ts = timestamps[r]
  BY DEF Typed
<1>2. /\ Full(c, a) /\ IsFiniteSet(ts) /\ Cardinality(ts) <= Depth + 1
      /\ DOMAIN c \subseteq 0 .. n /\ ts \subseteq 0 .. n /\ todo[r] = {}
  BY <1>1 DEF Pooled
<1>3. n + 1 \in Nat /\ n + 1 \notin DOMAIN c /\ n \in Int /\ 0 .. n \subseteq 0 .. n + 1 /\ n + 1 \in 0 .. n + 1
  BY <1>2
<1> DEFINE e == Inserted(c, n + 1, s)
           p == Recycled(e, a)
           b == SubSeq(p, 1, Len(p) - 1)
           f == Trimmed(e)
<1>4. /\ p # << >> /\ p[Len(p)] \in Snaps /\ f \in Stores /\ b \in Seq(Snaps) /\ Full(f, b)
      /\ Cardinality(DOMAIN c) = Depth + 1 => DOMAIN f = (DOMAIN c \cup {n + 1}) \ {Min(DOMAIN c \cup {n + 1})}
      /\ Cardinality(DOMAIN c) # Depth + 1 => DOMAIN f = DOMAIN c \cup {n + 1}
  <2>1. PICK t \in Nat : t = n + 1 /\ t \notin DOMAIN c
    BY <1>3
  <2> DEFINE e2 == Inserted(c, t, s)
             p2 == Recycled(e2, a)
  <2>2. CommitsTo(c, a, t, s)
    BY <1>2, <2>1, CommitFacts
  <2>3. /\ p2 # << >> /\ p2[Len(p2)] \in Snaps /\ Trimmed(e2) \in Stores
        /\ SubSeq(p2, 1, Len(p2) - 1) \in Seq(Snaps) /\ Full(Trimmed(e2), SubSeq(p2, 1, Len(p2) - 1))
        /\ Cardinality(DOMAIN c) = Depth + 1 => DOMAIN Trimmed(e2) = (DOMAIN c \cup {t}) \ {Min(DOMAIN c \cup {t})}
        /\ Cardinality(DOMAIN c) # Depth + 1 => DOMAIN Trimmed(e2) = DOMAIN c \cup {t}
    BY <2>2 DEF CommitsTo
  <2>4. e2 = e /\ p2 = p /\ Trimmed(e2) = f /\ SubSeq(p2, 1, Len(p2) - 1) = b
    BY <2>1
  <2> HIDE DEF e2, p2, e, p, f, b
  <2>5. QED
    BY <2>1, <2>3, <2>4
<1>5. /\ timestamp'[r] = n + 1 /\ timestamps'[r] = CommittedTimes(ts, n + 1) /\ committed'[r] = f
      /\ stage'[r] = p[Len(p)] /\ avail'[r] = b /\ pc'[r] = "app" /\ UNCHANGED todo
      /\ truth'[r] = [u \in DOMAIN truth[r] \cup {n + 1} |->
                        IF u = n + 1 THEN OwnContent(s, r) ELSE truth[r][u]]
  <2>1. LET t == timestamp[r] + 1
            e3 == Inserted(committed[r], t, stage[r])
            p3 == Recycled(e3, avail[r])
        IN  /\ timestamp'[r] = t /\ timestamps'[r] = CommittedTimes(timestamps[r], t)
            /\ committed'[r] = Trimmed(e3) /\ pc'[r] = "app"
            /\ stage'[r] = IF p3 = <<>> THEN FreshSnapshot ELSE p3[Len(p3)]
            /\ avail'[r] = IF p3 = <<>> THEN <<>> ELSE SubSeq(p3, 1, Len(p3) - 1)
            /\ truth'[r] = [u \in DOMAIN truth[r] \cup {t} |->
                              IF u = t THEN OwnContent(stage[r], r) ELSE truth[r][u]]
    BY CommitOnEffects
  <2>2. UNCHANGED todo
    BY CommitOnEffects
  <2>3. QED
    BY <1>1, <1>4, <2>1, <2>2
<1> HIDE DEF p, b, f
<1>6. /\ IsFiniteSet(timestamps'[r]) /\ Cardinality(timestamps'[r]) <= Depth + 1
      /\ timestamps'[r] \subseteq ts \cup {n + 1}
  BY <1>2, <1>3, <1>5, CommittedTimesFacts
<1>7. truth'[r] \in Truths
  <2>1. OwnContent(s, r) \in Messages
    BY ContentType, SnapFields DEF OwnContent
  <2>2. PICK w \in Truths : w = truth[r]
    BY DEF Typed
  <2>3. DOMAIN w \in SUBSET Nat /\ \A u \in DOMAIN w : w[u] \in Messages
    BY DEF Truths
  <2>4. PICK T \in SUBSET Nat : T = DOMAIN w \cup {n + 1}
    BY <1>3, <2>3
  <2>5. PICK v : v = truth'[r]
    OBVIOUS
  <2>6. v = [u \in T |-> IF u = n + 1 THEN OwnContent(s, r) ELSE w[u]]
    BY <1>5, <2>2, <2>5, <2>4
  <2>7. v \in [T -> Messages]
    BY <2>1, <2>3, <2>5, <2>6, <2>4
  <2>8. v \in Truths
    BY <2>7 DEF Truths
  <2>9. QED
    BY <2>5, <2>8
<1>8. DOMAIN f \subseteq 0 .. n + 1 /\ timestamps'[r] \subseteq 0 .. n + 1
  BY <1>2, <1>3, <1>4, <1>6
<1>9. Pooled(r)'
  BY <1>2, <1>4, <1>5, <1>6, <1>8 DEF Pooled
<1>10. QED
  BY <1>3, <1>4, <1>5, <1>6, <1>7, <1>9

LEMMA CommitOnSteady ==
  ASSUME Steady, NEW R \in SUBSET Ranks, CommitOn(R), \A r \in R : pc[r] = "stored"
  PROVE  Steady'
<1>1. \A r \in R : /\ Pooled(r)' /\ timestamp'[r] \in Nat \cup {-1} /\ timestamps'[r] \in SUBSET Nat
                   /\ committed'[r] \in Stores /\ stage'[r] \in Snaps /\ avail'[r] \in Seq(Snaps)
                   /\ truth'[r] \in Truths /\ pc'[r] = "app"
  BY CommittedRank DEF Steady
<1>2. /\ \A r \in Ranks \ R :
           /\ timestamp'[r] = timestamp[r] /\ timestamps'[r] = timestamps[r] /\ committed'[r] = committed[r]
           /\ stage'[r] = stage[r] /\ avail'[r] = avail[r] /\ truth'[r] = truth[r] /\ pc'[r] = pc[r]
      /\ OnRanks(timestamp') /\ OnRanks(timestamps') /\ OnRanks(committed') /\ OnRanks(stage')
      /\ OnRanks(avail') /\ OnRanks(truth') /\ OnRanks(pc')
      /\ UNCHANGED <<member, chan, todo, failed, broken, gen, fails, lost, fatal>>
  BY CommitOnEffects DEF Steady
<1>3. \A r \in Ranks \ R : Pooled(r)'
  BY <1>2 DEF Steady, Pooled
<1>4. Typed'
  <2>1. \A r \in Ranks : /\ timestamp'[r] \in Nat \cup {-1} /\ timestamps'[r] \in SUBSET Nat
                         /\ committed'[r] \in Stores /\ stage'[r] \in Snaps /\ avail'[r] \in Seq(Snaps)
                         /\ truth'[r] \in Truths /\ pc'[r] \in Labels
    BY <1>1, <1>2 DEF Steady, Typed, Labels
  <2>2. /\ timestamp' \in [Ranks -> Nat \cup {-1}] /\ timestamps' \in [Ranks -> SUBSET Nat]
        /\ committed' \in [Ranks -> Stores] /\ stage' \in [Ranks -> Snaps] /\ avail' \in [Ranks -> Seq(Snaps)]
        /\ truth' \in [Ranks -> Truths] /\ pc' \in [Ranks -> Labels]
    BY <1>2, <2>1, OnRanksType
  <2>3. QED
    BY <1>2, <2>2 DEF Steady, Typed
<1>5. InStep'
  BY <1>1, <1>2 DEF Steady, InStep
<1>6. QED
  BY <1>1, <1>3, <1>4, <1>5 DEF Steady

-----------------------------------------------------------------------------
(* The newest-first order of timestamps, and the vectors that are reduced *)

LEMMA NthNewestFacts ==
  ASSUME NEW S \in SUBSET Nat, IsFiniteSet(S)
  PROVE  /\ \A i \in 1 .. Cardinality(S) : NthNewest(S, i) \in S
         /\ \A t \in S : \E i \in 1 .. Cardinality(S) : NthNewest(S, i) = t
         /\ \A i \in Nat : i > Cardinality(S) => NthNewest(S, i) = -1
<1>1. Cardinality(S) \in Nat /\ S \subseteq Int
  BY FS_CardinalityType
<1>2. ASSUME NEW t \in S
      PROVE  /\ Cardinality({u \in S : u >= t}) = Cardinality(Newer(S, t)) + 1
             /\ Cardinality({u \in S : u >= t}) \in 1 .. Cardinality(S)
  <2>1. {u \in S : u >= t} = Newer(S, t) \cup {t} /\ t \notin Newer(S, t)
    <3>1. \A u \in S : (u >= t <=> u > t \/ u = t) /\ ~(t > t)
      BY <1>1
    <3>2. QED
      BY <3>1 DEF Newer
  <2>2. IsFiniteSet(Newer(S, t)) /\ Cardinality(Newer(S, t)) \in 0 .. Cardinality(S) - 1
    BY <1>1, NewerFacts
  <2>3. Cardinality(Newer(S, t) \cup {t}) = Cardinality(Newer(S, t)) + 1
    BY <2>1, <2>2, FS_AddElement
  <2>4. QED
    BY <1>1, <2>1, <2>2, <2>3
<1>3. ASSUME NEW i \in 1 .. Cardinality(S)
      PROVE  NthNewest(S, i) \in S /\ Cardinality({u \in S : u >= NthNewest(S, i)}) = i
  <2>1. i - 1 \in 0 .. Cardinality(S) - 1
    BY <1>1
  <2>2. PICK t \in S : Cardinality(Newer(S, t)) = i - 1
    BY <1>1, <2>1, PositionTaken
  <2>3. Cardinality({u \in S : u >= t}) = i
    BY <1>2, <2>2
  <2>4. ~(i > Cardinality(S))
    BY <1>1
  <2>5. QED
    BY <2>3, <2>4 DEF NthNewest
<1>4. ASSUME NEW t \in S PROVE \E i \in 1 .. Cardinality(S) : NthNewest(S, i) = t
  <2>1. PICK i \in 1 .. Cardinality(S) : Cardinality({u \in S : u >= t}) = i
    BY <1>2
  <2>2. PICK v \in S : v = NthNewest(S, i) /\ Cardinality({u \in S : u >= v}) = i
    BY <1>3
  <2>3. Cardinality(Newer(S, v)) = Cardinality(Newer(S, t)) /\ Cardinality(Newer(S, v)) \in Int
    <3>1. Cardinality(Newer(S, v)) \in 0 .. Cardinality(S) - 1 /\ Cardinality(Newer(S, t)) \in 0 .. Cardinality(S) - 1
      BY <1>1, NewerFacts
    <3>2. QED
      BY <1>2, <2>1, <2>2, <3>1
  <2>4. ~(v < t) /\ ~(t < v)
    <3>1. v < t => Cardinality(Newer(S, t)) < Cardinality(Newer(S, v))
      BY <1>1, NewerDecreases
    <3>2. t < v => Cardinality(Newer(S, v)) < Cardinality(Newer(S, t))
      BY <1>1, NewerDecreases
    <3>3. QED
      BY <2>3, <3>1, <3>2
  <2>5. QED
    BY <1>1, <2>2, <2>4
<1>5. ASSUME NEW i \in Nat, i > Cardinality(S) PROVE NthNewest(S, i) = -1
  BY <1>5 DEF NthNewest
<1>6. QED
  BY <1>3, <1>4, <1>5

LEMMA ImageFinite ==
  ASSUME NEW f, IsFiniteSet(DOMAIN f), NEW T, T = {f[x] : x \in DOMAIN f}
  PROVE  IsFiniteSet(T) /\ Cardinality(T) <= Cardinality(DOMAIN f)
<1> DEFINE g == [x \in DOMAIN f |-> f[x]]
<1>1. g \in Surjection(DOMAIN f, T)
  BY DEF Surjection
<1>2. QED
  BY <1>1, FS_Surjection

\* The elementwise maximum of the vectors of the ranks, where some rank has an element.
LEMMA SyncedFacts ==
  ASSUME Steady
  PROVE  /\ SyncedTimestamps \in SUBSET Nat /\ IsFiniteSet(SyncedTimestamps)
         /\ Cardinality(SyncedTimestamps) <= Depth + 1
<1> DEFINE sizes == {Cardinality(timestamps[r]) : r \in Ranks}
           n == Max(sizes)
           top(i) == {NthNewest(timestamps[r], i) : r \in Ranks}
           f == [r \in Ranks |-> Cardinality(timestamps[r])]
           h == [i \in 1 .. n |-> Max(top(i))]
<1>1. \A r \in Ranks : /\ timestamps[r] \in SUBSET Nat /\ IsFiniteSet(timestamps[r])
                       /\ Cardinality(timestamps[r]) \in Nat /\ Cardinality(timestamps[r]) <= Depth + 1
  BY FS_CardinalityType DEF Steady, Typed, Pooled
<1>2. IsFiniteSet(sizes) /\ sizes # {} /\ sizes \subseteq Int
  <2>1. DOMAIN f = Ranks /\ sizes = {f[x] : x \in DOMAIN f}
    OBVIOUS
  <2>2. IsFiniteSet(DOMAIN f) /\ sizes # {}
    <3>1. PICK r \in Ranks : TRUE
      BY RingFacts
    <3>2. Cardinality(timestamps[r]) \in sizes
      OBVIOUS
    <3>3. IsFiniteSet(Ranks)
      BY RingFacts
    <3>4. QED
      BY <3>2, <3>3
  <2> HIDE DEF f, sizes
  <2>3. IsFiniteSet(sizes)
    BY <2>1, <2>2, ImageFinite
  <2>4. QED
    BY <1>1, <2>2, <2>3 DEF sizes
<1>3. PICK q \in Ranks : n = Cardinality(timestamps[q])
  <2>1. n \in sizes
    BY <1>2, MaxOf
  <2>2. QED
    BY <2>1
<1>4. n \in Nat /\ n <= Depth + 1
  BY <1>1, <1>3
<1>5. ASSUME NEW i \in 1 .. n PROVE Max(top(i)) \in Nat
  <2> DEFINE g == [r \in Ranks |-> NthNewest(timestamps[r], i)]
  <2>1. DOMAIN g = Ranks /\ top(i) = {g[x] : x \in DOMAIN g}
    OBVIOUS
  <2>2. IsFiniteSet(DOMAIN g) /\ top(i) # {}
    BY <2>1, RingFacts
  <2>3. IsFiniteSet(top(i))
    <3> HIDE DEF g, top
    <3>1. QED
      BY <2>1, <2>2, ImageFinite
  <2>4. NthNewest(timestamps[q], i) \in Nat
    BY <1>1, <1>3, NthNewestFacts
  <2>5. ASSUME NEW r \in Ranks PROVE NthNewest(timestamps[r], i) \in Int
    <3>1. i \in Nat /\ (i > Cardinality(timestamps[r]) \/ i \in 1 .. Cardinality(timestamps[r]))
      BY <1>1, <1>4
    <3>2. i \in 1 .. Cardinality(timestamps[r]) => NthNewest(timestamps[r], i) \in timestamps[r]
      BY <1>1, NthNewestFacts
    <3>3. i > Cardinality(timestamps[r]) => NthNewest(timestamps[r], i) = -1
      BY <1>1, <3>1, NthNewestFacts
    <3>4. QED
      BY <1>1, <3>1, <3>2, <3>3
  <2>6. top(i) \subseteq Int /\ NthNewest(timestamps[q], i) \in top(i)
    BY <2>5
  <2>7. Max(top(i)) \in top(i) /\ \A t \in top(i) : t <= Max(top(i))
    <3> HIDE DEF top
    <3>1. QED
      BY <2>2, <2>3, <2>6, MaxOf
  <2>8. QED
    <3> HIDE DEF top
    <3>1. Max(top(i)) \in Int /\ NthNewest(timestamps[q], i) <= Max(top(i))
      BY <2>6, <2>7
    <3>2. QED
      BY <2>4, <3>1
<1>6. SyncedTimestamps = {h[i] : i \in DOMAIN h} /\ DOMAIN h = 1 .. n
  BY DEF SyncedTimestamps
<1>7. IsFiniteSet(1 .. n) /\ Cardinality(1 .. n) = n
  BY <1>4, FS_Interval
<1>8. SyncedTimestamps \in SUBSET Nat
  <2>1. \A i \in 1 .. n : h[i] \in Nat
    BY <1>5
  <2> HIDE DEF h
  <2>2. QED
    BY <1>6, <2>1
<1>9. IsFiniteSet(SyncedTimestamps) /\ Cardinality(SyncedTimestamps) <= Cardinality(1 .. n)
  <2> HIDE DEF h, n
  <2>1. QED
    BY <1>6, <1>7, ImageFinite
<1>10. Cardinality(SyncedTimestamps) \in Nat /\ Depth \in Nat
  BY <1>9, FS_CardinalityType, RingFacts
<1>11. QED
  BY <1>4, <1>7, <1>8, <1>9, <1>10

OnTimes(c, ts) == [u \in DOMAIN c \cap ts |-> c[u]]

\* What cleanup_timestamps leaves of a member, and of its pool.
Cleans(r, ts) ==
  LET f == OnTimes(committed[r], ts)
  IN  /\ f \in Stores /\ DOMAIN f = DOMAIN committed[r] \cap ts
      /\ CleanedPool(r, ts) \in Seq(Snaps) /\ Full(f, CleanedPool(r, ts))
      /\ DOMAIN committed[r] \subseteq ts => CleanedPool(r, ts) = avail[r] /\ f = committed[r]

LEMMA CleanedFacts ==
  ASSUME NEW r \in Ranks, committed[r] \in Stores, avail[r] \in Seq(Snaps), Full(committed[r], avail[r]),
         NEW ts \in SUBSET Nat
  PROVE  Cleans(r, ts)
<1>1. PICK c \in Stores, a \in Seq(Snaps) : c = committed[r] /\ a = avail[r] /\ Full(c, a)
  OBVIOUS
<1> DEFINE f == OnTimes(c, ts)
           U == Unknown(r, ts)
           D == DOMAIN c \cap ts
<1>2. DOMAIN c \in SUBSET Nat /\ c \in [DOMAIN c -> Snaps]
  BY StoreFields
<1>3. U = DOMAIN c \ ts
  BY <1>1 DEF Unknown
<1> HIDE DEF U
<1>4. /\ IsFiniteSet(U) /\ IsFiniteSet(D) /\ U \in SUBSET Nat
      /\ Cardinality(U) \in Nat /\ Cardinality(D) \in Nat /\ Cardinality(D) + Cardinality(U) = Cardinality(DOMAIN c)
      /\ Cardinality(DOMAIN c) \in Nat
  <2>1. IsFiniteSet(DOMAIN c)
    BY <1>1 DEF Full
  <2>2. IsFiniteSet(U) /\ IsFiniteSet(D)
    BY <1>3, <2>1, FS_Subset
  <2>3. D \cup U = DOMAIN c /\ D \cap U = {}
    BY <1>3
  <2>4. Cardinality(D \cup U) = Cardinality(D) + Cardinality(U) - Cardinality(D \cap U)
    BY <2>2, FS_Union
  <2>5. Cardinality(D \cap U) = 0
    BY <2>3, FS_EmptySet
  <2>6. Cardinality(U) \in Nat /\ Cardinality(D) \in Nat /\ Cardinality(DOMAIN c) \in Nat
    BY <2>1, <2>2, FS_CardinalityType
  <2>7. U \in SUBSET Nat
    BY <1>2, <1>3
  <2> HIDE DEF D
  <2>8. Cardinality(D) + Cardinality(U) = Cardinality(DOMAIN c)
    <3>1. PICK x \in Nat, y \in Nat, z \in Nat : x = Cardinality(D) /\ y = Cardinality(U) /\ z = Cardinality(DOMAIN c)
      BY <2>6
    <3>2. z = x + y - 0
      BY <2>3, <2>4, <2>5, <3>1
    <3>3. x + y = z
      BY <3>2
    <3>4. QED
      BY <3>1, <3>3
  <2>9. QED
    BY <2>2, <2>6, <2>7, <2>8
<1>5. PICK k \in Nat : k = Cardinality(U)
  BY <1>4
<1> DEFINE b == [i \in 1 .. k |-> reset(committed[r][NthNewest(U, k + 1 - i)])]
<1>6. \A i \in 1 .. k : reset(committed[r][NthNewest(U, k + 1 - i)]) \in Snaps
  <2>1. TAKE i \in 1 .. k
  <2>2. k + 1 - i \in 1 .. Cardinality(U)
    BY <1>5
  <2>3. NthNewest(U, k + 1 - i) \in DOMAIN c
    BY <1>3, <1>4, <2>2, NthNewestFacts
  <2>4. committed[r][NthNewest(U, k + 1 - i)] \in Snaps
    BY <1>1, <1>2, <2>3
  <2>5. QED
    BY <2>4, ResetType
<1>7. b \in Seq(Snaps) /\ Len(b) = k
  BY <1>6
<1>8. CleanedPool(r, ts) = a \o b
  BY <1>1, <1>5 DEF CleanedPool, U
<1> HIDE DEF b
<1>9. a \o b \in Seq(Snaps) /\ Len(a \o b) = Len(a) + k
  BY <1>7, ConcatProperties
<1>10. DOMAIN f = D /\ f \in [D -> Snaps] /\ D \in SUBSET Nat
  BY <1>2 DEF OnTimes
<1>11. f \in Stores
  BY <1>10, StoreFields
<1>12. Full(f, a \o b)
  <2>1. PICK n \in Nat, d \in Nat : n = Len(a) /\ d = Cardinality(D)
    BY <1>4
  <2>2. n + (d + k) = 2 * (Depth + 1) /\ d + k <= Depth + 1 /\ Depth \in Nat
    BY <1>1, <1>4, <1>5, <2>1, RingFacts DEF Full
  <2>3. n + k + d = 2 * (Depth + 1) /\ d <= Depth + 1
    BY <2>2
  <2>4. QED
    BY <1>4, <1>9, <1>10, <2>1, <2>3 DEF Full
<1>13. ASSUME DOMAIN c \subseteq ts PROVE a \o b = a /\ f = c
  <2>1. U = {} /\ D = DOMAIN c
    BY <1>3, <1>13
  <2>2. k = 0
    BY <1>5, <2>1, FS_EmptySet
  <2>3. b = << >>
    BY <1>7, <2>2, EmptySeq
  <2>4. a \o b = a
    BY <2>3
  <2>5. f = c
    BY <1>2, <2>1 DEF OnTimes
  <2>6. QED
    BY <2>4, <2>5
<1>14. QED
  BY <1>1, <1>8, <1>9, <1>10, <1>11, <1>12, <1>13 DEF Cleans

\* What sync_timestamps does on the ranks that complete it.
LEMMA SyncEffects ==
  ASSUME Typed, SyncTimestamps
  PROVE  \E done \in SUBSET Ranks :
           /\ done \subseteq Ranks \ failed /\ (~broken => done = Ranks) /\ failed # Ranks
           /\ \A r \in Ranks \ failed : pc[r] = "init"
           /\ \A r \in Ranks \ done :
                /\ timestamp'[r] = timestamp[r] /\ timestamps'[r] = timestamps[r] /\ committed'[r] = committed[r]
                /\ avail'[r] = avail[r] /\ todo'[r] = todo[r]
                /\ pc'[r] = IF r \in failed THEN pc[r] ELSE "recover"
           /\ \A r \in done :
                /\ timestamp'[r] = (IF SyncedTimestamps = {} THEN -1 ELSE Max(SyncedTimestamps))
                /\ timestamps'[r] = SyncedTimestamps /\ avail'[r] = CleanedPool(r, SyncedTimestamps)
                /\ committed'[r] = OnTimes(committed[r], SyncedTimestamps)
                /\ todo'[r] = SyncedTimestamps /\ pc'[r] = "repair"
           /\ OnRanks(timestamp') /\ OnRanks(timestamps') /\ OnRanks(committed') /\ OnRanks(todo')
           /\ OnRanks(avail') /\ OnRanks(pc')
           /\ UNCHANGED <<member, stage, chan, failed, broken, gen, fails, lost, fatal, truth>>
<1>1. PICK ts : ts = SyncedTimestamps
  OBVIOUS
<1>2. PICK done \in SUBSET Ranks :
        /\ done \subseteq Ranks \ failed /\ (~broken => done = Ranks)
        /\ timestamps' = [r \in Ranks |-> IF r \in done THEN ts ELSE timestamps[r]]
        /\ timestamp' = [r \in Ranks |-> IF r \in done THEN IF ts = {} THEN -1 ELSE Max(ts) ELSE timestamp[r]]
        /\ committed' = [r \in Ranks |-> IF r \in done THEN [u \in DOMAIN committed[r] \cap ts |-> committed[r][u]]
                                         ELSE committed[r]]
        /\ avail' = [r \in Ranks |-> IF r \in done THEN CleanedPool(r, ts) ELSE avail[r]]
        /\ todo' = [r \in Ranks |-> IF r \in done THEN ts ELSE todo[r]]
        /\ pc' = [r \in Ranks |-> IF r \in done THEN "repair" ELSE IF r \in failed THEN pc[r] ELSE "recover"]
  BY <1>1 DEF SyncTimestamps, Completes
<1>3. /\ failed # Ranks /\ \A r \in Ranks \ failed : pc[r] = "init"
      /\ UNCHANGED <<member, stage, chan, failed, broken, gen, fails, lost, fatal, truth>>
  BY DEF SyncTimestamps, Assembled, faultVars, ghostVars
<1>4. QED
  BY <1>1, <1>2, <1>3 DEF OnRanks, OnTimes

LEMMA SyncSteady ==
  ASSUME Steady, SyncTimestamps
  PROVE  Steady'
<1>1. PICK ts \in SUBSET Nat : ts = SyncedTimestamps /\ IsFiniteSet(ts) /\ Cardinality(ts) <= Depth + 1
  BY SyncedFacts
<1>2. PICK n \in Nat \cup {-1} : n = (IF ts = {} THEN -1 ELSE Max(ts)) /\ ts \subseteq 0 .. n
  <2>1. CASE ts = {}
    BY <2>1
  <2>2. CASE ts # {}
    <3>1. ts \subseteq Int
      BY <1>1
    <3>2. Max(ts) \in ts /\ \A t \in ts : t <= Max(ts)
      BY <1>1, <2>2, <3>1, MaxOf
    <3>3. PICK n \in Nat : n = Max(ts)
      BY <1>1, <3>2
    <3>4. ts \subseteq 0 .. n
      BY <1>1, <3>2, <3>3
    <3>5. QED
      BY <2>2, <3>3, <3>4
  <2>3. QED
    BY <2>1, <2>2
<1>3. PICK done \in SUBSET Ranks :
        /\ done \subseteq Ranks \ failed
        /\ \A r \in Ranks \ failed : pc[r] = "init"
        /\ \A r \in Ranks \ done :
             /\ timestamp'[r] = timestamp[r] /\ timestamps'[r] = timestamps[r] /\ committed'[r] = committed[r]
             /\ avail'[r] = avail[r] /\ todo'[r] = todo[r]
             /\ pc'[r] = IF r \in failed THEN pc[r] ELSE "recover"
        /\ \A r \in done :
             /\ timestamp'[r] = n
             /\ timestamps'[r] = ts /\ avail'[r] = CleanedPool(r, ts)
             /\ committed'[r] = OnTimes(committed[r], ts)
             /\ todo'[r] = ts /\ pc'[r] = "repair"
        /\ OnRanks(timestamp') /\ OnRanks(timestamps') /\ OnRanks(committed') /\ OnRanks(todo')
        /\ OnRanks(avail') /\ OnRanks(pc')
        /\ UNCHANGED <<member, stage, chan, failed, broken, gen, fails, lost, fatal, truth>>
  <2>1. Typed
    BY DEF Steady
  <2>2. QED
    BY ZenonT(60), <1>1, <1>2, <2>1, SyncEffects
<1>4. ASSUME NEW r \in done
      PROVE  /\ committed'[r] \in Stores /\ avail'[r] \in Seq(Snaps) /\ Full(committed'[r], avail'[r])
             /\ DOMAIN committed'[r] \subseteq ts
  <2>1. r \in Ranks /\ committed[r] \in Stores /\ avail[r] \in Seq(Snaps) /\ Full(committed[r], avail[r])
    BY DEF Steady, Typed, Pooled
  <2>2. Cleans(r, ts)
    BY <2>1, CleanedFacts
  <2>3. committed'[r] = OnTimes(committed[r], ts) /\ avail'[r] = CleanedPool(r, ts)
    BY <1>3
  <2>4. QED
    BY <2>2, <2>3 DEF Cleans
<1>5. ASSUME NEW r \in Ranks
      PROVE  /\ timestamp'[r] \in Nat \cup {-1} /\ timestamps'[r] \in SUBSET Nat /\ committed'[r] \in Stores
             /\ avail'[r] \in Seq(Snaps) /\ todo'[r] \in SUBSET Nat /\ pc'[r] \in Labels /\ Pooled(r)'
  <2>1. CASE r \in done
    <3>1. /\ timestamp'[r] = n /\ timestamps'[r] = ts /\ todo'[r] = ts /\ pc'[r] = "repair"
      BY <1>3, <2>1
    <3>2. Pooled(r)'
      BY <1>1, <1>2, <1>4, <2>1, <3>1 DEF Pooled
    <3>3. QED
      BY <1>4, <2>1, <3>1, <3>2 DEF Labels
  <2>2. CASE r \notin done
    <3>1. /\ timestamp'[r] = timestamp[r] /\ timestamps'[r] = timestamps[r] /\ committed'[r] = committed[r]
          /\ avail'[r] = avail[r] /\ todo'[r] = todo[r] /\ pc'[r] = (IF r \in failed THEN pc[r] ELSE "recover")
      BY <1>3, <2>2
    <3>2. Pooled(r)'
      BY <3>1 DEF Steady, Pooled
    <3>3. QED
      BY <3>1, <3>2 DEF Steady, Typed, Labels
  <2>3. QED
    BY <2>1, <2>2
<1>6. Typed'
  <2>1. /\ timestamp' \in [Ranks -> Nat \cup {-1}] /\ timestamps' \in [Ranks -> SUBSET Nat]
        /\ committed' \in [Ranks -> Stores] /\ avail' \in [Ranks -> Seq(Snaps)]
        /\ todo' \in [Ranks -> SUBSET Nat] /\ pc' \in [Ranks -> Labels]
    BY <1>3, <1>5, OnRanksType
  <2>2. QED
    BY <1>3, <2>1 DEF Steady, Typed
<1>7. InStep'
  BY <1>3 DEF Steady, InStep
<1>8. QED
  BY <1>5, <1>6, <1>7 DEF Steady

-----------------------------------------------------------------------------
(* A turn of the repair *)

LEMMA StoreElem ==
  ASSUME Typed, NEW r \in Ranks, NEW t \in DOMAIN committed[r]
  PROVE  committed[r][t] \in Snaps /\ t \in Nat /\ committed[r] \in Stores
<1>1. PICK c \in Stores : c = committed[r]
  BY DEF Typed
<1>2. DOMAIN c \in SUBSET Nat /\ c \in [DOMAIN c -> Snaps]
  BY StoreFields
<1>3. QED
  BY <1>1, <1>2

\* What the only rank without a snapshot has to rebuild it from.
LEMMA RebuiltFacts ==
  ASSUME Typed, NEW m \in Ranks, NEW t, Missing(t) = {m}, avail[m] # << >>
  PROVE  /\ \A r \in Ranks : r # m => t \in DOMAIN committed[r]
         /\ BcastRoot(t) \in Ranks /\ BcastRoot(t) # m /\ left(m) # m /\ right(m) # m
         /\ left(m) \in Ranks /\ right(m) \in Ranks
         /\ committed[BcastRoot(t)][t] \in Snaps /\ committed[right(m)][t] \in Snaps
         /\ committed[left(m)][t] \in Snaps /\ avail[m][Len(avail[m])] \in Snaps /\ t \in Nat
<1>1. \A r \in Ranks : r # m => t \in DOMAIN committed[r]
  BY DEF Missing
<1>2. left(m) \in Ranks /\ right(m) \in Ranks /\ left(m) # m /\ right(m) # m
  BY RingFacts
<1>3. BcastRoot(t) \in Ranks \ {m}
  <2>1. IsFiniteSet(Ranks \ {m}) /\ Ranks \ {m} # {} /\ Ranks \ {m} \subseteq Int
    BY <1>2, RingFacts, FS_Subset
  <2>2. Max(Ranks \ {m}) \in Ranks \ {m}
    BY <2>1, MaxOf
  <2>3. QED
    BY <2>2 DEF BcastRoot
<1>4. avail[m][Len(avail[m])] \in Snaps
  <2>1. PICK a \in Seq(Snaps) : a = avail[m] /\ a # << >>
    BY DEF Typed
  <2>2. Len(a) \in 1 .. Len(a)
    BY <2>1, EmptySeq, LenProperties
  <2>3. a[Len(a)] \in Snaps
    BY <2>2, ElementOfSeq
  <2>4. QED
    BY <2>1, <2>3
<1>5. QED
  BY <1>1, <1>2, <1>3, <1>4, StoreElem

LEMMA RebuiltType ==
  ASSUME Typed, NEW m \in Ranks, NEW t, Missing(t) = {m}, avail[m] # << >>
  PROVE  Rebuilt(m, t) \in Snaps
<1>1. PICK e \in Snaps, x \in Snaps, y \in Snaps, z \in Snaps :
        /\ e = avail[m][Len(avail[m])] /\ x = committed[BcastRoot(t)][t]
        /\ y = committed[right(m)][t] /\ z = committed[left(m)][t]
  BY RebuiltFacts
<1>2. left(m) \in Ranks
  BY RingFacts
<1>3. PICK S \in SUBSET Elems : S = e.pstaged \cup x.prot[left(m)]
  BY <1>2, SnapFields
<1>4. x.prot[m] \in SUBSET Elems /\ x.prot[left(m)] \in SUBSET Elems
  BY <1>2, SnapFields
<1>5. Content(y.part, y.pstaged) \in Messages /\ Content(z.own, x.prot[left(m)]) \in Messages
  BY <1>4, SnapFields, ContentType
<1>6. Unpacked(Blank, x.prot[m], Content(y.part, y.pstaged)) \in Buffers
  BY <1>4, <1>5, UnpackedType, FreshType
<1>7. Unpacked(e.part, S, Content(z.own, x.prot[left(m)])) \in Buffers
  BY <1>5, UnpackedType, SnapFields
<1>8. [NoSets EXCEPT ![m] = x.prot[m]] \in Layouts /\ x.prot \in Layouts
  BY <1>4, FreshType, SnapFields DEF Layouts
<1>9. Rebuilt(m, t) = [own |-> Unpacked(Blank, x.prot[m], Content(y.part, y.pstaged)),
                       part |-> Unpacked(e.part, S, Content(z.own, x.prot[left(m)])),
                       staged |-> [NoSets EXCEPT ![m] = x.prot[m]], prot |-> x.prot, pstaged |-> S]
  BY <1>1, <1>3 DEF Rebuilt, BroadcastSubsets
<1>10. QED
  BY <1>6, <1>7, <1>8, <1>9 DEF Snaps

Reprotected(c, t, prot) == [c EXCEPT ![t].prot = prot]

LEMMA ReprotectedFacts ==
  ASSUME NEW c \in Stores, NEW t \in DOMAIN c, NEW prot \in Layouts
  PROVE  /\ Reprotected(c, t, prot) \in Stores /\ DOMAIN Reprotected(c, t, prot) = DOMAIN c
         /\ \A u \in DOMAIN c : u # t => Reprotected(c, t, prot)[u] = c[u]
         /\ Reprotected(c, t, prot)[t] = [c[t] EXCEPT !.prot = prot]
<1> DEFINE d == Reprotected(c, t, prot)
<1>1. DOMAIN c \in SUBSET Nat /\ c \in [DOMAIN c -> Snaps]
  BY StoreFields
<1>2. /\ DOMAIN d = DOMAIN c /\ d[t] = [c[t] EXCEPT !.prot = prot] /\ \A u \in DOMAIN c : u # t => d[u] = c[u]
      /\ d = [u \in DOMAIN c |-> d[u]]
  BY DEF Reprotected
<1>3. c[t] \in Snaps /\ [c[t] EXCEPT !.prot = prot] \in Snaps
  <2>1. PICK s \in Snaps : s = c[t]
    BY <1>1
  <2>2. [s EXCEPT !.prot = prot] \in Snaps
    BY DEF Snaps
  <2>3. QED
    BY <2>1, <2>2
<1> HIDE DEF d
<1>4. \A u \in DOMAIN c : d[u] \in Snaps
  BY <1>1, <1>2, <1>3
<1>5. d \in Stores
  BY <1>1, <1>2, <1>4, StoreFields
<1>6. QED
  BY <1>2, <1>5 DEF d

\* What a turn does: the snapshot of the one rank that misses it is rebuilt, or there is nothing to do.
Sole(t) == Cardinality(Missing(t)) = 1 /\ failed = {}

Aborts(t) ==
  /\ Sole(t) /\ \E m \in Missing(t) : Truncates(m, t)
  /\ pc' = [r \in Ranks |-> "aborted"] /\ UNCHANGED <<member, committed, avail, todo>>

Turns(t) ==
  /\ Sole(t) => \A m \in Missing(t) : ~Truncates(m, t)
  /\ \E done \in SUBSET (Ranks \ failed) :
       /\ ~broken => done = Ranks
       /\ OnRanks(pc') /\ OnRanks(todo') /\ OnRanks(member') /\ OnRanks(committed') /\ OnRanks(avail')
       /\ \A r \in Ranks :
            /\ pc'[r] = (IF r \in done \cup failed THEN pc[r] ELSE "recover")
            /\ todo'[r] = (IF r \in done THEN todo[r] \ {t} ELSE todo[r])
            /\ member'[r] = (member[r] \/ r \in done)
            /\ committed'[r] = (IF r \notin done \/ ~Sole(t) THEN committed[r]
                                ELSE IF r \in Missing(t) THEN Inserted(committed[r], t, Rebuilt(r, t))
                                ELSE Reprotected(committed[r], t, BroadcastSubsets(t)))
            /\ avail'[r] = (IF r \notin done \/ ~Sole(t) \/ r \notin Missing(t) THEN avail[r]
                            ELSE SubSeq(avail[r], 1, Len(avail[r]) - 1))

\* The turn at t, for the rank m that misses it and the subsets broadcast.
Turned(t, m, prot) ==
  IF Cardinality(Missing(t)) = 1 /\ failed = {} /\ Truncates(m, t)
  THEN pc' = [r \in Ranks |-> "aborted"] /\ UNCHANGED <<memberVars, todo>>
  ELSE \E done \in SUBSET Ranks :
         /\ Completes(done)
         /\ pc' = [r \in Ranks |-> IF r \in done \cup failed THEN pc[r] ELSE "recover"]
         /\ todo' = [r \in Ranks |-> IF r \in done THEN todo[r] \ {t} ELSE todo[r]]
         /\ member' = [r \in Ranks |-> member[r] \/ r \in done]
         /\ IF Cardinality(Missing(t)) = 1 /\ failed = {}
            THEN /\ committed' = [r \in Ranks |->
                                    IF r \notin done THEN committed[r]
                                    ELSE IF r = m THEN Inserted(committed[r], t, Rebuilt(r, t))
                                    ELSE [committed[r] EXCEPT ![t].prot = prot]]
                 /\ avail' = [r \in Ranks |-> IF r \in done \cap Missing(t)
                                              THEN SubSeq(avail[r], 1, Len(avail[r]) - 1) ELSE avail[r]]
            ELSE UNCHANGED <<committed, avail>>
         /\ UNCHANGED stage

LEMMA RepairEffects ==
  ASSUME Typed, RepairSnapshot
  PROVE  /\ failed # Ranks /\ \A r \in Ranks \ failed : pc[r] = "repair" /\ todo[r] # {}
         /\ UNCHANGED <<timestamps, timestamp, stage, chan, failed, broken, gen, fails, lost, fatal, truth>>
         /\ \E q \in Ranks \ failed : LET t == Max(todo[q]) IN Aborts(t) \/ Turns(t)
<1>1. /\ failed # Ranks /\ \A r \in Ranks \ failed : pc[r] = "repair" /\ todo[r] # {}
      /\ UNCHANGED <<timestamps, timestamp, stage, chan, failed, broken, gen, fails, lost, fatal, truth>>
  BY DEF RepairSnapshot, Assembled, groupVars, memberVars, faultVars, ghostVars
<1>2. PICK q \in Ranks \ failed : q = (CHOOSE r \in Ranks \ failed : TRUE)
  BY <1>1 DEF Typed
<1>3. PICK t : t = Max(todo[q])
  OBVIOUS
<1>4. PICK m : m = (CHOOSE r \in Missing(t) : TRUE)
  OBVIOUS
<1>5. PICK prot : prot = BroadcastSubsets(t)
  OBVIOUS
<1>6. IsFiniteSet(Missing(t))
  BY RingFacts, FS_Subset DEF Missing
<1>7. Sole(t) => Missing(t) = {m}
  <2>1. ASSUME Cardinality(Missing(t)) = 1 PROVE Missing(t) = {m}
    <3>1. PICK x : Missing(t) = {x}
      BY <1>6, <2>1, FS_Singleton
    <3>2. QED
      BY <1>4, <3>1
  <2>2. QED
    BY <2>1 DEF Sole
<1>8. \/ /\ Sole(t) /\ Truncates(m, t)
         /\ pc' = [r \in Ranks |-> "aborted"] /\ UNCHANGED <<member, committed, avail, todo>>
      \/ /\ ~(Sole(t) /\ Truncates(m, t))
         /\ \E done \in SUBSET Ranks :
              /\ done \subseteq Ranks \ failed /\ (~broken => done = Ranks)
              /\ pc' = [r \in Ranks |-> IF r \in done \cup failed THEN pc[r] ELSE "recover"]
              /\ todo' = [r \in Ranks |-> IF r \in done THEN todo[r] \ {t} ELSE todo[r]]
              /\ member' = [r \in Ranks |-> member[r] \/ r \in done]
              /\ IF Sole(t)
                 THEN /\ committed' = [r \in Ranks |->
                           IF r \notin done THEN committed[r]
                           ELSE IF r = m THEN Inserted(committed[r], t, Rebuilt(r, t))
                           ELSE [committed[r] EXCEPT ![t].prot = prot]]
                      /\ avail' = [r \in Ranks |-> IF r \in done \cap Missing(t)
                                                   THEN SubSeq(avail[r], 1, Len(avail[r]) - 1) ELSE avail[r]]
                 ELSE UNCHANGED <<committed, avail>>
  <2>1. t = Max(todo[CHOOSE r \in Ranks \ failed : TRUE])
    BY <1>2, <1>3
  <2>2. Turned(Max(todo[CHOOSE r \in Ranks \ failed : TRUE]),
               CHOOSE r \in Missing(Max(todo[CHOOSE r \in Ranks \ failed : TRUE])) : TRUE,
               BroadcastSubsets(Max(todo[CHOOSE r \in Ranks \ failed : TRUE])))
    BY DEF RepairSnapshot, Turned
  <2>3. Turned(t, m, prot)
    BY <1>4, <1>5, <2>1, <2>2, Zenon
  <2>4. QED
    BY <2>3 DEF Turned, Completes, Sole, memberVars
<1>9. CASE /\ Sole(t) /\ Truncates(m, t)
           /\ pc' = [r \in Ranks |-> "aborted"] /\ UNCHANGED <<member, committed, avail, todo>>
  <2>1. Aborts(t)
    BY <1>7, <1>9 DEF Aborts
  <2>2. QED
    BY <1>1, <1>3, <2>1
<1>10. CASE /\ ~(Sole(t) /\ Truncates(m, t))
         /\ \E done \in SUBSET Ranks :
              /\ done \subseteq Ranks \ failed /\ (~broken => done = Ranks)
              /\ pc' = [r \in Ranks |-> IF r \in done \cup failed THEN pc[r] ELSE "recover"]
              /\ todo' = [r \in Ranks |-> IF r \in done THEN todo[r] \ {t} ELSE todo[r]]
              /\ member' = [r \in Ranks |-> member[r] \/ r \in done]
              /\ IF Sole(t)
                 THEN /\ committed' = [r \in Ranks |->
                           IF r \notin done THEN committed[r]
                           ELSE IF r = m THEN Inserted(committed[r], t, Rebuilt(r, t))
                           ELSE [committed[r] EXCEPT ![t].prot = prot]]
                      /\ avail' = [r \in Ranks |-> IF r \in done \cap Missing(t)
                                                   THEN SubSeq(avail[r], 1, Len(avail[r]) - 1) ELSE avail[r]]
                 ELSE UNCHANGED <<committed, avail>>
  <2>1. PICK done \in SUBSET (Ranks \ failed) :
              /\ (~broken => done = Ranks)
              /\ pc' = [r \in Ranks |-> IF r \in done \cup failed THEN pc[r] ELSE "recover"]
              /\ todo' = [r \in Ranks |-> IF r \in done THEN todo[r] \ {t} ELSE todo[r]]
              /\ member' = [r \in Ranks |-> member[r] \/ r \in done]
              /\ IF Sole(t)
                 THEN /\ committed' = [r \in Ranks |->
                           IF r \notin done THEN committed[r]
                           ELSE IF r = m THEN Inserted(committed[r], t, Rebuilt(r, t))
                           ELSE [committed[r] EXCEPT ![t].prot = prot]]
                      /\ avail' = [r \in Ranks |-> IF r \in done \cap Missing(t)
                                                   THEN SubSeq(avail[r], 1, Len(avail[r]) - 1) ELSE avail[r]]
                 ELSE UNCHANGED <<committed, avail>>
    BY <1>10
  <2>2. OnRanks(pc') /\ OnRanks(todo') /\ OnRanks(member')
    BY <2>1 DEF OnRanks
  <2>3. \A r \in Ranks :
            /\ pc'[r] = (IF r \in done \cup failed THEN pc[r] ELSE "recover")
            /\ todo'[r] = (IF r \in done THEN todo[r] \ {t} ELSE todo[r])
            /\ member'[r] = (member[r] \/ r \in done)
    BY <2>1
  <2>4. OnRanks(committed') /\ OnRanks(avail')
    BY <2>1 DEF OnRanks, Typed
  <2>5. ASSUME NEW r \in Ranks
        PROVE  /\ committed'[r] = (IF r \notin done \/ ~Sole(t) THEN committed[r]
                                   ELSE IF r \in Missing(t) THEN Inserted(committed[r], t, Rebuilt(r, t))
                                   ELSE Reprotected(committed[r], t, BroadcastSubsets(t)))
               /\ avail'[r] = (IF r \notin done \/ ~Sole(t) \/ r \notin Missing(t) THEN avail[r]
                               ELSE SubSeq(avail[r], 1, Len(avail[r]) - 1))
    <3>1. CASE Sole(t)
      BY <1>5, <1>7, <2>1, <3>1 DEF Reprotected
    <3>2. CASE ~Sole(t)
      BY <2>1, <3>2
    <3>3. QED
      BY <3>1, <3>2
  <2>6. Sole(t) => \A x \in Missing(t) : ~Truncates(x, t)
    BY <1>7, <1>10
  <2>7. Turns(t)
    BY <2>1, <2>2, <2>3, <2>4, <2>5, <2>6 DEF Turns
  <2>8. QED
    BY <1>1, <1>3, <2>7
<1>11. QED
  BY <1>8, <1>9, <1>10

\* All ranks take the turn at their newest timestamp.
LEMMA RepairTurn ==
  ASSUME Steady, RepairSnapshot
  PROVE  /\ failed # Ranks /\ \A r \in Ranks \ failed : pc[r] = "repair"
         /\ UNCHANGED <<timestamps, timestamp, stage, chan, failed, broken, gen, fails, lost, fatal, truth>>
         /\ \E t \in Nat : /\ Aborts(t) \/ Turns(t)
                           /\ \A r \in Ranks \ failed : t \in todo[r] /\ \A u \in todo[r] : u <= t
<1>1. /\ failed # Ranks /\ \A r \in Ranks \ failed : pc[r] = "repair" /\ todo[r] # {}
      /\ UNCHANGED <<timestamps, timestamp, stage, chan, failed, broken, gen, fails, lost, fatal, truth>>
      /\ \E q \in Ranks \ failed : LET t == Max(todo[q]) IN Aborts(t) \/ Turns(t)
  BY RepairEffects DEF Steady
<1>2. PICK q \in Ranks \ failed : Aborts(Max(todo[q])) \/ Turns(Max(todo[q]))
  BY <1>1
<1>3. PICK S \in SUBSET Nat : S = todo[q] /\ IsFiniteSet(S) /\ S # {}
  <2>1. todo[q] \in SUBSET Nat /\ IsFiniteSet(timestamps[q]) /\ todo[q] \subseteq timestamps[q]
    BY DEF Steady, Typed, Pooled
  <2>2. IsFiniteSet(todo[q])
    BY <2>1, FS_Subset
  <2>3. QED
    BY <1>1, <2>1, <2>2
<1>4. S \subseteq Int
  BY <1>3
<1>5. Max(S) \in S /\ \A u \in S : u <= Max(S)
  BY <1>3, <1>4, MaxOf
<1>6. \A r \in Ranks \ failed : todo[r] = S
  BY <1>1, <1>3 DEF Steady, InStep
<1>7. QED
  BY <1>1, <1>2, <1>3, <1>5, <1>6

\* The rank that has rebuilt a snapshot has taken one from its pool.
LEMMA RebuiltRank ==
  ASSUME NEW c \in Stores, NEW a \in Seq(Snaps), Full(c, a), NEW S \in SUBSET Nat, IsFiniteSet(S),
         Cardinality(S) <= Depth + 1, DOMAIN c \subseteq S, NEW t \in S, t \notin DOMAIN c, NEW s \in Snaps
  PROVE  LET f == Inserted(c, t, s)
             b == SubSeq(a, 1, Len(a) - 1)
         IN  f \in Stores /\ b \in Seq(Snaps) /\ Full(f, b) /\ DOMAIN f = DOMAIN c \cup {t}
<1>1. t \in Nat
  OBVIOUS
<1>2. Inserted(c, t, s) \in Stores /\ DOMAIN Inserted(c, t, s) = DOMAIN c \cup {t}
  BY <1>1, InsertedFacts
<1>3. PICK f \in Stores : f = Inserted(c, t, s) /\ DOMAIN f = DOMAIN c \cup {t}
  BY <1>2
<1>4. PICK b : b = SubSeq(a, 1, Len(a) - 1)
  OBVIOUS
<1>5. /\ b \in Seq(Snaps) /\ Len(b) = Len(a) - 1 /\ Len(a) \in Nat /\ Cardinality(DOMAIN c) \in Nat /\ Len(a) >= 1
  BY <1>4, FullFacts
<1>6. IsFiniteSet(DOMAIN f) /\ Cardinality(DOMAIN f) = Cardinality(DOMAIN c) + 1
  <2>1. PICK D : D = DOMAIN c /\ IsFiniteSet(D) /\ t \notin D
    BY DEF Full
  <2>2. IsFiniteSet(D \cup {t}) /\ Cardinality(D \cup {t}) = Cardinality(D) + 1
    BY <2>1, FS_AddElement
  <2>3. QED
    BY <1>3, <2>1, <2>2
<1>7. Cardinality(DOMAIN f) <= Depth + 1
  <2>1. DOMAIN f \in SUBSET S
    BY <1>3
  <2>2. Cardinality(DOMAIN f) <= Cardinality(S) /\ Cardinality(S) \in Nat /\ Depth \in Nat
    BY <2>1, FS_Subset, FS_CardinalityType, RingFacts
  <2>3. QED
    BY <1>5, <1>6, <2>2
<1>8. Full(f, b)
  <2>1. PICK n \in Nat, k \in Nat : n = Len(a) /\ k = Cardinality(DOMAIN c)
    BY <1>5
  <2>2. n + k = 2 * (Depth + 1) /\ Depth \in Nat
    BY <2>1, RingFacts DEF Full
  <2>3. (n - 1) + (k + 1) = 2 * (Depth + 1)
    BY <2>2
  <2>4. QED
    BY <1>5, <1>6, <1>7, <2>1, <2>3 DEF Full
<1>9. QED
  BY <1>4, <1>5, <1>8, <1>3

LEMMA RepairSteady ==
  ASSUME Steady, RepairSnapshot
  PROVE  Steady'
<1>1. /\ \A r \in Ranks \ failed : pc[r] = "repair"
      /\ UNCHANGED <<timestamps, timestamp, stage, chan, failed, broken, gen, fails, lost, fatal, truth>>
  BY RepairTurn
<1>2. PICK t \in Nat : (Aborts(t) \/ Turns(t)) /\ \A r \in Ranks \ failed : t \in todo[r]
  BY RepairTurn
<1>3. CASE Aborts(t)
  <2>1. Typed'
    BY <1>1, <1>3 DEF Aborts, Steady, Typed, Labels
  <2>2. InStep' /\ \A r \in Ranks : Pooled(r)'
    BY <1>1, <1>3 DEF Aborts, Steady, Pooled, InStep
  <2>3. QED
    BY <2>1, <2>2 DEF Steady
<1>4. CASE Turns(t)
  <2>1. PICK done \in SUBSET (Ranks \ failed) :
       /\ OnRanks(pc') /\ OnRanks(todo') /\ OnRanks(member') /\ OnRanks(committed') /\ OnRanks(avail')
       /\ \A r \in Ranks :
            /\ pc'[r] = (IF r \in done \cup failed THEN pc[r] ELSE "recover")
            /\ todo'[r] = (IF r \in done THEN todo[r] \ {t} ELSE todo[r])
            /\ member'[r] = (member[r] \/ r \in done)
            /\ committed'[r] = (IF r \notin done \/ ~Sole(t) THEN committed[r]
                                ELSE IF r \in Missing(t) THEN Inserted(committed[r], t, Rebuilt(r, t))
                                ELSE Reprotected(committed[r], t, BroadcastSubsets(t)))
            /\ avail'[r] = (IF r \notin done \/ ~Sole(t) \/ r \notin Missing(t) THEN avail[r]
                            ELSE SubSeq(avail[r], 1, Len(avail[r]) - 1))
    BY <1>4 DEF Turns
  <2>2. \A r \in Ranks : /\ committed[r] \in Stores /\ avail[r] \in Seq(Snaps) /\ todo[r] \in SUBSET Nat
                         /\ pc[r] \in Labels /\ member[r] \in BOOLEAN /\ Pooled(r)
    BY DEF Steady, Typed
  <2>3. ASSUME NEW r \in Ranks
        PROVE  /\ committed'[r] \in Stores /\ avail'[r] \in Seq(Snaps) /\ Full(committed'[r], avail'[r])
               /\ DOMAIN committed'[r] \subseteq DOMAIN committed[r] \cup (IF r \in done THEN {t} ELSE {})
    <3>1. CASE r \notin done \/ ~Sole(t)
      BY <2>1, <2>2, <3>1 DEF Pooled
    <3>2. CASE r \in done /\ Sole(t) /\ r \in Missing(t)
      <4>1. PICK c \in Stores, a \in Seq(Snaps), S \in SUBSET Nat :
              /\ c = committed[r] /\ a = avail[r] /\ S = timestamps[r] /\ Full(c, a) /\ IsFiniteSet(S)
              /\ Cardinality(S) <= Depth + 1 /\ DOMAIN c \subseteq S /\ t \in S /\ t \notin DOMAIN c
        <5>1. t \in todo[r]
          BY <1>2, <3>2
        <5>2. timestamps[r] \in SUBSET Nat
          BY DEF Steady, Typed
        <5>3. QED
          BY <2>2, <3>2, <5>1, <5>2 DEF Pooled, Missing
      <4>2. Missing(t) = {r}
        <5>1. IsFiniteSet(Missing(t))
          BY RingFacts, FS_Subset DEF Missing
        <5>2. PICK x : Missing(t) = {x}
          BY <3>2, <5>1, FS_Singleton DEF Sole
        <5>3. QED
          BY <3>2, <5>2
      <4>3. a # << >>
        BY <4>1, FullFacts
      <4>4. PICK s \in Snaps : s = Rebuilt(r, t)
        BY <4>1, <4>2, <4>3, RebuiltType DEF Steady
      <4>5. PICK f, b : f = Inserted(c, t, s) /\ b = SubSeq(a, 1, Len(a) - 1)
        OBVIOUS
      <4>6. f \in Stores /\ b \in Seq(Snaps) /\ Full(f, b) /\ DOMAIN f = DOMAIN c \cup {t}
        BY ZenonT(60), <4>1, <4>5, RebuiltRank
      <4>7. committed'[r] = f /\ avail'[r] = b
        BY <2>1, <3>2, <4>1, <4>4, <4>5
      <4>8. QED
        BY <3>2, <4>1, <4>6, <4>7
    <3>3. CASE r \in done /\ Sole(t) /\ r \notin Missing(t)
      <4>1. t \in DOMAIN committed[r]
        BY <3>3 DEF Missing
      <4>2. BroadcastSubsets(t) \in Layouts
        <5>1. IsFiniteSet(Missing(t)) /\ Missing(t) \in SUBSET Ranks
          BY RingFacts, FS_Subset DEF Missing
        <5>2. Ranks \ Missing(t) # {} /\ IsFiniteSet(Ranks \ Missing(t)) /\ Ranks \ Missing(t) \subseteq Int
          <6>1. r \in Ranks \ Missing(t) /\ Ranks \ Missing(t) \in SUBSET Ranks
            BY <3>3
          <6>2. IsFiniteSet(Ranks \ Missing(t))
            BY <6>1, RingFacts, FS_Subset
          <6>3. Ranks \subseteq Int
            BY RingFacts
          <6>4. QED
            BY <6>1, <6>2, <6>3
        <5>3. BcastRoot(t) \in Ranks \ Missing(t)
          BY <5>2, MaxOf DEF BcastRoot
        <5>4. t \in DOMAIN committed[BcastRoot(t)] /\ BcastRoot(t) \in Ranks
          BY <5>3 DEF Missing
        <5>5. committed[BcastRoot(t)][t] \in Snaps
          BY <5>4, StoreElem DEF Steady
        <5>6. QED
          BY <5>5, SnapFields DEF BroadcastSubsets
      <4>3. PICK c \in Stores, prot \in Layouts : c = committed[r] /\ prot = BroadcastSubsets(t)
        BY <2>2, <4>2
      <4>4. Reprotected(c, t, prot) \in Stores /\ DOMAIN Reprotected(c, t, prot) = DOMAIN c
        <5>1. t \in DOMAIN c
          BY <4>1, <4>3
        <5>2. QED
          BY <5>1, ReprotectedFacts
      <4>5. committed'[r] = Reprotected(c, t, prot) /\ avail'[r] = avail[r]
        BY <2>1, <3>3, <4>3
      <4>6. Full(c, avail[r])
        BY <2>2, <4>3 DEF Pooled
      <4>7. QED
        BY <2>2, <4>3, <4>4, <4>5, <4>6 DEF Full
    <3>4. QED
      BY <3>1, <3>2, <3>3
  <2>4. ASSUME NEW r \in Ranks PROVE Pooled(r)'
    <3>1. /\ timestamps'[r] = timestamps[r] /\ timestamp'[r] = timestamp[r]
          /\ todo'[r] = (IF r \in done THEN todo[r] \ {t} ELSE todo[r])
          /\ pc'[r] = (IF r \in done \cup failed THEN pc[r] ELSE "recover")
      BY <1>1, <2>1
    <3>2. r \in done => t \in todo[r]
      BY <1>2
    <3>3. QED
      BY <2>2, <2>3, <3>1, <3>2 DEF Pooled
  <2>5. Typed'
    <3>1. \A r \in Ranks : pc'[r] \in Labels /\ todo'[r] \in SUBSET Nat /\ member'[r] \in BOOLEAN
      BY <2>1, <2>2 DEF Labels
    <3>2. /\ pc' \in [Ranks -> Labels] /\ todo' \in [Ranks -> SUBSET Nat] /\ member' \in [Ranks -> BOOLEAN]
          /\ committed' \in [Ranks -> Stores] /\ avail' \in [Ranks -> Seq(Snaps)]
      BY <2>1, <2>3, <3>1, OnRanksType
    <3>3. QED
      BY <1>1, <3>2 DEF Steady, Typed
  <2>6. InStep'
    <3>1. ASSUME NEW r \in Ranks \ failed, NEW q \in Ranks \ failed, pc'[r] = "repair", pc'[q] = "repair"
          PROVE  todo'[r] = todo'[q]
      <4>1. r \in done /\ q \in done
        BY <2>1, <3>1
      <4>2. todo[r] = todo[q]
        BY <1>1, <4>1 DEF Steady, InStep
      <4>3. QED
        BY <2>1, <4>1, <4>2
    <3>2. QED
      BY <1>1, <3>1 DEF InStep
  <2>7. QED
    BY <2>4, <2>5, <2>6 DEF Steady
<1>5. QED
  BY <1>2, <1>3, <1>4

-----------------------------------------------------------------------------
(* Storing *)

LEMMA WantedType ==
  ASSUME Typed, NEW r \in Ranks
  PROVE  Wanted(r) \in SUBSET Elems /\ NextTime(r) \in Nat
<1>1. NextTime(r) \in Nat
  <2>1. PICK n \in Nat \cup {-1} : n = timestamp[r]
    BY DEF Typed
  <2>2. n + 1 \in Nat
    OBVIOUS
  <2>3. QED
    BY <2>1, <2>2 DEF NextTime
<1>2. Parts[r] \in SUBSET Elems
  BY BuddyAssumption DEF Ranks
<1>3. PICK i \in Nat : i = NextTime(r) + (IF Replays THEN 0 ELSE gen)
  <2>1. PICK g \in Nat : g = IF Replays THEN 0 ELSE gen
    BY DEF Typed
  <2>2. PICK n \in Nat : n = NextTime(r)
    BY <1>1
  <2>3. n + g \in Nat
    OBVIOUS
  <2>4. QED
    BY <2>1, <2>2, <2>3
<1>4. PICK n \in Nat \ {0} : n = Len(Subsets)
  BY BuddyAssumption, EmptySeq, LenProperties
<1>5. i % n \in 0 .. n - 1
  BY <1>3, <1>4
<1>6. (i % n) + 1 \in 1 .. Len(Subsets)
  BY <1>4, <1>5
<1>7. Subsets[(i % n) + 1] \in (SUBSET Elems) \ {{}}
  BY <1>6, BuddyAssumption, ElementOfSeq
<1>8. QED
  BY <1>1, <1>2, <1>3, <1>4, <1>7 DEF Wanted

\* The stage of rank r after member_store or member_storev.
StagedSnap(r) ==
  [stage[r] EXCEPT
     !.own = [e \in Elems |-> IF e \in Wanted(r) THEN <<r, NextTime(r), gen>> ELSE @[e]],
     !.staged = [q \in Ranks |-> IF q = r \/ NextTime(r) \notin Varied THEN stage[r].staged[r] \cup Wanted(r) ELSE @[q]]]

LEMMA StagedSnapFacts ==
  ASSUME Typed, NEW r \in Ranks
  PROVE  /\ StagedSnap(r) \in Snaps /\ StagedSnap(r).part = stage[r].part /\ StagedSnap(r).prot = stage[r].prot
         /\ StagedSnap(r).pstaged = stage[r].pstaged
         /\ \A q \in Ranks : StagedSnap(r).staged[q] =
              IF q = r \/ NextTime(r) \notin Varied THEN stage[r].staged[r] \cup Wanted(r) ELSE stage[r].staged[q]
<1>1. PICK s \in Snaps, W \in SUBSET Elems, n \in Nat : s = stage[r] /\ W = Wanted(r) /\ n = NextTime(r)
  BY WantedType DEF Typed
<1>2. PICK o : o = [e \in Elems |-> IF e \in W THEN <<r, n, gen>> ELSE s.own[e]]
  OBVIOUS
<1>3. PICK g : g = [q \in Ranks |-> IF q = r \/ n \notin Varied THEN s.staged[r] \cup W ELSE s.staged[q]]
  OBVIOUS
<1>4. o \in Buffers
  <2>1. <<r, n, gen>> \in Data
    BY DEF Data, Typed
  <2>2. s.own \in Buffers
    BY SnapFields
  <2>3. QED
    BY <1>2, <2>1, <2>2 DEF Buffers
<1>5. g \in Layouts
  BY <1>3, SnapFields DEF Layouts
<1>6. StagedSnap(r) = [s EXCEPT !.own = o, !.staged = g]
  BY <1>1, <1>2, <1>3 DEF StagedSnap
<1>7. /\ [s EXCEPT !.own = o, !.staged = g] \in Snaps /\ [s EXCEPT !.own = o, !.staged = g].part = s.part
      /\ [s EXCEPT !.own = o, !.staged = g].prot = s.prot /\ [s EXCEPT !.own = o, !.staged = g].pstaged = s.pstaged
      /\ [s EXCEPT !.own = o, !.staged = g].staged = g
  BY <1>4, <1>5 DEF Snaps
<1>8. QED
  BY <1>1, <1>3, <1>6, <1>7

LEMMA SentType ==
  ASSUME NEW r \in Ranks, NEW s \in Snaps
  PROVE  Sent(r, s) \in Messages /\ DOMAIN Sent(r, s) = s.staged[r]
  BY SnapFields, ContentType DEF Sent

LEMMA StoreBeginEffects ==
  ASSUME Typed, NEW x \in Ranks, StoreBegin(x)
  PROVE  /\ live(x) /\ pc[x] = "app"
         /\ stage' \in [Ranks -> Snaps] /\ stage'[x] = StagedSnap(x) /\ \A r \in Ranks \ {x} : stage'[r] = stage[r]
         /\ \/ pc' = [pc EXCEPT ![x] = "exchange"] /\ UNCHANGED chan /\ NextTime(x) \in Varied
            \/ /\ pc' = [pc EXCEPT ![x] = "storing"] /\ NextTime(x) \notin Varied
               /\ chan' = [chan EXCEPT ![x] = Append(@, Sent(x, StagedSnap(x)))]
         /\ UNCHANGED <<timestamps, timestamp, member, committed, avail, todo, failed, broken, gen, fails, lost, fatal, truth>>
<1>1. stage' = [stage EXCEPT ![x] = StagedSnap(x)]
  BY DEF StoreBegin, StagedSnap
<1>2. StagedSnap(x) \in Snaps
  BY StagedSnapFacts
<1>3. stage' \in [Ranks -> Snaps] /\ stage'[x] = StagedSnap(x) /\ \A r \in Ranks \ {x} : stage'[r] = stage[r]
  BY <1>1, <1>2 DEF Typed
<1>4. \/ pc' = [pc EXCEPT ![x] = "exchange"] /\ UNCHANGED chan /\ NextTime(x) \in Varied
      \/ /\ pc' = [pc EXCEPT ![x] = "storing"] /\ NextTime(x) \notin Varied
         /\ chan' = [chan EXCEPT ![x] = Append(@, Sent(x, stage'[x]))]
  BY DEF StoreBegin
<1>5. QED
  BY <1>3, <1>4 DEF StoreBegin, groupVars, faultVars, ghostVars

\* Steps that leave what is committed, the pools and the rest of the repair alone.
LEMMA SteadyKept ==
  ASSUME Steady, UNCHANGED <<timestamps, timestamp, committed, avail, todo>>, Typed', failed \subseteq failed',
         \A r \in Ranks : \/ pc'[r] = pc[r] \/ pc'[r] \in {"recover", "aborted"}
                          \/ pc[r] \in {"app", "exchange", "storing", "stored"} /\ pc'[r] # "repair"
  PROVE  Steady'
<1>1. ASSUME NEW r \in Ranks PROVE Pooled(r)'
  BY DEF Steady, Pooled
<1>2. InStep'
  <2>1. \A r \in Ranks : pc'[r] = "repair" => pc[r] = "repair"
    OBVIOUS
  <2>2. QED
    BY <2>1 DEF Steady, InStep
<1>3. QED
  BY <1>1, <1>2 DEF Steady

LEMMA StoreBeginSteady ==
  ASSUME Steady, NEW x \in Ranks, StoreBegin(x)
  PROVE  Steady'
<1>1. Typed
  BY DEF Steady
<1>2. /\ pc[x] = "app" /\ stage' \in [Ranks -> Snaps]
      /\ \/ pc' = [pc EXCEPT ![x] = "exchange"] /\ UNCHANGED chan
         \/ /\ pc' = [pc EXCEPT ![x] = "storing"]
            /\ chan' = [chan EXCEPT ![x] = Append(@, Sent(x, StagedSnap(x)))]
      /\ UNCHANGED <<timestamps, timestamp, member, committed, avail, todo, failed, broken, gen, fails, lost, fatal, truth>>
  BY <1>1, StoreBeginEffects
<1>3. chan' \in [Ranks -> Seq(Messages)]
  <2>1. PICK msg \in Messages : msg = Sent(x, StagedSnap(x))
    BY <1>1, StagedSnapFacts, SentType
  <2>2. PICK h \in Seq(Messages) : h = chan[x]
    BY <1>1 DEF Typed
  <2>3. Append(h, msg) \in Seq(Messages)
    BY AppendProperties
  <2>4. QED
    BY <1>1, <1>2, <2>1, <2>2, <2>3 DEF Typed
<1>4. Typed'
  BY <1>1, <1>2, <1>3 DEF Typed, Labels
<1>5. QED
  BY <1>1, <1>2, <1>4, SteadyKept DEF Typed

LEMMA ExchangedFacts ==
  ASSUME Typed, NEW r \in Ranks
  PROVE  /\ Exchanged(r) \in Snaps /\ Exchanged(r).own = stage[r].own /\ Exchanged(r).part = stage[r].part
         /\ Exchanged(r).prot = stage[r].prot /\ Exchanged(r).pstaged = stage[r].pstaged
         /\ \A q \in Ranks : Exchanged(r).staged[q] = stage[q].staged[q]
<1>1. PICK g : g = [q \in Ranks |-> stage[q].staged[q]]
  OBVIOUS
<1>2. PICK s \in Snaps : s = stage[r]
  BY DEF Typed
<1>3. g \in Layouts
  <2>1. \A q \in Ranks : stage[q].staged[q] \in SUBSET Elems
    BY SnapFields DEF Typed
  <2>2. QED
    BY <1>1, <2>1 DEF Layouts
<1>4. Exchanged(r) = [s EXCEPT !.staged = g]
  BY <1>1, <1>2 DEF Exchanged
<1>5. /\ [s EXCEPT !.staged = g] \in Snaps /\ [s EXCEPT !.staged = g].own = s.own
      /\ [s EXCEPT !.staged = g].part = s.part /\ [s EXCEPT !.staged = g].prot = s.prot
      /\ [s EXCEPT !.staged = g].pstaged = s.pstaged /\ [s EXCEPT !.staged = g].staged = g
  BY <1>3 DEF Snaps
<1>6. QED
  BY <1>1, <1>2, <1>4, <1>5

LEMMA ExchangeEffects ==
  ASSUME Typed, ExchangeSubsets
  PROVE  /\ failed # Ranks /\ \A r \in Ranks \ failed : pc[r] = "exchange"
         /\ UNCHANGED <<timestamps, timestamp, member, committed, avail, todo, failed, broken, gen, fails, lost, fatal, truth>>
         /\ \E done \in SUBSET (Ranks \ failed) :
              /\ done # {} => \A r \in Ranks : pc[r] = "exchange"
              /\ OnRanks(stage') /\ OnRanks(chan') /\ OnRanks(pc') /\ (~broken => done = Ranks)
              /\ \A r \in done : /\ stage'[r] = Exchanged(r) /\ pc'[r] = "storing"
                                 /\ chan'[r] = Append(chan[r], Sent(r, Exchanged(r)))
              /\ \A r \in Ranks \ done : /\ stage'[r] = stage[r] /\ chan'[r] = chan[r]
                                         /\ pc'[r] = IF r \in failed THEN pc[r] ELSE "recover"
<1>1. PICK done \in SUBSET Ranks :
        /\ done \subseteq Ranks \ failed /\ (~broken => done = Ranks) /\ (done # {} => \A r \in Ranks : pc[r] = "exchange")
        /\ stage' = [r \in Ranks |-> IF r \in done THEN Exchanged(r) ELSE stage[r]]
        /\ chan' = [r \in Ranks |-> IF r \in done THEN Append(chan[r], Sent(r, stage'[r])) ELSE chan[r]]
        /\ pc' = [r \in Ranks |-> IF r \in done THEN "storing" ELSE IF r \in failed THEN pc[r] ELSE "recover"]
  BY DEF ExchangeSubsets, Completes
<1>2. OnRanks(stage') /\ OnRanks(chan') /\ OnRanks(pc')
  BY <1>1 DEF OnRanks
<1>3. \A r \in Ranks : /\ stage'[r] = (IF r \in done THEN Exchanged(r) ELSE stage[r])
                       /\ chan'[r] = (IF r \in done THEN Append(chan[r], Sent(r, stage'[r])) ELSE chan[r])
                       /\ pc'[r] = (IF r \in done THEN "storing" ELSE IF r \in failed THEN pc[r] ELSE "recover")
  BY <1>1
<1>4. /\ failed # Ranks /\ \A r \in Ranks \ failed : pc[r] = "exchange"
      /\ UNCHANGED <<timestamps, timestamp, member, committed, avail, todo, failed, broken, gen, fails, lost, fatal, truth>>
  BY DEF ExchangeSubsets, Assembled, groupVars, faultVars, ghostVars
<1>5. QED
  BY <1>1, <1>2, <1>3, <1>4

LEMMA ExchangeSteady ==
  ASSUME Steady, ExchangeSubsets
  PROVE  Steady'
<1>1. Typed
  BY DEF Steady
<1>2. /\ \A r \in Ranks \ failed : pc[r] = "exchange"
      /\ UNCHANGED <<timestamps, timestamp, member, committed, avail, todo, failed, broken, gen, fails, lost, fatal, truth>>
  BY <1>1, ExchangeEffects
<1>3. PICK done \in SUBSET (Ranks \ failed) :
        /\ OnRanks(stage') /\ OnRanks(chan') /\ OnRanks(pc')
        /\ \A r \in done : /\ stage'[r] = Exchanged(r) /\ pc'[r] = "storing"
                           /\ chan'[r] = Append(chan[r], Sent(r, Exchanged(r)))
        /\ \A r \in Ranks \ done : /\ stage'[r] = stage[r] /\ chan'[r] = chan[r]
                                   /\ pc'[r] = IF r \in failed THEN pc[r] ELSE "recover"
  BY <1>1, ExchangeEffects
<1>4. ASSUME NEW r \in Ranks PROVE stage'[r] \in Snaps /\ chan'[r] \in Seq(Messages) /\ pc'[r] \in Labels
  <2>1. stage[r] \in Snaps /\ chan[r] \in Seq(Messages) /\ pc[r] \in Labels
    BY <1>1 DEF Typed
  <2>2. PICK s \in Snaps : s = Exchanged(r)
    BY <1>1, ExchangedFacts
  <2>3. PICK msg \in Messages : msg = Sent(r, s)
    BY SentType
  <2>4. Append(chan[r], msg) \in Seq(Messages)
    BY <2>1, AppendProperties
  <2>5. QED
    BY <1>3, <2>1, <2>2, <2>3, <2>4 DEF Labels
<1>5. /\ stage' \in [Ranks -> Snaps] /\ chan' \in [Ranks -> Seq(Messages)] /\ pc' \in [Ranks -> Labels]
  BY <1>3, <1>4, OnRanksType
<1>6. Typed'
  BY <1>1, <1>2, <1>5 DEF Typed
<1>7. \A r \in Ranks : \/ pc'[r] = pc[r] \/ pc'[r] \in {"recover", "aborted"}
                       \/ pc[r] \in {"app", "exchange", "storing", "stored"} /\ pc'[r] # "repair"
  BY <1>2, <1>3
<1>8. QED
  BY <1>2, <1>6, <1>7, SteadyKept

\* The stage of rank r when the message msg of its left neighbour has arrived.
EndedSnap(r, msg) ==
  [stage[r] EXCEPT !.part = Unpacked(@, stage[r].staged[left(r)], msg), !.pstaged = @ \cup stage[r].staged[left(r)],
                   !.prot = [q \in Ranks |-> @[q] \cup stage[r].staged[q]], !.staged = NoSets]

LEMMA EndedSnapFacts ==
  ASSUME Typed, NEW r \in Ranks, NEW msg \in Messages
  PROVE  LET s == stage[r]
             e == EndedSnap(r, msg)
         IN  /\ e \in Snaps /\ e.own = s.own /\ e.part = Unpacked(s.part, s.staged[left(r)], msg)
             /\ e.pstaged = s.pstaged \cup s.staged[left(r)] /\ e.staged = NoSets
             /\ \A q \in Ranks : e.prot[q] = s.prot[q] \cup s.staged[q]
<1>1. PICK s \in Snaps : s = stage[r]
  BY DEF Typed
<1>2. left(r) \in Ranks
  BY RingFacts
<1>3. PICK S \in SUBSET Elems : S = s.staged[left(r)]
  BY <1>2, SnapFields
<1>4. PICK b \in Buffers : b = Unpacked(s.part, S, msg)
  BY SnapFields, UnpackedType
<1>5. PICK T \in SUBSET Elems : T = s.pstaged \cup S
  BY SnapFields
<1>6. PICK g : g = [q \in Ranks |-> s.prot[q] \cup s.staged[q]]
  OBVIOUS
<1>7. g \in Layouts
  BY <1>6, SnapFields DEF Layouts
<1>8. EndedSnap(r, msg) = [s EXCEPT !.part = b, !.pstaged = T, !.prot = g, !.staged = NoSets]
  BY <1>1, <1>3, <1>4, <1>5, <1>6 DEF EndedSnap
<1>9. PICK e : e = [s EXCEPT !.part = b, !.pstaged = T, !.prot = g, !.staged = NoSets]
  OBVIOUS
<1>10. e \in Snaps /\ e.own = s.own /\ e.part = b /\ e.pstaged = T /\ e.prot = g /\ e.staged = NoSets
  BY <1>7, <1>9, FreshType DEF Snaps
<1>11. QED
  BY <1>1, <1>3, <1>4, <1>5, <1>6, <1>8, <1>9, <1>10

\* The message is of the subset that is expected, or of another one.
Oversized(r) == Cardinality(DOMAIN Head(chan[left(r)])) > Cardinality(stage[r].staged[left(r)])

LEMMA StoreEndEffects ==
  ASSUME Typed, NEW x \in Ranks, StoreEnd(x)
  PROVE  /\ live(x) /\ pc[x] = "storing" /\ chan[left(x)] # << >> /\ Head(chan[left(x)]) \in Messages
         /\ chan' \in [Ranks -> Seq(Messages)] /\ chan'[left(x)] = Tail(chan[left(x)])
         /\ \A r \in Ranks \ {left(x)} : chan'[r] = chan[r]
         /\ \/ Oversized(x) /\ pc' = [q \in Ranks |-> "aborted"] /\ UNCHANGED stage
            \/ /\ ~Oversized(x) /\ pc' = [pc EXCEPT ![x] = "stored"] /\ stage' \in [Ranks -> Snaps]
               /\ stage'[x] = EndedSnap(x, Head(chan[left(x)])) /\ \A r \in Ranks \ {x} : stage'[r] = stage[r]
         /\ UNCHANGED <<timestamps, timestamp, member, committed, avail, todo, failed, broken, gen, fails, lost, fatal, truth>>
<1>1. PICK q \in Ranks : q = left(x)
  BY RingFacts
<1>2. PICK h \in Seq(Messages) : h = chan[q] /\ h # << >>
  BY <1>1 DEF StoreEnd, Typed
<1>3. Head(h) \in Messages /\ Tail(h) \in Seq(Messages)
  BY <1>2, HeadTailProperties
<1>4. /\ chan' \in [Ranks -> Seq(Messages)] /\ chan'[q] = Tail(chan[q]) /\ \A r \in Ranks \ {q} : chan'[r] = chan[r]
  BY <1>1, <1>2, <1>3 DEF StoreEnd, Typed
<1>5. \/ Oversized(x) /\ pc' = [r \in Ranks |-> "aborted"] /\ UNCHANGED stage
      \/ /\ ~Oversized(x) /\ pc' = [pc EXCEPT ![x] = "stored"]
         /\ stage' = [stage EXCEPT ![x] = EndedSnap(x, Head(chan[left(x)]))]
  BY DEF StoreEnd, Oversized, EndedSnap
<1>6. EndedSnap(x, Head(chan[left(x)])) \in Snaps
  BY <1>1, <1>2, <1>3, EndedSnapFacts
<1>7. /\ live(x) /\ pc[x] = "storing"
      /\ UNCHANGED <<timestamps, timestamp, member, committed, avail, todo, failed, broken, gen, fails, lost, fatal, truth>>
  BY DEF StoreEnd, groupVars, faultVars, ghostVars
<1>8. QED
  BY ZenonT(60), <1>1, <1>2, <1>3, <1>4, <1>5, <1>6, <1>7 DEF Typed

LEMMA StoreEndSteady ==
  ASSUME Steady, NEW x \in Ranks, StoreEnd(x)
  PROVE  Steady'
<1>1. Typed
  BY DEF Steady
<1>2. /\ pc[x] = "storing" /\ chan' \in [Ranks -> Seq(Messages)]
      /\ \/ pc' = [q \in Ranks |-> "aborted"] /\ UNCHANGED stage
         \/ pc' = [pc EXCEPT ![x] = "stored"] /\ stage' \in [Ranks -> Snaps]
      /\ UNCHANGED <<timestamps, timestamp, member, committed, avail, todo, failed, broken, gen, fails, lost, fatal, truth>>
  BY <1>1, StoreEndEffects
<1>3. Typed'
  BY <1>1, <1>2 DEF Typed, Labels
<1>4. QED
  BY <1>1, <1>2, <1>3, SteadyKept DEF Typed

-----------------------------------------------------------------------------
(* Failures, the recovery of the processes and the end of the repair *)

LEMMA PoolFacts ==
  Pool \in Seq(Snaps) /\ Full(<< >>, Pool) /\ \A i \in 1 .. Len(Pool) : Pool[i] = FreshSnapshot
<1>1. PICK n \in Nat : n = 2 * (Depth + 1)
  BY RingFacts
<1>2. Pool = [i \in 1 .. n |-> FreshSnapshot]
  BY <1>1 DEF Pool
<1>3. Pool \in Seq(Snaps) /\ Len(Pool) = n /\ \A i \in 1 .. n : Pool[i] = FreshSnapshot
  <2>1. PICK s \in Snaps : s = FreshSnapshot
    BY FreshType
  <2>2. PICK p : p = [i \in 1 .. n |-> s]
    OBVIOUS
  <2>3. p \in Seq(Snaps) /\ Len(p) = n /\ \A i \in 1 .. n : p[i] = s
    BY <2>2
  <2>4. QED
    BY <1>2, <2>1, <2>2, <2>3
<1>4. IsFiniteSet(DOMAIN << >>) /\ Cardinality(DOMAIN << >>) = 0
  BY StoreFields, FS_EmptySet
<1>5. Full(<< >>, Pool)
  BY <1>1, <1>3, <1>4, RingFacts DEF Full
<1>6. QED
  BY <1>3, <1>5

LEMMA FailSteady ==
  ASSUME Steady, \/ \E r \in Ranks : Fail(r) \/ Notice(r)
                 \/ FailElsewhere \/ UNCHANGED vars
  PROVE  Steady'
<1>1. /\ UNCHANGED <<timestamps, timestamp, committed, avail, todo, member, stage, chan, gen, lost, fatal, truth>>
      /\ failed \subseteq failed' /\ failed' \in SUBSET Ranks /\ broken' \in BOOLEAN
      /\ pc' = pc \/ \E x \in Ranks : pc' = [pc EXCEPT ![x] = "recover"]
  BY DEF Fail, Notice, FailElsewhere, vars, groupVars, memberVars, faultVars, ghostVars, Steady, Typed
<1>2. Typed'
  BY <1>1 DEF Steady, Typed, Labels
<1>3. QED
  BY <1>1, <1>2, SteadyKept DEF Steady, Typed

\* Process recovery, rank by rank.
LEMMA RebuildEffects ==
  ASSUME Typed, Rebuild
  PROVE  /\ broken /\ \A r \in Ranks \ failed : pc[r] = "recover"
         /\ failed' = {} /\ broken' = FALSE /\ lost' = lost \cup failed
         /\ fatal' = (fatal \/ Cardinality(lost \cup failed) > 1)
         /\ OnRanks(pc') /\ OnRanks(timestamps') /\ OnRanks(timestamp') /\ OnRanks(member') /\ OnRanks(stage')
         /\ OnRanks(committed') /\ OnRanks(avail') /\ OnRanks(chan') /\ OnRanks(todo') /\ OnRanks(truth')
         /\ gen' \in Nat
         /\ \A r \in Ranks : pc'[r] = "init" /\ chan'[r] = << >> /\ todo'[r] = {}
         /\ \A r \in failed : /\ timestamps'[r] = {} /\ timestamp'[r] = -1 /\ member'[r] = FALSE
                              /\ stage'[r] = FreshSnapshot /\ committed'[r] = << >> /\ avail'[r] = Pool
         /\ \A r \in Ranks \ failed :
              /\ timestamps'[r] = timestamps[r] /\ timestamp'[r] = timestamp[r] /\ member'[r] = member[r]
              /\ stage'[r] = stage[r] /\ committed'[r] = committed[r] /\ avail'[r] = avail[r]
         /\ \A r \in Ranks :
              /\ truth'[r] \in Truths
              /\ \A t \in DOMAIN truth'[r] : /\ t \in DOMAIN truth[r] /\ truth'[r][t] = truth[r][t]
                                             /\ \E q \in Ranks \ failed : t \in DOMAIN committed[q]
<1>1. \A r \in Ranks :
        truth'[r] = [t \in {u \in DOMAIN truth[r] : \E q \in Ranks \ failed : u \in DOMAIN committed[q]} |-> truth[r][t]]
  BY DEF Rebuild
<1>2. ASSUME NEW r \in Ranks
      PROVE  /\ truth'[r] \in Truths
             /\ \A t \in DOMAIN truth'[r] : /\ t \in DOMAIN truth[r] /\ truth'[r][t] = truth[r][t]
                                            /\ \E q \in Ranks \ failed : t \in DOMAIN committed[q]
  <2>1. PICK w \in Truths : w = truth[r]
    BY DEF Typed
  <2>2. DOMAIN w \in SUBSET Nat /\ \A t \in DOMAIN w : w[t] \in Messages
    BY DEF Truths
  <2>3. PICK T \in SUBSET Nat : /\ T = {u \in DOMAIN w : \E q \in Ranks \ failed : u \in DOMAIN committed[q]}
                                /\ T \subseteq DOMAIN w
    BY <2>2
  <2>4. PICK v : v = truth'[r]
    OBVIOUS
  <2>5. v = [t \in T |-> w[t]]
    BY <1>1, <2>1, <2>3, <2>4
  <2>6. v \in [T -> Messages] /\ DOMAIN v = T /\ \A t \in T : v[t] = w[t]
    BY <2>2, <2>3, <2>5
  <2>7. v \in Truths
    BY <2>6 DEF Truths
  <2>8. QED
    BY <2>1, <2>3, <2>4, <2>6, <2>7
<1>3. /\ broken /\ \A r \in Ranks \ failed : pc[r] = "recover"
      /\ failed' = {} /\ broken' = FALSE /\ lost' = lost \cup failed
      /\ fatal' = (fatal \/ Cardinality(lost \cup failed) > 1) /\ gen' = gen + 1
  BY DEF Rebuild
<1>4. gen' \in Nat
  <2>1. gen \in Nat /\ gen + 1 \in Nat
    BY DEF Typed
  <2>2. QED
    BY <1>3, <2>1
<1>5. /\ OnRanks(pc') /\ OnRanks(timestamps') /\ OnRanks(timestamp') /\ OnRanks(member') /\ OnRanks(stage')
      /\ OnRanks(committed') /\ OnRanks(avail') /\ OnRanks(chan') /\ OnRanks(todo') /\ OnRanks(truth')
  BY DEF Rebuild, OnRanks
<1>6. /\ \A r \in Ranks : pc'[r] = "init" /\ chan'[r] = << >> /\ todo'[r] = {}
      /\ \A r \in failed : /\ timestamps'[r] = {} /\ timestamp'[r] = -1 /\ member'[r] = FALSE
                           /\ stage'[r] = FreshSnapshot /\ committed'[r] = << >> /\ avail'[r] = Pool
      /\ \A r \in Ranks \ failed :
           /\ timestamps'[r] = timestamps[r] /\ timestamp'[r] = timestamp[r] /\ member'[r] = member[r]
           /\ stage'[r] = stage[r] /\ committed'[r] = committed[r] /\ avail'[r] = avail[r]
  BY DEF Rebuild, Typed
<1>7. QED
  BY <1>2, <1>3, <1>4, <1>5, <1>6

LEMMA RebuildSteady ==
  ASSUME Steady, Rebuild
  PROVE  Steady'
<1>1. Typed
  BY DEF Steady
<1>2. /\ failed' = {} /\ broken' = FALSE /\ lost' = lost \cup failed
      /\ fatal' = (fatal \/ Cardinality(lost \cup failed) > 1) /\ gen' \in Nat
      /\ OnRanks(pc') /\ OnRanks(timestamps') /\ OnRanks(timestamp') /\ OnRanks(member') /\ OnRanks(stage')
      /\ OnRanks(committed') /\ OnRanks(avail') /\ OnRanks(chan') /\ OnRanks(todo') /\ OnRanks(truth')
  BY <1>1, RebuildEffects
<1>3. /\ \A r \in Ranks : pc'[r] = "init" /\ chan'[r] = << >> /\ todo'[r] = {} /\ truth'[r] \in Truths
      /\ \A r \in failed : /\ timestamps'[r] = {} /\ timestamp'[r] = -1 /\ member'[r] = FALSE
                           /\ stage'[r] = FreshSnapshot /\ committed'[r] = << >> /\ avail'[r] = Pool
      /\ \A r \in Ranks \ failed :
           /\ timestamps'[r] = timestamps[r] /\ timestamp'[r] = timestamp[r] /\ member'[r] = member[r]
           /\ stage'[r] = stage[r] /\ committed'[r] = committed[r] /\ avail'[r] = avail[r]
  BY <1>1, RebuildEffects
<1>4. ASSUME NEW r \in Ranks
      PROVE  /\ pc'[r] \in Labels /\ timestamps'[r] \in SUBSET Nat /\ timestamp'[r] \in Nat \cup {-1}
             /\ member'[r] \in BOOLEAN /\ stage'[r] \in Snaps /\ committed'[r] \in Stores
             /\ avail'[r] \in Seq(Snaps) /\ chan'[r] \in Seq(Messages) /\ todo'[r] \in SUBSET Nat
             /\ Pooled(r)'
  <2>1. pc'[r] \in Labels /\ chan'[r] \in Seq(Messages) /\ todo'[r] \in SUBSET Nat /\ todo'[r] = {}
    BY <1>3, EmptySeq DEF Labels
  <2>2. CASE r \in failed
    <3>1. /\ timestamps'[r] = {} /\ timestamp'[r] = -1 /\ member'[r] = FALSE
          /\ stage'[r] = FreshSnapshot /\ committed'[r] = << >> /\ avail'[r] = Pool
      BY <1>3, <2>2
    <3>2. Full(committed'[r], avail'[r]) /\ DOMAIN committed'[r] = {} /\ committed'[r] \in Stores
      BY <3>1, PoolFacts, StoreFields
    <3>3. IsFiniteSet(timestamps'[r]) /\ Cardinality(timestamps'[r]) <= Depth + 1
      BY <3>1, FS_EmptySet, RingFacts
    <3>4. Pooled(r)'
      BY <2>1, <3>1, <3>2, <3>3 DEF Pooled
    <3>5. QED
      BY <2>1, <3>1, <3>2, <3>4, PoolFacts, FreshType
  <2>3. CASE r \notin failed
    <3>1. /\ timestamps'[r] = timestamps[r] /\ timestamp'[r] = timestamp[r] /\ member'[r] = member[r]
          /\ stage'[r] = stage[r] /\ committed'[r] = committed[r] /\ avail'[r] = avail[r]
      BY <1>3, <2>3
    <3>2. Pooled(r)'
      BY <2>1, <3>1 DEF Steady, Pooled
    <3>3. QED
      BY <1>1, <2>1, <3>1, <3>2 DEF Typed
  <2>4. QED
    BY <2>2, <2>3
<1>5. /\ pc' \in [Ranks -> Labels] /\ timestamps' \in [Ranks -> SUBSET Nat] /\ timestamp' \in [Ranks -> Nat \cup {-1}]
      /\ member' \in [Ranks -> BOOLEAN] /\ stage' \in [Ranks -> Snaps] /\ committed' \in [Ranks -> Stores]
      /\ avail' \in [Ranks -> Seq(Snaps)] /\ chan' \in [Ranks -> Seq(Messages)] /\ todo' \in [Ranks -> SUBSET Nat]
      /\ truth' \in [Ranks -> Truths]
  BY <1>2, <1>3, <1>4, OnRanksType
<1>6. Typed'
  BY <1>1, <1>2, <1>5 DEF Typed
<1>7. InStep'
  BY <1>3 DEF InStep
<1>8. QED
  BY <1>4, <1>6, <1>7 DEF Steady

LEMMA RepairDoneSteady ==
  ASSUME Steady, RepairDone
  PROVE  Steady'
<1>1. /\ pc' = [r \in Ranks |-> "app"] /\ member' = [r \in Ranks |-> TRUE] /\ todo' = [r \in Ranks |-> {}] /\ lost' = {}
      /\ UNCHANGED <<timestamps, timestamp, stage, committed, avail, chan, failed, broken, gen, fails, fatal, truth>>
  BY DEF RepairDone, groupVars, faultVars
<1>2. Typed'
  BY <1>1 DEF Steady, Typed, Labels
<1>3. \A r \in Ranks : Pooled(r)'
  BY <1>1 DEF Steady, Pooled
<1>4. InStep'
  BY <1>1 DEF InStep
<1>5. QED
  BY <1>2, <1>3, <1>4 DEF Steady

LEMMA InitSteady ==
  ASSUME Init
  PROVE  Steady
<1>1. Typed
  <2>1. /\ Pool \in Seq(Snaps) /\ << >> \in Stores /\ FreshSnapshot \in Snaps /\ << >> \in Seq(Messages)
    BY PoolFacts, StoreFields, FreshType, EmptySeq
  <2>2. << >> \in Truths
    <3>1. << >> \in [{} -> Messages] /\ {} \in SUBSET Nat
      OBVIOUS
    <3>2. QED
      BY <3>1 DEF Truths
  <2>3. QED
    BY <2>1, <2>2 DEF Init, Typed, Labels
<1>2. \A r \in Ranks : Pooled(r)
  <2>1. ASSUME NEW r \in Ranks PROVE Pooled(r)
    <3>1. committed[r] = << >> /\ avail[r] = Pool /\ timestamps[r] = {} /\ timestamp[r] = -1 /\ todo[r] = {}
      BY DEF Init
    <3>2. Full(committed[r], avail[r]) /\ DOMAIN committed[r] = {}
      BY <3>1, PoolFacts, StoreFields
    <3>3. IsFiniteSet(timestamps[r]) /\ Cardinality(timestamps[r]) <= Depth + 1
      BY <3>1, FS_EmptySet, RingFacts
    <3>4. QED
      BY <3>1, <3>2, <3>3 DEF Pooled
  <2>2. QED
    BY <2>1
<1>3. InStep
  BY DEF Init, InStep
<1>4. QED
  BY <1>1, <1>2, <1>3 DEF Steady

LEMMA StepSteady ==
  ASSUME Steady, [Next]_vars
  PROVE  Steady'
<1>1. ASSUME NEW r \in Ranks, StoreBegin(r) PROVE Steady'
  BY <1>1, StoreBeginSteady
<1>2. ASSUME NEW r \in Ranks, StoreEnd(r) PROVE Steady'
  BY <1>2, StoreEndSteady
<1>3. ASSUME NEW r \in Ranks, Commit(r) PROVE Steady'
  <2>1. CommitOn({r}) /\ pc[r] = "stored"
    BY <1>3 DEF Commit
  <2>2. {r} \in SUBSET Ranks /\ \A q \in {r} : pc[q] = "stored"
    BY <2>1
  <2>3. QED
    BY <2>1, <2>2, CommitOnSteady
<1>4. ASSUME CommitBarrier PROVE Steady'
  <2>1. CommitOn(Ranks \ failed) /\ \A q \in Ranks \ failed : pc[q] = "stored"
    BY <1>4 DEF CommitBarrier
  <2>2. Ranks \ failed \in SUBSET Ranks
    OBVIOUS
  <2>3. QED
    BY <2>1, <2>2, CommitOnSteady
<1>5. CASE (\E r \in Ranks : Fail(r) \/ Notice(r)) \/ FailElsewhere \/ UNCHANGED vars
  BY <1>5, FailSteady
<1>6. CASE Finished
  BY <1>6, FailSteady DEF Finished
<1>7. QED
  BY <1>1, <1>2, <1>3, <1>4, <1>5, <1>6, ExchangeSteady, RebuildSteady, SyncSteady, RepairSteady, RepairDoneSteady DEF Next

(***************************************************************************)
(* The assertion of BuddyMember::repair, for any depth and any failures: at *)
(* every point of a recovery that may be interrupted and begun anew, the    *)
(* pool has a snapshot for each timestamp that is still to be rebuilt.      *)
(***************************************************************************)
THEOREM PoolAlwaysSuffices == Spec => []PoolSuffices
<1>1. Steady => PoolSuffices
  <2>1. ASSUME Steady, NEW r \in Ranks
        PROVE  Len(avail[r]) >= Cardinality(todo[r] \ DOMAIN committed[r])
    <3>1. PICK c \in Stores, a \in Seq(Snaps), S \in SUBSET Nat, T \in SUBSET Nat :
            c = committed[r] /\ a = avail[r] /\ S = timestamps[r] /\ T = todo[r]
      BY <2>1 DEF Steady, Typed
    <3>2. Full(c, a) /\ IsFiniteSet(S) /\ Cardinality(S) <= Depth + 1 /\ T \subseteq S
      BY <2>1, <3>1 DEF Steady, Pooled
    <3>3. T \ DOMAIN c \in SUBSET S
      BY <3>2
    <3>4. Cardinality(T \ DOMAIN c) <= Cardinality(S) /\ Cardinality(S) \in Nat /\ Cardinality(T \ DOMAIN c) \in Nat
      BY <3>2, <3>3, FS_Subset, FS_CardinalityType
    <3>5. Len(a) >= Depth + 1 /\ Len(a) \in Nat /\ Depth \in Nat
      BY <3>2, FullFacts, RingFacts
    <3>6. QED
      BY <3>1, <3>2, <3>4, <3>5
  <2>2. QED
    BY <2>1 DEF PoolSuffices
<1>2. QED
  BY <1>1, InitSteady, StepSteady, PTL DEF Spec

-----------------------------------------------------------------------------
(***************************************************************************)
(* With commit_barrier.                                                     *)
(*                                                                          *)
(* The subset of the partner snapshot is not reset when a snapshot goes     *)
(* back to the pool: it may be in use again Depth + 2 timestamps later and  *)
(* what it holds is added to what is stored then.  Covers says that the     *)
(* application stores by then whatever it stored before, so that nothing is *)
(* added.                                                                   *)
(***************************************************************************)

\* What rank r stores for its snapshot t, also after a recovery.
Want(r, t) == IF t \in Varied THEN Parts[r] ELSE Subsets[(t % Len(Subsets)) + 1]

Covers == /\ Barrier /\ Replays
          /\ \A r \in Ranks, t \in Nat : Want(r, t) \subseteq Want(r, t + Depth + 2)

\* The timestamps a group keeps whose newest one is n.
Kept(n) == {t \in 0 .. n : t >= n - Depth}

Work    == {"app", "exchange", "storing", "stored"}
Restore == {"init", "repair"}

\* A rank that has D of the timestamps of Kept(n) has all the newer ones of them.
Newest(D, n) == D \subseteq Kept(n) /\ \A t \in D, u \in Kept(n) : u > t => u \in D

\* A snapshot has, for all ranks, the subsets that were stored for t.
SnapFits(s, r, t) == s.pstaged = Want(left(r), t) /\ \A q \in Ranks : s.prot[q] = Want(q, t)

\* Where the stage of a rank is between its commits.
StageFits(r) ==
  LET s == stage[r]
      t == NextTime(r)
  IN  /\ \A q \in Ranks : s.staged[q] \subseteq Want(q, t) /\ s.prot[q] \subseteq Want(q, t)
      /\ s.pstaged \subseteq Want(left(r), t)
      /\ pc[r] = "exchange" => s.staged[r] = Want(r, t)
      /\ pc[r] = "storing" => \A q \in Ranks : s.staged[q] = Want(q, t)
      /\ pc[r] = "stored" => s.staged = NoSets /\ SnapFits(s, r, t)

\* The copy of rank q's data: under way to its right neighbour, or arrived there.
Copy(q) == Content(stage[q].own, Want(q, NextTime(q)))
Flow(q) ==
  LET r == right(q)
  IN  (r \notin failed /\ pc[r] \in Work) =>
        /\ chan[q] # <<>> => chan[q] = <<Copy(q)>> /\ pc[r] # "stored" /\ timestamp[q] = timestamp[r]
        /\ (timestamp[q] = timestamp[r] /\ pc[q] \in {"app", "exchange"}) => chan[q] = <<>> /\ pc[r] # "stored"
        /\ (timestamp[q] = timestamp[r] /\ pc[q] \in {"storing", "stored"} /\ pc[r] = "stored") =>
             Content(stage[r].part, Want(q, NextTime(q))) = Copy(q)

\* A rank has the newest timestamp, or is a replacement, or died before a commit of the others.
Replaced(r)    == timestamp[r] = -1 /\ pc[r] \in {"init", "recover"} /\ stage[r] = FreshSnapshot
Behind(r, now) == /\ r \in failed /\ pc[r] = "stored" /\ timestamp[r] < now
                  /\ pc[right(r)] = "stored" => timestamp[right(r)] # now
Times(now) ==
  /\ \E r \in Ranks : timestamp[r] = now
  /\ \A r \in Ranks : /\ timestamp[r] = now \/ Replaced(r) \/ Behind(r, now)
                      /\ pc[r] = "repair" => timestamp[r] = now
Known(now) == \A r \in Ranks : timestamps[r] = Kept(timestamp[r]) /\ DOMAIN truth[r] \subseteq 0 .. now

\* What a rank has committed, and its pool.
Held(r) ==
  /\ Newest(DOMAIN committed[r], timestamp[r])
  /\ \A t \in DOMAIN committed[r] : SnapFits(committed[r][t], r, t)
  /\ \A i \in 1 .. Len(avail[r]) : avail[r][i] = FreshSnapshot

\* All ranks are in the application, or all of them in the recovery.
Phases ==
  /\ \/ \A r \in Ranks : pc[r] \in Work \cup {"recover"}
     \/ \A r \in Ranks : pc[r] \in Restore \cup {"recover"}
  /\ \A r \in Ranks : pc[r] \in Restore => chan[r] = <<>>
  /\ (failed # {} \/ \E r \in Ranks : pc[r] = "recover") => broken

\* A timestamp that the repair has dealt with is not missed by one rank alone.
Repairing(now) ==
  /\ \A r \in Ranks : pc[r] = "repair" => todo[r] \subseteq Kept(now)
  /\ ((\A r \in Ranks : pc[r] = "repair") /\ failed = {}) =>
       \A r \in Ranks : \A t \in Kept(now) \ todo[r] : \A m \in Ranks : Missing(t) # {m}

\* What is committed is what was committed, and what the neighbour has a copy of.
CopiedBy(r) ==
  /\ left(r) \notin failed => \A t \in DOMAIN committed[r] \cap DOMAIN committed[left(r)] :
       Content(committed[r][t].part, Want(left(r), t)) = Content(committed[left(r)][t].own, Want(left(r), t))
  /\ \A t \in DOMAIN committed[r] \cap DOMAIN truth[r] : Content(committed[r][t].own, Want(r, t)) = truth[r][t]
  /\ \A t \in DOMAIN committed[r] \cap DOMAIN truth[left(r)] :
       Content(committed[r][t].part, Want(left(r), t)) = truth[left(r)][t]
Copied == \A r \in Ranks \ failed : CopiedBy(r)

\* Nothing is missing but what a single lost rank had.
Retained(now) ==
  ~fatal => /\ \A p, q \in lost : p = q
            /\ \A r \in Ranks \ (failed \cup lost) :
                 timestamp[r] = now /\ DOMAIN committed[r] = Kept(now) /\ member[r]
            /\ (\E r \in Ranks : pc[r] \in Work) => lost = {}

Sound(now) ==
  /\ Times(now) /\ Known(now) /\ Phases /\ Repairing(now) /\ Copied /\ Retained(now)
  /\ \A r \in Ranks : Held(r) /\ StageFits(r) /\ Flow(r)

LEMMA WantFacts ==
  ASSUME Typed
  PROVE  /\ \A r \in Ranks, t \in Nat : Want(r, t) \in SUBSET Elems
         /\ Covers => \A r \in Ranks : Wanted(r) = Want(r, NextTime(r))
         /\ \A q, r \in Ranks, t \in Nat \ Varied : Want(q, t) = Want(r, t)
<1>1. ASSUME NEW r \in Ranks, NEW t \in Nat PROVE Want(r, t) \in SUBSET Elems
  <2>1. Parts[r] \in SUBSET Elems
    BY BuddyAssumption DEF Ranks
  <2>2. PICK n \in Nat \ {0} : n = Len(Subsets)
    BY BuddyAssumption, EmptySeq, LenProperties
  <2>3. t % n \in 0 .. n - 1
    BY <2>2
  <2>4. (t % n) + 1 \in 1 .. Len(Subsets)
    BY <2>2, <2>3
  <2>5. Subsets[(t % n) + 1] \in (SUBSET Elems) \ {{}}
    BY <2>4, BuddyAssumption, ElementOfSeq
  <2>6. QED
    BY <2>1, <2>2, <2>5 DEF Want
<1>2. ASSUME Covers, NEW r \in Ranks PROVE Wanted(r) = Want(r, NextTime(r))
  <2>1. PICK n \in Nat : n = NextTime(r)
    BY WantedType
  <2>2. n + 0 = n /\ Replays
    BY <1>2 DEF Covers
  <2>3. QED
    BY <2>1, <2>2 DEF Wanted, Want
<1>3. \A q, r \in Ranks, t \in Nat \ Varied : Want(q, t) = Want(r, t)
  BY DEF Want
<1>4. QED
  BY <1>1, <1>2, <1>3

LEMMA KeptFacts ==
  ASSUME NEW n \in Nat \cup {-1}
  PROVE  /\ Kept(n) \in SUBSET Nat /\ n + 1 \notin Kept(n) /\ IsFiniteSet(Kept(n)) /\ Kept(-1) = {}
         /\ Cardinality(Kept(n)) = Depth + 1 => n >= Depth
         /\ Cardinality(Kept(n)) # Depth + 1 => n < Depth
         /\ Cardinality(Kept(n)) <= Depth + 1
         /\ n # -1 => n \in Kept(n) /\ \A t \in Kept(n) : t <= n
<1>1. Depth \in Nat /\ n \in Int /\ n >= -1
  BY RingFacts
<1>2. CASE n < Depth
  <2>1. Kept(n) = 0 .. n
    BY <1>1, <1>2 DEF Kept
  <2>2. IsFiniteSet(0 .. n) /\ Cardinality(0 .. n) = n + 1
    <3>1. CASE n = -1
      <4>1. 0 .. n = {}
        BY <3>1
      <4>2. QED
        BY <3>1, <4>1, FS_EmptySet
    <3>2. CASE n # -1
      <4>1. 0 \in Int /\ n \in Int /\ n \in Nat
        BY <1>1, <3>2
      <4>2. IsFiniteSet(0 .. n) /\ Cardinality(0 .. n) = IF 0 > n THEN 0 ELSE n - 0 + 1
        BY <4>1, FS_Interval
      <4>3. QED
        BY <4>1, <4>2
    <3>3. QED
      BY <3>1, <3>2
  <2>3. Kept(n) \in SUBSET Nat /\ n + 1 \notin Kept(n) /\ Kept(-1) = {}
    BY <1>1 DEF Kept
  <2>4. n # -1 => n \in 0 .. n /\ \A t \in 0 .. n : t <= n
    BY <1>1
  <2>5. QED
    BY <1>1, <1>2, <2>1, <2>2, <2>3, <2>4
<1>3. CASE ~(n < Depth)
  <2>1. Kept(n) = n - Depth .. n
    BY <1>1, <1>3 DEF Kept
  <2>2. n - Depth \in Int /\ n - Depth <= n
    BY <1>1
  <2>3. IsFiniteSet(n - Depth .. n) /\ Cardinality(n - Depth .. n) = IF n - Depth > n THEN 0 ELSE n - (n - Depth) + 1
    BY <1>1, <2>2, FS_Interval
  <2>4. Cardinality(n - Depth .. n) = Depth + 1
    BY <1>1, <2>2, <2>3
  <2>5. Kept(n) \in SUBSET Nat /\ n + 1 \notin Kept(n) /\ Kept(-1) = {}
    BY <1>1 DEF Kept
  <2>6. n \in Kept(n) /\ \A t \in Kept(n) : t <= n
    BY <1>1, <1>3 DEF Kept
  <2>7. QED
    BY <1>1, <1>3, <2>1, <2>3, <2>4, <2>5, <2>6
<1>4. QED
  BY <1>2, <1>3

\* What a commit makes of the timestamps that a rank has.
LEMMA KeptAfterCommit ==
  ASSUME NEW n \in Nat \cup {-1}, NEW D, Newest(D, n), NEW F, NEW old,
         Cardinality(D) = Depth + 1 =>
           /\ old \in D \cup {n + 1} /\ \A u \in D \cup {n + 1} : old <= u
           /\ F = (D \cup {n + 1}) \ {old},
         Cardinality(D) # Depth + 1 => F = D \cup {n + 1}
  PROVE  /\ Newest(F, n + 1) /\ n + 1 \in F /\ F \subseteq D \cup {n + 1}
         /\ D = Kept(n) => F = Kept(n + 1)
         /\ Cardinality(D) = Depth + 1 => old = n - Depth /\ old \in D /\ old \in Nat
<1>1. Depth \in Nat /\ n \in Int /\ n >= -1 /\ D \in SUBSET Kept(n) /\ n + 1 \in Nat
  BY RingFacts DEF Newest
<1>2. /\ Kept(n) \in SUBSET Nat /\ n + 1 \notin Kept(n) /\ IsFiniteSet(Kept(n))
      /\ Cardinality(Kept(n)) <= Depth + 1
      /\ Cardinality(Kept(n)) = Depth + 1 => n >= Depth
      /\ Cardinality(Kept(n)) # Depth + 1 => n < Depth
  BY KeptFacts
<1>3. IsFiniteSet(D) /\ Cardinality(D) <= Cardinality(Kept(n)) /\ (Cardinality(Kept(n)) = Cardinality(D) => Kept(n) = D)
      /\ Cardinality(D) \in Nat /\ Cardinality(Kept(n)) \in Nat
  BY <1>1, <1>2, FS_Subset, FS_CardinalityType
<1>4. \A t : t \in Kept(n) <=> t \in Int /\ 0 <= t /\ t <= n /\ t >= n - Depth
  BY <1>1 DEF Kept
<1>5. \A t : t \in Kept(n + 1) <=> t \in Int /\ 0 <= t /\ t <= n + 1 /\ t >= n + 1 - Depth
  BY <1>1 DEF Kept
<1>6. CASE Cardinality(D) = Depth + 1
  <2>1. D = Kept(n) /\ n >= Depth
    BY <1>1, <1>2, <1>3, <1>6
  <2>2. n - Depth \in D /\ n - Depth \in Nat
    BY <1>1, <1>4, <2>1
  <2>3. old = n - Depth
    <3>1. old \in D \cup {n + 1} /\ \A u \in D \cup {n + 1} : old <= u
      BY <1>6
    <3>2. old <= n - Depth
      BY <2>2, <3>1
    <3>3. old \in Int
      BY <1>1, <1>2, <3>1
    <3>4. old \in D
      BY <1>1, <3>1, <3>2, <3>3
    <3>5. old >= n - Depth
      BY <1>4, <2>1, <3>4
    <3>6. QED
      BY <1>1, <3>2, <3>3, <3>5
  <2>4. F = (Kept(n) \cup {n + 1}) \ {n - Depth}
    BY <1>6, <2>1, <2>3
  <2>5. F = Kept(n + 1)
    <3>1. ASSUME NEW t PROVE t \in F <=> t \in Kept(n + 1)
      <4>1. t \in F <=> (t \in Kept(n) \/ t = n + 1) /\ t # n - Depth
        BY <2>4
      <4>2. QED
        BY <1>1, <1>4, <1>5, <4>1
    <3>2. QED
      BY <3>1
  <2>6. n + 1 \in F /\ Newest(F, n + 1)
    BY <1>1, <1>5, <2>5 DEF Newest
  <2>7. F \subseteq D \cup {n + 1}
    BY <2>1, <2>4
  <2>8. QED
    BY <2>2, <2>3, <2>5, <2>6, <2>7
<1>7. CASE Cardinality(D) # Depth + 1
  <2>1. F = D \cup {n + 1}
    BY <1>7
  <2>2. n - Depth \notin D
    <3>1. ASSUME n - Depth \in D PROVE FALSE
      <4>1. n - Depth \in Kept(n) /\ n >= Depth
        BY <1>1, <1>4, <3>1
      <4>2. \A u \in Kept(n) : u = n - Depth \/ u > n - Depth
        BY <1>1, <1>4
      <4>3. D = Kept(n)
        BY <1>1, <3>1, <4>2 DEF Newest
      <4>4. QED
        BY <1>1, <1>2, <1>3, <1>7, <4>1, <4>3
    <3>2. QED
      BY <3>1
  <2>3. D \subseteq Kept(n + 1)
    <3>1. ASSUME NEW t \in D PROVE t \in Kept(n + 1)
      <4>1. t \in Kept(n) /\ t # n - Depth
        BY <1>1, <2>2
      <4>2. QED
        BY <1>1, <1>4, <1>5, <4>1
    <3>2. QED
      BY <3>1
  <2>4. n + 1 \in Kept(n + 1)
    BY <1>1, <1>5
  <2>5. \A u \in Kept(n + 1) : u = n + 1 \/ u \in Kept(n)
    BY <1>1, <1>4, <1>5
  <2>6. ASSUME NEW t \in F, NEW u \in Kept(n + 1), u > t PROVE u \in F
    <3>1. CASE u = n + 1
      BY <2>1, <3>1
    <3>2. CASE u \in Kept(n)
      <4>1. t \in D
        <5>1. t # n + 1
          BY <1>1, <1>4, <2>6, <3>2
        <5>2. QED
          BY <2>1, <5>1
      <4>2. u \in D
        BY <2>6, <3>2, <4>1 DEF Newest
      <4>3. QED
        BY <2>1, <4>2
    <3>3. QED
      BY <2>5, <3>1, <3>2
  <2>7. Newest(F, n + 1)
    BY <2>1, <2>3, <2>4, <2>6 DEF Newest
  <2>8. D = Kept(n) => F = Kept(n + 1)
    BY <2>1, <2>3, <2>4, <2>5
  <2>9. QED
    BY <1>7, <2>1, <2>7, <2>8
<1>8. QED
  BY <1>6, <1>7

-----------------------------------------------------------------------------
(* Steps of the application, and failures *)

\* A step that changes nothing of what is committed.
LEMMA KeepsData ==
  ASSUME NEW now, Sound(now), failed \subseteq failed', failed' \in SUBSET Ranks,
         UNCHANGED <<timestamps, timestamp, committed, avail, todo, member, lost, fatal, truth>>,
         \A r \in Ranks : (pc'[r] = "repair" => pc[r] = "repair") /\ (pc'[r] \in Work => pc[r] \in Work)
  PROVE  Known(now)' /\ Repairing(now)' /\ Copied' /\ Retained(now)' /\ \A r \in Ranks : Held(r)'
<1>1. Known(now)'
  BY DEF Sound, Known
<1>2. Repairing(now)'
  <2>1. \A r \in Ranks : pc'[r] = "repair" => todo'[r] \subseteq Kept(now)
    BY DEF Sound, Repairing
  <2>2. ((\A r \in Ranks : pc'[r] = "repair") /\ failed' = {}) =>
          \A r \in Ranks : \A t \in Kept(now) \ todo'[r] : \A m \in Ranks : Missing(t)' # {m}
    BY DEF Sound, Repairing, Missing
  <2>3. QED
    BY <2>1, <2>2 DEF Repairing
<1>3. Copied'
  <2>1. ASSUME NEW r \in Ranks \ failed' PROVE CopiedBy(r)'
    <3>1. r \in Ranks \ failed
      OBVIOUS
    <3>2. CopiedBy(r)
      BY <3>1 DEF Sound, Copied
    <3>3. QED
      BY <3>2 DEF CopiedBy
  <2>2. QED
    BY <2>1 DEF Copied
<1>4. Retained(now)'
  BY DEF Sound, Retained
<1>5. \A r \in Ranks : Held(r)'
  BY DEF Sound, Held
<1>6. QED
  BY <1>1, <1>2, <1>3, <1>4, <1>5

LEMMA FailSound ==
  ASSUME Steady, NEW now, Sound(now),
         \/ \E r \in Ranks : Fail(r) \/ Notice(r)
         \/ FailElsewhere \/ UNCHANGED vars
  PROVE  Sound(now)'
<1>1. /\ UNCHANGED <<timestamps, timestamp, committed, avail, todo, member, stage, chan, lost, fatal, truth>>
      /\ failed \subseteq failed' /\ failed' \in SUBSET Ranks
      /\ broken' = broken \/ broken' = TRUE
      /\ failed' = failed \/ broken' = TRUE
      /\ \A r \in Ranks : pc'[r] = pc[r] \/ (pc'[r] = "recover" /\ r \notin failed /\ broken' = TRUE)
  BY DEF Fail, Notice, FailElsewhere, vars, groupVars, memberVars, faultVars, ghostVars, Steady, Typed, live
<1>2. \A r \in Ranks : (pc'[r] = "repair" => pc[r] = "repair") /\ (pc'[r] \in Work => pc[r] \in Work /\ pc'[r] = pc[r])
  BY <1>1 DEF Work
<1>3. Known(now)' /\ Repairing(now)' /\ Copied' /\ Retained(now)' /\ \A r \in Ranks : Held(r)'
  BY <1>1, <1>2, KeepsData
<1>4. Times(now)'
  <2>1. \E r \in Ranks : timestamp'[r] = now
    BY <1>1 DEF Sound, Times
  <2>2. ASSUME NEW r \in Ranks PROVE timestamp'[r] = now \/ Replaced(r)' \/ Behind(r, now)'
    <3>1. timestamp[r] = now \/ Replaced(r) \/ Behind(r, now)
      BY DEF Sound, Times
    <3>2. Replaced(r) => Replaced(r)'
      BY <1>1 DEF Replaced
    <3>3. Behind(r, now) => Behind(r, now)'
      <4>1. right(r) \in Ranks /\ r \in Ranks
        BY RingFacts
      <4>2. QED
        BY <1>1, <4>1 DEF Behind
    <3>4. QED
      BY <1>1, <3>1, <3>2, <3>3
  <2>3. \A r \in Ranks : pc'[r] = "repair" => timestamp'[r] = now
    BY <1>1, <1>2 DEF Sound, Times
  <2>4. QED
    BY <2>1, <2>2, <2>3 DEF Times
<1>5. Phases'
  <2>1. \/ \A r \in Ranks : pc'[r] \in Work \cup {"recover"}
        \/ \A r \in Ranks : pc'[r] \in Restore \cup {"recover"}
    BY <1>1 DEF Sound, Phases
  <2>2. \A r \in Ranks : pc'[r] \in Restore => chan'[r] = <<>>
    BY <1>1 DEF Sound, Phases, Restore
  <2>3. (failed' # {} \/ \E r \in Ranks : pc'[r] = "recover") => broken'
    BY <1>1 DEF Sound, Phases
  <2>4. QED
    BY <2>1, <2>2, <2>3 DEF Phases
<1>6. ASSUME NEW r \in Ranks PROVE StageFits(r)'
  <2>1. StageFits(r)
    BY DEF Sound
  <2>2. UNCHANGED <<stage, timestamp>> /\ (pc'[r] = pc[r] \/ pc'[r] = "recover")
    BY <1>1
  <2>3. QED
    BY <2>1, <2>2 DEF StageFits, SnapFits, NextTime
<1>7. ASSUME NEW q \in Ranks PROVE Flow(q)'
  <2>1. Flow(q) /\ right(q) \in Ranks
    BY RingFacts DEF Sound
  <2>2. /\ UNCHANGED <<stage, timestamp, chan>> /\ failed \subseteq failed'
        /\ pc'[q] = pc[q] \/ pc'[q] = "recover"
        /\ pc'[right(q)] \in Work => pc'[right(q)] = pc[right(q)]
    BY <1>1, <1>2, <2>1
  <2>3. QED
    BY <2>1, <2>2 DEF Flow, Copy, NextTime
<1>8. QED
  BY <1>3, <1>4, <1>5, <1>6, <1>7 DEF Sound

\* A rank in the application, whose process is alive, has the newest timestamp.
LEMMA WorkingNow ==
  ASSUME NEW now, Sound(now), NEW r \in Ranks, pc[r] \in Work, pc[r] # "stored" \/ r \notin failed
  PROVE  timestamp[r] = now
BY DEF Sound, Times, Replaced, Behind, Work

LEMMA StoreBeginSound ==
  ASSUME Steady, Covers, NEW now, Sound(now), NEW x \in Ranks, StoreBegin(x)
  PROVE  Sound(now)'
<1>1. Typed
  BY DEF Steady
<1>2. /\ x \notin failed /\ pc[x] = "app"
      /\ stage'[x] = StagedSnap(x) /\ \A r \in Ranks \ {x} : stage'[r] = stage[r]
      /\ UNCHANGED <<timestamps, timestamp, member, committed, avail, todo, failed, broken, gen, fails, lost, fatal, truth>>
  BY <1>1, StoreBeginEffects DEF live
<1>3. /\ pc'[x] \in {"exchange", "storing"} /\ \A r \in Ranks \ {x} : pc'[r] = pc[r] /\ chan'[r] = chan[r]
      /\ pc'[x] = "exchange" => chan'[x] = chan[x]
      /\ pc'[x] = "storing" => chan'[x] = Append(chan[x], Sent(x, StagedSnap(x))) /\ NextTime(x) \notin Varied
  <2>1. \/ pc' = [pc EXCEPT ![x] = "exchange"] /\ UNCHANGED chan
        \/ /\ pc' = [pc EXCEPT ![x] = "storing"] /\ NextTime(x) \notin Varied
           /\ chan' = [chan EXCEPT ![x] = Append(@, Sent(x, StagedSnap(x)))]
    BY <1>1, StoreBeginEffects
  <2>2. QED
    BY <1>1, <2>1 DEF Typed
<1>4. \A r \in Ranks : (pc'[r] = "repair" => pc[r] = "repair") /\ (pc'[r] \in Work => pc[r] \in Work)
  BY <1>2, <1>3 DEF Work
<1>5. Known(now)' /\ Repairing(now)' /\ Copied' /\ Retained(now)' /\ \A r \in Ranks : Held(r)'
  BY <1>1, <1>2, <1>4, KeepsData DEF Typed
<1>6. timestamp[x] = now
  BY <1>2, WorkingNow DEF Work
<1>7. Times(now)'
  <2>1. \E r \in Ranks : timestamp'[r] = now
    BY <1>2 DEF Sound, Times
  <2>2. ASSUME NEW r \in Ranks PROVE timestamp'[r] = now \/ Replaced(r)' \/ Behind(r, now)'
    <3>1. timestamp[r] = now \/ (r # x /\ Replaced(r)) \/ (r # x /\ Behind(r, now))
      BY <1>6 DEF Sound, Times
    <3>2. r # x /\ Replaced(r) => Replaced(r)'
      BY <1>2, <1>3 DEF Replaced
    <3>3. r # x /\ Behind(r, now) => Behind(r, now)'
      <4>1. right(r) \in Ranks /\ r \in Ranks
        BY RingFacts
      <4>2. pc'[right(r)] = "stored" => pc[right(r)] = "stored"
        BY <1>3, <4>1
      <4>3. QED
        BY <1>2, <1>3, <4>2 DEF Behind
    <3>4. QED
      BY <1>2, <3>1, <3>2, <3>3
  <2>3. \A r \in Ranks : pc'[r] = "repair" => timestamp'[r] = now
    BY <1>2, <1>4 DEF Sound, Times
  <2>4. QED
    BY <2>1, <2>2, <2>3 DEF Times
<1>8. Phases'
  <2>1. \A r \in Ranks : pc[r] \in Work \cup {"recover"}
    BY <1>2 DEF Sound, Phases, Restore
  <2>2. \A r \in Ranks : pc'[r] \in Work \cup {"recover"}
    BY <1>3, <2>1 DEF Work
  <2>3. \A r \in Ranks : pc'[r] \notin Restore
    BY <2>2 DEF Work, Restore
  <2>4. (failed # {} \/ \E r \in Ranks : pc[r] = "recover") => broken
    BY DEF Sound, Phases
  <2>5. QED
    BY <1>2, <1>3, <2>2, <2>3, <2>4 DEF Phases
<1>9. PICK W \in [Ranks -> SUBSET Elems] : \A q \in Ranks : W[q] = Want(q, NextTime(x))
  <2>1. \A q \in Ranks : Want(q, NextTime(x)) \in SUBSET Elems
    BY <1>1, WantedType, WantFacts
  <2>2. [q \in Ranks |-> Want(q, NextTime(x))] \in [Ranks -> SUBSET Elems]
    BY <2>1
  <2>3. QED
    BY <2>2
<1>10. /\ Wanted(x) = W[x] /\ (NextTime(x) \notin Varied => \A q \in Ranks : W[q] = W[x])
       /\ NextTime(x)' = NextTime(x)
  <2>1. NextTime(x)' = NextTime(x)
    BY <1>2 DEF NextTime
  <2>2. NextTime(x) \in Nat
    BY <1>1, WantedType
  <2>3. QED
    BY <1>1, <1>9, <2>1, <2>2, WantFacts
<1>11. PICK s \in Snaps : s = StagedSnap(x)
  BY <1>1, StagedSnapFacts
<1>12. /\ \A q \in Ranks : /\ stage[x].staged[q] \subseteq W[q] /\ stage[x].prot[q] \subseteq W[q]
       /\ stage[x].pstaged \subseteq W[left(x)]
  <2>1. StageFits(x) /\ left(x) \in Ranks
    BY RingFacts DEF Sound
  <2>2. QED
    BY <1>9, <2>1 DEF StageFits
<1>13. /\ \A q \in Ranks : s.staged[q] \subseteq W[q] /\ s.prot[q] \subseteq W[q]
       /\ s.pstaged \subseteq W[left(x)] /\ s.staged[x] = W[x]
       /\ NextTime(x) \notin Varied => \A q \in Ranks : s.staged[q] = W[q]
  <2>1. /\ s.part = stage[x].part /\ s.prot = stage[x].prot /\ s.pstaged = stage[x].pstaged
        /\ \A q \in Ranks : s.staged[q] =
             IF q = x \/ NextTime(x) \notin Varied THEN stage[x].staged[x] \cup Wanted(x) ELSE stage[x].staged[q]
    BY <1>1, <1>11, StagedSnapFacts
  <2>2. stage[x].staged[x] \cup Wanted(x) = W[x]
    BY <1>10, <1>12
  <2>3. QED
    BY <1>10, <1>12, <2>1, <2>2
<1>14. ASSUME NEW r \in Ranks PROVE StageFits(r)'
  <2>1. CASE r = x
    <3>1. stage'[x] = s /\ (pc'[x] = "exchange" \/ (pc'[x] = "storing" /\ NextTime(x) \notin Varied))
      BY <1>2, <1>3, <1>11
    <3>2. \A q \in Ranks : W[q] = Want(q, NextTime(x)')
      BY <1>9, <1>10
    <3>3. left(x) \in Ranks
      BY RingFacts
    <3>4. QED
      BY <1>13, <2>1, <3>1, <3>2, <3>3 DEF StageFits
  <2>2. CASE r # x
    <3>1. StageFits(r)
      BY DEF Sound
    <3>2. stage'[r] = stage[r] /\ timestamp' = timestamp /\ pc'[r] = pc[r]
      BY <1>2, <1>3, <2>2
    <3>3. QED
      BY <3>1, <3>2 DEF StageFits, SnapFits, NextTime
  <2>3. QED
    BY <2>1, <2>2
<1>15. ASSUME NEW q \in Ranks PROVE Flow(q)'
  <2>1. PICK r \in Ranks : r = right(q) /\ r # q
    BY RingFacts
  <2>2. Flow(q)
    BY DEF Sound
  <2>3. CASE q = x
    <3>1. SUFFICES ASSUME r \notin failed, pc[r] \in Work
          PROVE  /\ chan'[x] # <<>> => chan'[x] = <<Copy(x)'>> /\ pc[r] # "stored" /\ timestamp[x] = timestamp[r]
                 /\ pc'[x] = "exchange" => chan'[x] = << >> /\ pc[r] # "stored"
                 /\ ~(pc'[x] \in {"storing", "stored"} /\ pc[r] = "stored")
      <4>1. pc'[r] = pc[r] /\ UNCHANGED <<timestamp, failed>> /\ pc'[x] \in {"exchange", "storing"}
        BY <1>2, <1>3, <2>1, <2>3
      <4>2. QED
        BY <2>1, <2>3, <3>1, <4>1 DEF Flow
    <3>2. timestamp[r] = now
      BY <3>1, WorkingNow
    <3>3. chan[x] = << >> /\ pc[r] # "stored"
      BY <1>2, <1>6, <2>1, <2>2, <2>3, <3>1, <3>2 DEF Flow
    <3>4. pc'[x] = "storing" => chan'[x] = << Copy(x)' >>
      <4>1. Copy(x)' = Content(s.own, W[x])
        BY <1>2, <1>9, <1>10, <1>11 DEF Copy
      <4>2. Sent(x, StagedSnap(x)) = Content(s.own, W[x])
        BY <1>11, <1>13 DEF Sent
      <4>3. PICK msg : msg = Content(s.own, W[x])
        OBVIOUS
      <4>4. Append(<< >>, msg) = << msg >>
        OBVIOUS
      <4>5. QED
        BY <1>3, <3>3, <4>1, <4>2, <4>3, <4>4
    <3>5. QED
      BY <1>3, <1>6, <3>2, <3>3, <3>4
  <2>4. CASE r = x
    <3>1. /\ chan'[q] = chan[q] /\ stage'[q] = stage[q] /\ pc'[q] = pc[q] /\ UNCHANGED <<timestamp, failed>>
          /\ pc'[r] \in Work /\ pc'[r] # "stored" /\ pc[r] \in Work
      BY <1>2, <1>3, <2>1, <2>4 DEF Work
    <3>2. Copy(q)' = Copy(q)
      BY <3>1 DEF Copy, NextTime
    <3>3. QED
      BY <2>1, <2>2, <3>1, <3>2 DEF Flow
  <2>5. CASE q # x /\ r # x
    <3>1. /\ chan'[q] = chan[q] /\ stage'[q] = stage[q] /\ pc'[q] = pc[q] /\ UNCHANGED <<timestamp, failed>>
          /\ pc'[r] = pc[r] /\ stage'[r] = stage[r]
      BY <1>2, <1>3, <2>1, <2>5
    <3>2. Copy(q)' = Copy(q) /\ NextTime(q)' = NextTime(q)
      BY <3>1 DEF Copy, NextTime
    <3>3. QED
      BY <2>1, <2>2, <3>1, <3>2 DEF Flow
  <2>6. QED
    BY <2>3, <2>4, <2>5
<1>16. QED
  BY <1>5, <1>7, <1>8, <1>14, <1>15 DEF Sound

LEMMA ExchangeSound ==
  ASSUME Steady, Covers, NEW now, Sound(now), ExchangeSubsets
  PROVE  Sound(now)'
<1>1. Typed
  BY DEF Steady
<1>2. /\ failed # Ranks /\ \A r \in Ranks \ failed : pc[r] = "exchange"
      /\ UNCHANGED <<timestamps, timestamp, member, committed, avail, todo, failed, broken, gen, fails, lost, fatal, truth>>
  BY <1>1, ExchangeEffects
<1>3. PICK done \in SUBSET (Ranks \ failed) :
        /\ done # {} => \A r \in Ranks : pc[r] = "exchange"
        /\ (~broken => done = Ranks)
        /\ \A r \in done : /\ stage'[r] = Exchanged(r) /\ pc'[r] = "storing"
                           /\ chan'[r] = Append(chan[r], Sent(r, Exchanged(r)))
        /\ \A r \in Ranks \ done : /\ stage'[r] = stage[r] /\ chan'[r] = chan[r]
                                   /\ pc'[r] = IF r \in failed THEN pc[r] ELSE "recover"
  BY <1>1, ExchangeEffects
<1>4. \A r \in Ranks : \/ r \in done /\ r \notin failed /\ pc[r] = "exchange" /\ pc'[r] = "storing"
                       \/ r \notin done /\ r \notin failed /\ pc[r] = "exchange" /\ pc'[r] = "recover"
                       \/ r \notin done /\ r \in failed /\ pc'[r] = pc[r]
  BY <1>2, <1>3
<1>5. Known(now)' /\ Repairing(now)' /\ Copied' /\ Retained(now)' /\ \A r \in Ranks : Held(r)'
  <2>1. \A r \in Ranks : (pc'[r] = "repair" => pc[r] = "repair") /\ (pc'[r] \in Work => pc[r] \in Work)
    BY <1>4 DEF Work
  <2>2. QED
    BY <1>1, <1>2, <2>1, KeepsData DEF Typed
<1>6. \A r \in Ranks \ failed : timestamp[r] = now
  BY <1>2, WorkingNow DEF Work
<1>7. Times(now)'
  <2>1. \E r \in Ranks : timestamp'[r] = now
    BY <1>2 DEF Sound, Times
  <2>2. ASSUME NEW r \in Ranks PROVE timestamp'[r] = now \/ Replaced(r)' \/ Behind(r, now)'
    <3>1. timestamp[r] = now \/ (r \in failed /\ Replaced(r)) \/ (r \in failed /\ Behind(r, now))
      BY <1>6 DEF Sound, Times
    <3>2. r \in failed /\ Replaced(r) => Replaced(r)'
      BY <1>2, <1>3, <1>4 DEF Replaced
    <3>3. r \in failed /\ Behind(r, now) => Behind(r, now)'
      <4>1. right(r) \in Ranks /\ r \in Ranks
        BY RingFacts
      <4>2. pc'[right(r)] = "stored" => pc[right(r)] = "stored"
        BY <1>4, <4>1
      <4>3. QED
        BY <1>2, <1>4, <4>2 DEF Behind
    <3>4. QED
      BY <1>2, <3>1, <3>2, <3>3
  <2>3. \A r \in Ranks : pc'[r] = "repair" => timestamp'[r] = now
    BY <1>2, <1>4 DEF Sound, Times
  <2>4. QED
    BY <2>1, <2>2, <2>3 DEF Times
<1>8. Phases'
  <2>1. \A r \in Ranks : pc[r] \in Work \cup {"recover"}
    <3>1. PICK x \in Ranks : pc[x] = "exchange"
      BY <1>2 DEF Steady, Typed
    <3>2. QED
      BY <3>1 DEF Sound, Phases, Restore
  <2>2. \A r \in Ranks : pc'[r] \in Work \cup {"recover"}
    BY <1>4, <2>1 DEF Work
  <2>3. \A r \in Ranks : pc'[r] \notin Restore
    BY <2>2 DEF Work, Restore
  <2>4. (failed # {} \/ \E r \in Ranks : pc[r] = "recover") => broken
    BY DEF Sound, Phases
  <2>5. (\E r \in Ranks : pc'[r] = "recover") => broken
    BY <1>3, <1>4, <2>4
  <2>6. QED
    BY <1>2, <2>2, <2>3, <2>4, <2>5 DEF Phases
<1>9. ASSUME NEW r \in Ranks PROVE StageFits(r)'
  <2>1. CASE r \in done
    <3>1. \A q \in Ranks : pc[q] = "exchange"
      BY <1>3, <2>1
    <3>2. \A q \in Ranks : NextTime(q) = NextTime(r)
      <4>1. \A q \in Ranks : timestamp[q] = now
        BY <3>1, WorkingNow DEF Work
      <4>2. QED
        BY <4>1 DEF NextTime
    <3>3. \A q \in Ranks : stage[q].staged[q] = Want(q, NextTime(r))
      <4>1. TAKE q \in Ranks
      <4>2. StageFits(q)
        BY DEF Sound
      <4>3. QED
        BY <3>1, <3>2, <4>2 DEF StageFits
    <3>4. PICK e : e = Exchanged(r)
      OBVIOUS
    <3>5. /\ e.prot = stage[r].prot /\ e.pstaged = stage[r].pstaged
          /\ \A q \in Ranks : e.staged[q] = Want(q, NextTime(r))
      BY <1>1, <3>3, <3>4, ExchangedFacts
    <3>6. stage'[r] = e /\ NextTime(r)' = NextTime(r) /\ pc'[r] = "storing"
      BY <1>2, <1>3, <2>1, <3>4 DEF NextTime
    <3>7. /\ \A q \in Ranks : stage[r].prot[q] \subseteq Want(q, NextTime(r))
          /\ stage[r].pstaged \subseteq Want(left(r), NextTime(r))
      BY DEF Sound, StageFits
    <3>8. QED
      BY <3>5, <3>6, <3>7 DEF StageFits
  <2>2. CASE r \notin done
    <3>1. StageFits(r)
      BY DEF Sound
    <3>2. stage'[r] = stage[r] /\ timestamp' = timestamp /\ (pc'[r] = pc[r] \/ pc'[r] = "recover")
      BY <1>2, <1>3, <1>4, <2>2
    <3>3. QED
      BY <3>1, <3>2 DEF StageFits, SnapFits, NextTime
  <2>3. QED
    BY <2>1, <2>2
<1>10. ASSUME NEW q \in Ranks PROVE Flow(q)'
  <2>1. PICK r \in Ranks : r = right(q) /\ r # q
    BY RingFacts
  <2>2. Flow(q)
    BY DEF Sound
  <2>3. CASE r \notin done
    <3>1. r \in failed \/ pc'[r] = "recover"
      BY <1>4, <2>3
    <3>2. QED
      BY <1>2, <2>1, <3>1 DEF Flow, Work
  <2>4. CASE r \in done
    <3>1. pc[r] = "exchange" /\ pc[q] = "exchange" /\ r \notin failed /\ pc'[r] = "storing"
      BY <1>3, <1>4, <2>4
    <3>2. timestamp[r] = now /\ timestamp[q] = now
      BY <3>1, WorkingNow DEF Work
    <3>3. chan[q] = << >>
      BY <2>1, <2>2, <3>1, <3>2 DEF Flow, Work
    <3>4. CASE q \in done
      <4>1. PICK e : e = Exchanged(q)
        OBVIOUS
      <4>2. e.own = stage[q].own /\ e.staged[q] = stage[q].staged[q]
        BY <1>1, <4>1, ExchangedFacts
      <4>3. stage[q].staged[q] = Want(q, NextTime(q))
        BY <3>1 DEF Sound, StageFits
      <4>4. NextTime(q)' = NextTime(q) /\ stage'[q] = e /\ chan'[q] = Append(<< >>, Sent(q, e)) /\ pc'[q] = "storing"
        BY <1>2, <1>3, <3>3, <3>4, <4>1 DEF NextTime
      <4>5. PICK msg : msg = Copy(q)'
        OBVIOUS
      <4>6. Sent(q, e) = msg
        BY <4>2, <4>3, <4>4, <4>5 DEF Sent, Copy
      <4>7. Append(<< >>, msg) = << msg >>
        OBVIOUS
      <4>8. chan'[q] = << Copy(q)' >>
        BY <4>4, <4>5, <4>6, <4>7
      <4>9. QED
        BY <1>2, <2>1, <3>1, <3>2, <4>4, <4>8 DEF Flow
    <3>5. CASE q \notin done
      <4>1. chan'[q] = << >>
        BY <1>3, <3>3, <3>5
      <4>2. QED
        BY <2>1, <3>1, <4>1 DEF Flow
    <3>6. QED
      BY <3>4, <3>5
  <2>5. QED
    BY <2>3, <2>4
<1>11. QED
  BY <1>5, <1>7, <1>8, <1>9, <1>10 DEF Sound

\* The message that arrives is the copy that is expected.
LEMMA StoreEndSound ==
  ASSUME Steady, Covers, NEW now, Sound(now), NEW x \in Ranks, StoreEnd(x)
  PROVE  Sound(now)'
<1>1. Typed
  BY DEF Steady
<1>2. PICK p \in Ranks : p = left(x) /\ right(p) = x /\ p # x
  BY RingFacts
<1>3. /\ x \notin failed /\ pc[x] = "storing" /\ chan[p] # << >>
      /\ chan'[p] = Tail(chan[p]) /\ \A r \in Ranks \ {p} : chan'[r] = chan[r]
      /\ UNCHANGED <<timestamps, timestamp, member, committed, avail, todo, failed, broken, gen, fails, lost, fatal, truth>>
  BY <1>1, <1>2, StoreEndEffects DEF live
<1>4. timestamp[x] = now
  BY <1>3, WorkingNow DEF Work
<1>5. chan[p] = << Copy(p) >> /\ timestamp[p] = now
  BY <1>2, <1>3, <1>4 DEF Sound, Flow, Work
<1>6. PICK W \in [Ranks -> SUBSET Elems] : \A q \in Ranks : W[q] = Want(q, NextTime(x))
  <2>1. \A q \in Ranks : Want(q, NextTime(x)) \in SUBSET Elems
    BY <1>1, WantedType, WantFacts
  <2>2. [q \in Ranks |-> Want(q, NextTime(x))] \in [Ranks -> SUBSET Elems]
    BY <2>1
  <2>3. QED
    BY <2>2
<1>7. NextTime(p) = NextTime(x) /\ \A q \in Ranks : NextTime(q)' = NextTime(q)
  BY <1>3, <1>4, <1>5 DEF NextTime
<1>8. PICK msg \in Messages : msg = Copy(p) /\ DOMAIN msg = W[p] /\ msg = Content(stage[p].own, W[p])
  <2>1. stage[p].own \in Buffers
    BY <1>1, SnapFields DEF Typed
  <2>2. Copy(p) = Content(stage[p].own, W[p])
    BY <1>6, <1>7 DEF Copy
  <2>3. QED
    BY <2>1, <2>2, ContentType
<1>9. Head(chan[p]) = msg /\ Tail(chan[p]) = << >>
  BY <1>5, <1>8
<1>10. PICK s \in Snaps : s = stage[x]
  BY <1>1 DEF Typed
<1>11. /\ \A q \in Ranks : s.staged[q] = W[q] /\ s.prot[q] \subseteq W[q]
       /\ s.pstaged \subseteq W[p]
  BY <1>2, <1>3, <1>6, <1>10 DEF Sound, StageFits
<1>12. ~Oversized(x)
  <2>1. Cardinality(DOMAIN Head(chan[p])) = Cardinality(W[p]) /\ Cardinality(s.staged[p]) = Cardinality(W[p])
    BY <1>8, <1>9, <1>11
  <2>2. IsFiniteSet(W[p]) /\ Cardinality(W[p]) \in Nat
    BY RingFacts, FS_Subset, FS_CardinalityType
  <2>3. PICK n \in Nat : n = Cardinality(W[p])
    BY <2>2
  <2>4. ~(n > n)
    OBVIOUS
  <2>5. QED
    BY <1>2, <1>10, <2>1, <2>3, <2>4 DEF Oversized
<1>13. /\ pc'[x] = "stored" /\ stage'[x] = EndedSnap(x, msg)
       /\ \A r \in Ranks \ {x} : pc'[r] = pc[r] /\ stage'[r] = stage[r]
  <2>1. /\ pc' = [pc EXCEPT ![x] = "stored"] /\ stage'[x] = EndedSnap(x, Head(chan[left(x)]))
        /\ \A r \in Ranks \ {x} : stage'[r] = stage[r]
    BY <1>1, <1>12, StoreEndEffects
  <2>2. QED
    BY <1>1, <1>2, <1>9, <2>1 DEF Typed
<1>14. PICK e : e = EndedSnap(x, msg)
  OBVIOUS
<1>15. /\ e.own = s.own /\ e.part = Unpacked(s.part, W[p], msg) /\ e.pstaged = W[p] /\ e.staged = NoSets
       /\ \A q \in Ranks : e.prot[q] = W[q]
  <2>1. /\ e.own = s.own /\ e.part = Unpacked(s.part, s.staged[p], msg)
        /\ e.pstaged = s.pstaged \cup s.staged[p] /\ e.staged = NoSets
        /\ \A q \in Ranks : e.prot[q] = s.prot[q] \cup s.staged[q]
    BY <1>1, <1>2, <1>10, <1>14, EndedSnapFacts
  <2>2. QED
    BY ZenonT(60), <1>11, <2>1
<1>16. Known(now)' /\ Repairing(now)' /\ Copied' /\ Retained(now)' /\ \A r \in Ranks : Held(r)'
  <2>1. \A r \in Ranks : (pc'[r] = "repair" => pc[r] = "repair") /\ (pc'[r] \in Work => pc[r] \in Work)
    BY <1>3, <1>13 DEF Work
  <2>2. QED
    BY <1>1, <1>3, <2>1, KeepsData DEF Typed
<1>17. Times(now)'
  <2>1. \E r \in Ranks : timestamp'[r] = now
    BY <1>3 DEF Sound, Times
  <2>2. ASSUME NEW r \in Ranks PROVE timestamp'[r] = now \/ Replaced(r)' \/ Behind(r, now)'
    <3>1. timestamp[r] = now \/ (r \notin {p, x} /\ Replaced(r)) \/ (r \notin {p, x} /\ Behind(r, now))
      BY <1>4, <1>5 DEF Sound, Times
    <3>2. r \notin {p, x} /\ Replaced(r) => Replaced(r)'
      BY <1>3, <1>13 DEF Replaced
    <3>3. r \notin {p, x} /\ Behind(r, now) => Behind(r, now)'
      <4>1. right(r) \in Ranks /\ r \in Ranks /\ (right(r) = x => r = p)
        BY <1>2, RingFacts
      <4>2. r \notin {p, x} => pc'[right(r)] = pc[right(r)]
        BY <1>13, <4>1
      <4>3. QED
        BY <1>3, <1>13, <4>2 DEF Behind
    <3>4. QED
      BY <1>3, <3>1, <3>2, <3>3
  <2>3. \A r \in Ranks : pc'[r] = "repair" => timestamp'[r] = now
    BY <1>3, <1>13 DEF Sound, Times
  <2>4. QED
    BY <2>1, <2>2, <2>3 DEF Times
<1>18. Phases'
  <2>1. \A r \in Ranks : pc[r] \in Work \cup {"recover"}
    BY <1>3 DEF Sound, Phases, Restore
  <2>2. \A r \in Ranks : pc'[r] \in Work \cup {"recover"}
    BY <1>13, <2>1 DEF Work
  <2>3. \A r \in Ranks : pc'[r] \notin Restore
    BY <2>2 DEF Work, Restore
  <2>4. (failed # {} \/ \E r \in Ranks : pc[r] = "recover") => broken
    BY DEF Sound, Phases
  <2>5. (\E r \in Ranks : pc'[r] = "recover") => \E r \in Ranks : pc[r] = "recover"
    BY <1>13
  <2>6. QED
    BY <1>3, <2>2, <2>3, <2>4, <2>5 DEF Phases
<1>19. ASSUME NEW r \in Ranks PROVE StageFits(r)'
  <2>1. CASE r = x
    <3>1. stage'[x] = e /\ pc'[x] = "stored" /\ NextTime(x)' = NextTime(x)
      BY <1>7, <1>13, <1>14
    <3>2. \A q \in Ranks : NoSets[q] = {}
      BY FreshType
    <3>3. QED
      BY <1>2, <1>6, <1>15, <2>1, <3>1, <3>2 DEF StageFits, SnapFits
  <2>2. CASE r # x
    <3>1. StageFits(r)
      BY DEF Sound
    <3>2. stage'[r] = stage[r] /\ timestamp' = timestamp /\ pc'[r] = pc[r]
      BY <1>3, <1>13, <2>2
    <3>3. QED
      BY <3>1, <3>2 DEF StageFits, SnapFits, NextTime
  <2>3. QED
    BY <2>1, <2>2
<1>20. \A q \in Ranks : Copy(q)' = Copy(q)
  <2>1. TAKE q \in Ranks
  <2>2. stage'[q].own = stage[q].own
    BY <1>10, <1>13, <1>14, <1>15
  <2>3. QED
    BY <1>7, <2>2 DEF Copy
<1>21. ASSUME NEW q \in Ranks PROVE Flow(q)'
  <2>1. PICK r \in Ranks : r = right(q) /\ r # q
    BY RingFacts
  <2>2. Flow(q)
    BY DEF Sound
  <2>3. CASE q = p
    <3>1. r = x /\ chan'[q] = << >> /\ pc[q] \notin {"app", "exchange"}
      <4>1. pc[q] \in {"app", "exchange"} => chan[q] = << >>
        BY <1>2, <1>3, <1>4, <1>5, <2>2, <2>3 DEF Flow, Work
      <4>2. QED
        BY <1>2, <1>3, <1>9, <2>1, <2>3, <4>1
    <3>2. pc'[q] = pc[q] /\ pc'[r] = "stored" /\ NextTime(q)' = NextTime(q) /\ UNCHANGED <<timestamp, failed>>
      BY <1>3, <1>7, <1>13, <2>1, <3>1
    <3>3. Content(stage'[r].part, Want(q, NextTime(q))) = msg
      <4>1. PICK b \in Buffers : b = s.part
        BY SnapFields
      <4>2. Content(Unpacked(b, W[p], msg), W[p]) = msg
        BY <1>8, UnpackedContent
      <4>3. stage'[r] = e /\ e.part = Unpacked(b, W[p], msg) /\ Want(q, NextTime(q)) = W[p]
        BY <1>6, <1>7, <1>13, <1>14, <1>15, <2>3, <3>1, <4>1
      <4>4. QED
        BY <4>2, <4>3
    <3>4. msg = Copy(q)'
      BY <1>8, <1>20, <2>3
    <3>5. QED
      BY <2>1, <3>1, <3>2, <3>3, <3>4 DEF Flow
  <2>4. CASE q # p
    <3>1. r # x /\ chan'[q] = chan[q] /\ pc'[r] = pc[r] /\ stage'[r] = stage[r] /\ UNCHANGED <<timestamp, failed>>
      BY <1>2, <1>3, <1>13, <2>1, <2>4, RingFacts
    <3>2. Copy(q)' = Copy(q) /\ NextTime(q)' = NextTime(q)
      BY <1>7, <1>20
    <3>3. pc'[q] = pc[q] \/ (pc[q] = "storing" /\ pc'[q] = "stored")
      BY <1>3, <1>13
    <3>4. QED
      BY <2>1, <2>2, <3>1, <3>2, <3>3 DEF Flow
  <2>5. QED
    BY <2>3, <2>4
<1>22. QED
  BY <1>16, <1>17, <1>18, <1>19, <1>21 DEF Sound

-----------------------------------------------------------------------------
(* The commit of all live ranks *)

LEMMA CommittedTimesKept ==
  ASSUME NEW n \in Nat \cup {-1}
  PROVE  CommittedTimes(Kept(n), n + 1) = Kept(n + 1)
<1>1. /\ Kept(n) \in SUBSET Nat /\ n + 1 \notin Kept(n) /\ IsFiniteSet(Kept(n))
      /\ Cardinality(Kept(n)) = Depth + 1 => n >= Depth
      /\ \A t \in Kept(n) : t <= n
  BY KeptFacts
<1>2. PICK D \in SUBSET Nat : D = Kept(n) /\ Newest(D, n)
  BY <1>1 DEF Newest
<1>3. Depth \in Nat /\ n + 1 \in Nat
  BY RingFacts
<1>4. CASE Cardinality(D) = Depth + 1
  <2>1. D # {} /\ D \subseteq Int /\ IsFiniteSet(D)
    BY <1>1, <1>2, <1>3, <1>4, FS_EmptySet
  <2>2. PICK old \in D : old = Min(D) /\ \A t \in D : old <= t
    BY <2>1, MinOf
  <2>3. old # n + 1 /\ old <= n + 1
    BY <1>1, <1>2, <2>2
  <2>4. PICK F : F = (D \cup {n + 1}) \ {old}
    OBVIOUS
  <2>5. F = Kept(n + 1)
    <3>1. old \in D \cup {n + 1} /\ \A u \in D \cup {n + 1} : old <= u
      BY <2>2, <2>3
    <3>2. D = Kept(n) => F = Kept(n + 1)
      BY SMTT(30), <1>2, <1>4, <2>4, <3>1, KeptAfterCommit
    <3>3. QED
      BY <1>2, <3>2
  <2>6. CommittedTimes(D, n + 1) = (D \ {old}) \cup {n + 1}
    BY <1>4, <2>2 DEF CommittedTimes
  <2>7. QED
    BY <1>2, <2>3, <2>4, <2>5, <2>6
<1>5. CASE Cardinality(D) # Depth + 1
  <2>1. PICK F : F = D \cup {n + 1}
    OBVIOUS
  <2>2. D = Kept(n) => F = Kept(n + 1)
    BY <1>2, <1>5, <2>1, KeptAfterCommit
  <2>3. CommittedTimes(D, n + 1) = D \cup {n + 1}
    BY <1>5 DEF CommittedTimes
  <2>4. QED
    BY <1>2, <2>1, <2>2, <2>3
<1>6. QED
  BY <1>4, <1>5

\* What rank r has after a commit at n + 1.
CommitsWell(r, n) ==
  /\ timestamp'[r] = n + 1 /\ timestamps'[r] = Kept(n + 1) /\ pc'[r] = "app"
  /\ Newest(DOMAIN committed'[r], n + 1) /\ n + 1 \in DOMAIN committed'[r]
  /\ DOMAIN committed'[r] \subseteq DOMAIN committed[r] \cup {n + 1}
  /\ DOMAIN committed[r] = Kept(n) => DOMAIN committed'[r] = Kept(n + 1)
  /\ \A u \in DOMAIN committed'[r] : committed'[r][u] = IF u = n + 1 THEN stage[r] ELSE committed[r][u]
  /\ \A i \in 1 .. Len(avail'[r]) : avail'[r][i] = FreshSnapshot
  /\ stage'[r].staged = NoSets /\ stage'[r].prot = NoSets
  /\ stage'[r].pstaged \subseteq Want(left(r), n + 2)
  /\ DOMAIN truth'[r] = DOMAIN truth[r] \cup {n + 1}
  /\ truth'[r][n + 1] = OwnContent(stage[r], r)
  /\ \A u \in DOMAIN truth[r] : u # n + 1 => truth'[r][u] = truth[r][u]

LEMMA CommitWell ==
  ASSUME Steady, Covers, NEW R \in SUBSET Ranks, CommitOn(R), NEW r \in R, Held(r),
         NEW n \in Nat \cup {-1}, n = timestamp[r], timestamps[r] = Kept(n)
  PROVE  CommitsWell(r, n)
<1>1. PICK c \in Stores, a \in Seq(Snaps), s \in Snaps : c = committed[r] /\ a = avail[r] /\ s = stage[r]
  BY DEF Steady, Typed
<1>2. Full(c, a) /\ DOMAIN c \subseteq 0 .. n
  BY <1>1 DEF Steady, Pooled
<1>3. n + 1 \in Nat /\ n + 1 \notin DOMAIN c /\ n \in Int /\ Depth \in Nat
  BY <1>2, RingFacts
<1>4. /\ Newest(DOMAIN c, n) /\ \A t \in DOMAIN c : c[t].pstaged = Want(left(r), t)
      /\ \A i \in 1 .. Len(a) : a[i] = FreshSnapshot
  BY <1>1 DEF Held, SnapFits
<1>5. PICK t \in Nat : t = n + 1 /\ t \notin DOMAIN c
  BY <1>3
<1>6. CommitsTo(c, a, t, s)
  BY <1>2, <1>5, CommitFacts
<1> DEFINE e == Inserted(c, t, s)
           p == Recycled(e, a)
           b == SubSeq(p, 1, Len(p) - 1)
           f == Trimmed(e)
           old == Min(DOMAIN c \cup {t})
<1>7. /\ p # << >> /\ p[Len(p)] \in Snaps /\ f \in Stores /\ b \in Seq(Snaps) /\ Full(f, b)
      /\ \A u \in DOMAIN f : f[u] = IF u = t THEN s ELSE c[u]
      /\ Len(b) <= Len(a) /\ \A i \in 1 .. Len(b) : b[i] = a[i]
      /\ Cardinality(DOMAIN c) = Depth + 1 =>
           /\ old \in DOMAIN c \cup {t} /\ \A u \in DOMAIN c \cup {t} : old <= u
           /\ DOMAIN f = (DOMAIN c \cup {t}) \ {old} /\ p[Len(p)] = reset(IF old = t THEN s ELSE c[old])
      /\ Cardinality(DOMAIN c) # Depth + 1 =>
           DOMAIN f = DOMAIN c \cup {t} /\ Len(a) \in 1 .. Len(a) /\ p[Len(p)] = a[Len(a)]
  BY <1>6 DEF CommitsTo
<1>8. /\ timestamp'[r] = t /\ timestamps'[r] = CommittedTimes(timestamps[r], t) /\ committed'[r] = f
      /\ stage'[r] = p[Len(p)] /\ avail'[r] = b /\ pc'[r] = "app"
      /\ truth'[r] = [u \in DOMAIN truth[r] \cup {t} |-> IF u = t THEN OwnContent(stage[r], r) ELSE truth[r][u]]
  <2>1. LET t3 == timestamp[r] + 1
            e3 == Inserted(committed[r], t3, stage[r])
            p3 == Recycled(e3, avail[r])
        IN  /\ timestamp'[r] = t3 /\ timestamps'[r] = CommittedTimes(timestamps[r], t3)
            /\ committed'[r] = Trimmed(e3) /\ pc'[r] = "app"
            /\ stage'[r] = IF p3 = <<>> THEN FreshSnapshot ELSE p3[Len(p3)]
            /\ avail'[r] = IF p3 = <<>> THEN <<>> ELSE SubSeq(p3, 1, Len(p3) - 1)
            /\ truth'[r] = [u \in DOMAIN truth[r] \cup {t3} |->
                              IF u = t3 THEN OwnContent(stage[r], r) ELSE truth[r][u]]
    BY CommitOnEffects DEF Steady
  <2>2. QED
    BY <1>1, <1>5, <1>7, <2>1
<1> HIDE DEF e, p, b, f, old
<1>9. timestamps'[r] = Kept(n + 1)
  BY <1>5, <1>8, CommittedTimesKept
<1>10. PICK D, F, o : D = DOMAIN c /\ F = DOMAIN f /\ o = old
  OBVIOUS
<1>11. /\ Newest(F, n + 1) /\ n + 1 \in F /\ F \subseteq D \cup {n + 1}
       /\ D = Kept(n) => F = Kept(n + 1)
       /\ Cardinality(D) = Depth + 1 => o = n - Depth /\ o \in D /\ o \in Nat
  <2>1. Newest(D, n)
    BY <1>4, <1>10
  <2>2. Cardinality(D) = Depth + 1 =>
          /\ o \in D \cup {n + 1} /\ \A u \in D \cup {n + 1} : o <= u
          /\ F = (D \cup {n + 1}) \ {o}
    BY <1>5, <1>7, <1>10
  <2>3. Cardinality(D) # Depth + 1 => F = D \cup {n + 1}
    BY <1>5, <1>7, <1>10
  <2>4. QED
    BY <2>1, <2>2, <2>3, KeptAfterCommit, ZenonT(60)
<1>12. PICK w : w = p[Len(p)]
  OBVIOUS
<1>13. w.staged = NoSets /\ w.prot = NoSets /\ w.pstaged \subseteq Want(left(r), n + 2)
  <2>1. CASE Cardinality(DOMAIN c) = Depth + 1
    <3>1. o = n - Depth /\ o \in DOMAIN c /\ o \in Nat /\ o # t
      BY <1>5, <1>10, <1>11, <2>1
    <3>2. w = reset(c[o]) /\ c[o] \in Snaps
      BY <1>7, <1>10, <1>12, <2>1, <3>1, StoreFields
    <3>3. PICK v \in Snaps : v = c[o] /\ v.pstaged = Want(left(r), o)
      BY <1>4, <3>1, <3>2
    <3>4. w.staged = NoSets /\ w.prot = NoSets /\ w.pstaged = Want(left(r), o)
      BY <3>2, <3>3, ResetType
    <3>5. Want(left(r), o) \subseteq Want(left(r), o + Depth + 2)
      BY <3>1, RingFacts DEF Covers
    <3>6. o + Depth + 2 = n + 2
      BY <1>3, <3>1
    <3>7. QED
      BY <3>4, <3>5, <3>6
  <2>2. CASE Cardinality(DOMAIN c) # Depth + 1
    <3>1. w = FreshSnapshot
      BY <1>4, <1>7, <1>12, <2>2
    <3>2. QED
      BY <3>1, FreshType
  <2>3. QED
    BY <2>1, <2>2
<1>14. \A i \in 1 .. Len(avail'[r]) : avail'[r][i] = FreshSnapshot
  <2>1. Len(a) \in Nat /\ Len(b) \in Nat
    BY <1>7, LenProperties
  <2>2. \A i \in 1 .. Len(b) : i \in 1 .. Len(a)
    BY <1>7, <2>1
  <2>3. QED
    BY <1>4, <1>7, <1>8, <2>2
<1>15. /\ DOMAIN truth'[r] = DOMAIN truth[r] \cup {n + 1}
       /\ truth'[r][n + 1] = OwnContent(stage[r], r)
       /\ \A u \in DOMAIN truth[r] : u # n + 1 => truth'[r][u] = truth[r][u]
  <2>1. PICK v, T, o2, x : v = truth'[r] /\ T = truth[r] /\ o2 = OwnContent(stage[r], r) /\ x = n + 1
    OBVIOUS
  <2>2. v = [u \in DOMAIN T \cup {x} |-> IF u = x THEN o2 ELSE T[u]]
    BY <1>5, <1>8, <2>1
  <2>3. DOMAIN v = DOMAIN T \cup {x} /\ v[x] = o2 /\ \A u \in DOMAIN T : u # x => v[u] = T[u]
    BY <2>2
  <2>4. QED
    BY <2>1, <2>3
<1>16. \A u \in DOMAIN committed'[r] : committed'[r][u] = IF u = n + 1 THEN stage[r] ELSE committed[r][u]
  BY <1>1, <1>5, <1>7, <1>8
<1>17. /\ Newest(DOMAIN committed'[r], n + 1) /\ n + 1 \in DOMAIN committed'[r]
       /\ DOMAIN committed'[r] \subseteq DOMAIN committed[r] \cup {n + 1}
       /\ DOMAIN committed[r] = Kept(n) => DOMAIN committed'[r] = Kept(n + 1)
  BY <1>1, <1>8, <1>10, <1>11
<1>18. QED
  BY <1>5, <1>8, <1>9, <1>12, <1>13, <1>14, <1>15, <1>16, <1>17 DEF CommitsWell

LEMMA CommitSound ==
  ASSUME Steady, Covers, NEW now \in Nat \cup {-1}, Sound(now), CommitBarrier
  PROVE  Sound(now + 1)'
<1>1. CommitOn(Ranks \ failed) /\ failed # Ranks /\ (\A r \in Ranks : pc[r] = "stored") /\ now + 1 \in Nat /\ now \in Int
  BY DEF CommitBarrier
<1>2. PICK t \in Nat : t = now + 1 /\ now < t
  BY <1>1
<1>3. \A r \in Ranks \ failed : timestamp[r] = now /\ timestamps[r] = Kept(now) /\ Held(r)
  <2>1. \A r \in Ranks \ failed : timestamp[r] = now
    BY <1>1, WorkingNow DEF Work
  <2>2. QED
    BY <2>1 DEF Sound, Known
<1>4. ASSUME NEW r \in Ranks \ failed PROVE CommitsWell(r, now)
  <2>1. Ranks \ failed \in SUBSET Ranks
    OBVIOUS
  <2>2. QED
    BY <1>1, <1>3, <2>1, CommitWell
<1>5. /\ \A r \in failed :
           /\ timestamp'[r] = timestamp[r] /\ timestamps'[r] = timestamps[r] /\ committed'[r] = committed[r]
           /\ stage'[r] = stage[r] /\ avail'[r] = avail[r] /\ truth'[r] = truth[r] /\ pc'[r] = pc[r]
      /\ UNCHANGED <<member, chan, todo, failed, broken, gen, fails, lost, fatal>>
  <2>1. /\ \A r \in Ranks \ (Ranks \ failed) :
             /\ timestamp'[r] = timestamp[r] /\ timestamps'[r] = timestamps[r] /\ committed'[r] = committed[r]
             /\ stage'[r] = stage[r] /\ avail'[r] = avail[r] /\ truth'[r] = truth[r] /\ pc'[r] = pc[r]
        /\ UNCHANGED <<member, chan, todo, failed, broken, gen, fails, lost, fatal>>
    BY <1>1, CommitOnEffects DEF Steady
  <2>2. \A r \in failed : r \in Ranks \ (Ranks \ failed)
    BY DEF Steady, Typed
  <2>3. QED
    BY <2>1, <2>2
<1>6. \A r \in failed : r \in Ranks /\ timestamp[r] <= now
  <2>1. TAKE r \in failed
  <2>2. r \in Ranks
    BY DEF Steady, Typed
  <2>3. timestamp[r] = now \/ timestamp[r] = -1 \/ timestamp[r] < now
    BY <2>2 DEF Sound, Times, Replaced, Behind
  <2>4. timestamp[r] \in Int /\ -1 <= now
    BY <1>1, <2>2 DEF Steady, Typed
  <2>5. QED
    BY <1>1, <2>2, <2>3, <2>4
<1>7. \A r \in Ranks \ failed : timestamp'[r] = t /\ pc'[r] = "app"
  BY <1>2, <1>4 DEF CommitsWell
<1>8. Times(t)'
  <2>1. \E r \in Ranks : timestamp'[r] = t
    BY <1>1, <1>7 DEF Steady, Typed
  <2>2. ASSUME NEW r \in failed PROVE Behind(r, t)'
    <3>1. right(r) \in Ranks /\ r \in Ranks
      BY <1>6, RingFacts
    <3>2. timestamp'[r] < t /\ pc'[r] = "stored"
      <4>1. timestamp[r] \in Int
        BY <3>1 DEF Steady, Typed
      <4>2. QED
        BY <1>1, <1>2, <1>5, <1>6, <3>1, <4>1
    <3>3. pc'[right(r)] = "stored" => timestamp'[right(r)] # t
      <4>1. timestamp[right(r)] \in Int
        BY <3>1 DEF Steady, Typed
      <4>2. pc'[right(r)] = "stored" => right(r) \in failed
        BY <1>7, <3>1
      <4>3. right(r) \in failed => timestamp'[right(r)] # t
        BY <1>1, <1>2, <1>5, <1>6, <4>1
      <4>4. QED
        BY <4>2, <4>3
    <3>4. QED
      BY <1>5, <3>2, <3>3 DEF Behind
  <2>3. \A r \in Ranks : pc'[r] # "repair"
    BY <1>1, <1>5, <1>7
  <2>4. QED
    BY <1>5, <1>7, <2>1, <2>2, <2>3 DEF Times
<1>9. Known(t)'
  <2>1. \A r \in Ranks \ failed : timestamps'[r] = Kept(timestamp'[r]) /\ DOMAIN truth'[r] \subseteq 0 .. t
    <3>1. TAKE r \in Ranks \ failed
    <3>2. /\ timestamp'[r] = t /\ timestamps'[r] = Kept(t)
          /\ DOMAIN truth'[r] = DOMAIN truth[r] \cup {t}
      BY <1>2, <1>4 DEF CommitsWell
    <3>3. DOMAIN truth[r] \subseteq 0 .. now
      BY DEF Sound, Known
    <3>4. \A u \in 0 .. now : u \in 0 .. t
      BY <1>1, <1>2
    <3>5. t \in 0 .. t
      OBVIOUS
    <3>6. QED
      BY <3>2, <3>3, <3>4, <3>5
  <2>2. \A r \in failed : timestamps'[r] = Kept(timestamp'[r]) /\ DOMAIN truth'[r] \subseteq 0 .. t
    <3>1. \A u \in 0 .. now : u \in 0 .. t
      BY <1>1, <1>2
    <3>2. \A r \in failed : timestamps[r] = Kept(timestamp[r]) /\ DOMAIN truth[r] \subseteq 0 .. now
      BY <1>6 DEF Sound, Known
    <3>3. QED
      BY <1>5, <3>1, <3>2
  <2>3. QED
    BY <2>1, <2>2 DEF Known
<1>10. ASSUME NEW r \in Ranks PROVE Held(r)'
  <2>1. CASE r \in failed
    <3>1. Held(r) /\ timestamp'[r] = timestamp[r] /\ committed'[r] = committed[r] /\ avail'[r] = avail[r]
      BY <1>5, <2>1 DEF Sound
    <3>2. QED
      BY <3>1 DEF Held
  <2>2. CASE r \notin failed
    <3>1. CommitsWell(r, now) /\ Held(r) /\ StageFits(r) /\ pc[r] = "stored" /\ timestamp[r] = now
      BY <1>1, <1>3, <1>4, <2>2 DEF Sound
    <3>2. Newest(DOMAIN committed'[r], timestamp'[r]) /\ \A i \in 1 .. Len(avail'[r]) : avail'[r][i] = FreshSnapshot
      BY <3>1 DEF CommitsWell
    <3>3. \A u \in DOMAIN committed'[r] : /\ committed'[r][u] = (IF u = t THEN stage[r] ELSE committed[r][u])
                                          /\ u # t => u \in DOMAIN committed[r]
      BY <1>2, <3>1 DEF CommitsWell
    <3>4. SnapFits(stage[r], r, t)
      BY <1>2, <3>1 DEF StageFits, NextTime
    <3>5. \A u \in DOMAIN committed[r] : SnapFits(committed[r][u], r, u)
      BY <3>1 DEF Held
    <3>6. \A u \in DOMAIN committed'[r] : SnapFits(committed'[r][u], r, u)
      BY <3>3, <3>4, <3>5
    <3>7. \A u \in DOMAIN committed'[r] : SnapFits(committed[r][u], r, u)'
      BY <3>6 DEF SnapFits
    <3>8. QED
      BY <3>2, <3>6 DEF Held, SnapFits
  <2>3. QED
    BY <2>1, <2>2
<1>11. Phases'
  <2>1. \A r \in Ranks : pc'[r] \in {"app", "stored"}
    BY <1>1, <1>5, <1>7
  <2>2. \A r \in Ranks : pc'[r] \in Work \cup {"recover"} /\ pc'[r] \notin Restore /\ pc'[r] # "recover"
    BY <2>1 DEF Work, Restore
  <2>3. failed # {} => broken
    BY DEF Sound, Phases
  <2>4. QED
    BY <1>5, <2>2, <2>3 DEF Phases
<1>12. Repairing(t)'
  <2>1. \A r \in Ranks : pc'[r] # "repair"
    BY <1>1, <1>5, <1>7
  <2>2. QED
    BY <2>1 DEF Repairing
<1>13. ASSUME NEW r \in Ranks PROVE StageFits(r)'
  <2>1. CASE r \in failed
    <3>1. StageFits(r) /\ timestamp'[r] = timestamp[r] /\ stage'[r] = stage[r] /\ pc'[r] = pc[r]
      BY <1>5, <2>1 DEF Sound
    <3>2. QED
      BY <3>1 DEF StageFits, NextTime, SnapFits
  <2>2. CASE r \notin failed
    <3>1. CommitsWell(r, now)
      BY <1>4, <2>2
    <3>2. NextTime(r)' = now + 2
      BY <1>1, <1>2, <1>7, <2>2 DEF NextTime
    <3>3. /\ stage'[r].staged = NoSets /\ stage'[r].prot = NoSets
          /\ stage'[r].pstaged \subseteq Want(left(r), now + 2) /\ pc'[r] = "app"
      BY <3>1 DEF CommitsWell
    <3>4. \A q \in Ranks : NoSets[q] = {}
      BY FreshType
    <3>5. QED
      BY <3>2, <3>3, <3>4 DEF StageFits
  <2>3. QED
    BY <2>1, <2>2
<1>14. ASSUME NEW q \in Ranks PROVE Flow(q)'
  <2>1. PICK r \in Ranks : r = right(q)
    BY RingFacts
  <2>2. CASE r \in failed
    BY <1>5, <2>1, <2>2 DEF Flow
  <2>3. CASE r \notin failed
    <3>1. chan[q] = << >>
      BY <1>1, <2>1, <2>3 DEF Sound, Flow, Work
    <3>2. chan'[q] = << >> /\ pc'[r] = "app"
      BY <1>5, <1>7, <2>3, <3>1
    <3>3. QED
      BY <2>1, <3>2 DEF Flow
  <2>4. QED
    BY <2>2, <2>3
<1>15. Retained(t)'
  <2>1. CASE fatal
    BY <1>5, <2>1 DEF Retained
  <2>2. CASE ~fatal
    <3>1. lost = {}
      <4>1. \E r \in Ranks : pc[r] \in Work
        BY <1>1, RingFacts DEF Work
      <4>2. QED
        BY <2>2, <4>1 DEF Sound, Retained
    <3>2. \A r \in Ranks \ failed : timestamp[r] = now /\ DOMAIN committed[r] = Kept(now) /\ member[r]
      BY <2>2, <3>1 DEF Sound, Retained
    <3>3. \A r \in Ranks \ failed : timestamp'[r] = t /\ DOMAIN committed'[r] = Kept(t) /\ member'[r]
      BY <1>2, <1>4, <1>5, <3>2 DEF CommitsWell
    <3>4. QED
      BY <1>5, <3>1, <3>3 DEF Retained
  <2>3. QED
    BY <2>1, <2>2
<1>16. \A r \in Ranks : t \notin DOMAIN truth[r]
  <2>1. TAKE r \in Ranks
  <2>2. DOMAIN truth[r] \subseteq 0 .. now
    BY DEF Sound, Known
  <2>3. QED
    BY <1>1, <1>2, <2>2
<1>17. \A r \in Ranks \ failed : stage[r].prot[r] = Want(r, t)
  BY <1>1, <1>2, <1>3 DEF Sound, StageFits, SnapFits, NextTime
<1>18. \A r \in Ranks \ failed :
         /\ \A u \in DOMAIN committed'[r] : /\ committed'[r][u] = (IF u = t THEN stage[r] ELSE committed[r][u])
                                            /\ u # t => u \in DOMAIN committed[r]
         /\ DOMAIN truth'[r] = DOMAIN truth[r] \cup {t}
         /\ truth'[r][t] = Content(stage[r].own, Want(r, t))
         /\ \A u \in DOMAIN truth[r] : truth'[r][u] = truth[r][u]
  <2>1. TAKE r \in Ranks \ failed
  <2>2. OwnContent(stage[r], r) = Content(stage[r].own, Want(r, t))
    BY <1>17 DEF OwnContent
  <2>3. QED
    BY <1>2, <1>4, <1>16, <2>2 DEF CommitsWell
<1>19. ASSUME NEW r \in Ranks \ failed PROVE CopiedBy(r)'
  <2>1. PICK q \in Ranks : q = left(r) /\ right(q) = r
    BY RingFacts
  <2>2. CopiedBy(r)
    BY DEF Sound, Copied
  <2>3. q \notin failed => Content(stage[r].part, Want(q, t)) = Content(stage[q].own, Want(q, t))
    <3>1. SUFFICES ASSUME q \notin failed PROVE Content(stage[r].part, Want(q, t)) = Content(stage[q].own, Want(q, t))
      OBVIOUS
    <3>2. timestamp[q] = now /\ timestamp[r] = now /\ pc[q] = "stored" /\ pc[r] = "stored" /\ NextTime(q) = t
      BY <1>1, <1>2, <1>3, <3>1 DEF NextTime
    <3>3. QED
      BY <2>1, <3>2 DEF Sound, Flow, Copy, Work
  <2>4. q \notin failed => \A u \in DOMAIN committed'[r] \cap DOMAIN committed'[q] :
          Content(committed'[r][u].part, Want(q, u)) = Content(committed'[q][u].own, Want(q, u))
    <3>1. SUFFICES ASSUME q \notin failed, NEW u \in DOMAIN committed'[r] \cap DOMAIN committed'[q]
                   PROVE  Content(committed'[r][u].part, Want(q, u)) = Content(committed'[q][u].own, Want(q, u))
      OBVIOUS
    <3>2. CASE u = t
      BY <1>18, <2>3, <3>1, <3>2
    <3>3. CASE u # t
      <4>1. u \in DOMAIN committed[r] \cap DOMAIN committed[q] /\ committed'[r][u] = committed[r][u] /\ committed'[q][u] = committed[q][u]
        BY <1>18, <3>1, <3>3
      <4>2. QED
        BY <2>1, <2>2, <3>1, <4>1 DEF CopiedBy
    <3>4. QED
      BY <3>2, <3>3
  <2>5. \A u \in DOMAIN committed'[r] \cap DOMAIN truth'[r] : Content(committed'[r][u].own, Want(r, u)) = truth'[r][u]
    <3>1. TAKE u \in DOMAIN committed'[r] \cap DOMAIN truth'[r]
    <3>2. CASE u = t
      BY <1>18, <3>2
    <3>3. CASE u # t
      <4>1. u \in DOMAIN committed[r] \cap DOMAIN truth[r] /\ committed'[r][u] = committed[r][u] /\ truth'[r][u] = truth[r][u]
        BY <1>18, <3>3
      <4>2. QED
        BY <2>2, <4>1 DEF CopiedBy
    <3>4. QED
      BY <3>2, <3>3
  <2>6. \A u \in DOMAIN committed'[r] \cap DOMAIN truth'[q] : Content(committed'[r][u].part, Want(q, u)) = truth'[q][u]
    <3>1. TAKE u \in DOMAIN committed'[r] \cap DOMAIN truth'[q]
    <3>2. CASE u = t
      <4>1. q \notin failed
        BY <1>5, <1>16, <3>2
      <4>2. QED
        BY <1>18, <2>3, <3>2, <4>1
    <3>3. CASE u # t
      <4>1. /\ u \in DOMAIN committed[r] \cap DOMAIN truth[q] /\ committed'[r][u] = committed[r][u]
            /\ truth'[q][u] = truth[q][u]
        BY <1>5, <1>18, <3>3
      <4>2. QED
        BY <2>1, <2>2, <4>1 DEF CopiedBy
    <3>4. QED
      BY <3>2, <3>3
  <2>7. QED
    BY <1>5, <2>1, <2>4, <2>5, <2>6 DEF CopiedBy
<1>20. Copied'
  BY <1>5, <1>19 DEF Copied
<1>21. Sound(t)'
  BY <1>8, <1>9, <1>10, <1>11, <1>12, <1>13, <1>14, <1>15, <1>20 DEF Sound
<1>22. QED
  BY <1>2, <1>21

-----------------------------------------------------------------------------
(* The recovery of the processes *)

LEMMA RebuildSound ==
  ASSUME Steady, NEW now \in Nat \cup {-1}, Sound(now), Rebuild
  PROVE  \E m \in Nat \cup {-1} : Sound(m)'
<1>1. Typed
  BY DEF Steady
<1>2. /\ failed' = {} /\ broken' = FALSE /\ lost' = lost \cup failed
      /\ fatal' = (fatal \/ Cardinality(lost \cup failed) > 1)
      /\ \A r \in Ranks : pc'[r] = "init" /\ chan'[r] = << >> /\ todo'[r] = {}
  BY <1>1, RebuildEffects
<1>3. /\ \A r \in Ranks \ failed : pc[r] = "recover"
      /\ \A r \in failed : /\ timestamps'[r] = {} /\ timestamp'[r] = -1 /\ member'[r] = FALSE
                           /\ stage'[r] = FreshSnapshot /\ committed'[r] = << >> /\ avail'[r] = Pool
      /\ \A r \in Ranks \ failed :
           /\ timestamps'[r] = timestamps[r] /\ timestamp'[r] = timestamp[r] /\ member'[r] = member[r]
           /\ stage'[r] = stage[r] /\ committed'[r] = committed[r] /\ avail'[r] = avail[r]
  BY <1>1, RebuildEffects
<1>4. \A r \in Ranks : \A t \in DOMAIN truth'[r] : /\ t \in DOMAIN truth[r] /\ truth'[r][t] = truth[r][t]
                                                   /\ \E q \in Ranks \ failed : t \in DOMAIN committed[q]
  BY <1>1, RebuildEffects
<1>5. \A r \in Ranks \ failed : timestamp[r] = now \/ (timestamp[r] = -1 /\ stage[r] = FreshSnapshot)
  BY DEF Sound, Times, Replaced, Behind
<1>6. PICK m \in Nat \cup {-1} : m = (IF \E r \in Ranks \ failed : timestamp[r] = now THEN now ELSE -1)
  OBVIOUS
<1>7. Kept(-1) = {}
  BY KeptFacts
<1>8. Times(m)'
  <2>1. \E r \in Ranks : timestamp'[r] = m
    <3>1. CASE \E r \in Ranks \ failed : timestamp[r] = now
      BY <1>3, <1>6, <3>1
    <3>2. CASE ~\E r \in Ranks \ failed : timestamp[r] = now
      <4>1. PICK r \in Ranks : TRUE
        BY RingFacts
      <4>2. timestamp'[r] = -1
        BY <1>3, <1>5, <3>2
      <4>3. QED
        BY <1>6, <3>2, <4>2
    <3>3. QED
      BY <3>1, <3>2
  <2>2. ASSUME NEW r \in Ranks PROVE timestamp'[r] = m \/ Replaced(r)'
    <3>1. CASE r \in failed
      BY <1>2, <1>3, <3>1 DEF Replaced
    <3>2. CASE r \notin failed /\ timestamp[r] = now
      BY <1>3, <1>6, <3>2
    <3>3. CASE r \notin failed /\ timestamp[r] = -1 /\ stage[r] = FreshSnapshot
      BY <1>2, <1>3, <3>3 DEF Replaced
    <3>4. QED
      BY <1>5, <3>1, <3>2, <3>3
  <2>3. QED
    BY <1>2, <2>1, <2>2 DEF Times
<1>9. Known(m)'
  <2>1. ASSUME NEW r \in Ranks PROVE timestamps'[r] = Kept(timestamp'[r])
    BY <1>3, <1>7 DEF Sound, Known
  <2>2. ASSUME NEW r \in Ranks, NEW t \in DOMAIN truth'[r] PROVE t \in 0 .. m
    <3>1. t \in 0 .. now
      BY <1>4, <2>2 DEF Sound, Known
    <3>2. PICK q \in Ranks \ failed : t \in DOMAIN committed[q]
      BY <1>4, <2>2
    <3>3. t \in Kept(timestamp[q])
      BY <3>2 DEF Sound, Held, Newest
    <3>4. timestamp[q] = now
      BY <1>5, <1>7, <3>3
    <3>5. QED
      BY <1>6, <3>1, <3>4
  <2>3. QED
    BY <2>1, <2>2 DEF Known
<1>10. Phases'
  BY <1>2 DEF Phases, Restore
<1>11. Repairing(m)'
  <2>1. \A r \in Ranks : pc'[r] # "repair"
    BY <1>2
  <2>2. QED
    BY <2>1, RingFacts DEF Repairing
<1>12. ASSUME NEW r \in Ranks PROVE Held(r)'
  <2>1. CASE r \in failed
    <3>1. DOMAIN committed'[r] = {} /\ avail'[r] = Pool
      BY <1>3, <2>1, StoreFields
    <3>2. QED
      BY <3>1, PoolFacts DEF Held, Newest
  <2>2. CASE r \notin failed
    <3>1. Held(r) /\ timestamp'[r] = timestamp[r] /\ committed'[r] = committed[r] /\ avail'[r] = avail[r]
      BY <1>3, <2>2 DEF Sound
    <3>2. QED
      BY <3>1 DEF Held
  <2>3. QED
    BY <2>1, <2>2
<1>13. ASSUME NEW r \in Ranks PROVE StageFits(r)'
  <2>1. pc'[r] = "init"
    BY <1>2
  <2>2. CASE r \in failed
    <3>1. stage'[r] = FreshSnapshot
      BY <1>3, <2>2
    <3>2. QED
      BY <2>1, <3>1, FreshType DEF StageFits
  <2>3. CASE r \notin failed
    <3>1. StageFits(r) /\ timestamp'[r] = timestamp[r] /\ stage'[r] = stage[r]
      BY <1>3, <2>3 DEF Sound
    <3>2. QED
      BY <2>1, <3>1 DEF StageFits, NextTime
  <2>4. QED
    BY <2>2, <2>3
<1>14. \A q \in Ranks : Flow(q)'
  <2>1. \A q \in Ranks : pc'[right(q)] \notin Work
    BY <1>2, RingFacts DEF Work
  <2>2. QED
    BY <2>1 DEF Flow
<1>15. Retained(m)'
  <2>1. SUFFICES ASSUME ~fatal' PROVE Retained(m)'
    BY DEF Retained
  <2>2. ~fatal /\ \A p, q \in lost \cup failed : p = q
    <3>1. ~fatal /\ ~(Cardinality(lost \cup failed) > 1)
      BY <1>2, <2>1
    <3>2. IsFiniteSet(lost \cup failed)
      <4>1. lost \cup failed \in SUBSET Ranks
        BY <1>1 DEF Typed
      <4>2. QED
        BY <4>1, RingFacts, FS_Subset
    <3>3. Cardinality(lost \cup failed) \in Nat
      BY <3>2, FS_CardinalityType
    <3>4. Cardinality(lost \cup failed) = 0 \/ Cardinality(lost \cup failed) = 1
      BY <3>1, <3>3
    <3>5. CASE Cardinality(lost \cup failed) = 0
      <4>1. lost \cup failed = {}
        BY <3>2, <3>5, FS_EmptySet
      <4>2. QED
        BY <3>1, <4>1
    <3>6. CASE Cardinality(lost \cup failed) = 1
      <4>1. PICK x : lost \cup failed = {x}
        BY <3>2, <3>6, FS_Singleton
      <4>2. QED
        BY <3>1, <4>1
    <3>7. QED
      BY <3>4, <3>5, <3>6
  <2>3. \A r \in Ranks \ (failed \cup lost) : timestamp[r] = now /\ DOMAIN committed[r] = Kept(now) /\ member[r]
    BY <2>2 DEF Sound, Retained
  <2>4. m = now
    <3>1. PICK r \in Ranks : r \notin lost \cup failed
      <4>1. PICK x \in Ranks : TRUE
        BY RingFacts
      <4>2. left(x) \in Ranks /\ left(x) # x
        BY RingFacts
      <4>3. QED
        BY <2>2, <4>2
    <3>2. QED
      BY <1>6, <2>3, <3>1
  <2>5. \A r \in Ranks \ lost' : timestamp'[r] = m /\ DOMAIN committed'[r] = Kept(m) /\ member'[r]
    BY <1>2, <1>3, <2>3, <2>4
  <2>6. \A r \in Ranks : pc'[r] \notin Work
    BY <1>2 DEF Work
  <2>7. QED
    BY <1>2, <2>2, <2>5, <2>6 DEF Retained
<1>16. ASSUME NEW r \in Ranks PROVE CopiedBy(r)'
  <2>1. PICK q \in Ranks : q = left(r)
    BY RingFacts
  <2>2. CASE r \in failed
    <3>1. DOMAIN committed'[r] = {}
      BY <1>3, <2>2, StoreFields
    <3>2. QED
      BY <3>1 DEF CopiedBy
  <2>3. CASE r \notin failed
    <3>1. CopiedBy(r) /\ committed'[r] = committed[r]
      BY <1>3, <2>3 DEF Sound, Copied
    <3>2. q \in failed => DOMAIN committed'[q] = {}
      BY <1>3, StoreFields
    <3>3. q \notin failed => committed'[q] = committed[q]
      BY <1>3
    <3>4. \A x \in Ranks : \A t \in DOMAIN truth'[x] : t \in DOMAIN truth[x] /\ truth'[x][t] = truth[x][t]
      BY <1>4
    <3>5. QED
      BY <2>1, <3>1, <3>2, <3>3, <3>4 DEF CopiedBy
  <2>4. QED
    BY <2>2, <2>3
<1>17. Copied'
  BY <1>16 DEF Copied
<1>18. Sound(m)'
  BY <1>8, <1>9, <1>10, <1>11, <1>12, <1>13, <1>14, <1>15, <1>17 DEF Sound
<1>19. QED
  BY <1>18

-----------------------------------------------------------------------------
(* The agreement on the timestamps *)

\* The vectors of ranks that have either all of K or nothing are reduced to K.
LEMMA SyncedKept ==
  ASSUME NEW K \in SUBSET Nat, IsFiniteSet(K), \A r \in Ranks : timestamps[r] = K \/ timestamps[r] = {},
         NEW q \in Ranks, timestamps[q] = K
  PROVE  SyncedTimestamps = K
<1> DEFINE sizes == {Cardinality(timestamps[r]) : r \in Ranks}
           top(i) == {NthNewest(timestamps[r], i) : r \in Ranks}
<1>1. PICK k \in Nat : k = Cardinality(K)
  BY FS_CardinalityType
<1>2. Cardinality({}) = 0 /\ IsFiniteSet({})
  BY FS_EmptySet
<1>3. Max(sizes) = k
  <2>1. sizes \subseteq {0, k} /\ k \in sizes
    BY <1>1, <1>2
  <2>2. IsFiniteSet({0, k})
    <3>1. IsFiniteSet({0}) /\ IsFiniteSet({k})
      BY FS_Singleton
    <3>2. IsFiniteSet({0} \cup {k})
      BY <3>1, FS_Union
    <3>3. {0, k} = {0} \cup {k}
      OBVIOUS
    <3>4. QED
      BY <3>2, <3>3
  <2>3. IsFiniteSet(sizes) /\ sizes \subseteq Int /\ sizes # {}
    BY <2>1, <2>2, FS_Subset
  <2> HIDE DEF sizes
  <2>4. Max(sizes) \in sizes /\ \A x \in sizes : x <= Max(sizes)
    BY <2>3, MaxOf
  <2>5. PICK v : v = Max(sizes)
    OBVIOUS
  <2>6. (v = 0 \/ v = k) /\ k <= v
    BY <2>1, <2>4, <2>5
  <2>7. v = k
    BY <2>6
  <2>8. QED
    BY <2>5, <2>7
<1>4. ASSUME NEW i \in 1 .. k PROVE Max(top(i)) = NthNewest(K, i) /\ NthNewest(K, i) \in K
  <2>1. PICK x \in Nat : x = NthNewest(K, i) /\ x \in K
    BY <1>1, NthNewestFacts
  <2>2. NthNewest({}, i) = -1
    <3>1. {} \in SUBSET Nat /\ i \in Nat /\ i > 0
      OBVIOUS
    <3>2. QED
      BY <1>2, <3>1, NthNewestFacts
  <2>3. top(i) \subseteq {-1, x} /\ x \in top(i)
    BY <2>1, <2>2
  <2>4. IsFiniteSet({-1, x})
    <3>1. IsFiniteSet({-1}) /\ IsFiniteSet({x})
      BY FS_Singleton
    <3>2. IsFiniteSet({-1} \cup {x})
      BY <3>1, FS_Union
    <3>3. {-1, x} = {-1} \cup {x}
      OBVIOUS
    <3>4. QED
      BY <3>2, <3>3
  <2>5. IsFiniteSet(top(i)) /\ top(i) \subseteq Int /\ top(i) # {}
    BY <2>3, <2>4, FS_Subset
  <2> HIDE DEF top
  <2>6. Max(top(i)) \in top(i) /\ \A y \in top(i) : y <= Max(top(i))
    BY <2>5, MaxOf
  <2>7. Max(top(i)) = x
    BY <2>3, <2>6
  <2>8. QED
    BY <2>1, <2>7
<1>5. SyncedTimestamps = {Max(top(i)) : i \in 1 .. k}
  BY <1>3 DEF SyncedTimestamps
<1> HIDE DEF top
<1>6. SyncedTimestamps = {NthNewest(K, i) : i \in 1 .. k}
  BY <1>4, <1>5
<1>7. \A t \in K : \E i \in 1 .. k : NthNewest(K, i) = t
  BY <1>1, NthNewestFacts
<1>8. QED
  BY <1>4, <1>6, <1>7

LEMMA SyncSound ==
  ASSUME Steady, NEW now \in Nat \cup {-1}, Sound(now), SyncTimestamps
  PROVE  Sound(now)'
<1>1. Typed
  BY DEF Steady
<1>2. PICK ts : ts = SyncedTimestamps
  OBVIOUS
<1>3. PICK done \in SUBSET Ranks :
        /\ done \subseteq Ranks \ failed /\ (~broken => done = Ranks) /\ failed # Ranks
        /\ \A r \in Ranks \ failed : pc[r] = "init"
        /\ \A r \in Ranks \ done :
             /\ timestamp'[r] = timestamp[r] /\ timestamps'[r] = timestamps[r] /\ committed'[r] = committed[r]
             /\ avail'[r] = avail[r] /\ todo'[r] = todo[r]
             /\ pc'[r] = IF r \in failed THEN pc[r] ELSE "recover"
        /\ \A r \in done :
             /\ timestamp'[r] = (IF ts = {} THEN -1 ELSE Max(ts))
             /\ timestamps'[r] = ts /\ avail'[r] = CleanedPool(r, ts)
             /\ committed'[r] = OnTimes(committed[r], ts)
             /\ todo'[r] = ts /\ pc'[r] = "repair"
        /\ UNCHANGED <<member, stage, chan, failed, broken, gen, fails, lost, fatal, truth>>
  BY <1>1, <1>2, SyncEffects
<1>4. \A r \in Ranks : pc[r] \in Restore \cup {"recover"}
  <2>1. PICK x \in Ranks : pc[x] = "init"
    BY <1>1, <1>3 DEF Typed
  <2>2. QED
    BY <2>1 DEF Sound, Phases, Work
<1>5. \A r \in Ranks : timestamp[r] = now \/ (timestamp[r] = -1 /\ stage[r] = FreshSnapshot /\ pc[r] \in {"init", "recover"})
  BY <1>4 DEF Sound, Times, Replaced, Behind, Restore
<1>6. PICK K \in SUBSET Nat : K = Kept(now) /\ IsFiniteSet(K)
  BY KeptFacts
<1>7. Kept(-1) = {}
  BY KeptFacts
<1>8. ts = K
  <2>1. \A r \in Ranks : timestamps[r] = K \/ timestamps[r] = {}
    BY <1>5, <1>6, <1>7 DEF Sound, Known
  <2>2. PICK q \in Ranks : timestamps[q] = K
    BY <1>6 DEF Sound, Times, Known
  <2>3. QED
    BY <1>2, <1>6, <2>1, <2>2, SyncedKept
<1>9. now = IF ts = {} THEN -1 ELSE Max(ts)
  <2>1. CASE now = -1
    BY <1>6, <1>7, <1>8, <2>1
  <2>2. CASE now # -1
    <3>1. now \in K /\ \A t \in K : t <= now
      BY <1>6, <2>2, KeptFacts
    <3>2. K \subseteq Int /\ K # {}
      BY <1>6, <3>1
    <3>3. Max(K) \in K /\ \A t \in K : t <= Max(K)
      BY <1>6, <3>2, MaxOf
    <3>4. PICK v : v = Max(K)
      OBVIOUS
    <3>5. v \in Int /\ now \in Int /\ v <= now /\ now <= v
      BY <3>1, <3>2, <3>3, <3>4
    <3>6. v = now
      BY <3>5
    <3>7. QED
      BY <1>8, <3>2, <3>4, <3>6
  <2>3. QED
    BY <2>1, <2>2
<1>10. \A r \in Ranks : DOMAIN committed[r] \subseteq K /\ (timestamp[r] = -1 => DOMAIN committed[r] = {})
  <2>1. TAKE r \in Ranks
  <2>2. DOMAIN committed[r] \subseteq Kept(timestamp[r])
    BY DEF Sound, Held, Newest
  <2>3. QED
    BY <1>5, <1>6, <1>7, <2>2
<1>11. \A r \in Ranks : committed'[r] = committed[r] /\ avail'[r] = avail[r]
  <2>1. TAKE r \in Ranks
  <2>2. committed[r] \in Stores /\ avail[r] \in Seq(Snaps) /\ Full(committed[r], avail[r])
    BY DEF Steady, Typed, Pooled
  <2>3. Cleans(r, K)
    BY <1>6, <2>2, CleanedFacts
  <2>4. CleanedPool(r, K) = avail[r] /\ OnTimes(committed[r], K) = committed[r]
    BY <1>10, <2>3 DEF Cleans
  <2>5. QED
    BY <1>3, <1>8, <2>4
<1>12. \A r \in Ranks :
         \/ r \in done /\ timestamp'[r] = now /\ timestamps'[r] = K /\ todo'[r] = K /\ pc'[r] = "repair" /\ pc[r] = "init"
            /\ r \notin failed
         \/ /\ r \notin done /\ timestamp'[r] = timestamp[r] /\ timestamps'[r] = timestamps[r] /\ todo'[r] = todo[r]
            /\ (r \in failed /\ pc'[r] = pc[r]) \/ (r \notin failed /\ pc'[r] = "recover")
  BY <1>3, <1>8, <1>9
<1>13. Times(now)'
  <2>1. \E r \in Ranks : timestamp'[r] = now
    BY <1>12 DEF Sound, Times
  <2>2. ASSUME NEW r \in Ranks PROVE timestamp'[r] = now \/ Replaced(r)'
    BY <1>3, <1>5, <1>12 DEF Replaced
  <2>3. \A r \in Ranks : pc'[r] = "repair" => timestamp'[r] = now
    BY <1>12 DEF Sound, Times
  <2>4. QED
    BY <2>1, <2>2, <2>3 DEF Times
<1>14. Known(now)'
  BY <1>3, <1>6, <1>12 DEF Sound, Known
<1>15. ASSUME NEW r \in Ranks PROVE Held(r)'
  <2>1. Held(r) /\ committed'[r] = committed[r] /\ avail'[r] = avail[r]
    BY <1>11 DEF Sound
  <2>2. Newest(DOMAIN committed[r], timestamp'[r])
    <3>1. CASE timestamp'[r] = timestamp[r]
      BY <2>1, <3>1 DEF Held
    <3>2. CASE timestamp'[r] # timestamp[r]
      <4>1. DOMAIN committed[r] = {}
        BY <1>5, <1>10, <1>12, <3>2
      <4>2. QED
        BY <4>1 DEF Newest
    <3>3. QED
      BY <3>1, <3>2
  <2>3. QED
    BY <2>1, <2>2 DEF Held
<1>16. Phases'
  <2>1. \A r \in Ranks : pc'[r] \in Restore \cup {"recover"}
    BY <1>4, <1>12 DEF Restore
  <2>2. \A r \in Ranks : pc'[r] \in Restore => chan'[r] = <<>>
    BY <1>3, <1>12 DEF Sound, Phases, Restore
  <2>3. (failed # {} \/ \E r \in Ranks : pc[r] = "recover") => broken
    BY DEF Sound, Phases
  <2>4. (\E r \in Ranks : pc'[r] = "recover") => broken
    BY <1>3, <1>12, <2>3
  <2>5. QED
    BY <1>3, <2>1, <2>2, <2>3, <2>4 DEF Phases
<1>17. Repairing(now)'
  <2>1. \A r \in Ranks : pc'[r] = "repair" => todo'[r] \subseteq Kept(now)
    BY <1>6, <1>12 DEF Sound, Repairing
  <2>2. ((\A r \in Ranks : pc'[r] = "repair") /\ failed' = {}) => \A r \in Ranks : todo'[r] = Kept(now)
    BY <1>3, <1>6, <1>12
  <2>3. QED
    BY <2>1, <2>2 DEF Repairing
<1>18. ASSUME NEW r \in Ranks PROVE StageFits(r)'
  <2>1. StageFits(r) /\ stage' = stage /\ pc'[r] \notin Work
    BY <1>3, <1>4, <1>12 DEF Sound, Work, Restore
  <2>2. pc'[r] # "exchange" /\ pc'[r] # "storing" /\ pc'[r] # "stored"
    BY <2>1 DEF Work
  <2>3. CASE timestamp'[r] = timestamp[r]
    BY <2>1, <2>2, <2>3 DEF StageFits, NextTime
  <2>4. CASE timestamp'[r] # timestamp[r]
    <3>1. stage[r] = FreshSnapshot
      BY <1>5, <1>12, <2>4
    <3>2. QED
      BY <2>1, <2>2, <3>1, FreshType DEF StageFits
  <2>5. QED
    BY <2>3, <2>4
<1>19. \A q \in Ranks : Flow(q)'
  <2>1. \A r \in Ranks : pc'[r] \notin Work
    BY <1>4, <1>12 DEF Work, Restore
  <2>2. QED
    BY <2>1, RingFacts DEF Flow
<1>20. Copied'
  <2>1. ASSUME NEW r \in Ranks \ failed' PROVE CopiedBy(r)'
    <3>1. CopiedBy(r) /\ left(r) \in Ranks /\ UNCHANGED <<failed, truth>>
      BY <1>3, <2>1, RingFacts DEF Sound, Copied
    <3>2. committed'[r] = committed[r] /\ committed'[left(r)] = committed[left(r)]
      BY <1>11, <3>1
    <3>3. QED
      BY <3>1, <3>2 DEF CopiedBy
  <2>2. QED
    BY <2>1 DEF Copied
<1>21. Retained(now)'
  <2>1. \A r \in Ranks : pc'[r] \notin Work
    BY <1>4, <1>12 DEF Work, Restore
  <2>2. QED
    BY <1>3, <1>11, <1>12, <2>1 DEF Sound, Retained
<1>22. QED
  BY <1>13, <1>14, <1>15, <1>16, <1>17, <1>18, <1>19, <1>20, <1>21 DEF Sound

-----------------------------------------------------------------------------
(* The repair of the snapshots *)

\* All ranks that have a snapshot have the same subsets in it.
LEMMA BroadcastFits ==
  ASSUME Typed, NEW now, Sound(now), NEW t, NEW q \in Ranks, q \notin Missing(t)
  PROVE  BroadcastSubsets(t) \in Layouts /\ \A x \in Ranks : BroadcastSubsets(t)[x] = Want(x, t)
<1>1. PICK b : b = BcastRoot(t)
  OBVIOUS
<1>2. b \in Ranks \ Missing(t)
  <2>1. Ranks \ Missing(t) \in SUBSET Ranks /\ Ranks \ Missing(t) # {}
    OBVIOUS
  <2>2. IsFiniteSet(Ranks \ Missing(t))
    BY <2>1, RingFacts, FS_Subset
  <2>3. Ranks \ Missing(t) \subseteq Int
    <3>1. Ranks \subseteq Int
      BY RingFacts
    <3>2. QED
      BY <3>1
  <2>4. Max(Ranks \ Missing(t)) \in Ranks \ Missing(t)
    BY <2>1, <2>2, <2>3, MaxOf
  <2>5. QED
    BY <1>1, <2>4 DEF BcastRoot
<1>3. t \in DOMAIN committed[b]
  BY <1>2 DEF Missing
<1>4. PICK s \in Snaps : s = committed[b][t]
  BY <1>2, <1>3, StoreElem
<1>5. \A x \in Ranks : s.prot[x] = Want(x, t)
  BY <1>2, <1>3, <1>4 DEF Sound, Held, SnapFits
<1>6. BroadcastSubsets(t) = s.prot
  BY <1>1, <1>4 DEF BroadcastSubsets
<1>7. QED
  BY <1>4, <1>5, <1>6, SnapFields

\* A rank rebuilds what its neighbours have of it, of the layout that it expects.
LEMMA RebuiltSound ==
  ASSUME Steady, NEW now, Sound(now), NEW m \in Ranks, NEW t, Missing(t) = {m}, avail[m] # << >>
  PROVE  /\ ~Truncates(m, t) /\ SnapFits(Rebuilt(m, t), m, t)
         /\ Content(Rebuilt(m, t).own, Want(m, t)) = Content(committed[right(m)][t].part, Want(m, t))
         /\ Content(Rebuilt(m, t).part, Want(left(m), t)) = Content(committed[left(m)][t].own, Want(left(m), t))
<1>1. Typed /\ t \in Nat
  BY RebuiltFacts DEF Steady
<1>2. PICK l \in Ranks, r \in Ranks : /\ l = left(m) /\ r = right(m) /\ left(r) = m /\ l # m /\ r # m
  BY ZenonT(60), RingFacts, RebuiltFacts, <1>1
<1>3. t \in DOMAIN committed[l] /\ t \in DOMAIN committed[r] /\ l \notin Missing(t)
  BY <1>1, <1>2, RebuiltFacts
<1>4. PICK e \in Snaps, y \in Snaps, z \in Snaps :
        e = avail[m][Len(avail[m])] /\ y = committed[r][t] /\ z = committed[l][t]
  BY <1>1, <1>2, RebuiltFacts
<1>5. e = FreshSnapshot
  <2>1. PICK a \in Seq(Snaps) : a = avail[m] /\ a # << >>
    BY <1>1 DEF Typed
  <2>2. Len(a) \in 1 .. Len(a)
    BY <2>1, EmptySeq, LenProperties
  <2>3. \A i \in 1 .. Len(a) : a[i] = FreshSnapshot
    BY <2>1 DEF Sound, Held
  <2>4. QED
    BY <1>4, <2>1, <2>2, <2>3
<1>6. PICK prot \in Layouts : prot = BroadcastSubsets(t)
  BY <1>1, <1>3, BroadcastFits
<1>7. \A x \in Ranks : prot[x] = Want(x, t)
  BY <1>1, <1>3, <1>6, BroadcastFits
<1>8. PICK W \in SUBSET Elems, V \in SUBSET Elems : W = Want(m, t) /\ V = Want(l, t)
  BY <1>1, WantFacts
<1>9. y.pstaged = W
  BY <1>2, <1>3, <1>4, <1>8 DEF Sound, Held, SnapFits
<1>10. e.pstaged \cup prot[l] = V
  BY <1>5, <1>7, <1>8, FreshType
<1>11. PICK o \in Messages, p \in Messages :
         o = Content(y.part, W) /\ p = Content(z.own, V) /\ DOMAIN o = W /\ DOMAIN p = V
  <2>1. y.part \in Buffers /\ z.own \in Buffers
    BY SnapFields
  <2>2. QED
    BY <2>1, ContentType
<1>12. PICK s : /\ s = Rebuilt(m, t) /\ s.own = Unpacked(Blank, W, o) /\ s.part = Unpacked(e.part, V, p)
                /\ s.prot = prot /\ s.pstaged = V
  <2>1. Rebuilt(m, t) =
          [own |-> Unpacked(Blank, prot[m], Content(y.part, y.pstaged)),
           part |-> Unpacked(e.part, e.pstaged \cup prot[l], Content(z.own, prot[l])),
           staged |-> [NoSets EXCEPT ![m] = prot[m]], prot |-> prot, pstaged |-> e.pstaged \cup prot[l]]
    BY <1>2, <1>4, <1>6 DEF Rebuilt
  <2>2. prot[m] = W /\ prot[l] = V
    BY <1>7, <1>8
  <2>3. Rebuilt(m, t) = [own |-> Unpacked(Blank, W, o), part |-> Unpacked(e.part, V, p),
                         staged |-> [NoSets EXCEPT ![m] = W], prot |-> prot, pstaged |-> V]
    BY <1>9, <1>10, <1>11, <2>1, <2>2
  <2>4. QED
    BY <2>3
<1>13. Content(s.own, W) = o
  BY <1>11, <1>12, FreshType, UnpackedContent
<1>14. Content(s.part, V) = p
  <2>1. e.part \in Buffers
    BY SnapFields
  <2>2. QED
    BY <1>11, <1>12, <2>1, UnpackedContent
<1>15. SnapFits(s, m, t)
  BY <1>2, <1>7, <1>8, <1>12 DEF SnapFits
<1>16. ~Truncates(m, t)
  <2>1. committed[right(m)][t].pstaged = W /\ BroadcastSubsets(t)[m] = W
    BY <1>2, <1>4, <1>6, <1>7, <1>8, <1>9
  <2>2. Cardinality(W) \in Nat
    BY RingFacts, FS_Subset, FS_CardinalityType
  <2>3. ~(Cardinality(W) > Cardinality(W))
    BY <2>2
  <2>4. QED
    BY <2>1, <2>3 DEF Truncates
<1>17. QED
  BY <1>2, <1>4, <1>8, <1>11, <1>12, <1>13, <1>14, <1>15, <1>16

\* What a turn leaves of a rank's snapshots, and what it adds to them.
Unchanged(r, u) ==
  /\ u \in DOMAIN committed[r] /\ SnapFits(committed'[r][u], r, u)
  /\ committed'[r][u].own = committed[r][u].own /\ committed'[r][u].part = committed[r][u].part
FromNeighbours(r, u) ==
  /\ SnapFits(committed'[r][u], r, u)
  /\ Content(committed'[r][u].own, Want(r, u)) = Content(committed[right(r)][u].part, Want(r, u))
  /\ Content(committed'[r][u].part, Want(left(r), u)) = Content(committed[left(r)][u].own, Want(left(r), u))

LEMMA TurnKeeps ==
  ASSUME Steady, NEW now, Sound(now), NEW r \in Ranks, NEW t \in Nat, Turns(t), t \in Kept(now),
         \A q \in Ranks \ failed : pc[q] = "repair"
  PROVE  /\ \A u \in DOMAIN committed'[r] : Unchanged(r, u) \/ (u = t /\ Missing(t) = {r} /\ FromNeighbours(r, t))
         /\ DOMAIN committed[r] \subseteq DOMAIN committed'[r]
         /\ \A i \in 1 .. Len(avail'[r]) : avail'[r][i] = FreshSnapshot
<1>1. Typed /\ Held(r) /\ committed[r] \in Stores /\ avail[r] \in Seq(Snaps)
  BY DEF Steady, Sound, Typed
<1>2. CASE committed'[r] = committed[r] /\ avail'[r] = avail[r]
  <2>1. \A u \in DOMAIN committed'[r] : Unchanged(r, u)
    BY <1>1, <1>2 DEF Unchanged, Held
  <2>2. QED
    BY <1>1, <1>2, <2>1 DEF Held
<1>3. CASE Sole(t) /\ r \notin Missing(t) /\ committed'[r] = Reprotected(committed[r], t, BroadcastSubsets(t))
           /\ avail'[r] = avail[r]
  <2>1. PICK c \in Stores : c = committed[r] /\ t \in DOMAIN c
    BY <1>1, <1>3 DEF Missing
  <2>2. PICK prot \in Layouts : prot = BroadcastSubsets(t) /\ \A x \in Ranks : prot[x] = Want(x, t)
    BY <1>1, <1>3, BroadcastFits
  <2>3. PICK d : d = Reprotected(c, t, prot) /\ d = committed'[r]
    BY <1>3, <2>1, <2>2
  <2>4. DOMAIN d = DOMAIN c /\ d[t] = [c[t] EXCEPT !.prot = prot] /\ \A u \in DOMAIN c : u # t => d[u] = c[u]
    <3>1. /\ DOMAIN Reprotected(c, t, prot) = DOMAIN c
          /\ Reprotected(c, t, prot)[t] = [c[t] EXCEPT !.prot = prot]
          /\ \A u \in DOMAIN c : u # t => Reprotected(c, t, prot)[u] = c[u]
      BY <2>1, ReprotectedFacts
    <3>2. QED
      BY <2>3, <3>1, Zenon
  <2>5. \A u \in DOMAIN c : SnapFits(c[u], r, u)
    BY <1>1, <2>1 DEF Held
  <2>6. PICK s \in Snaps : s = c[t]
    BY <2>1, StoreFields
  <2>7. d[t] = [s EXCEPT !.prot = prot] /\ SnapFits(s, r, t)
    BY <2>1, <2>4, <2>5, <2>6
  <2>8. d[t].own = s.own /\ d[t].part = s.part /\ d[t].pstaged = s.pstaged /\ d[t].prot = prot
    BY <2>7 DEF Snaps
  <2>9. \A u \in DOMAIN d : SnapFits(d[u], r, u) /\ d[u].own = c[u].own /\ d[u].part = c[u].part
    <3>1. SnapFits(d[t], r, t)
      BY <2>2, <2>7, <2>8 DEF SnapFits
    <3>2. \A u \in DOMAIN c : u # t => SnapFits(d[u], r, u)
      BY <2>4, <2>5
    <3>3. QED
      BY <2>4, <2>6, <2>8, <3>1, <3>2
  <2>10. \A u \in DOMAIN committed'[r] : Unchanged(r, u)
    BY <2>1, <2>3, <2>4, <2>9 DEF Unchanged
  <2>11. QED
    BY <1>1, <1>3, <2>1, <2>3, <2>4, <2>10 DEF Held
<1>4. CASE Sole(t) /\ r \in Missing(t) /\ committed'[r] = Inserted(committed[r], t, Rebuilt(r, t))
           /\ avail'[r] = SubSeq(avail[r], 1, Len(avail[r]) - 1)
  <2>1. Missing(t) = {r}
    <3>1. IsFiniteSet(Missing(t))
      BY RingFacts, FS_Subset DEF Missing
    <3>2. PICK x : Missing(t) = {x}
      BY <1>4, <3>1, FS_Singleton DEF Sole
    <3>3. QED
      BY <1>4, <3>2
  <2>2. PICK c \in Stores : c = committed[r] /\ t \notin DOMAIN c
    BY <1>1, <1>4 DEF Missing
  <2>3. avail[r] # << >>
    <3>1. PICK a \in Seq(Snaps) : a = avail[r] /\ Full(c, a)
      BY <1>1, <2>2 DEF Steady, Pooled
    <3>2. a # << >>
      BY <3>1, FullFacts
    <3>3. QED
      BY <3>1, <3>2
  <2>4. PICK s \in Snaps : s = Rebuilt(r, t)
    BY <1>1, <2>1, <2>3, RebuiltType
  <2>5. PICK d : d = Inserted(c, t, s) /\ d = committed'[r]
    BY <1>4, <2>2, <2>4
  <2>6. DOMAIN d = DOMAIN c \cup {t} /\ d[t] = s /\ \A u \in DOMAIN c : u # t => d[u] = c[u]
    <3>1. /\ DOMAIN Inserted(c, t, s) = DOMAIN c \cup {t} /\ Inserted(c, t, s)[t] = s
          /\ \A u \in DOMAIN c : u # t => Inserted(c, t, s)[u] = c[u]
      BY ZenonT(60), InsertedFacts
    <3>2. QED
      BY <2>5, <3>1, Zenon
  <2>7. FromNeighbours(r, t)
    <3>1. /\ SnapFits(s, r, t) /\ Content(s.own, Want(r, t)) = Content(committed[right(r)][t].part, Want(r, t))
          /\ Content(s.part, Want(left(r), t)) = Content(committed[left(r)][t].own, Want(left(r), t))
      BY <2>1, <2>3, <2>4, RebuiltSound
    <3>2. committed'[r][t] = s
      BY <2>5, <2>6
    <3>3. QED
      BY <3>1, <3>2 DEF FromNeighbours
  <2>8. \A u \in DOMAIN c : Unchanged(r, u)
    <3>1. \A u \in DOMAIN c : SnapFits(c[u], r, u)
      BY <1>1, <2>2 DEF Held
    <3>2. \A u \in DOMAIN c : committed'[r][u] = committed[r][u] /\ u # t
      BY <2>2, <2>5, <2>6
    <3>3. QED
      BY <2>2, <3>1, <3>2 DEF Unchanged
  <2>9. \A i \in 1 .. Len(avail'[r]) : avail'[r][i] = FreshSnapshot
    <3>1. PICK a \in Seq(Snaps) : a = avail[r] /\ a # << >> /\ \A i \in 1 .. Len(a) : a[i] = FreshSnapshot
      BY <1>1, <2>3 DEF Held
    <3>2. PICK n \in Nat : n = Len(a) /\ n >= 1
      BY <3>1, EmptySeq, LenProperties
    <3>3. /\ Len(SubSeq(a, 1, Len(a) - 1)) = Len(a) - 1
          /\ \A i \in 1 .. Len(a) - 1 : SubSeq(a, 1, Len(a) - 1)[i] = a[i]
      BY <1>1, <2>2, <3>1, FullFacts DEF Steady, Pooled
    <3>4. Len(SubSeq(a, 1, n - 1)) = n - 1 /\ \A i \in 1 .. n - 1 : SubSeq(a, 1, n - 1)[i] = a[i]
      BY <3>2, <3>3
    <3>5. avail'[r] = SubSeq(a, 1, n - 1)
      BY <1>4, <3>1, <3>2
    <3>6. QED
      BY <3>1, <3>2, <3>4, <3>5
  <2>10. QED
    BY <2>1, <2>2, <2>5, <2>6, <2>7, <2>8, <2>9
<1>5. QED
  BY <1>2, <1>3, <1>4 DEF Turns

LEMMA RepairSound ==
  ASSUME Steady, NEW now \in Nat \cup {-1}, Sound(now), RepairSnapshot
  PROVE  Sound(now)'
<1>1. Typed
  BY DEF Steady
<1>2. /\ \A r \in Ranks \ failed : pc[r] = "repair" /\ timestamp[r] = now
      /\ UNCHANGED <<timestamps, timestamp, stage, chan, failed, broken, lost, fatal, truth>>
      /\ \A r \in Ranks : pc[r] \in Restore \cup {"recover"}
  <2>1. /\ failed # Ranks /\ \A r \in Ranks \ failed : pc[r] = "repair"
        /\ UNCHANGED <<timestamps, timestamp, stage, chan, failed, broken, lost, fatal, truth>>
    BY RepairTurn
  <2>2. PICK x \in Ranks : pc[x] = "repair"
    BY <1>1, <2>1 DEF Typed
  <2>3. \A r \in Ranks : pc[r] \in Restore \cup {"recover"}
    BY <2>2 DEF Sound, Phases, Work
  <2>4. QED
    BY <2>1, <2>3 DEF Sound, Times
<1>3. PICK t \in Nat : /\ Aborts(t) \/ Turns(t)
                       /\ \A r \in Ranks \ failed : t \in todo[r] /\ \A u \in todo[r] : u <= t
  BY RepairTurn
<1>4. \E r \in Ranks : r \notin failed
  BY <1>1, RepairTurn DEF Typed
<1>5. t \in Kept(now)
  BY <1>2, <1>3, <1>4 DEF Sound, Repairing
<1>6. Turns(t)
  <2>1. ASSUME Aborts(t) PROVE FALSE
    <3>1. PICK m \in Ranks : m \in Missing(t) /\ Truncates(m, t) /\ Cardinality(Missing(t)) = 1
      BY <2>1 DEF Aborts, Sole, Missing
    <3>2. IsFiniteSet(Missing(t))
      BY RingFacts, FS_Subset DEF Missing
    <3>3. PICK x : Missing(t) = {x}
      BY <3>1, <3>2, FS_Singleton
    <3>4. Missing(t) = {m}
      BY <3>1, <3>3
    <3>5. avail[m] # << >>
      <4>1. PICK c \in Stores, a \in Seq(Snaps) : c = committed[m] /\ a = avail[m] /\ Full(c, a)
        BY <1>1 DEF Steady, Typed, Pooled
      <4>2. a # << >>
        BY <4>1, FullFacts
      <4>3. QED
        BY <4>1, <4>2
    <3>6. QED
      BY <3>1, <3>4, <3>5, RebuiltSound
  <2>2. QED
    BY <1>3, <2>1
<1>7. PICK done \in SUBSET (Ranks \ failed) :
        /\ ~broken => done = Ranks
        /\ \A r \in Ranks :
             /\ pc'[r] = (IF r \in done \cup failed THEN pc[r] ELSE "recover")
             /\ todo'[r] = (IF r \in done THEN todo[r] \ {t} ELSE todo[r])
             /\ member'[r] = (member[r] \/ r \in done)
             /\ (r \in done /\ Sole(t) /\ r \in Missing(t)) => committed'[r] = Inserted(committed[r], t, Rebuilt(r, t))
             /\ ~Sole(t) => committed'[r] = committed[r]
  BY <1>6 DEF Turns
<1>8. ASSUME NEW r \in Ranks
      PROVE  /\ \A u \in DOMAIN committed'[r] :
                  Unchanged(r, u) \/ (u = t /\ Missing(t) = {r} /\ FromNeighbours(r, t))
             /\ DOMAIN committed[r] \subseteq DOMAIN committed'[r]
             /\ \A i \in 1 .. Len(avail'[r]) : avail'[r][i] = FreshSnapshot
  BY <1>2, <1>5, <1>6, TurnKeeps
<1>9. \A r \in Ranks : DOMAIN committed'[r] = DOMAIN committed[r]
                       \/ (DOMAIN committed'[r] = DOMAIN committed[r] \cup {t} /\ Missing(t) = {r})
  <2>1. ASSUME NEW r \in Ranks, NEW u \in DOMAIN committed'[r], u \notin DOMAIN committed[r]
        PROVE  u = t /\ Missing(t) = {r}
    BY <1>8, <2>1 DEF Unchanged
  <2>2. ASSUME NEW r \in Ranks
        PROVE  DOMAIN committed'[r] = DOMAIN committed[r]
               \/ (DOMAIN committed'[r] = DOMAIN committed[r] \cup {t} /\ Missing(t) = {r})
    <3>1. DOMAIN committed[r] \subseteq DOMAIN committed'[r]
      BY <1>8
    <3>2. QED
      BY <2>1, <3>1
  <2>3. QED
    BY <2>2
<1>10. \A r \in Ranks : t \in DOMAIN committed'[r] /\ t \notin DOMAIN committed[r] => failed = {} /\ \A x \in Ranks : pc[x] = "repair"
  BY <1>2, <1>7 DEF Sole
<1>11. ASSUME NEW r \in Ranks PROVE Held(r)'
  <2>1. Newest(DOMAIN committed[r], timestamp[r])
    BY DEF Sound, Held
  <2>2. Newest(DOMAIN committed'[r], timestamp[r])
    <3>1. CASE DOMAIN committed'[r] = DOMAIN committed[r]
      BY <2>1, <3>1
    <3>2. CASE /\ DOMAIN committed'[r] = DOMAIN committed[r] \cup {t} /\ Missing(t) = {r}
               /\ t \notin DOMAIN committed[r]
      <4>1. failed = {} /\ \A x \in Ranks : pc[x] = "repair" /\ timestamp[x] = now
        BY <1>2, <1>10, <3>2
      <4>2. ASSUME NEW u \in Kept(now), u > t, u \notin DOMAIN committed[r] PROVE FALSE
        <5>1. Kept(now) \in SUBSET Nat
          BY KeptFacts
        <5>2. u \notin todo[r]
          BY <1>3, <4>1, <4>2, <5>1
        <5>3. Missing(u) # {r} /\ r \in Missing(u)
          BY <4>1, <4>2, <5>2 DEF Sound, Repairing, Missing
        <5>4. PICK q \in Ranks : q # r /\ u \notin DOMAIN committed[q]
          BY <5>3 DEF Missing
        <5>5. t \in DOMAIN committed[q]
          BY <3>2, <5>4 DEF Missing
        <5>6. Newest(DOMAIN committed[q], now)
          BY <4>1 DEF Sound, Held
        <5>7. QED
          BY <4>2, <5>4, <5>5, <5>6 DEF Newest
      <4>3. Newest(DOMAIN committed[r], now) /\ timestamp[r] = now
        BY <2>1, <4>1
      <4>4. QED
        BY <1>5, <3>2, <4>2, <4>3 DEF Newest
    <3>3. QED
      BY <1>9, <3>1, <3>2
  <2>3. \A u \in DOMAIN committed'[r] : SnapFits(committed'[r][u], r, u)
    BY <1>8 DEF Unchanged, FromNeighbours
  <2>4. QED
    BY <1>2, <1>8, <2>2, <2>3 DEF Held
<1>12. ASSUME NEW r \in Ranks PROVE StageFits(r)'
  <2>1. StageFits(r) /\ UNCHANGED <<stage, timestamp>> /\ pc'[r] \in Restore \cup {"recover"}
    BY <1>2, <1>7 DEF Sound
  <2>2. QED
    BY <2>1 DEF StageFits, NextTime, Restore
<1>13. \A q \in Ranks : Flow(q)'
  <2>1. \A q \in Ranks : pc'[right(q)] \notin Work
    BY <1>2, <1>7, RingFacts DEF Work, Restore
  <2>2. QED
    BY <2>1 DEF Flow
<1>14. Times(now)'
  <2>1. \A r \in Ranks : timestamp[r] = now \/ Replaced(r)
    BY <1>2 DEF Sound, Times, Behind, Restore
  <2>2. \A r \in Ranks : timestamp'[r] = now \/ Replaced(r)'
    BY <1>2, <1>7, <2>1 DEF Replaced
  <2>3. \A r \in Ranks : pc'[r] = "repair" => timestamp'[r] = now
    BY <1>2, <1>7 DEF Sound, Times
  <2>4. \E r \in Ranks : timestamp'[r] = now
    BY <1>2 DEF Sound, Times
  <2>5. QED
    BY <2>2, <2>3, <2>4 DEF Times
<1>15. Known(now)'
  BY <1>2 DEF Sound, Known
<1>16. Phases'
  <2>1. \A r \in Ranks : pc'[r] = pc[r] \/ (pc'[r] = "recover" /\ broken)
    <3>1. ASSUME NEW r \in Ranks, r \notin done \cup failed PROVE broken
      BY <1>7, <3>1
    <3>2. QED
      BY <1>7, <3>1
  <2>2. \A r \in Ranks : pc'[r] \in Restore \cup {"recover"}
    BY <1>2, <2>1
  <2>3. \A r \in Ranks : pc'[r] \in Restore => chan'[r] = << >>
    BY <1>2, <2>1 DEF Sound, Phases, Restore
  <2>4. (failed' # {} \/ \E r \in Ranks : pc'[r] = "recover") => broken'
    BY <1>2, <2>1 DEF Sound, Phases
  <2>5. QED
    BY <2>2, <2>3, <2>4 DEF Phases
<1>17. Repairing(now)'
  <2>1. \A r \in Ranks : pc'[r] = "repair" => todo'[r] \subseteq Kept(now)
    <3>1. \A r \in Ranks : (pc'[r] = "repair" => pc[r] = "repair") /\ todo'[r] \subseteq todo[r]
      BY <1>7
    <3>2. QED
      BY <3>1 DEF Sound, Repairing
  <2>2. ASSUME \A r \in Ranks : pc'[r] = "repair", failed' = {},
               NEW r \in Ranks, NEW u \in Kept(now), u \notin todo'[r], NEW m \in Ranks
        PROVE  Missing(u)' # {m}
    <3>1. failed = {} /\ done = Ranks /\ \A x \in Ranks : pc[x] = "repair"
      <4>1. failed = {}
        BY <1>2, <2>2
      <4>2. \A x \in Ranks : x \in done
        BY <1>7, <2>2, <4>1
      <4>3. QED
        BY <1>2, <4>1, <4>2
    <3>2. CASE u = t /\ Sole(t)
      <4>1. PICK x \in Ranks : Missing(t) = {x}
        <5>1. IsFiniteSet(Missing(t)) /\ Missing(t) \in SUBSET Ranks
          BY RingFacts, FS_Subset DEF Missing
        <5>2. PICK x : Missing(t) = {x}
          BY <3>2, <5>1, FS_Singleton DEF Sole
        <5>3. QED
          BY <5>1, <5>2
      <4>2. committed'[x] = Inserted(committed[x], t, Rebuilt(x, t))
        BY <1>7, <3>1, <3>2, <4>1
      <4>3. t \in DOMAIN committed'[x]
        BY <4>2 DEF Inserted
      <4>4. \A y \in Ranks : t \in DOMAIN committed'[y]
        BY <1>8, <4>1, <4>3 DEF Missing
      <4>5. QED
        BY <3>2, <4>4 DEF Missing
    <3>3. CASE u = t /\ ~Sole(t)
      <4>1. Cardinality(Missing(t)) # 1
        BY <3>1, <3>3 DEF Sole
      <4>2. Missing(t) # {m}
        BY <4>1, FS_Singleton
      <4>3. Missing(t)' = Missing(t)
        BY <1>7, <3>3 DEF Missing
      <4>4. QED
        BY <3>3, <4>2, <4>3
    <3>4. CASE u # t
      <4>1. u \notin todo[r]
        BY <1>7, <2>2, <3>4
      <4>2. Missing(u) # {m}
        BY <2>2, <3>1, <4>1 DEF Sound, Repairing
      <4>3. Missing(u)' = Missing(u)
        BY <1>9, <3>4 DEF Missing
      <4>4. QED
        BY <4>2, <4>3
    <3>5. QED
      BY <3>2, <3>3, <3>4
  <2>3. QED
    BY <2>1, <2>2 DEF Repairing
<1>18. Retained(now)'
  <2>1. SUFFICES ASSUME ~fatal PROVE Retained(now)'
    BY <1>2 DEF Retained
  <2>2. /\ \A p, q \in lost : p = q
        /\ \A r \in Ranks \ (failed \cup lost) : timestamp[r] = now /\ DOMAIN committed[r] = Kept(now) /\ member[r]
    BY <2>1 DEF Sound, Retained
  <2>3. \A r \in Ranks \ (failed \cup lost) : DOMAIN committed'[r] = Kept(now) /\ member'[r]
    <3>1. ASSUME NEW r \in Ranks \ (failed \cup lost) PROVE DOMAIN committed'[r] = Kept(now)
      BY <1>5, <1>9, <2>2
    <3>2. \A r \in Ranks : member'[r] = (member[r] \/ r \in done)
      BY <1>7
    <3>3. ASSUME NEW r \in Ranks \ (failed \cup lost) PROVE member'[r]
      BY <2>2, <3>2, Zenon
    <3>4. QED
      BY <3>1, <3>3
  <2>4. \A r \in Ranks : pc'[r] \notin Work
    BY <1>2, <1>7 DEF Work, Restore
  <2>5. QED
    BY <1>2, <2>2, <2>3, <2>4 DEF Retained
<1>19. ASSUME NEW r \in Ranks \ failed PROVE CopiedBy(r)'
  <2>1. PICK l \in Ranks : l = left(r) /\ right(l) = r /\ l # r
    BY RingFacts
  <2>2. CopiedBy(r) /\ (l \notin failed => CopiedBy(l)) /\ right(r) \in Ranks /\ (right(r) \notin failed => CopiedBy(right(r)))
    BY <2>1, RingFacts DEF Sound, Copied
  <2>3. CASE ~(t \in DOMAIN committed'[r] /\ t \notin DOMAIN committed[r])
    <3>1. \A u \in DOMAIN committed'[r] : Unchanged(r, u)
      BY <1>8, <2>3 DEF Missing
    <3>2. \A u \in DOMAIN committed'[r] \cap DOMAIN truth[r] : Content(committed'[r][u].own, Want(r, u)) = truth[r][u]
      BY <2>2, <3>1 DEF CopiedBy, Unchanged
    <3>3. \A u \in DOMAIN committed'[r] \cap DOMAIN truth[l] : Content(committed'[r][u].part, Want(l, u)) = truth[l][u]
      BY <2>1, <2>2, <3>1 DEF CopiedBy, Unchanged
    <3>4. ASSUME l \notin failed, NEW u \in DOMAIN committed'[r] \cap DOMAIN committed'[l]
          PROVE  Content(committed'[r][u].part, Want(l, u)) = Content(committed'[l][u].own, Want(l, u))
      <4>1. committed'[r][u].part = committed[r][u].part /\ u \in DOMAIN committed[r]
        BY <3>1 DEF Unchanged
      <4>2. CASE Unchanged(l, u)
        BY <2>1, <2>2, <3>4, <4>1, <4>2 DEF CopiedBy, Unchanged
      <4>3. CASE u = t /\ FromNeighbours(l, t)
        BY <2>1, <4>1, <4>3 DEF FromNeighbours
      <4>4. QED
        BY <1>8, <3>4, <4>2, <4>3
    <3>5. QED
      BY <1>2, <2>1, <3>2, <3>3, <3>4 DEF CopiedBy
  <2>4. CASE t \in DOMAIN committed'[r] /\ t \notin DOMAIN committed[r]
    <3>1. failed = {} /\ Missing(t) = {r} /\ FromNeighbours(r, t)
      BY <1>8, <1>10, <2>4 DEF Unchanged
    <3>2. PICK q \in Ranks : q = right(r) /\ left(q) = r /\ q # r
      BY RingFacts
    <3>3. CopiedBy(q) /\ CopiedBy(l) /\ t \in DOMAIN committed[q] /\ t \in DOMAIN committed[l]
      BY <2>1, <2>2, <3>1, <3>2 DEF Missing
    <3>4. \A u \in DOMAIN committed'[r] : u # t => Unchanged(r, u)
      BY <1>8
    <3>5. \A u \in DOMAIN committed'[l] : Unchanged(l, u)
      BY <1>8, <2>1, <3>1
    <3>6. ASSUME NEW u \in DOMAIN committed'[r] \cap DOMAIN truth[r]
          PROVE  Content(committed'[r][u].own, Want(r, u)) = truth[r][u]
      <4>1. CASE u # t
        BY <2>2, <3>4, <3>6, <4>1 DEF CopiedBy, Unchanged
      <4>2. CASE u = t
        BY <3>1, <3>2, <3>3, <3>6, <4>2 DEF CopiedBy, FromNeighbours
      <4>3. QED
        BY <4>1, <4>2
    <3>7. ASSUME NEW u \in DOMAIN committed'[r] \cap DOMAIN truth[l]
          PROVE  Content(committed'[r][u].part, Want(l, u)) = truth[l][u]
      <4>1. CASE u # t
        BY <2>1, <2>2, <3>4, <3>7, <4>1 DEF CopiedBy, Unchanged
      <4>2. CASE u = t
        BY <2>1, <3>1, <3>3, <3>7, <4>2 DEF CopiedBy, FromNeighbours
      <4>3. QED
        BY <4>1, <4>2
    <3>8. ASSUME NEW u \in DOMAIN committed'[r] \cap DOMAIN committed'[l]
          PROVE  Content(committed'[r][u].part, Want(l, u)) = Content(committed'[l][u].own, Want(l, u))
      <4>1. committed'[l][u].own = committed[l][u].own /\ u \in DOMAIN committed[l]
        BY <3>5 DEF Unchanged
      <4>2. CASE u # t
        BY <2>1, <2>2, <3>1, <3>4, <4>1, <4>2 DEF CopiedBy, Unchanged
      <4>3. CASE u = t
        BY <2>1, <3>1, <4>1, <4>3 DEF FromNeighbours
      <4>4. QED
        BY <4>2, <4>3
    <3>9. QED
      BY <1>2, <2>1, <3>6, <3>7, <3>8 DEF CopiedBy
  <2>5. QED
    BY <2>3, <2>4
<1>20. Copied'
  BY <1>2, <1>19 DEF Copied
<1>21. QED
  BY <1>11, <1>12, <1>13, <1>14, <1>15, <1>16, <1>17, <1>18, <1>20 DEF Sound

LEMMA RepairDoneSound ==
  ASSUME Steady, NEW now \in Nat \cup {-1}, Sound(now), RepairDone
  PROVE  Sound(now)'
<1>1. /\ ~broken /\ \A r \in Ranks : pc[r] = "repair" /\ (todo[r] = {} \/ ~\E q \in Ranks : member[q])
      /\ \A r \in Ranks : pc'[r] = "app" /\ member'[r] /\ todo'[r] = {}
      /\ lost' = {}
      /\ UNCHANGED <<timestamps, timestamp, stage, committed, avail, chan, failed, broken, fatal, truth>>
  BY DEF RepairDone, groupVars, faultVars
<1>2. failed = {} /\ \A r \in Ranks : timestamp[r] = now /\ chan[r] = << >>
  BY <1>1 DEF Sound, Phases, Times, Restore
<1>3. Times(now)'
  BY <1>1, <1>2, RingFacts DEF Times
<1>4. Known(now)'
  BY <1>1 DEF Sound, Known
<1>5. Phases'
  BY <1>1, <1>2 DEF Phases, Work, Restore
<1>6. Repairing(now)'
  <2>1. \A r \in Ranks : pc'[r] # "repair"
    BY <1>1
  <2>2. QED
    BY <2>1, RingFacts DEF Repairing
<1>7. Copied'
  BY <1>1 DEF Sound, Copied, CopiedBy
<1>8. Retained(now)'
  <2>1. SUFFICES ASSUME ~fatal PROVE Retained(now)'
    BY <1>1 DEF Retained
  <2>2. /\ \A p, q \in lost : p = q
        /\ \A r \in Ranks \ lost : DOMAIN committed[r] = Kept(now) /\ member[r]
    BY <1>2, <2>1 DEF Sound, Retained
  <2>3. \E r \in Ranks \ lost : member[r]
    <3>1. PICK x \in Ranks, y \in Ranks : x # y
      BY RingFacts
    <3>2. QED
      BY <2>2, <3>1
  <2>4. \A r \in Ranks : todo[r] = {}
    BY <1>1, <2>3
  <2>5. ASSUME NEW r \in Ranks PROVE DOMAIN committed[r] = Kept(now)
    <3>1. ASSUME NEW t \in Kept(now), t \notin DOMAIN committed[r] PROVE FALSE
      <4>1. Missing(t) # {r} /\ r \in Missing(t)
        BY <1>1, <1>2, <2>4, <3>1 DEF Sound, Repairing, Missing
      <4>2. PICK q \in Ranks : q # r /\ t \notin DOMAIN committed[q]
        BY <4>1 DEF Missing
      <4>3. q \in lost /\ r \in lost
        BY <2>2, <3>1, <4>2
      <4>4. QED
        BY <2>2, <4>2, <4>3
    <3>2. DOMAIN committed[r] \subseteq Kept(now)
      BY <1>2 DEF Sound, Held, Newest
    <3>3. QED
      BY <3>1, <3>2
  <2>6. QED
    BY <1>1, <1>2, <2>5 DEF Retained
<1>9. ASSUME NEW r \in Ranks PROVE Held(r)'
  BY <1>1 DEF Sound, Held
<1>10. ASSUME NEW r \in Ranks PROVE StageFits(r)'
  <2>1. StageFits(r)
    BY DEF Sound
  <2>2. QED
    BY <1>1, <2>1 DEF StageFits, NextTime
<1>11. ASSUME NEW q \in Ranks PROVE Flow(q)'
  BY <1>1, <1>2, RingFacts DEF Flow
<1>12. QED
  BY <1>3, <1>4, <1>5, <1>6, <1>7, <1>8, <1>9, <1>10, <1>11 DEF Sound

LEMMA InitSound ==
  ASSUME Init
  PROVE  Sound(-1)
<1>1. \A r \in Ranks : /\ pc[r] = "app" /\ timestamps[r] = {} /\ timestamp[r] = -1 /\ member[r] /\ stage[r] = FreshSnapshot
                       /\ committed[r] = << >> /\ avail[r] = Pool /\ chan[r] = << >> /\ truth[r] = << >>
  BY DEF Init
<1>2. failed = {} /\ ~broken /\ lost = {} /\ ~fatal
  BY DEF Init
<1>3. Kept(-1) = {} /\ DOMAIN << >> = {} /\ \A i \in 1 .. Len(Pool) : Pool[i] = FreshSnapshot
  BY KeptFacts, StoreFields, PoolFacts
<1>4. Times(-1)
  BY <1>1, RingFacts DEF Times
<1>5. Known(-1)
  BY <1>1, <1>3 DEF Known
<1>6. Phases
  BY <1>1, <1>2 DEF Phases, Work, Restore
<1>7. Repairing(-1)
  BY <1>1, RingFacts DEF Repairing
<1>8. Copied
  BY <1>1, <1>3, RingFacts DEF Copied, CopiedBy
<1>9. Retained(-1)
  BY <1>1, <1>2, <1>3 DEF Retained
<1>10. ASSUME NEW r \in Ranks PROVE Held(r)
  BY <1>1, <1>3 DEF Held, Newest
<1>11. ASSUME NEW r \in Ranks PROVE StageFits(r)
  BY <1>1, FreshType DEF StageFits
<1>12. ASSUME NEW q \in Ranks PROVE Flow(q)
  BY <1>1, RingFacts DEF Flow
<1>13. QED
  BY <1>4, <1>5, <1>6, <1>7, <1>8, <1>9, <1>10, <1>11, <1>12 DEF Sound

\* The inductive invariant under commit_barrier: the group is sound at the newest timestamp of its ranks.
Secure == \E now \in Nat \cup {-1} : Sound(now)

LEMMA StepSecure ==
  ASSUME Covers, Steady, Secure, [Next]_vars
  PROVE  Secure'
<1>1. PICK now \in Nat \cup {-1} : Sound(now)
  BY DEF Secure
<1>2. ASSUME NEW m \in Nat \cup {-1}, Sound(m)' PROVE Secure'
  BY <1>2 DEF Secure
<1>3. ASSUME NEW r \in Ranks, StoreBegin(r) PROVE Secure'
  BY <1>1, <1>2, <1>3, StoreBeginSound
<1>4. ASSUME NEW r \in Ranks, StoreEnd(r) PROVE Secure'
  BY <1>1, <1>2, <1>4, StoreEndSound
<1>5. ASSUME NEW r \in Ranks, Commit(r) PROVE Secure'
  BY <1>5 DEF Commit, Covers
<1>6. ASSUME CommitBarrier PROVE Secure'
  <2>1. now + 1 \in Nat \cup {-1}
    OBVIOUS
  <2>2. Sound(now + 1)'
    BY <1>1, <1>6, CommitSound
  <2>3. QED
    BY <1>2, <2>1, <2>2
<1>7. CASE (\E r \in Ranks : Fail(r) \/ Notice(r)) \/ FailElsewhere \/ UNCHANGED vars
  BY <1>1, <1>2, <1>7, FailSound
<1>8. CASE Finished
  BY <1>1, <1>2, <1>8, FailSound DEF Finished
<1>9. CASE Rebuild
  <2>1. \E m \in Nat \cup {-1} : Sound(m)'
    BY <1>1, <1>9, RebuildSound
  <2>2. QED
    BY <1>2, <2>1
<1>10. CASE ExchangeSubsets
  BY <1>1, <1>2, <1>10, ExchangeSound
<1>11. CASE SyncTimestamps
  BY <1>1, <1>2, <1>11, SyncSound
<1>12. CASE RepairSnapshot
  BY <1>1, <1>2, <1>12, RepairSound
<1>13. CASE RepairDone
  BY <1>1, <1>2, <1>13, RepairDoneSound
<1>14. QED
  BY <1>3, <1>4, <1>5, <1>6, <1>7, <1>8, <1>9, <1>10, <1>11, <1>12, <1>13 DEF Next

LEMMA AlwaysSecure ==
  ASSUME Covers
  PROVE  Spec => [](Steady /\ Secure)
<1>1. Init => Secure
  BY InitSound DEF Secure
<1>2. Steady /\ Secure /\ [Next]_vars => Secure'
  BY StepSecure
<1>3. QED
  BY <1>1, <1>2, InitSteady, StepSteady, PTL DEF Spec

(***************************************************************************)
(* Covers is met, for one, by an application that stores one subset over    *)
(* and over, and with storev less than that in its first snapshots.         *)
(***************************************************************************)
LEMMA OneSubsetCovers ==
  ASSUME Barrier, Replays, Len(Subsets) = 1,
         \A t \in Varied : t < Depth + 2, \A r \in Ranks : Parts[r] \subseteq Subsets[1]
  PROVE  Covers
<1>1. ASSUME NEW r \in Ranks, NEW t \in Nat PROVE Want(r, t) \subseteq Want(r, t + Depth + 2)
  <2>1. PICK u \in Nat : u = t + Depth + 2 /\ u >= Depth + 2 /\ Depth \in Nat
    BY RingFacts
  <2>2. u \notin Varied
    BY <2>1
  <2>3. t % 1 = 0 /\ u % 1 = 0
    OBVIOUS
  <2>4. Want(r, u) = Subsets[1]
    BY <2>2, <2>3 DEF Want
  <2>5. Want(r, t) \in {Parts[r], Subsets[1]}
    BY <2>3 DEF Want
  <2>6. QED
    BY <2>1, <2>4, <2>5
<1>2. QED
  BY <1>1 DEF Covers

(***************************************************************************)
(* commit_barrier and BuddyMember::repair, for any depth, any failures and  *)
(* any interruption of the recoveries: while no two ranks are lost between  *)
(* two completed repairs, no store and no repair aborts the job, and every  *)
(* rank that is back in the application has the newest snapshot and the     *)
(* Depth before it.                                                         *)
(***************************************************************************)
THEOREM SnapshotsAlwaysRetained ==
  ASSUME Covers
  PROVE  Spec => []SnapshotsRetained
<1>1. Secure => SnapshotsRetained
  <2>1. ASSUME NEW now \in Nat \cup {-1}, Sound(now) PROVE SnapshotsRetained
    <3>1. NoAbort
      BY <2>1 DEF NoAbort, Sound, Phases, Work, Restore
    <3>2. ASSUME ~fatal, NEW r \in Ranks, Settled(r)
          PROVE  /\ DOMAIN committed[r] = {t \in 0 .. timestamp[r] : t >= timestamp[r] - Depth}
                 /\ timestamps[r] = DOMAIN committed[r]
      <4>1. r \notin failed /\ pc[r] \in Work
        BY <3>2 DEF Settled, live, Work
      <4>2. timestamp[r] = now /\ DOMAIN committed[r] = Kept(now)
        BY <2>1, <3>2, <4>1 DEF Sound, Retained
      <4>3. timestamps[r] = Kept(now)
        BY <2>1, <4>2 DEF Sound, Known
      <4>4. QED
        BY <4>2, <4>3 DEF Kept
    <3>3. QED
      BY <3>1, <3>2 DEF SnapshotsRetained
  <2>2. QED
    BY <2>1 DEF Secure
<1>2. QED
  BY <1>1, AlwaysSecure, PTL

(***************************************************************************)
(* A replacement gets back, by the partner copy of its right neighbour,     *)
(* exactly what the lost rank had committed, and no other rank's snapshots  *)
(* change, also when a repair is interrupted and done anew.                 *)
(***************************************************************************)
THEOREM RestoredIsAlwaysCommitted ==
  ASSUME Covers
  PROVE  Spec => []RestoredIsCommitted
<1>1. Secure => RestoredIsCommitted
  <2>1. ASSUME NEW now \in Nat \cup {-1}, Sound(now),
               NEW r \in Ranks \ failed, NEW t \in DOMAIN committed[r] \cap DOMAIN truth[r]
        PROVE  OwnContent(committed[r][t], r) = truth[r][t]
    <3>1. committed[r][t].prot[r] = Want(r, t)
      BY <2>1 DEF Sound, Held, SnapFits
    <3>2. Content(committed[r][t].own, Want(r, t)) = truth[r][t]
      BY <2>1 DEF Sound, Copied, CopiedBy
    <3>3. QED
      BY <3>1, <3>2 DEF OwnContent
  <2>2. QED
    BY <2>1 DEF Secure, RestoredIsCommitted
<1>2. QED
  BY <1>1, AlwaysSecure, PTL

(***************************************************************************)
(* Redundancy is there whenever no failure is pending: a snapshot that a    *)
(* rank and its left neighbour both have holds a copy of the neighbour's    *)
(* data, of the same layout, whether iprotect or a repair has put it there. *)
(***************************************************************************)
THEOREM PartnerAlwaysCopies ==
  ASSUME Covers
  PROVE  Spec => []PartnerCopies
<1>1. Secure => PartnerCopies
  <2>1. ASSUME NEW now \in Nat \cup {-1}, Sound(now), ~broken,
               NEW r \in Ranks, NEW t \in DOMAIN committed[r] \cap DOMAIN committed[left(r)]
        PROVE  Content(committed[r][t].part, committed[r][t].pstaged) = OwnContent(committed[left(r)][t], left(r))
    <3>1. failed = {} /\ left(r) \in Ranks
      BY <2>1, RingFacts DEF Sound, Phases
    <3>2. committed[r][t].pstaged = Want(left(r), t) /\ committed[left(r)][t].prot[left(r)] = Want(left(r), t)
      BY <2>1, <3>1 DEF Sound, Held, SnapFits
    <3>3. Content(committed[r][t].part, Want(left(r), t)) = Content(committed[left(r)][t].own, Want(left(r), t))
      BY <2>1, <3>1 DEF Sound, Copied, CopiedBy
    <3>4. QED
      BY <3>2, <3>3 DEF OwnContent
  <2>2. QED
    BY <2>1 DEF Secure, PartnerCopies
<1>2. QED
  BY <1>1, AlwaysSecure, PTL

-----------------------------------------------------------------------------
(***************************************************************************)
(* Any commit.  Common is an invariant of every application: it follows     *)
(* which snapshots a rank has committed, and so is independent of what the  *)
(* snapshots hold.                                                          *)
(***************************************************************************)
\* Either the application runs, or the data is restored, or the job has been aborted.
Orderly ==
  /\ \/ \A r \in Ranks : pc[r] \in Work \cup {"recover"}
     \/ \A r \in Ranks : pc[r] \in Restore \cup {"recover"}
     \/ \A r \in Ranks : pc[r] = "aborted"
  /\ (failed # {} \/ \E r \in Ranks : pc[r] = "recover") => broken
  /\ (\E r \in Ranks \ failed : pc[r] = "init") => \A q \in Ranks : pc[q] # "repair"

Dated == \A r \in Ranks : timestamps[r] = Kept(timestamp[r])

\* Ranks in the repair work on the same timestamps, and none misses alone what they did.
Mending ==
  /\ \A r, q \in Ranks : (pc[r] = "repair" /\ pc[q] = "repair") => timestamp[r] = timestamp[q]
  /\ \A r \in Ranks : pc[r] = "repair" => DOMAIN committed[r] \subseteq Kept(timestamp[r])
  /\ ((\A r \in Ranks : pc[r] = "repair") /\ failed = {}) =>
       \A r \in Ranks : \A t \in Kept(timestamp[r]) \ todo[r] : \A m \in Ranks : Missing(t) # {m}

\* At most one rank is being replaced, and none is while the application runs.
Survived ==
  /\ (\E r \in Ranks : pc[r] \in Work) => lost = {}
  /\ ~fatal => (\A p, q \in lost : p = q) /\ \A r \in Ranks \ lost : member[r]

\* Rank q has not committed t, or its snapshot was lost with it, and will not commit t.
Gone(t, q) == t \notin DOMAIN truth[q] /\ (t <= timestamp[q] \/ q \in lost)

\* What a rank that was not lost has committed it holds, unless it is too old, or some
\* other rank has no such snapshot; what a lost one committed others have reached.
Remembered ==
  ~fatal =>
    /\ \A r \in Ranks \ lost : \A t \in DOMAIN truth[r] :
         /\ t <= timestamp[r]
         /\ t \in DOMAIN committed[r] \/ t < timestamp[r] - Depth \/ \E q \in Ranks : Gone(t, q)
    /\ \A r \in lost : \A t \in DOMAIN truth[r] : \E q \in Ranks \ lost : t <= timestamp[q]

\* Two buddies have the same snapshots when a repair is done; then each commits in turn.
LevelFrom(b, C) ==
  \A r \in Ranks : /\ timestamp[r] = b => DOMAIN committed[r] = C
                   /\ timestamp[r] # b => timestamp[r] > b /\ timestamp[r] \in DOMAIN committed[r]
Level ==
  (N = 2 /\ ~fatal /\ ~broken /\ \A r \in Ranks : pc[r] \in Work) =>
    \E b \in Int : \E C \in SUBSET Nat : LevelFrom(b, C)

Common == Orderly /\ Dated /\ Mending /\ Survived /\ Remembered /\ Level

\* Steps that leave the snapshots alone: failures, and storing.
LEMMA KeepsCommon ==
  ASSUME Common, failed \subseteq failed', broken' = FALSE => broken = FALSE,
         UNCHANGED <<timestamps, timestamp, committed, todo, member, lost, fatal, truth>>,
         \A r \in Ranks : (pc'[r] = "repair" => pc[r] = "repair") /\ (pc'[r] \in Work => pc[r] \in Work),
         broken' \in BOOLEAN, broken \in BOOLEAN
  PROVE  Dated' /\ Mending' /\ Survived' /\ Remembered' /\ Level'
<1>1. Dated'
  BY DEF Common, Dated
<1>2. Mending'
  <2>1. /\ \A r, q \in Ranks : (pc'[r] = "repair" /\ pc'[q] = "repair") => timestamp'[r] = timestamp'[q]
        /\ \A r \in Ranks : pc'[r] = "repair" => DOMAIN committed'[r] \subseteq Kept(timestamp'[r])
    BY DEF Common, Mending
  <2>2. ((\A r \in Ranks : pc'[r] = "repair") /\ failed' = {}) =>
          \A r \in Ranks : \A t \in Kept(timestamp'[r]) \ todo'[r] : \A m \in Ranks : Missing(t)' # {m}
    BY DEF Common, Mending, Missing
  <2>3. QED
    BY <2>1, <2>2 DEF Mending
<1>3. Survived'
  BY DEF Common, Survived
<1>4. Remembered'
  BY DEF Common, Remembered, Gone
<1>5. Level'
  <2>1. SUFFICES ASSUME N = 2, ~fatal', ~broken', \A r \in Ranks : pc'[r] \in Work
                 PROVE  \E b \in Int : \E C \in SUBSET Nat : LevelFrom(b, C)'
    BY DEF Level
  <2>2. PICK b \in Int, C \in SUBSET Nat : LevelFrom(b, C)
    BY <2>1 DEF Common, Level
  <2>3. LevelFrom(b, C)'
    BY <2>2 DEF LevelFrom
  <2>4. QED
    BY <2>3
<1>6. QED
  BY <1>1, <1>2, <1>3, <1>4, <1>5

\* A step between two labels of the application, or out of it, keeps the phases apart.
LEMMA KeepsOrder ==
  ASSUME Orderly, UNCHANGED <<failed, broken>>,
         \/ \A r \in Ranks : pc'[r] = "aborted"
         \/ \A r \in Ranks : pc'[r] = pc[r] \/ (pc[r] \in Work /\ pc'[r] \in Work)
                               \/ (pc'[r] = "recover" /\ pc[r] # "aborted" /\ broken)
  PROVE  Orderly'
BY DEF Orderly, Work, Restore

LEMMA FailCommon ==
  ASSUME Steady, Common, \/ \E r \in Ranks : Fail(r) \/ Notice(r)
                         \/ FailElsewhere \/ UNCHANGED vars
  PROVE  Common'
<1>1. /\ UNCHANGED <<timestamps, timestamp, committed, todo, member, lost, fatal, truth>>
      /\ failed \subseteq failed' /\ (broken' = broken \/ broken' = TRUE) /\ broken \in BOOLEAN
      /\ failed' = failed \/ broken' = TRUE
      /\ \A r \in Ranks : pc'[r] = pc[r] \/ (pc'[r] = "recover" /\ pc[r] # "aborted" /\ broken' = TRUE)
  BY DEF Fail, Notice, FailElsewhere, vars, groupVars, memberVars, faultVars, ghostVars, Steady, Typed, live
<1>2. \A r \in Ranks : (pc'[r] = "repair" => pc[r] = "repair") /\ (pc'[r] \in Work => pc[r] \in Work)
  BY <1>1 DEF Work
<1>3. Orderly'
  BY <1>1 DEF Common, Orderly
<1>4. Dated' /\ Mending' /\ Survived' /\ Remembered' /\ Level'
  BY <1>1, <1>2, KeepsCommon
<1>5. QED
  BY <1>3, <1>4 DEF Common

LEMMA StoreBeginCommon ==
  ASSUME Steady, Common, NEW x \in Ranks, StoreBegin(x)
  PROVE  Common'
<1>1. Typed
  BY DEF Steady
<1>2. /\ pc[x] = "app" /\ (pc' = [pc EXCEPT ![x] = "exchange"] \/ pc' = [pc EXCEPT ![x] = "storing"])
      /\ UNCHANGED <<timestamps, timestamp, member, committed, todo, failed, broken, lost, fatal, truth>>
  BY <1>1, StoreBeginEffects
<1>3. \A r \in Ranks : pc'[r] = pc[r] \/ (r = x /\ pc[r] \in Work /\ pc'[r] \in {"exchange", "storing"})
  BY <1>1, <1>2, StoreBeginEffects DEF Typed, Work
<1>4. \A r \in Ranks : (pc'[r] = "repair" => pc[r] = "repair") /\ (pc'[r] \in Work => pc[r] \in Work)
  BY <1>3
<1>5. Orderly'
  BY <1>2, <1>3, KeepsOrder DEF Common, Work
<1>6. Dated' /\ Mending' /\ Survived' /\ Remembered' /\ Level'
  BY <1>1, <1>2, <1>4, KeepsCommon DEF Typed
<1>7. QED
  BY <1>5, <1>6 DEF Common

LEMMA StoreEndCommon ==
  ASSUME Steady, Common, NEW x \in Ranks, StoreEnd(x)
  PROVE  Common'
<1>1. Typed
  BY DEF Steady
<1>2. /\ pc[x] = "storing" /\ (pc' = [q \in Ranks |-> "aborted"] \/ pc' = [pc EXCEPT ![x] = "stored"])
      /\ UNCHANGED <<timestamps, timestamp, member, committed, todo, failed, broken, lost, fatal, truth>>
  BY <1>1, StoreEndEffects
<1>3. \/ \A r \in Ranks : pc'[r] = "aborted"
      \/ \A r \in Ranks : pc'[r] = pc[r] \/ (pc[r] \in Work /\ pc'[r] = "stored")
  BY <1>1, <1>2 DEF Typed, Work
<1>4. \A r \in Ranks : (pc'[r] = "repair" => pc[r] = "repair") /\ (pc'[r] \in Work => pc[r] \in Work)
  BY <1>3 DEF Work
<1>5. Orderly'
  BY <1>2, <1>3, KeepsOrder DEF Common, Work
<1>6. Dated' /\ Mending' /\ Survived' /\ Remembered' /\ Level'
  BY <1>1, <1>2, <1>4, KeepsCommon DEF Typed
<1>7. QED
  BY <1>5, <1>6 DEF Common

LEMMA ExchangeCommon ==
  ASSUME Steady, Common, ExchangeSubsets
  PROVE  Common'
<1>1. Typed
  BY DEF Steady
<1>2. /\ \A r \in Ranks \ failed : pc[r] = "exchange"
      /\ UNCHANGED <<timestamps, timestamp, member, committed, todo, failed, broken, lost, fatal, truth>>
  BY <1>1, ExchangeEffects
<1>3. PICK done \in SUBSET (Ranks \ failed) :
        /\ ~broken => done = Ranks
        /\ \A r \in done : pc'[r] = "storing"
        /\ \A r \in Ranks \ done : pc'[r] = IF r \in failed THEN pc[r] ELSE "recover"
  BY <1>1, ExchangeEffects
<1>4. \A r \in Ranks : pc'[r] = pc[r] \/ (pc[r] \in Work /\ pc'[r] = "storing")
                         \/ (pc'[r] = "recover" /\ pc[r] # "aborted" /\ broken)
  BY <1>2, <1>3 DEF Work
<1>5. \A r \in Ranks : (pc'[r] = "repair" => pc[r] = "repair") /\ (pc'[r] \in Work => pc[r] \in Work)
  BY <1>4 DEF Work
<1>6. Orderly'
  BY <1>2, <1>4, KeepsOrder DEF Common, Work
<1>7. Dated' /\ Mending' /\ Survived' /\ Remembered' /\ Level'
  BY <1>1, <1>2, <1>5, KeepsCommon DEF Typed
<1>8. QED
  BY <1>6, <1>7 DEF Common

-----------------------------------------------------------------------------
(* A commit, on any ranks *)

LEMMA OldestTrimmed ==
  ASSUME NEW n \in Nat \cup {-1}, NEW D, D \subseteq 0 .. n, IsFiniteSet(D), Cardinality(D) = Depth + 1,
         NEW old \in D \cup {n + 1}, \A u \in D \cup {n + 1} : old <= u
  PROVE  old < n + 1 - Depth /\ old # n + 1
<1>1. n \in Int /\ n >= -1 /\ Depth \in Nat /\ n + 1 \notin D
  BY RingFacts
<1>2. IsFiniteSet(D \cup {n + 1}) /\ Cardinality(D \cup {n + 1}) = Depth + 2
  <2>1. IsFiniteSet(D \cup {n + 1}) /\ Cardinality(D \cup {n + 1}) = Cardinality(D) + 1
    BY <1>1, FS_AddElement
  <2>2. QED
    BY <1>1, <2>1
<1>3. PICK m \in Int, l \in Int : m = n + 1 /\ l = old
  BY <1>1
<1>4. D \cup {n + 1} \in SUBSET (l .. m)
  <2>1. \A u \in D \cup {n + 1} : u \in Int /\ l <= u /\ u <= m
    BY <1>1, <1>3
  <2>2. QED
    BY <2>1
<1>5. IsFiniteSet(l .. m) /\ Cardinality(l .. m) = IF l > m THEN 0 ELSE m - l + 1
  BY FS_Interval
<1>6. Cardinality(D \cup {n + 1}) <= Cardinality(l .. m)
  BY <1>4, <1>5, FS_Subset
<1>7. PICK k \in Int : k = Cardinality(l .. m)
  BY <1>5
<1>8. Depth + 2 <= k /\ k = IF l > m THEN 0 ELSE m - l + 1
  BY <1>2, <1>5, <1>6, <1>7
<1>9. Depth + 2 <= m - l + 1
  BY <1>1, <1>3, <1>8
<1>10. QED
  BY <1>1, <1>3, <1>9

CommitsOne(r, n) ==
  /\ timestamp'[r] = n + 1 /\ timestamps'[r] = Kept(n + 1) /\ pc'[r] = "app"
  /\ n + 1 \in DOMAIN committed'[r]
  /\ \A u \in DOMAIN committed[r] : u \in DOMAIN committed'[r] \/ u < n + 1 - Depth
  /\ DOMAIN truth'[r] = DOMAIN truth[r] \cup {n + 1}

LEMMA CommitOne ==
  ASSUME Steady, NEW R \in SUBSET Ranks, CommitOn(R), NEW r \in R,
         NEW n \in Nat \cup {-1}, n = timestamp[r], timestamps[r] = Kept(n)
  PROVE  CommitsOne(r, n)
<1>1. PICK c \in Stores, a \in Seq(Snaps), s \in Snaps : c = committed[r] /\ a = avail[r] /\ s = stage[r]
  BY DEF Steady, Typed
<1>2. Full(c, a) /\ DOMAIN c \subseteq 0 .. n
  BY <1>1 DEF Steady, Pooled
<1>3. PICK t \in Nat : t = n + 1 /\ t \notin DOMAIN c
  BY <1>2
<1>4. CommitsTo(c, a, t, s)
  BY <1>2, <1>3, CommitFacts
<1> DEFINE f == Trimmed(Inserted(c, t, s))
           old == Min(DOMAIN c \cup {t})
<1>5. /\ Cardinality(DOMAIN c) = Depth + 1 =>
           /\ old \in DOMAIN c \cup {t} /\ \A u \in DOMAIN c \cup {t} : old <= u
           /\ DOMAIN f = (DOMAIN c \cup {t}) \ {old}
      /\ Cardinality(DOMAIN c) # Depth + 1 => DOMAIN f = DOMAIN c \cup {t}
  BY <1>4 DEF CommitsTo
<1>6. /\ timestamp'[r] = t /\ timestamps'[r] = CommittedTimes(timestamps[r], t) /\ committed'[r] = f /\ pc'[r] = "app"
      /\ DOMAIN truth'[r] = DOMAIN truth[r] \cup {t}
  <2>1. LET t3 == timestamp[r] + 1
            e3 == Inserted(committed[r], t3, stage[r])
        IN  /\ timestamp'[r] = t3 /\ timestamps'[r] = CommittedTimes(timestamps[r], t3)
            /\ committed'[r] = Trimmed(e3) /\ pc'[r] = "app"
            /\ truth'[r] = [u \in DOMAIN truth[r] \cup {t3} |->
                              IF u = t3 THEN OwnContent(stage[r], r) ELSE truth[r][u]]
    BY CommitOnEffects DEF Steady
  <2>2. QED
    BY <1>1, <1>3, <2>1
<1> HIDE DEF f, old
<1>7. timestamps'[r] = Kept(n + 1)
  BY <1>3, <1>6, CommittedTimesKept
<1>8. n + 1 \in DOMAIN f /\ \A u \in DOMAIN c : u \in DOMAIN f \/ u < n + 1 - Depth
  <2>1. CASE Cardinality(DOMAIN c) = Depth + 1
    <3>1. PICK D, o : D = DOMAIN c /\ o = old
      OBVIOUS
    <3>2. D \subseteq 0 .. n /\ IsFiniteSet(D) /\ Cardinality(D) = Depth + 1
      BY <1>2, <2>1, <3>1 DEF Full
    <3>3. o \in D \cup {n + 1} /\ \A u \in D \cup {n + 1} : o <= u
      BY <1>3, <1>5, <2>1, <3>1
    <3>4. o < n + 1 - Depth /\ o # n + 1
      BY <3>2, <3>3, OldestTrimmed
    <3>5. DOMAIN f = (D \cup {n + 1}) \ {o}
      BY <1>3, <1>5, <2>1, <3>1
    <3>6. QED
      BY <3>1, <3>4, <3>5
  <2>2. CASE Cardinality(DOMAIN c) # Depth + 1
    BY <1>3, <1>5, <2>2
  <2>3. QED
    BY <2>1, <2>2
<1>9. QED
  BY <1>1, <1>3, <1>6, <1>7, <1>8 DEF CommitsOne

LEMMA CommitCommon ==
  ASSUME Steady, Common, NEW R \in SUBSET Ranks, CommitOn(R), \A r \in R : pc[r] = "stored"
  PROVE  Common'
<1>1. Typed /\ Depth \in Nat
  BY RingFacts DEF Steady
<1>2. /\ \A r \in Ranks \ R :
           /\ timestamp'[r] = timestamp[r] /\ timestamps'[r] = timestamps[r] /\ committed'[r] = committed[r]
           /\ truth'[r] = truth[r] /\ pc'[r] = pc[r]
      /\ UNCHANGED <<member, todo, failed, broken, lost, fatal>>
  BY <1>1, CommitOnEffects
<1>3. \A r \in Ranks : timestamp[r] \in Nat \cup {-1} /\ timestamps[r] = Kept(timestamp[r])
  BY <1>1 DEF Typed, Common, Dated
<1>4. \A r \in R : CommitsOne(r, timestamp[r])
  BY <1>3, CommitOne
<1>5. \A r \in Ranks : pc'[r] = pc[r] \/ (r \in R /\ pc[r] = "stored" /\ pc'[r] = "app")
  BY <1>2, <1>4 DEF CommitsOne
<1>6. \A r \in Ranks : (pc'[r] = "repair" => pc[r] = "repair" /\ r \notin R) /\ (pc'[r] \in Work => pc[r] \in Work)
  BY <1>5, <1>4 DEF Work, CommitsOne
<1>7. Orderly'
  BY <1>2, <1>5, KeepsOrder DEF Common, Work
<1>8. Dated'
  BY <1>2, <1>3, <1>4 DEF Dated, CommitsOne
<1>9. Mending'
  <2>1. \A r, q \in Ranks : (pc'[r] = "repair" /\ pc'[q] = "repair") => timestamp'[r] = timestamp'[q]
    BY <1>2, <1>6 DEF Common, Mending
  <2>2. \A r \in Ranks : pc'[r] = "repair" => DOMAIN committed'[r] \subseteq Kept(timestamp'[r])
    BY <1>2, <1>6 DEF Common, Mending
  <2>3. ((\A r \in Ranks : pc'[r] = "repair") /\ failed' = {}) =>
          \A r \in Ranks : \A t \in Kept(timestamp'[r]) \ todo'[r] : \A m \in Ranks : Missing(t)' # {m}
    <3>1. SUFFICES ASSUME \A r \in Ranks : pc'[r] = "repair", failed' = {}
                   PROVE  \A r \in Ranks : \A t \in Kept(timestamp'[r]) \ todo'[r] : \A m \in Ranks : Missing(t)' # {m}
      OBVIOUS
    <3>2. \A r \in Ranks : pc[r] = "repair" /\ committed'[r] = committed[r] /\ timestamp'[r] = timestamp[r]
      BY <1>2, <1>6, <3>1
    <3>3. \A t : Missing(t)' = Missing(t)
      BY <3>2 DEF Missing
    <3>4. QED
      BY <1>2, <3>1, <3>2, <3>3 DEF Common, Mending
  <2>4. QED
    BY <2>1, <2>2, <2>3 DEF Mending
<1>10. Survived'
  BY <1>2, <1>6 DEF Common, Survived
<1>11. Remembered'
  <2>1. SUFFICES ASSUME ~fatal'
                 PROVE  /\ \A r \in Ranks \ lost : \A t \in DOMAIN truth'[r] :
                             /\ t <= timestamp'[r]
                             /\ t \in DOMAIN committed'[r] \/ t < timestamp'[r] - Depth \/ \E q \in Ranks : Gone(t, q)'
                        /\ \A r \in lost : \A t \in DOMAIN truth'[r] : \E q \in Ranks \ lost : t <= timestamp'[q]
    BY <1>2 DEF Remembered
  <2>2. R # {} => lost = {}
    BY DEF Common, Survived, Work
  <2>3. ~fatal
    BY <1>2, <2>1
  <2>4. ASSUME NEW q \in Ranks, NEW t \in Int, Gone(t, q) PROVE Gone(t, q)'
    <3>1. CASE q \notin R
      BY <1>2, <2>4, <3>1 DEF Gone
    <3>2. CASE q \in R
      <4>1. t <= timestamp[q] /\ t \notin DOMAIN truth[q] /\ timestamp[q] \in Int
        BY <1>3, <2>2, <2>4, <3>2 DEF Gone
      <4>2. timestamp'[q] = timestamp[q] + 1 /\ DOMAIN truth'[q] = DOMAIN truth[q] \cup {timestamp[q] + 1}
        BY <1>4, <3>2 DEF CommitsOne
      <4>3. QED
        BY <4>1, <4>2 DEF Gone
    <3>3. QED
      BY <3>1, <3>2
  <2>5. ASSUME NEW r \in Ranks \ lost, NEW t \in DOMAIN truth'[r]
        PROVE  /\ t <= timestamp'[r]
               /\ t \in DOMAIN committed'[r] \/ t < timestamp'[r] - Depth \/ \E q \in Ranks : Gone(t, q)'
    <3>1. ASSUME NEW u \in DOMAIN truth[r]
          PROVE  /\ u \in Int /\ u <= timestamp[r]
                 /\ u \in DOMAIN committed[r] \/ u < timestamp[r] - Depth \/ \E q \in Ranks : Gone(u, q)'
      <4>1. u \in Int
        <5>1. truth[r] \in Truths
          BY <1>1 DEF Typed
        <5>2. PICK T \in Truths : T = truth[r]
          BY <5>1
        <5>3. DOMAIN T \in SUBSET Nat
          BY DEF Truths
        <5>4. QED
          BY <5>2, <5>3
      <4>2. QED
        BY <2>3, <2>4, <4>1 DEF Common, Remembered
    <3>2. CASE r \notin R
      BY <1>2, <3>1, <3>2
    <3>3. CASE r \in R
      <4>1. PICK n \in Nat \cup {-1} : n = timestamp[r] /\ n \in Int
        BY <1>3
      <4>2. CommitsOne(r, n)
        BY <1>4, <3>3, <4>1
      <4>3. CASE t = n + 1
        BY <4>1, <4>2, <4>3 DEF CommitsOne
      <4>4. CASE t # n + 1
        <5>1. t \in DOMAIN truth[r]
          BY <4>2, <4>4 DEF CommitsOne
        <5>2. t \in Int /\ t <= n /\ (t \in DOMAIN committed[r] \/ t < n - Depth \/ \E q \in Ranks : Gone(t, q)')
          BY <3>1, <4>1, <5>1
        <5>3. t \in DOMAIN committed[r] => t \in DOMAIN committed'[r] \/ t < n + 1 - Depth
          BY <4>2 DEF CommitsOne
        <5>4. t < n - Depth => t < n + 1 - Depth
          BY <1>1, <4>1, <5>2
        <5>5. timestamp'[r] = n + 1 /\ t <= n + 1
          BY <4>1, <4>2, <5>2 DEF CommitsOne
        <5>6. t \in DOMAIN committed'[r] \/ t < n + 1 - Depth \/ \E q \in Ranks : Gone(t, q)'
          BY <5>2, <5>3, <5>4, Zenon
        <5>7. CASE \E q \in Ranks : Gone(t, q)'
          BY <5>5, <5>7
        <5>8. CASE t \in DOMAIN committed'[r] \/ t < n + 1 - Depth
          BY <1>1, <4>1, <5>2, <5>5, <5>8
        <5>9. QED
          BY <5>6, <5>7, <5>8
      <4>5. QED
        BY <4>3, <4>4
    <3>4. QED
      BY <3>2, <3>3
  <2>6. ASSUME NEW r \in lost, NEW t \in DOMAIN truth'[r] PROVE \E q \in Ranks \ lost : t <= timestamp'[q]
    <3>1. R = {} /\ r \in Ranks
      BY <1>1, <2>2 DEF Typed
    <3>2. t \in DOMAIN truth[r]
      BY <1>2, <3>1
    <3>3. PICK q \in Ranks \ lost : t <= timestamp[q]
      BY <2>3, <3>2 DEF Common, Remembered
    <3>4. QED
      BY <1>2, <3>1, <3>3
  <2>7. QED
    BY <2>5, <2>6
<1>12. Level'
  <2>1. SUFFICES ASSUME N = 2, ~fatal', ~broken', \A r \in Ranks : pc'[r] \in Work
                 PROVE  \E b \in Int : \E C \in SUBSET Nat : LevelFrom(b, C)'
    BY DEF Level
  <2>2. PICK b \in Int, C \in SUBSET Nat : LevelFrom(b, C)
    BY <1>2, <1>6, <2>1 DEF Common, Level
  <2>3. ASSUME NEW r \in Ranks
        PROVE  /\ timestamp'[r] = b => DOMAIN committed'[r] = C
               /\ timestamp'[r] # b => timestamp'[r] > b /\ timestamp'[r] \in DOMAIN committed'[r]
    <3>1. CASE r \notin R
      BY <1>2, <2>2, <3>1 DEF LevelFrom
    <3>2. CASE r \in R
      <4>1. PICK n \in Nat \cup {-1} : n = timestamp[r] /\ n \in Int
        BY <1>3
      <4>2. n >= b
        BY <2>2, <4>1 DEF LevelFrom
      <4>3. timestamp'[r] = n + 1 /\ n + 1 \in DOMAIN committed'[r]
        BY <1>4, <3>2, <4>1 DEF CommitsOne
      <4>4. QED
        BY <4>1, <4>2, <4>3
    <3>3. QED
      BY <3>1, <3>2
  <2>4. LevelFrom(b, C)'
    BY <2>3 DEF LevelFrom
  <2>5. QED
    BY <2>4
<1>13. QED
  BY <1>7, <1>8, <1>9, <1>10, <1>11, <1>12 DEF Common

-----------------------------------------------------------------------------
(* Synchronising the timestamps: the newest window of all ranks *)

LEMMA KeptNewest ==
  ASSUME NEW n \in Nat \cup {-1}
  PROVE  /\ IsFiniteSet(Kept(n)) /\ Cardinality(Kept(n)) = IF n < Depth THEN n + 1 ELSE Depth + 1
         /\ \A i \in 1 .. Cardinality(Kept(n)) : NthNewest(Kept(n), i) = n + 1 - i
         /\ \A i \in Nat : i > Cardinality(Kept(n)) => NthNewest(Kept(n), i) = -1
<1>1. Depth \in Nat /\ n \in Int /\ n >= -1
  BY RingFacts
<1>2. PICK lo \in Nat : lo = IF n < Depth THEN 0 ELSE n - Depth
  BY <1>1
<1>3. Kept(n) = lo .. n /\ lo <= n + 1
  BY <1>1, <1>2 DEF Kept
<1>4. IsFiniteSet(lo .. n) /\ Cardinality(lo .. n) = n - lo + 1
  <2>1. IsFiniteSet(lo .. n) /\ Cardinality(lo .. n) = IF lo > n THEN 0 ELSE n - lo + 1
    BY <1>1, FS_Interval
  <2>2. QED
    BY <1>1, <1>3, <2>1
<1>5. PICK k \in Nat : k = Cardinality(Kept(n))
  BY <1>3, <1>4, FS_CardinalityType
<1>6. k = n - lo + 1 /\ k = (IF n < Depth THEN n + 1 ELSE Depth + 1)
  BY <1>1, <1>2, <1>3, <1>4, <1>5
<1>7. ASSUME NEW t \in Kept(n) PROVE Cardinality({u \in Kept(n) : u >= t}) = n - t + 1
  <2>1. t \in Int /\ t <= n /\ lo <= t
    BY <1>3
  <2>2. {u \in Kept(n) : u >= t} = t .. n
    BY <1>1, <1>3, <2>1
  <2>3. Cardinality(t .. n) = IF t > n THEN 0 ELSE n - t + 1
    BY <1>1, <2>1, FS_Interval
  <2>4. Cardinality(t .. n) = n - t + 1
    BY <1>1, <2>1, <2>3
  <2>5. QED
    BY <2>2, <2>4
<1>8. ASSUME NEW i \in 1 .. k PROVE NthNewest(Kept(n), i) = n + 1 - i
  <2>1. n + 1 - i \in Kept(n) /\ i \in Int
    BY <1>1, <1>3, <1>6
  <2>2. \A t \in Kept(n) : Cardinality({u \in Kept(n) : u >= t}) = i <=> t = n + 1 - i
    <3>1. \A t \in Kept(n) : t \in Int
      BY <1>3
    <3>2. ASSUME NEW t \in Kept(n) PROVE Cardinality({u \in Kept(n) : u >= t}) = i <=> t = n + 1 - i
      <4>1. PICK c : c = Cardinality({u \in Kept(n) : u >= t}) /\ c = n - t + 1
        BY <1>7
      <4>2. c = i <=> t = n + 1 - i
        BY <1>1, <2>1, <3>1, <4>1
      <4>3. QED
        BY <4>1, <4>2
    <3>3. QED
      BY <3>2
  <2>3. NthNewest(Kept(n), i) = CHOOSE t \in Kept(n) : Cardinality({u \in Kept(n) : u >= t}) = i
    <3>1. ~(i > Cardinality(Kept(n)))
      BY <1>5, <2>1
    <3>2. QED
      BY <3>1 DEF NthNewest
  <2>4. QED
    BY <2>1, <2>2, <2>3
<1>9. \A i \in Nat : i > k => NthNewest(Kept(n), i) = -1
  BY <1>5 DEF NthNewest
<1>10. QED
  BY <1>3, <1>4, <1>5, <1>6, <1>8, <1>9

LEMMA SyncedWindow ==
  ASSUME Typed, Dated, NEW m \in Ranks, \A r \in Ranks : timestamp[r] <= timestamp[m]
  PROVE  SyncedTimestamps = Kept(timestamp[m])
<1>1. \A r \in Ranks : timestamp[r] \in Nat \cup {-1} /\ timestamp[r] \in Int /\ timestamps[r] = Kept(timestamp[r])
  BY DEF Typed, Dated
<1>2. Depth \in Nat /\ IsFiniteSet(Ranks)
  BY RingFacts
<1>3. PICK M \in Nat \cup {-1} : M = timestamp[m] /\ M \in Int
  BY <1>1
<1>4. PICK k \in Int : k = Cardinality(Kept(M)) /\ k = (IF M < Depth THEN M + 1 ELSE Depth + 1)
  BY <1>2, <1>3, KeptNewest
<1> DEFINE size == [r \in Ranks |-> Cardinality(timestamps[r])]
           sizes == {size[r] : r \in Ranks}
           nth(i) == [r \in Ranks |-> NthNewest(timestamps[r], i)]
           top(i) == {nth(i)[r] : r \in Ranks}
<1>5. \A r \in Ranks : size[r] \in Int /\ size[r] <= k
  <2>1. ASSUME NEW r \in Ranks PROVE size[r] \in Int /\ size[r] <= k
    <3>1. PICK n \in Nat \cup {-1} : n = timestamp[r] /\ n \in Int /\ n <= M
      BY <1>1, <1>3
    <3>2. Cardinality(Kept(n)) = IF n < Depth THEN n + 1 ELSE Depth + 1
      BY KeptNewest
    <3>3. size[r] = Cardinality(Kept(n))
      BY <1>1, <3>1
    <3>4. QED
      BY <1>2, <1>3, <1>4, <3>1, <3>2, <3>3
  <2>2. QED
    BY <2>1
<1>6. Max(sizes) = k
  <2>1. k \in sizes
    BY <1>1, <1>3, <1>4
  <2>2. sizes \subseteq Int /\ \A x \in sizes : x <= k
    BY <1>5
  <2>3. DOMAIN size = Ranks
    OBVIOUS
  <2> HIDE DEF size
  <2>4. IsFiniteSet(sizes)
    BY <1>2, <2>3, ImageFinite
  <2> HIDE DEF sizes
  <2>5. Max(sizes) \in sizes /\ \A x \in sizes : x <= Max(sizes)
    BY <2>1, <2>2, <2>4, MaxOf
  <2>6. PICK v \in Int : v = Max(sizes)
    BY <2>2, <2>5
  <2>7. QED
    BY <2>1, <2>2, <2>5, <2>6
<1>7. ASSUME NEW i \in 1 .. k PROVE Max(top(i)) = M + 1 - i
  <2>1. PICK x \in Int : x = M + 1 - i /\ x >= 0 /\ i \in Nat
    BY <1>2, <1>3, <1>4
  <2>2. x \in top(i)
    <3>1. NthNewest(Kept(M), i) = x
      BY <1>4, <2>1, KeptNewest
    <3>2. QED
      BY <1>1, <1>3, <3>1
  <2>3. ASSUME NEW r \in Ranks PROVE nth(i)[r] \in Int /\ nth(i)[r] <= x
    <3>1. PICK n \in Nat \cup {-1} : n = timestamp[r] /\ n \in Int /\ n <= M
      BY <1>1, <1>3
    <3>2. PICK j \in Int : j = Cardinality(Kept(n))
      BY <1>2, <3>1, KeptNewest
    <3>3. i \in 1 .. j => NthNewest(Kept(n), i) = n + 1 - i
      BY <3>2, KeptNewest
    <3>4. i > j => NthNewest(Kept(n), i) = -1
      BY <2>1, <3>2, KeptNewest
    <3>5. nth(i)[r] = NthNewest(Kept(n), i)
      BY <1>1, <3>1
    <3>6. QED
      BY <1>3, <2>1, <3>1, <3>2, <3>3, <3>4, <3>5
  <2>4. DOMAIN nth(i) = Ranks
    OBVIOUS
  <2>5. PICK f : f = nth(i) /\ top(i) = {f[r] : r \in Ranks}
    OBVIOUS
  <2>6. IsFiniteSet(top(i))
    BY <1>2, <2>4, <2>5, ImageFinite
  <2>7. top(i) \subseteq Int /\ \A y \in top(i) : y <= x
    BY <2>3
  <2> HIDE DEF top, nth
  <2>8. Max(top(i)) \in top(i) /\ \A y \in top(i) : y <= Max(top(i))
    BY <2>2, <2>6, <2>7, MaxOf
  <2>9. PICK v \in Int : v = Max(top(i))
    BY <2>7, <2>8
  <2>10. QED
    BY <2>1, <2>2, <2>7, <2>8, <2>9
<1>8. SyncedTimestamps = {Max(top(i)) : i \in 1 .. k}
  <2>1. sizes = {Cardinality(timestamps[r]) : r \in Ranks}
    OBVIOUS
  <2>2. \A i \in 1 .. k : top(i) = {NthNewest(timestamps[r], i) : r \in Ranks}
    OBVIOUS
  <2> HIDE DEF sizes, top
  <2>3. SyncedTimestamps = {Max({NthNewest(timestamps[r], i) : r \in Ranks}) : i \in 1 .. k}
    BY <1>6, <2>1 DEF SyncedTimestamps
  <2>4. QED
    BY <2>2, <2>3
<1> HIDE DEF top
<1>9. SyncedTimestamps = {M + 1 - i : i \in 1 .. k}
  BY <1>7, <1>8
<1>10. {M + 1 - i : i \in 1 .. k} = Kept(M)
  <2>1. \A t : t \in Kept(M) <=> t \in Int /\ 0 <= t /\ t <= M /\ t >= M - Depth
    BY <1>2, <1>3 DEF Kept
  <2>2. \A i \in 1 .. k : M + 1 - i \in Kept(M)
    BY <1>2, <1>3, <1>4, <2>1
  <2>3. \A t \in Kept(M) : M + 1 - t \in 1 .. k /\ t = M + 1 - (M + 1 - t)
    BY <1>2, <1>3, <1>4, <2>1
  <2>4. QED
    BY <2>2, <2>3
<1>11. QED
  BY <1>3, <1>9, <1>10

LEMMA NewestRank ==
  ASSUME Typed
  PROVE  \E m \in Ranks : \A r \in Ranks : timestamp[r] <= timestamp[m]
<1>1. DOMAIN timestamp = Ranks /\ \A r \in Ranks : timestamp[r] \in Int
  BY DEF Typed
<1>2. PICK f, T : f = timestamp /\ DOMAIN f = Ranks /\ T = {f[r] : r \in Ranks}
  BY <1>1
<1>3. IsFiniteSet(T)
  <2>1. IsFiniteSet(DOMAIN f)
    BY <1>2, RingFacts
  <2>2. T = {f[r] : r \in DOMAIN f}
    BY <1>2
  <2>3. QED
    BY <2>1, <2>2, ImageFinite
<1>4. T \subseteq Int /\ T # {}
  <2>1. \A r \in Ranks : f[r] \in Int
    BY <1>1, <1>2
  <2>2. Ranks # {}
    BY RingFacts
  <2>3. QED
    BY <1>2, <2>1, <2>2
<1>5. Max(T) \in T /\ \A x \in T : x <= Max(T)
  BY <1>3, <1>4, MaxOf
<1>6. QED
  BY <1>2, <1>5

LEMMA SyncCommon ==
  ASSUME Steady, Common, SyncTimestamps
  PROVE  Common'
<1>1. Typed /\ Depth \in Nat
  BY RingFacts DEF Steady
<1>2. PICK m \in Ranks : \A r \in Ranks : timestamp[r] <= timestamp[m]
  BY <1>1, NewestRank
<1>3. PICK M \in Nat \cup {-1} : M = timestamp[m] /\ M \in Int
  <2>1. timestamp[m] \in Nat \cup {-1}
    BY <1>1 DEF Typed
  <2>2. \A n \in Nat \cup {-1} : n \in Int
    OBVIOUS
  <2>3. QED
    BY <2>1, <2>2
<1>4. \A r \in Ranks : timestamp[r] \in Int /\ timestamp[r] <= M /\ timestamps[r] = Kept(timestamp[r])
  BY <1>1, <1>2, <1>3 DEF Typed, Common, Dated
<1>5. SyncedTimestamps = Kept(M)
  BY <1>1, <1>2, <1>3, SyncedWindow DEF Common
<1>6. (IF SyncedTimestamps = {} THEN -1 ELSE Max(SyncedTimestamps)) = M
  <2>1. CASE M = -1
    BY <1>5, <2>1, KeptFacts
  <2>2. CASE M # -1
    <3>1. M \in Kept(M) /\ \A t \in Kept(M) : t <= M
      BY <2>2, KeptFacts
    <3>2. IsFiniteSet(Kept(M)) /\ Kept(M) \subseteq Int /\ Kept(M) # {}
      BY <3>1, KeptFacts
    <3>3. Max(Kept(M)) \in Kept(M) /\ \A x \in Kept(M) : x <= Max(Kept(M))
      BY <3>2, MaxOf
    <3>4. PICK v \in Int : v = Max(Kept(M))
      BY <3>2, <3>3
    <3>5. v = M
      BY <1>3, <3>1, <3>3, <3>4
    <3>6. QED
      BY <1>5, <3>2, <3>4, <3>5
  <2>3. QED
    BY <2>1, <2>2
<1>7. PICK done \in SUBSET Ranks :
        /\ done \subseteq Ranks \ failed /\ (~broken => done = Ranks) /\ failed # Ranks
        /\ \A r \in Ranks \ failed : pc[r] = "init"
        /\ \A r \in Ranks \ done :
             /\ timestamp'[r] = timestamp[r] /\ timestamps'[r] = timestamps[r] /\ committed'[r] = committed[r]
             /\ todo'[r] = todo[r] /\ pc'[r] = IF r \in failed THEN pc[r] ELSE "recover"
        /\ \A r \in done :
             /\ timestamp'[r] = M /\ timestamps'[r] = Kept(M)
             /\ committed'[r] = OnTimes(committed[r], Kept(M)) /\ todo'[r] = Kept(M) /\ pc'[r] = "repair"
        /\ UNCHANGED <<member, failed, broken, lost, fatal, truth>>
  BY <1>1, <1>5, <1>6, SyncEffects
<1>8. \A r \in done : DOMAIN committed'[r] = DOMAIN committed[r] \cap Kept(M)
  <2>1. ASSUME NEW r \in done PROVE DOMAIN committed'[r] = DOMAIN committed[r] \cap Kept(M)
    <3>1. committed'[r] = OnTimes(committed[r], Kept(M))
      BY <1>7
    <3>2. DOMAIN OnTimes(committed[r], Kept(M)) = DOMAIN committed[r] \cap Kept(M)
      BY DEF OnTimes
    <3>3. QED
      BY <3>1, <3>2
  <2>2. QED
    BY <2>1
<1>9. /\ \A r \in Ranks : pc[r] \in Restore \cup {"recover"}
      /\ \A r \in Ranks : pc'[r] \in Restore \cup {"recover"} /\ pc'[r] \notin Work
  <2>1. \E r \in Ranks \ failed : pc[r] = "init"
    BY <1>1, <1>7 DEF Typed
  <2>2. \A r \in Ranks : pc[r] \in Restore \cup {"recover"}
    BY <2>1 DEF Common, Orderly, Work, Restore
  <2>3. QED
    BY <1>7, <2>2 DEF Work, Restore
<1>10. Orderly'
  <2>1. (failed # {} \/ \E r \in Ranks : pc'[r] = "recover") => broken
    <3>1. ~broken => done = Ranks /\ failed = {}
      BY <1>7 DEF Common, Orderly
    <3>2. QED
      BY <1>7, <3>1
  <2>2. QED
    BY <1>7, <1>9, <2>1 DEF Orderly
<1>11. Dated'
  BY <1>4, <1>7 DEF Dated
<1>12. Mending'
  <2>1. \A q \in Ranks : pc[q] # "repair"
    BY <1>1, <1>7 DEF Typed, Common, Orderly
  <2>2. \A r \in Ranks : pc'[r] = "repair" => r \in done
    BY <1>7, <2>1
  <2>3. \A r, q \in Ranks : (pc'[r] = "repair" /\ pc'[q] = "repair") => timestamp'[r] = timestamp'[q]
    BY <1>7, <2>2
  <2>4. \A r \in Ranks : pc'[r] = "repair" => DOMAIN committed'[r] \subseteq Kept(timestamp'[r])
    BY <1>7, <1>8, <2>2
  <2>5. (\A r \in Ranks : pc'[r] = "repair") => \A r \in Ranks : Kept(timestamp'[r]) \ todo'[r] = {}
    BY <1>7, <2>2
  <2>6. QED
    BY <2>3, <2>4, <2>5 DEF Mending
<1>13. Survived'
  BY <1>7, <1>9 DEF Common, Survived
<1>14. Remembered'
  <2>1. SUFFICES ASSUME ~fatal
                 PROVE  /\ \A r \in Ranks \ lost : \A t \in DOMAIN truth[r] :
                             /\ t <= timestamp'[r]
                             /\ t \in DOMAIN committed'[r] \/ t < timestamp'[r] - Depth \/ \E q \in Ranks : Gone(t, q)'
                        /\ \A r \in lost : \A t \in DOMAIN truth[r] : \E q \in Ranks \ lost : t <= timestamp'[q]
    BY <1>7 DEF Remembered
  <2>2. \A r \in Ranks : timestamp'[r] \in Int /\ timestamp[r] \in Int /\ timestamp[r] <= timestamp'[r]
    BY <1>3, <1>4, <1>7
  <2>3. ASSUME NEW r \in Ranks, NEW t \in DOMAIN truth[r] PROVE t \in Nat
    <3>1. PICK T \in Truths : T = truth[r]
      BY <1>1 DEF Typed
    <3>2. DOMAIN T \in SUBSET Nat
      BY DEF Truths
    <3>3. QED
      BY <3>1, <3>2
  <2>4. ASSUME NEW q \in Ranks, NEW t \in Nat, Gone(t, q) PROVE Gone(t, q)'
    BY <1>7, <2>2, <2>4 DEF Gone
  <2>5. ASSUME NEW r \in Ranks \ lost, NEW t \in DOMAIN truth[r]
        PROVE  /\ t <= timestamp'[r]
               /\ t \in DOMAIN committed'[r] \/ t < timestamp'[r] - Depth \/ \E q \in Ranks : Gone(t, q)'
    <3>1. t \in Nat /\ t <= timestamp[r]
      BY <2>1, <2>3 DEF Common, Remembered
    <3>2. t \in DOMAIN committed[r] \/ t < timestamp[r] - Depth \/ \E q \in Ranks : Gone(t, q)
      BY <2>1 DEF Common, Remembered
    <3>3. t <= timestamp'[r]
      BY <2>2, <3>1
    <3>4. CASE t \in DOMAIN committed[r]
      <4>1. CASE r \notin done
        BY <1>7, <3>3, <3>4, <4>1
      <4>2. CASE r \in done
        <5>1. t \in Kept(M) \/ t < M - Depth
          <6>1. t <= M /\ t \in Nat
            BY <1>7, <3>1, <3>3, <4>2
          <6>2. QED
            BY <1>1, <1>3, <6>1 DEF Kept
        <5>2. QED
          BY <1>7, <1>8, <3>3, <3>4, <4>2, <5>1
      <4>3. QED
        BY <4>1, <4>2
    <3>5. CASE t < timestamp[r] - Depth
      <4>1. t < timestamp'[r] - Depth
        BY <1>1, <2>2, <3>1, <3>5
      <4>2. QED
        BY <3>3, <4>1
    <3>6. CASE \E q \in Ranks : Gone(t, q)
      <4>1. \E q \in Ranks : Gone(t, q)'
        BY <2>4, <3>1, <3>6
      <4>2. QED
        BY <3>3, <4>1
    <3>7. QED
      BY <3>2, <3>4, <3>5, <3>6
  <2>6. ASSUME NEW r \in lost, NEW t \in DOMAIN truth[r] PROVE \E q \in Ranks \ lost : t <= timestamp'[q]
    <3>1. t \in Nat
      BY <1>1, <2>3 DEF Typed
    <3>2. PICK q \in Ranks \ lost : t <= timestamp[q]
      BY <2>1 DEF Common, Remembered
    <3>3. QED
      BY <2>2, <3>1, <3>2
  <2>7. QED
    BY <2>5, <2>6
<1>15. Level'
  BY <1>9, RingFacts DEF Level
<1>16. QED
  BY <1>10, <1>11, <1>12, <1>13, <1>14, <1>15 DEF Common

LEMMA RepairCommon ==
  ASSUME Steady, Common, RepairSnapshot
  PROVE  Common'
<1>1. Typed /\ Depth \in Nat
  BY RingFacts DEF Steady
<1>2. PICK t \in Nat :
        /\ Aborts(t) \/ Turns(t)
        /\ \A r \in Ranks \ failed : pc[r] = "repair" /\ t \in todo[r]
        /\ UNCHANGED <<timestamps, timestamp, failed, broken, lost, fatal, truth>>
  BY RepairTurn
<1>3. PICK x \in Ranks \ failed : pc[x] = "repair"
  BY <1>1, <1>2, RepairTurn DEF Typed
<1>4. \A r \in Ranks : pc[r] \in Restore \cup {"recover"} /\ pc[r] \notin Work
  <2>1. \A r \in Ranks : pc[r] \in Restore \cup {"recover"}
    BY <1>3 DEF Common, Orderly, Work, Restore
  <2>2. QED
    BY <2>1 DEF Work, Restore
<1>5. CASE Aborts(t)
  <2>1. /\ failed = {} /\ \A r \in Ranks : pc'[r] = "aborted"
        /\ UNCHANGED <<member, committed, todo>>
    BY <1>5 DEF Aborts, Sole
  <2>2. Orderly'
    BY <1>2, <2>1 DEF Orderly
  <2>3. \A r \in Ranks : (pc'[r] = "repair" => pc[r] = "repair") /\ (pc'[r] \in Work => pc[r] \in Work)
    BY <2>1 DEF Work
  <2>4. Dated' /\ Mending' /\ Survived' /\ Remembered' /\ Level'
    BY <1>1, <1>2, <2>1, <2>3, KeepsCommon DEF Typed
  <2>5. QED
    BY <2>2, <2>4 DEF Common
<1>6. CASE Turns(t)
  <2>1. PICK done \in SUBSET (Ranks \ failed) :
          /\ ~broken => done = Ranks
          /\ \A r \in Ranks :
               /\ pc'[r] = (IF r \in done \cup failed THEN pc[r] ELSE "recover")
               /\ todo'[r] = (IF r \in done THEN todo[r] \ {t} ELSE todo[r])
               /\ member'[r] = (member[r] \/ r \in done)
               /\ committed'[r] = (IF r \notin done \/ ~Sole(t) THEN committed[r]
                                   ELSE IF r \in Missing(t) THEN Inserted(committed[r], t, Rebuilt(r, t))
                                   ELSE Reprotected(committed[r], t, BroadcastSubsets(t)))
    BY <1>6 DEF Turns
  <2>2. ASSUME NEW r \in Ranks
        PROVE  DOMAIN committed'[r] = DOMAIN committed[r] \cup (IF r \in done /\ Sole(t) THEN {t} ELSE {})
    <3>1. CASE r \notin done \/ ~Sole(t)
      BY <2>1, <3>1
    <3>2. CASE r \in done /\ Sole(t) /\ r \in Missing(t)
      <4>1. committed'[r] = Inserted(committed[r], t, Rebuilt(r, t))
        BY <2>1, <3>2
      <4>2. DOMAIN Inserted(committed[r], t, Rebuilt(r, t)) = DOMAIN committed[r] \cup {t}
        BY DEF Inserted
      <4>3. QED
        BY <3>2, <4>1, <4>2
    <3>3. CASE r \in done /\ Sole(t) /\ r \notin Missing(t)
      <4>1. committed'[r] = Reprotected(committed[r], t, BroadcastSubsets(t))
        BY <2>1, <3>3
      <4>2. DOMAIN Reprotected(committed[r], t, BroadcastSubsets(t)) = DOMAIN committed[r]
        BY DEF Reprotected
      <4>3. t \in DOMAIN committed[r]
        BY <3>3 DEF Missing
      <4>4. QED
        BY <3>3, <4>1, <4>2, <4>3
    <3>4. QED
      BY <3>1, <3>2, <3>3
  <2>3. \A r \in Ranks : pc'[r] = pc[r] \/ pc'[r] = "recover"
    BY <2>1
  <2>4. Orderly'
    <3>1. \A r \in Ranks : pc'[r] \in Restore \cup {"recover"}
      BY <1>4, <2>3
    <3>2. (failed # {} \/ \E r \in Ranks : pc'[r] = "recover") => broken
      BY <2>1 DEF Common, Orderly
    <3>3. \A r \in Ranks \ failed : pc'[r] # "init"
      BY <1>2, <2>3
    <3>4. QED
      BY <1>2, <3>1, <3>2, <3>3 DEF Orderly
  <2>5. Dated'
    BY <1>2 DEF Common, Dated
  <2>6. Mending'
    <3>1. \A r \in Ranks : pc'[r] = "repair" => pc[r] = "repair"
      BY <2>3
    <3>2. \A r \in Ranks \ failed : t \in Kept(timestamp[r])
      BY <1>2 DEF Steady, Pooled, Common, Dated
    <3>3. \A r \in Ranks : pc'[r] = "repair" => DOMAIN committed'[r] \subseteq Kept(timestamp'[r])
      <4>1. ASSUME NEW r \in Ranks, pc'[r] = "repair" PROVE DOMAIN committed'[r] \subseteq Kept(timestamp'[r])
        <5>1. DOMAIN committed[r] \subseteq Kept(timestamp[r])
          BY <3>1, <4>1 DEF Common, Mending
        <5>2. CASE r \in done
          BY <1>2, <2>2, <3>2, <5>1, <5>2
        <5>3. CASE r \notin done
          BY <1>2, <2>2, <5>1, <5>3
        <5>4. QED
          BY <5>2, <5>3
      <4>2. QED
        BY <4>1
    <3>4. ASSUME \A r \in Ranks : pc'[r] = "repair", failed' = {}, NEW r \in Ranks,
                 NEW u \in Kept(timestamp'[r]) \ todo'[r], NEW m \in Ranks
          PROVE  Missing(u)' # {m}
      <4>1. failed = {} /\ (\A q \in Ranks : pc[q] = "repair") /\ done = Ranks
        BY <1>2, <2>1, <3>1, <3>4
      <4>2. u \in Kept(timestamp[r]) /\ (u = t \/ u \notin todo[r])
        BY <1>2, <2>1, <4>1
      <4>3. CASE Sole(t) /\ u = t
        BY <2>2, <4>1, <4>3 DEF Missing
      <4>4. CASE ~Sole(t) /\ u = t
        <5>1. Missing(t)' = Missing(t)
          BY <2>1, <4>4 DEF Missing
        <5>2. Missing(t) # {m}
          BY <4>1, <4>4, FS_Singleton DEF Sole
        <5>3. QED
          BY <4>4, <5>1, <5>2
      <4>5. CASE u # t
        <5>1. Missing(u)' = Missing(u)
          BY <2>2, <4>5 DEF Missing
        <5>2. Missing(u) # {m}
          BY <4>1, <4>2, <4>5 DEF Common, Mending
        <5>3. QED
          BY <5>1, <5>2
      <4>6. QED
        BY <4>3, <4>4, <4>5
    <3>5. \A r, q \in Ranks : (pc'[r] = "repair" /\ pc'[q] = "repair") => timestamp'[r] = timestamp'[q]
      BY <1>2, <3>1 DEF Common, Mending
    <3>6. QED
      BY <3>3, <3>4, <3>5 DEF Mending
  <2>7. Survived'
    BY <1>2, <1>4, <2>1, <2>3 DEF Common, Survived, Work
  <2>8. Remembered'
    <3>1. \A r \in Ranks : DOMAIN committed[r] \subseteq DOMAIN committed'[r]
      BY <2>2
    <3>2. QED
      BY <1>2, <3>1 DEF Common, Remembered, Gone
  <2>9. Level'
    BY <1>4, <2>3, RingFacts DEF Level, Work
  <2>10. QED
    BY <2>4, <2>5, <2>6, <2>7, <2>8, <2>9 DEF Common
<1>7. QED
  BY <1>2, <1>5, <1>6

LEMMA RebuildCommon ==
  ASSUME Steady, Common, Rebuild
  PROVE  Common'
<1>1. Typed /\ Depth \in Nat /\ Ranks # {}
  BY RingFacts DEF Steady
<1>2. /\ failed' = {} /\ lost' = lost \cup failed /\ fatal' = (fatal \/ Cardinality(lost \cup failed) > 1)
      /\ \A r \in Ranks : pc'[r] = "init" /\ todo'[r] = {}
      /\ \A r \in failed : timestamps'[r] = {} /\ timestamp'[r] = -1
      /\ \A r \in Ranks \ failed : /\ timestamps'[r] = timestamps[r] /\ timestamp'[r] = timestamp[r]
                                   /\ member'[r] = member[r] /\ committed'[r] = committed[r]
      /\ \A r \in Ranks : \A t \in DOMAIN truth'[r] :
           t \in DOMAIN truth[r] /\ \E q \in Ranks \ failed : t \in DOMAIN committed[q]
  BY <1>1, RebuildEffects
<1>3. Orderly'
  BY <1>1, <1>2 DEF Orderly, Restore
<1>4. Dated'
  <2>1. Kept(-1) = {}
    BY KeptFacts
  <2>2. QED
    BY <1>2, <2>1 DEF Common, Dated
<1>5. Mending'
  BY <1>1, <1>2 DEF Mending
<1>6. ~fatal' => ~fatal /\ \A p, q \in lost \cup failed : p = q
  <2>1. SUFFICES ASSUME ~fatal', NEW p \in lost \cup failed, NEW q \in lost \cup failed, p # q PROVE FALSE
    BY <1>2
  <2>2. IsFiniteSet(lost \cup failed)
    <3>1. lost \cup failed \in SUBSET Ranks
      BY <1>1 DEF Typed
    <3>2. IsFiniteSet(Ranks)
      BY RingFacts
    <3>3. QED
      BY <3>1, <3>2, FS_Subset
  <2>3. PICK k \in Nat : k = Cardinality(lost \cup failed)
    BY <2>2, FS_CardinalityType
  <2>4. ~(Cardinality(lost \cup failed) > 1)
    BY <1>2, <2>1
  <2>5. k = 0 \/ k = 1
    BY <2>3, <2>4
  <2>6. CASE k = 0
    BY <2>1, <2>2, <2>3, <2>6, FS_EmptySet
  <2>7. CASE k = 1
    <3>1. PICK x : lost \cup failed = {x}
      BY <2>2, <2>3, <2>7, FS_Singleton
    <3>2. QED
      BY <2>1, <3>1
  <2>8. QED
    BY <2>5, <2>6, <2>7
<1>7. Survived'
  BY <1>1, <1>2, <1>6 DEF Common, Survived, Work
<1>8. Remembered'
  <2>1. SUFFICES ASSUME ~fatal'
                 PROVE  /\ \A r \in Ranks \ lost' : \A t \in DOMAIN truth'[r] :
                             /\ t <= timestamp'[r]
                             /\ t \in DOMAIN committed'[r] \/ t < timestamp'[r] - Depth \/ \E q \in Ranks : Gone(t, q)'
                        /\ \A r \in lost' : \A t \in DOMAIN truth'[r] : \E q \in Ranks \ lost' : t <= timestamp'[q]
    BY DEF Remembered
  <2>2. ~fatal
    BY <1>6, <2>1
  <2>3. ASSUME NEW q \in Ranks, NEW t, Gone(t, q) PROVE Gone(t, q)'
    <3>1. t \notin DOMAIN truth'[q]
      BY <1>2, <2>3 DEF Gone
    <3>2. q \in lost' \/ t <= timestamp'[q]
      BY <1>2, <2>3 DEF Gone
    <3>3. QED
      BY <3>1, <3>2 DEF Gone
  <2>4. ASSUME NEW r \in Ranks \ lost', NEW t \in DOMAIN truth'[r]
        PROVE  /\ t <= timestamp'[r]
               /\ t \in DOMAIN committed'[r] \/ t < timestamp'[r] - Depth \/ \E q \in Ranks : Gone(t, q)'
    <3>1. r \in Ranks \ lost /\ r \notin failed /\ t \in DOMAIN truth[r]
      BY <1>2
    <3>2. /\ t <= timestamp[r]
          /\ t \in DOMAIN committed[r] \/ t < timestamp[r] - Depth \/ \E q \in Ranks : Gone(t, q)
      BY <2>2, <3>1 DEF Common, Remembered
    <3>3. timestamp'[r] = timestamp[r] /\ committed'[r] = committed[r]
      BY <1>2, <3>1
    <3>4. (\E q \in Ranks : Gone(t, q)) => \E q \in Ranks : Gone(t, q)'
      BY <2>3
    <3>5. QED
      BY <3>2, <3>3, <3>4
  <2>5. ASSUME NEW r \in lost', NEW t \in DOMAIN truth'[r] PROVE \E q \in Ranks \ lost' : t <= timestamp'[q]
    <3>1. r \in Ranks /\ t \in DOMAIN truth[r] /\ lost \in SUBSET Ranks /\ failed \in SUBSET Ranks
      BY <1>1, <1>2 DEF Typed
    <3>2. PICK q \in Ranks \ failed : t \in DOMAIN committed[q]
      BY <1>2, <3>1
    <3>3. CASE q \notin lost
      <4>1. t <= timestamp[q]
        BY <3>2 DEF Steady, Pooled
      <4>2. QED
        BY <1>2, <3>3, <4>1
    <3>4. CASE q \in lost
      <4>1. r = q /\ r \in lost
        BY <1>2, <1>6, <2>1, <3>4
      <4>2. PICK p \in Ranks \ lost : t <= timestamp[p]
        BY <2>2, <3>1, <4>1 DEF Common, Remembered
      <4>3. p \notin failed
        BY <1>6, <2>1, <3>4, <4>2
      <4>4. QED
        BY <1>2, <4>2, <4>3
    <3>5. QED
      BY <3>3, <3>4
  <2>6. QED
    BY <2>4, <2>5
<1>9. Level'
  BY <1>1, <1>2 DEF Level, Work
<1>10. QED
  BY <1>3, <1>4, <1>5, <1>7, <1>8, <1>9 DEF Common

LEMMA RepairDoneCommon ==
  ASSUME Steady, Common, RepairDone
  PROVE  Common'
<1>1. Typed /\ Depth \in Nat /\ Ranks # {}
  BY RingFacts DEF Steady
<1>2. /\ ~broken /\ \A r \in Ranks : pc[r] = "repair" /\ (todo[r] = {} \/ ~\E q \in Ranks : member[q])
      /\ \A r \in Ranks : pc'[r] = "app" /\ member'[r] /\ todo'[r] = {}
      /\ lost' = {}
      /\ UNCHANGED <<timestamps, timestamp, committed, failed, broken, fatal, truth>>
  BY DEF RepairDone, groupVars, faultVars
<1>3. failed = {}
  BY <1>2 DEF Common, Orderly
<1>4. PICK M \in Nat \cup {-1} : M \in Int /\ \A r \in Ranks : timestamp[r] = M
  <2>1. PICK x \in Ranks : TRUE
    BY <1>1
  <2>2. timestamp[x] \in Nat \cup {-1}
    BY <1>1 DEF Typed
  <2>3. \A n \in Nat \cup {-1} : n \in Int
    OBVIOUS
  <2>4. \A r \in Ranks : timestamp[r] = timestamp[x]
    BY <1>2 DEF Common, Mending
  <2>5. QED
    BY <2>2, <2>3, <2>4
<1>5. \A r \in Ranks : DOMAIN committed[r] \subseteq Kept(M)
  BY <1>2, <1>4 DEF Common, Mending
<1>6. ASSUME ~fatal, NEW t \in Kept(M), NEW r \in Ranks, t \notin DOMAIN committed[r]
      PROVE  \E q \in Ranks : q # r /\ t \notin DOMAIN committed[q]
  <2>1. (\A p, q \in lost : p = q) /\ \A q \in Ranks \ lost : member[q]
    BY <1>6 DEF Common, Survived
  <2>2. \E q \in Ranks : member[q]
    <3>1. PICK x \in Ranks, y \in Ranks : x # y
      BY RingFacts
    <3>2. QED
      BY <2>1, <3>1
  <2>3. Missing(t) # {r} /\ r \in Missing(t)
    BY <1>2, <1>3, <1>4, <1>6, <2>2 DEF Common, Mending, Missing
  <2>4. QED
    BY <2>3 DEF Missing
<1>7. Orderly'
  BY <1>1, <1>2, <1>3 DEF Orderly, Work
<1>8. Dated'
  BY <1>2 DEF Common, Dated
<1>9. Mending'
  BY <1>1, <1>2 DEF Mending
<1>10. Survived'
  BY <1>2 DEF Survived
<1>11. Remembered'
  <2>1. SUFFICES ASSUME ~fatal, NEW r \in Ranks, NEW t \in DOMAIN truth[r]
                 PROVE  /\ t <= timestamp'[r]
                        /\ t \in DOMAIN committed'[r] \/ t < timestamp'[r] - Depth \/ \E q \in Ranks : Gone(t, q)'
    BY <1>2 DEF Remembered
  <2>2. t \in Nat
    <3>1. PICK T \in Truths : T = truth[r]
      BY <1>1 DEF Typed
    <3>2. DOMAIN T \in SUBSET Nat
      BY DEF Truths
    <3>3. QED
      BY <3>1, <3>2
  <2>3. t <= M
    <3>1. CASE r \in lost
      <4>1. \E q \in Ranks \ lost : t <= timestamp[q]
        BY <2>1, <3>1 DEF Common, Remembered
      <4>2. QED
        BY <1>4, <4>1
    <3>2. CASE r \notin lost
      BY <1>4, <2>1, <3>2 DEF Common, Remembered
    <3>3. QED
      BY <3>1, <3>2
  <2>4. ASSUME t \notin DOMAIN committed[r], ~(t < M - Depth), \A q \in Ranks : t \in DOMAIN truth[q]
        PROVE  FALSE
    <3>1. t \in Kept(M)
      BY <1>1, <1>4, <2>2, <2>3, <2>4 DEF Kept
    <3>2. PICK q \in Ranks : q # r /\ t \notin DOMAIN committed[q]
      BY <1>6, <2>1, <2>4, <3>1
    <3>3. PICK s \in Ranks \ lost : t \notin DOMAIN committed[s]
      BY <2>1, <2>4, <3>2 DEF Common, Survived
    <3>4. \E p \in Ranks : Gone(t, p)
      BY <1>4, <2>1, <2>4, <3>3 DEF Common, Remembered
    <3>5. QED
      BY <2>4, <3>4 DEF Gone
  <2>5. (\E q \in Ranks : t \notin DOMAIN truth[q]) => \E q \in Ranks : Gone(t, q)'
    BY <1>2, <1>4, <2>3 DEF Gone
  <2>6. t <= timestamp'[r] /\ timestamp'[r] = M /\ committed'[r] = committed[r]
    BY <1>2, <1>4, <2>3
  <2>7. t \in DOMAIN committed[r] \/ t < M - Depth \/ \E q \in Ranks : Gone(t, q)'
    BY <2>4, <2>5
  <2>8. QED
    BY <2>6, <2>7
<1>12. Level'
  <2>1. SUFFICES ASSUME N = 2, ~fatal PROVE \E b \in Int : \E C \in SUBSET Nat : LevelFrom(b, C)'
    BY <1>2 DEF Level
  <2>2. Ranks = {0, 1}
    BY <2>1 DEF Ranks
  <2>3. DOMAIN committed[0] = DOMAIN committed[1]
    BY <1>5, <1>6, <2>1, <2>2
  <2>4. DOMAIN committed[0] \in SUBSET Nat
    <3>1. Kept(M) \in SUBSET Nat
      BY KeptFacts
    <3>2. QED
      BY <1>5, <2>2, <3>1
  <2>5. PICK C \in SUBSET Nat : C = DOMAIN committed[0]
    BY <2>4
  <2>6. LevelFrom(M, C)'
    BY <1>2, <1>4, <2>2, <2>3, <2>5 DEF LevelFrom
  <2>7. QED
    BY <1>4, <2>6
<1>13. QED
  BY <1>7, <1>8, <1>9, <1>10, <1>11, <1>12 DEF Common

LEMMA InitCommon ==
  ASSUME Init
  PROVE  Common
<1>1. Ranks # {} /\ Ranks \subseteq Nat
  BY RingFacts
<1>2. \A r \in Ranks : /\ pc[r] = "app" /\ timestamps[r] = {} /\ timestamp[r] = -1 /\ member[r]
                       /\ committed[r] = << >> /\ truth[r] = << >>
  BY DEF Init
<1>3. failed = {} /\ ~broken /\ lost = {} /\ ~fatal
  BY DEF Init
<1>4. Kept(-1) = {} /\ DOMAIN << >> = {}
  BY KeptFacts, StoreFields
<1>5. Orderly
  BY <1>2, <1>3 DEF Orderly, Work
<1>6. Dated
  BY <1>2, <1>4 DEF Dated
<1>7. Mending
  BY <1>1, <1>2 DEF Mending
<1>8. Survived
  BY <1>2, <1>3 DEF Survived
<1>9. Remembered
  BY <1>2, <1>3, <1>4 DEF Remembered
<1>10. Level
  <2>1. PICK C \in SUBSET Nat : C = {}
    OBVIOUS
  <2>2. LevelFrom(-1, C)
    BY <1>2, <1>4, <2>1 DEF LevelFrom
  <2>3. -1 \in Int
    OBVIOUS
  <2>4. QED
    BY <2>2, <2>3 DEF Level
<1>11. QED
  BY <1>5, <1>6, <1>7, <1>8, <1>9, <1>10 DEF Common

LEMMA StepCommon ==
  ASSUME Steady, Common, [Next]_vars
  PROVE  Common'
<1>1. ASSUME NEW r \in Ranks, StoreBegin(r) PROVE Common'
  BY <1>1, StoreBeginCommon
<1>2. ASSUME NEW r \in Ranks, StoreEnd(r) PROVE Common'
  BY <1>2, StoreEndCommon
<1>3. ASSUME NEW r \in Ranks, Commit(r) PROVE Common'
  <2>1. {r} \in SUBSET Ranks /\ CommitOn({r}) /\ \A q \in {r} : pc[q] = "stored"
    BY <1>3 DEF Commit
  <2>2. QED
    BY <2>1, CommitCommon
<1>4. CASE CommitBarrier
  <2>1. Ranks \ failed \in SUBSET Ranks /\ CommitOn(Ranks \ failed) /\ \A q \in Ranks \ failed : pc[q] = "stored"
    BY <1>4 DEF CommitBarrier
  <2>2. QED
    BY <2>1, CommitCommon
<1>5. CASE (\E r \in Ranks : Fail(r) \/ Notice(r)) \/ FailElsewhere \/ UNCHANGED vars
  BY <1>5, FailCommon
<1>6. CASE Finished
  BY <1>6, FailCommon DEF Finished
<1>7. CASE Rebuild
  BY <1>7, RebuildCommon
<1>8. CASE ExchangeSubsets
  BY <1>8, ExchangeCommon
<1>9. CASE SyncTimestamps
  BY <1>9, SyncCommon
<1>10. CASE RepairSnapshot
  BY <1>10, RepairCommon
<1>11. CASE RepairDone
  BY <1>11, RepairDoneCommon
<1>12. QED
  BY <1>1, <1>2, <1>3, <1>4, <1>5, <1>6, <1>7, <1>8, <1>9, <1>10, <1>11 DEF Next

LEMMA AlwaysCommon == Spec => [](Steady /\ Common)
<1>1. QED
  BY InitSteady, StepSteady, InitCommon, StepCommon, PTL DEF Spec

(***************************************************************************)
(* With commit as with commit_barrier, whatever the application stores and  *)
(* however a failure cuts the commits and the repairs: a snapshot that all  *)
(* ranks have committed is still there on every rank that is back in the    *)
(* application, until it is older than Depth or two ranks have been lost    *)
(* between two completed repairs.                                           *)
(***************************************************************************)
THEOREM CommonAlwaysRetained == Spec => []CommonRetained
<1>1. Steady /\ Common => CommonRetained
  <2>1. ASSUME Steady, Common, ~fatal, NEW r \in Ranks, Settled(r), NEW t \in 0 .. MaxTime,
               t >= timestamp[r] - Depth, \A q \in Ranks : t \in DOMAIN truth[q], t \notin DOMAIN committed[r]
        PROVE  FALSE
    <3>1. r \in Ranks \ lost
      BY <2>1 DEF Settled, Work, Common, Survived
    <3>2. t < timestamp[r] - Depth \/ \E q \in Ranks : Gone(t, q)
      BY <2>1, <3>1 DEF Common, Remembered
    <3>3. ~\E q \in Ranks : Gone(t, q)
      BY <2>1 DEF Gone
    <3>4. timestamp[r] \in Nat \cup {-1} /\ Depth \in Nat
      BY <2>1, RingFacts DEF Steady, Typed
    <3>5. PICK n \in Int, d \in Nat : n = timestamp[r] /\ d = Depth
      BY <3>4
    <3>6. t \in Int /\ t >= n - d /\ t < n - d
      BY <2>1, <3>2, <3>3, <3>5
    <3>7. QED
      BY <3>5, <3>6
  <2>2. QED
    BY <2>1 DEF CommonRetained
<1>2. QED
  BY <1>1, AlwaysCommon, PTL

LEMMA NewestIn ==
  ASSUME NEW n \in Nat, NEW D, n \in D, D \subseteq 0 .. n
  PROVE  Max(D \cup {-1}) = n
<1>1. PICK S : S = D \cup {-1}
  OBVIOUS
<1>2. S \subseteq Int /\ n \in S /\ \A x \in S : x <= n
  BY <1>1
<1>3. IsFiniteSet(S)
  <2>1. -1 \in Int /\ n \in Int
    OBVIOUS
  <2>2. IsFiniteSet(-1 .. n)
    BY <2>1, FS_Interval
  <2>3. S \in SUBSET (-1 .. n)
    BY <1>1, <1>2
  <2>4. QED
    BY <2>2, <2>3, FS_Subset
<1>4. Max(S) \in S /\ \A x \in S : x <= Max(S)
  BY <1>2, <1>3, MaxOf
<1>5. PICK v \in Int : v = Max(S)
  BY <1>2, <1>4
<1>6. v = n
  BY <1>2, <1>4, <1>5
<1>7. QED
  BY <1>1, <1>5, <1>6

(***************************************************************************)
(* Two buddies that are back in the application at the same timestamp would *)
(* restore from the same newest snapshot, also with the local commit, which *)
(* a failure can find done on one of them only.                             *)
(***************************************************************************)
THEOREM LatestAlwaysAgrees ==
  ASSUME N = 2
  PROVE  Spec => []LatestAgrees
<1>1. Steady /\ Common => LatestAgrees
  <2>1. ASSUME Steady, Common, NEW r \in Ranks, NEW q \in Ranks, Settled(r), ~fatal, timestamp[r] = timestamp[q]
        PROVE  Max(DOMAIN committed[r] \cup {-1}) = Max(DOMAIN committed[q] \cup {-1})
    <3>1. ~broken /\ pc[r] = "app"
      BY <2>1 DEF Settled
    <3>2. \A p \in Ranks : pc[p] \in Work
      BY <2>1, <3>1 DEF Common, Orderly, Work, Restore
    <3>3. PICK b \in Int, C \in SUBSET Nat : LevelFrom(b, C)
      BY <2>1, <3>1, <3>2 DEF Common, Level
    <3>4. CASE timestamp[r] = b
      BY <2>1, <3>3, <3>4 DEF LevelFrom
    <3>5. CASE timestamp[r] # b
      <4>1. timestamp[r] \in DOMAIN committed[r] /\ timestamp[q] \in DOMAIN committed[q]
        BY <2>1, <3>3, <3>5 DEF LevelFrom
      <4>2. DOMAIN committed[r] \subseteq 0 .. timestamp[r] /\ DOMAIN committed[q] \subseteq 0 .. timestamp[q]
        BY <2>1 DEF Steady, Pooled
      <4>3. PICK n \in Nat : n = timestamp[r]
        BY <4>1, <4>2
      <4>4. n = timestamp[q]
        BY <2>1, <4>3
      <4>5. Max(DOMAIN committed[r] \cup {-1}) = n
        BY <4>1, <4>2, <4>3, NewestIn
      <4>6. Max(DOMAIN committed[q] \cup {-1}) = n
        BY <4>1, <4>2, <4>4, NewestIn
      <4>7. QED
        BY <4>5, <4>6
    <3>6. QED
      BY <3>4, <3>5
  <2>2. QED
    BY <2>1 DEF LatestAgrees
<1>2. QED
  BY <1>1, AlwaysCommon, PTL
=============================================================================
