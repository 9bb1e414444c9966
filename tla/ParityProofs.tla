----------------------------- MODULE ParityProofs -----------------------------
(***************************************************************************)
(* The parity of a cohort of any size, over stored subsets of any sizes,    *)
(* rebuilds the bytes and the parity of a lost rank exactly, however often  *)
(* ranks fail and repairs are interrupted, if the bytes divide evenly among *)
(* the partners; and no chunk ever overruns a buffer by more than a byte.   *)
(***************************************************************************)
EXTENDS ParityIMR, FiniteSetTheorems, TLAPS

Byte == SUBSET (Ranks \X Int \X Int)

Each(bytes)  == bytes \div (N - 1)
Extra(bytes) == IF bytes % (N - 1) = 0 THEN 0 ELSE (bytes % (N - 1)) + 1
Smaller(a, b) == IF a < b THEN a ELSE b

\* The turns before turn t of the loop in which rank r gives data.
Turns(t, r) == IF r < t THEN t - 1 ELSE t

\* Where its chunk begins in turn t, when the chunks are of one length.
Chunk(bytes, t, r) == Each(bytes) * Turns(t, r)

(***************************************************************************)
(* The bytes that rank r has given before turn t, if none was given twice;  *)
(* where it is in its buffer: a chunk that overruns ends with the buffer.   *)
(***************************************************************************)
Passed(bytes, t, r) == Chunk(bytes, t, r) + Turns(Smaller(t, Extra(bytes)), r)
Position(size, bytes, t, r) == Smaller(size, Passed(bytes, t, r))

Sized(s, r, bytes) ==
  /\ s \in [size : Nat, data : [0 .. s.size - 1 -> Byte], parity : [0 .. ParityBytes(bytes)[r] - 1 -> Byte]]
  /\ s.size >= bytes

Divides(bytes) == bytes % (N - 1) = 0

\* The bytes that are reduced in turn t, when the chunks are of one length.
Row(snaps, bytes, t, k) ==
  [q \in Ranks |-> IF q = t THEN snaps[q].parity[k] ELSE snaps[q].data[Chunk(bytes, t, q) + k]]

Balanced(snaps, bytes, t) == \A k \in 0 .. Each(bytes) - 1 : Xor(Row(snaps, bytes, t, k)) = {}

Typed ==
  /\ phase \in {"app", "protect", "stored", "repair"}
  /\ root \in Ranks /\ commits \in Nat /\ held \subseteq Ranks

\* iprotect: the turns that are done have balanced the stage, the others have zeros.
Progress == IF phase = "stored" THEN N ELSE root

Storing ==
  phase \in {"protect", "stored"} =>
    LET bytes == StoreBytes(commits) IN
    /\ stage = [r \in Ranks |-> stage[r]]
    /\ \A r \in Ranks : Sized(stage[r], r, bytes)
    /\ phase = "protect" =>
         offset = [r \in Ranks |-> Position(stage[r].size, bytes, root, r)]
    /\ Divides(bytes) =>
         /\ \A t \in Ranks : t < Progress => Balanced(stage, bytes, t)
         /\ \A t \in Ranks : t >= Progress => stage[t].parity = Zeros(ParityBytes(bytes)[t])

\* What was committed is balanced.
Secured ==
  /\ held # {} => commits > 0
  /\ commits > 0 =>
       /\ \A r \in Ranks : Sized(truth[r], r, SnapBytes)
       /\ Divides(SnapBytes) => \A t \in Ranks : Balanced(truth, SnapBytes, t)

\* Who has a snapshot has it as it was committed.
Holding ==
  \A r \in held :
    /\ Sized(snap[r], r, SnapBytes)
    /\ Divides(SnapBytes) =>
         /\ \A k \in 0 .. SnapBytes - 1 : snap[r].data[k] = truth[r].data[k]
         /\ snap[r].parity = truth[r].parity

\* repair: the recovering rank has its bytes back up to its position, and zeros after it.
Rebuilding ==
  phase = "repair" =>
    \E x \in Ranks :
      /\ held = Ranks \ {x}
      /\ snap = [r \in Ranks |-> snap[r]]
      /\ Sized(snap[x], x, SnapBytes) /\ snap[x].size = SnapBytes
      /\ offset = [r \in Ranks |-> Position(snap[r].size, SnapBytes, root, r)]
      /\ Divides(SnapBytes) =>
           /\ \A k \in 0 .. SnapBytes - 1 :
                snap[x].data[k] = IF k < Chunk(SnapBytes, root, x) THEN truth[x].data[k] ELSE {}
           /\ snap[x].parity = IF x < root THEN truth[x].parity ELSE Zeros(ParityBytes(SnapBytes)[x])

PInv == Typed /\ Storing /\ Secured /\ Holding /\ Rebuilding

-----------------------------------------------------------------------------
LEMMA Division ==
  ASSUME NEW a \in Nat, NEW b \in Nat, b > 0
  PROVE  /\ a \div b \in Nat /\ a % b \in 0 .. b - 1
         /\ a = b * (a \div b) + (a % b)
<1>1. a \div b \in Nat
  OBVIOUS
<1>2. a % b \in 0 .. b - 1
  OBVIOUS
<1>3. a = b * (a \div b) + (a % b)
  BY SMT
<1>4. QED
  BY <1>1, <1>2, <1>3

LEMMA Products ==
  ASSUME NEW q \in Nat, NEW m \in Nat, NEW n \in Nat, m <= n
  PROVE  q * m \in Nat /\ q * m <= q * n /\ q * (m + 1) = q * m + q
OBVIOUS

-----------------------------------------------------------------------------
(* The arithmetic of the chunks *)

LEMMA ChunkFacts ==
  ASSUME NEW bytes \in Nat
  PROVE  /\ N - 1 \in Nat /\ N - 1 >= 2
         /\ Each(bytes) \in Nat /\ Extra(bytes) \in 0 .. N - 1
         /\ bytes = Each(bytes) * (N - 1) + (bytes % (N - 1))
         /\ Divides(bytes) => Extra(bytes) = 0 /\ bytes = Each(bytes) * (N - 1)
         /\ ~Divides(bytes) => bytes + 1 = Each(bytes) * (N - 1) + Extra(bytes)
         /\ \A t \in Ranks : /\ ParityBytes(bytes)[t] \in Nat
                             /\ ParityBytes(bytes)[t] = Each(bytes) + IF t < Extra(bytes) THEN 1 ELSE 0
<1> USE ParityAssumption
<1>1. N - 1 \in Nat /\ N - 1 >= 2
  OBVIOUS
<1>2. PICK n \in Nat : n = N - 1 /\ n > 0
  BY <1>1
<1>3. /\ bytes \div n \in Nat /\ bytes % n \in 0 .. n - 1
      /\ bytes = n * (bytes \div n) + (bytes % n)
  BY <1>2, Division
<1>4. PICK e \in Nat : e = bytes \div n
  BY <1>3
<1>5. e = Each(bytes) /\ n * e = e * n
  BY <1>2, <1>4 DEF Each
<1>6. Extra(bytes) \in 0 .. N - 1
  BY <1>2, <1>3 DEF Extra
<1>7. bytes = e * n + (bytes % n)
  BY <1>3, <1>4, <1>5
<1>8. PICK p \in Int : p = e * n
  BY <1>2
<1>9. Divides(bytes) => Extra(bytes) = 0 /\ bytes = p
  BY <1>2, <1>7, <1>8 DEF Divides, Extra
<1>10. ~Divides(bytes) => bytes + 1 = p + Extra(bytes)
  BY <1>2, <1>3, <1>7, <1>8 DEF Divides, Extra
<1>11. \A t \in Ranks : /\ ParityBytes(bytes)[t] \in Nat
                        /\ ParityBytes(bytes)[t] = Each(bytes) + IF t < Extra(bytes) THEN 1 ELSE 0
  BY <1>3, <1>4, <1>5, <1>2 DEF ParityBytes, Extra, Each
<1>12. QED
  BY <1>1, <1>2, <1>4, <1>5, <1>6, <1>7, <1>8, <1>9, <1>10, <1>11

\* What a rank has given grows by the chunk of the turn, except in its own turn.
LEMMA PassedFacts ==
  ASSUME NEW bytes \in Nat, NEW r \in Ranks
  PROVE  /\ Passed(bytes, 0, r) = 0
         /\ \A t \in Ranks : Passed(bytes, t + 1, r) =
                               IF r = t THEN Passed(bytes, t, r)
                               ELSE Passed(bytes, t, r) + ParityBytes(bytes)[t]
         /\ \A t \in 0 .. N : Passed(bytes, t, r) \in 0 .. bytes + 1
         /\ Divides(bytes) => /\ \A t \in 0 .. N : /\ Passed(bytes, t, r) = Chunk(bytes, t, r)
                                                   /\ Passed(bytes, t, r) <= bytes
                              /\ Passed(bytes, N, r) = bytes
<1> USE ParityAssumption
<1>1. PICK e \in Nat : e = Each(bytes)
  BY ChunkFacts
<1>2. PICK x \in 0 .. N - 1 : x = Extra(bytes)
  BY ChunkFacts
<1>3. /\ N \in Nat /\ N >= 3 /\ r \in 0 .. N - 1
  BY DEF Ranks
<1>4. \A t \in 0 .. N : Turns(t, r) \in 0 .. N - 1 /\ Turns(Smaller(t, x), r) \in 0 .. x
  BY <1>3 DEF Turns, Smaller
<1>5. Passed(bytes, 0, r) = 0
  BY <1>1, <1>2, <1>3 DEF Passed, Chunk, Turns, Smaller
<1>6. ASSUME NEW t \in Ranks
      PROVE  Passed(bytes, t + 1, r) = IF r = t THEN Passed(bytes, t, r)
                                       ELSE Passed(bytes, t, r) + ParityBytes(bytes)[t]
  <2>1. t \in 0 .. N - 1 /\ t + 1 \in 0 .. N
    BY <1>3 DEF Ranks
  <2>2. Turns(t + 1, r) = IF r = t THEN Turns(t, r) ELSE Turns(t, r) + 1
    BY <1>3, <2>1 DEF Turns
  <2>3. Turns(Smaller(t + 1, x), r) = Turns(Smaller(t, x), r) + IF r # t /\ t < x THEN 1 ELSE 0
    BY <1>3, <2>1 DEF Turns, Smaller
  <2>4. PICK u \in Nat : u = Turns(t, r)
    BY <1>4, <2>1
  <2>5. PICK p \in Int : p = e * u
    BY <1>1
  <2>6. e * (u + 1) = p + e
    BY <2>5
  <2>7. ParityBytes(bytes)[t] = e + IF t < x THEN 1 ELSE 0
    BY <1>1, <1>2, ChunkFacts
  <2>8. PICK v \in Nat : v = Turns(Smaller(t, x), r)
    BY <1>4, <2>1
  <2>9. Passed(bytes, t, r) = p + v
    BY <1>1, <1>2, <2>4, <2>5, <2>8 DEF Passed, Chunk
  <2>10. Passed(bytes, t + 1, r) = (IF r = t THEN p ELSE p + e) + (v + IF r # t /\ t < x THEN 1 ELSE 0)
    BY <1>1, <1>2, <2>2, <2>3, <2>4, <2>5, <2>6, <2>8 DEF Passed, Chunk
  <2>11. QED
    BY <1>1, <2>7, <2>9, <2>10
<1>7. ASSUME NEW t \in 0 .. N
      PROVE  Passed(bytes, t, r) \in 0 .. bytes + 1
  <2>1. PICK u \in 0 .. N - 1 : u = Turns(t, r)
    BY <1>4
  <2>2. u \in Nat /\ N - 1 \in Nat /\ u <= N - 1
    BY <1>3, <2>1
  <2>3. e * u \in Nat /\ e * u <= e * (N - 1)
    BY <2>2, Products
  <2>4. PICK v \in 0 .. x : v = Turns(Smaller(t, x), r)
    BY <1>4
  <2>5. Passed(bytes, t, r) = e * u + v
    BY <1>1, <1>2, <2>1, <2>4 DEF Passed, Chunk
  <2>6. PICK p \in Int, o \in Int : p = e * u /\ o = e * (N - 1)
    BY <1>3, <2>1
  <2>7. o + x <= bytes + 1
    <3>1. Divides(bytes) => x = 0 /\ bytes = o
      BY <1>1, <1>2, <2>6, ChunkFacts
    <3>2. ~Divides(bytes) => bytes + 1 = o + x
      BY <1>1, <1>2, <2>6, ChunkFacts
    <3>3. QED
      BY <3>1, <3>2
  <2>8. QED
    <3>1. p \in Nat /\ p <= o /\ Passed(bytes, t, r) = p + v
      BY <2>3, <2>5, <2>6
    <3>2. QED
      BY <2>4, <2>7, <3>1
<1>8. ASSUME Divides(bytes)
      PROVE  /\ \A t \in 0 .. N : /\ Passed(bytes, t, r) = Chunk(bytes, t, r)
                                  /\ Passed(bytes, t, r) <= bytes
             /\ Passed(bytes, N, r) = bytes
  <2>1. x = 0 /\ bytes = e * (N - 1)
    BY <1>1, <1>2, <1>8, ChunkFacts
  <2>2. ASSUME NEW t \in 0 .. N
        PROVE  Passed(bytes, t, r) = e * Turns(t, r) /\ Passed(bytes, t, r) <= bytes
    <3>1. PICK u \in 0 .. N - 1 : u = Turns(t, r)
      BY <1>4
    <3>2. u \in Nat /\ N - 1 \in Nat /\ u <= N - 1
      BY <1>3, <3>1
    <3>3. e * u \in Nat /\ e * u <= e * (N - 1)
      BY <3>2, Products
    <3>4. Turns(Smaller(t, x), r) = 0
      BY <1>3, <2>1 DEF Turns, Smaller
    <3>5. QED
      BY SMTT(30), <1>1, <1>2, <2>1, <3>1, <3>3, <3>4 DEF Passed, Chunk
  <2>3. Turns(N, r) = N - 1
    BY <1>3 DEF Turns
  <2>4. QED
    BY <1>1, <1>3, <2>1, <2>2, <2>3 DEF Chunk
<1>9. QED
  BY <1>5, <1>6, <1>7, <1>8

\* A chunk overruns by one byte at most, and then moves back by exactly that.
Advances(size, bytes, t, r) ==
  LET len == ParityBytes(bytes)[t]
      at  == Position(size, bytes, t, r)
  IN  /\ at \in 0 .. size /\ Position(size, bytes, 0, r) = 0
      /\ (r # t /\ at + len > size) => at + len = size + 1
      /\ Position(size, bytes, t + 1, r) =
           IF r = t THEN at ELSE (IF at + len > size THEN at - 1 ELSE at) + len
      /\ Divides(bytes) => at = Chunk(bytes, t, r) /\ len = Each(bytes) /\ (r # t => at + len <= bytes)

LEMMA PositionFacts ==
  ASSUME NEW bytes \in Nat, NEW size \in Nat, size >= bytes, NEW r \in Ranks, NEW t \in Ranks
  PROVE  Advances(size, bytes, t, r)
<1> USE ParityAssumption
<1> DEFINE len == ParityBytes(bytes)[t]
<1>1. t \in 0 .. N /\ t + 1 \in 0 .. N
  BY DEF Ranks
<1>2. PICK p \in 0 .. bytes + 1 : p = Passed(bytes, t, r)
  BY <1>1, PassedFacts
<1>3. PICK s \in 0 .. bytes + 1 : s = Passed(bytes, t + 1, r)
  BY <1>1, PassedFacts
<1>4. s = IF r = t THEN p ELSE p + len
  <2>1. Passed(bytes, t + 1, r) = IF r = t THEN Passed(bytes, t, r) ELSE Passed(bytes, t, r) + len
    BY PassedFacts
  <2>2. QED
    BY <1>2, <1>3, <2>1
<1>5. PICK l \in Nat : l = len
  BY ChunkFacts
<1>6. Position(size, bytes, t, r) = Smaller(size, p) /\ Position(size, bytes, t + 1, r) = Smaller(size, s)
  BY <1>2, <1>3 DEF Position
<1>7. Position(size, bytes, 0, r) = 0
  BY PassedFacts DEF Position, Smaller
<1>8. ASSUME Divides(bytes)
      PROVE  p = Chunk(bytes, t, r) /\ p <= bytes /\ len = Each(bytes) /\ s <= bytes
  <2>1. Extra(bytes) = 0 /\ Each(bytes) \in Nat
    BY <1>8, ChunkFacts
  <2>2. len = Each(bytes) + IF t < Extra(bytes) THEN 1 ELSE 0
    BY ChunkFacts
  <2>3. len = Each(bytes)
    BY <1>1, <2>1, <2>2
  <2>4. QED
    BY <1>1, <1>2, <1>3, <1>8, <2>3, PassedFacts
<1> HIDE DEF len
<1>9. PICK at : at = Position(size, bytes, t, r)
  OBVIOUS
<1>10. at = Smaller(size, p)
  BY <1>6, <1>9
<1>11. (r # t /\ at + len > size) => at + len = size + 1
  BY <1>4, <1>5, <1>10 DEF Smaller
<1>12. Position(size, bytes, t + 1, r) = IF r = t THEN at ELSE (IF at + len > size THEN at - 1 ELSE at) + len
  BY <1>4, <1>5, <1>6, <1>10 DEF Smaller
<1>13. at \in 0 .. size
  BY <1>10 DEF Smaller
<1>14. ASSUME Divides(bytes)
       PROVE  at = Chunk(bytes, t, r) /\ len = Each(bytes) /\ (r # t => at + len <= bytes)
  BY <1>4, <1>5, <1>8, <1>10, <1>14 DEF Smaller
<1>15. QED
  BY <1>7, <1>9, <1>11, <1>12, <1>13, <1>14 DEF len, Advances

-----------------------------------------------------------------------------
(* Exclusive or *)

Holders(byte, u) == {q \in Ranks : u \in byte[q]}

LEMMA HolderFacts ==
  ASSUME NEW byte, NEW u
  PROVE  /\ IsFiniteSet(Holders(byte, u)) /\ Cardinality(Holders(byte, u)) \in Nat
         /\ u \in Xor(byte) <=> Cardinality(Holders(byte, u)) % 2 = 1
<1>1. IsFiniteSet(Ranks)
  BY ParityAssumption, FS_Interval DEF Ranks
<1>2. IsFiniteSet(Holders(byte, u)) /\ Cardinality(Holders(byte, u)) \in Nat
  BY <1>1, FS_Subset, FS_CardinalityType DEF Holders
<1>3. u \in Xor(byte) <=> u \in UNION {byte[q] : q \in Ranks} /\ Cardinality(Holders(byte, u)) % 2 = 1
  BY DEF Xor, Holders
<1>4. ASSUME Cardinality(Holders(byte, u)) % 2 = 1 PROVE u \in UNION {byte[q] : q \in Ranks}
  <2>1. Cardinality(Holders(byte, u)) # 0
    BY <1>2, <1>4
  <2>2. PICK q : q \in Holders(byte, u)
    BY <1>2, <2>1, FS_EmptySet
  <2>3. q \in Ranks /\ u \in byte[q]
    BY <2>2 DEF Holders
  <2>4. QED
    BY <2>3
<1>5. QED
  BY <1>2, <1>3, <1>4

\* The bytes of all ranks cancel out exactly when one of them is the exclusive or of the others.
LEMMA XorSolves ==
  ASSUME NEW f, NEW g, NEW r \in Ranks, f[r] = {}, \A q \in Ranks : q # r => f[q] = g[q]
  PROVE  Xor(g) = {} <=> Xor(f) = g[r]
<1>1. ASSUME NEW u
      PROVE  Cardinality(Holders(g, u)) = Cardinality(Holders(f, u)) + IF u \in g[r] THEN 1 ELSE 0
  <2>1. r \notin Holders(f, u)
    BY DEF Holders
  <2>2. CASE u \in g[r]
    <3>1. Holders(g, u) = Holders(f, u) \cup {r}
      BY <2>2 DEF Holders
    <3>2. QED
      BY <2>1, <2>2, <3>1, HolderFacts, FS_AddElement
  <2>3. CASE u \notin g[r]
    <3>1. Holders(g, u) = Holders(f, u)
      BY <2>3 DEF Holders
    <3>2. QED
      BY <2>3, <3>1, HolderFacts
  <2>4. QED
    BY <2>2, <2>3
<1>2. ASSUME NEW u
      PROVE  u \in Xor(g) <=> ~(u \in Xor(f) <=> u \in g[r])
  <2>1. PICK m \in Nat : m = Cardinality(Holders(f, u))
    BY HolderFacts
  <2>2. PICK n \in Nat : n = Cardinality(Holders(g, u))
    BY HolderFacts
  <2>3. n = m + IF u \in g[r] THEN 1 ELSE 0
    BY <1>1, <2>1, <2>2
  <2>4. (u \in Xor(f) <=> m % 2 = 1) /\ (u \in Xor(g) <=> n % 2 = 1)
    BY <2>1, <2>2, HolderFacts
  <2>5. (m + 1) % 2 = 1 <=> ~(m % 2 = 1)
    OBVIOUS
  <2>6. CASE u \in g[r]
    BY <2>3, <2>4, <2>5, <2>6
  <2>7. CASE u \notin g[r]
    BY <2>3, <2>4, <2>7
  <2>8. QED
    BY <2>6, <2>7
<1>3. QED
  BY <1>2

LEMMA XorByte ==
  ASSUME NEW byte, \A q \in Ranks : byte[q] \in Byte
  PROVE  Xor(byte) \in Byte
BY DEF Xor, Byte

\* Only the bytes of the cohort count.
LEMMA XorSame ==
  ASSUME NEW f, NEW g, \A q \in Ranks : f[q] = g[q]
  PROVE  Xor(f) = Xor(g)
<1>1. \A u : Holders(f, u) = Holders(g, u)
  BY DEF Holders
<1>2. \A u : u \in Xor(f) <=> u \in Xor(g)
  BY <1>1, HolderFacts
<1>3. QED
  BY <1>2

-----------------------------------------------------------------------------
(* One turn of the loop *)

\* A chunk is not longer than what is stored.
LEMMA ChunkFits ==
  ASSUME NEW bytes \in Nat, NEW t \in Ranks
  PROVE  ParityBytes(bytes)[t] <= bytes
<1>1. PICK e \in Nat : e = Each(bytes)
  BY ChunkFacts
<1>2. PICK n \in Nat : n = N - 1 /\ n >= 2
  BY ChunkFacts
<1>3. e * 1 <= e * n /\ e * 1 = e
  BY <1>2, Products
<1>4. PICK p \in Int : p = e * n
  BY <1>2
<1>5. ParityBytes(bytes)[t] = e + IF t < Extra(bytes) THEN 1 ELSE 0
  BY <1>1, ChunkFacts
<1>6. CASE Divides(bytes)
  <2>1. bytes = p /\ Extra(bytes) = 0
    BY <1>1, <1>2, <1>4, <1>6, ChunkFacts
  <2>2. ParityBytes(bytes)[t] = e
    BY <1>5, <2>1, ParityAssumption DEF Ranks
  <2>3. QED
    BY <1>3, <1>4, <2>1, <2>2
<1>7. CASE ~Divides(bytes)
  <2>1. bytes + 1 = p + Extra(bytes)
    BY <1>1, <1>2, <1>4, <1>7, ChunkFacts
  <2>2. bytes % n \in 0 .. n - 1 /\ bytes % n # 0
    BY <1>2, <1>7, Division DEF Divides
  <2>3. Extra(bytes) \in Nat /\ Extra(bytes) >= 2
    BY <1>2, <2>2 DEF Extra
  <2>4. ParityBytes(bytes)[t] <= e + 1
    BY <1>5
  <2>5. ParityBytes(bytes)[t] \in Nat
    BY ChunkFacts
  <2>6. QED
    BY <1>3, <1>4, <2>1, <2>3, <2>4, <2>5
<1>8. QED
  BY <1>6, <1>7

InTurn(snaps, bytes) ==
  /\ \A q \in Ranks : Sized(snaps[q], q, bytes)
  /\ offset = [q \in Ranks |-> Position(snaps[q].size, bytes, root, q)]

\* Each chunk lies in its buffer, after those of the turns before.
LEMMA InputFacts ==
  ASSUME NEW bytes \in Nat, root \in Ranks, NEW snaps, InTurn(snaps, bytes), NEW r \in Ranks
  PROVE  LET len == ParityBytes(bytes)[root]
             at  == Input(snaps[r], r, len)
         IN  /\ len \in Nat /\ snaps[r].size \in Nat
             /\ Overruns(snaps[r], r, len) => offset[r] + len = snaps[r].size + 1
             /\ r # root => at \in Nat /\ at + len <= snaps[r].size
                            /\ at + len = Position(snaps[r].size, bytes, root + 1, r)
             /\ r = root => offset[r] = Position(snaps[r].size, bytes, root + 1, r)
             /\ Divides(bytes) => len = Each(bytes) /\ (r # root => at = Chunk(bytes, root, r) /\ at + len <= bytes)
<1> DEFINE len == ParityBytes(bytes)[root]
           at == Input(snaps[r], r, len)
           pos == Position(snaps[r].size, bytes, root, r)
           nxt == Position(snaps[r].size, bytes, root + 1, r)
<1>1. snaps[r].size \in Nat /\ snaps[r].size >= bytes
  BY DEF InTurn, Sized
<1>2. len \in Nat /\ len <= bytes
  BY ChunkFacts, ChunkFits
<1>3. offset[r] = pos
  BY DEF InTurn
<1>4. /\ pos \in 0 .. snaps[r].size
      /\ (r # root /\ pos + len > snaps[r].size) => pos + len = snaps[r].size + 1
      /\ nxt = IF r = root THEN pos ELSE (IF pos + len > snaps[r].size THEN pos - 1 ELSE pos) + len
      /\ Divides(bytes) => pos = Chunk(bytes, root, r) /\ len = Each(bytes) /\ (r # root => pos + len <= bytes)
  <2>1. Advances(snaps[r].size, bytes, root, r)
    BY <1>1, PositionFacts
  <2>2. QED
    BY <2>1 DEF Advances
<1>5. at = IF r # root /\ pos + len > snaps[r].size THEN pos - 1 ELSE pos
  BY <1>3 DEF Input, Overruns
<1>6. Overruns(snaps[r], r, len) <=> r # root /\ pos + len > snaps[r].size
  BY <1>3 DEF Overruns
<1> HIDE DEF len, at, pos, nxt
<1>7. r # root => at \in Nat /\ at + len <= snaps[r].size /\ at + len = nxt
  BY <1>1, <1>2, <1>4, <1>5
<1>8. Divides(bytes) => len = Each(bytes) /\ (r # root => at = Chunk(bytes, root, r) /\ at + len <= bytes)
  BY <1>1, <1>2, <1>4, <1>5
<1>9. (Overruns(snaps[r], r, len) => offset[r] + len = snaps[r].size + 1) /\ (r = root => offset[r] = nxt)
  BY <1>3, <1>4, <1>6
<1>10. QED
  BY <1>1, <1>2, <1>7, <1>8, <1>9 DEF len, at, pos, nxt

LEMMA TurnFacts ==
  ASSUME NEW bytes \in Nat, root \in Ranks, NEW snaps, InTurn(snaps, bytes)
  PROVE  LET len == ParityBytes(bytes)[root]
         IN  /\ NextOffset(snaps, len) = [q \in Ranks |-> Position(snaps[q].size, bytes, root + 1, q)]
             /\ Reduced(snaps, len) \in [0 .. len - 1 -> Byte]
             /\ Divides(bytes) => \A k \in 0 .. len - 1 : Reduced(snaps, len)[k] = Xor(Row(snaps, bytes, root, k))
<1> DEFINE len == ParityBytes(bytes)[root]
<1>1. NextOffset(snaps, len) = [q \in Ranks |-> Position(snaps[q].size, bytes, root + 1, q)]
  BY InputFacts DEF NextOffset
<1>2. len \in Nat
  BY ChunkFacts
<1>3. ASSUME NEW k \in 0 .. len - 1, NEW q \in Ranks
      PROVE  Given(snaps[q], q, len, k) \in Byte
  <2>1. Sized(snaps[q], q, bytes)
    BY DEF InTurn
  <2>2. CASE q = root
    BY <2>1, <2>2 DEF Sized, Given
  <2>3. CASE q # root
    <3>1. PICK at \in Nat : at = Input(snaps[q], q, len) /\ at + len <= snaps[q].size
      BY <2>3, InputFacts
    <3>2. snaps[q].size \in Nat
      BY <2>1 DEF Sized
    <3>3. at + k \in 0 .. snaps[q].size - 1
      BY <1>2, <3>1, <3>2
    <3>4. QED
      BY <2>1, <2>3, <3>1, <3>3 DEF Sized, Given
  <2>4. QED
    BY <2>2, <2>3
<1>4. ASSUME NEW k \in 0 .. len - 1
      PROVE  Xor([q \in Ranks |-> Given(snaps[q], q, len, k)]) \in Byte
  BY <1>3, XorByte
<1>5. Reduced(snaps, len) \in [0 .. len - 1 -> Byte]
  BY <1>4 DEF Reduced
<1>6. ASSUME Divides(bytes), NEW k \in 0 .. len - 1
      PROVE  Reduced(snaps, len)[k] = Xor(Row(snaps, bytes, root, k))
  <2>1. \A q \in Ranks : [p \in Ranks |-> Given(snaps[p], p, len, k)][q] = Row(snaps, bytes, root, k)[q]
    BY <1>6, InputFacts DEF Given, Row
  <2>2. Reduced(snaps, len)[k] = Xor([p \in Ranks |-> Given(snaps[p], p, len, k)])
    BY <1>6 DEF Reduced
  <2>3. QED
    BY <2>1, <2>2, XorSame
<1>7. QED
  BY <1>1, <1>5, <1>6

\* The delivered bytes take the place of the rank's own.
LEMMA WrittenFacts ==
  ASSUME NEW bytes \in Nat, root \in Ranks, NEW snaps, InTurn(snaps, bytes), NEW r \in Ranks,
         NEW v \in [0 .. ParityBytes(bytes)[root] - 1 -> Byte]
  PROVE  LET len == ParityBytes(bytes)[root]
             at  == Input(snaps[r], r, len)
             w   == Written(snaps[r], r, len, v)
         IN  /\ Sized(w, r, bytes) /\ w.size = snaps[r].size
             /\ r = root => w.data = snaps[r].data /\ w.parity = v
             /\ r # root =>
                  /\ w.parity = snaps[r].parity
                  /\ \A k \in 0 .. w.size - 1 :
                       w.data[k] = IF k >= at /\ k < at + len THEN v[k - at] ELSE snaps[r].data[k]
<1> DEFINE len == ParityBytes(bytes)[root]
           at  == Input(snaps[r], r, len)
           s   == snaps[r]
           w   == Written(snaps[r], r, len, v)
<1>1. Sized(s, r, bytes) /\ len \in Nat
  BY ChunkFacts DEF InTurn
<1>2. /\ s \in [size : Nat, data : [0 .. s.size - 1 -> Byte], parity : [0 .. ParityBytes(bytes)[r] - 1 -> Byte]]
      /\ s.size \in Nat /\ s.size >= bytes
  BY <1>1 DEF Sized
<1>3. CASE r = root
  <2>1. DOMAIN s.parity = 0 .. len - 1 /\ v \in [0 .. len - 1 -> Byte]
    BY <1>2, <1>3
  <2>2. v = [k \in DOMAIN s.parity |-> IF k < len THEN v[k] ELSE s.parity[k]]
    BY <1>1, <2>1
  <2>3. w = [s EXCEPT !.parity = v]
    BY <1>3, <2>2 DEF Written
  <2>4. w.data = s.data /\ w.parity = v /\ w.size = s.size
    BY <1>2, <2>3
  <2>5. w \in [size : Nat, data : [0 .. s.size - 1 -> Byte], parity : [0 .. ParityBytes(bytes)[r] - 1 -> Byte]]
    BY <1>2, <1>3, <2>1, <2>3
  <2>6. Sized(w, r, bytes)
    BY <1>2, <2>4, <2>5 DEF Sized
  <2>7. QED
    BY <1>3, <2>4, <2>6
<1>4. CASE r # root
  <2>1. at \in Nat /\ at + len <= s.size
    BY <1>4, InputFacts
  <2> DEFINE d == [k \in DOMAIN s.data |-> IF k >= at /\ k < at + len THEN v[k - at] ELSE s.data[k]]
  <2>2. w = [s EXCEPT !.data = d]
    BY <1>4 DEF Written
  <2>3. \A k \in 0 .. s.size - 1 : d[k] = IF k >= at /\ k < at + len THEN v[k - at] ELSE s.data[k]
    BY <1>2
  <2>4. ASSUME NEW k \in 0 .. s.size - 1 PROVE d[k] \in Byte
    <3>1. CASE k >= at /\ k < at + len
      <4>1. k - at \in 0 .. len - 1
        BY <1>1, <1>2, <2>1, <3>1
      <4>2. QED
        BY <2>3, <3>1, <4>1
    <3>2. CASE ~(k >= at /\ k < at + len)
      BY <1>2, <2>3, <3>2
    <3>3. QED
      BY <3>1, <3>2
  <2>5. d \in [0 .. s.size - 1 -> Byte]
    BY <1>2, <2>4
  <2> HIDE DEF d
  <2>6. w.data = d /\ w.parity = s.parity /\ w.size = s.size
    BY <1>2, <2>2
  <2>7. w \in [size : Nat, data : [0 .. s.size - 1 -> Byte], parity : [0 .. ParityBytes(bytes)[r] - 1 -> Byte]]
    BY <1>2, <2>2, <2>5
  <2>8. Sized(w, r, bytes)
    BY <1>2, <2>6, <2>7 DEF Sized
  <2>9. QED
    BY <1>4, <2>3, <2>6, <2>8
<1>5. QED
  BY <1>3, <1>4

-----------------------------------------------------------------------------
(* One lemma for each action *)

LEMMA StoredBytes ==
  ASSUME Typed
  PROVE  /\ StoreBytes(commits) \in 1 .. Size
         /\ commits > 0 => SnapBytes \in 1 .. Size
<1>1. ASSUME NEW n \in Nat PROVE StoreBytes(n) \in 1 .. Size
  <2>1. PICK l \in Nat : l = Len(StoreSizes) /\ l > 0
    BY ParityAssumption
  <2>2. n % l \in 0 .. l - 1
    BY <2>1, Division
  <2>3. (n % l) + 1 \in 1 .. l
    BY <2>1, <2>2
  <2>4. QED
    BY <2>1, <2>3, ParityAssumption DEF StoreBytes
<1>2. StoreBytes(commits) \in 1 .. Size
  BY <1>1 DEF Typed
<1>3. commits > 0 => commits - 1 \in Nat
  BY DEF Typed
<1>4. QED
  BY <1>1, <1>2, <1>3 DEF SnapBytes

LEMMA ChunkNext ==
  ASSUME NEW bytes \in Nat, Divides(bytes), NEW r \in Ranks
  PROVE  /\ Chunk(bytes, 0, r) = 0 /\ Chunk(bytes, N, r) = bytes
         /\ \A t \in Ranks : /\ Chunk(bytes, t, r) \in Nat
                             /\ Chunk(bytes, t + 1, r) = IF r = t THEN Chunk(bytes, t, r)
                                                         ELSE Chunk(bytes, t, r) + Each(bytes)
<1>1. 0 \in 0 .. N /\ N \in 0 .. N /\ \A t \in Ranks : t \in 0 .. N /\ t + 1 \in 0 .. N
  BY ParityAssumption DEF Ranks
<1>2. \A t \in 0 .. N : Passed(bytes, t, r) = Chunk(bytes, t, r) /\ Chunk(bytes, t, r) \in Nat
  BY PassedFacts
<1>3. ASSUME NEW t \in Ranks
      PROVE  Chunk(bytes, t + 1, r) = IF r = t THEN Chunk(bytes, t, r) ELSE Chunk(bytes, t, r) + Each(bytes)
  <2>1. Extra(bytes) = 0 /\ Each(bytes) \in Nat
    BY ChunkFacts
  <2>2. ParityBytes(bytes)[t] = Each(bytes) + IF t < Extra(bytes) THEN 1 ELSE 0
    BY ChunkFacts
  <2>3. ParityBytes(bytes)[t] = Each(bytes)
    BY <1>1, <2>1, <2>2
  <2>4. Passed(bytes, t + 1, r) = IF r = t THEN Passed(bytes, t, r) ELSE Passed(bytes, t, r) + ParityBytes(bytes)[t]
    BY PassedFacts
  <2>5. QED
    BY <1>1, <1>2, <2>3, <2>4
<1>4. Chunk(bytes, 0, r) = 0 /\ Chunk(bytes, N, r) = bytes
  BY <1>1, <1>2, PassedFacts
<1>5. QED
  BY <1>1, <1>2, <1>3, <1>4

\* Zeros are bytes, and their own exclusive or.
LEMMA ZerosFacts ==
  ASSUME NEW n \in Nat
  PROVE  Zeros(n) \in [0 .. n - 1 -> Byte] /\ \A k \in 0 .. n - 1 : Zeros(n)[k] = {}
BY DEF Zeros, Byte

LEMMA InitPInv ==
  ASSUME Init PROVE PInv
<1>1. Typed
  BY ParityAssumption DEF Init, Typed, Ranks
<1>2. QED
  BY <1>1 DEF Init, PInv, Storing, Secured, Holding, Rebuilding

\* The loop begins with every rank at the beginning of its buffer.
LEMMA AtStart ==
  ASSUME NEW bytes \in Nat, NEW size \in Nat, size >= bytes, NEW r \in Ranks
  PROVE  Position(size, bytes, 0, r) = 0
BY PositionFacts DEF Advances

LEMMA StoreStep ==
  ASSUME PInv, Store
  PROVE  PInv'
<1>1. PICK bytes \in 1 .. Size : bytes = StoreBytes(commits)
  BY StoredBytes DEF PInv
<1>2. /\ stage' = [r \in Ranks |->
                     [size   |-> Size,
                      data   |-> [k \in 0 .. Size - 1 |-> {<<r, k, IF k < bytes THEN commits ELSE -1>>}],
                      parity |-> Zeros(ParityBytes(bytes)[r])]]
      /\ phase' = "protect" /\ root' = 0 /\ offset' = [q \in Ranks |-> 0]
      /\ UNCHANGED <<snap, held, commits, truth>>
  BY <1>1 DEF Store, StartLoop
<1>3. Size \in Nat /\ bytes \in Nat /\ bytes <= Size
  BY <1>1, ParityAssumption
<1>4. Typed'
  BY <1>2, ParityAssumption DEF PInv, Typed, Ranks
<1>5. ASSUME NEW r \in Ranks
      PROVE  Sized(stage'[r], r, bytes) /\ stage'[r].size = Size /\ stage'[r].parity = Zeros(ParityBytes(bytes)[r])
  <2>1. \A k \in 0 .. Size - 1 : <<r, k, IF k < bytes THEN commits ELSE -1>> \in Ranks \X Int \X Int
    BY <1>3 DEF PInv, Typed
  <2>2. [k \in 0 .. Size - 1 |-> {<<r, k, IF k < bytes THEN commits ELSE -1>>}] \in [0 .. Size - 1 -> Byte]
    BY <2>1 DEF Byte
  <2>3. Zeros(ParityBytes(bytes)[r]) \in [0 .. ParityBytes(bytes)[r] - 1 -> Byte]
    BY <1>3, ChunkFacts, ZerosFacts
  <2>4. QED
    BY <1>2, <1>3, <2>2, <2>3 DEF Sized
<1>6. Storing'
  <2>1. StoreBytes(commits)' = bytes /\ Progress' = 0
    BY <1>1, <1>2 DEF StoreBytes, Progress
  <2>2. offset' = [r \in Ranks |-> Position(stage'[r].size, bytes, 0, r)]
    BY <1>2, <1>3, <1>5, AtStart
  <2>3. stage' = [r \in Ranks |-> stage'[r]]
    BY <1>2
  <2>4. \A t \in Ranks : ~(t < 0)
    BY DEF Ranks
  <2>5. QED
    BY <1>2, <1>5, <2>1, <2>2, <2>3, <2>4 DEF Storing
<1>7. SnapBytes' = SnapBytes
  BY <1>2 DEF SnapBytes, StoreBytes
<1>8. Secured'
  BY <1>2, <1>7 DEF PInv, Secured, Balanced, Row
<1>9. Holding' /\ Rebuilding'
  BY <1>2, <1>7 DEF PInv, Holding, Rebuilding
<1>10. QED
  BY <1>4, <1>6, <1>8, <1>9 DEF PInv

\* After a turn the chunks of that turn cancel out.
LEMMA ProtectStep ==
  ASSUME PInv, Protect
  PROVE  PInv'
<1>1. PICK bytes \in 1 .. Size : bytes = StoreBytes(commits)
  BY StoredBytes DEF PInv
<1>2. bytes \in Nat
  BY <1>1, ParityAssumption
<1>3. PICK t \in Ranks : t = root
  BY DEF PInv, Typed
<1>4. PICK len \in Nat : len = ParityBytes(bytes)[t]
  BY <1>2, ChunkFacts
<1>5. PICK v : v = Reduced(stage, len)
  OBVIOUS
<1>6. PICK w : w = Written(stage[t], t, len, v)
  OBVIOUS
<1>7. /\ stage' = [stage EXCEPT ![t] = w] /\ offset' = NextOffset(stage, len)
      /\ t = N - 1 => phase' = "stored" /\ root' = t
      /\ t # N - 1 => phase' = "protect" /\ root' = t + 1
      /\ phase = "protect" /\ UNCHANGED <<snap, held, commits, truth>>
  BY <1>1, <1>3, <1>4, <1>5, <1>6 DEF Protect
<1>8. /\ stage = [r \in Ranks |-> stage[r]] /\ InTurn(stage, bytes)
      /\ Divides(bytes) =>
           /\ \A i \in Ranks : i < t => Balanced(stage, bytes, i)
           /\ \A i \in Ranks : i >= t => stage[i].parity = Zeros(ParityBytes(bytes)[i])
  BY <1>1, <1>3, <1>7 DEF PInv, Storing, InTurn, Progress
<1>9. /\ offset' = [q \in Ranks |-> Position(stage[q].size, bytes, t + 1, q)]
      /\ v \in [0 .. len - 1 -> Byte]
      /\ Divides(bytes) => \A k \in 0 .. len - 1 : v[k] = Xor(Row(stage, bytes, t, k))
  BY <1>2, <1>3, <1>4, <1>5, <1>7, <1>8, TurnFacts
<1>10. Sized(w, t, bytes) /\ w.size = stage[t].size /\ w.data = stage[t].data /\ w.parity = v
  BY <1>2, <1>3, <1>4, <1>6, <1>8, <1>9, WrittenFacts
<1>11. /\ stage'[t] = w /\ \A r \in Ranks : r # t => stage'[r] = stage[r]
       /\ stage' = [r \in Ranks |-> stage'[r]]
       /\ \A r \in Ranks : stage'[r].size = stage[r].size /\ stage'[r].data = stage[r].data
  BY <1>7, <1>8, <1>10
<1>12. \A r \in Ranks : Sized(stage'[r], r, bytes)
  BY <1>8, <1>10, <1>11 DEF InTurn
<1>13. Progress' = t + 1
  <2>1. t \in Nat /\ N \in Nat
    BY ParityAssumption DEF Ranks
  <2>2. CASE t = N - 1
    BY <1>7, <2>1, <2>2 DEF Progress
  <2>3. CASE t # N - 1
    BY <1>7, <2>3 DEF Progress
  <2>4. QED
    BY <2>2, <2>3
<1>14. ASSUME Divides(bytes)
       PROVE  /\ \A i \in Ranks : i < t + 1 => Balanced(stage', bytes, i)
              /\ \A i \in Ranks : i >= t + 1 => stage'[i].parity = Zeros(ParityBytes(bytes)[i])
  <2>1. ASSUME NEW i \in Ranks, i < t PROVE Balanced(stage', bytes, i)
    <3>1. ASSUME NEW k PROVE Row(stage', bytes, i, k) = Row(stage, bytes, i, k)
      BY <1>11, <2>1 DEF Row, Ranks
    <3>2. QED
      BY <1>8, <1>14, <2>1, <3>1 DEF Balanced
  <2>2. Balanced(stage', bytes, t)
    <3>1. ASSUME NEW k \in 0 .. Each(bytes) - 1 PROVE Xor(Row(stage', bytes, t, k)) = {}
      <4>1. len = Each(bytes)
        BY <1>2, <1>3, <1>4, <1>8, <1>14, InputFacts
      <4>2. stage[t].parity[k] = {}
        <5>1. stage[t].parity = Zeros(len)
          <6>1. t >= t
            BY DEF Ranks
          <6>2. QED
            BY <1>4, <1>8, <1>14, <6>1
        <5>2. QED
          BY <1>4, <3>1, <4>1, <5>1, ZerosFacts
      <4>3. Row(stage, bytes, t, k)[t] = {} /\ Row(stage', bytes, t, k)[t] = v[k]
        BY <1>10, <1>11, <4>2 DEF Row
      <4>4. \A q \in Ranks : q # t => Row(stage, bytes, t, k)[q] = Row(stage', bytes, t, k)[q]
        BY <1>11 DEF Row
      <4>5. v[k] = Xor(Row(stage, bytes, t, k))
        BY <1>9, <1>14, <4>1
      <4>6. QED
        <5>1. PICK f, g : f = Row(stage, bytes, t, k) /\ g = Row(stage', bytes, t, k)
          OBVIOUS
        <5>2. f[t] = {} /\ Xor(f) = g[t] /\ \A q \in Ranks : q # t => f[q] = g[q]
          BY <4>3, <4>4, <4>5, <5>1
        <5>3. QED
          BY <5>1, <5>2, XorSolves
    <3>2. QED
      BY <3>1 DEF Balanced
  <2>3. \A i \in Ranks : i < t + 1 => Balanced(stage', bytes, i)
    BY <2>1, <2>2 DEF Ranks
  <2>4. \A i \in Ranks : i >= t + 1 => i >= t /\ i # t
    BY DEF Ranks
  <2>5. \A i \in Ranks : i >= t + 1 => stage'[i].parity = Zeros(ParityBytes(bytes)[i])
    BY <1>8, <1>11, <1>14, <2>4
  <2>6. QED
    BY <2>3, <2>5
<1>15. Storing'
  <2>1. StoreBytes(commits)' = bytes
    BY <1>1, <1>7 DEF StoreBytes
  <2>2. phase' = "protect" => offset' = [r \in Ranks |-> Position(stage'[r].size, bytes, root', r)]
    BY <1>7, <1>9, <1>11
  <2>3. QED
    BY <1>11, <1>12, <1>13, <1>14, <2>1, <2>2 DEF Storing
<1>16. Typed'
  BY <1>7, ParityAssumption DEF PInv, Typed, Ranks
<1>17. SnapBytes' = SnapBytes
  BY <1>7 DEF SnapBytes, StoreBytes
<1>18. Secured' /\ Holding' /\ Rebuilding'
  BY <1>7, <1>17 DEF PInv, Secured, Balanced, Row, Holding, Rebuilding
<1>19. QED
  BY <1>15, <1>16, <1>18 DEF PInv

LEMMA CommitStep ==
  ASSUME PInv, Commit
  PROVE  PInv'
<1>1. PICK bytes \in 1 .. Size : bytes = StoreBytes(commits)
  BY StoredBytes DEF PInv
<1>2. /\ phase = "stored" /\ snap' = stage /\ truth' = stage /\ held' = Ranks /\ commits' = commits + 1
      /\ phase' = "app" /\ UNCHANGED <<stage, root, offset>> /\ commits \in Nat
  BY DEF Commit, PInv, Typed
<1>3. /\ \A r \in Ranks : Sized(stage[r], r, bytes)
      /\ Divides(bytes) => \A t \in Ranks : Balanced(stage, bytes, t)
  <2>1. Progress = N /\ \A t \in Ranks : t < N
    BY <1>2, ParityAssumption DEF Progress, Ranks
  <2>2. QED
    BY <1>1, <1>2, <2>1 DEF PInv, Storing
<1>4. SnapBytes' = bytes
  BY <1>1, <1>2 DEF SnapBytes, StoreBytes
<1>5. Typed' /\ Storing' /\ Rebuilding'
  BY <1>2 DEF PInv, Typed, Storing, Rebuilding
<1>6. Secured'
  <2>1. Divides(bytes) => \A t \in Ranks : Balanced(truth', bytes, t)
    BY <1>2, <1>3
  <2>2. QED
    BY <1>2, <1>3, <1>4, <2>1 DEF Secured
<1>7. Holding'
  BY <1>2, <1>3, <1>4 DEF Holding
<1>8. QED
  BY <1>5, <1>6, <1>7 DEF PInv

\* What does not touch the snapshots leaves what they guarantee.
LEMMA SnapshotsKept ==
  ASSUME PInv, UNCHANGED <<commits, truth>>
  PROVE  /\ SnapBytes' = SnapBytes
         /\ held' \subseteq held => Secured'
         /\ (held' \subseteq held /\ \A r \in held' : snap'[r] = snap[r]) => Holding'
<1>1. SnapBytes' = SnapBytes
  BY DEF SnapBytes, StoreBytes
<1>2. held' \subseteq held => Secured'
  BY <1>1 DEF PInv, Secured, Balanced, Row
<1>3. (held' \subseteq held /\ \A r \in held' : snap'[r] = snap[r]) => Holding'
  BY <1>1 DEF PInv, Holding
<1>4. QED
  BY <1>1, <1>2, <1>3

LEMMA UnchangedStep ==
  ASSUME PInv, UNCHANGED <<phase, stage, snap, held, root, offset, commits, truth>>
  PROVE  PInv'
<1>1. SnapBytes' = SnapBytes /\ StoreBytes(commits)' = StoreBytes(commits) /\ Progress' = Progress
  BY DEF SnapBytes, StoreBytes, Progress
<1>2. Secured' /\ Holding' /\ Typed'
  BY SnapshotsKept DEF PInv, Typed
<1>3. Storing'
  BY <1>1 DEF PInv, Storing
<1>4. Rebuilding'
  BY <1>1 DEF PInv, Rebuilding
<1>5. QED
  BY <1>2, <1>3, <1>4 DEF PInv

LEMMA FailStep ==
  ASSUME PInv, Fail
  PROVE  PInv'
BY UnchangedStep DEF Fail

\* A repair starts, again if it was interrupted, from nothing of the lost snapshot.
LEMMA RecoverStep ==
  ASSUME PInv, Recover
  PROVE  PInv'
<1>1. PICK missing : missing = Ranks \ (held \ failed)
  OBVIOUS
<1>2. held' = held \ failed /\ UNCHANGED <<stage, commits, truth>> /\ held' \subseteq held /\ held \subseteq Ranks
  BY DEF Recover, PInv, Typed
<1>3. SnapBytes' = SnapBytes /\ Secured'
  BY <1>2, SnapshotsKept
<1>4. CASE Cardinality(missing) # 1
  <2>1. phase' = "app" /\ UNCHANGED <<snap, root, offset>>
    BY <1>1, <1>4 DEF Recover
  <2>2. Typed' /\ Storing' /\ Rebuilding'
    BY <1>2, <2>1 DEF PInv, Typed, Storing, Rebuilding
  <2>3. Holding'
    BY <1>2, <2>1, SnapshotsKept
  <2>4. QED
    BY <1>3, <2>2, <2>3 DEF PInv
<1>5. CASE Cardinality(missing) = 1
  <2>1. PICK x \in Ranks : missing = {x}
    <3>1. IsFiniteSet(Ranks)
      BY ParityAssumption, FS_Interval DEF Ranks
    <3>2. IsFiniteSet(missing)
      BY <1>1, <3>1, FS_Subset
    <3>3. QED
      BY <1>1, <1>5, <3>2, FS_Singleton
  <2>2. /\ phase' = "repair" /\ root' = 0 /\ offset' = [q \in Ranks |-> 0]
        /\ snap' = [r \in Ranks |-> IF r \in missing THEN Cleared(r) ELSE snap[r]]
    BY <1>1, <1>5 DEF Recover, StartLoop
  <2>3. held' = Ranks \ {x} /\ \A r \in held' : snap'[r] = snap[r]
    BY <1>1, <1>2, <2>1, <2>2
  <2>4. snap'[x] = Cleared(x)
    BY <2>1, <2>2
  <2>5. commits > 0
    <3>1. \E r \in Ranks : r # x
      <4>1. 0 \in Ranks /\ 1 \in Ranks
        BY ParityAssumption DEF Ranks
      <4>2. QED
        BY <4>1
    <3>2. held # {}
      BY <1>2, <2>3, <3>1
    <3>3. QED
      BY <3>2 DEF PInv, Secured
  <2>6. PICK bytes \in Nat : bytes = SnapBytes
    BY <2>5, StoredBytes DEF PInv
  <2>7. Sized(snap'[x], x, bytes) /\ snap'[x].size = bytes
    <3>1. Cleared(x) = [size |-> bytes, data |-> Zeros(bytes), parity |-> Zeros(ParityBytes(bytes)[x])]
      BY <2>6 DEF Cleared
    <3>2. Zeros(bytes) \in [0 .. bytes - 1 -> Byte]
      BY ZerosFacts
    <3>3. Zeros(ParityBytes(bytes)[x]) \in [0 .. ParityBytes(bytes)[x] - 1 -> Byte]
      BY ChunkFacts, ZerosFacts
    <3>4. QED
      BY <2>4, <3>1, <3>2, <3>3 DEF Sized
  <2>8. Holding'
    BY <1>2, <2>3, SnapshotsKept
  <2>9. \A r \in Ranks : Sized(snap'[r], r, bytes)
    BY <1>3, <2>3, <2>6, <2>7, <2>8 DEF Holding
  <2>10. offset' = [r \in Ranks |-> Position(snap'[r].size, bytes, root', r)]
    <3>1. \A r \in Ranks : snap'[r].size \in Nat /\ snap'[r].size >= bytes
      BY <2>9 DEF Sized
    <3>2. QED
      BY <2>2, <3>1, AtStart
  <2>11. snap'[x].data = Zeros(bytes) /\ snap'[x].parity = Zeros(ParityBytes(bytes)[x])
    BY <2>4, <2>6 DEF Cleared
  <2>12. ASSUME Divides(bytes)
         PROVE  \A k \in 0 .. bytes - 1 :
                  snap'[x].data[k] = IF k < Chunk(bytes, root', x) THEN truth'[x].data[k] ELSE {}
    <3>1. Chunk(bytes, root', x) = 0
      BY <2>2, <2>12, ChunkNext
    <3>2. \A k \in 0 .. bytes - 1 : snap'[x].data[k] = {} /\ ~(k < 0)
      BY <2>11, ZerosFacts
    <3>3. QED
      BY <3>1, <3>2
  <2>13. ~(x < root')
    BY <2>2 DEF Ranks
  <2>14. snap' = [r \in Ranks |-> snap'[r]]
    BY <2>2
  <2>15. Rebuilding'
    BY <1>3, <2>3, <2>6, <2>7, <2>10, <2>11, <2>12, <2>13, <2>14 DEF Rebuilding
  <2>16. Typed' /\ Storing'
    BY <1>2, <2>2, ParityAssumption DEF PInv, Typed, Storing, Ranks
  <2>17. QED
    BY <1>3, <2>8, <2>15, <2>16 DEF PInv
<1>6. QED
  BY <1>4, <1>5

\* One turn of repair, of the recovering rank x.
LEMMA RepairTurn ==
  ASSUME PInv, Repair
  PROVE  \E x \in Ranks :
           /\ held = Ranks \ {x} /\ commits > 0 /\ phase = "repair" /\ UNCHANGED <<stage, commits, truth>>
           /\ root = N - 1 => phase' = "app" /\ held' = Ranks /\ root' = root
           /\ root # N - 1 => phase' = "repair" /\ held' = held /\ root' = root + 1
           /\ snap' = [r \in Ranks |-> snap'[r]] /\ \A r \in held : snap'[r] = snap[r]
           /\ Sized(snap'[x], x, SnapBytes) /\ snap'[x].size = SnapBytes
           /\ offset' = [r \in Ranks |-> Position(snap'[r].size, SnapBytes, root + 1, r)]
           /\ Divides(SnapBytes) =>
                /\ \A k \in 0 .. SnapBytes - 1 :
                     snap'[x].data[k] = IF k < Chunk(SnapBytes, root + 1, x) THEN truth[x].data[k] ELSE {}
                /\ snap'[x].parity = IF x < root + 1 THEN truth[x].parity ELSE Zeros(ParityBytes(SnapBytes)[x])
<1>1. phase = "repair"
  BY DEF Repair
<1>2. PICK x \in Ranks :
        /\ held = Ranks \ {x}
        /\ snap = [r \in Ranks |-> snap[r]]
        /\ Sized(snap[x], x, SnapBytes) /\ snap[x].size = SnapBytes
        /\ offset = [r \in Ranks |-> Position(snap[r].size, SnapBytes, root, r)]
        /\ Divides(SnapBytes) =>
             /\ \A k \in 0 .. SnapBytes - 1 :
                  snap[x].data[k] = IF k < Chunk(SnapBytes, root, x) THEN truth[x].data[k] ELSE {}
             /\ snap[x].parity = IF x < root THEN truth[x].parity ELSE Zeros(ParityBytes(SnapBytes)[x])
  BY <1>1 DEF PInv, Rebuilding
<1>3. commits > 0
  <2>1. 0 \in Ranks /\ 1 \in Ranks
    BY ParityAssumption DEF Ranks
  <2>2. held # {}
    BY <1>2, <2>1
  <2>3. QED
    BY <2>2 DEF PInv, Secured
<1>4. PICK bytes \in Nat : bytes = SnapBytes
  BY <1>3, StoredBytes DEF PInv
<1>5. PICK t \in Ranks : t = root
  BY DEF PInv, Typed
<1>6. PICK len \in Nat : len = ParityBytes(bytes)[t]
  BY ChunkFacts
<1>7. PICK v : v = Reduced(snap, len)
  OBVIOUS
<1>8. PICK w : w = Written(snap[x], x, len, v)
  OBVIOUS
<1>9. (CHOOSE r \in Ranks : r \notin held) = x
  BY <1>2
<1>10. /\ snap' = [snap EXCEPT ![x] = w] /\ offset' = NextOffset(snap, len) /\ UNCHANGED <<stage, commits, truth>>
       /\ t = N - 1 => phase' = "app" /\ held' = Ranks /\ root' = t
       /\ t # N - 1 => phase' = "repair" /\ held' = held /\ root' = t + 1
  BY <1>1, <1>4, <1>5, <1>6, <1>7, <1>8, <1>9 DEF Repair
<1>11. InTurn(snap, bytes)
  <2>1. \A r \in Ranks : Sized(snap[r], r, bytes)
    BY <1>2, <1>4 DEF PInv, Holding
  <2>2. QED
    BY <1>2, <1>4, <2>1 DEF InTurn
<1>12. /\ offset' = [q \in Ranks |-> Position(snap[q].size, bytes, t + 1, q)]
       /\ v \in [0 .. len - 1 -> Byte]
       /\ Divides(bytes) => \A k \in 0 .. len - 1 : v[k] = Xor(Row(snap, bytes, t, k))
  BY <1>5, <1>6, <1>7, <1>10, <1>11, TurnFacts
<1>13. PICK at : at = Input(snap[x], x, len)
  OBVIOUS
<1>14. /\ Sized(w, x, bytes) /\ w.size = bytes
       /\ x = t => w.data = snap[x].data /\ w.parity = v
       /\ x # t => /\ w.parity = snap[x].parity
                   /\ \A k \in 0 .. bytes - 1 :
                        w.data[k] = IF k >= at /\ k < at + len THEN v[k - at] ELSE snap[x].data[k]
  BY <1>2, <1>4, <1>5, <1>6, <1>8, <1>11, <1>12, <1>13, WrittenFacts
<1>15. snap'[x] = w /\ (\A r \in Ranks : r # x => snap'[r] = snap[r]) /\ snap' = [r \in Ranks |-> snap'[r]]
  BY <1>2, <1>10
<1>16. offset' = [r \in Ranks |-> Position(snap'[r].size, bytes, t + 1, r)]
  BY <1>2, <1>4, <1>12, <1>14, <1>15
<1>17. ASSUME Divides(bytes)
       PROVE  /\ \A k \in 0 .. bytes - 1 : w.data[k] = IF k < Chunk(bytes, t + 1, x) THEN truth[x].data[k] ELSE {}
              /\ w.parity = IF x < t + 1 THEN truth[x].parity ELSE Zeros(ParityBytes(bytes)[x])
  <2>1. /\ len = Each(bytes) /\ \A q \in Ranks : q # t => Chunk(bytes, t, q) \in Nat /\ Chunk(bytes, t, q) + len <= bytes
        /\ x # t => at = Chunk(bytes, t, x)
    <3>1. ASSUME NEW q \in Ranks, q # t PROVE Chunk(bytes, t, q) \in Nat /\ Chunk(bytes, t, q) + len <= bytes
      BY <1>5, <1>6, <1>11, <1>17, <3>1, InputFacts
    <3>2. len = Each(bytes) /\ (x # t => at = Chunk(bytes, t, x))
      BY <1>5, <1>6, <1>11, <1>13, <1>17, InputFacts
    <3>3. QED
      BY <3>1, <3>2
  <2>2. /\ \A k \in 0 .. bytes - 1 : snap[x].data[k] = IF k < Chunk(bytes, t, x) THEN truth[x].data[k] ELSE {}
        /\ snap[x].parity = IF x < t THEN truth[x].parity ELSE Zeros(ParityBytes(bytes)[x])
    BY <1>2, <1>4, <1>5, <1>17
  <2>3. \A q \in Ranks : q # x => /\ \A k \in 0 .. bytes - 1 : snap[q].data[k] = truth[q].data[k]
                                 /\ snap[q].parity = truth[q].parity
    BY <1>2, <1>4, <1>17 DEF PInv, Holding
  <2>4. /\ Sized(truth[x], x, bytes)
        /\ \A k \in 0 .. Each(bytes) - 1 : Xor(Row(truth, bytes, t, k)) = {}
    BY <1>3, <1>4, <1>17 DEF PInv, Secured, Balanced
  <2>5. x \in Nat /\ t \in Nat
    BY ParityAssumption DEF Ranks
  <2>6. ASSUME NEW k \in 0 .. len - 1
        PROVE  v[k] = IF x = t THEN truth[x].parity[k] ELSE truth[x].data[at + k]
    <3>1. PICK f, g : f = Row(snap, bytes, t, k) /\ g = Row(truth, bytes, t, k)
      OBVIOUS
    <3>2. f[x] = {}
      <4>1. CASE x = t
        <5>1. snap[x].parity = Zeros(len)
          BY <1>6, <2>2, <2>5, <4>1
        <5>2. QED
          BY <3>1, <4>1, <5>1, ZerosFacts DEF Row
      <4>2. CASE x # t
        <5>1. at + k \in 0 .. bytes - 1 /\ ~(at + k < at) /\ at = Chunk(bytes, t, x)
          BY <2>1, <4>2
        <5>2. snap[x].data[at + k] = {}
          BY <2>2, <5>1
        <5>3. QED
          BY <3>1, <4>2, <5>1, <5>2 DEF Row
      <4>3. QED
        BY <4>1, <4>2
    <3>3. ASSUME NEW q \in Ranks, q # x PROVE f[q] = g[q]
      <4>1. CASE q = t
        BY <2>3, <3>1, <3>3, <4>1 DEF Row
      <4>2. CASE q # t
        <5>1. Chunk(bytes, t, q) + k \in 0 .. bytes - 1
          BY <2>1, <4>2
        <5>2. QED
          BY <2>3, <3>1, <3>3, <4>2, <5>1 DEF Row
      <4>3. QED
        BY <4>1, <4>2
    <3>4. Xor(g) = {} /\ Xor(f) = v[k]
      BY <1>12, <1>17, <2>1, <2>4, <3>1
    <3>5. v[k] = g[x]
      BY <3>2, <3>3, <3>4, XorSolves
    <3>6. QED
      BY <2>1, <3>1, <3>5 DEF Row
  <2>7. Chunk(bytes, t + 1, x) = IF x = t THEN Chunk(bytes, t, x) ELSE Chunk(bytes, t, x) + len
    BY <1>17, <2>1, ChunkNext
  <2>8. CASE x = t
    <3>1. truth[x].parity \in [0 .. len - 1 -> Byte]
      BY <1>6, <2>4, <2>8 DEF Sized
    <3>2. v = truth[x].parity
      BY <1>12, <2>6, <2>8, <3>1
    <3>3. QED
      BY <1>14, <2>2, <2>5, <2>7, <2>8, <3>2
  <2>9. CASE x # t
    <3>1. PICK c \in Nat : c = at /\ c = Chunk(bytes, t, x)
      BY <2>1, <2>9
    <3>2. ASSUME NEW k \in 0 .. bytes - 1
          PROVE  w.data[k] = IF k < c + len THEN truth[x].data[k] ELSE {}
      <4>1. CASE k >= c /\ k < c + len
        <5>1. k - c \in 0 .. len - 1 /\ c + (k - c) = k
          BY <3>1, <4>1
        <5>2. v[k - c] = truth[x].data[k]
          BY <2>6, <2>9, <3>1, <5>1
        <5>3. QED
          BY <1>14, <2>9, <3>1, <4>1, <5>2
      <4>2. CASE ~(k >= c /\ k < c + len)
        <5>1. w.data[k] = snap[x].data[k]
          BY <1>14, <2>9, <3>1, <4>2
        <5>2. k < c <=> k < c + len
          BY <3>1, <4>2
        <5>3. QED
          BY <2>2, <3>1, <5>1, <5>2
      <4>3. QED
        BY <4>1, <4>2
    <3>3. w.parity = IF x < t + 1 THEN truth[x].parity ELSE Zeros(ParityBytes(bytes)[x])
      BY <1>14, <2>2, <2>5, <2>9
    <3>4. QED
      BY <2>7, <2>9, <3>1, <3>2, <3>3
  <2>10. QED
    BY <2>8, <2>9
<1>18. QED
  BY ZenonT(60), <1>1, <1>2, <1>3, <1>4, <1>5, <1>10, <1>14, <1>15, <1>16, <1>17

LEMMA RepairStep ==
  ASSUME PInv, Repair
  PROVE  PInv'
<1>1. PICK x \in Ranks :
        /\ held = Ranks \ {x} /\ commits > 0 /\ phase = "repair" /\ UNCHANGED <<stage, commits, truth>>
        /\ root = N - 1 => phase' = "app" /\ held' = Ranks /\ root' = root
        /\ root # N - 1 => phase' = "repair" /\ held' = held /\ root' = root + 1
        /\ snap' = [r \in Ranks |-> snap'[r]] /\ \A r \in held : snap'[r] = snap[r]
        /\ Sized(snap'[x], x, SnapBytes) /\ snap'[x].size = SnapBytes
        /\ offset' = [r \in Ranks |-> Position(snap'[r].size, SnapBytes, root + 1, r)]
        /\ Divides(SnapBytes) =>
             /\ \A k \in 0 .. SnapBytes - 1 :
                  snap'[x].data[k] = IF k < Chunk(SnapBytes, root + 1, x) THEN truth[x].data[k] ELSE {}
             /\ snap'[x].parity = IF x < root + 1 THEN truth[x].parity ELSE Zeros(ParityBytes(SnapBytes)[x])
  BY RepairTurn
<1>2. SnapBytes' = SnapBytes /\ root \in Ranks
  BY <1>1, SnapshotsKept DEF PInv, Typed
<1>3. Secured'
  BY <1>1, <1>2 DEF PInv, Secured, Balanced, Row
<1>4. Typed' /\ Storing'
  BY SMTT(30), <1>1, <1>2, ParityAssumption DEF PInv, Typed, Storing, Ranks
<1>5. CASE root # N - 1
  <2>1. Holding'
    BY <1>1, <1>5, SnapshotsKept
  <2>2. Rebuilding'
    BY <1>1, <1>2, <1>5 DEF Rebuilding
  <2>3. QED
    BY <1>3, <1>4, <2>1, <2>2 DEF PInv
<1>6. CASE root = N - 1
  <2>1. PICK bytes \in Nat : bytes = SnapBytes
    BY <1>1, StoredBytes DEF PInv
  <2>2. root + 1 = N /\ x < N
    BY <1>6, ParityAssumption DEF Ranks
  <2>3. ASSUME Divides(bytes)
        PROVE  /\ \A k \in 0 .. bytes - 1 : snap'[x].data[k] = truth[x].data[k]
               /\ snap'[x].parity = truth[x].parity
    <3>1. Chunk(bytes, root + 1, x) = bytes
      BY <2>2, <2>3, ChunkNext
    <3>2. \A k \in 0 .. bytes - 1 : k < bytes
      BY <2>1
    <3>3. QED
      BY <1>1, <2>1, <2>2, <2>3, <3>1, <3>2
  <2>4. Holding'
    <3>1. ASSUME NEW r \in Ranks, r # x
          PROVE  /\ Sized(snap'[r], r, bytes)
                 /\ Divides(bytes) => /\ \A k \in 0 .. bytes - 1 : snap'[r].data[k] = truth'[r].data[k]
                                      /\ snap'[r].parity = truth'[r].parity
      BY <1>1, <2>1, <3>1 DEF PInv, Holding
    <3>2. QED
      BY <1>1, <1>2, <1>6, <2>1, <2>3, <3>1 DEF Holding
  <2>5. Rebuilding'
    BY <1>1, <1>6 DEF Rebuilding
  <2>6. QED
    BY <1>3, <1>4, <2>4, <2>5 DEF PInv
<1>7. QED
  BY <1>5, <1>6

-----------------------------------------------------------------------------
(* The theorems *)

LEMMA Invariance == Spec => []PInv
<1>1. Init => PInv
  BY InitPInv
<1>2. PInv /\ [Next]_vars => PInv'
  BY StoreStep, ProtectStep, CommitStep, FailStep, RecoverStep, RepairStep, UnchangedStep
     DEF Next, Finished, vars
<1>3. QED
  BY <1>1, <1>2, PTL DEF Spec

(***************************************************************************)
(* The assertions of iprotect and repair never fail: in a cohort of any     *)
(* size and for any number of bytes, also one that does not divide evenly,  *)
(* a chunk is past the end of its buffer by at most one byte                *)
(* (prepare_for_parity).                                                    *)
(***************************************************************************)
THEOREM ChunksFit == Spec => []OverrunsByOne
<1>1. PInv => OverrunsByOne
  <2>1. SUFFICES ASSUME PInv PROVE OverrunsByOne
    OBVIOUS
  <2>2. root \in Ranks
    BY <2>1 DEF PInv, Typed
  <2>3. ASSUME phase = "protect", NEW r \in Ranks
        PROVE  LET len == ParityBytes(StoreBytes(commits))[root]
               IN  Overruns(stage[r], r, len) => offset[r] + len = stage[r].size + 1
    <3>1. InTurn(stage, StoreBytes(commits))
      BY <2>1, <2>3 DEF PInv, Storing, InTurn
    <3>2. StoreBytes(commits) \in Nat
      BY <2>1, StoredBytes DEF PInv
    <3>3. QED
      BY <2>2, <3>1, <3>2, InputFacts
  <2>4. ASSUME phase = "repair", NEW r \in Ranks
        PROVE  LET len == ParityBytes(SnapBytes)[root]
               IN  Overruns(snap[r], r, len) => offset[r] + len = snap[r].size + 1
    <3>1. PICK x \in Ranks : held = Ranks \ {x} /\ Sized(snap[x], x, SnapBytes)
                             /\ offset = [q \in Ranks |-> Position(snap[q].size, SnapBytes, root, q)]
      BY <2>1, <2>4 DEF PInv, Rebuilding
    <3>2. InTurn(snap, SnapBytes)
      BY <2>1, <3>1 DEF PInv, Holding, InTurn
    <3>3. 0 \in Ranks /\ 1 \in Ranks
      BY ParityAssumption DEF Ranks
    <3>4. commits > 0
      BY <2>1, <3>1, <3>3 DEF PInv, Secured
    <3>5. SnapBytes \in Nat
      BY <2>1, <3>4, StoredBytes DEF PInv
    <3>6. QED
      BY <2>2, <3>2, <3>5, InputFacts
  <2>5. QED
    BY <2>3, <2>4 DEF OverrunsByOne
<1>2. QED
  BY <1>1, Invariance, PTL

(***************************************************************************)
(* When what was stored divides evenly among the partners, the loop of      *)
(* reductions in repair gives the recovering rank the bytes that it had     *)
(* committed, whichever rank it is, and after any number of failures and    *)
(* interrupted repairs.                                                     *)
(***************************************************************************)
THEOREM ParityRebuildsBytes == Spec => []EvenBytesRestored
<1>1. PInv => EvenBytesRestored
  BY DEF PInv, Holding, EvenBytesRestored, BytesRestored, Even, Divides
<1>2. QED
  BY <1>1, Invariance, PTL

\* The same loop rebuilds the parity that the rank kept for the others.
THEOREM ParityRebuildsParity == Spec => []EvenParityRestored
<1>1. PInv => EvenParityRestored
  BY DEF PInv, Holding, EvenParityRestored, Even, Divides
<1>2. QED
  BY <1>1, Invariance, PTL
=============================================================================
