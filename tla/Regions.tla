------------------------------- MODULE Regions -------------------------------
(***************************************************************************)
(* fenix::detail::DataRegion: a block of indices repeated at a stride, with *)
(* the intersection, the difference and the merging of two regions.  All    *)
(* numbers are size_t, so sums and differences wrap; a std::set is a set     *)
(* that is iterated in the order of operator<.                              *)
(***************************************************************************)
EXTENDS Integers, FiniteSets

(* size_t with 16 bits: 2^16 and 2^64 are the same modulo every stride up to 10. *)
Words == 2^16
MAX   == Words - 1
Word(n) == n % Words

Larger(a, b)  == IF a > b THEN a ELSE b
Smaller(a, b) == IF a < b THEN a ELSE b

(* the constructor: blocks without gaps between them become one block *)
DataRegion(first, last, m_reps, m_stride) ==
  LET joined == last # MAX /\ Word(last + 1) = Word(first + m_stride)
      reps   == IF joined \/ last = MAX THEN 0 ELSE m_reps
  IN  [start |-> first, end |-> IF joined THEN Word(last + m_reps * m_stride) ELSE last,
       reps |-> reps, stride |-> IF reps = 0 THEN MAX ELSE m_stride]

Block(first, last) == DataRegion(first, last, 0, MAX)
full_region == Block(0, MAX)

(* its assertions *)
Asserted(r) ==
  /\ r.start <= r.end
  /\ r.stride # MAX \/ r.reps = 0
  /\ r.reps = 0 \/ r.start + r.stride > r.end

RangeEnd(r) == IF r.reps = MAX THEN MAX ELSE IF r.reps = 0 THEN r.end ELSE Word(r.end + r.stride * r.reps)

\* Mutant: the first block is not counted.
MutRegionCount(r) ==
  IF r.end = MAX \/ r.reps = MAX THEN MAX ELSE Word((r.end - r.start + 1) * Larger(r.reps, 1))
RegionCount(r) ==
  IF r.end = MAX \/ r.reps = MAX THEN MAX ELSE Word((r.end - r.start + 1) * (r.reps + 1))

(* operator< *)
Less(a, b) ==
  \/ a.start < b.start
  \/ a.start = b.start /\ a.end < b.end
  \/ a.start = b.start /\ a.end = b.end /\ a.reps < b.reps
  \/ a.start = b.start /\ a.end = b.end /\ a.reps = b.reps /\ a.stride < b.stride

Least(S)    == CHOOSE r \in S : \A q \in S : ~Less(q, r)
Greatest(S) == CHOOSE r \in S : \A q \in S : ~Less(r, q)

GetRep(r, n) == Block(r.start + n * r.stride, r.end + n * r.stride)
GetReps(r, first, last) ==
  DataRegion(r.start + first * r.stride, r.end + first * r.stride, last - first, r.stride)

(* the region between the repetitions *)
\* Mutant: the gaps begin with the last element of the blocks.
MutInverted(r) ==
  DataRegion(r.end, r.start + r.stride - 1, IF r.reps = MAX THEN MAX ELSE r.reps - 1, r.stride)
Inverted(r) ==
  DataRegion(r.end + 1, r.start + r.stride - 1, IF r.reps = MAX THEN MAX ELSE r.reps - 1, r.stride)

RangesMeet(a, b) == a.start <= RangeEnd(b) /\ b.start <= RangeEnd(a)

(* "For now, only allow same-stride operations": the assertion of operator&& *)
SameStride(a, b) == RangesMeet(a, b) /\ a.reps # 0 /\ b.reps # 0 => a.stride = b.stride

(* what an operation leaves when its assertion fails *)
Aborted == [start |-> MAX, end |-> 0, reps |-> 0, stride |-> MAX]

(* operator&&: of regions of which one has no stride, only the ranges are compared *)
Intersects(a, b) ==
  /\ RangesMeet(a, b)
  /\ \/ a.reps = 0 \/ b.reps = 0
     \/ LET from == Larger(a.start, b.start)
            arep == (from - a.start) \div a.stride
            brep == (from - b.start) \div a.stride
        IN  \/ RangesMeet(GetRep(a, arep), GetRep(b, brep))
            \/ arep < a.reps /\ RangesMeet(GetRep(b, brep), GetRep(a, arep + 1))
            \/ brep < b.reps /\ RangesMeet(GetRep(a, arep), GetRep(b, brep + 1))

(* operator&, of two blocks, and of a strided region with a block *)
BlocksMeet(a, b) ==
  IF RangesMeet(a, b) THEN {Block(Larger(a.start, b.start), Smaller(a.end, b.end))} ELSE {}

(* what is left of repetition n of a if b cuts it, in a set of its own; else nothing *)
Cut(a, n, b) ==
  LET rest == BlocksMeet(GetRep(a, n), b) IN IF GetRep(a, n) \in rest THEN {} ELSE {rest}

(* repetitions first .. last of a, of which b may cut the two at the ends *)
Trimmed(a, first, last, head, tail) ==
  LET from == first + Cardinality(head)
  IN  IF (head # {} /\ first = a.reps) \/ last < from THEN UNION head
      ELSE UNION head \cup UNION tail
             \cup (IF tail # {} /\ last = from THEN {} ELSE {GetReps(a, from, last - Cardinality(tail))})

StridedMeets(a, b) ==
  LET first == IF b.start > a.start THEN (b.start - a.start) \div a.stride ELSE 0
      last  == IF b.end < RangeEnd(a) THEN (b.end - a.start) \div a.stride ELSE a.reps
  IN  IF ~RangesMeet(a, b) THEN {}
      ELSE Trimmed(a, first, last, IF b.start > a.start THEN Cut(a, first, b) ELSE {},
                                   IF b.end < RangeEnd(a) THEN Cut(a, last, b) ELSE {})

Meet(a, b) ==
  IF a.reps = 0 /\ b.reps = 0 THEN BlocksMeet(a, b)
  ELSE StridedMeets(IF b.reps # 0 THEN b ELSE a, IF b.reps # 0 THEN a ELSE b)

(* try_merge: the set is empty or holds the merged region *)
MergeOrdered(a, b) ==
  LET s == IF a.reps # 0 THEN a.stride ELSE b.stride
  IN  IF RangeEnd(a) = MAX THEN {}
      ELSE IF a.reps = 0 /\ b.reps = 0
      THEN IF a.end + 1 = b.start THEN {Block(a.start, b.end)} ELSE {}
      ELSE IF /\ Word(a.start + s * (a.reps + 1)) = b.start
              /\ Word(a.end + s * (a.reps + 1)) = b.end
      THEN {DataRegion(a.start, a.end, a.reps + b.reps + 1, s)} ELSE {}

TryMerge(p, q) == MergeOrdered(IF Less(q, p) THEN q ELSE p, IF Less(q, p) THEN p ELSE q)

(* merge_adjacent_sets *)
RECURSIVE MergeTail(_)
MergeTail(A) ==
  IF Cardinality(A) < 2 THEN A
  ELSE LET last   == Greatest(A)
           before == Greatest(A \ {last})
           merged == TryMerge(before, last)
       IN  IF merged = {} THEN A ELSE MergeTail((A \ {last, before}) \cup merged)

RECURSIVE MergeAdjacent(_, _)
MergeAdjacent(A, B) ==
  LET merged == IF A = {} \/ B = {} THEN {} ELSE TryMerge(Greatest(A), Least(B))
  IN  IF merged = {} THEN MergeTail(A \cup B)
      ELSE MergeAdjacent((A \ {Greatest(A)}) \cup merged, B \ {Least(B)})

(* operator-: what is before b, between its repetitions, and after it *)
(* The first and the last repetition of a part p are met with the gaps inv one  *)
(* by one; the second stands for all between them.                              *)
InGaps(p, inv, stride) ==
  UNION {{IF n \in {0, p.reps} THEN m ELSE DataRegion(m.start, m.end, p.reps - 2, stride)
            : m \in Meet(GetRep(p, n), inv)} : n \in {0, Smaller(1, p.reps), p.reps}}
Between(a, b) ==
  UNION {InGaps(p, Inverted(b), b.stride) : p \in Meet(a, Block(b.start, RangeEnd(b)))}

Minus(a, b) ==
  LET before == IF b.start > 0 THEN Meet(a, Block(0, b.start - 1)) ELSE {}
      joined(A, B, wanted) == IF wanted THEN MergeAdjacent(A, B) ELSE A
  IN  IF ~SameStride(a, b) THEN {Aborted}
      ELSE IF ~Intersects(a, b) THEN {a}
      ELSE joined(joined(before, Between(a, b), b.reps # 0),
                  Meet(a, Block(RangeEnd(b) + 1, MAX)), RangeEnd(b) # MAX)
=============================================================================
