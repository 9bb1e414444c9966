------------------------------- MODULE Subsets -------------------------------
(***************************************************************************)
(* fenix::DataSubset: the set of regions that a stored or recovered part of  *)
(* a member is described by, with its operations: creation, union,           *)
(* difference, bounding, comparison, packing and the conversion to a         *)
(* datatype.                                                                 *)
(***************************************************************************)
EXTENDS Regions, Datatypes

-----------------------------------------------------------------------------
(* The regions of a set after this one, in the order of iteration *)
After(R, r) == {q \in R : Less(r, q)}
NextOf(R, r) == IF After(R, r) = {} THEN {} ELSE {Least(After(R, r))}
FirstOf(R) == IF R = {} THEN {} ELSE {Least(R)}

StartOf(R) == IF R = {} THEN MAX ELSE Least(R).start
EndOf(R)   == IF R = {} THEN MAX ELSE CHOOSE e \in {RangeEnd(r) : r \in R} : \A r \in R : RangeEnd(r) <= e

(* the stride of the last region that has one *)
StrideOf(R) == LET S == {r \in R : r.reps # 0} IN IF S = {} THEN 0 ELSE Greatest(S).stride

MixedStrides(A, B) == StrideOf(A) # 0 /\ StrideOf(B) # 0 /\ StrideOf(A) # StrideOf(B)

Blocks(R) == UNION {{GetRep(r, n) : n \in 0 .. r.reps} : r \in R}

(* merge_regions: check is the iterator, i the one that looks for a neighbour *)
MergedPieces(check, i) ==
  LET gap     == Word(i.start - 1 - check.end)
      overlap == Word(i.end + 1 - check.start)
      follows == gap % check.stride = 0
      idx     == (IF follows THEN gap ELSE overlap) \div check.stride
      reps    == Smaller(Word(check.reps - idx), i.reps)
      offset  == Word(idx * check.stride)
      merged  == IF follows
                 THEN DataRegion(Word(check.start + offset), i.end, reps, check.stride)
                 ELSE DataRegion(i.start, Word(check.end + offset), reps, check.stride)
      before  == IF idx > 0 THEN {DataRegion(check.start, check.end, idx - 1, check.stride)} ELSE {}
      rest(r, n) == DataRegion(r.start + n * r.stride, r.end + n * r.stride, r.reps - n, r.stride)
      after   == CASE idx + reps < check.reps -> {rest(check, idx + reps + 1)}
                   [] idx + reps >= check.reps /\ reps < i.reps -> {rest(i, reps + 1)}
                   [] OTHER -> {}
  IN  {merged} \cup before \cup after

Adjacent(check, i) ==
  \/ Word(i.start - 1 - check.end) % check.stride = 0
  \/ Word(i.end + 1 - check.start) % check.stride = 0

(* the first neighbour that check can be merged with *)
Neighbour(R, check) ==
  LET reach == {i \in After(R, check) : RangeEnd(check) >= Word(i.start - 1)}
      found == {i \in reach : Adjacent(check, i) /\ \A j \in After(R, check) : Less(j, i) => j \in reach}
  IN  FirstOf(found)

RECURSIVE MergeFrom(_, _)
MergeFrom(R, check) ==
  LET near  == Neighbour(R, check)
      grown == (R \cup UNION {MergedPieces(check, i) : i \in near}) \ near
      left  == IF near = {} THEN R ELSE grown \ {check}
      next  == NextOf(grown, check)
  IN  IF next = {} THEN left ELSE MergeFrom(left, Least(next))

MergeRegions(R) == IF R = {} THEN {} ELSE MergeFrom(R, Least(R))

(* the merging constructor, operator+ *)
RECURSIVE Carve(_, _, _)
Carve(adding, it, r) ==
  LET valid == Minus(it, r)
      next  == NextOf(adding, it)
      left  == (adding \ {it}) \cup valid
  IN  IF next = {} THEN left ELSE Carve(left, Least(next), r)

(* what is left of br when the regions of R, from r on, are taken away *)
RECURSIVE CarveAll(_, _, _, _)
CarveAll(adding, br, R, r) ==
  LET left == IF RangeEnd(r) < br.start \/ adding = {} THEN adding ELSE Carve(adding, Least(adding), r)
      next == NextOf(R, r)
  IN  IF r.start > RangeEnd(br) THEN adding
      ELSE IF next = {} THEN left ELSE CarveAll(left, br, R, Least(next))

RECURSIVE AddEach(_, _)
AddEach(R, B) ==
  IF B = {} THEN R
  ELSE LET br == Least(B) IN AddEach(R \cup CarveAll({br}, br, R, Least(R)), B \ {br})

Union(A, B) ==
  IF A = {} THEN B
  ELSE IF B = {} THEN A
  ELSE IF full_region \in A \cup B THEN {full_region}
  ELSE MergeRegions(AddEach(IF MixedStrides(A, B) THEN Blocks(A) ELSE A, B))

(* bounded_regions *)
BoundedRegions(R, from, to) ==
  IF R = {} THEN {}
  ELSE IF StartOf(R) >= from /\ EndOf(R) <= to THEN R
  ELSE UNION {Meet(r, Block(from, to)) : r \in {q \in R : q.start <= to /\ RangeEnd(q) >= from}}

(* bound and bounded *)
Bounded(R, max) ==
  IF max = MAX \/ R = {} \/ EndOf(R) <= max THEN R ELSE BoundedRegions(R, 0, max)

(* operator-, iterating over what remains while it changes *)
RECURSIVE SubtractFrom(_, _, _)
SubtractFrom(R, it, b) ==
  LET next == NextOf(R, it)
      left == IF b.start > RangeEnd(it) THEN R ELSE (R \ {it}) \cup Minus(it, b)
  IN  IF it.start > RangeEnd(b) THEN R
      ELSE IF next = {} THEN left ELSE SubtractFrom(left, Least(next), b)

RECURSIVE SubtractEach(_, _)
SubtractEach(R, B) ==
  IF B = {} \/ R = {} THEN R
  ELSE SubtractEach(SubtractFrom(R, Least(R), Least(B)), B \ {Least(B)})

Difference(A, B) ==
  IF A = {} \/ B = {} THEN A
  ELSE LET bEnd == EndOf(B)
           apart == IF bEnd # MAX THEN BoundedRegions(A, bEnd + 1, MAX) ELSE {}
           remaining == IF MixedStrides(A, B)
                        THEN Blocks(BoundedRegions(A, 0, bEnd)) \cup apart ELSE A
       IN  MergeRegions(SubtractEach(remaining, B))

(* operator== *)
Equal(A, B) ==
  /\ StartOf(A) = StartOf(B) /\ (A = {} <=> B = {})
  /\ \/ A = B
     \/ /\ EndOf(A) = EndOf(B)
        /\ ~(MixedStrides(A, B) /\ EndOf(A) = MAX)
        /\ Difference(A, B) = {} /\ Difference(B, A) = {}

Includes(R, x) == BoundedRegions(R, x, x) # {}

IncludesAll(R, last) == SubtractEach({Block(0, last)}, {r \in R : r.start <= last}) = {}

(* count, the number of elements up to max; 0 when there is no end *)
Count(R, max) ==
  LET bounded == BoundedRegions(R, 0, max) IN
  IF \E r \in bounded : RegionCount(r) = MAX THEN 0
  ELSE FoldSet(LAMBDA r, n : n + RegionCount(r), 0, bounded)

(* BlockIter: the blocks in the order of iteration *)
RECURSIVE BlockSeq(_)
BlockSeq(R) ==
  IF R = {} THEN << >>
  ELSE LET r == Least(R) IN [n \in 1 .. r.reps + 1 |-> GetRep(r, n - 1)] \o BlockSeq(R \ {r})

(* the indices that pack_data reads and unpack_data writes, one after the other *)
Order(R, max) ==
  LET blocks == BlockSeq(BoundedRegions(R, 0, max)) IN
  FlattenSeq([k \in DOMAIN blocks |->
    [j \in 1 .. blocks[k].end - blocks[k].start + 1 |-> blocks[k].start + j - 1]])

PackData(R, src) ==
  LET order == Order(R, Len(src) - 1) IN [k \in DOMAIN order |-> src[order[k] + 1]]

(* an empty buffer is made as large as the subset needs *)
UnpackData(R, packed, dst) ==
  LET size  == IF dst = << >> THEN EndOf(R) + 1 ELSE Len(dst)
      order == Order(R, size - 1)
      from(i) == {k \in DOMAIN order : order[k] = i - 1}
  IN  [i \in 1 .. size |-> IF from(i) # {} THEN packed[Max(from(i))]
                           ELSE IF i <= Len(dst) THEN dst[i] ELSE 0]

(* serialize, and the constructor that reads the regions back *)
SerializeSubset(R)     == SetToSortSeq(R, Less)
DeserializeSubset(buf) == {buf[k] : k \in DOMAIN buf}

(* to_datatype *)
ToDatatype(R, base) ==
  LET blocks == BlockSeq(R) IN
  Indexed([k \in DOMAIN blocks |-> blocks[k].end - blocks[k].start + 1],
          [k \in DOMAIN blocks |-> blocks[k].start], base)

(* the constructors; the assertions of the first *)
ValidArgs(a) == a.first <= a.last /\ a.n > 0 /\ (a.n = 1 \/ a.first + a.stride > a.last)
Created(a)  == {DataRegion(a.first, a.last, a.n - 1, a.stride)}
CreatedV(v) == MergeRegions({Block(v[k][1], v[k][2]) : k \in DOMAIN v})
=============================================================================
