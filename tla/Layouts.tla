------------------------------- MODULE Layouts -------------------------------
(***************************************************************************)
(* An application describes its data: it builds a subset with up to MaxOps   *)
(* operations on subsets, and a datatype from it or by hand, which is then   *)
(* packed, sent or kept.                                                     *)
(***************************************************************************)
EXTENDS Subsets

CONSTANTS Horizon,     \* bound: the indices looked at one by one
          Simple,      \* bound: the arguments [first, last, n, stride] of a new subset
          Vectors,     \* bound: the sequences of <<first, last>> of a new subset
          Numbers,     \* bound: the integers that describe a derived type
          Lists,       \* bound: the sequences of integers that do
          MaxOps,      \* bound: operations on the subset
          MaxDepth     \* bound: derived types inside each other

VARIABLES regions,   \* DataSubset::regions
          elements,  \* the indices the subset is meant to hold (history)
          type,      \* a datatype
          ops        \* operations done, on the one or the other

vars == <<regions, elements, type, ops>>

(* The indices of Horizon and the largest one, for what has no end or wraps. *)
Universe == 0 .. Horizon \cup {MAX}
Within(r) ==
  {x \in Universe : /\ r.start <= x /\ r.start <= r.end
                    /\ IF r.reps = 0 THEN x <= r.end
                       ELSE /\ (x - r.start) % r.stride <= r.end - r.start
                            /\ (x - r.start) \div r.stride <= r.reps}
Elements(R) == UNION {Within(r) : r \in R}

Init == regions = {} /\ elements = {} /\ type = DatatypeNull /\ ops = 0

-----------------------------------------------------------------------------
Holds(R, S) == regions' = R /\ elements' = S /\ ops' = ops + 1 /\ UNCHANGED type

CreateV(v)  == ops = 0 /\ Holds(CreatedV(v), UNION {v[k][1] .. v[k][2] : k \in DOMAIN v})
Add(B)      == Holds(Union(regions, B), elements \cup Elements(B))
AddTo(B)    == Holds(Union(B, regions), elements \cup Elements(B))
Take(B)     == Holds(Difference(regions, B), elements \ Elements(B))
TakeFrom(B) == Holds(Difference(B, regions), Elements(B) \ elements)
Bound(max)  == Holds(Bounded(regions, max), {x \in elements : x <= max})

SubsetStep ==
  /\ ops < MaxOps /\ type = DatatypeNull
  /\ \/ \E v \in Vectors : CreateV(v)
     \/ \E a \in {s \in Simple : ValidArgs(s)} :
          Add(Created(a)) \/ AddTo(Created(a)) \/ Take(Created(a)) \/ TakeFrom(Created(a))
     \/ \E max \in 0 .. Horizon : Bound(max)

(* the datatype of a subset *)
Describe(name) ==
  /\ type = DatatypeNull /\ regions # {} /\ EndOf(regions) # MAX
  /\ type' = ToDatatype(regions, Named(name))
  /\ UNCHANGED <<regions, elements, ops>>

Begin(name) ==
  /\ ops = 0 /\ type = DatatypeNull
  /\ type' = Named(name)
  /\ UNCHANGED <<regions, elements, ops>>

SameLength(n) == {l \in Lists : Len(l) = n}

(* a datatype made of the present one *)
Wrap(t) ==
  /\ regions = {} /\ type # DatatypeNull /\ ops < MaxDepth
  /\ type' = t /\ ops' = ops + 1
  /\ UNCHANGED <<regions, elements>>

WrapCounted ==
  \E a, b, c \in Numbers :
    \/ Wrap(Contiguous(a, type)) \/ Wrap(Resized(type, a, b)) \/ Wrap(Dup(type))
    \/ Wrap(Vector(a, b, c, type)) \/ Wrap(Hvector(a, b, c, type))

WrapListed ==
  \E a \in Numbers, l \in Lists : \E m \in SameLength(Len(l)) :
    \/ Wrap(Indexed(l, m, type)) \/ Wrap(Hindexed(l, m, type))
    \/ Wrap(IndexedBlock(a, l, type)) \/ Wrap(HindexedBlock(a, l, type))
    \/ \E name \in Builtin : Wrap(Struct(l, m, [k \in DOMAIN l |-> IF k = 1 THEN type ELSE Named(name)]))

WrapArray ==
  \E a, b \in Numbers, l \in Lists : \E m, n \in SameLength(Len(l)) :
    \/ Wrap(Subarray(l, m, n, a, type))
    \/ Wrap(Darray(a, b, l, m, n, l, b, type))

Next ==
  \/ SubsetStep
  \/ \E name \in Builtin : Describe(name) \/ Begin(name)
  \/ WrapCounted \/ WrapListed \/ WrapArray

Spec == Init /\ [][Next]_vars

-----------------------------------------------------------------------------
(* After up to three operations, the bound of the run, the regions hold exactly  *)
(* the elements they are meant to, and no assertion about a region failed        *)
(* (subset.cpp 408-623).  Four can fail the one that StridesAgree states.        *)
ElementsExact == Elements(regions) = elements /\ \A r \in regions : Asserted(r)

(* "Both are strided. For now, only allow same-stride operations"                *)
(* (subset.cpp 99): no operation meets two regions of different strides, since   *)
(* + and - take the strides of one of them apart first.                          *)
StridesAgree == Aborted \notin regions

(* pack_data out of one buffer and unpack_data into another of the same size, on a *)
(* rank that was sent the subset                                                   *)
Transferred(src, dst) ==
  UnpackData(DeserializeSubset(SerializeSubset(regions)), PackData(regions, src), dst)

(* What is asked of a subset is answered as of the set of its elements, although *)
(* the same set can be cut into regions in many ways: count (no element is in    *)
(* two regions), includes, includes_all and operator==; and pack_data and         *)
(* unpack_data move exactly these elements (subset.cpp 625-817).                  *)
AnswersExact ==
  /\ \A x \in 0 .. Horizon :
       /\ Count(regions, x) = Cardinality({y \in elements : y <= x})
       /\ Includes(regions, x) <=> x \in elements
       /\ IncludesAll(regions, x) <=> 0 .. x \subseteq elements
  /\ \A a \in {s \in Simple : ValidArgs(s)} :
       Equal(regions, Created(a)) <=> Elements(Created(a)) = elements
  /\ LET src == [k \in 1 .. Horizon |-> k]
         dst == [k \in 1 .. Horizon |-> 0 - k]
         new == Transferred(src, dst)
     IN  \A k \in 1 .. Horizon : new[k] = IF k - 1 \in elements THEN src[k] ELSE dst[k]

(* the elements that an indexed type selects, in the order in which they are sent *)
Selected(t) ==
  LET n == t.ints[1] IN
  FlattenSeq([k \in 1 .. n |-> [j \in 1 .. t.ints[1 + k] |-> t.ints[1 + n + k] + j - 1]])

(* A datatype comes back from its buffer as it was, however derived; a buffer     *)
(* that is cut off anywhere throws ("Throws if buffer is invalid",                *)
(* datatype.hpp 134); the datatype of a subset selects what pack_data does.        *)
TypesExact ==
  LET buf == Serialize(type) IN
  /\ Deserialize(buf) = [types |-> <<type>>, next |-> Len(buf) + 1]
  /\ \A k \in 0 .. Len(buf) - 1 : Deserialize(SubSeq(buf, 1, k)) = Unread
  /\ regions # {} /\ type # DatatypeNull => Selected(type) = Order(regions, Horizon)
=============================================================================
