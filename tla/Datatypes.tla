------------------------------ MODULE Datatypes ------------------------------
(***************************************************************************)
(* fenix::mpixx::Datatype: MPI datatypes, how one is written into a buffer   *)
(* that is kept with a log or sent to another rank, and how it is built      *)
(* again from there.  A datatype is what MPI_Type_get_contents tells of it;  *)
(* a buffer is a sequence of values with the number of bytes of each.        *)
(***************************************************************************)
EXTENDS Integers, Sequences, SequencesExt

CONSTANT Builtin    \* the named types of builtin_mappings

Derived(combiner, ints, addrs, types) ==
  [combiner |-> combiner, ints |-> ints, addrs |-> addrs, types |-> types]
Named(name) == Derived(name, << >>, << >>, << >>)
DatatypeNull == Named("null")

Contiguous(count, t)          == Derived("contiguous", <<count>>, << >>, <<t>>)
Vector(count, len, stride, t) == Derived("vector", <<count, len, stride>>, << >>, <<t>>)
Hvector(count, len, stride, t) == Derived("hvector", <<count, len>>, <<stride>>, <<t>>)
Indexed(lens, displs, t)      == Derived("indexed", <<Len(lens)>> \o lens \o displs, << >>, <<t>>)
Hindexed(lens, displs, t)     == Derived("hindexed", <<Len(lens)>> \o lens, displs, <<t>>)
IndexedBlock(len, displs, t)  == Derived("indexed_block", <<Len(displs), len>> \o displs, << >>, <<t>>)
HindexedBlock(len, displs, t) == Derived("hindexed_block", <<Len(displs), len>>, displs, <<t>>)
Struct(lens, displs, types)   == Derived("struct", <<Len(lens)>> \o lens, displs, types)
Subarray(sizes, subsizes, starts, order, t) ==
  Derived("subarray", <<Len(sizes)>> \o sizes \o subsizes \o starts \o <<order>>, << >>, <<t>>)
Darray(size, rank, gsizes, distribs, dargs, psizes, order, t) ==
  Derived("darray", <<size, rank, Len(gsizes)>> \o gsizes \o distribs \o dargs \o psizes \o <<order>>, << >>, <<t>>)
Resized(t, lb, extent)        == Derived("resized", << >>, <<lb, extent>>, <<t>>)
Dup(t)                        == Derived("dup", << >>, << >>, <<t>>)

-----------------------------------------------------------------------------
(* write_array: int32_t for integers, int64_t for addresses *)
Write(bytes, values) == [k \in DOMAIN values |-> [bytes |-> bytes, value |-> values[k]]]
Magic == Write(4, <<"FDTP">>)

RECURSIVE SerializeRecursive(_)
SerializeRecursive(t) ==
  Write(1, <<t.combiner>>) \o Write(4, t.ints) \o Write(8, t.addrs)
    \o FlattenSeq([k \in DOMAIN t.types |-> SerializeRecursive(t.types[k])])

Serialize(t) == Magic \o SerializeRecursive(t)

(* read_val and read_vector: the n values at a place, which throw at the end of *)
(* the buffer.  A value of another width than the one written is garbage.       *)
Reads(buf, at, n, bytes) == at + n - 1 <= Len(buf) /\ \A k \in at .. at + n - 1 : buf[k].bytes = bytes
Values(buf, at, n) == [k \in 1 .. n |-> buf[at + k - 1].value]

(* How many integers and addresses each combiner reads: the first are counts. *)
Ints(c, buf, at) ==
  LET n(k) == IF Reads(buf, at, k, 4) THEN buf[at + k - 1].value ELSE 0 IN
  CASE c = "contiguous" -> 1
    [] c = "vector" -> 3
    [] c \in {"hvector", "hindexed_block"} -> 2
    [] c = "indexed" -> 1 + 2 * n(1)
    [] c \in {"hindexed", "struct"} -> 1 + n(1)
    [] c = "indexed_block" -> 2 + n(1)
    [] c = "subarray" -> 2 + 3 * n(1)
    [] c = "darray" -> 4 + 4 * n(3)
    [] OTHER -> 0

\* Mutant: as many displacements as the block is long.
MutAddrs(c, ints) ==
  CASE c = "hvector" -> 1
    [] c = "hindexed_block" -> ints[2]
    [] c \in {"hindexed", "struct"} -> ints[1]
    [] c = "resized" -> 2
    [] OTHER -> 0
Addrs(c, ints) ==
  CASE c = "hvector" -> 1
    [] c \in {"hindexed", "hindexed_block", "struct"} -> ints[1]
    [] c = "resized" -> 2
    [] OTHER -> 0

(* The factory that each combiner calls with what it read *)
Rebuilt(c, i, a, types) ==
  LET part(from, n) == SubSeq(i, from, from + n - 1)
      t == types[1]
  IN  CASE c = "dup" -> Dup(t)
        [] c = "contiguous" -> Contiguous(i[1], t)
        [] c = "vector" -> Vector(i[1], i[2], i[3], t)
        [] c = "hvector" -> Hvector(i[1], i[2], a[1], t)
        [] c = "indexed" -> Indexed(part(2, i[1]), part(2 + i[1], i[1]), t)
        [] c = "hindexed" -> Hindexed(part(2, i[1]), a, t)
        [] c = "indexed_block" -> IndexedBlock(i[2], part(3, i[1]), t)
        [] c = "hindexed_block" -> HindexedBlock(i[2], a, t)
        [] c = "struct" -> Struct(part(2, i[1]), a, types)
        [] c = "subarray" -> Subarray(part(2, i[1]), part(2 + i[1], i[1]), part(2 + 2 * i[1], i[1]),
                                      i[2 + 3 * i[1]], t)
        [] c = "darray" -> Darray(i[1], i[2], part(4, i[3]), part(4 + i[3], i[3]), part(4 + 2 * i[3], i[3]),
                                  part(4 + 3 * i[3], i[3]), i[4 + 4 * i[3]], t)
        [] c = "resized" -> Resized(t, a[1], a[2])

(* The datatype at this place of the buffer and where it ends; no type when   *)
(* the reader throws.                                                          *)
Unread == [types |-> << >>, next |-> 0]

(* n integers and m addresses follow the combiner c, and then the inner types *)
Assembled(buf, at, c, n, m, inner) ==
  IF ~Reads(buf, at + 1, n, 4) \/ ~Reads(buf, at + 1 + n, m, 8) \/ inner.next = 0 THEN Unread
  ELSE [types |-> <<Rebuilt(c, Values(buf, at + 1, n), Values(buf, at + 1 + n, m), inner.types)>>,
        next |-> inner.next]

RECURSIVE ReadTypes(_, _, _)
RECURSIVE DeserializeRecursive(_, _)
ReadTypes(buf, at, n) ==
  IF n = 0 THEN [types |-> << >>, next |-> at]
  ELSE LET first == DeserializeRecursive(buf, at) IN
       IF first.next = 0 THEN Unread
       ELSE LET rest == ReadTypes(buf, first.next, n - 1) IN
            IF rest.next = 0 THEN Unread ELSE [rest EXCEPT !.types = first.types \o @]

DeserializeRecursive(buf, at) ==
  IF ~Reads(buf, at, 1, 1) THEN Unread
  ELSE LET c == buf[at].value
           n == Ints(c, buf, at + 1)
           m == Addrs(c, Values(buf, at + 1, n))
           inner == ReadTypes(buf, at + 1 + n + m, IF c = "struct" THEN buf[at + 1].value ELSE 1)
       IN  IF c \in Builtin \cup {"null"} THEN [types |-> <<Named(c)>>, next |-> at + 1]
           ELSE Assembled(buf, at, c, n, m, inner)

Deserialize(buf) ==
  IF ~Reads(buf, 1, 1, 4) THEN Unread
  ELSE IF buf[1] # Magic[1] THEN Unread ELSE DeserializeRecursive(buf, 2)
=============================================================================
