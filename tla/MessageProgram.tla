--------------------------- MODULE MessageProgram ---------------------------
(***************************************************************************)
(* What a deterministic application does with the message log: in each     *)
(* region a rank calls begin_region and then a fixed list of logged MPI    *)
(* operations; after some regions all ranks take a checkpoint together.    *)
(* A position in the program is a region and a step: step 0 is             *)
(* begin_region, step k the k-th operation.                                *)
(***************************************************************************)
EXTENDS Integers, Sequences, FiniteSets

CONSTANTS NRanks,      \* size of the communicator that is logged
          Program,     \* Program[region + 1][rank + 1]: a sequence of operations
          CkptAfter    \* the regions after which there is a checkpoint

Rank   == 0 .. NRanks - 1
Region == 0 .. Len(Program) - 1
Ops(r, reg) == Program[reg + 1][r + 1]

(* Operations: MPI_Send, MPI_Recv, and collectives by who waits for whom. *)
SendTo(q)    == [op |-> "send", peer |-> q]
RecvFrom(q)  == [op |-> "recv", peer |-> q]
Bcast(root)  == [op |-> "bcast", peer |-> root]
Reduce(root) == [op |-> "reduce", peer |-> root]
Barrier      == [op |-> "barrier", peer |-> 0]
Allreduce    == [op |-> "allreduce", peer |-> 0]

IsColl(o) == o.op \in {"bcast", "reduce", "barrier", "allreduce"}

ASSUME ProgramAssumption ==
  /\ NRanks \in Nat \ {0}
  /\ CkptAfter \subseteq Region
  /\ \A reg \in Region, r \in Rank : \A k \in 1 .. Len(Ops(r, reg)) :
        Ops(r, reg)[k].peer \in Rank

Start == [reg |-> 0, k |-> 0]
Earlier(p, q) == p.reg < q.reg \/ (p.reg = q.reg /\ p.k < q.k)
AtOp(r, p)    == p.reg \in Region /\ p.k \in 1 .. Len(Ops(r, p.reg))
OpAt(r, p)    == Ops(r, p.reg)[p.k]
Following(p)  == [p EXCEPT !.k = @ + 1]
AtEndOf(r, p, reg) == p = [reg |-> reg, k |-> Len(Ops(r, reg)) + 1]

(* The region that rank r begins next at p: the one it restarts in, or the   *)
(* one after a region that ends without a checkpoint; else none.             *)
Begins(r, p) ==
  IF p.k = 0 THEN p.reg
  ELSE IF \E reg \in Region \ CkptAfter : AtEndOf(r, p, reg) THEN p.reg + 1 ELSE -1

(* The numbers of operations of a kind in a rank's program before a position. *)
Before(r, p, Kind(_)) ==
  Cardinality(UNION {{reg} \X {k \in DOMAIN Ops(r, reg) :
                       Earlier([reg |-> reg, k |-> k], p) /\ Kind(Ops(r, reg)[k])} : reg \in Region})
SendsBefore(r, q, p) == Before(r, p, LAMBDA o : o = SendTo(q))
RecvsBefore(r, q, p) == Before(r, p, LAMBDA o : o = RecvFrom(q))
CollsBefore(r, p)    == Before(r, p, IsColl)

(* The ranks whose participation rank r needs before the collective o returns. *)
Awaited(r, o) ==
  CASE o.op = "bcast"   -> {o.peer, r}
    [] o.op = "reduce"  -> IF r = o.peer THEN Rank ELSE {r}
    [] o.op \in {"barrier", "allreduce"} -> Rank
=============================================================================
