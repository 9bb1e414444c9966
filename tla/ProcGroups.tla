----------------------------- MODULE ProcGroups -----------------------------
(***************************************************************************)
(* The process groups Fenix keeps in fenix_rt on every rank, and the pure   *)
(* computation rebuild_proc_groups that repairs them from the membership    *)
(* of a freshly shrunk world communicator.                                  *)
(*                                                                          *)
(* A process is named by its pid: its rank in the communicator given to     *)
(* Fenix_Init (fenix_rt.procs).  Shrinking a communicator keeps the order   *)
(* of its group, so world, spare_procs and dead_procs are always in         *)
(* ascending pid order and are sets here; user_procs is not (a spare takes  *)
(* the place of the rank it replaces), so it is a sequence.                 *)
(***************************************************************************)
EXTENDS Integers, Sequences, FiniteSets

CONSTANTS
  NProcs,   \* size of the communicator given to Fenix_Init
  Spares    \* number of spare ranks requested

\* preinit aborts unless some process is left to be active.
ASSUME ProcsAssumption == NProcs \in Nat /\ Spares \in Nat /\ Spares < NProcs

Procs   == 0 .. NProcs - 1
NActive == NProcs - Spares

\* An entry of the rank maps that holds no rank (or no process).
MPI_UNDEFINED == -1

\* Position (from 0) of x in the ascending enumeration of S, and its inverse.
IndexIn(S, x) == Cardinality({y \in S : y < x})
Nth(S, i)     == CHOOSE x \in S : IndexIn(S, x) = i

\* The elements of s at the indices in I, in order: what erasing the others leaves.
Picked(s, I) == [k \in 1 .. Cardinality(I) |-> s[Nth(I, k - 1)]]

UserSet(g) == {g.user_procs[i] : i \in DOMAIN g.user_procs}

Groups ==
  [world       : SUBSET Procs,
   user_procs  : Seq(Procs),
   spare_procs : SUBSET Procs,
   pid_to_rank : [Procs -> 0 .. NActive - 1 \cup {MPI_UNDEFINED}],
   rank_to_pid : [0 .. NActive - 1 -> Procs \cup {MPI_UNDEFINED}]]

(***************************************************************************)
(* The groups before the first shrink: the first NActive processes are the  *)
(* users, in order, and each is assigned the rank equal to its pid.         *)
(***************************************************************************)
InitialGroups ==
  [world       |-> Procs,
   user_procs  |-> [i \in 1 .. NActive |-> i - 1],
   spare_procs |-> NActive .. NProcs - 1,
   pid_to_rank |-> [p \in Procs |-> IF p < NActive THEN p ELSE MPI_UNDEFINED],
   rank_to_pid |-> [r \in 0 .. NActive - 1 |-> r]]

(***************************************************************************)
(* What repeated rebuilding preserves: no process holds two user ranks, the *)
(* users and the spares make up the world, and every spare has a higher pid *)
(* than every user.                                                         *)
(***************************************************************************)
WellFormed(g) ==
  /\ g \in Groups
  /\ \A i, j \in DOMAIN g.user_procs : g.user_procs[i] = g.user_procs[j] => i = j
  /\ g.world = UserSet(g) \cup g.spare_procs
  /\ \A u \in UserSet(g), s \in g.spare_procs : u < s

-----------------------------------------------------------------------------
(***************************************************************************)
(* rebuild_proc_groups, one operator per thing it computes.  g holds the    *)
(* groups before, world the members of the new world communicator.          *)
(***************************************************************************)

\* spare -= dead
LiveSpares(g, world) == g.spare_procs \cap world

\* Indices in user_procs of the dead users.
DeadUsers(g, world) == {i \in DOMAIN g.user_procs : g.user_procs[i] \notin world}

\* The dead users that a spare is left for: the first n_replace of them.
Replaced(g, world) ==
  {i \in DeadUsers(g, world) :
     IndexIn(DeadUsers(g, world), i) < Cardinality(LiveSpares(g, world))}

\* Mutant: the spares are used from the last one down.
MutSparePidLast(g, world, i) ==
  Nth(LiveSpares(g, world),
      Cardinality(LiveSpares(g, world)) - 1 - IndexIn(DeadUsers(g, world), i))

\* The i-th dead user is replaced by the i-th live spare.
SparePid(g, world, i) == Nth(LiveSpares(g, world), IndexIn(DeadUsers(g, world), i))

\* user_pids after the replacement loop, before the rest is erased.
ReplacedPids(g, world) ==
  [i \in DOMAIN g.user_procs |->
     IF i \in Replaced(g, world) THEN SparePid(g, world, i) ELSE g.user_procs[i]]

\* Mutant: dead users without a replacement stay.
MutKeptAll(g, world) == DOMAIN g.user_procs

\* Indices that the erasing loop leaves in user_pids.
KeptUsers(g, world) ==
  DOMAIN g.user_procs \ (DeadUsers(g, world) \ Replaced(g, world))

\* Mutant: the dead are erased and the spares are appended.
MutRebuiltUsersAppended(g, world) ==
  LET live == DOMAIN g.user_procs \ DeadUsers(g, world)
      used == {SparePid(g, world, i) : i \in Replaced(g, world)}
  IN  Picked(g.user_procs, live) \o [k \in 1 .. Cardinality(used) |-> Nth(used, k - 1)]

RebuiltUsers(g, world) == Picked(ReplacedPids(g, world), KeptUsers(g, world))

RebuiltRankToPid(g, world) ==
  [r \in DOMAIN g.rank_to_pid |->
     IF \E i \in DeadUsers(g, world) : g.pid_to_rank[g.user_procs[i]] = r
     THEN LET i == CHOOSE i \in DeadUsers(g, world) :
                     g.pid_to_rank[g.user_procs[i]] = r
          IN  IF i \in Replaced(g, world) THEN SparePid(g, world, i)
              ELSE MPI_UNDEFINED
     ELSE g.rank_to_pid[r]]

\* Mutant: the replacement of a rank is not entered in pid_to_rank.
MutPidToRankStale(g, world) == g.pid_to_rank

\* Mutant: the rank recorded for a replacement counts from 1.
MutPidToRankFromOne(g, world) ==
  [p \in DOMAIN g.pid_to_rank |->
     IF \E i \in Replaced(g, world) : SparePid(g, world, i) = p
     THEN CHOOSE i \in Replaced(g, world) : SparePid(g, world, i) = p
     ELSE g.pid_to_rank[p]]

RebuiltPidToRank(g, world) ==
  [p \in DOMAIN g.pid_to_rank |->
     IF \E i \in Replaced(g, world) : SparePid(g, world, i) = p
     THEN LET i == CHOOSE i \in Replaced(g, world) : SparePid(g, world, i) = p
          IN  g.pid_to_rank[g.user_procs[i]]
     ELSE g.pid_to_rank[p]]

RebuildProcGroups(g, world) ==
  [world       |-> world,
   user_procs  |-> RebuiltUsers(g, world),
   spare_procs |-> LiveSpares(g, world) \
                     {RebuiltUsers(g, world)[k] : k \in DOMAIN RebuiltUsers(g, world)},
   pid_to_rank |-> RebuiltPidToRank(g, world),
   rank_to_pid |-> RebuiltRankToPid(g, world)]
=============================================================================
