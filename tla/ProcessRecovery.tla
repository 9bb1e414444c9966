--------------------------- MODULE ProcessRecovery ---------------------------
(***************************************************************************)
(* Process recovery: Fenix_Init, the error handler, the repair of the       *)
(* communicators, the spare ranks' loop, Fenix_Data_commit_barrier's vote   *)
(* and Fenix_Finalize, run by NProcs processes that may crash at any step.  *)
(*                                                                          *)
(* The steps are those of one process, except for the collectives of ULFM   *)
(* MPI (MPIX_Comm_agree, MPIX_Comm_shrink, MPI_Comm_create, MPI_Comm_dup):  *)
(* a process whose pc names a collective is inside it, and the collective   *)
(* completes in one step, once every live member of the communicator is in  *)
(* it.  A process that has completed a collective and not yet taken its     *)
(* next step stands for one that has not yet returned from it.              *)
(***************************************************************************)
EXTENDS ProcGroups

CONSTANTS
  MaxCrashes,   \* bound on the number of processes that crash
  MaxCommits    \* commit barriers the application runs before Fenix_Finalize

ASSUME BoundsAssumption == MaxCrashes \in Nat /\ MaxCommits \in Nat

VARIABLES
  alive,          \* the processes that have not crashed
  pc,             \* where each process is; a crashed one keeps its last pc
  groups,         \* per process: the groups of fenix_rt (module ProcGroups)
  old_world,      \* members of the communicator being shrunk
  old_user_procs, \* user_procs when the recovery began
  user_world,     \* members of fenix_rt.user_world, in rank order
  epoch,          \* number of worlds built so far: identifies the communicators
  revoked,        \* epochs whose world and user_world are revoked
  report,         \* what a repair tells the application
  api,            \* the API call on the stack of a process, if any
  commits,        \* commit barriers passed, the application's position
  next_spare,     \* Fenix_Finalize: world rank the next exit message goes to
  exit_msgs       \* exit messages sent to spares and not yet received

recoveryVars == <<groups, old_world, old_user_procs, user_world, epoch, report>>
finalizeVars == <<next_spare, exit_msgs>>
vars == <<alive, pc, recoveryVars, revoked, api, commits, finalizeVars>>

(***************************************************************************)
(* Where a process can be.                                                  *)
(*   shrink     Comm::shrink, in preinit or in __fenix_repair_ranks         *)
(*   create     world.create and the first agree of try_build_active_worlds *)
(*   dup        new_world.dup and the second agree                          *)
(*   app        application code, outside Fenix                             *)
(*   locate     error handler, up to the agree that gathers every user      *)
(*   commit     agree of commit_barrier                                     *)
(*   finalize   first agree of Fenix_Finalize                               *)
(*   notify     Fenix_Finalize: user rank 0 releases the spares             *)
(*   retry      Fenix_Finalize: agree on whether rank 0 got that far        *)
(*   release    Fenix_Finalize: last agree, on world                        *)
(*   spare      receive of spare_rank_loop                                  *)
(*   spare_release  agree of __fenix_finalize_spare                         *)
(*   done       finalized                                                   *)
(***************************************************************************)
Voting     == {"locate", "commit", "finalize"}
Finalizing == {"notify", "retry", "release", "done"}
Labels     == {"shrink", "create", "dup", "app", "spare", "spare_release"}
                \cup Voting \cup Finalizing

Roles   == {"INITIAL", "SURVIVOR", "RECOVERED", "SPARE"}
Calls   == {"none", "commit_barrier", "Finalize"}
Reports == [role            : Roles,
            depleted        : BOOLEAN,
            fail_procs      : SUBSET Procs,
            recovered_procs : SUBSET Procs]

SeqSet(s) == {s[i] : i \in DOMAIN s}

\* World rank r as a pid: a world is in ascending pid order.
WorldPid(world, r) == Nth(world, r)

spare(p) == p \in groups[p].spare_procs

-----------------------------------------------------------------------------
Init ==
  /\ alive = Procs
  /\ pc = [p \in Procs |-> "shrink"]
  /\ groups = [p \in Procs |-> InitialGroups]
  /\ old_world = [p \in Procs |-> Procs]
  /\ old_user_procs = [p \in Procs |-> <<>>]
  /\ user_world = [p \in Procs |-> <<>>]
  /\ epoch = [p \in Procs |-> 0]
  /\ revoked = {}
  /\ report = [p \in Procs |->
                [role |-> "INITIAL", depleted |-> FALSE,
                 fail_procs |-> {}, recovered_procs |-> {}]]
  /\ api = [p \in Procs |-> "none"]
  /\ commits = [p \in Procs |-> 0]
  /\ next_spare = [p \in Procs |-> 0]
  /\ exit_msgs = {}

(***************************************************************************)
(* A process crashes.  An active rank stays, or a process about to shrink:  *)
(* when all active ranks fail and only spares are left, nobody can revoke   *)
(* the world or release the spares, and Fenix has no way to go on.          *)
(***************************************************************************)
Crash(p) ==
  /\ p \in alive
  /\ Cardinality(Procs \ alive) < MaxCrashes
  /\ pc[p] # "done"
  /\ \E q \in alive \ {p} : ~spare(q) \/ pc[q] = "shrink"
  /\ alive' = alive \ {p}
  /\ UNCHANGED <<pc, recoveryVars, revoked, api, commits, finalizeVars>>

-----------------------------------------------------------------------------
(***************************************************************************)
(* Building the worlds: the loop of preinit and of __fenix_repair_ranks.    *)
(***************************************************************************)

\* The live members of a communicator, all of them inside a collective.
Gathered(members, labels) ==
  /\ members # {}
  /\ \A q \in members : pc[q] \in labels

\* Mutant: the spares keep the new world and skip rebuild_proc_groups.
MutShrinkUsersOnly(p) ==
  LET world == old_world[p] \cap alive
  IN  /\ p \in alive
      /\ pc[p] = "shrink"
      /\ Gathered(world, {"shrink"})
      /\ groups' = [q \in Procs |->
                      IF q \notin world THEN groups[q]
                      ELSE IF spare(q) THEN [groups[q] EXCEPT !.world = world]
                      ELSE RebuildProcGroups(groups[q], world)]
      /\ pc' = [q \in Procs |-> IF q \in world THEN "create" ELSE pc[q]]
      /\ UNCHANGED <<alive, old_world, old_user_procs, user_world, epoch, report,
                     revoked, api, commits, finalizeVars>>

\* shrink, then rebuild_proc_groups on every member of the new world.
Shrink(p) ==
  LET world == old_world[p] \cap alive
  IN  /\ p \in alive
      /\ pc[p] = "shrink"
      /\ Gathered(world, {"shrink"})
      /\ groups' = [q \in Procs |->
                      IF q \in world
                      THEN RebuildProcGroups(groups[q], old_world[q] \cap alive)
                      ELSE groups[q]]
      /\ pc' = [q \in Procs |-> IF q \in world THEN "create" ELSE pc[q]]
      /\ UNCHANGED <<alive, old_world, old_user_procs, user_world, epoch, report,
                     revoked, api, commits, finalizeVars>>

(***************************************************************************)
(* First half of try_build_active_worlds.  MPI_Comm_create can fail on any  *)
(* subset of the ranks when a member of world is dead; the agree that       *)
(* follows makes the outcome the same everywhere.                           *)
(***************************************************************************)
CreateNewWorld(p) ==
  LET members == groups[p].world \cap alive
  IN  /\ p \in alive
      /\ pc[p] = "create"
      /\ Gathered(members, {"create"})
      /\ \E created \in SUBSET (members \ groups[p].spare_procs) :
           /\ groups[p].world \subseteq alive
                => created = members \ groups[p].spare_procs
           /\ LET flag == \A q \in members : spare(q) \/ q \in created
              IN  pc' = [q \in Procs |-> IF q \notin members THEN pc[q]
                                         ELSE IF flag THEN "dup" ELSE "shrink"]
      /\ UNCHANGED <<alive, recoveryVars, revoked, api, commits, finalizeVars>>

\* Mutant: survivor_procs is all of user_procs, and is looked at first.
MutRepairedSurvivor(q) ==
  LET g == groups[q]
  IN  [role            |-> IF epoch[q] = 0 THEN "INITIAL" ELSE IF spare(q) THEN "SPARE" ELSE "SURVIVOR",
       depleted        |-> Len(g.user_procs) < NActive,
       fail_procs      |-> IF epoch[q] = 0 THEN {} ELSE SeqSet(old_user_procs[q]) \ UserSet(g),
       recovered_procs |-> IF epoch[q] = 0 THEN {} ELSE UserSet(g) \ SeqSet(old_user_procs[q])]

\* What __fenix_repair_ranks (or preinit, at epoch 0) records on process q.
Repaired(q) ==
  LET g         == groups[q]
      recovered == UserSet(g) \ SeqSet(old_user_procs[q])
      depleted  == Len(g.user_procs) < NActive
  IN  IF epoch[q] = 0 THEN [report[q] EXCEPT !.depleted = depleted]
      ELSE [role            |-> IF spare(q) THEN "SPARE"
                                ELSE IF q \in recovered THEN "RECOVERED" ELSE "SURVIVOR",
            depleted        |-> depleted,
            fail_procs      |-> SeqSet(old_user_procs[q]) \ UserSet(g),
            recovered_procs |-> recovered]

(***************************************************************************)
(* The application's position after a recovery, which a recovered rank gets *)
(* from a survivor (external: the application does it, through the data     *)
(* component; CommitsAgree says that it does not matter from which).        *)
(***************************************************************************)
RestoredCommits(q, members) ==
  LET survivors == {s \in members : ~spare(s) /\ s \in SeqSet(old_user_procs[q])}
  IN  IF q \in survivors \/ spare(q) \/ survivors = {} THEN commits[q]
      ELSE commits[CHOOSE s \in survivors : TRUE]

(***************************************************************************)
(* Second half of try_build_active_worlds, and what follows its success:    *)
(* metadata update, return from the error handler or from spare_rank_loop,  *)
(* resumption of the application (a CommException leaves whatever API call  *)
(* was on the stack).  Only the users dup, so a dead spare does not matter. *)
(***************************************************************************)
DupUserWorld(p) ==
  LET members == groups[p].world \cap alive
      users   == members \ groups[p].spare_procs
  IN  /\ p \in alive
      /\ pc[p] = "dup"
      /\ Gathered(members, {"dup"})
      /\ \E duped \in SUBSET users :
           /\ UserSet(groups[p]) \subseteq alive => duped = users
           /\ IF \A q \in members : spare(q) \/ q \in duped
              THEN /\ pc' = [q \in Procs |-> IF q \notin members THEN pc[q]
                                             ELSE IF spare(q) THEN "spare" ELSE "app"]
                   /\ user_world' = [q \in Procs |-> IF q \in users THEN groups[q].user_procs
                                                     ELSE user_world[q]]
                   /\ epoch' = [q \in Procs |-> IF q \in members THEN epoch[q] + 1 ELSE epoch[q]]
                   /\ report' = [q \in Procs |-> IF q \in members THEN Repaired(q) ELSE report[q]]
                   /\ commits' = [q \in Procs |-> IF q \in members
                                                  THEN RestoredCommits(q, members)
                                                  ELSE commits[q]]
                   /\ api' = [q \in Procs |-> IF q \in members THEN "none" ELSE api[q]]
              ELSE /\ pc' = [q \in Procs |-> IF q \in members THEN "shrink" ELSE pc[q]]
                   /\ UNCHANGED <<user_world, epoch, report, commits, api>>
      /\ UNCHANGED <<alive, groups, old_world, old_user_procs, revoked, finalizeVars>>

-----------------------------------------------------------------------------
(***************************************************************************)
(* Failure detection and the error handler.                                 *)
(***************************************************************************)

(***************************************************************************)
(* An MPI call of the application (or the MPI_Test of detect_failures)      *)
(* reports a failure: a member of user_world is dead, or another rank's     *)
(* handler has revoked it.  __fenix_test_MPI revokes and goes to repair.    *)
(***************************************************************************)
DetectFailure(p) ==
  /\ p \in alive
  /\ pc[p] = "app"
  /\ epoch[p] \in revoked \/ ~(SeqSet(user_world[p]) \subseteq alive)
  /\ revoked' = revoked \cup {epoch[p]}
  /\ pc' = [pc EXCEPT ![p] = "locate"]
  /\ UNCHANGED <<alive, recoveryVars, api, commits, finalizeVars>>

\* A spare's receive fails with MPI_ERR_REVOKED: it joins the repair directly.
SpareRevoked(p) ==
  /\ p \in alive
  /\ pc[p] = "spare"
  /\ epoch[p] \in revoked
  /\ pc' = [pc EXCEPT ![p] = "shrink"]
  /\ old_world' = [old_world EXCEPT ![p] = groups[p].world]
  /\ old_user_procs' = [old_user_procs EXCEPT ![p] = groups[p].user_procs]
  /\ UNCHANGED <<alive, groups, user_world, epoch, report, revoked, api, commits,
                 finalizeVars>>

\* The application calls Fenix_Data_commit_barrier, or Fenix_Finalize at its end.
StartCommit(p) ==
  /\ p \in alive
  /\ pc[p] = "app"
  /\ commits[p] < MaxCommits
  /\ pc' = [pc EXCEPT ![p] = "commit"]
  /\ api' = [api EXCEPT ![p] = "commit_barrier"]
  /\ UNCHANGED <<alive, recoveryVars, revoked, commits, finalizeVars>>

StartFinalize(p) ==
  /\ p \in alive
  /\ pc[p] = "app"
  /\ commits[p] = MaxCommits
  /\ pc' = [pc EXCEPT ![p] = "finalize"]
  /\ api' = [api EXCEPT ![p] = "Finalize"]
  /\ UNCHANGED <<alive, recoveryVars, revoked, commits, finalizeVars>>

\* Mutant: the locations are combined with a bitwise or.
MutAgreedAny(label, votes, err) == label \in votes

(***************************************************************************)
(* MPIX_Comm_agree on user_world: the error handler's loop, commit_barrier  *)
(* and Fenix_Finalize vote in the same collective, each with its own        *)
(* location bit, so the bitwise and is a location exactly when all votes    *)
(* are that location.  A dead member's vote counts only if it was inside,   *)
(* and a dead member whose vote is not counted makes the agree report       *)
(* MPI_ERR_PROC_FAILED, on every rank alike.  In commit_barrier and in      *)
(* Fenix_Finalize that error runs the error handler inside the agree (no    *)
(* IGNORE setting is in force), and the exception it ends with skips the    *)
(* rest of the call; the error handler's own loop ignores it.               *)
(***************************************************************************)
Agreed(label, votes, err) == ~err /\ votes = {label}

AfterVote(q, votes, err) ==
  CASE pc[q] = "locate"   -> IF votes = {"locate"} THEN "shrink" ELSE "locate"
    [] pc[q] = "commit"   -> IF Agreed("commit", votes, err) THEN "app" ELSE "locate"
    [] pc[q] = "finalize" -> IF ~Agreed("finalize", votes, err) THEN "locate"
                             ELSE IF q = Head(user_world[q]) THEN "notify" ELSE "retry"

UserAgree(p) ==
  LET members == SeqSet(user_world[p])
      live    == members \cap alive
      dead    == members \ alive
  IN  /\ p \in alive
      /\ pc[p] \in Voting
      /\ Gathered(live, Voting)
      /\ \E counted \in SUBSET {q \in dead : pc[q] \in Voting}, err \in BOOLEAN :
           /\ err => dead # {}
           /\ dead # counted => err
           /\ LET votes    == {pc[q] : q \in live \cup counted}
                  repairs  == {q \in live : pc[q] = "locate" /\ votes = {"locate"}}
                  passed   == {q \in live : pc[q] = "commit" /\ Agreed("commit", votes, err)}
                  finals   == {q \in live : pc[q] = "finalize" /\ Agreed("finalize", votes, err)}
                  handlers == {q \in live \ (passed \cup finals) : pc[q] # "locate"}
              IN  /\ pc' = [q \in Procs |-> IF q \in live THEN AfterVote(q, votes, err)
                                            ELSE pc[q]]
                  /\ revoked' = revoked \cup {epoch[q] : q \in handlers}
                  /\ old_world' = [q \in Procs |-> IF q \in repairs THEN groups[q].world
                                                   ELSE old_world[q]]
                  /\ old_user_procs' = [q \in Procs |->
                                          IF q \in repairs THEN groups[q].user_procs
                                          ELSE old_user_procs[q]]
                  /\ commits' = [q \in Procs |-> IF q \in passed THEN commits[q] + 1
                                                 ELSE commits[q]]
                  /\ api' = [q \in Procs |-> IF q \in passed THEN "none" ELSE api[q]]
                  /\ next_spare' = [q \in Procs |->
                                      IF q \in finals THEN Len(user_world[q])
                                      ELSE next_spare[q]]
      /\ UNCHANGED <<alive, groups, user_world, epoch, report, exit_msgs>>

-----------------------------------------------------------------------------
(***************************************************************************)
(* Fenix_Finalize after its first agree, and the spares' way out.           *)
(***************************************************************************)

\* One turn of rank 0's loop of MPI_Isend over the world ranks of the spares.
NotifySpare(p) ==
  /\ p \in alive
  /\ pc[p] = "notify"
  /\ IF next_spare[p] < Cardinality(groups[p].world)
     THEN /\ exit_msgs' = exit_msgs \cup {<<p, WorldPid(groups[p].world, next_spare[p])>>}
          /\ next_spare' = [next_spare EXCEPT ![p] = @ + 1]
          /\ UNCHANGED pc
     ELSE /\ pc' = [pc EXCEPT ![p] = "retry"]
          /\ UNCHANGED finalizeVars
  /\ UNCHANGED <<alive, recoveryVars, revoked, api, commits>>

\* Mutant: rank 0 contributes need_retry = 1 like everybody else.
MutRetryAlways(p) ==
  LET live   == SeqSet(user_world[p]) \cap alive
      shrunk == Picked(user_world[p], {i \in DOMAIN user_world[p] : user_world[p][i] \in alive})
  IN  /\ p \in alive
      /\ pc[p] = "retry"
      /\ Gathered(live, {"retry"})
      /\ pc' = [pc EXCEPT ![Head(shrunk)] = "notify"]
      /\ user_world' = [q \in Procs |-> IF q \in live THEN shrunk ELSE user_world[q]]
      /\ next_spare' = [q \in Procs |-> IF q \in live THEN Len(groups[q].user_procs)
                                        ELSE next_spare[q]]
      /\ UNCHANGED <<alive, groups, old_world, old_user_procs, epoch, report, revoked,
                     api, commits, exit_msgs>>

(***************************************************************************)
(* Agree on need_retry: rank 0 contributes 0, the others 1.  If rank 0 is   *)
(* not among the contributors, user_world is shrunk and its new rank 0      *)
(* notifies all the spares again.                                           *)
(***************************************************************************)
RetryAgree(p) ==
  LET members == SeqSet(user_world[p])
      live    == members \cap alive
      shrunk  == Picked(user_world[p], {i \in DOMAIN user_world[p] : user_world[p][i] \in alive})
  IN  /\ p \in alive
      /\ pc[p] = "retry"
      /\ Gathered(live, {"retry"})
      /\ \E counted \in SUBSET {q \in members \ alive : pc[q] = "retry"} :
           IF Head(user_world[p]) \in live \cup counted
           THEN /\ pc' = [q \in Procs |-> IF q \in live THEN "release" ELSE pc[q]]
                /\ UNCHANGED <<user_world, next_spare>>
           ELSE /\ pc' = [q \in Procs |-> IF q \in live /\ q = Head(shrunk) THEN "notify"
                                          ELSE pc[q]]
                /\ user_world' = [q \in Procs |-> IF q \in live THEN shrunk ELSE user_world[q]]
                /\ next_spare' = [q \in Procs |-> IF q \in live THEN Len(groups[q].user_procs)
                                                  ELSE next_spare[q]]
      /\ UNCHANGED <<alive, groups, old_world, old_user_procs, epoch, report, revoked,
                     api, commits, exit_msgs>>

\* A spare receives an exit message: __fenix_finalize_spare starts.
SpareReceive(p) ==
  /\ p \in alive
  /\ pc[p] = "spare"
  /\ \E m \in exit_msgs : m[2] = p /\ exit_msgs' = exit_msgs \ {m}
  /\ pc' = [pc EXCEPT ![p] = "spare_release"]
  /\ UNCHANGED <<alive, recoveryVars, revoked, api, commits, next_spare>>

\* ... and drains the duplicates that a second rank 0 may have sent.
SpareDrain(p) ==
  /\ p \in alive
  /\ pc[p] = "spare_release"
  /\ \E m \in exit_msgs : m[2] = p /\ exit_msgs' = exit_msgs \ {m}
  /\ UNCHANGED <<alive, pc, recoveryVars, revoked, api, commits, next_spare>>

\* The last agree, on world, of the users and the spares.
ReleaseAgree(p) ==
  LET members == groups[p].world \cap alive
  IN  /\ p \in alive
      /\ pc[p] \in {"release", "spare_release"}
      /\ Gathered(members, {"release", "spare_release"})
      /\ pc' = [q \in Procs |-> IF q \in members THEN "done" ELSE pc[q]]
      /\ api' = [q \in Procs |-> IF q \in members THEN "none" ELSE api[q]]
      /\ UNCHANGED <<alive, recoveryVars, revoked, commits, finalizeVars>>

(***************************************************************************)
(* The queries: fenix::role of a rank of a communicator, here the process q, *)
(* and n_ranks_with_role, answered by process p.                             *)
(***************************************************************************)
Survivors(p) == IF report[p].role = "INITIAL" THEN {}
                ELSE UserSet(groups[p]) \ report[p].recovered_procs

RoleOf(p, q) ==
  IF q \notin groups[p].world THEN "FAILED"
  ELSE IF q \in groups[p].spare_procs THEN "SPARE"
  ELSE IF report[p].role = "INITIAL" THEN "INITIAL"
  ELSE IF q \in report[p].recovered_procs THEN "RECOVERED"
  ELSE "SURVIVOR"

NRanksWithRole(p, role) ==
  CASE role = "INITIAL"   -> IF report[p].role = "INITIAL" THEN Len(groups[p].user_procs) ELSE 0
    [] role = "SURVIVOR"  -> Cardinality(Survivors(p))
    [] role = "RECOVERED" -> Cardinality(report[p].recovered_procs)
    [] role = "SPARE"     -> Cardinality(groups[p].spare_procs)
    [] role = "FAILED"    -> Cardinality(Procs \ groups[p].world)

-----------------------------------------------------------------------------
Terminated == (\A p \in alive : pc[p] = "done") /\ UNCHANGED vars

-----------------------------------------------------------------------------
Step(p) ==
  \/ Shrink(p) \/ CreateNewWorld(p) \/ DupUserWorld(p)
  \/ DetectFailure(p) \/ SpareRevoked(p)
  \/ StartCommit(p) \/ StartFinalize(p) \/ UserAgree(p)
  \/ NotifySpare(p) \/ RetryAgree(p)
  \/ SpareReceive(p) \/ SpareDrain(p) \/ ReleaseAgree(p)

Next == (\E p \in Procs : Crash(p) \/ Step(p)) \/ Terminated

Spec == Init /\ [][Next]_vars

\* No process that is alive stops taking the steps it can take; crashes are not fair.
FairSpec == Spec /\ \A p \in Procs : WF_vars(Step(p))

-----------------------------------------------------------------------------
(***************************************************************************)
(* Properties.                                                              *)
(***************************************************************************)

\* Every variable stays in the set the code's declarations give it.
TypeOK ==
  /\ alive \in SUBSET Procs
  /\ pc \in [Procs -> Labels]
  /\ groups \in [Procs -> Groups]
  /\ old_world \in [Procs -> SUBSET Procs]
  /\ old_user_procs \in [Procs -> Seq(Procs)]
  /\ user_world \in [Procs -> Seq(Procs)]
  /\ epoch \in [Procs -> Nat]
  /\ revoked \in SUBSET Nat
  /\ report \in [Procs -> Reports]
  /\ api \in [Procs -> Calls]
  /\ commits \in [Procs -> Nat]
  /\ next_spare \in [Procs -> Nat]
  /\ exit_msgs \in SUBSET (Procs \X Procs)

(***************************************************************************)
(* The strengthening that makes TypeOK and SparesAreTail inductive: the     *)
(* groups of every process are well formed, and a shrink, first or retried, *)
(* can only give a world that is part of the previous one.                  *)
(***************************************************************************)
GroupsWellFormed ==
  \A p \in Procs : WellFormed(groups[p]) /\ old_world[p] \cap alive \subseteq groups[p].world

IInv == TypeOK /\ GroupsWellFormed

(***************************************************************************)
(* Every live process of a world has computed the same groups from it, in   *)
(* spite of failures in the middle of a repair and of repairs that retry:   *)
(* rebuild_proc_groups runs locally and exchanges nothing.                  *)
(***************************************************************************)
GroupsAgree ==
  \A p \in alive, q \in alive :
    (q \in groups[p].world /\ epoch[p] = epoch[q] /\ pc[p] # "shrink" /\ pc[q] # "shrink")
      => groups[p] = groups[q]

(***************************************************************************)
(* Fenix_Finalize sends the exit messages to the world ranks from           *)
(* user_world.size() up: these are exactly the spares, so the spares must   *)
(* be the tail of every world a repair builds.                              *)
(***************************************************************************)
SparesAreTail ==
  \A p \in Procs :
    LET g == groups[p]
    IN  {w \in g.world : IndexIn(g.world, w) >= Len(g.user_procs)} = g.spare_procs

(***************************************************************************)
(* rank_to_pid lists user_procs in rank order, with holes where ranks were  *)
(* lost, and pid_to_rank inverts it; so the assertions of                   *)
(* rebuild_proc_groups cannot fail, however many repairs were retried.      *)
(***************************************************************************)
RankMapsConsistent ==
  \A p \in alive :
    LET g    == groups[p]
        held == {r \in 0 .. NActive - 1 : g.rank_to_pid[r] # MPI_UNDEFINED}
    IN  /\ g.user_procs = [k \in 1 .. Cardinality(held) |-> g.rank_to_pid[Nth(held, k - 1)]]
        /\ \A r \in held : g.pid_to_rank[g.rank_to_pid[r]] = r

(***************************************************************************)
(* What a process says of the others from its own groups and the differences *)
(* that its last repair took (role(comm, r), n_ranks_with_role): every user  *)
(* of a world gives a rank the role which that rank has itself, the counts   *)
(* fit, and a process that a repair reported as failed really is dead.       *)
(***************************************************************************)
RolesAgree ==
  \A p \in alive : pc[p] \notin {"shrink", "create", "dup"} =>
    /\ report[p].fail_procs \cap alive = {}
    /\ \A q \in alive :
         (pc[q] \notin {"shrink", "create", "dup"} /\ epoch[q] = epoch[p] /\ ~spare(p) /\ ~spare(q))
           => RoleOf(p, q) = report[q].role
    /\ \A role \in Roles \cup {"FAILED"} :
         NRanksWithRole(p, role) = Cardinality({q \in Procs : RoleOf(p, q) = role})

(***************************************************************************)
(* Survivors that are together in a world hold the same number of commits:  *)
(* commit_barrier commits on all of them or on none, also when ranks fail,  *)
(* or are already in the error handler, while others wait in the barrier.   *)
(***************************************************************************)
CommitsAgree ==
  \A p \in alive, q \in alive :
    (epoch[p] > 0 /\ epoch[p] = epoch[q] /\ ~spare(p) /\ ~spare(q) /\ pc[p] # "dup" /\ pc[q] # "dup"
      /\ p \in SeqSet(user_world[q]) /\ q \in SeqSet(user_world[p]))
      => commits[p] = commits[q]

(***************************************************************************)
(* Once one rank is past the first agree of Fenix_Finalize no live user is  *)
(* left computing or recovering.                                            *)
(***************************************************************************)
FinalizeIsCollective ==
  \A p \in alive : pc[p] \in Finalizing =>
    \A q \in alive : pc[q] \in Finalizing \cup {"spare", "spare_release"}

(***************************************************************************)
(* Surviving processes keep their rank when the spares suffice, as          *)
(* doc/markdown/ProcessRecovery.md promises.                                *)
(***************************************************************************)
SurvivorsKeepRank ==
  [][\A p \in Procs :
       (/\ epoch[p] > 0 /\ epoch'[p] # epoch[p] /\ p \in SeqSet(user_world[p])
        /\ Len(user_world'[p]) = Len(user_world[p]))
       => \A i \in DOMAIN user_world[p] :
            user_world[p][i] \in SeqSet(user_world'[p]) => user_world'[p][i] = user_world[p][i]]_vars

\* Every live process, idle spares included, gets out of Fenix in the end.
EveryoneFinishes == <>(\A p \in alive : pc[p] = "done")
=============================================================================
