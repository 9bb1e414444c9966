------------------------------ MODULE BuddyIMR ------------------------------
(***************************************************************************)
(* The data component under the in-memory redundancy policy in mode 1: one  *)
(* data group with one member, on the N ranks of one cohort (two buddies,   *)
(* or the chained trio of an odd-sized communicator).                       *)
(*                                                                          *)
(* Every rank stores a subset of its elements, which sends a copy to the    *)
(* rank on its right, and commits.  Ranks fail at any point and are         *)
(* replaced by empty processes; the application then recreates the group    *)
(* and restores the member, which sync_timestamps and BuddyMember::repair   *)
(* do with collectives that a further failure can interrupt, leaving them   *)
(* complete on some ranks only.                                             *)
(***************************************************************************)
EXTENDS Integers, Sequences, FiniteSets, FiniteSetsExt

CONSTANTS
  N,         \* size of the cohort
  Depth,     \* snapshots kept besides the newest one
  Elems,     \* the elements of the member
  Subsets,   \* what the application stores, in turn: a sequence of subsets of Elems
  Parts,     \* what each rank stores with storev
  Varied,    \* the timestamps for which it uses storev, with a subset of each rank's own
  Replays,   \* after a recovery it stores for a timestamp what it stored before
  Barrier,   \* commit_barrier instead of commit
  MaxTime,   \* bound on timestamps
  MaxFails   \* bound on the failures

ASSUME BuddyAssumption ==
  /\ N \in {2, 3} /\ Depth \in Nat /\ Barrier \in BOOLEAN /\ Replays \in BOOLEAN /\ IsFiniteSet(Elems)
  /\ MaxTime \in Nat /\ MaxFails \in Nat
  /\ Subsets \in Seq((SUBSET Elems) \ {{}}) /\ Subsets # <<>>
  /\ Varied \subseteq Nat /\ Parts \in [0 .. N - 1 -> (SUBSET Elems) \ {{}}]

Ranks    == 0 .. N - 1
left(r)  == IF r = 0 THEN N - 1 ELSE r - 1
right(r) == IF r = N - 1 THEN 0 ELSE r + 1

VARIABLES
  pc,          \* where the application of each rank is
  timestamps,  \* DataGroup::timestamps, the snapshots the group knows of
  timestamp,   \* DataGroup::timestamp, the newest one or -1
  member,      \* the rank has the member (a replacement has not, until repaired)
  stage,       \* stage_snapshot_
  committed,   \* commit_snapshots_, by timestamp
  avail,       \* avail_snapshots_, used from the back
  chan,        \* data sent to the right neighbour and not yet received
  todo,        \* repair: timestamps still to be looked at
  failed,      \* ranks whose process is dead and not yet replaced
  broken,      \* some rank, here or in another cohort, has failed: comms are revoked
  gen,         \* number of recoveries so far
  fails,       \* number of failures so far
  lost,        \* ghost: ranks replaced since the last completed repair
  fatal,       \* ghost: two ranks were lost between two completed repairs
  truth        \* ghost: what each rank held in a snapshot when it committed it

groupVars  == <<timestamps, timestamp>>
memberVars == <<member, stage, committed, avail>>
faultVars  == <<failed, broken, gen, fails>>
ghostVars  == <<lost, fatal, truth>>
vars == <<pc, groupVars, memberVars, chan, todo, faultVars, ghostVars>>

None    == <<>>          \* an element that was never written
Garbage == <<"garbage">> \* an element unpacked from a message of another layout

(***************************************************************************)
(* An IMRSnapshot: its own buffer and the partner's, the staged_subsets and *)
(* protected_subsets of the whole cohort, and the staged_subset of the      *)
(* partner snapshot.                                                        *)
(***************************************************************************)
Blank  == [e \in Elems |-> None]
NoSets == [q \in Ranks |-> {}]
FreshSnapshot ==
  [own |-> Blank, part |-> Blank, staged |-> NoSets, prot |-> NoSets, pstaged |-> {}]

\* DataSnapshot::reset is not virtual: it leaves the partner snapshot as it is.
reset(s) == [s EXCEPT !.own = Blank, !.staged = NoSets, !.prot = NoSets]

\* The elements of subset S of buffer b, or of a whole snapshot for its owner.
Content(b, S)  == [e \in S |-> b[e]]
OwnContent(s, r) == Content(s.own, s.prot[r])

\* Mutant: the pool is one snapshot short of what the group keeps.
MutPoolShort == [i \in 1 .. Depth |-> FreshSnapshot]

\* A member just created: its constructor and member_create both fill the pool.
Pool == [i \in 1 .. 2 * (Depth + 1) |-> FreshSnapshot]

-----------------------------------------------------------------------------
Init ==
  /\ pc = [r \in Ranks |-> "app"]
  /\ timestamps = [r \in Ranks |-> {}] /\ timestamp = [r \in Ranks |-> -1]
  /\ member = [r \in Ranks |-> TRUE]
  /\ stage = [r \in Ranks |-> FreshSnapshot]
  /\ committed = [r \in Ranks |-> <<>>]
  /\ avail = [r \in Ranks |-> Pool]
  /\ chan = [r \in Ranks |-> <<>>]
  /\ todo = [r \in Ranks |-> {}]
  /\ failed = {} /\ broken = FALSE /\ gen = 0 /\ fails = 0
  /\ lost = {} /\ fatal = FALSE /\ truth = [r \in Ranks |-> <<>>]

live(r) == r \notin failed /\ pc[r] # "aborted"

-----------------------------------------------------------------------------
(***************************************************************************)
(* Storing.                                                                 *)
(***************************************************************************)

\* The timestamp the next commit of r gives (timestart is 0).
NextTime(r) == timestamp[r] + 1

\* External: the subset an application stores for its next snapshot.
Wanted(r) ==
  IF NextTime(r) \in Varied THEN Parts[r]
  ELSE Subsets[((NextTime(r) + (IF Replays THEN 0 ELSE gen)) % Len(Subsets)) + 1]

\* iprotect's send to the right neighbour: all that rank r has staged.
Sent(r, s) == Content(s.own, s.staged[r])

(***************************************************************************)
(* member_store and member_storev stage the data.  store takes it that the  *)
(* others have staged the same subset and goes on to iprotect's sendrecv;   *)
(* storev asks them first.                                                  *)
(***************************************************************************)
StoreBegin(r) ==
  LET S == stage[r].staged[r] \cup Wanted(r) IN
  /\ live(r) /\ pc[r] = "app" /\ NextTime(r) <= MaxTime
  /\ stage' = [stage EXCEPT
                 ![r].own = [e \in Elems |-> IF e \in Wanted(r) THEN <<r, NextTime(r), gen>> ELSE @[e]],
                 ![r].staged = [q \in Ranks |->
                                  IF q = r \/ NextTime(r) \notin Varied THEN S ELSE @[q]]]
  /\ IF NextTime(r) \in Varied
     THEN pc' = [pc EXCEPT ![r] = "exchange"] /\ UNCHANGED chan
     ELSE pc' = [pc EXCEPT ![r] = "storing"] /\ chan' = [chan EXCEPT ![r] = Append(@, Sent(r, stage'[r]))]
  /\ UNCHANGED <<groupVars, member, committed, avail, todo, faultVars, ghostVars>>

\* All live ranks are there to enter a collective.
Assembled(label) == failed # Ranks /\ \A r \in Ranks \ failed : pc[r] = label

\* The live ranks that complete a collective: all, unless a failure interrupts it.
Completes(done) == done \subseteq Ranks \ failed /\ (~broken => done = Ranks)

\* exchange_subsets: every rank learns what the others have staged.
Exchanged(r) == [stage[r] EXCEPT !.staged = [q \in Ranks |-> stage[q].staged[q]]]

ExchangeSubsets ==
  /\ Assembled("exchange")
  /\ \E done \in SUBSET Ranks :
       /\ Completes(done)
       /\ done # {} => \A r \in Ranks : pc[r] = "exchange"
       /\ stage' = [r \in Ranks |-> IF r \in done THEN Exchanged(r) ELSE stage[r]]
       /\ chan' = [r \in Ranks |-> IF r \in done THEN Append(chan[r], Sent(r, stage'[r])) ELSE chan[r]]
       /\ pc' = [r \in Ranks |-> IF r \in done THEN "storing"
                                 ELSE IF r \in failed THEN pc[r] ELSE "recover"]
  /\ UNCHANGED <<groupVars, member, committed, avail, todo, faultVars, ghostVars>>

\* Buffer b after unpacking msg as the elements of S.
Unpacked(b, S, msg) ==
  [e \in Elems |-> IF e \notin S THEN b[e] ELSE IF S = DOMAIN msg THEN msg[e] ELSE Garbage]

(***************************************************************************)
(* ... the copy of the left neighbour arrives.  The receiver takes it to be *)
(* of the subset that its staged_subsets have for that rank.  A longer      *)
(* message is MPI_ERR_TRUNCATE, which aborts the job.                       *)
(***************************************************************************)
StoreEnd(r) ==
  /\ live(r) /\ pc[r] = "storing" /\ chan[left(r)] # <<>>
  /\ LET msg == Head(chan[left(r)])
         S   == stage[r].staged[left(r)]
     IN  IF Cardinality(DOMAIN msg) > Cardinality(S)
         THEN /\ pc' = [q \in Ranks |-> "aborted"]
              /\ UNCHANGED stage
         ELSE /\ pc' = [pc EXCEPT ![r] = "stored"]
              /\ stage' = [stage EXCEPT ![r].part = Unpacked(@, S, msg),
                                        ![r].pstaged = @ \cup S,
                                        ![r].prot = [q \in Ranks |-> @[q] \cup stage[r].staged[q]],
                                        ![r].staged = NoSets]
  /\ chan' = [chan EXCEPT ![left(r)] = Tail(@)]
  /\ UNCHANGED <<groupVars, member, committed, avail, todo, faultVars, ghostVars>>

-----------------------------------------------------------------------------
(***************************************************************************)
(* Committing.                                                              *)
(***************************************************************************)

\* DataGroup::commit on the set of timestamps: make room, insert.
CommittedTimes(ts, t) ==
  (IF Cardinality(ts) = Depth + 1 THEN ts \ {Min(ts)} ELSE ts) \cup {t}

\* Mutant: the oldest snapshot is trimmed one commit too early.
MutTrimsEarly(c) == Cardinality(DOMAIN c) >= Depth + 1

\* DataMember::commit: the stage is inserted at t, and the oldest one trimmed.
Inserted(c, t, s) == [u \in DOMAIN c \cup {t} |-> IF u = t THEN s ELSE c[u]]
Trims(c)          == Cardinality(DOMAIN c) > Depth + 1
Trimmed(c)        == IF Trims(c) THEN [u \in DOMAIN c \ {Min(DOMAIN c)} |-> c[u]] ELSE c
Recycled(c, pool) == IF Trims(c) THEN Append(pool, reset(c[Min(DOMAIN c)])) ELSE pool

\* What commit does on every rank of R; the new stage is the last available snapshot.
CommitOn(R) ==
  LET t(r)    == NextTime(r)
      c(r)    == Inserted(committed[r], t(r), stage[r])
      pool(r) == Recycled(c(r), avail[r])
      On(f, new(_)) == [r \in Ranks |-> IF r \in R THEN new(r) ELSE f[r]]
      newTimes(r) == CommittedTimes(timestamps[r], t(r))
      newC(r)     == Trimmed(c(r))
      newStage(r) == IF pool(r) = <<>> THEN FreshSnapshot ELSE pool(r)[Len(pool(r))]
      newAvail(r) == IF pool(r) = <<>> THEN <<>> ELSE SubSeq(pool(r), 1, Len(pool(r)) - 1)
      newTruth(r) == [u \in DOMAIN truth[r] \cup {t(r)} |->
                        IF u = t(r) THEN OwnContent(stage[r], r) ELSE truth[r][u]]
      app(r)      == "app"
  IN  /\ timestamp' = On(timestamp, t)
      /\ timestamps' = On(timestamps, newTimes)
      /\ committed' = On(committed, newC)
      /\ stage' = On(stage, newStage)
      /\ avail' = On(avail, newAvail)
      /\ truth' = On(truth, newTruth)
      /\ pc' = On(pc, app)
      /\ UNCHANGED <<member, chan, todo, faultVars, lost, fatal>>

\* Fenix_Data_commit is local.
Commit(r) ==
  /\ ~Barrier /\ live(r) /\ pc[r] = "stored"
  /\ CommitOn({r})

\* commit_barrier commits on all live ranks, none of which is elsewhere, or on none.
CommitBarrier ==
  /\ Barrier
  /\ failed # Ranks /\ \A r \in Ranks : pc[r] = "stored"
  /\ CommitOn(Ranks \ failed)

-----------------------------------------------------------------------------
(***************************************************************************)
(* Failures and the way into recovery.                                      *)
(***************************************************************************)
Fail(r) ==
  /\ live(r) /\ fails < MaxFails
  /\ fails' = fails + 1
  /\ failed' = failed \cup {r}
  /\ broken' = TRUE
  /\ UNCHANGED <<pc, groupVars, memberVars, chan, todo, gen, ghostVars>>

\* A rank of another cohort fails: everyone here recovers too.
FailElsewhere ==
  /\ ~broken /\ fails < MaxFails
  /\ \A r \in Ranks : pc[r] # "aborted"
  /\ fails' = fails + 1
  /\ broken' = TRUE
  /\ UNCHANGED <<pc, groupVars, memberVars, chan, todo, failed, gen, ghostVars>>

\* An operation on a revoked communicator fails; the rank enters the error handler.
Notice(r) ==
  /\ live(r) /\ broken /\ pc[r] # "recover"
  /\ pc' = [pc EXCEPT ![r] = "recover"]
  /\ UNCHANGED <<groupVars, memberVars, chan, todo, faultVars, ghostVars>>

\* Process recovery: replacements take the ranks of the dead, all go to group_create.
Rebuild ==
  LET On(f, x) == [r \in Ranks |-> IF r \in failed THEN x ELSE f[r]]
  IN  /\ broken
      /\ \A r \in Ranks \ failed : pc[r] = "recover"
      /\ pc' = [r \in Ranks |-> "init"]
      /\ timestamps' = On(timestamps, {}) /\ timestamp' = On(timestamp, -1)
      /\ member' = On(member, FALSE)
      /\ stage' = On(stage, FreshSnapshot)
      /\ committed' = On(committed, <<>>)
      /\ avail' = On(avail, Pool)
      /\ chan' = [r \in Ranks |-> <<>>]
      /\ todo' = [r \in Ranks |-> {}]
      /\ failed' = {} /\ broken' = FALSE /\ gen' = gen + 1
      /\ lost' = lost \cup failed
      /\ fatal' = (fatal \/ Cardinality(lost \cup failed) > 1)
      /\ truth' = [r \in Ranks |->
                     [t \in {u \in DOMAIN truth[r] :
                               \E q \in Ranks \ failed : u \in DOMAIN committed[q]}
                        |-> truth[r][t]]]
      /\ UNCHANGED fails

-----------------------------------------------------------------------------
(***************************************************************************)
(* Restoring: group_create (DataGroup::init) and member_restore.            *)
(***************************************************************************)

\* Position (from 1) in the newest-first order of a set of timestamps; -1 pads.
NthNewest(S, i) ==
  IF i > Cardinality(S) THEN -1
  ELSE CHOOSE t \in S : Cardinality({u \in S : u >= t}) = i

\* The two Allreduce of sync_timestamps: elementwise maximum of the padded vectors.
SyncedTimestamps ==
  LET n == Max({Cardinality(timestamps[r]) : r \in Ranks})
  IN  {Max({NthNewest(timestamps[r], i) : r \in Ranks}) : i \in 1 .. n}

\* cleanup_timestamps: unknown snapshots, oldest first, go back to the pool.
Unknown(r, ts) == DOMAIN committed[r] \ ts
CleanedPool(r, ts) ==
  avail[r] \o [i \in 1 .. Cardinality(Unknown(r, ts)) |->
                 reset(committed[r][NthNewest(Unknown(r, ts), Cardinality(Unknown(r, ts)) + 1 - i)])]

SyncTimestamps ==
  LET ts == SyncedTimestamps
      On(done, f, new) == [r \in Ranks |-> IF r \in done THEN new[r] ELSE f[r]]
  IN  /\ Assembled("init")
      /\ \E done \in SUBSET Ranks :
           /\ Completes(done)
           /\ timestamps' = On(done, timestamps, [r \in Ranks |-> ts])
           /\ timestamp' = On(done, timestamp, [r \in Ranks |-> IF ts = {} THEN -1 ELSE Max(ts)])
           /\ committed' = On(done, committed,
                              [r \in Ranks |-> [u \in DOMAIN committed[r] \cap ts |-> committed[r][u]]])
           /\ avail' = On(done, avail, [r \in Ranks |-> CleanedPool(r, ts)])
           /\ todo' = On(done, todo, [r \in Ranks |-> ts])
           /\ pc' = [r \in Ranks |-> IF r \in done THEN "repair"
                                     ELSE IF r \in failed THEN pc[r] ELSE "recover"]
      /\ UNCHANGED <<member, stage, chan, faultVars, ghostVars>>

\* Mutant: only replacements count as missing a snapshot.
MutMissingNew(t) == {r \in Ranks : ~member[r] /\ t \notin DOMAIN committed[r]}

(***************************************************************************)
(* One turn of BuddyMember::repair's loop, at the newest timestamp left.    *)
(* A rank that alone misses the snapshot gets the protected_subsets from    *)
(* the last rank that has it, its own data from the right neighbour's       *)
(* partner copy and its partner copy from the left neighbour.  What is sent *)
(* and what is expected are computed from different subsets.  A failure     *)
(* interrupts the turn on any of the ranks.                                 *)
(***************************************************************************)
Missing(t) == {r \in Ranks : t \notin DOMAIN committed[r]}
BcastRoot(t) == Max(Ranks \ Missing(t))

\* broadcast_subsets: the protected_subsets of the root, on all ranks.
BroadcastSubsets(t) == committed[BcastRoot(t)][t].prot

\* Mutant: the right neighbour sends its own data, not its partner's.
MutRebuiltOwn(m, t) ==
  LET e    == avail[m][Len(avail[m])]
      prot == BroadcastSubsets(t)
      own  == committed[right(m)][t]
      part == committed[left(m)][t]
  IN  [own |-> Unpacked(Blank, prot[m], Content(own.own, own.pstaged)),
       part |-> Unpacked(e.part, prot[left(m)], Content(part.own, prot[left(m)])),
       staged |-> [NoSets EXCEPT ![m] = prot[m]], prot |-> prot, pstaged |-> prot[left(m)]]

\* Mutant: the partner copy is not fetched again.
MutRebuiltNoPartner(m, t) ==
  LET e    == avail[m][Len(avail[m])]
      prot == BroadcastSubsets(t)
      own  == committed[right(m)][t]
  IN  [own |-> Unpacked(Blank, prot[m], Content(own.part, own.pstaged)), part |-> e.part,
       staged |-> [NoSets EXCEPT ![m] = prot[m]], prot |-> prot, pstaged |-> prot[left(m)]]

\* The snapshot that rank m, missing t, rebuilds in the last available one.
Rebuilt(m, t) ==
  LET e    == avail[m][Len(avail[m])]
      prot == BroadcastSubsets(t)
      own  == committed[right(m)][t]
      part == committed[left(m)][t]
      S    == e.pstaged \cup prot[left(m)]
  IN  [own     |-> Unpacked(Blank, prot[m], Content(own.part, own.pstaged)),
       part    |-> Unpacked(e.part, S, Content(part.own, prot[left(m)])),
       staged  |-> [NoSets EXCEPT ![m] = prot[m]],
       prot    |-> prot,
       pstaged |-> S]

\* The right neighbour sends m more than the protected subset it expects.
Truncates(m, t) ==
  Cardinality(committed[right(m)][t].pstaged) > Cardinality(BroadcastSubsets(t)[m])

RepairSnapshot ==
  /\ Assembled("repair")
  /\ \A r \in Ranks \ failed : todo[r] # {}
  /\ \E r \in Ranks : member[r]
  /\ LET t    == Max(todo[CHOOSE r \in Ranks \ failed : TRUE])
         miss == Missing(t)
         m    == CHOOSE r \in miss : TRUE
         prot == BroadcastSubsets(t)
     IN  IF Cardinality(miss) = 1 /\ failed = {} /\ Truncates(m, t)
         THEN /\ pc' = [r \in Ranks |-> "aborted"]
              /\ UNCHANGED <<memberVars, todo>>
         ELSE \E done \in SUBSET Ranks :
                /\ Completes(done)
                /\ pc' = [r \in Ranks |-> IF r \in done \cup failed THEN pc[r] ELSE "recover"]
                /\ todo' = [r \in Ranks |-> IF r \in done THEN todo[r] \ {t} ELSE todo[r]]
                /\ member' = [r \in Ranks |-> member[r] \/ r \in done]
                /\ IF Cardinality(miss) = 1 /\ failed = {}
                   THEN /\ committed' =
                             [r \in Ranks |->
                                IF r \notin done THEN committed[r]
                                ELSE IF r = m THEN Inserted(committed[r], t, Rebuilt(r, t))
                                ELSE [committed[r] EXCEPT ![t].prot = prot]]
                        /\ avail' = [r \in Ranks |-> IF r \in done \cap miss
                                                    THEN SubSeq(avail[r], 1, Len(avail[r]) - 1)
                                                    ELSE avail[r]]
                   ELSE UNCHANGED <<committed, avail>>
                /\ UNCHANGED stage
  /\ UNCHANGED <<groupVars, chan, faultVars, ghostVars>>

\* The loop is over (or no rank has the member, and the application creates it anew).
RepairDone ==
  /\ ~broken
  /\ \A r \in Ranks : pc[r] = "repair" /\ (todo[r] = {} \/ ~\E q \in Ranks : member[q])
  /\ pc' = [r \in Ranks |-> "app"]
  /\ member' = [r \in Ranks |-> TRUE]
  /\ todo' = [r \in Ranks |-> {}]
  /\ lost' = {}
  /\ UNCHANGED <<groupVars, stage, committed, avail, chan, faultVars, fatal, truth>>

\* The application has committed all its snapshots, or the job was aborted.
Finished ==
  /\ \A r \in Ranks : pc[r] = "aborted" \/ (pc[r] = "app" /\ NextTime(r) > MaxTime)
  /\ UNCHANGED vars

-----------------------------------------------------------------------------
Next ==
  \/ \E r \in Ranks : StoreBegin(r) \/ StoreEnd(r) \/ Commit(r) \/ Fail(r) \/ Notice(r)
  \/ ExchangeSubsets \/ CommitBarrier \/ FailElsewhere \/ Rebuild
  \/ SyncTimestamps \/ RepairSnapshot \/ RepairDone \/ Finished

Spec == Init /\ [][Next]_vars

-----------------------------------------------------------------------------
(***************************************************************************)
(* Properties.                                                              *)
(***************************************************************************)
\* A rank that is back in the application, with no failure pending.
Settled(r) == live(r) /\ pc[r] = "app" /\ ~broken

(***************************************************************************)
(* doc/markdown/DataRecovery.md makes two failures in a cohort before the   *)
(* repair completes the condition for losing data: with one, no store and   *)
(* no repair aborts the job.                                                *)
(***************************************************************************)
NoAbort == \A r \in Ranks : pc[r] # "aborted"

(***************************************************************************)
(* As long as no two ranks of the cohort are lost between two completed     *)
(* repairs, nothing aborts and every rank holds the newest snapshot and the *)
(* Depth before it, whatever was interrupted by the failures.               *)
(***************************************************************************)
SnapshotsRetained ==
  ~fatal => NoAbort /\ \A r \in Ranks : Settled(r) =>
    /\ DOMAIN committed[r] = {t \in 0 .. timestamp[r] : t >= timestamp[r] - Depth}
    /\ timestamps[r] = DOMAIN committed[r]

(***************************************************************************)
(* The same with the local commit, which a failure can find done on some     *)
(* ranks only: what all ranks had committed is not lost.                    *)
(***************************************************************************)
CommonRetained ==
  \A r \in Ranks : (Settled(r) /\ ~fatal) =>
    \A t \in 0 .. MaxTime :
      (t >= timestamp[r] - Depth /\ \A q \in Ranks : t \in DOMAIN truth[q])
        => t \in DOMAIN committed[r]

(***************************************************************************)
(* A snapshot never changes after its rank has committed it, also when the  *)
(* rank is lost and its replacement gets the snapshot from the neighbours:  *)
(* it holds the same elements with the same values.  (commit: "Only data    *)
(* that has been committed is eligible for recovery".)                      *)
(***************************************************************************)
RestoredIsCommitted ==
  \A r \in Ranks \ failed : \A t \in DOMAIN committed[r] \cap DOMAIN truth[r] :
    OwnContent(committed[r][t], r) = truth[r][t]

(***************************************************************************)
(* Redundancy: next to every snapshot of a rank that two neighbours hold,   *)
(* the right one holds a copy of the left one's data, ready for a repair.   *)
(***************************************************************************)
PartnerCopies ==
  \A r \in Ranks : (~broken /\ pc[r] # "aborted") =>
    \A t \in DOMAIN committed[r] \cap DOMAIN committed[left(r)] :
      Content(committed[r][t].part, committed[r][t].pstaged)
        = OwnContent(committed[left(r)][t], left(r))

\* Every rank of the cohort restores from the same newest snapshot.
LatestAgrees ==
  \A r, q \in Ranks :
    (Settled(r) /\ Settled(q) /\ ~fatal /\ timestamp[r] = timestamp[q]) =>
      Max(DOMAIN committed[r] \cup {-1}) = Max(DOMAIN committed[q] \cup {-1})

(***************************************************************************)
(* The assertion of BuddyMember::repair: there is an available snapshot for *)
(* every timestamp the rank misses, however often it was interrupted.       *)
(***************************************************************************)
PoolSuffices ==
  \A r \in Ranks : Len(avail[r]) >= Cardinality(todo[r] \ DOMAIN committed[r])
=============================================================================
