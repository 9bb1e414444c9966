------------------------ MODULE ProcessRecoveryProofs ------------------------
(***************************************************************************)
(* Safety of process recovery for every number of processes and spares and  *)
(* any number of crashes: what each process holds, then what all agree on.   *)
(***************************************************************************)
EXTENDS ProcessRecovery, ProcGroupsProofs

LEMMA InitInvariant == Init => IInv
<1> SUFFICES ASSUME Init PROVE IInv
  OBVIOUS
<1>1. WellFormed(InitialGroups)
  BY InitialGroupsWellFormed
<1>2. InitialGroups \in Groups /\ InitialGroups.world = Procs
  BY <1>1 DEF WellFormed, InitialGroups
<1>3. <<>> \in Seq(Procs)
  OBVIOUS
<1>4. TypeOK
  BY <1>2, <1>3 DEF Init, TypeOK, Labels, Reports, Roles, Calls
<1>5. GroupsWellFormed
  BY <1>1, <1>2 DEF Init, GroupsWellFormed
<1>6. QED
  BY <1>4, <1>5 DEF IInv

\* Steps that leave the groups alone, and the world to shrink unless it is reset to the current one.
LEMMA GroupsUnchanged ==
  ASSUME IInv, alive' \subseteq alive, groups' = groups,
         \A p \in Procs : old_world'[p] = old_world[p] \/ old_world'[p] = groups[p].world
  PROVE  GroupsWellFormed'
<1>1. ASSUME NEW p \in Procs
      PROVE  WellFormed(groups'[p]) /\ old_world'[p] \cap alive' \subseteq groups'[p].world
  <2>1. WellFormed(groups[p]) /\ old_world[p] \cap alive \subseteq groups[p].world
    BY DEF IInv, GroupsWellFormed
  <2>2. QED
    BY <2>1
<1>2. QED
  BY <1>1 DEF GroupsWellFormed

LEMMA CrashInvariant ==
  ASSUME IInv, NEW p \in Procs, Crash(p)
  PROVE  IInv'
<1>1. TypeOK'
  BY DEF IInv, TypeOK, Crash, recoveryVars, finalizeVars
<1>2. GroupsWellFormed'
  BY GroupsUnchanged DEF Crash, recoveryVars
<1>3. QED
  BY <1>1, <1>2 DEF IInv

LEMMA ShrinkInvariant ==
  ASSUME IInv, NEW p \in Procs, Shrink(p)
  PROVE  IInv'
<1> DEFINE world == old_world[p] \cap alive
<1>1. ASSUME NEW q \in Procs
      PROVE  /\ WellFormed(groups'[q])
             /\ old_world'[q] \cap alive' \subseteq groups'[q].world
             /\ groups'[q] \in Groups
  <2>1. WellFormed(groups[q]) /\ old_world[q] \cap alive \subseteq groups[q].world
    BY DEF IInv, GroupsWellFormed
  <2>2. old_world' = old_world /\ alive' = alive
    BY DEF Shrink
  <2>3. CASE q \in world
    <3> DEFINE own == old_world[q] \cap alive
    <3>1. groups'[q] = RebuildProcGroups(groups[q], own)
      BY <2>3 DEF Shrink
    <3>2. WellFormed(RebuildProcGroups(groups[q], own))
      BY <2>1, RebuildWellFormed
    <3>3. groups'[q].world = own
      BY <3>1 DEF RebuildProcGroups
    <3>4. QED
      BY <3>1, <3>2, <3>3, <2>2 DEF WellFormed
  <2>4. CASE q \notin world
    <3>1. groups'[q] = groups[q]
      BY <2>4 DEF Shrink
    <3>2. QED
      BY <3>1, <2>1, <2>2 DEF WellFormed
  <2>5. QED
    BY <2>3, <2>4
<1>2. GroupsWellFormed'
  BY <1>1 DEF GroupsWellFormed
<1>3. groups' \in [Procs -> Groups]
  BY <1>1 DEF Shrink
<1>4. TypeOK'
  BY <1>3 DEF IInv, TypeOK, Shrink, finalizeVars, Labels
<1>5. QED
  BY <1>2, <1>4 DEF IInv

LEMMA CreateNewWorldInvariant ==
  ASSUME IInv, NEW p \in Procs, CreateNewWorld(p)
  PROVE  IInv'
<1>1. TypeOK'
  BY DEF IInv, TypeOK, CreateNewWorld, recoveryVars, finalizeVars, Labels
<1>2. GroupsWellFormed'
  BY GroupsUnchanged DEF CreateNewWorld, recoveryVars, IInv, TypeOK
<1>3. QED
  BY <1>1, <1>2 DEF IInv

\* What a repair reports is well typed.
LEMMA RepairedType ==
  ASSUME TypeOK, NEW q \in Procs
  PROVE  Repaired(q) \in Reports
<1>1. groups[q] \in Groups /\ old_user_procs[q] \in Seq(Procs) /\ report[q] \in Reports
  BY DEF TypeOK
<1>2. groups[q].user_procs \in Seq(Procs)
  BY <1>1 DEF Groups
<1>3. UserSet(groups[q]) \subseteq Procs /\ SeqSet(old_user_procs[q]) \subseteq Procs
  BY <1>1, <1>2 DEF UserSet, SeqSet
<1>4. (Len(groups[q].user_procs) < NActive) \in BOOLEAN
  BY <1>2, ProcsFacts
<1>5. CASE epoch[q] = 0
  BY <1>1, <1>4, <1>5 DEF Repaired, Reports
<1>6. CASE epoch[q] # 0
  BY <1>3, <1>4, <1>6 DEF Repaired, Reports, Roles
<1>7. QED
  BY <1>5, <1>6

LEMMA RestoredCommitsType ==
  ASSUME TypeOK, NEW q \in Procs, NEW members \in SUBSET Procs
  PROVE  RestoredCommits(q, members) \in Nat
<1> DEFINE S == {s \in members : ~spare(s) /\ s \in SeqSet(old_user_procs[q])}
<1>1. \A s \in Procs : commits[s] \in Nat
  BY DEF TypeOK
<1>2. S # {} => (CHOOSE s \in S : TRUE) \in S
  OBVIOUS
<1>3. QED
  BY <1>1, <1>2 DEF RestoredCommits

LEMMA DupUserWorldInvariant ==
  ASSUME IInv, NEW p \in Procs, DupUserWorld(p)
  PROVE  IInv'
<1> DEFINE members == groups[p].world \cap alive
           users   == members \ groups[p].spare_procs
<1>1. TypeOK
  BY DEF IInv
<1>2. members \in SUBSET Procs
  BY <1>1 DEF TypeOK
<1>3. \A q \in Procs : groups[q].user_procs \in Seq(Procs)
  BY <1>1 DEF TypeOK, Groups
<1>4. \A q \in Procs : Repaired(q) \in Reports /\ RestoredCommits(q, members) \in Nat
  BY <1>1, <1>2, RepairedType, RestoredCommitsType
<1>5. /\ pc' \in [Procs -> Labels] /\ user_world' \in [Procs -> Seq(Procs)]
      /\ epoch' \in [Procs -> Nat] /\ report' \in [Procs -> Reports]
      /\ commits' \in [Procs -> Nat] /\ api' \in [Procs -> Calls]
  <2>1. PICK duped \in SUBSET users :
           IF \A q \in members : spare(q) \/ q \in duped
           THEN /\ pc' = [q \in Procs |-> IF q \notin members THEN pc[q]
                                             ELSE IF spare(q) THEN "spare" ELSE "app"]
                /\ user_world' = [q \in Procs |-> IF q \in users THEN groups[q].user_procs
                                                  ELSE user_world[q]]
                /\ epoch' = [q \in Procs |-> IF q \in members THEN epoch[q] + 1 ELSE epoch[q]]
                /\ report' = [q \in Procs |-> IF q \in members THEN Repaired(q) ELSE report[q]]
                /\ commits' = [q \in Procs |-> IF q \in members
                                               THEN RestoredCommits(q, members)
                                               ELSE commits[q]]
                /\ api' = [q \in Procs |-> IF q \in members THEN "none" ELSE api[q]]
           ELSE /\ pc' = [q \in Procs |-> IF q \in members THEN "shrink" ELSE pc[q]]
                /\ UNCHANGED <<user_world, epoch, report, commits, api>>
    BY DEF DupUserWorld
  <2>2. CASE \A q \in members : spare(q) \/ q \in duped
    <3>1. pc' \in [Procs -> Labels]
      BY <2>1, <2>2, <1>1 DEF TypeOK, Labels
    <3>2. user_world' \in [Procs -> Seq(Procs)]
      <4>1. user_world' = [q \in Procs |-> IF q \in users THEN groups[q].user_procs
                                            ELSE user_world[q]]
        BY <2>1, <2>2
      <4>2. \A q \in Procs : user_world[q] \in Seq(Procs)
        BY <1>1 DEF TypeOK
      <4>3. QED
        BY <4>1, <4>2, <1>3
    <3>3. epoch' \in [Procs -> Nat]
      <4>1. epoch' = [q \in Procs |-> IF q \in members THEN epoch[q] + 1 ELSE epoch[q]]
        BY <2>1, <2>2
      <4>2. \A q \in Procs : epoch[q] \in Nat
        BY <1>1 DEF TypeOK
      <4>3. QED
        BY <4>1, <4>2
    <3>4. report' \in [Procs -> Reports] /\ commits' \in [Procs -> Nat]
      <4>1. /\ report' = [q \in Procs |-> IF q \in members THEN Repaired(q) ELSE report[q]]
            /\ commits' = [q \in Procs |-> IF q \in members THEN RestoredCommits(q, members)
                                            ELSE commits[q]]
        BY <2>1, <2>2
      <4>2. \A q \in Procs : report[q] \in Reports /\ commits[q] \in Nat
        BY <1>1 DEF TypeOK
      <4>3. QED
        BY <4>1, <4>2, <1>4
    <3>5. api' \in [Procs -> Calls]
      BY <2>1, <2>2, <1>1 DEF TypeOK, Calls
    <3>6. QED
      BY <3>1, <3>2, <3>3, <3>4, <3>5
  <2>3. CASE ~\A q \in members : spare(q) \/ q \in duped
    BY <2>1, <2>3, <1>1 DEF TypeOK, Labels
  <2>4. QED
    BY <2>2, <2>3
<1>6. UNCHANGED <<alive, groups, old_world, old_user_procs, revoked, next_spare, exit_msgs>>
  BY DEF DupUserWorld, finalizeVars
<1>7. TypeOK'
  BY <1>1, <1>5, <1>6 DEF TypeOK
<1>8. GroupsWellFormed'
  BY <1>6, GroupsUnchanged
<1>9. QED
  BY <1>7, <1>8 DEF IInv

LEMMA DetectFailureInvariant ==
  ASSUME IInv, NEW p \in Procs, DetectFailure(p)
  PROVE  IInv'
<1>1. TypeOK'
  BY DEF IInv, TypeOK, DetectFailure, recoveryVars, finalizeVars, Labels, Calls, Voting, Finalizing
<1>2. GroupsWellFormed'
  BY GroupsUnchanged DEF DetectFailure, recoveryVars, IInv, TypeOK
<1>3. QED
  BY <1>1, <1>2 DEF IInv

LEMMA SpareRevokedInvariant ==
  ASSUME IInv, NEW p \in Procs, SpareRevoked(p)
  PROVE  IInv'
<1>1. TypeOK'
  <2>1. TypeOK /\ groups[p].world \in SUBSET Procs /\ groups[p].user_procs \in Seq(Procs)
    BY DEF IInv, TypeOK, Groups
  <2>2. /\ pc' \in [Procs -> Labels] /\ old_world' \in [Procs -> SUBSET Procs]
        /\ old_user_procs' \in [Procs -> Seq(Procs)]
    BY <2>1 DEF SpareRevoked, TypeOK, Labels
  <2>3. QED
    BY <2>1, <2>2 DEF SpareRevoked, TypeOK, finalizeVars
<1>2. GroupsWellFormed'
  BY GroupsUnchanged DEF SpareRevoked, recoveryVars, IInv, TypeOK
<1>3. QED
  BY <1>1, <1>2 DEF IInv

LEMMA StartCommitInvariant ==
  ASSUME IInv, NEW p \in Procs, StartCommit(p)
  PROVE  IInv'
<1>1. TypeOK'
  BY DEF IInv, TypeOK, StartCommit, recoveryVars, finalizeVars, Labels, Calls, Voting, Finalizing
<1>2. GroupsWellFormed'
  BY GroupsUnchanged DEF StartCommit, recoveryVars, IInv, TypeOK
<1>3. QED
  BY <1>1, <1>2 DEF IInv

LEMMA StartFinalizeInvariant ==
  ASSUME IInv, NEW p \in Procs, StartFinalize(p)
  PROVE  IInv'
<1>1. TypeOK'
  BY DEF IInv, TypeOK, StartFinalize, recoveryVars, finalizeVars, Labels, Calls, Voting, Finalizing
<1>2. GroupsWellFormed'
  BY GroupsUnchanged DEF StartFinalize, recoveryVars, IInv, TypeOK
<1>3. QED
  BY <1>1, <1>2 DEF IInv

LEMMA SpareReceiveInvariant ==
  ASSUME IInv, NEW p \in Procs, SpareReceive(p)
  PROVE  IInv'
<1>1. TypeOK'
  BY DEF IInv, TypeOK, SpareReceive, recoveryVars, finalizeVars, Labels, Calls, Voting, Finalizing
<1>2. GroupsWellFormed'
  BY GroupsUnchanged DEF SpareReceive, recoveryVars, IInv, TypeOK
<1>3. QED
  BY <1>1, <1>2 DEF IInv

LEMMA SpareDrainInvariant ==
  ASSUME IInv, NEW p \in Procs, SpareDrain(p)
  PROVE  IInv'
<1>1. TypeOK'
  BY DEF IInv, TypeOK, SpareDrain, recoveryVars, finalizeVars, Labels, Calls, Voting, Finalizing
<1>2. GroupsWellFormed'
  BY GroupsUnchanged DEF SpareDrain, recoveryVars, IInv, TypeOK
<1>3. QED
  BY <1>1, <1>2 DEF IInv

LEMMA ReleaseAgreeInvariant ==
  ASSUME IInv, NEW p \in Procs, ReleaseAgree(p)
  PROVE  IInv'
<1>1. TypeOK'
  BY DEF IInv, TypeOK, ReleaseAgree, recoveryVars, finalizeVars, Labels, Calls, Voting, Finalizing
<1>2. GroupsWellFormed'
  BY GroupsUnchanged DEF ReleaseAgree, recoveryVars, IInv, TypeOK
<1>3. QED
  BY <1>1, <1>2 DEF IInv

LEMMA UserAgreeInvariant ==
  ASSUME IInv, NEW p \in Procs, UserAgree(p)
  PROVE  IInv'
<1> DEFINE live == SeqSet(user_world[p]) \cap alive
           dead == SeqSet(user_world[p]) \ alive
<1>1. TypeOK
  BY DEF IInv
<1>2. PICK counted \in SUBSET {q \in dead : pc[q] \in Voting}, err \in BOOLEAN :
        LET votes    == {pc[q] : q \in live \cup counted}
            repairs  == {q \in live : pc[q] = "locate" /\ votes = {"locate"}}
            passed   == {q \in live : pc[q] = "commit" /\ Agreed("commit", votes, err)}
            finals   == {q \in live : pc[q] = "finalize" /\ Agreed("finalize", votes, err)}
            handlers == {q \in live \ (passed \cup finals) : pc[q] # "locate"}
        IN  /\ pc' = [q \in Procs |-> IF q \in live THEN AfterVote(q, votes, err)
                                      ELSE pc[q]]
            /\ revoked' = revoked \cup {epoch[q] : q \in handlers}
            /\ old_world' = [q \in Procs |-> IF q \in repairs THEN groups[q].world
                                             ELSE old_world[q]]
            /\ old_user_procs' = [q \in Procs |->
                                    IF q \in repairs THEN groups[q].user_procs
                                    ELSE old_user_procs[q]]
            /\ commits' = [q \in Procs |-> IF q \in passed THEN commits[q] + 1
                                           ELSE commits[q]]
            /\ api' = [q \in Procs |-> IF q \in passed THEN "none" ELSE api[q]]
            /\ next_spare' = [q \in Procs |->
                                IF q \in finals THEN Len(user_world[q])
                                ELSE next_spare[q]]
  BY ZenonT(60) DEF UserAgree
<1> DEFINE votes    == {pc[q] : q \in live \cup counted}
           repairs  == {q \in live : pc[q] = "locate" /\ votes = {"locate"}}
           passed   == {q \in live : pc[q] = "commit" /\ Agreed("commit", votes, err)}
           finals   == {q \in live : pc[q] = "finalize" /\ Agreed("finalize", votes, err)}
           handlers == {q \in live \ (passed \cup finals) : pc[q] # "locate"}
<1>3. UNCHANGED <<alive, groups, user_world, epoch, report, exit_msgs>>
      /\ \A q \in live : pc[q] \in Voting
  BY DEF UserAgree, Gathered
<1>4. \A q \in Procs : /\ groups[q].user_procs \in Seq(Procs) /\ groups[q].world \in SUBSET Procs
                        /\ user_world[q] \in Seq(Procs)
  BY <1>1 DEF TypeOK, Groups
<1>5. pc' \in [Procs -> Labels]
  <2>1. ASSUME NEW q \in live PROVE AfterVote(q, votes, err) \in Labels
    BY <1>3 DEF AfterVote, Labels, Voting, Finalizing
  <2>2. QED
    BY <1>1, <1>2, <2>1 DEF TypeOK
<1>6. revoked' \in SUBSET Nat
  BY <1>1, <1>2 DEF TypeOK
<1>7. old_world' \in [Procs -> SUBSET Procs] /\ old_user_procs' \in [Procs -> Seq(Procs)]
  BY <1>1, <1>2, <1>4 DEF TypeOK
<1>8. commits' \in [Procs -> Nat] /\ api' \in [Procs -> Calls]
  BY SMTT(30), <1>1, <1>2 DEF TypeOK, Calls
<1>9. next_spare' \in [Procs -> Nat]
  <2>1. \A q \in Procs : Len(user_world[q]) \in Nat
    BY <1>4
  <2>2. QED
    BY <1>1, <1>2, <2>1 DEF TypeOK
<1>10. TypeOK'
  BY <1>1, <1>3, <1>5, <1>6, <1>7, <1>8, <1>9 DEF TypeOK
<1>11. GroupsWellFormed'
  <2>1. \A q \in Procs : old_world'[q] = old_world[q] \/ old_world'[q] = groups[q].world
    BY <1>2
  <2>2. QED
    BY <1>3, <2>1, GroupsUnchanged
<1>12. QED
  BY <1>10, <1>11 DEF IInv

LEMMA NotifySpareInvariant ==
  ASSUME IInv, NEW p \in Procs, NotifySpare(p)
  PROVE  IInv'
<1> DEFINE world == groups[p].world
           target == WorldPid(world, next_spare[p])
<1>1. TypeOK
  BY DEF IInv
<1>2. world \in SUBSET Procs /\ next_spare[p] \in Nat
  BY <1>1 DEF TypeOK, Groups
<1>3. IsFiniteSet(world) /\ world \subseteq Int
  BY <1>2, ProcsFacts, FS_Subset
<1>4. Cardinality(world) \in Nat
  BY <1>3, FS_CardinalityType
<1>5. UNCHANGED <<alive, recoveryVars, revoked, api, commits>>
  BY DEF NotifySpare
<1>6. /\ pc' \in [Procs -> Labels] /\ next_spare' \in [Procs -> Nat]
      /\ exit_msgs' \in SUBSET (Procs \X Procs)
  <2>1. CASE next_spare[p] < Cardinality(world)
    <3>1. next_spare[p] \in 0 .. Cardinality(world) - 1
      BY <1>2, <1>4, <2>1
    <3>2. target \in world
      BY <3>1, <1>2, <1>3, NthExists DEF WorldPid
    <3>3. /\ exit_msgs' = exit_msgs \cup {<<p, target>>}
          /\ next_spare' = [next_spare EXCEPT ![p] = @ + 1]
          /\ pc' = pc
      BY <2>1 DEF NotifySpare
    <3>4. QED
      BY <1>1, <1>2, <3>2, <3>3 DEF TypeOK
  <2>2. CASE ~(next_spare[p] < Cardinality(world))
    BY <1>1, <2>2 DEF NotifySpare, TypeOK, finalizeVars, Labels, Finalizing
  <2>3. QED
    BY <2>1, <2>2
<1>7. TypeOK'
  BY <1>1, <1>5, <1>6 DEF TypeOK, recoveryVars
<1>8. GroupsWellFormed'
  BY <1>5, GroupsUnchanged DEF recoveryVars
<1>9. QED
  BY <1>7, <1>8 DEF IInv

LEMMA RetryAgreeInvariant ==
  ASSUME IInv, NEW p \in Procs, RetryAgree(p)
  PROVE  IInv'
<1> DEFINE live   == SeqSet(user_world[p]) \cap alive
           kept   == {i \in DOMAIN user_world[p] : user_world[p][i] \in alive}
           shrunk == Picked(user_world[p], kept)
<1>1. TypeOK
  BY DEF IInv
<1>2. user_world[p] \in Seq(Procs) /\ \A q \in Procs : Len(groups[q].user_procs) \in Nat
  BY <1>1 DEF TypeOK, Groups
<1>3. shrunk \in Seq(Procs)
  BY <1>2, PickedIsSeq
<1>4. UNCHANGED <<alive, groups, old_world, old_user_procs, epoch, report, revoked,
                  api, commits, exit_msgs>>
  BY DEF RetryAgree
<1>5. /\ pc' \in [Procs -> Labels] /\ user_world' \in [Procs -> Seq(Procs)]
      /\ next_spare' \in [Procs -> Nat]
  <2>1. \/ /\ pc' = [q \in Procs |-> IF q \in live THEN "release" ELSE pc[q]]
           /\ UNCHANGED <<user_world, next_spare>>
        \/ /\ pc' = [q \in Procs |-> IF q \in live /\ q = Head(shrunk) THEN "notify"
                                     ELSE pc[q]]
           /\ user_world' = [q \in Procs |-> IF q \in live THEN shrunk ELSE user_world[q]]
           /\ next_spare' = [q \in Procs |-> IF q \in live THEN Len(groups[q].user_procs)
                                             ELSE next_spare[q]]
    BY DEF RetryAgree
  <2>2. /\ \A q \in Procs : pc[q] \in Labels /\ user_world[q] \in Seq(Procs) /\ next_spare[q] \in Nat
        /\ {"release", "notify"} \subseteq Labels
    BY <1>1 DEF TypeOK, Labels, Finalizing
  <2>3. CASE /\ pc' = [q \in Procs |-> IF q \in live THEN "release" ELSE pc[q]]
             /\ UNCHANGED <<user_world, next_spare>>
    BY <1>1, <2>2, <2>3 DEF TypeOK
  <2>4. CASE /\ pc' = [q \in Procs |-> IF q \in live /\ q = Head(shrunk) THEN "notify"
                                       ELSE pc[q]]
             /\ user_world' = [q \in Procs |-> IF q \in live THEN shrunk ELSE user_world[q]]
             /\ next_spare' = [q \in Procs |-> IF q \in live THEN Len(groups[q].user_procs)
                                               ELSE next_spare[q]]
    BY <1>2, <1>3, <2>2, <2>4
  <2>5. QED
    BY <2>1, <2>3, <2>4
<1>6. TypeOK'
  BY <1>1, <1>4, <1>5 DEF TypeOK
<1>7. GroupsWellFormed'
  BY <1>4, GroupsUnchanged
<1>8. QED
  BY <1>6, <1>7 DEF IInv

-----------------------------------------------------------------------------
(***************************************************************************)
(* IInv holds in every reachable state.                                     *)
(***************************************************************************)
LEMMA StepInvariant == IInv /\ [Next]_vars => IInv'
<1> SUFFICES ASSUME IInv, [Next]_vars PROVE IInv'
  OBVIOUS
<1>1. CASE UNCHANGED vars
  BY <1>1 DEF vars, recoveryVars, finalizeVars, IInv, TypeOK, GroupsWellFormed
<1>2. CASE Terminated
  BY <1>2, <1>1 DEF Terminated
<1>3. ASSUME NEW p \in Procs, Crash(p) \/ Step(p)
      PROVE  IInv'
  BY <1>3, CrashInvariant, ShrinkInvariant, CreateNewWorldInvariant, DupUserWorldInvariant,
     DetectFailureInvariant, SpareRevokedInvariant, StartCommitInvariant,
     StartFinalizeInvariant, UserAgreeInvariant, NotifySpareInvariant, RetryAgreeInvariant,
     SpareReceiveInvariant, SpareDrainInvariant, ReleaseAgreeInvariant
     DEF Step
<1>4. QED
  BY <1>1, <1>2, <1>3 DEF Next

\* The type invariant, for every number of processes, spares and crashes.
THEOREM TypeCorrect == Spec => []TypeOK
<1>1. IInv => TypeOK
  BY DEF IInv
<1>2. QED
  BY <1>1, InitInvariant, StepInvariant, PTL DEF Spec

(***************************************************************************)
(* Whatever crashes interrupt a repair and however often                    *)
(* rebuild_proc_groups runs on groups it has already changed, the groups    *)
(* stay well formed, for every number of processes, spares and crashes.     *)
(***************************************************************************)
THEOREM GroupsStayWellFormed == Spec => []GroupsWellFormed
<1>1. IInv => GroupsWellFormed
  BY DEF IInv
<1>2. QED
  BY <1>1, InitInvariant, StepInvariant, PTL DEF Spec

(***************************************************************************)
(* In every reachable state of every instance the spares are the tail of    *)
(* the world: the exit messages of Fenix_Finalize, addressed to the world   *)
(* ranks from user_world.size() up, go to all the spares and to no user.    *)
(***************************************************************************)
THEOREM SparesLast == Spec => []SparesAreTail
<1>1. IInv => SparesAreTail
  BY WellFormedTail DEF IInv, GroupsWellFormed, SparesAreTail
<1>2. QED
  BY <1>1, InitInvariant, StepInvariant, PTL DEF Spec

-----------------------------------------------------------------------------
(***************************************************************************)
(* The rank maps, of live and of crashed processes alike.                   *)
(***************************************************************************)
RankMaps == \A p \in Procs : MapsConsistent(groups[p])

LEMMA StepRankMaps == IInv /\ RankMaps /\ [Next]_vars => RankMaps'
<1> SUFFICES ASSUME IInv, RankMaps, [Next]_vars PROVE RankMaps'
  OBVIOUS
<1>1. CASE groups' = groups
  BY <1>1 DEF RankMaps
<1>2. ASSUME NEW p \in Procs, Shrink(p), NEW q \in Procs
      PROVE  MapsConsistent(groups'[q])
  <2>1. /\ MapsConsistent(groups[q]) /\ WellFormed(groups[q])
        /\ old_world[q] \cap alive \in SUBSET groups[q].world
    BY DEF RankMaps, IInv, GroupsWellFormed
  <2>2. groups'[q] = groups[q] \/ groups'[q] = RebuildProcGroups(groups[q], old_world[q] \cap alive)
    BY <1>2 DEF Shrink
  <2>3. QED
    BY <2>1, <2>2, RebuildMapsConsistent
<1>3. groups' = groups \/ \E p \in Procs : Shrink(p)
  BY ZenonT(60) DEF Next, Step, Terminated, vars, recoveryVars, Crash, CreateNewWorld, DupUserWorld,
         DetectFailure, SpareRevoked, StartCommit, StartFinalize, UserAgree, NotifySpare, RetryAgree,
         SpareReceive, SpareDrain, ReleaseAgree
<1>4. QED
  BY <1>1, <1>2, <1>3 DEF RankMaps

(***************************************************************************)
(* However often rebuild_proc_groups runs, rank_to_pid lists user_procs in  *)
(* order and pid_to_rank inverts it: its assertions cannot fail.            *)
(***************************************************************************)
THEOREM RankMapsStayConsistent == Spec => []RankMapsConsistent
<1>1. Init => RankMaps
  BY InitialMapsConsistent DEF Init, RankMaps
<1>2. IInv /\ RankMaps => RankMapsConsistent
  <2>1. SUFFICES ASSUME IInv, RankMaps, NEW p \in alive
                 PROVE  LET g    == groups[p]
                            held == {r \in 0 .. NActive - 1 : g.rank_to_pid[r] # MPI_UNDEFINED}
                        IN  /\ g.user_procs = [k \in 1 .. Cardinality(held) |-> g.rank_to_pid[Nth(held, k - 1)]]
                            /\ \A r \in held : g.pid_to_rank[g.rank_to_pid[r]] = r
    BY DEF RankMapsConsistent
  <2>2. MapsConsistent(groups[p])
    BY <2>1 DEF RankMaps, IInv, TypeOK
  <2>3. QED
    BY <2>2 DEF MapsConsistent, Picked, Held
<1>3. QED
  BY <1>1, <1>2, InitInvariant, StepInvariant, StepRankMaps, PTL DEF Spec

-----------------------------------------------------------------------------
(***************************************************************************)
(* What the processes agree on in spite of crashes at any step.             *)
(***************************************************************************)

Rebuilding == {"shrink", "create", "dup"}

(***************************************************************************)
(* The live processes are never divided: each is in the world of every      *)
(* other, and will be in the next one, and all hold the same groups.        *)
(***************************************************************************)
OneView ==
  /\ \A p \in alive : alive \subseteq groups[p].world
  /\ \A p \in alive : pc[p] \in Rebuilding => alive \subseteq old_world[p]
  /\ \A p, q \in alive : groups[p] = groups[q] /\ epoch[p] = epoch[q]

(***************************************************************************)
(* Once the new world is shrunk everybody is there; the users enter the     *)
(* repair together; everybody leaves together; where a process is shows     *)
(* whether it is a spare.                                                   *)
(***************************************************************************)
Lockstep ==
  /\ \A p, q \in alive : pc[p] \in {"create", "dup", "done"} => pc[q] = pc[p]
  /\ \A p, q \in alive : (pc[p] = "shrink" /\ ~spare(p) /\ ~spare(q)) => pc[q] = "shrink"
  /\ \A p \in alive : pc[p] \notin Rebuilding \cup {"done"} =>
       (spare(p) <=> pc[p] \in {"spare", "spare_release"})

\* The user world of a user has all live users, and is the one of the groups.
UserWorlds ==
  \A p \in alive : (pc[p] \notin Rebuilding /\ ~spare(p)) =>
    /\ SeqSet(user_world[p]) \cap alive = UserSet(groups[p]) \cap alive
    /\ pc[p] \notin Finalizing => user_world[p] = groups[p].user_procs

(***************************************************************************)
(* Nobody enters the repair of an epoch that is not revoked; and an epoch   *)
(* is revoked only by a user that waits in the error handler, or died       *)
(* there.                                                                   *)
(***************************************************************************)
Revocation ==
  /\ \A p \in alive : \A e \in revoked : e <= epoch[p]
  /\ \A p \in alive : pc[p] = "locate" => epoch[p] \in revoked
  /\ \A p, q \in alive : (pc[p] = "shrink" /\ pc[q] \notin Rebuilding) => epoch[p] \in revoked
  /\ \A p \in alive : (pc[p] \notin Rebuilding /\ ~spare(p) /\ epoch[p] \in revoked) =>
       pc[p] \notin Finalizing /\ \E q \in UserSet(groups[p]) : pc[q] = "locate"

View == OneView /\ Lockstep /\ UserWorlds /\ Revocation /\ FinalizeIsCollective

USE DEF Rebuilding

(***************************************************************************)
(* In one view, the live users of anybody's groups are the live processes   *)
(* that are not spares, and they are the live members of a user world.      *)
(***************************************************************************)
LEMMA ViewFacts ==
  ASSUME IInv, View
  PROVE  /\ alive \subseteq Procs
         /\ \A p, q \in alive : q \in UserSet(groups[p]) <=> ~spare(q)
         /\ \A p, q \in alive : q \in groups[p].spare_procs <=> spare(q)
         /\ \A p \in alive : groups[p].world \cap alive = alive /\ UserSet(groups[p]) \subseteq Procs
         /\ \A p, q \in alive : (pc[p] \notin Rebuilding /\ ~spare(p)) =>
              (q \in SeqSet(user_world[p]) <=> ~spare(q))
<1>1. alive \subseteq Procs
  BY DEF IInv, TypeOK
<1>2. ASSUME NEW p \in alive, NEW q \in alive
      PROVE  /\ q \in UserSet(groups[p]) <=> ~spare(q)
             /\ q \in groups[p].spare_procs <=> spare(q)
  <2>1. WellFormed(groups[p]) /\ q \in groups[p].world /\ groups[p] = groups[q]
    BY <1>1 DEF IInv, GroupsWellFormed, View, OneView
  <2>2. groups[p].world = UserSet(groups[p]) \cup groups[p].spare_procs
        /\ \A u \in UserSet(groups[p]), s \in groups[p].spare_procs : u < s
    BY <2>1 DEF WellFormed
  <2>3. q \in Int
    BY <1>1, ProcsFacts
  <2>4. ~(q \in UserSet(groups[p]) /\ q \in groups[p].spare_procs)
    BY <2>2, <2>3
  <2>5. QED
    BY <2>1, <2>2, <2>4 DEF spare
<1>3. ASSUME NEW p \in alive, NEW q \in alive, pc[p] \notin Rebuilding, ~spare(p)
      PROVE  q \in SeqSet(user_world[p]) <=> ~spare(q)
  BY <1>2, <1>3 DEF View, UserWorlds
<1>4. ASSUME NEW p \in alive PROVE UserSet(groups[p]) \subseteq Procs
  <2>1. groups[p].user_procs \in Seq(Procs)
    BY <1>1 DEF IInv, TypeOK, Groups
  <2>2. QED
    BY <2>1 DEF UserSet
<1>5. QED
  BY <1>1, <1>2, <1>3, <1>4 DEF View, OneView

\* Steps in which neither the groups nor the epochs change.
LEMMA OneViewKept ==
  ASSUME View, alive' \subseteq alive, groups' = groups, epoch' = epoch,
         \A p \in alive' : pc'[p] \in Rebuilding =>
           old_world'[p] = groups[p].world \/ (pc[p] \in Rebuilding /\ old_world'[p] = old_world[p])
  PROVE  OneView'
BY DEF View, OneView

LEMMA DetectFailureView ==
  ASSUME IInv, View, NEW p \in Procs, DetectFailure(p)
  PROVE  View'
<1> USE DEF DetectFailure, recoveryVars, finalizeVars, View, IInv, TypeOK
<1>1. OneView'
  BY DEF OneView
<1>2. Lockstep'
  BY DEF Lockstep, spare
<1>3. UserWorlds'
  BY DEF UserWorlds, Finalizing, Lockstep, spare
<1>4. Revocation'
  <2>1. ~spare(p) /\ p \in UserSet(groups[p]) /\ \A q \in alive : epoch[q] = epoch[p] /\ groups[q] = groups[p]
    BY ViewFacts DEF OneView, Lockstep
  <2>2. \A q \in alive : ~spare(q) => pc[q] \notin Finalizing
    BY DEF FinalizeIsCollective, Finalizing
  <2>3. QED
    BY <2>1, <2>2 DEF Revocation, spare, Finalizing
<1>5. FinalizeIsCollective'
  BY DEF FinalizeIsCollective, Finalizing
<1>6. QED
  BY <1>1, <1>2, <1>3, <1>4, <1>5

LEMMA CrashView ==
  ASSUME IInv, View, NEW p \in Procs, Crash(p)
  PROVE  View'
<1> USE DEF Crash, recoveryVars, finalizeVars, View, IInv, TypeOK
<1>1. OneView'
  BY DEF OneView
<1>2. Lockstep'
  BY DEF Lockstep, spare
<1>3. UserWorlds'
  BY DEF UserWorlds, spare
<1>4. Revocation'
  BY DEF Revocation, spare
<1>5. FinalizeIsCollective'
  BY DEF FinalizeIsCollective
<1>6. QED
  BY <1>1, <1>2, <1>3, <1>4, <1>5

LEMMA SpareRevokedView ==
  ASSUME IInv, View, NEW p \in Procs, SpareRevoked(p)
  PROVE  View'
<1> USE DEF SpareRevoked, recoveryVars, finalizeVars, View, IInv, TypeOK
<1>1. OneView'
  BY DEF OneView
<1>2. spare(p)
  BY DEF Lockstep
<1>3. Lockstep'
  BY <1>2 DEF Lockstep, spare
<1>4. UserWorlds'
  BY <1>2 DEF UserWorlds, spare
<1>5. Revocation'
  <2>1. \A q \in alive : epoch[q] = epoch[p]
    BY DEF OneView
  <2>2. QED
    BY ZenonT(60), <1>2, <2>1, ViewFacts DEF Revocation, spare
<1>6. FinalizeIsCollective'
  <2>1. \A q \in alive : pc[q] \notin Finalizing
    <3>1. SUFFICES ASSUME NEW q \in alive, pc[q] \in Finalizing PROVE FALSE
      OBVIOUS
    <3>2. epoch[q] \in revoked
      BY DEF OneView
    <3>3. CASE pc[q] = "done"
      BY <3>3 DEF Lockstep
    <3>4. CASE pc[q] # "done"
      BY <3>1, <3>2, <3>4 DEF Lockstep, Revocation, Finalizing
    <3>5. QED
      BY <3>3, <3>4
  <2>2. QED
    BY <2>1 DEF FinalizeIsCollective, Finalizing
<1>7. QED
  BY <1>1, <1>3, <1>4, <1>5, <1>6

(***************************************************************************)
(* Steps in which one process goes on, outside repairs and error handlers,  *)
(* and neither enters nor leaves Fenix_Finalize.                            *)
(***************************************************************************)
LEMMA MoveView ==
  ASSUME IInv, View, NEW p \in alive, NEW l,
         pc[p] \notin Rebuilding \cup {"done", "locate"}, l \notin Rebuilding \cup {"done", "locate"},
         pc' = [pc EXCEPT ![p] = l],
         l \in Finalizing <=> pc[p] \in Finalizing,
         l \in {"spare", "spare_release"} <=> pc[p] \in {"spare", "spare_release"},
         UNCHANGED <<alive, groups, old_world, user_world, epoch, revoked>>
  PROVE  View'
<1> USE DEF View, IInv, TypeOK
<1>1. \A q \in Procs : /\ q # p => pc'[q] = pc[q]
                       /\ q = p => pc'[q] = l
      /\ p \in Procs
  OBVIOUS
<1>2. OneView'
  BY <1>1 DEF OneView
<1>3. Lockstep'
  BY <1>1 DEF Lockstep, spare
<1>4. UserWorlds'
  BY <1>1 DEF UserWorlds, spare
<1>5. Revocation'
  <2>1. \A q \in Procs : pc'[q] = "locate" <=> pc[q] = "locate"
    BY <1>1
  <2>2. \A q \in Procs : /\ pc'[q] = "shrink" <=> pc[q] = "shrink"
                         /\ pc'[q] \in Rebuilding <=> pc[q] \in Rebuilding
                         /\ pc'[q] \in Finalizing <=> pc[q] \in Finalizing
    BY <1>1
  <2>3. ASSUME NEW q \in alive, pc[q] \notin Rebuilding, ~spare(q), epoch[q] \in revoked
        PROVE  pc'[q] \notin Finalizing /\ \E u \in UserSet(groups[q]) : pc'[u] = "locate"
    <3>1. pc[q] \notin Finalizing /\ \E u \in UserSet(groups[q]) : pc[u] = "locate"
      BY <2>3 DEF Revocation
    <3>2. UserSet(groups[q]) \subseteq Procs
      BY ViewFacts
    <3>3. QED
      BY <3>1, <3>2, <2>1, <2>2
  <2>4. alive \subseteq Procs
    OBVIOUS
  <2>5. QED
    BY <2>1, <2>2, <2>3, <2>4 DEF Revocation, spare
<1>6. FinalizeIsCollective'
  BY <1>1 DEF FinalizeIsCollective
<1>7. QED
  BY <1>2, <1>3, <1>4, <1>5, <1>6

LEMMA StartCommitView ==
  ASSUME IInv, View, NEW p \in Procs, StartCommit(p)
  PROVE  View'
BY MoveView DEF StartCommit, recoveryVars, Finalizing

LEMMA StartFinalizeView ==
  ASSUME IInv, View, NEW p \in Procs, StartFinalize(p)
  PROVE  View'
BY MoveView DEF StartFinalize, recoveryVars, Finalizing

LEMMA NotifySpareView ==
  ASSUME IInv, View, NEW p \in Procs, NotifySpare(p)
  PROVE  View'
<1>1. CASE next_spare[p] < Cardinality(groups[p].world)
  <2>1. pc' = [pc EXCEPT ![p] = "notify"]
    BY <1>1 DEF NotifySpare, IInv, TypeOK
  <2>2. QED
    BY <2>1, MoveView DEF NotifySpare, recoveryVars, Finalizing
<1>2. CASE ~(next_spare[p] < Cardinality(groups[p].world))
  BY <1>2, MoveView DEF NotifySpare, recoveryVars, Finalizing
<1>3. QED
  BY <1>1, <1>2

LEMMA SpareReceiveView ==
  ASSUME IInv, View, NEW p \in Procs, SpareReceive(p)
  PROVE  View'
BY MoveView DEF SpareReceive, recoveryVars, Finalizing

LEMMA SpareDrainView ==
  ASSUME IInv, View, NEW p \in Procs, SpareDrain(p)
  PROVE  View'
<1>1. pc' = [pc EXCEPT ![p] = "spare_release"]
  BY DEF SpareDrain, IInv, TypeOK
<1>2. QED
  BY <1>1, MoveView DEF SpareDrain, recoveryVars, Finalizing

LEMMA ReleaseAgreeView ==
  ASSUME IInv, View, NEW p \in Procs, ReleaseAgree(p)
  PROVE  View'
<1> USE DEF ReleaseAgree, recoveryVars, finalizeVars, View, IInv, TypeOK, Gathered
<1>1. groups[p].world \cap alive = alive
  BY ViewFacts
<1>2. OneView'
  BY DEF OneView
<1>3. Lockstep'
  BY <1>1 DEF Lockstep, spare
<1>4. UserWorlds'
  BY <1>1 DEF UserWorlds, Finalizing, Lockstep, spare
<1>5. Revocation'
  BY <1>1 DEF Revocation, Lockstep, spare, Finalizing
<1>6. FinalizeIsCollective'
  BY <1>1 DEF FinalizeIsCollective, Finalizing
<1>7. QED
  BY <1>2, <1>3, <1>4, <1>5, <1>6

\* All live processes go on to the same step of a repair.
LEMMA TogetherView ==
  ASSUME View, OneView', NEW l \in Rebuilding, \A q \in alive' : pc'[q] = l,
         alive' \subseteq alive, epoch' = epoch, revoked' = revoked
  PROVE  View'
<1>1. Lockstep'
  BY DEF Lockstep
<1>2. UserWorlds'
  BY DEF UserWorlds
<1>3. Revocation'
  BY DEF Revocation, View
<1>4. FinalizeIsCollective'
  BY DEF FinalizeIsCollective, Finalizing
<1>5. QED
  BY <1>1, <1>2, <1>3, <1>4 DEF View

LEMMA ShrinkView ==
  ASSUME IInv, View, NEW p \in Procs, Shrink(p)
  PROVE  View'
<1>1. alive \subseteq Procs /\ p \in alive /\ \A q \in alive : pc[q] = "shrink"
  <2>1. alive \subseteq old_world[p]
    BY DEF Shrink, View, OneView
  <2>2. QED
    BY <2>1 DEF Shrink, Gathered, IInv, TypeOK
<1>2. \A q \in alive : old_world[q] \cap alive = alive /\ groups[q] = groups[p] /\ epoch[q] = epoch[p]
  BY <1>1 DEF View, OneView
<1>3. \A q \in alive : pc'[q] = "create" /\ groups'[q] = RebuildProcGroups(groups[p], alive)
  BY <1>1, <1>2 DEF Shrink
<1>4. UNCHANGED <<alive, old_world, epoch, revoked>>
  BY DEF Shrink
<1>5. OneView'
  <2>1. RebuildProcGroups(groups[p], alive).world = alive
    BY DEF RebuildProcGroups
  <2>2. QED
    BY <1>1, <1>2, <1>3, <1>4, <2>1 DEF OneView
<1>6. QED
  BY <1>3, <1>4, <1>5, TogetherView

LEMMA CreateNewWorldView ==
  ASSUME IInv, View, NEW p \in Procs, CreateNewWorld(p)
  PROVE  View'
<1>1. alive \subseteq Procs /\ p \in alive /\ groups[p].world \cap alive = alive
  BY ViewFacts DEF CreateNewWorld
<1>2. \A q \in alive : pc[q] = "create"
  BY <1>1 DEF CreateNewWorld, Gathered
<1>3. PICK l \in {"dup", "shrink"} : \A q \in alive : pc'[q] = l
  BY <1>1 DEF CreateNewWorld
<1>4. UNCHANGED <<alive, groups, old_world, epoch, revoked>>
  BY DEF CreateNewWorld, recoveryVars
<1>5. OneView'
  BY <1>2, <1>4, OneViewKept
<1>6. QED
  BY <1>3, <1>4, <1>5, TogetherView

(***************************************************************************)
(* What the second half of try_build_active_worlds does to the live         *)
(* processes, all of which take part in it: it fails on all, or succeeds.   *)
(***************************************************************************)
LEMMA DupCases ==
  ASSUME IInv, View, NEW p \in Procs, DupUserWorld(p)
  PROVE  /\ alive \subseteq Procs /\ p \in alive /\ \A q \in alive : pc[q] = "dup"
         /\ UNCHANGED <<alive, groups, old_world, old_user_procs, revoked, finalizeVars>>
         /\ \/ /\ \A q \in alive : pc'[q] = "shrink"
               /\ UNCHANGED <<user_world, epoch, report, commits, api>>
            \/ \A q \in Procs :
                 /\ q \in alive => /\ pc'[q] = IF spare(q) THEN "spare" ELSE "app"
                                   /\ user_world'[q] = IF spare(q) THEN user_world[q]
                                                       ELSE groups[q].user_procs
                                   /\ epoch'[q] = epoch[q] + 1
                                   /\ report'[q] = Repaired(q)
                                   /\ commits'[q] = RestoredCommits(q, alive)
                 /\ q \notin alive => /\ user_world'[q] = user_world[q] /\ epoch'[q] = epoch[q]
<1> DEFINE members == groups[p].world \cap alive
           users   == members \ groups[p].spare_procs
<1>1. alive \subseteq Procs /\ p \in alive /\ members = alive
      /\ \A q \in alive : q \in users <=> ~spare(q)
  BY ViewFacts DEF DupUserWorld
<1>2. \A q \in alive : pc[q] = "dup"
  BY <1>1 DEF DupUserWorld, Gathered
<1>3. PICK duped \in SUBSET users :
         IF \A q \in members : spare(q) \/ q \in duped
         THEN /\ pc' = [q \in Procs |-> IF q \notin members THEN pc[q]
                                           ELSE IF spare(q) THEN "spare" ELSE "app"]
              /\ user_world' = [q \in Procs |-> IF q \in users THEN groups[q].user_procs
                                                ELSE user_world[q]]
              /\ epoch' = [q \in Procs |-> IF q \in members THEN epoch[q] + 1 ELSE epoch[q]]
              /\ report' = [q \in Procs |-> IF q \in members THEN Repaired(q) ELSE report[q]]
              /\ commits' = [q \in Procs |-> IF q \in members THEN RestoredCommits(q, members)
                                             ELSE commits[q]]
              /\ api' = [q \in Procs |-> IF q \in members THEN "none" ELSE api[q]]
         ELSE /\ pc' = [q \in Procs |-> IF q \in members THEN "shrink" ELSE pc[q]]
              /\ UNCHANGED <<user_world, epoch, report, commits, api>>
  BY DEF DupUserWorld
<1>4. UNCHANGED <<alive, groups, old_world, old_user_procs, revoked, finalizeVars>>
  BY DEF DupUserWorld
<1>5. CASE \A q \in alive : spare(q) \/ q \in duped
  <2>1. ASSUME NEW q \in Procs
        PROVE  /\ q \in alive => /\ pc'[q] = IF spare(q) THEN "spare" ELSE "app"
                                 /\ epoch'[q] = epoch[q] + 1
                                 /\ report'[q] = Repaired(q)
                                 /\ commits'[q] = RestoredCommits(q, alive)
               /\ q \notin alive => user_world'[q] = user_world[q] /\ epoch'[q] = epoch[q]
    <3> HIDE DEF members
    <3>1. members = alive
      BY <1>1
    <3>2. q \in alive => pc'[q] = IF spare(q) THEN "spare" ELSE "app"
      BY <1>3, <1>5, <3>1
    <3>3. q \in alive => epoch'[q] = epoch[q] + 1 /\ report'[q] = Repaired(q)
      BY <1>3, <1>5, <3>1
    <3>4. q \in alive => commits'[q] = RestoredCommits(q, alive)
      BY <1>3, <1>5, <3>1
    <3>5. q \notin alive => user_world'[q] = user_world[q] /\ epoch'[q] = epoch[q]
      BY <1>3, <1>5, <3>1
    <3>6. QED
      BY <3>2, <3>3, <3>4, <3>5
  <2>2. ASSUME NEW q \in alive
        PROVE  user_world'[q] = IF spare(q) THEN user_world[q] ELSE groups[q].user_procs
    BY <1>1, <1>3, <1>5
  <2>3. QED
    BY <1>1, <1>2, <1>4, <2>1, <2>2
<1>6. CASE ~\A q \in alive : spare(q) \/ q \in duped
  BY <1>1, <1>2, <1>3, <1>4, <1>6
<1>7. QED
  BY <1>5, <1>6

LEMMA DupUserWorldView ==
  ASSUME IInv, View, NEW p \in Procs, DupUserWorld(p)
  PROVE  View'
<1>1. /\ alive \subseteq Procs /\ p \in alive /\ \A q \in alive : pc[q] = "dup"
      /\ UNCHANGED <<alive, groups, old_world, revoked>>
  BY DupCases
<1>2. CASE (\A q \in alive : pc'[q] = "shrink") /\ UNCHANGED <<user_world, epoch>>
  <2>1. OneView'
    BY <1>1, <1>2, OneViewKept
  <2>2. QED
    BY <1>1, <1>2, <2>1, TogetherView
<1>3. CASE \A q \in alive : /\ pc'[q] = IF spare(q) THEN "spare" ELSE "app"
                            /\ user_world'[q] = IF spare(q) THEN user_world[q]
                                                ELSE groups[q].user_procs
                            /\ epoch'[q] = epoch[q] + 1
  <2>1. OneView'
    BY <1>1, <1>3 DEF View, OneView
  <2>2. Lockstep'
    BY <1>1, <1>3 DEF Lockstep, spare
  <2>3. UserWorlds'
    BY <1>1, <1>3 DEF UserWorlds, spare, SeqSet, UserSet
  <2>4. Revocation'
    <3>1. \A q \in alive, e \in revoked : e <= epoch[q] /\ epoch[q] \in Nat /\ e \in Nat
      BY <1>1 DEF View, Revocation, IInv, TypeOK
    <3>2. \A q \in alive : epoch'[q] \notin revoked /\ \A e \in revoked : e <= epoch'[q]
      BY <1>3, <3>1
    <3>3. QED
      BY <1>1, <1>3, <3>2 DEF Revocation
  <2>5. FinalizeIsCollective'
    BY <1>1, <1>3 DEF FinalizeIsCollective, Finalizing
  <2>6. QED
    BY <2>1, <2>2, <2>3, <2>4, <2>5 DEF View
<1>4. QED
  BY <1>1, <1>2, <1>3, DupCases

LEMMA RetryAgreeView ==
  ASSUME IInv, View, NEW p \in Procs, RetryAgree(p)
  PROVE  View'
<1> DEFINE s == user_world[p]
           live == SeqSet(s) \cap alive
           kept == {i \in DOMAIN s : s[i] \in alive}
           shrunk == Picked(s, kept)
<1>1. alive \subseteq Procs /\ p \in alive /\ pc[p] = "retry" /\ s \in Seq(Procs)
  BY DEF RetryAgree, IInv, TypeOK
<1>2. ~spare(p) /\ \A q \in alive : q \in live <=> ~spare(q)
  <2>1. ~spare(p)
    BY <1>1 DEF View, Lockstep
  <2>2. QED
    BY <1>1, <2>1, ViewFacts
<1>3. UNCHANGED <<alive, groups, old_world, epoch, revoked>>
  BY DEF RetryAgree
<1>4. \A q \in alive : q \in live => pc[q] = "retry"
  BY DEF RetryAgree, Gathered
<1>5. \A q \in alive : /\ q \notin live => pc'[q] = pc[q] /\ user_world'[q] = user_world[q]
                       /\ q \in live => /\ pc'[q] \in {"retry", "notify", "release"}
                                        /\ user_world'[q] \in {user_world[q], shrunk}
  BY <1>1, <1>4 DEF RetryAgree
<1>6. SeqSet(shrunk) = live
  <2>1. kept \subseteq Int /\ IsFiniteSet(kept)
    <3>1. DOMAIN s = 1 .. Len(s) /\ Len(s) \in Nat
      BY <1>1
    <3>2. IsFiniteSet(DOMAIN s) /\ kept \in SUBSET DOMAIN s
      BY <3>1, FS_Interval
    <3>3. QED
      BY <3>1, <3>2, FS_Subset
  <2>2. SeqSet(shrunk) = {s[i] : i \in kept}
    BY <2>1, PickedElements DEF SeqSet
  <2>3. QED
    BY <2>2 DEF SeqSet
<1>7. OneView'
  BY <1>1, <1>3, <1>4, <1>5, OneViewKept
<1>8. Lockstep'
  <2>1. \A q \in alive : pc[q] \notin Rebuilding \cup {"done"}
    BY <1>1 DEF View, FinalizeIsCollective, Finalizing, Lockstep
  <2>2. QED
    BY <1>1, <1>2, <1>3, <1>5, <2>1 DEF View, Lockstep, spare
<1>9. UserWorlds'
  <2>1. ASSUME NEW q \in alive, ~spare(q)
        PROVE  SeqSet(user_world'[q]) \cap alive = UserSet(groups[q]) \cap alive /\ pc'[q] \in Finalizing
    <3>1. q \in live /\ pc[q] = "retry"
      BY <1>2, <1>4, <2>1
    <3>2. /\ SeqSet(user_world[q]) \cap alive = UserSet(groups[q]) \cap alive
          /\ SeqSet(s) \cap alive = UserSet(groups[p]) \cap alive
          /\ groups[p] = groups[q]
      BY <1>1, <1>2, <2>1, <3>1 DEF View, UserWorlds, OneView
    <3>3. QED
      BY <1>5, <1>6, <3>1, <3>2 DEF Finalizing
  <2>2. QED
    BY <1>3, <2>1 DEF UserWorlds, spare
<1>10. Revocation'
  <2>1. \A q \in alive : epoch[q] \notin revoked
    BY <1>1, <1>2 DEF View, Revocation, OneView, Finalizing
  <2>2. \A q \in alive : pc[q] # "locate" /\ pc'[q] # "locate" /\ pc[q] # "shrink" /\ pc'[q] # "shrink"
    BY <1>1, <1>5 DEF View, FinalizeIsCollective, Finalizing
  <2>3. QED
    BY <1>3, <2>1, <2>2 DEF View, Revocation
<1>11. FinalizeIsCollective'
  BY <1>1, <1>3, <1>5 DEF View, FinalizeIsCollective, Finalizing
<1>12. QED
  BY <1>7, <1>8, <1>9, <1>10, <1>11 DEF View

LEMMA InitView == Init => View
<1> SUFFICES ASSUME Init PROVE View
  OBVIOUS
<1>1. InitialGroups.world = Procs
  BY DEF InitialGroups
<1>2. QED
  BY <1>1 DEF Init, View, OneView, Lockstep, UserWorlds, Revocation, FinalizeIsCollective, Finalizing

(***************************************************************************)
(* What an agree on user_world does: the users enter the repair together,   *)
(* pass the commit barrier together, pass the first agree of Fenix_Finalize *)
(* together, or all end up in the error handler.  The second and the third  *)
(* happen only when every user of the world, a dead one included, voted for *)
(* it.                                                                      *)
(***************************************************************************)
VoteFor(p, label) ==
  /\ \A q \in alive : ~spare(q) => pc[q] = label
  /\ revoked' = revoked
  /\ label = "locate" \/ \A u \in UserSet(groups[p]) : pc[u] = label

VoteOutcome(p) ==
  \/ /\ VoteFor(p, "locate") /\ commits' = commits
     /\ \A q \in alive : ~spare(q) => /\ pc'[q] = "shrink" /\ old_world'[q] = groups[q].world
                                      /\ old_user_procs'[q] = groups[q].user_procs
  \/ /\ VoteFor(p, "commit")
     /\ \A q \in alive : ~spare(q) => pc'[q] = "app" /\ commits'[q] = commits[q] + 1
  \/ /\ VoteFor(p, "finalize") /\ commits' = commits
     /\ \A q \in alive : ~spare(q) => pc'[q] \in {"notify", "retry"}
  \/ /\ \A q \in alive : ~spare(q) => pc'[q] = "locate"
     /\ epoch[p] \in revoked' /\ revoked' \subseteq revoked \cup {epoch[p]}
     /\ commits' = commits

LEMMA VoteCases ==
  ASSUME IInv, View, NEW p \in Procs, UserAgree(p)
  PROVE  /\ alive \subseteq Procs /\ p \in alive /\ ~spare(p)
         /\ \A q \in alive : ~spare(q) => pc[q] \in Voting
         /\ UNCHANGED <<alive, groups, user_world, epoch, report, exit_msgs>>
         /\ \A q \in alive : spare(q) =>
              /\ pc'[q] = pc[q] /\ old_world'[q] = old_world[q]
              /\ old_user_procs'[q] = old_user_procs[q] /\ commits'[q] = commits[q]
         /\ VoteOutcome(p)
<1> DEFINE live == SeqSet(user_world[p]) \cap alive
           dead == SeqSet(user_world[p]) \ alive
<1>1. PICK counted \in SUBSET {q \in dead : pc[q] \in Voting}, err \in BOOLEAN :
        /\ dead # counted => err
        /\ LET votes    == {pc[q] : q \in live \cup counted}
               repairs  == {q \in live : pc[q] = "locate" /\ votes = {"locate"}}
               passed   == {q \in live : pc[q] = "commit" /\ Agreed("commit", votes, err)}
               finals   == {q \in live : pc[q] = "finalize" /\ Agreed("finalize", votes, err)}
               handlers == {q \in live \ (passed \cup finals) : pc[q] # "locate"}
           IN  /\ pc' = [q \in Procs |-> IF q \in live THEN AfterVote(q, votes, err)
                                         ELSE pc[q]]
               /\ revoked' = revoked \cup {epoch[q] : q \in handlers}
               /\ old_world' = [q \in Procs |-> IF q \in repairs THEN groups[q].world
                                                ELSE old_world[q]]
               /\ old_user_procs' = [q \in Procs |->
                                       IF q \in repairs THEN groups[q].user_procs
                                       ELSE old_user_procs[q]]
               /\ commits' = [q \in Procs |-> IF q \in passed THEN commits[q] + 1
                                              ELSE commits[q]]
  BY ZenonT(60) DEF UserAgree
<1> DEFINE votes    == {pc[q] : q \in live \cup counted}
           repairs  == {q \in live : pc[q] = "locate" /\ votes = {"locate"}}
           passed   == {q \in live : pc[q] = "commit" /\ Agreed("commit", votes, err)}
           finals   == {q \in live : pc[q] = "finalize" /\ Agreed("finalize", votes, err)}
           handlers == {q \in live \ (passed \cup finals) : pc[q] # "locate"}
<1>2. /\ alive \subseteq Procs /\ p \in alive /\ pc[p] \in Voting
      /\ UNCHANGED <<alive, groups, user_world, epoch, report, exit_msgs>>
      /\ \A q \in live : pc[q] \in Voting
  BY DEF UserAgree, Gathered, IInv, TypeOK
<1>3. ~spare(p)
  BY <1>2 DEF View, Lockstep, Voting
<1>4. /\ \A q \in alive : q \in live <=> ~spare(q)
      /\ SeqSet(user_world[p]) = UserSet(groups[p])
  <2>1. user_world[p] = groups[p].user_procs
    BY <1>2, <1>3 DEF View, UserWorlds, Voting, Finalizing
  <2>2. QED
    BY <1>2, <1>3, <2>1, ViewFacts DEF SeqSet, UserSet, Voting
<1>5. \A q \in alive : spare(q) =>
              /\ pc'[q] = pc[q] /\ old_world'[q] = old_world[q]
              /\ old_user_procs'[q] = old_user_procs[q] /\ commits'[q] = commits[q]
  <2>1. SUFFICES ASSUME NEW q \in alive, q \notin live
                 PROVE  /\ pc'[q] = pc[q] /\ old_world'[q] = old_world[q]
                        /\ old_user_procs'[q] = old_user_procs[q] /\ commits'[q] = commits[q]
    BY <1>4
  <2>2. q \notin repairs /\ q \notin passed /\ q \in Procs
    BY <1>2, <2>1
  <2>3. QED
    BY <1>1, <2>1, <2>2
<1>6. ASSUME NEW q \in live
      PROVE  /\ q \in Procs /\ pc[q] \in votes /\ epoch[q] = epoch[p]
             /\ pc'[q] = AfterVote(q, votes, err)
             /\ pc[q] = "locate" \/ pc[q] = "commit" \/ pc[q] = "finalize"
  BY <1>1, <1>2 DEF Voting, View, OneView
<1>7. votes \subseteq Voting /\ p \in live
  BY <1>2, <1>3, <1>4
<1>8. commits' = commits \/ passed # {}
  <2>1. commits \in [Procs -> Nat]
    BY DEF IInv, TypeOK
  <2>2. QED
    BY <1>1, <2>1
<1>9. ASSUME NEW l, ~err, votes = {l}
      PROVE  \A u \in UserSet(groups[p]) : pc[u] = l
  <2>1. dead = counted
    BY <1>1, <1>9
  <2>2. \A u \in SeqSet(user_world[p]) : pc[u] \in votes
    BY <2>1
  <2>3. QED
    BY <1>4, <1>9, <2>2
<1>10. CASE votes = {"locate"}
  <2>1. \A q \in live : pc[q] = "locate"
    BY <1>6, <1>10
  <2>2. handlers = {} /\ passed = {} /\ repairs = live
    BY <2>1, <1>10
  <2>3. revoked' = revoked /\ commits' = commits
    BY <2>2, <1>1, <1>8
  <2>4. \A q \in live : /\ pc'[q] = "shrink" /\ old_world'[q] = groups[q].world
                        /\ old_user_procs'[q] = groups[q].user_procs
    BY <2>1, <2>2, <1>1, <1>6, <1>10 DEF AfterVote
  <2>5. VoteOutcome(p)
    BY <2>1, <2>3, <2>4, <1>4 DEF VoteOutcome, VoteFor
  <2>6. QED
    BY <1>2, <1>3, <1>4, <1>5, <2>5
<1>11. CASE Agreed("commit", votes, err)
  <2>1. \A q \in live : pc[q] = "commit"
    BY <1>6, <1>11 DEF Agreed
  <2>2. passed = live
    BY <2>1, <1>11
  <2>3. handlers = {}
    BY <2>2
  <2>4. revoked' = revoked
    BY <2>3, <1>1
  <2>5. \A q \in live : pc'[q] = "app" /\ commits'[q] = commits[q] + 1
    BY <2>1, <2>2, <1>1, <1>6, <1>11 DEF AfterVote
  <2>6. \A u \in UserSet(groups[p]) : pc[u] = "commit"
    BY <1>9, <1>11 DEF Agreed
  <2>7. VoteOutcome(p)
    BY <2>1, <2>4, <2>5, <2>6, <1>4 DEF VoteOutcome, VoteFor
  <2>8. QED
    BY <1>2, <1>3, <1>4, <1>5, <2>7
<1>12. CASE Agreed("finalize", votes, err)
  <2>1. \A q \in live : pc[q] = "finalize"
    BY <1>6, <1>12 DEF Agreed
  <2>2. finals = live /\ passed = {}
    BY <2>1, <1>12
  <2>3. handlers = {}
    BY <2>2
  <2>4. revoked' = revoked /\ commits' = commits
    BY <2>2, <2>3, <1>1, <1>8
  <2>5. \A q \in live : pc'[q] \in {"notify", "retry"}
    BY <2>1, <1>6, <1>12 DEF AfterVote
  <2>6. \A u \in UserSet(groups[p]) : pc[u] = "finalize"
    BY <1>9, <1>12 DEF Agreed
  <2>7. VoteOutcome(p)
    BY <2>1, <2>4, <2>5, <2>6, <1>4 DEF VoteOutcome, VoteFor
  <2>8. QED
    BY <1>2, <1>3, <1>4, <1>5, <2>7
<1>13. CASE votes # {"locate"} /\ ~Agreed("commit", votes, err) /\ ~Agreed("finalize", votes, err)
  <2>1. passed = {} /\ finals = {}
    BY <1>13
  <2>2. handlers = {q \in live : pc[q] # "locate"}
    BY <2>1
  <2>3. commits' = commits
    BY <2>1, <1>8
  <2>4. \A q \in live : pc'[q] = "locate"
    BY <1>6, <1>13 DEF AfterVote
  <2>5. revoked' \subseteq revoked \cup {epoch[p]}
    BY <1>1, <1>6
  <2>6. epoch[p] \in revoked'
    <3>1. CASE pc[p] = "locate"
      BY <3>1, <1>1, <1>2 DEF View, Revocation
    <3>2. CASE pc[p] # "locate"
      BY <3>2, <1>1, <1>7, <2>2
    <3>3. QED
      BY <3>1, <3>2
  <2>7. VoteOutcome(p)
    BY <2>3, <2>4, <2>5, <2>6, <1>4 DEF VoteOutcome
  <2>8. QED
    BY <1>2, <1>3, <1>4, <1>5, <2>7
<1>14. QED
  BY <1>10, <1>11, <1>12, <1>13

LEMMA UserAgreeView ==
  ASSUME IInv, View, NEW p \in Procs, UserAgree(p)
  PROVE  View'
<1>1. /\ alive \subseteq Procs /\ p \in alive /\ ~spare(p)
      /\ \A q \in alive : ~spare(q) => pc[q] \in Voting
      /\ UNCHANGED <<alive, groups, user_world, epoch>>
      /\ \A q \in alive : spare(q) => pc'[q] = pc[q] /\ old_world'[q] = old_world[q]
  BY VoteCases
<1>2. VoteOutcome(p)
  BY VoteCases
<1>3. \A q \in alive : spare(q) => pc[q] \in {"shrink", "spare", "spare_release"}
  BY <1>1 DEF View, Lockstep, Voting
<1>4. \A q \in alive : groups[q] = groups[p] /\ epoch[q] = epoch[p] /\ (spare(q) <=> spare(q)')
  BY <1>1 DEF View, OneView, spare
<1>5. \A q \in alive : ~spare(q) =>
         /\ pc'[q] \in {"app", "locate", "notify", "retry"} \/ (pc'[q] = "shrink" /\ old_world'[q] = groups[q].world)
  BY <1>2 DEF VoteOutcome
<1>6. OneView'
  BY <1>1, <1>5, OneViewKept
<1>7. \A q, r \in alive : ~spare(q) /\ ~spare(r) => (pc'[q] = "shrink" <=> pc'[r] = "shrink")
  BY <1>2 DEF VoteOutcome
<1>8. Lockstep'
  BY <1>1, <1>3, <1>4, <1>5, <1>7 DEF Lockstep
<1>9. UserWorlds'
  BY <1>1, <1>4 DEF View, UserWorlds, Voting, Finalizing
<1>10. ASSUME VoteFor(p, "commit") \/ VoteFor(p, "finalize")
       PROVE  epoch[p] \notin revoked
  <2>1. \A u \in UserSet(groups[p]) : pc[u] # "locate"
    BY <1>10 DEF VoteFor
  <2>2. pc[p] \notin Rebuilding
    BY <1>1 DEF Voting
  <2>3. QED
    BY <1>1, <2>1, <2>2 DEF View, Revocation
<1>11. Revocation'
  <2>1. \A q \in alive : \A e \in revoked' : e <= epoch[q]
    <3>1. revoked' \subseteq revoked \cup {epoch[p]}
      BY <1>2 DEF VoteOutcome, VoteFor
    <3>2. \A q \in alive : epoch[q] = epoch[p] /\ epoch[q] \in Nat
      BY <1>1, <1>4 DEF IInv, TypeOK
    <3>3. \A q \in alive : \A e \in revoked : e <= epoch[q]
      BY DEF View, Revocation
    <3>4. QED
      BY <3>1, <3>2, <3>3
  <2>2. \A q \in alive : pc'[q] = "locate" => epoch[q] \in revoked'
    BY <1>1, <1>2, <1>3, <1>4 DEF VoteOutcome
  <2>3. ASSUME NEW q \in alive, pc'[q] = "shrink" PROVE epoch[q] \in revoked'
    <3>1. CASE spare(q)
      <4>1. epoch[q] \in revoked
        BY <1>1, <2>3, <3>1 DEF View, Revocation, Voting
      <4>2. QED
        BY <4>1, <1>2, <1>4 DEF VoteOutcome, VoteFor
    <3>2. CASE ~spare(q)
      <4>1. VoteFor(p, "locate")
        BY <1>2, <2>3, <3>2 DEF VoteOutcome
      <4>2. QED
        BY <4>1, <3>2 DEF VoteFor, View, Revocation
    <3>3. QED
      BY <3>1, <3>2
  <2>4. ASSUME NEW q \in alive, pc'[q] \notin Rebuilding, ~spare(q), epoch[q] \in revoked'
        PROVE  pc'[q] \notin Finalizing /\ \E u \in UserSet(groups[q]) : pc'[u] = "locate"
    <3>1. ~VoteFor(p, "commit") /\ ~VoteFor(p, "finalize")
      BY <1>4, <1>10, <2>4 DEF VoteFor
    <3>2. pc'[q] = "locate"
      BY <1>2, <2>4, <3>1 DEF VoteOutcome
    <3>3. q \in UserSet(groups[q])
      BY <2>4, ViewFacts
    <3>4. QED
      BY <3>2, <3>3 DEF Finalizing
  <2>5. QED
    BY <1>1, <1>4, <2>1, <2>2, <2>3, <2>4 DEF Revocation
<1>12. FinalizeIsCollective'
  <2>1. CASE VoteFor(p, "finalize")
    <3>1. \A q \in alive : spare(q) => pc[q] # "shrink"
      BY <1>1, <1>4, <1>10, <2>1 DEF View, Revocation, Voting
    <3>2. \A q \in alive : ~spare(q) => pc'[q] \in {"notify", "retry"}
      BY <1>1, <1>2, <1>10, <2>1 DEF VoteOutcome, VoteFor
    <3>3. QED
      BY <1>1, <1>3, <3>1, <3>2 DEF FinalizeIsCollective, Finalizing
  <2>2. CASE ~VoteFor(p, "finalize")
    <3>1. \A q \in alive : pc'[q] \notin Finalizing
      BY <1>1, <1>2, <1>3, <2>2 DEF VoteOutcome, Finalizing
    <3>2. QED
      BY <1>1, <3>1 DEF FinalizeIsCollective
  <2>3. QED
    BY <2>1, <2>2
<1>13. QED
  BY <1>6, <1>8, <1>9, <1>11, <1>12 DEF View

LEMMA StepView == IInv /\ View /\ [Next]_vars => View'
<1> SUFFICES ASSUME IInv, View, [Next]_vars PROVE View'
  OBVIOUS
<1>1. CASE UNCHANGED vars
  BY <1>1 DEF vars, recoveryVars, finalizeVars, View, OneView, Lockstep, UserWorlds, Revocation,
              FinalizeIsCollective, spare
<1>2. CASE Terminated
  BY <1>2, <1>1 DEF Terminated
<1>3. ASSUME NEW p \in Procs, Crash(p) \/ Step(p)
      PROVE  View'
  BY <1>3, CrashView, ShrinkView, CreateNewWorldView, DupUserWorldView, DetectFailureView,
     SpareRevokedView, StartCommitView, StartFinalizeView, UserAgreeView, NotifySpareView,
     RetryAgreeView, SpareReceiveView, SpareDrainView, ReleaseAgreeView
     DEF Step
<1>4. QED
  BY <1>1, <1>2, <1>3 DEF Next

(***************************************************************************)
(* The groups that every process computes for itself, with no exchange, are *)
(* the same on all live processes in every reachable state.                 *)
(***************************************************************************)
THEOREM EveryoneSeesTheSameGroups == Spec => []GroupsAgree
<1>1. IInv /\ View => GroupsAgree
  BY DEF View, OneView, GroupsAgree
<1>2. QED
  BY <1>1, InitInvariant, StepInvariant, InitView, StepView, PTL DEF Spec

(***************************************************************************)
(* No process is past the first agree of Fenix_Finalize while another live  *)
(* user computes or recovers.                                               *)
(***************************************************************************)
THEOREM FinalizeCollectively == Spec => []FinalizeIsCollective
<1>1. IInv /\ View => FinalizeIsCollective
  BY DEF View
<1>2. QED
  BY <1>1, InitInvariant, StepInvariant, InitView, StepView, PTL DEF Spec

-----------------------------------------------------------------------------
(***************************************************************************)
(* What a repair does to those that survive it: their commits, their ranks, *)
(* and what they report about each other.  All for every number of          *)
(* processes, spares, crashes and commits.                                  *)
(***************************************************************************)
\* A process that has been in some user world.
HasServed(p) == user_world[p] # <<>>

(***************************************************************************)
(* Who has served: a process that has is a user ever after; outside repairs *)
(* every user has; all that have hold the same commits, the others none.    *)
(* The users recorded at the start of a repair are those that have served,  *)
(* on whichever process, a spare that comes late included.                  *)
(***************************************************************************)
History ==
  /\ \A p \in alive : HasServed(p) => ~spare(p)
  /\ \A p, q \in alive : (pc[p] \notin Rebuilding /\ ~spare(q)) => HasServed(q)
  /\ \A p \in alive : ~HasServed(p) => commits[p] = 0
  /\ \A p, q \in alive : HasServed(p) /\ HasServed(q) => commits[p] = commits[q]
  /\ \A p, q \in alive : pc[p] \in Rebuilding => (HasServed(q) <=> q \in SeqSet(old_user_procs[p]))
  /\ \A p, q \in alive : pc[p] \in Rebuilding /\ pc[q] \in Rebuilding =>
       old_user_procs[p] = old_user_procs[q]
  /\ \A p, q \in alive : (pc[p] \in Rebuilding /\ pc[q] \notin Rebuilding) =>
       old_user_procs[p] = groups[p].user_procs

(***************************************************************************)
(* Outside repairs: nobody alive is reported as failed, everybody reports   *)
(* the same processes as recovered, and each knows its own role from them.  *)
(***************************************************************************)
RightReports ==
  /\ \A p \in alive : epoch[p] = 0 =>
       /\ pc[p] \in Rebuilding /\ report[p].role = "INITIAL"
       /\ report[p].fail_procs = {} /\ report[p].recovered_procs = {}
  /\ \A p \in alive : pc[p] \notin Rebuilding =>
       /\ report[p].fail_procs \cap alive = {} /\ report[p].recovered_procs \subseteq UserSet(groups[p])
       /\ epoch[p] = 1 => report[p].role = "INITIAL" /\ report[p].recovered_procs = {}
       /\ epoch[p] # 1 => report[p].role = IF spare(p) THEN "SPARE"
                                           ELSE IF p \in report[p].recovered_procs THEN "RECOVERED"
                                           ELSE "SURVIVOR"
  /\ \A p, q \in alive : (pc[p] \notin Rebuilding /\ pc[q] \notin Rebuilding) =>
       report[p].recovered_procs = report[q].recovered_procs

(***************************************************************************)
(* However often a repair is retried: nobody of s is a spare of g, and if g *)
(* has as many users as s, those of s that are left have their old places.  *)
(***************************************************************************)
KeepsPlaces(s, g) ==
  /\ SeqSet(s) \cap g.spare_procs = {} /\ Len(g.user_procs) <= Len(s)
  /\ Len(g.user_procs) = Len(s) =>
       \A i \in DOMAIN s : s[i] \in UserSet(g) => g.user_procs[i] = s[i]

PlacesKept ==
  \A p \in alive : (pc[p] \in Rebuilding /\ HasServed(p)) => KeepsPlaces(user_world[p], groups[p])

Past == History /\ RightReports /\ PlacesKept

USE DEF Rebuilding

-----------------------------------------------------------------------------
\* Steps that leave the groups, the user worlds and the reports alone, and who is in a repair.
LEMMA PastKept ==
  ASSUME View, Past, alive' \subseteq alive, UNCHANGED <<groups, epoch, report, user_world, commits>>,
         \A p \in alive' : /\ pc'[p] \in Rebuilding <=> pc[p] \in Rebuilding
                           /\ old_user_procs'[p] = old_user_procs[p]
  PROVE  Past'
<1> USE DEF Past
<1>1. History'
  BY DEF History, HasServed, spare
<1>2. RightReports'
  BY DEF RightReports, spare
<1>3. PlacesKept'
  BY DEF PlacesKept, HasServed
<1>4. QED
  BY <1>1, <1>2, <1>3

LEMMA CrashPast ==
  ASSUME IInv, View, Past, NEW p \in Procs, Crash(p)
  PROVE  Past'
BY PastKept DEF Crash, recoveryVars

LEMMA CreateNewWorldPast ==
  ASSUME IInv, View, Past, NEW p \in Procs, CreateNewWorld(p)
  PROVE  Past'
<1>1. UNCHANGED <<alive, recoveryVars, commits>>
  BY DEF CreateNewWorld
<1>2. \A q \in alive : pc[q] \in Rebuilding <=> pc'[q] \in Rebuilding
  BY DEF CreateNewWorld, Gathered, IInv, TypeOK
<1>3. QED
  BY <1>1, <1>2, PastKept DEF recoveryVars

\* A step of one process outside repairs.
LEMMA MovePast ==
  ASSUME IInv, View, Past, NEW p \in alive, NEW l,
         pc[p] \notin Rebuilding, l \notin Rebuilding, pc' = [pc EXCEPT ![p] = l],
         UNCHANGED <<alive, recoveryVars, commits>>
  PROVE  Past'
<1>1. \A q \in alive : pc[q] \in Rebuilding <=> pc'[q] \in Rebuilding
  BY DEF IInv, TypeOK
<1>2. QED
  BY <1>1, PastKept DEF recoveryVars

LEMMA DetectFailurePast ==
  ASSUME IInv, View, Past, NEW p \in Procs, DetectFailure(p)
  PROVE  Past'
BY MovePast DEF DetectFailure

LEMMA StartCommitPast ==
  ASSUME IInv, View, Past, NEW p \in Procs, StartCommit(p)
  PROVE  Past'
BY MovePast DEF StartCommit

LEMMA StartFinalizePast ==
  ASSUME IInv, View, Past, NEW p \in Procs, StartFinalize(p)
  PROVE  Past'
BY MovePast DEF StartFinalize

LEMMA NotifySparePast ==
  ASSUME IInv, View, Past, NEW p \in Procs, NotifySpare(p)
  PROVE  Past'
<1>1. UNCHANGED <<alive, recoveryVars, commits>> /\ p \in alive /\ pc[p] = "notify"
  BY DEF NotifySpare
<1>2. \A q \in alive : pc[q] \in Rebuilding <=> pc'[q] \in Rebuilding
  BY DEF NotifySpare, IInv, TypeOK
<1>3. QED
  BY <1>1, <1>2, PastKept DEF recoveryVars

LEMMA SpareReceivePast ==
  ASSUME IInv, View, Past, NEW p \in Procs, SpareReceive(p)
  PROVE  Past'
BY MovePast DEF SpareReceive

LEMMA SpareDrainPast ==
  ASSUME IInv, View, Past, NEW p \in Procs, SpareDrain(p)
  PROVE  Past'
BY PastKept DEF SpareDrain, recoveryVars

LEMMA ReleaseAgreePast ==
  ASSUME IInv, View, Past, NEW p \in Procs, ReleaseAgree(p)
  PROVE  Past'
<1>1. UNCHANGED <<alive, recoveryVars, commits>>
  BY DEF ReleaseAgree
<1>2. \A q \in alive : pc[q] \in Rebuilding <=> pc'[q] \in Rebuilding
  BY DEF ReleaseAgree, Gathered, IInv, TypeOK
<1>3. QED
  BY <1>1, <1>2, PastKept DEF recoveryVars

-----------------------------------------------------------------------------
\* Rebuilding once more keeps the places kept so far.
LEMMA RebuildKeepsPlaces ==
  ASSUME NEW g, WellFormed(g), NEW world \in SUBSET g.world, NEW s \in Seq(Procs), KeepsPlaces(s, g)
  PROVE  KeepsPlaces(s, RebuildProcGroups(g, world))
<1> DEFINE h == RebuildProcGroups(g, world)
           n == Len(g.user_procs)
<1>1. /\ UserSet(h) \subseteq world /\ h.spare_procs \subseteq g.spare_procs
      /\ Len(h.user_procs) <= n
      /\ Len(h.user_procs) = n =>
           \A i \in DOMAIN g.user_procs : g.user_procs[i] \in world => h.user_procs[i] = g.user_procs[i]
  BY RebuildKeeps
<1>2. WellFormed(h)
  BY RebuildWellFormed
<1>3. /\ g.user_procs \in Seq(Procs) /\ h.user_procs \in Seq(Procs)
      /\ g.world = UserSet(g) \cup g.spare_procs
  BY <1>2 DEF WellFormed, Groups
<1>4. n \in Nat /\ Len(h.user_procs) \in Nat /\ Len(s) \in Nat /\ DOMAIN s = 1 .. Len(s)
      /\ DOMAIN g.user_procs = 1 .. n
  BY <1>3
<1>5. /\ SeqSet(s) \cap g.spare_procs = {} /\ n <= Len(s)
      /\ n = Len(s) => \A i \in DOMAIN s : s[i] \in UserSet(g) => g.user_procs[i] = s[i]
  BY DEF KeepsPlaces
<1>6. SeqSet(s) \cap h.spare_procs = {} /\ Len(h.user_procs) <= Len(s)
  BY <1>1, <1>4, <1>5
<1>7. ASSUME Len(h.user_procs) = Len(s), NEW i \in DOMAIN s, s[i] \in UserSet(h)
      PROVE  h.user_procs[i] = s[i]
  <2>1. n = Len(s) /\ Len(h.user_procs) = n
    BY <1>1, <1>4, <1>5, <1>7
  <2>2. s[i] \in world /\ s[i] \in SeqSet(s)
    BY <1>1, <1>7 DEF SeqSet
  <2>3. s[i] \in UserSet(g)
    BY <1>3, <1>5, <2>2
  <2>4. g.user_procs[i] = s[i] /\ i \in DOMAIN g.user_procs
    BY <1>4, <1>5, <2>1, <2>3
  <2>5. QED
    BY <1>1, <2>1, <2>2, <2>4
<1>8. QED
  BY <1>6, <1>7 DEF KeepsPlaces

LEMMA ShrinkPast ==
  ASSUME IInv, View, Past, NEW p \in Procs, Shrink(p)
  PROVE  Past'
<1>1. alive \subseteq Procs /\ p \in alive /\ \A q \in alive : pc[q] = "shrink"
  <2>1. alive \subseteq old_world[p]
    BY DEF Shrink, View, OneView
  <2>2. QED
    BY <2>1 DEF Shrink, Gathered, IInv, TypeOK
<1>2. /\ UNCHANGED <<alive, old_user_procs, user_world, epoch, report, commits>>
      /\ \A q \in alive : pc'[q] = "create" /\ groups'[q] = RebuildProcGroups(groups[q], alive)
  <2>1. \A q \in alive : old_world[q] \cap alive = alive
    BY <1>1 DEF View, OneView
  <2>2. QED
    BY <1>1, <2>1 DEF Shrink
<1>3. ASSUME NEW q \in alive
      PROVE  WellFormed(groups[q]) /\ alive \in SUBSET groups[q].world
             /\ WellFormed(groups'[q]) /\ UserSet(groups[q]) \cap alive \subseteq UserSet(groups'[q])
  <2>1. WellFormed(groups[q]) /\ alive \in SUBSET groups[q].world
    BY <1>1 DEF IInv, GroupsWellFormed, View, OneView
  <2>2. QED
    BY <1>2, <2>1, RebuildWellFormed, RebuildKeeps
<1>4. ASSUME NEW q \in alive, ~spare(q)
      PROVE  ~spare(q)'
  <2>1. q \in UserSet(groups[q])
    BY <1>4, ViewFacts
  <2>2. q \in UserSet(groups'[q])
    BY <1>3, <2>1
  <2>3. q \notin groups'[q].spare_procs
    BY <1>3, <2>2, UserCount
  <2>4. QED
    BY <2>3 DEF spare
<1>5. History'
  BY <1>1, <1>2, <1>4 DEF Past, History, HasServed
<1>6. RightReports'
  BY <1>1, <1>2 DEF Past, RightReports
<1>7. PlacesKept'
  <2>1. ASSUME NEW q \in alive, HasServed(q)
        PROVE  KeepsPlaces(user_world[q], groups'[q])
    <3>1. KeepsPlaces(user_world[q], groups[q]) /\ user_world[q] \in Seq(Procs)
      BY <1>1, <2>1 DEF Past, PlacesKept, IInv, TypeOK
    <3>2. QED
      BY <1>2, <1>3, <3>1, RebuildKeepsPlaces
  <2>2. QED
    BY <1>2, <2>1 DEF PlacesKept, HasServed
<1>8. QED
  BY <1>5, <1>6, <1>7 DEF Past

(***************************************************************************)
(* Processes enter a repair: the users all at once, or a spare on its own.  *)
(* Each records the user_procs of the groups that all share.                *)
(***************************************************************************)
LEMMA EnterPast ==
  ASSUME IInv, View, Past, NEW In \in SUBSET alive,
         UNCHANGED <<alive, groups, epoch, report, user_world, commits>>,
         \A q \in In : /\ pc[q] \notin Rebuilding /\ pc'[q] \in Rebuilding
                       /\ old_user_procs'[q] = groups[q].user_procs
                       /\ HasServed(q) => user_world[q] = groups[q].user_procs,
         \A q \in alive \ In : /\ pc'[q] \in Rebuilding <=> pc[q] \in Rebuilding
                               /\ old_user_procs'[q] = old_user_procs[q]
  PROVE  Past'
<1> USE DEF Past
<1>1. CASE In = {}
  BY <1>1, PastKept
<1>2. CASE In # {}
  <2>1. \A q \in alive : HasServed(q) <=> ~spare(q)
    BY <1>2 DEF History
  <2>2. \A q, r \in alive : groups[q] = groups[r] /\ (r \in SeqSet(groups[q].user_procs) <=> ~spare(r))
    BY ViewFacts DEF View, OneView, SeqSet, UserSet
  <2>3. \A q \in alive : pc'[q] \in Rebuilding => old_user_procs'[q] = groups[q].user_procs
    BY <1>2 DEF History
  <2>4. History'
    BY <2>1, <2>2, <2>3 DEF History, HasServed, spare
  <2>5. RightReports'
    BY DEF RightReports, spare
  <2>6. PlacesKept'
    <3>1. ASSUME NEW q \in In, HasServed(q)
          PROVE  KeepsPlaces(user_world[q], groups[q])
      <4>1. WellFormed(groups[q]) /\ user_world[q] = groups[q].user_procs
        BY <3>1 DEF IInv, TypeOK, GroupsWellFormed
      <4>2. SeqSet(user_world[q]) \cap groups[q].spare_procs = {}
        <5>1. UserSet(groups[q]) = groups[q].world \ groups[q].spare_procs
          BY <4>1, UserCount
        <5>2. SeqSet(user_world[q]) = UserSet(groups[q])
          BY <4>1 DEF SeqSet, UserSet
        <5>3. QED
          BY <5>1, <5>2
      <4>3. Len(groups[q].user_procs) <= Len(user_world[q])
        BY <4>1 DEF WellFormed, Groups
      <4>4. QED
        BY <4>1, <4>2, <4>3 DEF KeepsPlaces
    <3>2. QED
      BY <3>1 DEF PlacesKept, HasServed
  <2>7. QED
    BY <2>4, <2>5, <2>6
<1>3. QED
  BY <1>1, <1>2

LEMMA SpareRevokedPast ==
  ASSUME IInv, View, Past, NEW p \in Procs, SpareRevoked(p)
  PROVE  Past'
<1>1. spare(p) /\ ~HasServed(p)
  BY DEF View, Lockstep, SpareRevoked, Past, History
<1>2. /\ UNCHANGED <<alive, groups, epoch, report, user_world, commits>>
      /\ pc[p] \notin Rebuilding /\ pc'[p] \in Rebuilding /\ p \in alive
      /\ old_user_procs'[p] = groups[p].user_procs
  BY DEF SpareRevoked, IInv, TypeOK
<1>3. \A q \in alive \ {p} : pc'[q] = pc[q] /\ old_user_procs'[q] = old_user_procs[q]
  BY DEF SpareRevoked, IInv, TypeOK
<1>4. QED
  BY <1>1, <1>2, <1>3, EnterPast

LEMMA UserAgreePast ==
  ASSUME IInv, View, Past, NEW p \in Procs, UserAgree(p)
  PROVE  Past'
<1> DEFINE users == {q \in alive : ~spare(q)}
<1>1. /\ alive \subseteq Procs /\ p \in alive /\ ~spare(p)
      /\ \A q \in alive : ~spare(q) => pc[q] \in Voting
      /\ UNCHANGED <<alive, groups, user_world, epoch, report>>
      /\ \A q \in alive : spare(q) =>
           pc'[q] = pc[q] /\ old_user_procs'[q] = old_user_procs[q] /\ commits'[q] = commits[q]
  BY VoteCases
<1>2. VoteOutcome(p)
  BY VoteCases
<1>3. \A q \in users : pc[q] \notin Rebuilding /\ user_world[q] = groups[q].user_procs
  BY <1>1 DEF View, UserWorlds, Voting, Finalizing
<1>4. CASE /\ VoteFor(p, "locate") /\ commits' = commits
           /\ \A q \in alive : ~spare(q) => /\ pc'[q] = "shrink"
                                            /\ old_user_procs'[q] = groups[q].user_procs
  BY <1>1, <1>3, <1>4, EnterPast
<1>5. ASSUME \A q \in users : pc'[q] \notin Rebuilding,
             \/ commits' = commits
             \/ \A q \in users : commits'[q] = commits[q] + 1
      PROVE  Past'
  <2>1. \A q \in alive : pc'[q] \in Rebuilding <=> pc[q] \in Rebuilding
    BY <1>1, <1>3, <1>5
  <2>2. \A q \in alive : HasServed(q) <=> q \in users
    BY <1>1, <1>3 DEF Past, History
  <2>3. \A q \in alive : old_user_procs'[q] = old_user_procs[q] \/ pc'[q] \notin Rebuilding
    BY <1>1, <1>5
  <2>4. History'
    <3>1. \A q \in alive : ~HasServed(q) => commits'[q] = 0
      BY <1>1, <2>2 DEF Past, History
    <3>2. \A q, r \in alive : HasServed(q) /\ HasServed(r) => commits'[q] = commits'[r]
      BY <1>5, <2>2 DEF Past, History
    <3>3. QED
      BY <1>1, <2>1, <2>3, <3>1, <3>2 DEF Past, History, HasServed, spare
  <2>5. RightReports'
    BY <1>1, <2>1 DEF Past, RightReports, spare
  <2>6. PlacesKept'
    BY <1>1, <2>1 DEF Past, PlacesKept, HasServed
  <2>7. QED
    BY <2>4, <2>5, <2>6 DEF Past
<1>6. QED
  BY <1>2, <1>4, <1>5 DEF VoteOutcome

LEMMA RetryAgreePast ==
  ASSUME IInv, View, Past, NEW p \in Procs, RetryAgree(p)
  PROVE  Past'
<1> DEFINE s == user_world[p]
           live == SeqSet(s) \cap alive
           kept == {i \in DOMAIN s : s[i] \in alive}
           shrunk == Picked(s, kept)
<1>1. alive \subseteq Procs /\ p \in alive /\ pc[p] = "retry" /\ s \in Seq(Procs)
  BY DEF RetryAgree, IInv, TypeOK
<1>2. ~spare(p) /\ \A q \in alive : q \in live <=> ~spare(q)
  <2>1. ~spare(p)
    BY <1>1 DEF View, Lockstep
  <2>2. QED
    BY <1>1, <2>1, ViewFacts
<1>3. UNCHANGED <<alive, groups, old_user_procs, epoch, report, commits>>
  BY DEF RetryAgree
<1>4. \A q \in alive : pc[q] \notin Rebuilding
  BY <1>1 DEF View, FinalizeIsCollective, Finalizing
<1>5. \A q \in alive : /\ pc'[q] \notin Rebuilding
                       /\ user_world'[q] = user_world[q]
                            \/ (q \in live /\ user_world'[q] = shrunk)
  BY ZenonT(60), <1>1, <1>4 DEF RetryAgree
<1>6. shrunk # <<>>
  <2>1. kept \subseteq Int /\ IsFiniteSet(kept)
    <3>1. DOMAIN s = 1 .. Len(s) /\ Len(s) \in Nat
      BY <1>1
    <3>2. IsFiniteSet(DOMAIN s) /\ kept \in SUBSET DOMAIN s
      BY <3>1, FS_Interval
    <3>3. QED
      BY <3>1, <3>2, FS_Subset
  <2>2. PICK i \in kept : TRUE
    BY <1>1, <1>2 DEF SeqSet
  <2>3. IndexIn(kept, i) + 1 \in DOMAIN shrunk
    BY <2>1, PickedElements
  <2>4. QED
    BY <2>3
<1>7. \A q \in alive : HasServed(q) <=> HasServed(q)'
  <2>1. \A q \in alive : q \in live => HasServed(q)
    BY <1>1, <1>2, <1>4 DEF Past, History
  <2>2. QED
    BY <1>5, <1>6, <2>1 DEF HasServed
<1>8. History'
  BY <1>3, <1>4, <1>5, <1>7 DEF Past, History, spare
<1>9. RightReports'
  BY <1>3, <1>4, <1>5 DEF Past, RightReports, spare
<1>10. PlacesKept'
  BY <1>3, <1>5 DEF PlacesKept
<1>11. QED
  BY <1>8, <1>9, <1>10 DEF Past

\* The new worlds are there: what each process records, and where it goes on.
LEMMA DupUserWorldPast ==
  ASSUME IInv, View, Past, NEW p \in Procs, DupUserWorld(p)
  PROVE  Past'
<1>1. /\ alive \subseteq Procs /\ p \in alive /\ \A q \in alive : pc[q] = "dup"
      /\ UNCHANGED <<alive, groups, old_user_procs>>
  BY DupCases
<1>2. CASE (\A q \in alive : pc'[q] = "shrink") /\ UNCHANGED <<user_world, epoch, report, commits>>
  BY <1>1, <1>2, PastKept
<1>3. CASE \A q \in alive : /\ pc'[q] = IF spare(q) THEN "spare" ELSE "app"
                            /\ user_world'[q] = IF spare(q) THEN user_world[q]
                                                ELSE groups[q].user_procs
                            /\ epoch'[q] = epoch[q] + 1
                            /\ report'[q] = Repaired(q)
                            /\ commits'[q] = RestoredCommits(q, alive)
  <2>1. \A q \in alive : pc'[q] \notin Rebuilding
    BY <1>3
  <2>2. ASSUME NEW q \in alive
        PROVE  /\ HasServed(q) => ~spare(q)
               /\ HasServed(q)' <=> ~spare(q)
               /\ \A r \in alive : r \in SeqSet(old_user_procs[q]) <=> HasServed(r)
    <3>1. ~spare(q) => groups[q].user_procs # <<>>
      <4>1. ~spare(q) => q \in UserSet(groups[q])
        BY ViewFacts
      <4>2. QED
        BY <4>1 DEF UserSet
    <3>2. QED
      BY <1>1, <1>3, <3>1 DEF Past, History, HasServed
  <2>3. ASSUME NEW q \in alive
        PROVE  /\ spare(q) => commits'[q] = 0
               /\ \A r \in alive : HasServed(r) /\ ~spare(q) => commits'[q] = commits[r]
               /\ (\A r \in alive : ~HasServed(r)) => commits'[q] = 0
    <3> DEFINE S == {r \in alive : ~spare(r) /\ r \in SeqSet(old_user_procs[q])}
    <3>1. \A r \in alive : r \in S <=> HasServed(r)
      BY <2>2
    <3>2. commits'[q] = IF q \in S \/ spare(q) \/ S = {} THEN commits[q]
                        ELSE commits[CHOOSE r \in S : TRUE]
      BY <1>3 DEF RestoredCommits
    <3>3. S # {} => (CHOOSE r \in S : TRUE) \in S
      OBVIOUS
    <3> DEFINE c == CHOOSE r \in S : TRUE
    <3>4. S \subseteq alive /\ (S # {} => c \in S)
      BY <3>3
    <3>5. spare(q) => commits'[q] = 0
      BY <2>2, <3>2 DEF Past, History
    <3>6. ASSUME NEW r \in alive, HasServed(r), ~spare(q)
          PROVE  commits'[q] = commits[r]
      <4>1. r \in S /\ HasServed(c) /\ c \in alive
        BY <3>1, <3>4, <3>6
      <4>2. commits[c] = commits[r] /\ (q \in S => commits[q] = commits[r])
        BY <3>1, <3>6, <4>1 DEF Past, History
      <4>3. commits'[q] = IF q \in S THEN commits[q] ELSE commits[c]
        BY <3>2, <3>6, <4>1
      <4>4. QED
        BY <4>2, <4>3
    <3>7. ASSUME \A r \in alive : ~HasServed(r)
          PROVE  commits'[q] = 0
      <4>1. S = {}
        BY <3>1, <3>7
      <4>2. QED
        BY <3>2, <3>7, <4>1 DEF Past, History
    <3>8. QED
      BY <3>5, <3>6, <3>7
  <2>4. History'
    <3>1. \A q \in alive : ~HasServed(q)' => commits'[q] = 0
      BY <2>2, <2>3
    <3>2. \A q, r \in alive : HasServed(q)' /\ HasServed(r)' => commits'[q] = commits'[r]
      BY <2>2, <2>3
    <3>3. \A q \in alive : spare(q)' <=> spare(q)
      BY <1>1 DEF spare
    <3>4. QED
      BY <1>1, <2>1, <2>2, <3>1, <3>2, <3>3 DEF History
  <2>5. ASSUME NEW q \in alive
        PROVE  /\ epoch[q] \in Nat /\ epoch'[q] = epoch[q] + 1
               /\ epoch[q] = 0 => /\ report'[q].role = "INITIAL" /\ report'[q].fail_procs = {}
                                  /\ report'[q].recovered_procs = {}
               /\ epoch[q] # 0 => /\ report'[q].fail_procs = SeqSet(old_user_procs[q]) \ UserSet(groups[q])
                                  /\ report'[q].recovered_procs = UserSet(groups[q]) \ SeqSet(old_user_procs[q])
                                  /\ report'[q].role = IF spare(q) THEN "SPARE"
                                       ELSE IF q \in report'[q].recovered_procs THEN "RECOVERED"
                                       ELSE "SURVIVOR"
    <3>1. epoch[q] \in Nat /\ report[q] \in Reports
      BY <1>1 DEF IInv, TypeOK
    <3>2. CASE epoch[q] = 0
      <4>1. report[q].role = "INITIAL" /\ report[q].fail_procs = {} /\ report[q].recovered_procs = {}
        BY <3>2 DEF Past, RightReports
      <4>2. report'[q] = [report[q] EXCEPT !.depleted = Len(groups[q].user_procs) < NActive]
        BY <1>3, <3>2 DEF Repaired
      <4>3. QED
        BY <1>3, <3>1, <3>2, <4>1, <4>2 DEF Reports
    <3>3. CASE epoch[q] # 0
      <4> DEFINE recovered == UserSet(groups[q]) \ SeqSet(old_user_procs[q])
      <4>1. report'[q] = [role            |-> IF spare(q) THEN "SPARE"
                                              ELSE IF q \in recovered THEN "RECOVERED" ELSE "SURVIVOR",
                          depleted        |-> Len(groups[q].user_procs) < NActive,
                          fail_procs      |-> SeqSet(old_user_procs[q]) \ UserSet(groups[q]),
                          recovered_procs |-> recovered]
        BY <1>3, <3>3 DEF Repaired
      <4>2. report'[q].recovered_procs = recovered
        BY <4>1
      <4>3. QED
        BY <1>3, <3>1, <3>3, <4>1, <4>2
    <3>4. QED
      BY <3>2, <3>3
  <2>6. RightReports'
    <3>1. \A q \in alive : epoch'[q] # 0 /\ (epoch'[q] = 1 <=> epoch[q] = 0)
      BY <2>5
    <3>2. \A q, r \in alive : /\ epoch[q] = epoch[r] /\ groups[q] = groups[r]
                              /\ old_user_procs[q] = old_user_procs[r]
      BY <1>1 DEF View, OneView, Past, History
    <3>3. ASSUME NEW q \in alive, NEW r \in alive
          PROVE  report'[q].recovered_procs = report'[r].recovered_procs
      <4>1. epoch[q] = epoch[r] /\ groups[q] = groups[r] /\ old_user_procs[q] = old_user_procs[r]
        BY <3>2
      <4>2. CASE epoch[q] = 0
        BY <2>5, <4>1, <4>2
      <4>3. CASE epoch[q] # 0
        <5>1. report'[q].recovered_procs = UserSet(groups[q]) \ SeqSet(old_user_procs[q])
          BY <2>5, <4>3
        <5>2. report'[r].recovered_procs = UserSet(groups[r]) \ SeqSet(old_user_procs[r])
          BY <2>5, <4>1, <4>3
        <5>3. QED
          BY <4>1, <5>1, <5>2
      <4>4. QED
        BY <4>2, <4>3
    <3>4. \A q \in alive : report'[q].recovered_procs \subseteq UserSet(groups[q])
      BY <2>5
    <3>5. ASSUME NEW q \in alive PROVE report'[q].fail_procs \cap alive = {}
      <4>1. \A r \in alive : r \in SeqSet(old_user_procs[q]) => r \in UserSet(groups[q])
        BY <2>2, ViewFacts
      <4>2. QED
        BY <2>5, <4>1
    <3>6. \A q \in alive : spare(q)' <=> spare(q)
      BY <1>1 DEF spare
    <3>7. QED
      BY <1>1, <2>5, <3>1, <3>3, <3>4, <3>5, <3>6 DEF RightReports
  <2>7. PlacesKept'
    BY <1>1, <2>1 DEF PlacesKept
  <2>8. QED
    BY <2>4, <2>6, <2>7 DEF Past
<1>4. QED
  BY <1>1, <1>2, <1>3, DupCases

LEMMA InitPast == Init => Past
<1> SUFFICES ASSUME Init PROVE Past
  OBVIOUS
<1>1. History
  BY DEF Init, History, HasServed, SeqSet
<1>2. RightReports
  BY DEF Init, RightReports
<1>3. PlacesKept
  BY DEF Init, PlacesKept, HasServed
<1>4. QED
  BY <1>1, <1>2, <1>3 DEF Past

LEMMA StepPast == IInv /\ View /\ Past /\ [Next]_vars => Past'
<1> SUFFICES ASSUME IInv, View, Past, [Next]_vars PROVE Past'
  OBVIOUS
<1>1. CASE UNCHANGED vars
  BY <1>1, PastKept DEF vars, recoveryVars
<1>2. CASE Terminated
  BY <1>2, <1>1 DEF Terminated
<1>3. ASSUME NEW p \in Procs, Crash(p) \/ Step(p)
      PROVE  Past'
  BY <1>3, CrashPast, ShrinkPast, CreateNewWorldPast, DupUserWorldPast, DetectFailurePast,
     SpareRevokedPast, StartCommitPast, StartFinalizePast, UserAgreePast, NotifySparePast,
     RetryAgreePast, SpareReceivePast, SpareDrainPast, ReleaseAgreePast
     DEF Step
<1>4. QED
  BY <1>1, <1>2, <1>3 DEF Next

-----------------------------------------------------------------------------
(***************************************************************************)
(* Survivors that share a user world hold the same number of commits in     *)
(* every reachable state: commit_barrier commits on all or on none.         *)
(***************************************************************************)
THEOREM CommitsNeverDiverge == Spec => []CommitsAgree
<1>1. IInv /\ View /\ Past => CommitsAgree
  <2>1. SUFFICES ASSUME Past, NEW p \in alive, NEW q \in alive,
                        p \in SeqSet(user_world[q]), q \in SeqSet(user_world[p])
                 PROVE  commits[p] = commits[q]
    BY DEF CommitsAgree
  <2>2. HasServed(p) /\ HasServed(q)
    BY <2>1 DEF HasServed, SeqSet
  <2>3. QED
    BY <2>1, <2>2 DEF Past, History
<1>2. QED
  BY <1>1, InitInvariant, StepInvariant, InitView, StepView, InitPast, StepPast, PTL DEF Spec

\* The roles that n_ranks_with_role counts are the roles that role(comm, r) gives.
LEMMA CountsMatch ==
  ASSUME IInv, View, Past, NEW p \in alive, pc[p] \notin Rebuilding, NEW role \in Roles \cup {"FAILED"}
  PROVE  NRanksWithRole(p, role) = Cardinality({q \in Procs : RoleOf(p, q) = role})
<1> DEFINE g == groups[p]
           rec == report[p].recovered_procs
           initial == report[p].role = "INITIAL"
           given == {q \in Procs : RoleOf(p, q) = role}
<1>1. p \in Procs /\ WellFormed(g)
  BY DEF IInv, TypeOK, GroupsWellFormed
<1>2. g.world \subseteq Procs /\ g.spare_procs \subseteq g.world
  BY <1>1 DEF WellFormed, Groups
<1>3. /\ Cardinality(UserSet(g)) = Len(g.user_procs)
      /\ UserSet(g) = g.world \ g.spare_procs
  BY <1>1, UserCount
<1>4. rec \subseteq UserSet(g) /\ (initial => rec = {})
  BY DEF Past, RightReports
<1>5. Cardinality({}) = 0
  BY FS_EmptySet
<1>6. CASE role = "INITIAL"
  <2>1. given = IF initial THEN UserSet(g) ELSE {}
    BY <1>2, <1>3, <1>6 DEF RoleOf
  <2>2. NRanksWithRole(p, role) = IF initial THEN Len(g.user_procs) ELSE 0
    BY <1>6 DEF NRanksWithRole
  <2>3. QED
    BY <1>3, <1>5, <2>1, <2>2
<1>7. CASE role = "SURVIVOR"
  <2>1. given = Survivors(p)
    BY <1>2, <1>3, <1>7 DEF RoleOf, Survivors
  <2>2. QED
    BY <1>7, <2>1 DEF NRanksWithRole
<1>8. CASE role = "RECOVERED"
  <2>1. given = rec
    BY <1>2, <1>3, <1>4, <1>8 DEF RoleOf
  <2>2. QED
    BY <1>8, <2>1 DEF NRanksWithRole
<1>9. CASE role = "SPARE"
  <2>1. given = g.spare_procs
    BY <1>2, <1>9 DEF RoleOf
  <2>2. QED
    BY <1>9, <2>1 DEF NRanksWithRole
<1>10. CASE role = "FAILED"
  <2>1. given = Procs \ g.world
    BY <1>2, <1>10 DEF RoleOf
  <2>2. QED
    BY <1>10, <2>1 DEF NRanksWithRole
<1>11. QED
  BY <1>6, <1>7, <1>8, <1>9, <1>10 DEF Roles

(***************************************************************************)
(* What the users say of each other's roles is what each says of itself,    *)
(* the counts fit, and nobody that is alive is reported as failed.          *)
(***************************************************************************)
THEOREM RolesAreRight == Spec => []RolesAgree
<1>1. IInv /\ View /\ Past => RolesAgree
  <2>1. SUFFICES ASSUME IInv, View, Past, NEW p \in alive, pc[p] \notin Rebuilding
                 PROVE  /\ report[p].fail_procs \cap alive = {}
                        /\ \A q \in alive :
                             (pc[q] \notin Rebuilding /\ epoch[q] = epoch[p] /\ ~spare(p) /\ ~spare(q))
                               => RoleOf(p, q) = report[q].role
                        /\ \A role \in Roles \cup {"FAILED"} :
                             NRanksWithRole(p, role) = Cardinality({q \in Procs : RoleOf(p, q) = role})
    BY DEF RolesAgree
  <2>2. report[p].fail_procs \cap alive = {}
    BY <2>1 DEF Past, RightReports
  <2>3. ASSUME NEW q \in alive, pc[q] \notin Rebuilding, epoch[q] = epoch[p], ~spare(p), ~spare(q)
        PROVE  RoleOf(p, q) = report[q].role
    <3>1. q \in groups[p].world /\ q \notin groups[p].spare_procs
      BY <2>1, <2>3, ViewFacts DEF View, OneView
    <3>2. report[p].recovered_procs = report[q].recovered_procs
      BY <2>1, <2>3 DEF Past, RightReports
    <3>3. CASE epoch[p] = 1
      BY <2>1, <2>3, <3>1, <3>3 DEF Past, RightReports, RoleOf
    <3>4. CASE epoch[p] # 1
      BY <2>1, <2>3, <3>1, <3>2, <3>4 DEF Past, RightReports, RoleOf
    <3>5. QED
      BY <3>3, <3>4
  <2>4. QED
    BY <2>1, <2>2, <2>3, CountsMatch
<1>2. QED
  BY <1>1, InitInvariant, StepInvariant, InitView, StepView, InitPast, StepPast, PTL DEF Spec

\* Worlds are numbered by the steps that build them.
LEMMA OnlyDupBuildsWorlds ==
  ASSUME [Next]_vars, epoch' # epoch
  PROVE  \E p \in Procs : DupUserWorld(p)
BY ZenonT(60) DEF Next, Step, Terminated, vars, recoveryVars, Crash, Shrink, CreateNewWorld, DetectFailure,
       SpareRevoked, StartCommit, StartFinalize, UserAgree, NotifySpare, RetryAgree, SpareReceive,
       SpareDrain, ReleaseAgree

\* What SurvivorsKeepRank says of one step and one process.
KeepsRank(p) ==
  (/\ epoch[p] > 0 /\ epoch'[p] # epoch[p] /\ p \in SeqSet(user_world[p])
   /\ Len(user_world'[p]) = Len(user_world[p]))
  => \A i \in DOMAIN user_world[p] :
       user_world[p][i] \in SeqSet(user_world'[p]) => user_world'[p][i] = user_world[p][i]

(***************************************************************************)
(* A repair that finds enough spares, however many failures interrupt it    *)
(* and however often it is retried, leaves every survivor with its rank.    *)
(***************************************************************************)
THEOREM RanksAreKept == Spec => SurvivorsKeepRank
<1>1. IInv /\ View /\ Past /\ [Next]_vars => \A p \in Procs : KeepsRank(p)
  <2>1. SUFFICES ASSUME IInv, View, Past, [Next]_vars, NEW p \in Procs,
                        epoch'[p] # epoch[p], p \in SeqSet(user_world[p]),
                        Len(user_world'[p]) = Len(user_world[p]),
                        NEW i \in DOMAIN user_world[p], user_world[p][i] \in SeqSet(user_world'[p])
                 PROVE  user_world'[p][i] = user_world[p][i]
    BY DEF KeepsRank
  <2>2. PICK d \in Procs : DupUserWorld(d)
    BY <2>1, OnlyDupBuildsWorlds
  <2>3. /\ p \in alive /\ pc[p] = "dup"
        /\ user_world'[p] = IF spare(p) THEN user_world[p] ELSE groups[p].user_procs
    BY <2>1, <2>2, DupCases
  <2>4. HasServed(p)
    BY <2>1 DEF HasServed, SeqSet
  <2>5. ~spare(p) /\ KeepsPlaces(user_world[p], groups[p])
    BY <2>1, <2>3, <2>4 DEF Past, History, PlacesKept
  <2>6. user_world'[p] = groups[p].user_procs /\ SeqSet(user_world'[p]) = UserSet(groups[p])
    BY <2>3, <2>5 DEF SeqSet, UserSet
  <2>7. QED
    BY <2>1, <2>5, <2>6 DEF KeepsPlaces
<1>2. QED
  BY <1>1, InitInvariant, StepInvariant, InitView, StepView, InitPast, StepPast, PTL
     DEF Spec, SurvivorsKeepRank, KeepsRank
=============================================================================
