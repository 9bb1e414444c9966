----------------------------- MODULE MessageLog -----------------------------
(***************************************************************************)
(* Message logging with inline recovery (INLINE_AUTOSYNC) of a communicator *)
(* whose failed ranks are replaced: the logged MPI calls of an application, *)
(* process failures at any moment, and reset_consistency, in which the      *)
(* ranks compare their logs pair by pair, agree on the collectives, meet    *)
(* in a barrier and replay what the replacements have missed.  A            *)
(* replacement begins at the last checkpoint, with the log stored there.    *)
(***************************************************************************)
EXTENDS CollectiveLog

CONSTANTS MaxFailures,      \* bound: failures in a behaviour
          EarlyFailures     \* bound: failures before the first checkpoint of the program

ASSUME FailuresAssumption == MaxFailures \in Nat /\ EarlyFailures \in Nat

NoMsg == << >>

VARIABLES pos,      \* pos[r]: where the application of rank r is
          high,     \* the furthest it ever was (history)
          pc,       \* "run", "recover" (in Fenix), "sync" or "barrier" (in reset_consistency)
          log,      \* log[r]: its CommLog
          got,      \* got[r][q]: what its application received from q
          target,   \* the region a replacement has to sync to, -1 once it did
          ckpt,     \* the last checkpoint
          chan,     \* chan[s][d]: application messages under way on this communicator
          cons,     \* cons[s][d]: regions sent with CONSISTENCY_TAG
          joined,   \* who notified its left neighbour with COLLECTIVE_CONSISTENCY_TAG
          posted,   \* posted[r]: the collectives of reset_consistency, in the order r calls them
          issued,   \* issued[r]: the logged collectives r called on this communicator
          dead,     \* ranks that failed and are not replaced yet
          failures, early, fatal, done

vars == <<pos, high, pc, log, got, target, ckpt, chan, cons, joined, posted, issued,
          dead, failures, early, fatal, done>>
net   == <<chan, cons, joined, posted, issued>>
world == <<dead, failures, early, done>>

Pairs(x) == [r \in Rank |-> [q \in Rank |-> x]]

Init ==
  /\ pos = [r \in Rank |-> Start] /\ high = pos
  /\ pc = [r \in Rank |-> "run"]
  /\ log = [r \in Rank |-> NewCommLog]
  /\ got = Pairs(<< >>)
  /\ target = [r \in Rank |-> -1]
  /\ ckpt = [log |-> log, pos |-> pos, got |-> got]
  /\ chan = Pairs(<< >>) /\ cons = Pairs(NoMsg)
  /\ joined = {} /\ posted = [r \in Rank |-> << >>] /\ issued = [r \in Rank |-> << >>]
  /\ dead = {} /\ failures = 0 /\ early = TRUE /\ fatal = FALSE /\ done = FALSE

-----------------------------------------------------------------------------
(* The application *)

Receiving(r) == \E q \in Rank : log[r].peer[q].irecv
InCall(r)    == Receiving(r) \/ log[r].op # NoOp
Running(r)   == pc[r] = "run" /\ r \notin dead
AtEnd(r, reg) == AtEndOf(r, pos[r], reg)
AtCkpt(r)    == \E reg \in CkptAfter : AtEnd(r, reg)
AtFinish(r)  == AtEnd(r, Len(Program) - 1)
Calls(r, kind) == Running(r) /\ ~InCall(r) /\ AtOp(r, pos[r]) /\ OpAt(r, pos[r]).op = kind

MoveTo(r, p) ==
  /\ pos' = [pos EXCEPT ![r] = p]
  /\ high' = [high EXCEPT ![r] = IF Earlier(@, p) THEN p ELSE @]

BeginRegion(r) ==
  /\ Running(r) /\ Begins(r, pos[r]) \in Region
  /\ LET reg == Begins(r, pos[r])
     IN  /\ log' = [log EXCEPT ![r] = BegunAll(@, reg)]
         /\ fatal' = BeginAllFails(log[r], reg)
         /\ MoveTo(r, [reg |-> reg, k |-> 1])
  /\ UNCHANGED <<pc, got, target, ckpt, net, world>>

(* RankLog::send; the message is logged, and skipped if the receiver has it *)
Send(r) ==
  /\ Calls(r, "send")
  /\ LET q == OpAt(r, pos[r]).peer
         l == LogSend(Ensured(log[r].peer[q], log[r].active), pos[r])
         s == CHOOSE s \in l.sends : s.idx = Cur(l).sn - 1
     IN  /\ fatal' = (EnsureFails(log[r].peer[q], log[r].active)
                      \/ LogSendFails(Ensured(log[r].peer[q], log[r].active)))
         /\ log' = [log EXCEPT ![r].peer[q] = l]
         /\ chan' = [chan EXCEPT ![r][q] = IF s.idx > l.already THEN Append(@, s.msg) ELSE @]
  /\ MoveTo(r, Following(pos[r]))
  /\ UNCHANGED <<pc, got, target, ckpt, cons, joined, posted, issued, world>>

Irecv(r) ==
  /\ Calls(r, "recv")
  /\ LET q == OpAt(r, pos[r]).peer
         l == Ensured(log[r].peer[q], log[r].active)
     IN  /\ fatal' = EnsureFails(log[r].peer[q], log[r].active)
         /\ log' = [log EXCEPT ![r].peer[q] = [l EXCEPT !.irecv = TRUE]]
  /\ UNCHANGED <<pos, high, pc, got, target, ckpt, net, world>>

WaitRecv(r, q) ==
  /\ Running(r) /\ log[r].peer[q].irecv /\ chan[q][r] # << >>
  /\ got' = [got EXCEPT ![r][q] = Append(@, Head(chan[q][r]))]
  /\ chan' = [chan EXCEPT ![q][r] = Tail(@)]
  /\ log' = [log EXCEPT ![r].peer[q].irecv = FALSE, ![r].peer[q].regions[Depth].rn = @ + 1]
  /\ MoveTo(r, Following(pos[r]))
  /\ fatal' = ~Valid(Cur(log[r].peer[q]))
  /\ UNCHANGED <<pc, target, ckpt, cons, joined, posted, issued, world>>

(* CommLog::begin up to the MPI call; the payload is the number of the collective in the program *)
CollBegin(r) ==
  /\ Running(r) /\ ~InCall(r) /\ AtOp(r, pos[r]) /\ IsColl(OpAt(r, pos[r]))
  /\ LET l == CollStarted(log[r], CollsBefore(r, pos[r]))
     IN  /\ log' = [log EXCEPT ![r] = l]
         /\ issued' = [issued EXCEPT ![r] = Append(@, l.op.msg)]
         /\ fatal' = BeginOpFails(l)
  /\ UNCHANGED <<pos, high, pc, got, target, ckpt, chan, cons, joined, posted, world>>

CollReturn(r) ==
  /\ Running(r) /\ log[r].op # NoOp
  /\ \A q \in Awaited(r, OpAt(r, pos[r])) : Len(issued[q]) >= Len(issued[r])
  /\ log' = [log EXCEPT ![r].colls = @ \cup {log[r].op}, ![r].op = NoOp]
  /\ MoveTo(r, Following(pos[r]))
  /\ UNCHANGED <<pc, got, target, ckpt, net, fatal, world>>

(* data::checkpoint: all ranks have stored and committed, or none has *)
Checkpoint ==
  /\ \A r \in Rank : Running(r) /\ AtCkpt(r)
  /\ pos' = [r \in Rank |-> [reg |-> pos[r].reg + 1, k |-> 0]]
  /\ high' = pos'
  /\ ckpt' = [log |-> [r \in Rank |-> Stored(log[r])], pos |-> pos', got |-> got]
  /\ early' = FALSE
  /\ UNCHANGED <<pc, log, got, target, net, dead, failures, fatal, done>>

Finish ==
  /\ ~done /\ \A r \in Rank : Running(r) /\ AtFinish(r)
  /\ done' = TRUE
  /\ UNCHANGED <<pos, high, pc, log, got, target, ckpt, net, dead, failures, early, fatal>>

-----------------------------------------------------------------------------
(* Failure and recovery *)

Fail(r) ==
  /\ r \notin dead /\ failures < MaxFailures /\ ~done
  /\ early => failures < EarlyFailures
  /\ dead' = dead \cup {r}
  /\ failures' = failures + 1
  /\ UNCHANGED <<pos, high, pc, log, got, target, ckpt, net, early, fatal, done>>

(* MPI calls only notice a failure while they run; a send may have been the last one. *)
AtCall(r) ==
  \/ pc[r] \in {"sync", "barrier"}
  \/ pc[r] = "run" /\ (InCall(r) \/ AtCkpt(r) \/ AtFinish(r))
  \/ pc[r] = "run" /\ pos[r].k > 1 /\ OpAt(r, [pos[r] EXCEPT !.k = @ - 1]).op = "send"

(* The error handler; fenix_pre_recovery forgets the tasks, but not the collective one. *)
Raise(r) ==
  /\ dead # {} /\ r \notin dead /\ AtCall(r)
  /\ pc' = [pc EXCEPT ![r] = "recover"]
  /\ log' = [log EXCEPT ![r].peer = [q \in Rank |-> [@[q] EXCEPT !.task = FALSE]]]
  /\ UNCHANGED <<pos, high, got, target, ckpt, net, fatal, world>>

Right(r) == (r + 1) % NRanks
HasPosted(r, what) == Contains(posted[r], what)

(* form_consistency: who has joined and has the notification of its right *)
(* neighbour calls the first MPI_Iallreduce                               *)
Notified(j, p) ==
  [r \in Rank |-> IF {r, Right(r)} \subseteq j /\ ~Contains(p[r], "form")
                  THEN Append(p[r], "form") ELSE p[r]]

(* The communicator is repaired; everybody begins reset_consistency: survivors  *)
(* with FENIX_MLOG_CONTINUE, replacements with the checkpoint's log and region, *)
(* and so again those that had not finished when the next failure came.         *)
Repair ==
  /\ dead # {} /\ \A r \in Rank \ dead : pc[r] = "recover"
  /\ LET restored == dead \cup {r \in Rank : target[r] # -1}
         from(r)  == IF r \in restored THEN ckpt.log[r] ELSE log[r]
     IN  /\ pos' = [r \in Rank |-> IF r \in restored THEN ckpt.pos[r] ELSE pos[r]]
         /\ got' = [r \in Rank |-> IF r \in restored THEN ckpt.got[r] ELSE got[r]]
         /\ target' = [r \in Rank |-> IF r \in restored THEN ckpt.pos[r].reg ELSE -1]
         /\ log' = [r \in Rank |-> ResetComm(from(r), target'[r])]
         /\ fatal' = \E r \in Rank : ResetCommFails(from(r), target'[r])
  /\ chan' = Pairs(<< >>)
  /\ cons' = [r \in Rank |-> [q \in Rank |->
                IF log'[r].peer[q].task THEN log'[r].peer[q].regions ELSE NoMsg]]
  /\ joined' = {r \in Rank : Initiates(log'[r])}
  /\ posted' = Notified(joined', [r \in Rank |-> << >>])
  /\ issued' = [r \in Rank |-> << >>]
  /\ pc' = [r \in Rank |-> "sync"]
  /\ dead' = {}
  /\ UNCHANGED <<high, ckpt, failures, early, done>>

Syncing(r) == r \notin dead /\ pc[r] \in {"sync", "barrier"}

(* detect_incoming_consistency_request of q's regions *)
Reply(r, q) ==
  /\ Syncing(r) /\ cons[q][r] # NoMsg /\ ~log[r].peer[q].task
  /\ log' = [log EXCEPT ![r].peer[q] = Answering(@, log[r].active)]
  /\ cons' = [cons EXCEPT ![r][q] = log'[r].peer[q].regions]
  /\ fatal' = (log[r].peer[q].irecv /\ ~Valid(Cur(log[r].peer[q])))
  /\ UNCHANGED <<pos, high, pc, got, target, ckpt, chan, joined, posted, issued, world>>

(* the exchange of regions with q is complete: compare them, replay messages *)
FormPair(r, q) ==
  /\ Syncing(r) /\ cons[q][r] # NoMsg /\ log[r].peer[q].task
  /\ log' = [log EXCEPT ![r].peer[q] = Formed(@, cons[q][r])]
  /\ LET again == Replayed(log'[r].peer[q])
     IN  chan' = [chan EXCEPT ![r][q] = @ \o [i \in DOMAIN again |-> again[i].msg]]
  /\ fatal' = (~Agree(log[r].peer[q].regions, cons[q][r]).ok \/ ReplayFails(log'[r].peer[q]))
  /\ cons' = [cons EXCEPT ![q][r] = NoMsg]
  /\ UNCHANGED <<pos, high, pc, got, target, ckpt, joined, posted, issued, world>>

(* detect_incoming_consistency_request of the right neighbour's notification *)
Join(r) ==
  /\ Syncing(r) /\ ~log[r].task /\ r \notin joined /\ Right(r) \in joined
  /\ log' = [log EXCEPT ![r].task = TRUE]
  /\ joined' = joined \cup {r}
  /\ posted' = Notified(joined', posted)
  /\ UNCHANGED <<pos, high, pc, got, target, ckpt, chan, cons, issued, fatal, world>>

(* The reductions and the broadcast of form_consistency are complete.  When a *)
(* rank has failed meanwhile, some of the others may have missed the result.  *)
FormCollectives(S) ==
  /\ \A r \in Rank : HasPosted(r, "form")
  /\ S # {} /\ S \subseteq {r \in Rank : Syncing(r) /\ log[r].task}
  /\ dead = {} => S = Rank
  /\ LET root == LatestRank(log)
         al(r) == Aligned(log[r], log[root].regions, CRegion(log[root]).next)
         least == Min({CRegion(al(r).log).next : r \in Rank})
     IN  /\ log' = [r \in Rank |-> IF r \in S THEN [al(r).log EXCEPT !.all = least - 1, !.task = FALSE]
                                              ELSE log[r]]
         /\ fatal' = (CRegion(log[root]).next < 0 \/ \E r \in S : ~al(r).ok)
  /\ UNCHANGED <<pos, high, pc, got, target, ckpt, net, world>>

(* tasks; a collective task left over from an interrupted recovery is not in it *)
HasTasks(r) == (r \in joined /\ log[r].task) \/ \E q \in Rank : log[r].peer[q].task

(* tasks is empty: MPI_Ibarrier *)
\* Mutant: the point-to-point tasks are not waited for.
MutEnterBarrierBusy(r) ==
  /\ pc[r] = "sync" /\ r \notin dead /\ ~(r \in joined /\ log[r].task)
  /\ pc' = [pc EXCEPT ![r] = "barrier"]
  /\ posted' = [posted EXCEPT ![r] = Append(@, "barrier")]
  /\ UNCHANGED <<pos, high, log, got, target, ckpt, chan, cons, joined, issued, fatal, world>>
EnterBarrier(r) ==
  /\ pc[r] = "sync" /\ r \notin dead /\ ~HasTasks(r)
  /\ pc' = [pc EXCEPT ![r] = "barrier"]
  /\ posted' = [posted EXCEPT ![r] = Append(@, "barrier")]
  /\ UNCHANGED <<pos, high, log, got, target, ckpt, chan, cons, joined, issued, fatal, world>>

(* What the assertions after the barrier say: no task is left (comm_log.cpp 202), *)
(* collectives can be replayed, and the interrupted call can be tried again.      *)
LeavingFails(r) ==
  \/ HasTasks(r) \/ ReplayCollFails(log[r])
  \/ log[r].op # NoOp /\ BeginOpFails(log[r])
  \/ \E q \in Rank : log[r].peer[q].irecv /\ EnsureFails(log[r].peer[q], log[r].active)

(* The barrier is complete, and the loop's last progress() has finished the tasks *)
(* whose message is there; replay_collectives, and back to the interrupted call.  *)
LeaveBarrier(r) ==
  /\ pc[r] = "barrier" /\ r \notin dead /\ \A q \in Rank : HasPosted(q, "barrier")
  /\ \A q \in Rank : log[r].peer[q].task => cons[q][r] = NoMsg
  /\ fatal' = LeavingFails(r)
  /\ pc' = [pc EXCEPT ![r] = "run"]
  /\ target' = [target EXCEPT ![r] = -1]
  /\ LET again == Reissued(log[r])
     IN  issued' = [issued EXCEPT ![r] = [i \in DOMAIN again |-> again[i].msg]]
  /\ UNCHANGED <<pos, high, log, got, ckpt, chan, cons, joined, posted, world>>

-----------------------------------------------------------------------------
Step(r) ==
  \/ BeginRegion(r) \/ Send(r) \/ Irecv(r) \/ CollBegin(r) \/ CollReturn(r)
  \/ Raise(r) \/ Join(r) \/ EnterBarrier(r) \/ LeaveBarrier(r)
  \/ \E q \in Rank : WaitRecv(r, q) \/ Reply(r, q) \/ FormPair(r, q)

(* fatal_print and failed assertions end the program. *)
Progress ==
  /\ ~fatal
  /\ (\E r \in Rank : Step(r)) \/ (\E S \in SUBSET Rank : FormCollectives(S))
     \/ Checkpoint \/ Finish \/ Repair

Failure == ~fatal /\ \E r \in Rank : Fail(r)

Finished == done /\ UNCHANGED vars

Next == Progress \/ Failure \/ Finished

Spec == Init /\ [][Next]_vars /\ WF_vars(Progress)

-----------------------------------------------------------------------------
(* Neither fatal_print nor a failing assertion is reached: the logs of two   *)
(* ranks never contradict each other, no partner lacks the logs that a       *)
(* replacement needs, no region is begun twice, no operation is logged in    *)
(* another region than the active one, and what is replayed has no gaps      *)
(* (rank_log.cpp 83-155, 193-237, 307-348; comm_log.cpp 100-117, 160-330,    *)
(* 360-373).                                                                 *)
NoFatal == ~fatal

(* The position of q's n-th message to r. *)
NthSend ==
  [q \in Rank, r \in Rank, n \in 1 .. 10 |->
     CHOOSE p \in [reg : Region, k : 1 .. 10] :
        AtOp(q, p) /\ OpAt(q, p) = SendTo(r) /\ SendsBefore(q, r, p) = n - 1]

(* An application receives from each rank exactly the messages that rank's   *)
(* program sends it, in order, none lost and none twice, whatever failed and *)
(* was replayed (replay_messages, already_sent).                             *)
ReceivedInOrder ==
  \A r, q \in Rank : \A n \in 1 .. Len(got[r][q]) : got[r][q][n] = NthSend[q, r, n]

(* MPI matches collectives by the order of the calls on a communicator: the *)
(* n-th logged collective that two ranks call on the repaired communicator, *)
(* replayed or new, is the same one of the program (replay_collectives).    *)
CollectivesAligned ==
  \A r, q \in Rank : \A n \in DOMAIN issued[r] \cap DOMAIN issued[q] : issued[r][n] = issued[q][n]

(* The same of the collectives inside reset_consistency: no rank is in the  *)
(* barrier's place while another is in the reductions of form_consistency.  *)
ConsistencyCollectivesMatch ==
  \A r, q \in Rank : \A n \in DOMAIN posted[r] \cap DOMAIN posted[q] : posted[r][n] = posted[q][n]

(* "All ranks should be left with no tasks remaining" (comm_log.cpp 198-200): *)
(* once every rank is in the barrier no task still waits for a message.       *)
BarrierLeavesNoTasks ==
  (\A r \in Rank : HasPosted(r, "barrier")) =>
     \A r \in Rank : r \in dead \/ pc[r] = "recover"
        \/ \A q \in Rank : log[r].peer[q].task => cons[q][r] # NoMsg

(* "fenix_assert(region().valid())" in replay_collectives (comm_log.cpp 361): *)
(* whoever leaves the barrier has a region of collectives, though no rank     *)
(* may have called one.                                                       *)
CollectiveRegionKnown ==
  \A r \in Rank : pc[r] = "barrier" /\ (\A q \in Rank : HasPosted(q, "barrier"))
                     => CValid(CRegion(log[r]))

(* "assert(cur_region < r)" in append_region (rank_log.cpp 342), of the first *)
(* message to or from a partner: a region of which only the id is known, left *)
(* behind by a reply that a failure interrupted, is an earlier one.           *)
FirstMessageInNewRegion ==
  \A r \in Rank : Calls(r, "send") \/ Calls(r, "recv") =>
     LET cur == Cur(log[r].peer[OpAt(r, pos[r]).peer])
     IN  Valid(cur) \/ cur.id < log[r].active

(* The program ends however often it was interrupted: no rank waits for a    *)
(* message, a collective or a consistency task that never comes, and none    *)
(* gives up (fatal_print, or a failing assertion).                           *)
EveryoneFinishes == <>done

(* The application sees failures only in that the ranks that failed, and no  *)
(* others, are at the checkpoint again; whoever runs never waits for, misses  *)
(* or repeats anything that the failures of others have to do with.           *)
Reliable == INSTANCE ReliableMessages WITH saved <- ckpt.pos, failed <- dead
ImplementsReliable == Reliable!Spec
=============================================================================
