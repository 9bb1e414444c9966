------------------------------ MODULE RankLog ------------------------------
(***************************************************************************)
(* The log that one rank keeps of its point-to-point messages with one     *)
(* other rank (src/src/logging/rank_log.cpp).  A region of the program     *)
(* owns a range [sf, sn) of sends and a range [rf, rn) of receives; the    *)
(* last Depth regions are kept, the current one last, and the sends of a   *)
(* region are dropped with it.  Everything here is a function of the log:  *)
(* module MessageLog has the steps.  The build is the default one, without *)
(* NDEBUG: what fails when an assertion fails ends the program, as a       *)
(* fatal_print does, and is said by the operators called ...Fails.         *)
(***************************************************************************)
EXTENDS MessageProgram, SequencesExt

CONSTANT Depth     \* max_regions: how many regions a log holds

ASSUME DepthAssumption == Depth \in Nat \ {0}

NewRegion(id, s, t) == [id |-> id, sf |-> s, sn |-> s, rf |-> t, rn |-> t]
NextRegion(id, g)   == NewRegion(id, g.sn, g.rn)
Marker(id)          == NewRegion(id, -1, -1)
NoRegion            == Marker(-1)

Valid(g) == g.id >= 0 /\ 0 <= g.sf /\ g.sf <= g.sn /\ 0 <= g.rf /\ g.rf <= g.rn
Empty(g) == g.id >= 0 /\ 0 <= g.sf /\ g.sf = g.sn /\ 0 <= g.rf /\ g.rf = g.rn
Fresh(g) == Empty(g) /\ g.sf = 0 /\ g.rf = 0

(* made: the entry of rank_logs exists; irecv: active_irecv; task: a consistency task. *)
NewLog == [made |-> FALSE, sends |-> {}, already |-> -1, irecv |-> FALSE, task |-> FALSE,
           regions |-> [i \in 1 .. Depth |-> NoRegion]]
Cur(l) == Last(l.regions)
SetCur(l, g) == [l EXCEPT !.regions[Depth] = g]

EraseSends(sends, g) ==
  {s \in sends : ~(Valid(g) /\ g.sf <= s.idx /\ s.idx < g.sn)}

\* Mutant: the regions are not shifted.
MutAppendRegion(l, g) ==
  [l EXCEPT !.sends = EraseSends(@, Head(l.regions)), !.regions[Depth] = g]
AppendRegion(l, g) ==
  [l EXCEPT !.sends = EraseSends(@, Head(l.regions)), !.regions = Append(Tail(@), g)]

(* erase_regions from upper_bound(target) on *)
EraseAfter(l, target) ==
  LET kept == SelectSeq(l.regions, LAMBDA g : g.id <= target)
  IN  [l EXCEPT
        !.sends = {s \in @ : \A i \in 1 .. Depth : l.regions[i].id > target =>
                                s \in EraseSends({s}, l.regions[i])},
        !.regions = [i \in 1 .. Depth - Len(kept) |-> NoRegion] \o kept]

(* reset_consistency; a log without a valid region waits to be asked *)
ResetRank(l, target) ==
  LET cur   == Cur(l)
      moved == CASE 0 <= target /\ target < cur.id -> EraseAfter(l, target)
                 [] target > cur.id                -> AppendRegion(l, NextRegion(target, cur))
                 [] OTHER                          -> l
      there == Cur(moved)
  IN  CASE ~Valid(cur)         -> l
        [] ~Valid(there)       -> moved
        [] there.id = target   ->
             [SetCur(moved, NewRegion(target, there.sf, there.rf))
                EXCEPT !.sends = EraseSends(@, there), !.task = TRUE]
        [] OTHER               -> [moved EXCEPT !.task = TRUE]

(* "Recovering to an undefined region between two defined regions!" *)
RegionSkipped(regions, valid, target) ==
  LET known == {i \in DOMAIN regions : regions[i].id <= target}
  IN  /\ Depth \in valid /\ target < Last(regions).id
      /\ known # {} /\ Max(known) \in valid /\ regions[Max(known)].id # target

ResetFails(l, target) ==
  \/ l.task \/ (target >= 0 /\ l.irecv)
  \/ RegionSkipped(l.regions, {i \in 1 .. Depth : Valid(l.regions[i])}, target)

LowerBound(regions, id) ==
  1 + Cardinality({i \in DOMAIN regions : regions[i].id < id})

(* How the end points of a region look from the other side. *)
Mirror(g, of) == NewRegion(g.id, of.rf, of.sf)

(* check_consistent: both valid, the current region of a not before that of b *)
CheckConsistent(a, b) ==
  LET i == LowerBound(a, Last(b).id)
      ga == a[i]
      gb == Last(b)
      res(x, y, ok) == [a |-> x, b |-> y, ok |-> ok]
  IN  CASE ga.id # gb.id                      -> res(a, b, FALSE)
        [] ga.sf = gb.rf /\ ga.rf = gb.sf     -> res(a, b, TRUE)
        [] Fresh(gb)                          -> res(a, [b EXCEPT ![Depth] = Mirror(gb, ga)], TRUE)
        [] Fresh(ga) /\ ga.id = Last(a).id    -> res([a EXCEPT ![i] = Mirror(ga, gb)], b, TRUE)
        [] OTHER                              -> res(a, b, FALSE)

(* recover_invalid: a has a valid region, b is told what its region was *)
RecoverInvalid(a, b) ==
  LET i == LowerBound(a, Last(b).id)
      found == i <= Depth /\ (a[i].id = Last(b).id \/ Fresh(a[i]))
  IN  [a |-> a, ok |-> found,
       b |-> IF ~found THEN b
             ELSE [b EXCEPT ![Depth] = IF a[i].id # @.id THEN NewRegion(a[i].id, 0, 0)
                                                         ELSE Mirror(@, a[i])]]

(* What form_consistency makes of the two sides' regions. *)
Agree(mine, theirs) ==
  LET both == Valid(Last(mine)) /\ Valid(Last(theirs))
      swap == IF both THEN Last(mine).id < Last(theirs).id ELSE ~Valid(Last(mine))
      F(a, b) == IF both THEN CheckConsistent(a, b) ELSE RecoverInvalid(a, b)
      res  == IF swap THEN F(theirs, mine) ELSE F(mine, theirs)
  IN  [mine |-> IF swap THEN res.b ELSE res.a,
       theirs |-> IF swap THEN res.a ELSE res.b, ok |-> res.ok]

InOrder(S) == SetToSortSeq(S, LAMBDA x, y : x.idx < y.idx)

(* replay_messages *)
\* Mutant: everything in the log is sent again.
MutReplayedAll(l) == InOrder(l.sends)
\* Mutant: the first missing message is skipped.
MutReplayedLate(l) == InOrder({s \in l.sends : s.idx > l.already + 1})
Replayed(l) == InOrder({s \in l.sends : s.idx > l.already})

(* No message that the other side misses has been dropped, nor one in between. *)
ReplayFails(l) ==
  LET missing == {s.idx : s \in {s \in l.sends : s.idx > l.already}}
  IN  IF missing = {} THEN Cur(l).sn - 1 > l.already
                      ELSE missing # l.already + 1 .. l.already + Cardinality(missing)

(* reply_consistency, up to the message that tells the other side our regions *)
Answering(l, active) ==
  [IF Valid(Cur(l)) THEN l ELSE SetCur(l, Marker(active)) EXCEPT !.made = TRUE, !.task = TRUE]

(* the rest of form_consistency *)
Formed(l, theirs) ==
  LET res == Agree(l.regions, theirs)
  IN  [l EXCEPT !.regions = res.mine, !.already = Last(res.theirs).rn - 1, !.task = FALSE]

(* ensure_consistency *)
Ensured(l, active) ==
  [IF Valid(Cur(l)) THEN l ELSE AppendRegion(l, NewRegion(active, 0, 0)) EXCEPT !.made = TRUE]

(* A message to or from a partner has its place in the active region only.  A  *)
(* region that is known by its id alone is not followed by one of the same id. *)
EnsureFails(l, active) ==
  \/ l.task
  \/ ~Valid(Cur(l)) /\ Cur(l).id >= active
  \/ Cur(Ensured(l, active)).id # active

(* log_send: a send that is already logged under the index stays as it is *)
LogSend(l, msg) ==
  LET idx == Cur(l).sn
  IN  [l EXCEPT !.regions[Depth].sn = idx + 1,
                !.sends = IF \E s \in @ : s.idx = idx THEN @ ELSE @ \cup {[idx |-> idx, msg |-> msg]}]

(* the last message in the log is the last one that was sent *)
LogSendFails(l) == l.sends # {} /\ Max({s.idx : s \in l.sends}) # Cur(l).sn - 1

(* begin_region, and when it gives up *)
Begun(l, id) ==
  LET cur == Cur(l)
  IN  CASE cur.id >= id -> l
        [] Valid(cur)   -> AppendRegion(l, NextRegion(id, cur))
        [] OTHER        -> AppendRegion(l, NewRegion(id, 0, 0))
BeginFails(l, id) == Cur(l).id >= id /\ ~Empty(Cur(l))

(* What goes into a checkpoint, of the logs that have a valid region. *)
StoredLog(l) ==
  IF Valid(Cur(l)) THEN [l EXCEPT !.made = TRUE, !.irecv = FALSE, !.task = FALSE] ELSE NewLog
=============================================================================
