--------------------------- MODULE CollectiveLog ---------------------------
(***************************************************************************)
(* The log of a rank's collective operations, and the rest of a CommLog    *)
(* (src/src/logging/comm_log.cpp), as functions of the log.  A collective  *)
(* region is a range [first, next) of collective indices; next counts an   *)
(* operation from the moment it is begun.                                  *)
(***************************************************************************)
EXTENDS RankLog, FiniteSetsExt

NewCRegion(id, n) == [id |-> id, first |-> n, next |-> n]
NoCRegion         == NewCRegion(-1, -1)
CValid(g) == g.id >= 0 /\ g.first >= 0 /\ g.next >= 0
CEmpty(g) == CValid(g) /\ g.first = g.next
CFresh(g) == CEmpty(g) /\ g.first = 0

NoOp == [idx |-> -1, msg |-> -1]

NewCommLog ==
  [active |-> 0, peer |-> [q \in Rank |-> NewLog], regions |-> [i \in 1 .. Depth |-> NoCRegion],
   colls |-> {}, op |-> NoOp, all |-> -1, task |-> FALSE]
CRegion(l) == Last(l.regions)

EraseLogs(colls, g) ==
  {c \in colls : ~(CValid(g) /\ g.first <= c.idx /\ c.idx < g.next)}

AppendCRegion(l, g) ==
  [l EXCEPT !.colls = EraseLogs(@, Head(l.regions)), !.regions = Append(Tail(@), g)]

EraseCAfter(l, target) ==
  LET kept == SelectSeq(l.regions, LAMBDA g : g.id <= target)
  IN  [l EXCEPT
        !.colls = {c \in @ : \A i \in 1 .. Depth : l.regions[i].id > target =>
                                c \in EraseLogs({c}, l.regions[i])},
        !.regions = [i \in 1 .. Depth - Len(kept) |-> NoCRegion] \o kept]

(* Who begins a collective consistency task of its own accord. *)
\* Mutant: a rank without collectives in the current region waits to be asked.
MutInitiates(l) == CValid(CRegion(l)) /\ ~CEmpty(CRegion(l))
Initiates(l) == CValid(CRegion(l)) /\ ~CFresh(CRegion(l))

(* reset_consistency before its loop: target -1 (FENIX_MLOG_CONTINUE) or a region *)
ResetComm(log, target) ==
  LET l == [log EXCEPT !.active = IF target >= 0 THEN target ELSE @,
                       !.peer = [q \in Rank |-> ResetRank(@[q], target)]]
      g == CRegion(log)
      m == CASE ~CValid(g) \/ target = -1 -> l
             [] g.id > target -> EraseCAfter(l, target)
             [] g.id < target -> AppendCRegion(l, NewCRegion(target, g.next))
             [] OTHER -> [l EXCEPT !.colls = EraseLogs(@, g), !.regions[Depth].next = g.first]
  IN  [m EXCEPT !.task = @ \/ Initiates(m)]

ResetCommFails(log, target) ==
  \/ \E q \in Rank : ResetFails(log.peer[q], target)
  \/ RegionSkipped(log.regions, {i \in 1 .. Depth : CValid(log.regions[i])}, target)

(* The rank with the most collectives; MPI_MAXLOC takes the lowest on a tie. *)
LatestRank(logs) ==
  LET next(r) == CRegion(logs[r]).next
  IN  CHOOSE r \in Rank : \A q \in Rank : next(q) < next(r) \/ (next(q) = next(r) /\ r <= q)

(* form_consistency: what a rank makes of the regions of the latest rank *)
Aligned(l, latest, latestIdx) ==
  LET g == IF CValid(CRegion(l)) THEN CRegion(l) ELSE [CRegion(l) EXCEPT !.id = l.active]
      i == LowerBound(latest, g.id)
      unset == ~CValid(g) \/ CFresh(g)
      set(n) == [log |-> [l EXCEPT !.regions[Depth] = NewCRegion(g.id, n)], ok |-> TRUE]
      keep(ok) == [log |-> [l EXCEPT !.regions[Depth] = g], ok |-> ok]
  IN  CASE i > Depth             -> IF unset THEN set(latestIdx) ELSE keep(g.first = latestIdx)
        [] latest[i].id = g.id   -> IF unset THEN set(latest[i].first) ELSE keep(g.first = latest[i].first)
        [] i > 1 /\ CValid(latest[i - 1]) -> keep(FALSE)
        [] ~CValid(g) \/ g.next # latest[i].first -> keep(FALSE)
        [] OTHER -> [log |-> AppendCRegion(l, NewCRegion(latest[i].id, g.next)), ok |-> TRUE]

(* The collectives that replay_collectives starts again, and then the active one. *)
\* Mutant: replay begins with the last collective that all ranks have.
MutReissued(l) ==
  LET again == IF \E c \in l.colls : c.idx = l.all
               THEN InOrder({c \in l.colls : c.idx >= l.all}) ELSE << >>
  IN  again \o IF l.op = NoOp THEN << >> ELSE <<l.op>>
\* Mutant: the interrupted operation is not started again.
MutReissuedDone(l) ==
  LET start == l.all + 1
  IN  IF start < CRegion(l).next /\ \E c \in l.colls : c.idx = start
      THEN InOrder({c \in l.colls : c.idx >= start}) ELSE << >>
Reissued(l) ==
  LET start == l.all + 1
      again == IF start < CRegion(l).next /\ \E c \in l.colls : c.idx = start
               THEN InOrder({c \in l.colls : c.idx >= start}) ELSE << >>
  IN  again \o IF l.op = NoOp THEN << >> ELSE <<l.op>>

(* What is to be replayed is known, and the log has all of it. *)
ReplayCollFails(l) ==
  LET missing == {c.idx : c \in {c \in l.colls : c.idx > l.all}}
  IN  \/ ~CValid(CRegion(l))
      \/ /\ l.all + 1 \in missing /\ l.all + 1 < CRegion(l).next
         /\ missing # l.all + 1 .. l.all + Cardinality(missing)

(* CommLog::begin, at the first attempt and at every other: a collective belongs *)
(* to the active region, and not into the forming of consistency.                *)
BeginOpFails(l) == l.task \/ ~CValid(CRegion(l)) \/ CRegion(l).id # l.active

(* begin<MPIFunction>: the operation is counted before it runs *)
CollStarted(log, msg) ==
  LET l == IF CValid(CRegion(log)) THEN log ELSE AppendCRegion(log, NewCRegion(log.active, 0))
  IN  [l EXCEPT !.regions[Depth].next = @ + 1, !.op = [idx |-> CRegion(l).next, msg |-> msg]]

(* begin_region of the whole log *)
BegunAll(log, id) ==
  LET l == [log EXCEPT !.active = id,
              !.peer = [q \in Rank |-> IF @[q].made THEN Begun(@[q], id) ELSE @[q]]]
      g == CRegion(l)
  IN  CASE g.id >= id -> l
        [] CValid(g)  -> AppendCRegion(l, NewCRegion(id, g.next))
        [] OTHER      -> AppendCRegion(l, NewCRegion(id, 0))
BeginAllFails(log, id) ==
  \/ \E q \in Rank : log.peer[q].made /\ BeginFails(log.peer[q], id)
  \/ CRegion(log).id >= id /\ ~CEmpty(CRegion(log))

(* serialize: neither the collectives nor the results of a consistency task *)
Stored(log) ==
  [NewCommLog EXCEPT !.active = log.active, !.regions = log.regions,
                     !.peer = [q \in Rank |-> StoredLog(log.peer[q])]]
=============================================================================
