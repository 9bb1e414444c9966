----------------------------- MODULE DataStore -----------------------------
(***************************************************************************)
(* A data group with its members on one rank: what is staged, stored,        *)
(* committed, loaded and deleted, in snapshots that are moved between the     *)
(* stage, the committed ones and a pool.  The redundancy policy is the local  *)
(* one, whose cohort is the rank itself; the policies that keep copies on      *)
(* other ranks are modules BuddyIMR and ParityIMR.  Elements are counted       *)
(* from 0; a subset is a set of indices (module Subsets), and one without an   *)
(* end contains MAX.  All elements have one size.                             *)
(***************************************************************************)
EXTENDS Integers, Sequences, SequencesExt, FiniteSetsExt

CONSTANTS Member,     \* member ids
          Depth,      \* depth of the group
          TimeStart,  \* its first time stamp
          Shapes,     \* bound: for each member, the counts that it is given and whether
                      \*   it has a serializer; count 0 is FENIX_RESIZEABLE
          Subsets,    \* bound: subsets that are stored
          Lengths,    \* bound: elements that a resizeable member has
          MAX,        \* the largest size_t; also the INT_MAX of FENIX_DATA_RESTORE_FULL
          Rules,      \* what the application keeps to, see below
          MaxTime,    \* bound: time stamps
          MaxWrites,  \* bound: calls that stage data
          MaxOpen     \* bound: serializers that are open at once

ASSUME DataStoreAssumption ==
  /\ Member \subseteq Nat /\ Depth \in Nat /\ TimeStart \in Nat /\ MAX \in Nat
  /\ \A id \in Member : Shapes[id] \subseteq (0 .. MAX - 1) \X BOOLEAN
  /\ Lengths \subseteq 0 .. MAX - 1 /\ Lengths # {}
  /\ \A S \in Subsets : S \subseteq 0 .. MAX

VARIABLES timestamp,   \* DataGroup::timestamp, -1 before the first commit
          timestamps,  \* DataGroup::timestamps
          members,     \* DataGroup::members: id -> member
          order,       \* DataGroup::member_order
          writes,      \* calls that staged data so far; each stages this number
          aborted      \* an assertion failed

vars == <<timestamp, timestamps, members, order, writes, aborted>>

Junk == 0                \* an element nobody has written
NoTime == 0 - 1
RESIZEABLE == 0
FULL == 0 .. MAX         \* SUBSET_FULL

Bounded(S)  == MAX \notin S
MaxCount(S) == IF S = {} \/ MAX \in S THEN 0 ELSE Max(S) + 1
Below(S, n) == IF n = 0 THEN S ELSE {i \in S : i < n}   \* bounded(n - 1), which wraps
Smaller(a, b) == IF a < b THEN a ELSE b

-----------------------------------------------------------------------------
(* DataBuffer and DataSnapshot *)

Filled(n, v) == [i \in 1 .. n |-> v]
Grown(buf, n) == IF n > Len(buf) THEN buf \o Filled(n - Len(buf), Junk) ELSE buf

Snapshot(max) == [max |-> max, buf |-> << >>, staged |-> {}, prot |-> {}]
\* Mutant: only the buffer is released.
MutReset(s) == [s EXCEPT !.buf = << >>]
Reset(s) == Snapshot(s.max)

(* add_and_fit, and its assertions *)
Fitted(s, S) == IF s.max = 0 THEN s.staged \cup S ELSE Below(s.staged \cup S, s.max)
FitCount(s, S) == IF s.max = 0 THEN MaxCount(Fitted(s, S)) ELSE s.max
AddAndFit(s, S) == [s EXCEPT !.staged = Fitted(s, S), !.buf = Grown(@, FitCount(s, S))]
Fits(s, S) == Bounded(s.staged) /\ (FitCount(s, S) # 0 \/ Fitted(s, S) = {})

(* iprotect of the local policy *)
\* Mutant: what is protected is only what was staged last.
MutProtected(s) == [s EXCEPT !.prot = s.staged, !.staged = {}]
Protected(s) == [s EXCEPT !.prot = @ \cup s.staged, !.staged = {}]

-----------------------------------------------------------------------------
(* DataMember: each snapshot is owned by the stage, by the committed ones or by *)
(* the pool.  A serializer that stage_begin or load_begin left open is at the     *)
(* snapshot of a time stamp, or at the one without, the stage.                    *)

Closed == [dir |-> "none", at |-> NoTime]

NewMember(n, ser) ==
  [count |-> n, ser |-> ser, stage |-> Snapshot(n), committed |-> [t \in {} |-> Snapshot(n)],
   avail |-> [i \in 1 .. Depth + 1 |-> Snapshot(n)], open |-> Closed]

InUse(m) == m.stage.staged \cup m.stage.prot
HasData(m) == DOMAIN m.committed # {} \/ InUse(m) # {}

(* create_serializer: how far the source reaches; without an end when dynamic *)
Dynamic(m, S) == m.count = RESIZEABLE /\ ~Bounded(S)
Source(m, S) ==
  IF ~Bounded(S) THEN m.count
  ELSE IF m.count = RESIZEABLE THEN MaxCount(S) ELSE Smaller(m.count, MaxCount(S))

(* stage: copies value v of the elements of S; a dynamic source has k elements *)
Copied(m, S, v, k) ==
  LET buf == Grown(m.stage.buf, Source(m, S)) IN
  IF Dynamic(m, S) THEN Filled(k, v)
  ELSE [i \in DOMAIN buf |-> IF i - 1 \in S /\ i <= Source(m, S) THEN v ELSE buf[i]]

Throws(m, S) == Dynamic(m, S) /\ ~m.ser
Staged(m, S, v, k) ==
  LET s == [m.stage EXCEPT !.buf = Copied(m, S, v, k)] IN
  [m EXCEPT !.stage = AddAndFit(s, Below(S, Len(s.buf)))]
StageAsserts(m, S, v, k) ==
  LET buf == Copied(m, S, v, k) IN
  (m.count # RESIZEABLE => Len(buf) <= m.count) /\ Fits(m.stage, Below(S, Len(buf)))

(* istore and istorev, which agree on a cohort of one *)
StoredStage(m) == [m EXCEPT !.stage = Protected(@)]
Stores(m, S, v, k) == StoredStage(Staged(m, S, v, k))

(* snapshot_delete: the snapshot goes back to the pool *)
\* Mutant: it is not put back.
MutDeleted(m, t) == [m EXCEPT !.committed = [u \in DOMAIN @ \ {t} |-> @[u]]]
Deleted(m, t) ==
  IF t \notin DOMAIN m.committed THEN m
  ELSE [m EXCEPT !.committed = [u \in DOMAIN @ \ {t} |-> @[u]],
                 !.avail = Append(@, Reset(m.committed[t]))]

(* a stage from the pool, or a new one *)
NewStage(m) ==
  IF m.avail = << >> THEN [m EXCEPT !.stage = Snapshot(m.count)]
  ELSE [m EXCEPT !.stage = Last(m.avail), !.avail = Front(@)]

(* DataMember::commit; a serializer stays at the snapshot it was opened for *)
Committed(m, t) ==
  LET all == [m EXCEPT !.committed = [u \in DOMAIN @ \cup {t} |-> IF u = t THEN m.stage ELSE @[u]],
                       !.open.at = IF m.open.dir = "stage" THEN t ELSE @]
      old == Min(DOMAIN all.committed)
  IN  NewStage(IF Cardinality(DOMAIN all.committed) > Depth + 1 THEN Deleted(all, old) ELSE all)

(* cleanup_timestamps, oldest first *)
RestrictedTo(m, valid) ==
  LET gone   == DOMAIN m.committed \ valid
      old(k) == CHOOSE t \in gone : Cardinality({u \in gone : u < t}) = k - 1
  IN  [m EXCEPT !.committed = [u \in DOMAIN @ \cap valid |-> @[u]],
                !.avail = @ \o [k \in 1 .. Cardinality(gone) |-> Reset(m.committed[old(k)])]]

-----------------------------------------------------------------------------
(* load, to a target of n elements; MAX for FENIX_DATA_RESTORE_FULL.  What is read *)
(* ends with the buffer or the target: when either is empty, nowhere.              *)
ValueAt(s, i) == IF i < Len(s.buf) THEN s.buf[i + 1] ELSE Junk
Readable(s, S, n) == Below(S, Smaller(Len(s.buf), n))

LoadOne(m, t, n) ==
  LET s == m.committed[t] IN
  [found |-> s.prot, data |-> [i \in Readable(s, s.prot, n) |-> ValueAt(s, i)]]

(* FENIX_DATA_SNAPSHOT_ALL: newest first, until the target is covered *)
Held(m, T) == UNION {m.committed[t].prot : t \in T}
\* Mutant: the loop stops at the first snapshot that covers some of the target.
MutVisited(m, n) ==
  {t \in DOMAIN m.committed : Held(m, {u \in DOMAIN m.committed : u > t}) \cap 0 .. n - 1 = {}}
Visited(m, n) ==
  {t \in DOMAIN m.committed : ~(0 .. n - 1 \subseteq Held(m, {u \in DOMAIN m.committed : u > t}))}

LoadAll(m, n) ==
  LET found     == Held(m, Visited(m, n))
      source(i) == m.committed[Max({t \in Visited(m, n) : i \in m.committed[t].prot})]
      read      == {i \in found : i \in Readable(source(i), source(i).prot, n)}
  IN  [found |-> found, data |-> [i \in read |-> ValueAt(source(i), i)]]

(* find_snapshot, which throws unless the member has it *)
LATEST == 0 - 1
ALL    == 0 - 2
Finds(m, ts) == IF ts < 0 THEN DOMAIN m.committed # {} ELSE ts \in DOMAIN m.committed
FindSnapshot(m, ts) == IF ts = LATEST THEN Max(DOMAIN m.committed) ELSE ts

(* member_restore, of a member that exists, and member_lrestore; member_load *)
MemberRestore(m, ts, n) == IF ts = ALL THEN LoadAll(m, n) ELSE LoadOne(m, FindSnapshot(m, ts), n)
MemberLoad(m, ts)       == MemberRestore(m, ts, MAX)

(* FENIX_WARNING_PARTIAL_RESTORE *)
PartialRestore(found, n) == ~(0 .. (IF n = MAX THEN MaxCount(found) ELSE n) - 1 \subseteq found)

-----------------------------------------------------------------------------
(* The calls of the application.  It keeps to the documentation: no staging,   *)
(* storing or loading while a serializer of the member is open, and no deletion *)
(* of the snapshot it is at.                                                    *)

Init ==
  /\ timestamp = NoTime /\ timestamps = {} /\ members = [m \in {} |-> 0] /\ order = << >>
  /\ writes = 0 /\ aborted = FALSE

Exists(id) == ~aborted /\ id \in DOMAIN members
Free(id)   == Exists(id) /\ members[id].open = Closed
CanOpen(id) == Free(id) /\ Cardinality({x \in DOMAIN members : members[x].open # Closed}) < MaxOpen
Groups     == <<timestamp, timestamps>>

Becomes(id, m) == members' = [members EXCEPT ![id] = m]
Abort == aborted' = TRUE /\ UNCHANGED <<members, order, Groups>>

(* a call that stages the next value, unless it fails an assertion *)
Writes(asserts, Changes) ==
  /\ writes < MaxWrites /\ writes' = writes + 1
  /\ IF asserts THEN Changes /\ UNCHANGED <<order, aborted>> ELSE Abort

(* Rules of the application beyond the documentation:                           *)
(*   count    it does not change the count of a member that was created with one, *)
(*            nor after an attempt to stage                                        *)
(*   fresh    it stages in place only when nothing is staged or stored yet        *)
(*   sized    it does not stage_inplace a resizeable member                       *)
(*   growing  a resizeable member does not shrink between two commits             *)
(*   closed   it does not commit or delete while a serializer is open             *)
Obeys(rule, condition) == rule \in Rules => condition

CanGrow(m, S, k) == Obeys("growing", Dynamic(m, S) => k >= MaxCount(InUse(m)))
CountKept(m, n)  == Obeys("count", n # m.count => m.stage.max = 0 /\ m.stage.buf = << >>)
MayRetire        ==
  \A id \in DOMAIN members : members[id].open.at = NoTime /\ Obeys("closed", members[id].open = Closed)

MemberCreate(id, n, ser) ==
  /\ ~aborted /\ id \notin DOMAIN members
  /\ members' = [x \in DOMAIN members \cup {id} |-> IF x = id THEN NewMember(n, ser) ELSE members[x]]
  /\ order' = Append(order, id)
  /\ UNCHANGED <<Groups, writes, aborted>>

(* attr_set of the count throws when there is data; of the others it is harmless *)
CountAllowed(m, n) == n = m.count \/ ~HasData(m)

MemberAttrSet(id, n) ==
  /\ Free(id) /\ CountAllowed(members[id], n) /\ CountKept(members[id], n)
  /\ Becomes(id, [members[id] EXCEPT !.count = n])
  /\ UNCHANGED <<Groups, order, writes, aborted>>

MemberDefine(id, n, ser) ==
  /\ Free(id) /\ CountAllowed(members[id], n) /\ CountKept(members[id], n)
  /\ Becomes(id, [members[id] EXCEPT !.count = n, !.ser = ser])
  /\ UNCHANGED <<Groups, order, writes, aborted>>

MemberDelete(id) ==
  /\ Free(id)
  /\ members' = [x \in DOMAIN members \ {id} |-> members[x]]
  /\ \E i \in DOMAIN order : order[i] = id /\ order' = RemoveAt(order, i)
  /\ UNCHANGED <<Groups, writes, aborted>>

MemberStage(id, S, k) ==
  /\ Free(id) /\ ~Throws(members[id], S) /\ CanGrow(members[id], S, k)
  /\ Writes(StageAsserts(members[id], S, writes + 1, k),
            Becomes(id, Staged(members[id], S, writes + 1, k)) /\ UNCHANGED Groups)

(* store and storev of what is staged already *)
MemberStorePrestaged(id) ==
  /\ Free(id) /\ members[id].stage.staged # {}
  /\ Becomes(id, StoredStage(members[id]))
  /\ UNCHANGED <<Groups, order, writes, aborted>>

(* The members in this order up to the first one that throws *)
Reached(ids, S) ==
  LET bad == {k \in DOMAIN ids : Throws(members[ids[k]], S)} IN
  SubSeq(ids, 1, IF bad = {} THEN Len(ids) ELSE Min(bad) - 1)

AfterStores(ids, S, k) ==
  [id \in DOMAIN members |-> IF id \in ToSet(ids) THEN Stores(members[id], S, writes + 1, k) ELSE members[id]]
StoresAssert(ids, S, k) == \A id \in ToSet(ids) : StageAsserts(members[id], S, writes + 1, k)
CanStore(ids, S, k) == \A id \in ToSet(ids) : Free(id) /\ CanGrow(members[id], S, k)

(* store and storev of one member, or of all, by id; the prefix that was stored  *)
(* before a member throws stays stored.                                          *)
MemberStore(ids, S, k) ==
  LET reached == Reached(ids, S) IN
  /\ ~aborted /\ reached # << >> /\ CanStore(reached, S, k)
  /\ Writes(StoresAssert(reached, S, k), members' = AfterStores(reached, S, k) /\ UNCHANGED Groups)

MemberStageInplace(id, S) ==
  LET m == members[id]
      n == IF Bounded(S) /\ m.count > MaxCount(S) THEN MaxCount(S) ELSE m.count
      s == [m.stage EXCEPT !.buf = Filled(n, writes + 1)]
  IN  /\ Free(id) /\ ~Dynamic(m, S)
      /\ Obeys("sized", m.count # RESIZEABLE) /\ Obeys("fresh", InUse(m) = {})
      /\ Writes(Fits(s, Below(S, n)), Becomes(id, [m EXCEPT !.stage = AddAndFit(s, Below(S, n))]) /\ UNCHANGED Groups)

MemberStageBegin(id) ==
  LET m == members[id] IN
  /\ CanOpen(id) /\ Obeys("fresh", InUse(m) = {})
  /\ Becomes(id, [m EXCEPT !.stage.buf = Filled(m.count, Junk), !.open = [dir |-> "stage", at |-> NoTime]])
  /\ UNCHANGED <<Groups, order, writes, aborted>>

(* The application has written all its elements, to the snapshot that was the    *)
(* stage at stage_begin; added is the whole buffer of what is the stage now.     *)
MemberStageEnd(id, k) ==
  LET m == members[id]
      written(s) == [s EXCEPT !.buf = Filled(IF m.count = RESIZEABLE THEN k ELSE Len(@), writes + 1)]
      n == IF m.open.at = NoTime THEN [m EXCEPT !.open = Closed, !.stage = written(@)]
           ELSE [m EXCEPT !.open = Closed, !.committed[m.open.at] = written(@)]
      all == 0 .. (IF Len(n.stage.buf) = 0 THEN MAX ELSE Len(n.stage.buf) - 1)
  IN  /\ Exists(id) /\ m.open.dir = "stage" /\ CanGrow(m, FULL, k)
      /\ Writes(Fits(n.stage, all), Becomes(id, [n EXCEPT !.stage = AddAndFit(@, all)]) /\ UNCHANGED Groups)

MemberLoadBegin(id, ts) ==
  /\ CanOpen(id) /\ Finds(members[id], ts)
  /\ Becomes(id, [members[id] EXCEPT !.open = [dir |-> "load", at |-> FindSnapshot(members[id], ts)]])
  /\ UNCHANGED <<Groups, order, writes, aborted>>

MemberLoadEnd(id) ==
  /\ Exists(id) /\ members[id].open.dir = "load"
  /\ Becomes(id, [members[id] EXCEPT !.open = Closed])
  /\ UNCHANGED <<Groups, order, writes, aborted>>

-----------------------------------------------------------------------------
NextTimestamp == IF timestamp = NoTime THEN TimeStart ELSE timestamp + 1
Unstored == \E id \in DOMAIN members : members[id].stage.staged # {}

(* DataGroup::commit: the time stamps, and each member *)
\* Mutant: the group keeps one time stamp more than the members do.
MutTrimmed(T) == IF Cardinality(T) = Depth + 2 THEN T \ {Min(T)} ELSE T
Trimmed(T) == IF Cardinality(T) = Depth + 1 THEN T \ {Min(T)} ELSE T

GroupCommit(current) ==
  /\ timestamp' = NextTimestamp
  /\ timestamps' = Trimmed(timestamps) \cup {NextTimestamp}
  /\ members' = [id \in DOMAIN members |-> Committed(current[id], NextTimestamp)]

(* The time stamp is given before anything can be thrown. *)
Commit ==
  /\ ~aborted /\ NextTimestamp <= MaxTime /\ MayRetire
  /\ IF Unstored THEN timestamp' = NextTimestamp /\ UNCHANGED <<timestamps, members>>
     ELSE GroupCommit(members)
  /\ UNCHANGED <<order, writes, aborted>>

(* checkpoint and checkpointv: store all members in the order of their creation, *)
(* and commit unless one throws                                                  *)
Checkpoint(S, k) ==
  LET reached == Reached(order, S) IN
  /\ ~aborted /\ NextTimestamp <= MaxTime /\ MayRetire /\ CanStore(reached, S, k)
  /\ Writes(StoresAssert(reached, S, k),
            IF reached = order THEN GroupCommit(AfterStores(order, S, k))
            ELSE members' = AfterStores(reached, S, k) /\ UNCHANGED Groups)

(* the API takes no negative time stamp *)
SnapshotDelete(t) ==
  /\ ~aborted /\ MayRetire /\ t \in timestamps
  /\ timestamps' = timestamps \ {t}
  /\ members' = [id \in DOMAIN members |-> Deleted(members[id], t)]
  /\ UNCHANGED <<timestamp, order, writes, aborted>>

(* group_create of a group that exists: sync_timestamps with oneself *)
GroupCreate ==
  /\ ~aborted /\ MayRetire
  /\ timestamp' = IF timestamps = {} THEN NoTime ELSE Max(timestamps)
  /\ members' = [id \in DOMAIN members |-> RestrictedTo(members[id], timestamps)]
  /\ UNCHANGED <<timestamps, order, writes, aborted>>

GroupDelete ==
  /\ \A id \in DOMAIN members : Free(id)
  /\ ~aborted /\ timestamp' = NoTime /\ timestamps' = {} /\ members' = [m \in {} |-> 0] /\ order' = << >>
  /\ UNCHANGED <<writes, aborted>>

(* the queries: newest first *)
SnapshotAtPosition(k) == CHOOSE t \in timestamps : Cardinality({u \in timestamps : u > t}) = k
GroupSnapshots == {SnapshotAtPosition(k) : k \in 0 .. Cardinality(timestamps) - 1}

ById == SetToSortSeq(DOMAIN members, <)

(* how many elements there are is of interest only to a subset without an end *)
LengthsFor(S) == {k \in Lengths : Bounded(S) => k = Min(Lengths)}

Staging ==
  \E S \in Subsets : \E k \in LengthsFor(S) :
    \/ MemberStore(ById, S, k)
    \/ Checkpoint(S, k)
    \/ \E id \in Member : MemberStage(id, S, k) \/ (Exists(id) /\ MemberStore(<<id>>, S, k))

Next ==
  \/ \E id \in Member : \E shape \in Shapes[id] :
       \/ MemberCreate(id, shape[1], shape[2]) \/ MemberDefine(id, shape[1], shape[2])
       \/ MemberAttrSet(id, shape[1])
  \/ Staging
  \/ \E id \in Member :
       \/ MemberDelete(id) \/ MemberStorePrestaged(id) \/ MemberStageBegin(id) \/ MemberLoadEnd(id)
       \/ \E S \in Subsets : Exists(id) /\ MemberStageInplace(id, S)
       \/ \E k \in Lengths : Exists(id) /\ MemberStageEnd(id, k)
       \/ MemberLoadBegin(id, LATEST)   \* as no snapshot goes away meanwhile, one will do
  \/ Commit \/ GroupCreate \/ GroupDelete
  \/ \E t \in timestamps : SnapshotDelete(t)

Spec == Init /\ [][Next]_vars

-----------------------------------------------------------------------------
(* Whatever sequence of calls staged it, every element that a snapshot claims to *)
(* hold has been written by the application, and no assertion failed: what load  *)
(* reports as found is real (snapshot.cpp 75-89, member.cpp 201-212).             *)
FoundIsReal ==
  /\ ~aborted
  /\ \A id \in DOMAIN members : \A s \in Range(members[id].committed) \cup {members[id].stage} :
       \A i \in s.staged \cup s.prot : ValueAt(s, i) # Junk

(* Each element is loaded "from the most recent available snapshot the individual *)
(* element was committed in" (fenix.h 1056-1058), although the loop stops early and     *)
(* copies only what is still missing; the warning is given exactly when an         *)
(* element of the target was in no snapshot.  A member's latest snapshot is the     *)
(* group's at position 0 (member.cpp 290-329, 546-563, group.cpp 212-224).          *)
LoadNewest ==
  \A id \in DOMAIN members :
    LET m == members[id]
        holding(i) == {t \in DOMAIN m.committed : i \in m.committed[t].prot}
        all(n) == MemberRestore(m, ALL, n)
    IN  /\ \A n \in 1 .. MAX :
             /\ all(n).data = [i \in {j \in 0 .. n - 1 : holding(j) # {}} |->
                                 m.committed[Max(holding(i))].buf[i + 1]]
             /\ PartialRestore(all(n).found, n) <=>
                  \E i \in 0 .. (IF n = MAX THEN MaxCount(all(n).found) ELSE n) - 1 : holding(i) = {}
        /\ \A t \in GroupSnapshots : Finds(m, t) =>
             \A n \in 1 .. MAX : DOMAIN MemberRestore(m, t, n).data = {i \in m.committed[t].prot : i < n}
        /\ Finds(m, LATEST) => MemberLoad(m, LATEST) = MemberLoad(m, SnapshotAtPosition(0))

(* The group and its members count their snapshots separately (group.cpp 188-192,  *)
(* member.cpp 381-383), a member may be younger than the group's snapshots, and a    *)
(* failed commit has used up a time stamp: still a member has exactly the group's    *)
(* snapshots since it was created, at most depth + 1, and the next time stamp is new. *)
TimestampsAgree ==
  /\ Cardinality(timestamps) <= Depth + 1
  /\ \A t \in timestamps : t <= timestamp
  /\ \A id \in DOMAIN members :
       LET own == DOMAIN members[id].committed IN
       own \subseteq timestamps /\ \A t \in own : \A u \in timestamps : u > t => u \in own

(* No snapshot is lost, and the pool holds only blank ones: the stage always finds   *)
(* its successor there, without the data of the snapshot it held before               *)
(* (member.cpp 385-391, 405-410).                                                     *)
PoolExact ==
  \A id \in DOMAIN members :
    LET m == members[id] IN
    /\ Len(m.avail) + Cardinality(DOMAIN m.committed) = Depth + 1
    /\ \A s \in Range(m.avail) : s = Snapshot(s.max)

(* The snapshots implement what the API promises: a store adds to the working copy,  *)
(* a commit freezes all of them under a new time stamp, nothing else ever changes a   *)
(* snapshot and depth + 1 are kept.                                                   *)
Content(s, S) == [i \in {j \in S : j < Len(s.buf)} |-> s.buf[i + 1]]

Promised == INSTANCE SnapshotStore WITH
  Counts <- {shape[1] : shape \in UNION {Shapes[id] : id \in Member}},
  Subsets <- Subsets \cup {FULL},
  size <- [id \in DOMAIN members |-> members[id].count],
  working <- [id \in DOMAIN members |-> Content(members[id].stage, InUse(members[id]))],
  snapshots <- [id \in DOMAIN members |->
    [t \in DOMAIN members[id].committed |-> Content(members[id].committed[t], members[id].committed[t].prot)]],
  kept <- timestamps,
  now <- writes
ImplementsStore == Promised!Spec
=============================================================================
