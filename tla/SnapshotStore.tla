--------------------------- MODULE SnapshotStore ---------------------------
(***************************************************************************)
(* What the data recovery of one rank promises of a group: a member has a    *)
(* working copy of what was stored since the last commit, and a commit       *)
(* freezes the working copies of all members under one new time stamp.  The  *)
(* newest Depth + 1 snapshots are kept.  now stands for the application's     *)
(* data, which is new at every store.                                         *)
(***************************************************************************)
EXTENDS Integers, FiniteSetsExt

CONSTANTS Member, Depth, Counts, Subsets, Lengths, MAX

VARIABLES size,       \* the count of each existing member, 0 if it varies
          working,    \* what was stored since the last commit: index -> value
          snapshots,  \* what was committed: time stamp -> index -> value
          kept,       \* the time stamps of the group
          now

svars == <<size, working, snapshots, kept, now>>

Nothing == [i \in {} |-> 0]

Init ==
  /\ size = [m \in {} |-> 0] /\ working = [m \in {} |-> Nothing]
  /\ snapshots = [m \in {} |-> Nothing] /\ kept = {} /\ now = 0

With(f, m, v) == [x \in DOMAIN f \cup {m} |-> IF x = m THEN v ELSE f[x]]
Without(f, m) == [x \in DOMAIN f \ {m} |-> f[x]]
Within(f, S)  == [x \in DOMAIN f \cap S |-> f[x]]

Create(m, n) ==
  /\ m \notin DOMAIN size
  /\ size' = With(size, m, n) /\ working' = With(working, m, Nothing)
  /\ snapshots' = With(snapshots, m, Nothing)
  /\ UNCHANGED <<kept, now>>

Resize(m, n) ==
  /\ m \in DOMAIN size /\ working[m] = Nothing /\ snapshots[m] = Nothing
  /\ size' = With(size, m, n)
  /\ UNCHANGED <<working, snapshots, kept, now>>

Drop(m) ==
  /\ size' = Without(size, m) /\ working' = Without(working, m) /\ snapshots' = Without(snapshots, m)
  /\ UNCHANGED <<kept, now>>

DropAll ==
  /\ size' = [m \in {} |-> 0] /\ working' = [m \in {} |-> Nothing] /\ snapshots' = [m \in {} |-> Nothing]
  /\ kept' = {} /\ UNCHANGED now

(* A store adds to what is there; one without an end, of a member whose size    *)
(* varies and now is k, writes all of it again.                                *)
Stored(m, S, k) ==
  IF size[m] = 0 /\ MAX \in S THEN [i \in DOMAIN working[m] \cup {j \in S : j < k} |-> now']
  ELSE LET new == {j \in S : size[m] # 0 => j < size[m]}
       IN  [i \in DOMAIN working[m] \cup new |-> IF i \in new THEN now' ELSE working[m][i]]

AfterStores(M, S, k) == [m \in DOMAIN size |-> IF m \in M THEN Stored(m, S, k) ELSE working[m]]

Store(M, S, k) ==
  /\ now' = now + 1
  /\ working' = AfterStores(M, S, k)
  /\ UNCHANGED <<size, snapshots, kept>>

Newer(T, t) == {u \in T : u > t}
Newest(T)   == {t \in T : Cardinality(Newer(T, t)) <= Depth}

Freeze(copies, t) ==
  /\ t \notin kept /\ \A u \in kept : u < t
  /\ kept' = Newest(kept \cup {t})
  /\ working' = [m \in DOMAIN size |-> Nothing]
  /\ snapshots' = [m \in DOMAIN size |-> Within(With(snapshots[m], t, copies[m]), kept')]
  /\ UNCHANGED size

Commit(t) == Freeze(working, t) /\ UNCHANGED now
Checkpoint(S, k, t) == now' = now + 1 /\ Freeze(AfterStores(DOMAIN size, S, k), t)

Delete(t) ==
  /\ t \in kept /\ kept' = kept \ {t}
  /\ snapshots' = [m \in DOMAIN size |-> Without(snapshots[m], t)]
  /\ UNCHANGED <<size, working, now>>

Next ==
  \/ \E m \in Member : (\E n \in Counts : Create(m, n) \/ Resize(m, n)) \/ Drop(m)
  \/ \E S \in Subsets, k \in Lengths :
       \/ \E M \in SUBSET DOMAIN size : Store(M, S, k)
       \/ \E t \in kept' : Checkpoint(S, k, t)
  \/ \E t \in kept' : Commit(t)
  \/ \E t \in kept : Delete(t)
  \/ DropAll

Spec == Init /\ [][Next]_svars
=============================================================================
