------------------------------ MODULE ParityIMR ------------------------------
(***************************************************************************)
(* The parity member (mode 5) of the in-memory redundancy policy, on the N  *)
(* ranks of one cohort: the loop of reductions with which a store computes  *)
(* the parity of the cohort's bytes, and the one with which a repair        *)
(* rebuilds the bytes and the parity of a lost rank.                        *)
(*                                                                          *)
(* A byte is the set of the unknowns whose exclusive or it is, so that      *)
(* MPI_BXOR is the symmetric difference, zero is {} and a byte that the     *)
(* application wrote is the singleton of an unknown of its own.             *)
(***************************************************************************)
EXTENDS Integers, Sequences, FiniteSets

CONSTANTS
  N,          \* size of the cohort
  Size,       \* bytes of the member
  StoreSizes, \* bytes up to the end of the subset stored for each timestamp, in turn
  MaxStores,  \* bound on the commits
  MaxFails    \* bound on the failures

ASSUME ParityAssumption ==
  /\ N \in Nat /\ N >= 3 /\ Size \in Nat /\ MaxStores \in Nat /\ MaxFails \in Nat
  /\ StoreSizes \in Seq(1 .. Size) /\ StoreSizes # <<>>

Ranks == 0 .. N - 1

VARIABLES
  phase,      \* "app", "protect", "stored" or "repair"
  stage,      \* per rank: the stage snapshot
  snap,       \* per rank: the committed snapshot
  held,       \* the ranks that have the committed snapshot
  root,       \* index of the loop over parity_bytes
  offset,     \* per rank: its position in the loop
  commits,    \* number of commits
  failed,     \* ranks that are dead and not yet replaced
  broken,     \* a failure, here or elsewhere, has interrupted the cohort
  fails,      \* number of failures
  truth       \* ghost: the snapshots as they were committed

vars == <<phase, stage, snap, held, root, offset, commits, failed, broken, fails, truth>>

\* The number of bytes the snapshot now stored has, and the one committed last.
StoreBytes(n) == StoreSizes[(n % Len(StoreSizes)) + 1]
SnapBytes     == StoreBytes(commits - 1)

\* Mutant: with a remainder, all ranks take one byte more.
MutParityBytesUp(bytes) ==
  [i \in Ranks |-> bytes \div (N - 1) + IF bytes % (N - 1) # 0 THEN 1 ELSE 0]

(***************************************************************************)
(* prepare_for_parity: the length of each rank's parity.  If there is a     *)
(* remainder one more rank takes an extra byte, since those that do miss    *)
(* one byte of protection.                                                  *)
(***************************************************************************)
ParityBytes(bytes) ==
  LET remainder == IF bytes % (N - 1) = 0 THEN 0 ELSE (bytes % (N - 1)) + 1
  IN  [i \in Ranks |-> bytes \div (N - 1) + IF i < remainder THEN 1 ELSE 0]

\* Exclusive or of one byte of each rank.
Xor(byte) == {u \in UNION {byte[q] : q \in Ranks} :
                Cardinality({q \in Ranks : u \in byte[q]}) % 2 = 1}

\* A snapshot is its buffer's size and bytes, and the parity bytes.
Zeros(n)        == [k \in 0 .. n - 1 |-> {}]
Leftover(r)     == [size |-> Size, data |-> [k \in 0 .. Size - 1 |-> {<<r, k, -1>>}],
                    parity |-> <<>>]

-----------------------------------------------------------------------------
(***************************************************************************)
(* One turn of the loop, the same in iprotect and in repair.                *)
(***************************************************************************)

\* The chunk of rank r would overrun its buffer.
Overruns(s, r, len) == r # root /\ offset[r] + len > s.size

\* Start of the chunk: moved back by a byte if it would overrun.
Input(s, r, len) == IF Overruns(s, r, len) THEN offset[r] - 1 ELSE offset[r]

\* The k-th byte that rank r gives to the reduction.
Given(s, r, len, k) == IF r = root THEN s.parity[k] ELSE s.data[Input(s, r, len) + k]

\* What the reduction delivers: len bytes.
Reduced(snaps, len) ==
  [k \in 0 .. len - 1 |-> Xor([q \in Ranks |-> Given(snaps[q], q, len, k)])]

\* Snapshot s of rank r after the bytes have been written over its own input.
Written(s, r, len, bytes) ==
  IF r = root THEN [s EXCEPT !.parity = [k \in DOMAIN @ |-> IF k < len THEN bytes[k] ELSE @[k]]]
  ELSE LET at == Input(s, r, len)
       IN  [s EXCEPT !.data = [k \in DOMAIN @ |-> IF k >= at /\ k < at + len THEN bytes[k - at]
                                                  ELSE @[k]]]

NextOffset(snaps, len) ==
  [q \in Ranks |-> IF q = root THEN offset[q] ELSE Input(snaps[q], q, len) + len]

StartLoop == root' = 0 /\ offset' = [q \in Ranks |-> 0]

-----------------------------------------------------------------------------
Init ==
  /\ phase = "app"
  /\ stage = [r \in Ranks |-> Leftover(r)] /\ snap = stage
  /\ held = {}
  /\ root = 0 /\ offset = [q \in Ranks |-> 0]
  /\ commits = 0
  /\ failed = {} /\ broken = FALSE /\ fails = 0
  /\ truth = stage

\* Mutant: the parity is not set to zero before it is computed.
MutStore ==
  LET bytes == StoreBytes(commits)
  IN  /\ phase = "app" /\ ~broken /\ commits < MaxStores
      /\ stage' = [r \in Ranks |->
                     [size   |-> Size,
                      data   |-> [k \in 0 .. Size - 1 |-> {<<r, k, IF k < bytes THEN commits ELSE -1>>}],
                      parity |-> [k \in 0 .. ParityBytes(bytes)[r] - 1 |-> {<<r, k, -2>>}]]]
      /\ phase' = "protect"
      /\ StartLoop
      /\ UNCHANGED <<snap, held, commits, failed, broken, fails, truth>>

\* member_store up to the loop: stage the bytes, size the parity and set it to zero.
Store ==
  LET bytes == StoreBytes(commits)
  IN  /\ phase = "app" /\ ~broken /\ commits < MaxStores
      /\ stage' = [r \in Ranks |->
                     [size   |-> Size,
                      data   |-> [k \in 0 .. Size - 1 |-> {<<r, k, IF k < bytes THEN commits ELSE -1>>}],
                      parity |-> Zeros(ParityBytes(bytes)[r])]]
      /\ phase' = "protect"
      /\ StartLoop
      /\ UNCHANGED <<snap, held, commits, failed, broken, fails, truth>>

\* One reduction of iprotect, into the parity of the rank that is root.
Protect ==
  LET len == ParityBytes(StoreBytes(commits))[root]
  IN  /\ phase = "protect" /\ ~broken
      /\ stage' = [stage EXCEPT ![root] = Written(@, root, len, Reduced(stage, len))]
      /\ offset' = NextOffset(stage, len)
      /\ IF root = N - 1 THEN phase' = "stored" /\ UNCHANGED root
         ELSE root' = root + 1 /\ UNCHANGED phase
      /\ UNCHANGED <<snap, held, commits, failed, broken, fails, truth>>

\* The barrier commits the stage on every rank.
Commit ==
  /\ phase = "stored" /\ ~broken
  /\ snap' = stage /\ truth' = stage
  /\ held' = Ranks
  /\ commits' = commits + 1
  /\ phase' = "app"
  /\ UNCHANGED <<stage, root, offset, failed, broken, fails>>

\* A rank of the cohort fails, or one elsewhere.
Fail ==
  /\ fails < MaxFails
  /\ \E dead \in SUBSET Ranks : Cardinality(dead) <= 1 /\ failed' = failed \cup dead
  /\ broken' = TRUE
  /\ fails' = fails + 1
  /\ UNCHANGED <<phase, stage, snap, held, root, offset, commits, truth>>

\* Mutant: the recovering rank's bytes are not set to zero.
MutCleared(r) ==
  [size |-> SnapBytes, data |-> [k \in 0 .. SnapBytes - 1 |-> {<<r, k, -1>>}],
   parity |-> Zeros(ParityBytes(SnapBytes)[r])]

\* The snapshot a recovering rank starts from: reset, sized and set to zero.
Cleared(r) ==
  [size |-> SnapBytes, data |-> Zeros(SnapBytes), parity |-> Zeros(ParityBytes(SnapBytes)[r])]

(***************************************************************************)
(* Process recovery, group_create and the beginning of repair: nothing to   *)
(* do if no rank misses the snapshot, and nothing can be done for two: they *)
(* stay without it until the next commit.                                   *)
(***************************************************************************)
Recover ==
  LET missing == Ranks \ (held \ failed)
  IN  /\ broken
      /\ broken' = FALSE /\ failed' = {}
      /\ held' = held \ failed
      /\ IF Cardinality(missing) # 1 THEN phase' = "app" /\ UNCHANGED <<snap, root, offset>>
         ELSE /\ phase' = "repair"
              /\ snap' = [r \in Ranks |-> IF r \in missing THEN Cleared(r) ELSE snap[r]]
              /\ StartLoop
      /\ UNCHANGED <<stage, commits, fails, truth>>

\* One reduction of repair, into the recovering rank.
Repair ==
  LET len        == ParityBytes(SnapBytes)[root]
      recovering == CHOOSE r \in Ranks : r \notin held
  IN  /\ phase = "repair" /\ ~broken
      /\ snap' = [snap EXCEPT ![recovering] = Written(@, recovering, len, Reduced(snap, len))]
      /\ offset' = NextOffset(snap, len)
      /\ IF root = N - 1 THEN phase' = "app" /\ held' = Ranks /\ UNCHANGED root
         ELSE root' = root + 1 /\ UNCHANGED <<phase, held>>
      /\ UNCHANGED <<stage, commits, failed, broken, fails, truth>>

\* The application has made all its commits.
Finished ==
  /\ phase = "app" /\ commits = MaxStores /\ ~broken
  /\ UNCHANGED vars

Next == Store \/ Protect \/ Commit \/ Fail \/ Recover \/ Repair \/ Finished

Spec == Init /\ [][Next]_vars

-----------------------------------------------------------------------------
(***************************************************************************)
(* Properties.                                                              *)
(***************************************************************************)

(***************************************************************************)
(* A snapshot a rank holds has the bytes that were committed, also when it  *)
(* was lost, any number of times, and rebuilt from the others:              *)
(* doc/markdown/DataRecovery.md has it that data is unrecoverable if two    *)
(* ranks fail before recovery operations have completed, not if one does.   *)
(***************************************************************************)
BytesRestored ==
  \A r \in held : \A k \in 0 .. SnapBytes - 1 : snap[r].data[k] = truth[r].data[k]

Even == SnapBytes % (N - 1) = 0

(***************************************************************************)
(* What does hold: the bytes of every rank are rebuilt when their number is *)
(* a multiple of the number of partners, also if the repair was interrupted *)
(* and started again.                                                       *)
(***************************************************************************)
EvenBytesRestored == Even => BytesRestored

\* ... and so is the parity, so that another rank of the cohort may fail next.
EvenParityRestored == Even => \A r \in held : snap[r].parity = truth[r].parity

(***************************************************************************)
(* The assertions of iprotect and repair: a chunk overruns the buffer by    *)
(* one byte at most.                                                        *)
(***************************************************************************)
OverrunsByOne ==
  /\ phase = "protect" =>
       LET len == ParityBytes(StoreBytes(commits))[root]
       IN  \A r \in Ranks : Overruns(stage[r], r, len) => offset[r] + len = stage[r].size + 1
  /\ phase = "repair" =>
       LET len == ParityBytes(SnapBytes)[root]
       IN  \A r \in Ranks : Overruns(snap[r], r, len) => offset[r] + len = snap[r].size + 1
=============================================================================
