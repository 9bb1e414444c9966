# A TLA+ verification of Fenix

Fenix makes an MPI program survive the loss of processes. It keeps spare ranks,
repairs the communicators after a failure (on top of ULFM MPI: revoke, shrink,
agree), resumes the application, gives lost ranks their data back from copies
that other ranks keep in memory, and replays the messages that a restored rank
has missed. Its hard part is what no test reaches easily: a process that dies at
one particular step of the protocol that handles the death of another.

All paths below are relative to the repository.

## 1. Inventory

| Component | State | Operations | Interacts with |
|---|---|---|---|
| Process recovery (`src/fenix_process_recovery.cpp`) | `procs`, `user_procs`, `spare_procs`, `dead_procs`, `pid_to_rank`, `rank_to_pid`, `world`, `new_world`, `user_world`, role | `Fenix_Init` (`preinit`), error handler `__fenix_test_MPI`, `__fenix_repair_ranks`, `spare_rank_loop`, `detect_failures`, `Fenix_Finalize` | calls callbacks, data and logging components; votes with `commit_barrier` in one agree |
| Settings, exceptions and resumption (`include/fenix_util.hpp`, `src/fenix_util.cpp`, `src/fenix.cpp`) | options, scoped options, scoped active log | resume by jump, return code or exception | every API call |
| Callbacks (`src/fenix_callbacks.cpp`) | lists by location, nesting depth | register, pop, invoke all | error handler |
| Data groups and members (`src/data/{recovery,component,group,member,snapshot}.cpp`) | per group: `timestamp`, `timestamps`, `cohort_comm`; per member: stage, committed and available snapshots, open serializer | group and member create, delete, attributes, stage, store, storev, commit, commit_barrier, checkpoint, repair, restore, load, snapshot_delete | revoked by the error handler; policy below |
| Redundancy (`src/data/policy_imr.cpp`) | partner copy (mode 1) or parity (mode 5) of each snapshot | `create_cohort`, `iprotect`, `repair` | cohort collectives |
| Local policy (`include/fenix/data/policy_local.hpp`) | none of its own | cohort of one | |
| Data subsets (`src/data/subset.cpp`) | strided regions | creation, union, difference, bounds, merge, pack, unpack, datatype | used by members |
| Message logging (`src/logging/`) | per peer: regions, sent messages, indices; per communicator: collectives | begin_region, logged MPI calls, sync, replay, store and restore of the log | error handler, MPI overloads, checkpoints |
| MPI wrappers, tasks, buffers (`src/mpixx/`, `src/data/util/`) | serialized datatypes, buffers | serialize, deserialize, translate ranks, resize | used by data and logging |
| C API, options | - | forwarding | |

What makes each correct, and what is hard about it:

- *Process recovery.* All live ranks of a world must hold the same groups though
  they compute them without talking; a rank keeps its rank; ranks commit or
  finalize together or not at all though they meet recovering ranks in the same
  agree; spares leave in the end. Hard: failures during a repair, during
  `Fenix_Finalize`, and agrees that combine votes from different places.
- *Settings, callbacks.* However deep recoveries nest, the application gets back
  what it left, and each callback has run once for the final communicator. Hard:
  an exception, a `longjmp` and a return code cross the same scopes differently.
- *Data and redundancy.* A snapshot, once committed, is never lost or changed by
  fewer than two failures in a cohort; all ranks of a cohort restore from the
  same one; a repair re-establishes the redundancy; what a load reports as found
  was written. Hard: a local commit done on one buddy only, an interrupted repair,
  snapshots recycled through a pool, many ways of staging mixed on one stage.
- *Cohorts.* Ranks must agree on the partition without communication.
- *Subsets, datatypes.* Region arithmetic must agree with sets of indices. Hard:
  `size_t` that wraps, regions without an end, merging of interleaved repetitions.
- *Message logging.* A restored rank sees the messages and collectives of its
  first life, the others see none twice. Hard: a second failure in the middle of
  the comparison of the logs; ranks that learn of tasks at different times.

`PROJECT.json` lists the hazards one by one, with their lines and properties.

## 2. Modules

| Module | What it is |
|---|---|
| `ProcGroups` | the process groups and `rebuild_proc_groups`, as pure operators |
| `ProcessRecovery` | `Fenix_Init`, failure handling, roles, `commit_barrier`'s vote and `Fenix_Finalize`; extends `ProcGroups` |
| `ProcGroupsProofs`, `ProcessRecoveryProofs` | lemmas and theorems about the two: each process by itself, the groups all agree on, and those a repair leaves: their commits, roles and ranks |
| `Handling` | one rank between an MPI error and the application: handler, callbacks, log synchronisation, resumption |
| `HandlingProofs` | theorems about it |
| `Cohorts` | `IMRGroup::create_cohort` over recoveries that replace and shrink |
| `CohortsProofs` | theorems about it, for every size and separation |
| `BuddyIMR` | group, member and snapshots under redundancy mode 1, on one cohort |
| `BuddyProofs` | theorems about it: the pool, the snapshots under `commit_barrier`, the snapshots under any commit |
| `ParityIMR` | the parity loops of mode 5, byte by byte, on one cohort |
| `ParityProofs` | theorems about it |
| `SnapshotStore` | abstract: what the data recovery of one rank promises |
| `DataStore` | group, members and snapshots of one rank in full; implements `SnapshotStore` |
| `DataStoreProofs` | theorems about its time stamps and pool, for every application; about what it holds and loads, and its refinement of `SnapshotStore`, for one that keeps to the rules |
| `OrderedSets` | lemmas about finite sets of integers, which the proofs about time stamps and cohorts share |
| `Regions`, `Subsets` | `DataRegion` and `DataSubset` as pure operators |
| `Datatypes` | MPI datatypes, their serialization and deserialization |
| `Layouts` | an application that builds subsets and datatypes; extends `Subsets` |
| `MessageProgram` | a deterministic application that logs its messages |
| `ReliableMessages` | abstract: what message logging promises to it |
| `RankLog`, `CollectiveLog` | the log of a pair of ranks, and of the collectives, as pure operators |
| `MessageLog` | the logged calls, failures and `reset_consistency`; implements `ReliableMessages` |
| `MC*` | instances for TLC |

Operators named `Mut...` are deliberate errors: each is what a plausible bug in
one definition would look like, and some property of a run detects it.

The components meet in these places. `ProcessRecovery` shows that a repair leaves
all ranks with one world and that commits are all or none; `BuddyIMR` and `MessageLog`
take that as one step (`Rebuild`, `Repair`, `CommitBarrier`, `Checkpoint`). `Handling`
takes a repair as one step of its rank. `DataStore` takes a subset to be the set of
its elements, which `Layouts` shows of `DataSubset`.

### ProcessRecovery

A process is its pid, its rank in the communicator given to `Fenix_Init`. `pc`
says where it is; labels that name a collective mean *inside it*. A collective
completes in one step once every live member is in it.

| Code | Action |
|---|---|
| loop of `preinit` / `__fenix_repair_ranks`: `shrink`, `rebuild_proc_groups` | `Shrink` |
| `try_build_active_worlds`, up to first agree | `CreateNewWorld` |
| ... second agree, metadata, return to the application | `DupUserWorld` |
| failed MPI call or `detect_failures`, revocation | `DetectFailure`, `SpareRevoked` |
| agree of the error handler, `commit_barrier`, `Fenix_Finalize` | `UserAgree` |
| exit messages, retry agree, last agree | `NotifySpare`, `RetryAgree`, `ReleaseAgree` |
| a spare leaving | `SpareReceive`, `SpareDrain` |

`report` holds what the last repair recorded (`fail_procs`, the role, the groups it
compared); `RoleOf` and `NRanksWithRole` are the queries of `src/fenix.cpp`. A spare
that has never recovered calls itself INITIAL while the others call it SPARE; as
spares do not run the application nobody sees it, and `RolesAgree` is about users.

What is assumed of MPI (external to the repository):

- `MPIX_Comm_agree` gives the same value and error to all live members. A member
  that died inside it may or may not be counted; if one is not counted, the error is
  `MPI_ERR_PROC_FAILED`, and it goes through the communicator's error handler, as
  errors do. (The repository's tests rely on that: `Fenix_Finalize` is expected to
  throw `CommException`.) Under `ScopedIgnoreAndReturn` it is ignored.
- `MPI_Comm_create` and `MPI_Comm_dup` may fail on any subset of the ranks, but
  only if a member is dead.
- exit messages sent before rank 0 enters the retry agree are delivered, though
  rank 0 may die right after (the code says so, `fenix_process_recovery.cpp` 600).
- an active rank survives: if all die at once, nothing can wake the spares.
- the resume mode is THROW, which the API macros set inside Fenix.

The application runs `MaxCommits` commit barriers and then finalizes; a recovered
rank gets its position from a survivor.

### Handling

One rank. `stack` is the stack of calls: the application's call, error handlers,
`callback_invoke_all` and log synchronisations inside them; each frame holds the
settings and the active log that its scoped objects restore. `exc` is an exception
on its way up. A failure may come in the application's call, in a callback or in a
sync, and then opens a handler on top. The application chooses any settings,
callbacks and logs first, then makes `MaxCalls` calls of seven kinds.

How a call comes back decides what its scoped objects do. `Back` is a return or an exception
that has unwound the frames: the destructors have run. `Jump` is the `longjmp` of
`resume_application`, over whatever scoped objects lie between: inside the error handler no
log is active (`fenix_process_recovery.cpp` 443), so after a jump out of it, an ignored error
included, none is. The history variable `wanted` follows, so `ScopesUnwound` says that this is
the only way for an application to lose its active log. A jump out of a Fenix function whose
exception has already unwound the handlers keeps it.

### Cohorts

Every rank computes its cohort from its own `rank_separation`. A group survives
in a survivor with the separation of the first communicator; a replacement takes
the default from the communicator it finds. `Recover` removes and replaces ranks,
`GroupInit` computes the cohorts. One rank alone is left out (the default
separation would be zero, and the code divides by it).

### BuddyIMR

One group with one member, on a cohort of two or three. A snapshot is its own
buffer, the partner's copy and the subsets kept with them; an element's value is
who wrote it, for which timestamp, after how many recoveries. `reset` does what
the code's non-virtual `DataSnapshot::reset` does. Stores have two steps, with
a channel between neighbours; at the timestamps in `Varied` the application calls
`storev`, each rank with its own part, and `ExchangeSubsets` comes between the two.
Commits are local (`Commit`) or all at once
(`CommitBarrier`: that it is all or none is what `ProcessRecovery!CommitsAgree`
shows). A failure is in the cohort or elsewhere; after it `Rebuild` brings
replacements, `SyncTimestamps` and `RepairSnapshot` are the collectives of
`group_create` and `member_restore`, and a further failure may let them complete on
any subset of the ranks. `MPI_ERR_TRUNCATE` aborts the job, as the default
unhandled-error mode does. With `Replays` the application stores for a timestamp
what it stored for it before the failure. A subset is the set of its elements.

### ParityIMR

A byte is the set of unknowns of which it is the exclusive or, so XOR is symmetric
difference and two bytes are equal exactly when they are equal for all contents.
One step is one reduction. Only the newest snapshot is kept, and all ranks commit
together. As in `BuddyIMR` with `Replays`, the application stores for a timestamp
what it stored for it before the failure.

### DataStore and SnapshotStore

One rank, the local policy. Snapshots move between `stage`, `committed` and `avail`
as in `DataMember`; buffers hold, per element, which write put it there, or `Junk`.
Every API call that changes a group is an action: `MemberCreate`, `MemberDefine`,
`MemberAttrSet`, `MemberDelete`, `MemberStage`, `MemberStageInplace`,
`MemberStageBegin`/`End`, `MemberStore`, `MemberStorePrestaged`, `Commit`,
`Checkpoint`, `MemberLoadBegin`/`End`, `SnapshotDelete`, `GroupCreate`,
`GroupDelete`; loads are operators (`MemberLoad`, `MemberRestore`). A call that
throws half-way keeps what it did before it threw.

`SnapshotStore` promises less and says it shorter: a member has a working copy, a
commit freezes all working copies under a new time stamp, the newest `Depth + 1` are
kept. `ImplementsStore` maps the stage to the working copy (stored and staged
elements with their values) and the committed snapshots to themselves.

The properties hold for applications that keep to five rules beyond the documentation.
Each can be dropped from `Rules` in `MCDataStore.cfg` to see what it hides:

| Rule | The application ... | Without it |
|---|---|---|
| `count` | does not change the count of a member created with one, nor after an attempt to stage | pooled snapshots keep the old limit, a buffer that has grown stays: `ImplementsStore` fails, or an assertion (`member.cpp` 208) |
| `fresh` | stages in place only when nothing is staged or stored yet | the buffer is replaced, the subsets stay: `FoundIsReal` fails |
| `sized` | does not `stage_inplace` a resizeable member | `FoundIsReal` fails |
| `growing` | does not shrink a resizeable member between two commits | `FoundIsReal` fails |
| `closed` | does not commit or delete while a serializer is open | `FoundIsReal` fails |

### Regions, Subsets, Datatypes, Layouts

`Regions` and `Subsets` are the algorithms of `subset.cpp`, with `size_t` of 16 bits:
2^16 and 2^64 leave the same remainder modulo each stride up to 10, which is where a
wrapped difference is used. A `std::set` is a set with the order of `operator<`.
`Layouts` keeps the regions next to the plain set of indices they stand for and
applies every operation to both. `Datatypes` describes a datatype by what
`MPI_Type_get_contents` tells of it and a buffer by its values and their widths.
These modules use RECURSIVE operators and are for TLC only.

### MessageProgram, RankLog, CollectiveLog, MessageLog, ReliableMessages

The application is deterministic: in each region a rank calls `begin_region` and a
fixed list of operations, and all ranks take a checkpoint after some regions.
`RankLog` and `CollectiveLog` are `rank_log.cpp` and `comm_log.cpp` as functions of the
log; `MessageLog` has the steps:

| Code | Action |
|---|---|
| `begin_region` | `BeginRegion` |
| `RankLog::send`, `recv`/`irecv`, `wait` | `Send`, `Irecv`, `WaitRecv` |
| `CommLog::collective` | `CollBegin`, `CollReturn` |
| storing the log with the data | `Checkpoint` |
| error handler, `fenix_pre_recovery` | `Raise` |
| repair and the first part of `reset_consistency` | `Repair` |
| `detect_incoming_consistency_request` | `Reply`, `Join` |
| pairwise comparison and replay of messages | `FormPair` |
| reductions and broadcast of `form_consistency` | `FormCollectives` |
| `MPI_Ibarrier` and the loop around it (`comm_log.cpp` 187-198) | `EnterBarrier`, `LeaveBarrier` |
| the assertions after the loop, replay of collectives, return to the interrupted call | `LeaveBarrier` |

`ReliableMessages` says what an application may rely on: an operation returns when
it could have without failures, counting what the other ranks have ever executed;
the ranks that failed, and no others, go back to the checkpoint. `MessageLog` implements it with
`pos`, the furthest position `high`, the position in the checkpoint, and `dead` for the ranks that
have failed and are not replaced. The mode is INLINE_AUTOSYNC; when a sync starts, and what
happens if a failure interrupts it on one rank, is in `Handling`.

The build is the default one, without NDEBUG, so a failing assertion ends the program as a
`fatal_print` does. The operators called `...Fails` (`ResetFails`, `EnsureFails`, `LogSendFails`,
`ReplayFails`, `ResetCommFails`, `ReplayCollFails`, `BeginOpFails`, `LeavingFails`) say when; a
step that meets one sets `fatal`, after which there is no step, and `NoFatal` and
`EveryoneFinishes` fail. Not in the model are the assertions about arguments of the API (a region
below zero, `MPI_ANY_SOURCE`), about codes and requests that MPI returns (`comm_log.cpp` 119,
`rank_log.cpp` 280-291), about the format of a stored log, and those that hold by how the
functions call each other (those on `active_op`, and the checks at `rank_log.cpp` 334-336
that follow the appending of a region, for instance). A rank does not change its number
(`comm_log.cpp` 148): failed ranks are replaced.

## 3. Runs

| Run | Instance | Shows |
|---|---|---|
| `spares` | 2 active ranks + 2 spares, 3 crashes, 1 commit barrier, with fairness | `GroupsWellFormed`, `GroupsAgree`, `SparesAreTail`, `RolesAgree`, `EveryoneFinishes` |
| `survivors` | 3 active ranks + 1 spare, 2 crashes, 1 commit barrier | `RankMapsConsistent`, `CommitsAgree`, `FinalizeIsCollective`, `SurvivorsKeepRank` |
| `handling` | 2 callbacks (one catches its own exceptions), 2 logs, all settings, 3 failures, 2 calls | `ScopesUnwound`, `CallbacksRanOnce`, `LogsSynced`, `UndisturbedIfThrown` |
| `cohorts` | 2 to 12 ranks, separations to 6, 2 spares, 2 dead per recovery | `CohortsPartition`, `PartnersApart` |
| `buddy_trio` | cohort of 3, depth 1, timestamps to 3, storev at 0 and 2, 2 failures, barrier | `SnapshotsRetained`, `RestoredIsCommitted`, `PartnerCopies`, `PoolSuffices` |
| `buddy_pair` | cohort of 2, depth 1, timestamps to 3, 3 failures, local commit | `CommonRetained`, `LatestAgrees` |
| `parity` | cohort of 4, sizes 6, 4, 3, 5, 1, 3 failures | `EvenBytesRestored`, `EvenParityRestored`, `OverrunsByOne` |
| `datastore` | 2 members (one may be resizeable), depth 1, 3 time stamps, 2 writes, 1 open serializer | `FoundIsReal`, `LoadNewest`, `TimestampsAgree`, `PoolExact`, `ImplementsStore` |
| `layouts` | blocks of 1 or 2 elements, up to 3 of them, strides 2 to 4, endless blocks; 3 operations; datatypes 2 deep | `ElementsExact`, `AnswersExact`, `TypesExact` |
| `messages` | 3 ranks, 3 regions, a checkpoint after the first, depth 2, 2 failures | `NoFatal`, `ReceivedInOrder`, `CollectivesAligned`, `ConsistencyCollectivesMatch`, `BarrierLeavesNoTasks`, `ImplementsReliable` |
| `messages_ends` | 3 ranks, 2 regions with messages and collectives, a checkpoint after the first, 2 failures, with fairness | `EveryoneFinishes` |
| `buddy_recycled` | cohort of 2, one element and the other in turn, 1 failure | violates `NoAbort`, below |

What the refinements say: every behaviour of `MessageLog`, failures and all, looks to the
application like one of `ReliableMessages` (`ImplementsReliable`), and every sequence of
data calls like one of `SnapshotStore` (`ImplementsStore`).

Bounds. Three crashes among four processes include: a crash during the repair of
another; both users replaced in one or two repairs; spares that run out (a user and
both spares dead); the second rank 0 dying while it releases the spares. With three
active ranks one failure leaves two survivors, of which one may already be in the
error handler and the other in `commit_barrier` or `Fenix_Finalize`; with two there
would be nobody to disagree with. The invariants of the two runs also hold with 3 active
ranks, 2 spares and 3 crashes. Depth 1 and timestamps to 3 make every snapshot of the
pool come round; two failures interrupt a repair, the third finds what the second left
(`buddy_trio` also passes with three failures and storev at 0 only, 2.4 million states).
Twelve ranks contain all remainders of the sizes by twice a separation up to 6.
Parity sizes cover every remainder by three partners, and a size below the number
of partners. In `handling` three failures nest a recovery in a callback of a recovery in a
call, or in a sync, and two calls let the second find what the first left behind. Three
operations on subsets reach a difference of a union that was itself merged. Three regions
with depth 2 make the oldest drop out of the log, and let two ranks be a region ahead of
the third; no rank gets further behind than the log reaches back, which is documented to end
in a `fatal_print`. The runs on messages have failures after the first checkpoint only: what
an earlier one can do is in the rows on `CollectiveRegionKnown` and `ConsistencyCollectivesMatch`
below. `datastore` has time stamps for a commit that trims and one after it, and two
writes so that each of the ways of staging meets each other.

The system may really stop in `Cohorts` (two ranks and no spares), in `Handling` (aborted,
or out of calls), and the applications of `Layouts` and `DataStore` end with their bounds;
elsewhere deadlock is checked.

Fairness. `FairSpec` of `ProcessRecovery` has weak fairness of each process's own steps: a
live process runs, and a collective that all live members have entered completes, which
is what ULFM promises of agree and shrink. `MessageLog` has weak fairness of `Progress`:
as long as some live rank can take a step, one is taken, which is the least that a
running MPI program does. Failures are not fair. `EveryoneFinishes` rests on it and on the
application reaching its end. Of messages it is checked for an application with collectives that
has taken a checkpoint before anything fails; it holds too of `MCChain`, which has messages only, with
`CkptAfter = {0}` and two failures, and is false of `MCChain` without a checkpoint, for the reason
that `CollectiveRegionKnown` gives below.

### Where code and documentation disagree

`buddy_recycled`: `reset` leaves the partner subset of a recycled snapshot. If an
application stores different subsets for different timestamps, a repair after one
failure sends more than is expected, and the job aborts.

The following definitions state what a comment, an assertion or the documentation says
and the code does not do. They belong to no passing run; TLC finds a counterexample in
the instance given (everything else as in the cfg named).

| Statement | Instance | What happens |
|---|---|---|
| `CommitProceeds` (`fenix.h` on `commit_barrier`) | `MCSpares.cfg`, as a PROPERTY | the agree inside `commit_barrier` raises the failure in the error handler, whose exception skips the commit. No rank commits, so the state stays consistent |
| `FinalizeRetries` (`fenix.h` on `Fenix_Finalize`) | `MCSurvivors.cfg`, as a PROPERTY | the `ScopedOption` that would keep a rank in the function is an unnamed temporary |
| `RestoredIsCommitted` (`fenix.h` 964) | `MCBuddyRecycled.cfg` with `Replays = FALSE`, `MaxTime = 1`, `MaxFails = 2` | the stage of a survivor is not emptied by a recovery (`policy_imr.cpp` 263); if the application then stores another subset, a later replacement restores elements that were never committed |
| `BytesRestored` | `MCParity.cfg` | if the size is not a multiple of the cohort size minus one, the repair of a rank late in the cohort zeroes one byte |
| `ConsistencyCollectivesMatch` (`comm_log.cpp` 195) | `MCMessageLog.cfg` with `MaxFailures = 1`, `EarlyFailures = 1` | a replacement without collective regions enters the barrier before it learns that the others reduce |
| `NoFatal` (`fenix.h` 1468) | `MCMessageLog.cfg` with `Program <- MCLatePartner`, `MaxFailures = 1` | a replacement whose partner first talked to it two regions after the checkpoint ends with "missing logs", though nothing is missing (`rank_log.cpp` 130) |
| `CollectiveRegionKnown` (`comm_log.cpp` 361) | `MCMessageLog.cfg` with `Program <- MCChain`, `CkptAfter = {}`, `MaxFailures = 1`, `EarlyFailures = 1` | `reset_consistency` forms consistency of collectives only "if we have any collective logs" (177); a replacement that begins with an empty log, while no rank has called a collective, has no region of collectives and gets none. The assertion of `replay_collectives` ends the job; with NDEBUG the next line returns and nothing is lost |
| `FirstMessageInNewRegion` (`rank_log.cpp` 342) | `MCMessageLog.cfg` with `Program <- MCEarlyReply` | a rank without messages to its partner replies to the comparison of logs with a marker, its active region without counts (161). If a second failure interrupts the exchange and takes the rank that asked, whose checkpoint knows nothing of that partner, nobody asks again, the marker stays, and the first message of the two in that region fails the assertion of `append_region` |
| `SyncedOnce` (`fenix_callbacks.cpp` 93-95 says it of callbacks) | `MCHandling.cfg` with one callback, which does not catch, one log, `MaxFailures = 2`, `MaxCalls = 1` | a recovery nested in the callbacks synchronises the logs, and the outer one does it again, alone (`fenix_process_recovery.cpp` 535) |
| `Undisturbed` (`fenix.h` 231) | the same with `MaxFailures = 1` | inline recovery works by catching the exception, so it does nothing when the application resumes by jump or return code |
| `StridesAgree` (`subset.cpp` 98-99) | `MCLayouts.cfg` with `Simple <- Few`, `MaxOps = 4`, `MaxDepth = 0` | regions of two strides meet after a few operations, the assertion aborts |
| `AnswersExact` for `createv` with blocks that share an element | `MCLayouts.cfg` with `Vectors <- Pairs`, `MaxOps = 1` | the element is in two regions: `[0,0]` and `[0,1]` |
| `ElementsExact` for the same | the same | if the second block begins where the first ends, the difference of minus one wraps to a multiple of the stride `MAX`, and `merge_regions` (`subset.cpp` 473) moves the start back by one: `[1,3]` and `[3,5]` become `[0,5]` |

Two limits of the local commit, not disagreements: in a cohort of three a failure
can find a snapshot on one rank only, which is then unrecoverable for the others
(so `LatestAgrees` is checked for pairs); and timestamps that only a lost rank had
committed can stay known to the group without a snapshot (so `SnapshotsRetained`
is checked with the barrier).

Met while reading, not checked:

- a failed first commit uses up a timestamp, so the first successful one is
  `timestart + 1` (`recovery.cpp` 278; `TimestampsAgree` holds all the same);
- `member_load` passes RESTORE_FULL, so there is no PARTIAL_RESTORE warning for a prefix, which
  `fenix.h` 1056-1062 describes; `data_found` is not bounded by `target_count`; the C API
  does not fill `found_data` when the warning is thrown;
- `attr_set` of the datatype compares `MPI_Type_size` with an extent (`member.cpp` 585-594);
- `snapshot_delete` of the API rejects LATEST and ALL, which `group.cpp` handles;
- a depth of -1 is accepted; an empty store of a resizeable member fails an assertion of
  `add_and_fit`;
- `fenix.h` 453-455 says callbacks run in reverse order of registration, the code runs them in
  order; `util::ScopedActiveMlog(FENIX_MLOG_NONE);` (`fenix_callbacks.cpp` 108) is an
  unnamed temporary; a callback that registers callbacks invalidates the loop's iterator;
- `to_datatype` casts `size_t` to `int` (`subset.cpp` 839-840);
- `OMmapStreamBuf::overflow` writes through the old put pointer after the mapping may have
  moved (`mstream.cpp` 84-95; `seekoff` takes care of it);
- after a communicator has shrunk, cohorts have other members than when the data was
  stored: a complete cohort skips the repair, and a replacement is given its right
  neighbour's partner copy, whoever it belongs to (`policy_imr.cpp` 286).

## 4. Proofs

All are for any number of processes, spares, crashes, calls, logs, callbacks, bytes and
partners. The assumptions are those the modules declare for their constants, and TLC
evaluates them on every run.

| Module | Theorems (property) | Assumes |
|---|---|---|
| `ProcessRecoveryProofs` | `TypeCorrect` (`TypeOK`), `GroupsStayWellFormed` (`GroupsWellFormed`), `SparesLast` (`SparesAreTail`), `RankMapsStayConsistent` (`RankMapsConsistent`), `EveryoneSeesTheSameGroups` (`GroupsAgree`), `FinalizeCollectively` (`FinalizeIsCollective`), `CommitsNeverDiverge` (`CommitsAgree`), `RolesAreRight` (`RolesAgree`), `RanksAreKept` (`SurvivorsKeepRank`, an action property) | `ProcsAssumption`: fewer spares than processes; `BoundsAssumption`: naturals |
| `HandlingProofs` | `ScopesAlwaysUnwound` (`ScopesUnwound`), `CallbacksAlwaysRunOnce` (`CallbacksRanOnce`), `LogsAlwaysSynced` (`LogsSynced`), `LoggedCallsSucceed` (`UndisturbedIfThrown`) | `HandlingAssumption`: bounds are naturals |
| `CohortsProofs` | `CohortsAlwaysPartition` (`CohortsPartition`), `PartnersAlwaysApart` (`PartnersApart`) | `CohortsAssumption`: bounds are naturals |
| `BuddyProofs` | `PoolAlwaysSuffices` (`PoolSuffices`), `CommonAlwaysRetained` (`CommonRetained`) | `BuddyAssumption`: a cohort of two or three, the rest finite sets and naturals |
| | `SnapshotsAlwaysRetained` (`SnapshotsRetained`), `RestoredIsAlwaysCommitted` (`RestoredIsCommitted`), `PartnerAlwaysCopies` (`PartnerCopies`) | the same, and `Covers`, below |
| | `LatestAlwaysAgrees` (`LatestAgrees`) | the same, and a cohort of two |
| `ParityProofs` | `ChunksFit` (`OverrunsByOne`), `ParityRebuildsBytes` (`EvenBytesRestored`), `ParityRebuildsParity` (`EvenParityRestored`) | `ParityAssumption`: a cohort of at least 3, sizes are naturals |
| `DataStoreProofs` | `AlwaysTimestampsAgree` (`TimestampsAgree`), `AlwaysPoolExact` (`PoolExact`) | `DataStoreAssumption`: sizes are naturals, subsets are sets of indices, some length exists |
| | `AlwaysFoundIsReal` (`FoundIsReal`), `AlwaysLoadNewest` (`LoadNewest`), `StoreImplemented` (`ImplementsStore`, the refinement) | the same, and `Obedient`: the five rules, and no empty store of a resizeable member, which aborts |

`ProcGroupsProofs` holds the lemmas about the operators of `ProcGroups`, `OrderedSets` those
about the order of a finite set of integers. Every safety property of every passing run but
those of `layouts` and `messages` is so a theorem. No property is inductive as it stands; what
each proof adds is this.

*The groups.* `IInv == TypeOK /\ GroupsWellFormed`. That a rebuilt user list is a list
of processes needs that the spares it draws on are in the world and not yet users, and
the tail property needs an order: no process holds two user ranks, users and spares make up
the world, every spare has a higher pid than every user. And the communicator being
shrunk holds no live process outside the last world, so that a retried shrink shrinks
further. The lemmas are about the enumeration of a finite set of integers (`NthExists`,
`NthOfIndex`), what replacement gives (`ReplacementFacts`, `RebuiltUsersFacts`), preservation
(`RebuildWellFormed`) and `WellFormedTail`. Spares are used from the lowest pid up, which is
why the order survives. The rank maps need in addition that an increasing enumeration of the
ranks still held is the list of users (`IncreasingOnto`, `RebuildMapsConsistent`).

*Agreement.* The groups are computed without talking, so what has to be invariant is that
the inputs were the same. `View`: the live processes are never divided, each is in the world of
every other and in the one that will be shrunk next, so all compute the same (`OneView`); where two
of them can be at once (`Lockstep`); that a user world holds the live users of the groups
(`UserWorlds`); and that an epoch is revoked only by a user that waits in the error handler, or
died there (`Revocation`). The last is what makes the agree sound that `commit_barrier`, the
error handler and `Fenix_Finalize` share: nobody can leave it for the end of `Fenix_Finalize` when
the world it is in has been revoked.

*Survivors.* `Past` adds history: who has served in a user world is no spare again, all who have
hold the same number of commits, and the users recorded at the start of a repair are those
who have served, on whichever process, a late spare included (`History`); what the last repair
recorded is the same everywhere and true (`RightReports`); and a repair that is under way, through
any number of interrupted shrinks, has nobody who served among its spares and leaves those
that are left in their old places, as long as no rank was dropped (`PlacesKept`).

*Handling.* `HInv` describes the stack of calls: which can lie on which (`Shape`); that each
saved the settings that were in force in the call below it (`Scopes`); that only the outermost
`callback_invoke_all` has layer 0 and only the innermost call can be the most recent one (`Layers`);
that the callbacks have run up to the position of the most recent round, or all of them
(`Recent`); and that all logs are synchronised or the handler of the last repair is still to
synchronise them (`Syncing`). There is one lemma for each action: opening a handler
anywhere, and returning, throwing and jumping through each kind of call. The active log has an
invariant of its own, `LogsKept`, proved on top of `HInv`: none is active above a handler or in a check
for failures, elsewhere that of the application (`LogInForce`), and each handler activates
what was active below it. So every jump out of a handler is made with none active, and
`ScopesAlwaysUnwound` follows from the two together.

*Cohorts.* The invariant, `Steady`, is short: every rank has the separation asked for, or, if
none was, at least half the communicator (`Suits`). The second is why ranks may differ: a survivor
still has half of a larger communicator, a replacement half of this one, and both cut it into
the same two halves (`LargeSeparations`, `OneSeparation`). The work is in the operators. That
`create_cohort` gives a partition comes from this: but for one trio, every rank has one partner, and is
that partner's (`Buddies`). It needs quotients and remainders by twice the separation, counted
past the middle rank of an odd communicator, which is left out (`BuddyShape`, `Blocks`); the
first, middle and last rank of that are the trio. Mode 5 divides the communicator into columns
(`ParityColumns`, `OneColumnWidth`).

*The pool of the buddies.* `Steady` (of `BuddyProofs`) counts: committed and available snapshots
are `2 * (Depth + 1)` together, no rank has committed more than `Depth + 1` or knows of more
time stamps, and in a repair no rank holds a snapshot the others do not look at. So a repair
that is cut short at any turn on any ranks, and begun anew on another set of time stamps, never
runs out; which needs that the elementwise maximum of the padded vectors, whatever they are, has no
more than `Depth + 1` members (`SyncedFacts`).

*Snapshots under `commit_barrier`.* `Secure == \E now : Sound(now)`. There is one newest time
stamp, `now`; a rank is at it, or is a replacement that knows of none, or died between storing and
the barrier (`Times`). Each rank holds a newest part of the last `Depth + 1` (`Held`). Messages in
transit are what their receiver will unpack (`Flow`). A snapshot and its copy agree with each
other and with the ghost `truth` (`Copied`), and after each turn of a repair on all ranks no time stamp
is missed by one rank alone (`Repairing`); as only one rank has been lost (`Retained`), none is missed.
The hypothesis is `Covers`: commits are with the barrier, a time stamp stored again is stored as before,
and a store covers the subset that was stored `Depth + 2` time stamps ago. The last is there
because `reset` leaves the partner subset of a recycled snapshot, and the snapshot that is stored at `t`
comes round at `t + Depth + 2`; without it the theorem is false, as `buddy_recycled` shows. The
usual application, which stores one subset over and over, meets it (`OneSubsetCovers`, a lemma),
and so does the instance of `buddy_trio`.

*Snapshots under any commit.* `Common` needs no hypothesis, as it only follows which snapshots
there are. What a rank that was not lost has committed it still holds, unless it is too old or
another rank has not got it and never will (`Remembered`, `Gone`); the time stamps a rank
knows are exactly the last `Depth + 1` up to its own (`Dated`), so their synchronisation gives the
last of the rank that is furthest (`SyncedWindow`); a repair works on one set of them and leaves none to
be missed by one rank alone (`Mending`). Between two buddies that is: none is missed by either but by
both, so they hold the same after a repair, and then commit in turn (`Level`). In a trio `LatestAgrees`
is false (section 3).

*Parity.* `PInv` follows the turns of a store and of a repair: after a turn, the bytes that were
reduced in it and the parity they made cancel (`Storing`, `Secured`), and a rank that is being
repaired has its own bytes back up to its position and zeros after it (`Holding`, `Rebuilding`).
It rests on lemmas about chunks: what a rank has given before a turn, that these positions
advance by a chunk at each turn but the rank's own and fit its buffer (`ChunkFacts`, `PassedFacts`,
`PositionFacts`, `ChunkFits`), and on the one about XOR that solves for a missing member
(`XorSolves`). That bytes come back when the size divides evenly is all that can be proved: for
other sizes `BytesRestored` is false (section 3).

*The data store.* `DInv` holds for every application, rules kept or not: types (`Typed`),
the pool and the committed snapshots of a member are `Depth + 1` together and the pooled
ones blank (`Pool`), and a member has the newest of the group's time stamps, a final segment
of them (`Newest`). Group and member trim separately; that they trim alike needs that a
final segment of a set of `Depth + 1` is all of it or does not hold its oldest
(`CommittedFacts` and what follows). What a snapshot holds needs the rules. `SInv` says of
each member that it is `Sound`: what its snapshots claim is written, no buffer outgrows its
limit, and all its snapshots, pooled ones included, have the same limit, which is the count
unless that is still open (`Uniform`). It rests on one lemma for each way of staging
(`FitReal`, `InplaceFacts`, `StageEndFacts`). `AlwaysLoadNewest` follows from it without
another step: the newest snapshot that holds an element is among those the loop visits.

*The refinement.* `StoreImplemented` is proved call by call. A call on one member is a step
of the promised store on its working copy (`InplaceStep`, `StageEndStep` and the like),
`checkpoint` one store of all members that are reached and, if that is all, a freeze
(`FreezeStep`); opening and closing serializers are stutters. It needs a third invariant,
that the order of creation lists each member once (`Ordered`), because a checkpoint that
goes through all of the order must have stored all members.

Trying to prove it found a rule that was too weak: `count` allowed a resizeable member whose
buffer had grown in an attempt to stage nothing to be given a smaller count; the next stage
fails an assertion. It takes three counts of one member, one more than the run gives it; the
rule now says so.

Only model-checked, and why:

- liveness (`EveryoneFinishes`, of recovery and of messages) and deadlock: outside TLAPS;
- everything about `Subsets` and `Datatypes`: their algorithms are recursive, and an induction
  over data is outside TLAPS;
- `MessageLog`: what its properties say depends on the application that is the constant
  `Program`, and on when failures come. They are false of some programs and some failures (the
  rows on `NoFatal` and `ConsistencyCollectivesMatch` in section 3), so there is no theorem for
  every value of the constants, and a hypothesis that rules those out would be on behaviours, not
  on constants.

## 5. What could come next

1. `MessageLog`: a condition on programs under which no partner is late (each pair of ranks
   exchanges a message before the first checkpoint, say), checked by TLC over all small programs first.
2. `BuddyIMR` with a separation that changes when the communicator shrinks, which joins it with
   `Cohorts` (see the end of section 3).
3. The loops of `Subsets` as folds, whose step can be proved to keep the set of indices.

## 6. Not modelled

- C API wrappers and option parsing: forwarding, no state.
- The thin MPI wrappers, coroutine tasks and memory-mapped streams: their effect is in the
  steps that use them; addresses are below the level of the model.
- Redundancy for several members at once, and cohorts that change their members
  after a shrink, together with the data (see the end of section 3).
- SPAWN recovery (not implemented in the code), MANUAL and INLINE log recovery as runs of their
  own: they differ from INLINE_AUTOSYNC in who calls `sync`, which `Handling` has.
- A single rank under in-memory redundancy, which divides by zero.
