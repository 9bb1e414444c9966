------------------------- MODULE MCProcessRecovery -------------------------
(***************************************************************************)
(* Small instances of ProcessRecovery for TLC, and two statements of the    *)
(* API documentation that the code does not keep.                           *)
(***************************************************************************)
EXTENDS ProcessRecovery

(***************************************************************************)
(* fenix.h on Fenix_Data_commit_barrier: "The commit will proceed if all    *)
(* non-failed ranks reach the barrier."  A step that takes a process out of *)
(* the agree of commit_barrier, when every live member of its user_world is *)
(* in that agree, commits.                                                  *)
(***************************************************************************)
CommitProceeds ==
  [][\A p \in alive :
       (/\ pc[p] = "commit" /\ pc'[p] # "commit"
        /\ \A q \in SeqSet(user_world[p]) \cap alive : pc[q] = "commit")
       => commits'[p] = commits[p] + 1]_vars

(***************************************************************************)
(* fenix.h on Fenix_Finalize with inline recovery: "a rank will not leave   *)
(* this function until success".  The model covers that mode: the           *)
(* ScopedOption meant to make the error handler return is a temporary, gone *)
(* before the MPI_Barrier it is for, so the handler throws in both modes.   *)
(***************************************************************************)
FinalizeRetries ==
  [][\A p \in alive : (api[p] = "Finalize" /\ api'[p] = "none") => pc'[p] = "done"]_vars
=============================================================================
