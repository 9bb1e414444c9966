------------------------------- MODULE Cohorts -------------------------------
(***************************************************************************)
(* How the in-memory redundancy policy divides a communicator into the      *)
(* cohorts that keep each other's data: IMRGroup::create_cohort, computed   *)
(* by every rank on its own, before the collective creation of cohort_comm. *)
(*                                                                          *)
(* A group outlives the communicator it was created on.  After a recovery   *)
(* group_create computes the cohorts again, on a communicator that is       *)
(* smaller when the spares did not suffice; a survivor still has the rank   *)
(* separation of the first time, a replacement takes it from the policy     *)
(* values, or from the communicator it finds.                               *)
(***************************************************************************)
EXTENDS Integers, FiniteSets, FiniteSetsExt

CONSTANTS
  MaxSize,   \* bound on the size of the first communicator
  MaxSep,    \* bound on the separation the application asks for
  MaxDead,   \* bound on the ranks lost in one recovery
  MaxSpares  \* bound on the spares there are in the beginning

ASSUME CohortsAssumption ==
  MaxSize \in Nat /\ MaxSep \in Nat /\ MaxDead \in Nat /\ MaxSpares \in Nat

VARIABLES
  mode,             \* 1 (buddies) or 5 (parity)
  policy_sep,       \* separation in the policy values; 0 if there are none
  set_size_policy,  \* size of a parity set
  comm_size,        \* size of the group's communicator
  rank_separation,  \* per rank, what its IMRGroup holds
  spares,           \* spares left
  cohort            \* per rank, the cohort it computed; <<>> before DataGroup::init

vars == <<mode, policy_sep, set_size_policy, comm_size, rank_separation, spares, cohort>>

get_rank_sep(sep, size) == IF sep # 0 THEN sep ELSE size \div 2

-----------------------------------------------------------------------------
(***************************************************************************)
(* Mode 1.  Full groups of 2 * sep ranks are paired within; the ranks left  *)
(* over are half before and half after the full groups, and paired.  An odd *)
(* communicator keeps its first, middle and last rank out of this.          *)
(***************************************************************************)
Odd(size)  == size % 2
Mid(size)  == size \div 2
Mini(size, sep) ==
  LET remaining == size - 3 * Odd(size)
  IN  (remaining - (remaining \div (sep * 2)) * sep * 2) \div 2

Start(size, sep)    == Mini(size, sep) + Odd(size)
EndStart(size, sep) == size - Mini(size, sep) - Odd(size)

Normal(r, size, sep) ==
  /\ r >= Start(size, sep) /\ r < EndStart(size, sep)
  /\ Odd(size) = 1 => r # Mid(size)

\* Mutant: the middle rank of an odd communicator is not skipped.
MutForward(r, size, sep) == ((r - Start(size, sep)) \div sep) % 2 = 0

\* The effective rank says whether the partner is after r or before it.
Forward(r, size, sep) ==
  LET e_rank == r - Start(size, sep) - (IF Odd(size) = 1 /\ r > Mid(size) THEN 1 ELSE 0)
  IN  (e_rank \div sep) % 2 = 0

NormalPartner(r, size, sep) ==
  LET after  == r + sep
      before == r - sep
      mid    == Mid(size)
  IN  IF Forward(r, size, sep)
      THEN after + (IF Odd(size) = 1 /\ r < mid /\ after >= mid THEN 1 ELSE 0)
      ELSE before - (IF Odd(size) = 1 /\ r > mid /\ before <= mid THEN 1 ELSE 0)

\* Mutant: the two mini groups are paired like a mirror image.
MutBuddyPartnersMirrored(r, size, sep) ==
  IF Normal(r, size, sep) THEN {NormalPartner(r, size, sep)}
  ELSE IF Odd(size) = 1 /\ r \in {0, Mid(size), size - 1} THEN {0, Mid(size), size - 1}
  ELSE {size - 1 - r}

BuddyPartners(r, size, sep) ==
  LET first == Odd(size)                      \* start of the mini group in front
      last  == EndStart(size, sep)            \* start of the one at the end
      mini  == Mini(size, sep)
  IN  IF Normal(r, size, sep) THEN {NormalPartner(r, size, sep)}
      ELSE IF r >= first /\ r < first + mini THEN {last + r - first}
      ELSE IF r >= last /\ r < size - Odd(size) THEN {first + r - last}
      ELSE {0, Mid(size), size - 1}

\* Mode 5: every sep-th rank, set_size of them.
ParityPartners(r, size, sep, set_size) ==
  LET pos == (r \div sep) % set_size
  IN  {(size + r - sep * (pos - i)) % size : i \in 0 .. set_size - 1}

create_cohort(r) ==
  {r} \cup (IF mode = 1 THEN BuddyPartners(r, comm_size, rank_separation[r])
            ELSE ParityPartners(r, comm_size, rank_separation[r], set_size_policy))

-----------------------------------------------------------------------------
Ranks == 0 .. comm_size - 1

Init ==
  /\ mode \in {1, 5}
  /\ comm_size \in 2 .. MaxSize
  /\ policy_sep \in 0 .. MaxSep
  /\ IF mode = 1 THEN set_size_policy = 0
     ELSE set_size_policy \in 3 .. 4 /\ policy_sep # 0
  /\ rank_separation = [r \in 0 .. comm_size - 1 |-> get_rank_sep(policy_sep, comm_size)]
  /\ spares \in 0 .. MaxSpares
  /\ cohort = <<>>

\* DataGroup::init on every rank.
GroupInit ==
  /\ cohort = <<>>
  /\ cohort' = [r \in Ranks |-> create_cohort(r)]
  /\ UNCHANGED <<mode, policy_sep, set_size_policy, comm_size, rank_separation, spares>>

(***************************************************************************)
(* Some ranks fail.  Spares replace the first of them, in place; the others *)
(* are left out and the ranks after them move down.                         *)
(***************************************************************************)
Recover ==
  /\ \E dead \in SUBSET Ranks :
       /\ Cardinality(dead) \in 1 .. MaxDead
       /\ LET replaced == {r \in dead : Cardinality({q \in dead : q < r}) < spares}
              kept     == Ranks \ (dead \ replaced)
              Old(i)   == CHOOSE r \in kept : Cardinality({q \in kept : q < r}) = i
              size     == Cardinality(kept)
          IN  /\ size >= 2
              /\ comm_size' = size
              /\ rank_separation' =
                   [i \in 0 .. size - 1 |->
                      IF Old(i) \in replaced THEN get_rank_sep(policy_sep, size)
                      ELSE rank_separation[Old(i)]]
              /\ spares' = spares - Cardinality(replaced)
  /\ cohort' = <<>>
  /\ UNCHANGED <<mode, policy_sep, set_size_policy>>

Next == GroupInit \/ Recover

Spec == Init /\ [][Next]_vars

-----------------------------------------------------------------------------
(***************************************************************************)
(* Properties.                                                              *)
(***************************************************************************)

\* "User is responsible for giving values that make sense" in mode 5.
Sensible == mode = 5 => comm_size % (policy_sep * set_size_policy) = 0

(***************************************************************************)
(* The ranks agree on the cohorts, which their collective creation of       *)
(* cohort_comm needs: the cohorts partition the communicator, into pairs    *)
(* and, if it is odd, one trio (mode 1), or into sets of the size asked for *)
(* (mode 5); also after recoveries that left the ranks with different       *)
(* separations.                                                             *)
(***************************************************************************)
CohortsPartition ==
  (cohort # <<>> /\ Sensible) =>
    /\ \A r \in Ranks : cohort[r] \subseteq Ranks /\ \A q \in cohort[r] : cohort[q] = cohort[r]
    /\ IF mode = 5 THEN \A r \in Ranks : Cardinality(cohort[r]) = set_size_policy
       ELSE /\ \A r \in Ranks : Cardinality(cohort[r]) \in {2, 3}
            /\ Cardinality({r \in Ranks : Cardinality(cohort[r]) = 3}) = 3 * Odd(comm_size)

(***************************************************************************)
(* Partners are at least the separation apart (doc/markdown/DataRecovery.md *)
(* has users choose it to keep them on different nodes), or half the        *)
(* communicator if that is less.                                            *)
(***************************************************************************)
PartnersApart ==
  (cohort # <<>> /\ Sensible) =>
    \A r \in Ranks : \A q \in cohort[r] \ {r} :
      LET apart == IF q > r THEN q - r ELSE r - q
      IN  apart >= Min({rank_separation[r], comm_size \div 2})
=============================================================================
