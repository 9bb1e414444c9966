-------------------------- MODULE ReliableMessages --------------------------
(***************************************************************************)
(* What message logging promises to the application.  The ranks that have  *)
(* failed go back to the last checkpoint, and only they.  An               *)
(* operation returns when, without failures, it could have: a receive once *)
(* the matching send has been executed at least once, a collective once    *)
(* the ranks it waits for have executed it at least once.  Nothing is      *)
(* sent, received or waited for twice, and nobody else rolls back.         *)
(***************************************************************************)
EXTENDS MessageProgram

VARIABLES pos,    \* pos[r]: where rank r is in its program
          high,   \* high[r]: the furthest it ever was
          saved,  \* its position in the last checkpoint
          failed  \* ranks that have failed and are not replaced yet

vars == <<pos, high, saved, failed>>

Init ==
  /\ pos = [r \in Rank |-> Start]
  /\ high = [r \in Rank |-> Start]
  /\ saved = [r \in Rank |-> Start]
  /\ failed = {}

Advance(r, p) ==
  /\ r \notin failed
  /\ pos' = [pos EXCEPT ![r] = p]
  /\ high' = [high EXCEPT ![r] = IF Earlier(@, p) THEN p ELSE @]
  /\ UNCHANGED <<saved, failed>>

(* The other ranks have done their part of the operation at pos[r]. *)
Ready(r) ==
  LET o == OpAt(r, pos[r]) IN
  CASE o.op = "recv" -> RecvsBefore(r, o.peer, pos[r]) < SendsBefore(o.peer, r, high[o.peer])
    [] o.op = "send" -> TRUE
    [] OTHER -> \A q \in Awaited(r, o) \ {r} : CollsBefore(r, pos[r]) < CollsBefore(q, high[q])
                                            \/ (AtOp(q, high[q]) /\ IsColl(OpAt(q, high[q])) /\
                                                CollsBefore(r, pos[r]) = CollsBefore(q, high[q]))

Operation(r) == AtOp(r, pos[r]) /\ Ready(r) /\ Advance(r, Following(pos[r]))

BeginRegion(r) ==
  Begins(r, pos[r]) \in Region /\ Advance(r, [reg |-> Begins(r, pos[r]), k |-> 1])

Checkpoint ==
  /\ failed = {}
  /\ \E reg \in CkptAfter : \A r \in Rank : AtEndOf(r, pos[r], reg)
  /\ pos' = [r \in Rank |-> [reg |-> pos[r].reg + 1, k |-> 0]]
  /\ saved' = pos'
  /\ high' = pos'
  /\ UNCHANGED failed

Fail(r) ==
  /\ failed' = failed \cup {r}
  /\ UNCHANGED <<pos, high, saved>>

(* The replacements of the failed ranks begin at the checkpoint, all others go on. *)
Replace ==
  /\ failed # {} /\ failed' = {}
  /\ pos' = [r \in Rank |-> IF r \in failed THEN saved[r] ELSE pos[r]]
  /\ UNCHANGED <<high, saved>>

Next ==
  (\E r \in Rank : Operation(r) \/ BeginRegion(r) \/ Fail(r)) \/ Checkpoint \/ Replace

Spec == Init /\ [][Next]_vars
=============================================================================
