----------------------------- MODULE MCBuddyIMR -----------------------------
(***************************************************************************)
(* Small instances of BuddyIMR for TLC: what the application stores.        *)
(***************************************************************************)
EXTENDS BuddyIMR

Whole       == <<{1, 2}>>        \* the whole member, always
Alternating == <<{1}, {2}>>      \* one element after the other
Uneven      == [r \in Ranks |-> IF r = 2 THEN {1, 2} ELSE {r + 1}]  \* storev's
=============================================================================
