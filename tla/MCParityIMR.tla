----------------------------- MODULE MCParityIMR -----------------------------
(***************************************************************************)
(* Small instances of ParityIMR for TLC: the sizes of what is stored.       *)
(***************************************************************************)
EXTENDS ParityIMR

Mixed == <<6, 4, 3, 5, 1>>   \* all remainders among three partners
Three == <<3>>               \* a whole member of three bytes, among two partners
=============================================================================
