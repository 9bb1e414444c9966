----------------------------- MODULE MCHandling -----------------------------
(* Two callbacks, of which one handles its own failures, and two logs. *)
EXTENDS Handling, TLC

Logs == Permutations(Log)
=============================================================================
