------------------------------ MODULE MCCohorts ------------------------------
(***************************************************************************)
(* The instance of Cohorts that TLC checks; its bounds are in the cfg.      *)
(***************************************************************************)
EXTENDS Cohorts
=============================================================================
