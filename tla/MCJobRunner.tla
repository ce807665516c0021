---------------------------- MODULE MCJobRunner ----------------------------
(***************************************************************************)
(* The instance of JobRunner that TLC checks.  Three jobs let one be       *)
(* pending, one be queued and one be in hand at the same time; two steps   *)
(* let a job fail or be cut short after a step that went well.             *)
(***************************************************************************)
EXTENDS JobRunner

MCMaxJobs  == 3
MCMaxSteps == 2
=============================================================================
