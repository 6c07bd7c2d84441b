------------------------------- MODULE MCCron -------------------------------
(* Instances of CronRun for TLC. *)
EXTENDS CronRun, TLC

CONSTANTS b1, b2

MCBookmarks == {b1, b2}
=============================================================================
