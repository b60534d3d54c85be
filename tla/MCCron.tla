-------------------------------- MODULE MCCron --------------------------------
(* A small instance of Cron for TLC. *)
EXTENDS CronProps, TLC

CONSTANTS cleanup, purge, a1, a2, r1, r2
=============================================================================
