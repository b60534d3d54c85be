----------------------------- MODULE MCWriteLock -----------------------------
(* A small instance of WriteLock for TLC. *)
EXTENDS WriteLockProps

CONSTANTS t1, t2, t3, t4
==============================================================================
