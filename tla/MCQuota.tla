------------------------------- MODULE MCQuota -------------------------------
(* A small instance of Quota for TLC. *)
EXTENDS QuotaProps, TLC

CONSTANTS h1, h2, minute, hour

Interchangeable == Permutations({h1, h2})

Caps    == (minute :> 2) @@ (hour :> 7)
Lengths == (minute :> 1) @@ (hour :> 2)
=============================================================================
