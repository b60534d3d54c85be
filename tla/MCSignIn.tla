------------------------------- MODULE MCSignIn -------------------------------
(* A small instance of SignIn for TLC. *)
EXTENDS SignInProps, TLC

CONSTANTS q1, q2, s1, s2, c1, c2

Thresholds == [local |-> 2, totp |-> 2]

Symmetric == Permutations({q1, q2}) \cup Permutations({s1, s2}) \cup Permutations({c1, c2})
=============================================================================
