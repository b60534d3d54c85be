------------------------------ MODULE MCDocuments ------------------------------
(* A small instance of Documents for TLC. *)
EXTENDS DocumentsProps, TLC

CONSTANTS ann, bob, staff, d1, d2, d3, q1, q2

Symmetric == Permutations({d1, d2, d3}) \cup Permutations({q1, q2})
=============================================================================
