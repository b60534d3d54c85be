----------------------------- MODULE MCFileStore -----------------------------
(* Small instances of FileStore for TLC. *)
EXTENDS FileStoreProps, TLC

CONSTANTS a, b, c, k, doc, u1, u2, d1, d2

Interchangeable == Permutations(Contents) \cup Permutations({u1, u2}) \cup Permutations({d1, d2})
==============================================================================
