---------------------------- MODULE MCEncryption ----------------------------
(* A small instance of Encryption for TLC. *)
EXTENDS EncryptionProps

CONSTANTS r1, r2
==============================================================================
