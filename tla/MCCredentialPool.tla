--------------------------- MODULE MCCredentialPool ---------------------------
(* CredentialPool with a few requests, workers and accounts, for TLC. *)
EXTENDS CredentialPool, TLC

PoolSymmetry == Permutations(Requests) \cup Permutations(Accounts)
=============================================================================
