----------------------------- MODULE MCAccounts -----------------------------
(* Accounts for TLC.                                                       *)
EXTENDS Accounts, TLC

AccountSymmetry == Permutations(Tokens) \cup Permutations(Handlers)
=============================================================================
