----------------------------- MODULE MCAccounts -----------------------------
(***************************************************************************)
(* Accounts with two users and two clients.                                *)
(***************************************************************************)
EXTENDS Accounts, TLC

CONSTANTS u1, u2, c1, c2

Symmetric == Permutations({u1, u2}) \union Permutations({c1, c2})
=============================================================================
