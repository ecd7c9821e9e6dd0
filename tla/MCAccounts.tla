----------------------------- MODULE MCAccounts ------------------------------
(* A small instance of Accounts for TLC.                                   *)
EXTENDS Accounts, TLC

Symmetry == Permutations(Users) \cup Permutations(Emails)
            \cup Permutations(Passwords) \cup Permutations(Identities)
            \cup Permutations(Requests)
=============================================================================
