------------------------------ MODULE MCAccounts ------------------------------
(* Accounts for TLC: accounts, browsers and request slots are interchangeable. *)
EXTENDS Accounts, TLC

Symmetry == Permutations(Users) \cup Permutations(Browsers) \cup Permutations(Requests)
================================================================================
