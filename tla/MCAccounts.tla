----------------------------- MODULE MCAccounts -----------------------------
(* Accounts with three requests over two Google ids and two overlapping.    *)
EXTENDS Accounts, TLC

Symmetry == Permutations(Ids) \cup Permutations(Reqs) \cup Permutations(Googles) \cup Permutations(Names)
=============================================================================
