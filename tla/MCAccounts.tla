----------------------------- MODULE MCAccounts -----------------------------
EXTENDS Accounts, TLC

Symmetry == Permutations(Requests) \cup Permutations(People)
            \cup Permutations(Addresses) \cup Permutations(UserIds)
=============================================================================
