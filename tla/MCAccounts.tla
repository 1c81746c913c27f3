------------------------------ MODULE MCAccounts ------------------------------
EXTENDS Accounts, TLC
Symmetry == Permutations(Users) \cup Permutations(Orgs) \cup Permutations(Tokens) \cup Permutations(Slots)
=============================================================================
