------------------------------ MODULE MCProfiles ------------------------------
EXTENDS Profiles, TLC

Symmetry == Permutations(Users) \cup Permutations(Emails) \cup Permutations(Passwords)
              \cup Permutations(Tokens) \cup Permutations(Requests)
=============================================================================
