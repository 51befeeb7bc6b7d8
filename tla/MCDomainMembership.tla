------------------------- MODULE MCDomainMembership -------------------------
EXTENDS DomainMembership, TLC

Symmetry == Permutations(Users) \cup Permutations(Requests)
=============================================================================
