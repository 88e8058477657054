------------------------------ MODULE MCReview ------------------------------
EXTENDS Review, TLC
Symmetry == Permutations(ItemId) \cup Permutations(ProposalId) \cup Permutations(Owner) \cup Permutations(Session)
=============================================================================
