----------------------------- MODULE MCGateway -----------------------------
EXTENDS Gateway, TLC

CONSTANTS q1, q2, q3, a, b, maya, nobody

Symmetry == Permutations(Completions) \cup Permutations(Routes)
=============================================================================
