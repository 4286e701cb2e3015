--------------------------- MODULE MCForkingServer ---------------------------
EXTENDS ForkingServer, TLC

Symmetry == Permutations(Clients)

AllFlags == SUBSET {"RESTART", "RESETHAND"}
NoFlags == {{}}
=============================================================================
