--------------------------- MODULE MCSelectServer ---------------------------
EXTENDS SelectServer, TLC

Symmetry == Permutations(Clients)
=============================================================================
