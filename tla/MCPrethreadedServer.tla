------------------------ MODULE MCPrethreadedServer ------------------------
EXTENDS PrethreadedServer, TLC

Symmetry == Permutations(Clients) \union Permutations(Workers)
=============================================================================
