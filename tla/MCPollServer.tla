---------------------------- MODULE MCPollServer ----------------------------
EXTENDS PollServer, TLC

Symmetry == Permutations(Clients)
=============================================================================
