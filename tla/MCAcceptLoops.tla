---------------------------- MODULE MCAcceptLoops ----------------------------
EXTENDS AcceptLoops, TLC

AllPrograms == {"iterative", "unix", "preforking"}
=============================================================================
