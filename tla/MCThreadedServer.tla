--------------------------- MODULE MCThreadedServer ---------------------------
EXTENDS ThreadedServer, TLC
=============================================================================
