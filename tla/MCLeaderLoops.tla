--------------------------- MODULE MCLeaderLoops ---------------------------
\* LeaderLoops on a small cluster.
EXTENDS LeaderLoops
=============================================================================
