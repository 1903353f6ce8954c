--------------------------- MODULE MCRaftCatchUp ---------------------------
\* RaftCatchUp on a small cluster.
EXTENDS RaftCatchUp
=============================================================================
