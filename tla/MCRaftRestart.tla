--------------------------- MODULE MCRaftRestart ---------------------------
\* RaftRestart on a small cluster.
EXTENDS RaftRestart, TLC

Symmetry ==
    Permutations(Standing) \cup Permutations(Server \ Standing) \cup Permutations(Stroke)

=============================================================================
