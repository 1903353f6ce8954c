------------------------------- MODULE MCRaft -------------------------------
\* Raft on small clusters; replicas and strokes are interchangeable.
EXTENDS RaftRefinement, TLC

Symmetry ==
    Permutations(Standing) \cup Permutations(Server \ Standing) \cup Permutations(Stroke)

=============================================================================
