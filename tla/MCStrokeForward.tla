-------------------------- MODULE MCStrokeForward --------------------------
\* StrokeForward on a small cluster.
EXTENDS StrokeForward
=============================================================================
