-------------------------- MODULE MCCommitPipeline --------------------------
\* CommitPipeline on two replicas.
EXTENDS CommitPipeline
=============================================================================
