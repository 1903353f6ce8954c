--------------------------- MODULE RaftRefinement ---------------------------
(***************************************************************************)
(* Raft implements CommittedLog.                                           *)
(***************************************************************************)
EXTENDS Raft

\* The strokes that replica n knows to be committed: what its applier hands on.
Committed(n) == [i \in 1..commitIndex[n] |-> log[n][i].stroke]

\* Some replica that knows of most.
Foremost == CHOOSE n \in Server : \A p \in Server : commitIndex[p] <= commitIndex[n]

Abstract == INSTANCE CommittedLog WITH
    decided <- Committed(Foremost),
    delivered <- [n \in Server |-> Committed(n)]

\* Elections, conflicting logs and calls in any order are invisible from outside: the
\* replicas behave as one log that grows and that each of them delivers from its start,
\* whichever of them advanceCommitIndex and HandleAppendEntries let commit first.
ImplementsCommittedLog == Abstract!Spec

=============================================================================
