------------------------------- MODULE RaftLog -------------------------------
(***************************************************************************)
(* The log of a replica (replica/internal/raft/log.go) as a value.         *)
(*                                                                         *)
(* A log is the sequence of its entries; the sentinel the code keeps at    *)
(* entries[0], of index 0 and term 0, is left out, so that an entry's      *)
(* position in the sequence is its Index field.  Every operator is one     *)
(* method of Log, called with Log.mu held from start to end.               *)
(***************************************************************************)
EXTENDS Integers, Sequences

LastIndex(l) == Len(l)

\* The sentinel gives an empty log the last term 0.
LastTerm(l) == IF l = << >> THEN 0 ELSE l[Len(l)].term

\* Out of range, and the sentinel's own position 0, both read as term 0.
Term(l, i) == IF i \in 1..Len(l) THEN l[i].term ELSE 0

\* The suffix from position i >= 1; empty when i is past the end.
GetFrom(l, i) == SubSeq(l, i, Len(l))

-----------------------------------------------------------------------------
(***************************************************************************)
(* Log.AppendEntries(entries, commitIndex) in closed form, for entries at  *)
(* positions prev+1, prev+2, ... of a log of at least prev entries.  The   *)
(* loop of the code skips the entries the log already holds (same index    *)
(* and same term); the first other one truncates the log if it conflicts   *)
(* with an entry there, and it and all that follow are appended.           *)
(***************************************************************************)

\* Mutant: an entry at the same index is taken for the same entry.
HoldsIndex(l, prev, es, k) == prev + k <= Len(l)

\* Entry es[k] is one the loop would skip.
Holds(l, prev, es, k) ==
    /\ prev + k <= Len(l)
    /\ l[prev + k].term = es[k].term

\* The first entry the loop does not skip, Len(es) + 1 if it skips them all.
FirstNew(l, prev, es) ==
    CHOOSE k \in 1..(Len(es) + 1) :
        /\ \A j \in 1..(k - 1) : Holds(l, prev, es, j)
        /\ k <= Len(es) => ~Holds(l, prev, es, k)

\* Mutant: the log is truncated wherever the conflict is.
TruncatesCommittedNever(l, prev, es, commitIdx) == FALSE

\* The code panics: the conflict is at an index that is already committed.
TruncatesCommitted(l, prev, es, commitIdx) ==
    LET k == FirstNew(l, prev, es)
    IN  /\ k <= Len(es)
        /\ prev + k <= Len(l)
        /\ prev + k <= commitIdx

\* Mutant: the log is cut after the last entry received even when the entries
\* received are all there (a delayed request then removes newer entries).
AppendEntriesCutting(l, prev, es) == SubSeq(l, 1, prev) \o es

\* The log after the call, when it does not panic.
AppendEntries(l, prev, es) ==
    LET k == FirstNew(l, prev, es)
    IN  IF k > Len(es)
        THEN l
        ELSE SubSeq(l, 1, prev + k - 1) \o SubSeq(es, k, Len(es))

=============================================================================
