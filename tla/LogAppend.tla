----------------------------- MODULE LogAppend -----------------------------
(***************************************************************************)
(* The loop of Log.AppendEntries (replica/internal/raft/log.go), one step  *)
(* per iteration.  The closed form of module RaftLog, which Raft takes as  *)
(* one atomic step, is what the loop computes; the lock Log.mu is held     *)
(* from the first iteration to the last.                                   *)
(*                                                                         *)
(* The caller has checked that the log reaches the entry before the first  *)
(* one received, so these come at positions prev + 1, prev + 2, ...        *)
(***************************************************************************)
EXTENDS RaftLog, SequencesExt

CONSTANTS
    Entry,      \* the entries, records with a term
    MaxLen      \* bound: length of the log and of the entries received

ASSUME LogAppendAssumption ==
    /\ \A e \in Entry : e.term \in Nat
    /\ MaxLen \in Nat

VARIABLES
    before, entries, prev, commitIndex,     \* the log and the arguments at the call
    l,          \* the log now
    k,          \* the entry the loop is at
    pc          \* "loop", "done" or "panic"

arguments == <<before, entries, prev, commitIndex>>
vars == <<arguments, l, k, pc>>

Init ==
    /\ before \in BoundedSeq(Entry, MaxLen)
    /\ entries \in BoundedSeq(Entry, MaxLen)
    /\ prev \in 0..Len(before)
    /\ commitIndex \in 0..Len(before)
    /\ l = before
    /\ k = 1
    /\ pc = "loop"

-----------------------------------------------------------------------------
\* entry.Index of the entry the loop is at.
Index == prev + k

\* An entry is there already ...
Occupied == Index <= Len(l)

\* ... of the same term: nothing to do.
Skip ==
    /\ Occupied /\ l[Index].term = entries[k].term
    /\ UNCHANGED <<l, pc>>

\* Mutant: the committed entry itself is not protected.
ProtectedBelow == Index < commitIndex

Protected == Index <= commitIndex

\* ... of another term, at a committed index.
Panic ==
    /\ Occupied /\ l[Index].term # entries[k].term
    /\ Protected
    /\ pc' = "panic"
    /\ UNCHANGED l

\* Mutant: the log is cut one entry too early.
TruncateBefore ==
    /\ Occupied /\ l[Index].term # entries[k].term
    /\ ~Protected
    /\ l' = Append(SubSeq(l, 1, Index - 2), entries[k])
    /\ UNCHANGED pc

\* ... of another term: it and all that follow go, and the entry is appended.
Truncate ==
    /\ Occupied /\ l[Index].term # entries[k].term
    /\ ~Protected
    /\ l' = Append(SubSeq(l, 1, Index - 1), entries[k])
    /\ UNCHANGED pc

\* Nothing is there: the entry is appended, and its Index becomes its position.
Extend ==
    /\ ~Occupied
    /\ l' = Append(l, entries[k])
    /\ UNCHANGED pc

Iterate ==
    /\ pc = "loop" /\ k <= Len(entries)
    /\ Skip \/ Panic \/ Truncate \/ Extend
    /\ k' = k + 1
    /\ UNCHANGED arguments

Return ==
    /\ pc = "loop" /\ k > Len(entries)
    /\ pc' = "done"
    /\ UNCHANGED <<arguments, l, k>>

Next == Iterate \/ Return

Spec == Init /\ [][Next]_vars

-----------------------------------------------------------------------------
\* The loop ends with the log of the closed form, and panics exactly when the
\* closed form says so, before it has changed anything.
ComputesClosedForm ==
    /\ pc = "done" =>
        /\ ~TruncatesCommitted(before, prev, entries, commitIndex)
        /\ l = AppendEntries(before, prev, entries)
    /\ pc = "panic" =>
        /\ TruncatesCommitted(before, prev, entries, commitIndex)
        /\ l = before

\* The Index rewritten from the length of the log is the one the leader gave the
\* entry: the loop never leaves a gap and never appends out of place.
IndexKept == pc = "loop" /\ k <= Len(entries) => Index <= Len(l) + 1

=============================================================================
