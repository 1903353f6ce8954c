-------------------------- MODULE LogAppendProofs --------------------------
(***************************************************************************)
(* The loop of Log.AppendEntries computes its closed form, for logs of any *)
(* length.  Its invariant: either every entry so far was there already and *)
(* the log is untouched, or one of them, the first that was not, has been  *)
(* put in its place and all since have been appended.                      *)
(***************************************************************************)
EXTENDS LogAppend, SequenceTheorems, TLAPS

LoopType ==
    /\ before \in Seq(Entry) /\ entries \in Seq(Entry) /\ l \in Seq(Entry)
    /\ prev \in 0..Len(before) /\ commitIndex \in Nat
    /\ k \in 1..(Len(entries) + 1)
    /\ pc \in {"loop", "done", "panic"}

\* Entry f is the first that the log did not hold.
First(f) ==
    /\ f \in 1..Len(entries)
    /\ \A j \in 1..(f - 1) : Holds(before, prev, entries, j)
    /\ ~Holds(before, prev, entries, f)

Conflict(f) == prev + f <= Len(before) /\ prev + f <= commitIndex

Untouched == l = before /\ \A j \in 1..(k - 1) : Holds(before, prev, entries, j)

Rewritten(f) ==
    /\ First(f) /\ ~Conflict(f) /\ f < k
    /\ l = SubSeq(before, 1, prev + f - 1) \o SubSeq(entries, f, k - 1)

LoopInv ==
    /\ LoopType
    /\ pc # "panic" => Untouched \/ \E f \in 1..Len(entries) : Rewritten(f)
    /\ pc = "done" => k = Len(entries) + 1
    /\ pc = "panic" => l = before /\ \E f \in 1..Len(entries) : First(f) /\ Conflict(f)

-----------------------------------------------------------------------------
(***************************************************************************)
(* Sequences.                                                              *)
(***************************************************************************)
LEMMA Part ==
    ASSUME NEW S, NEW s \in Seq(S), NEW m \in Nat, NEW n \in Nat, 1 <= m, m <= n + 1, n <= Len(s)
    PROVE  /\ SubSeq(s, m, n) \in Seq(S) /\ Len(SubSeq(s, m, n)) = n - m + 1
           /\ \A i \in 1..(n - m + 1) : SubSeq(s, m, n)[i] = s[m + i - 1]
<1>1. \A i \in m..n : s[i] \in S
  BY LenProperties, ElementOfSeq
<1> QED BY <1>1, SubSeqProperties

\* Appending the next entry to a part of es prolongs the part.
LEMMA AppendNext ==
    ASSUME NEW S, NEW a \in Seq(S), NEW s \in Seq(S), NEW m \in 1..Len(s), NEW n \in 1..Len(s),
           m <= n
    PROVE  Append(a \o SubSeq(s, m, n - 1), s[n]) = a \o SubSeq(s, m, n)
<1> DEFINE b == SubSeq(s, m, n - 1)
<1>1. Len(s) \in Nat /\ n \in m..Len(s) /\ n - 1 \in Nat /\ s[n] \in S
  BY LenProperties, ElementOfSeq
<1>2. b \in Seq(S)
  BY <1>1, Part
<1>3. SubSeq(s, m, n) = b \o <<s[n]>>
  BY <1>1, SubSeqRecursiveSecond
<1> HIDE DEF b
<1>4. a \o b \in Seq(S) /\ <<s[n]>> \in Seq(S)
  BY <1>1, <1>2, ConcatProperties
<1>5. Append(a \o b, s[n]) = (a \o b) \o <<s[n]>>
  BY <1>1, <1>4, AppendIsConcat
<1>6. (a \o b) \o <<s[n]>> = a \o (b \o <<s[n]>>)
  BY <1>2, <1>4, ConcatAssociative
<1> QED BY <1>3, <1>5, <1>6 DEF b

\* The first entry of a part, appended.
LEMMA AppendFirst ==
    ASSUME NEW S, NEW a \in Seq(S), NEW s \in Seq(S), NEW m \in 1..Len(s)
    PROVE  Append(a, s[m]) = a \o SubSeq(s, m, m)
<1>1. Len(s) \in Nat /\ m <= m
  BY LenProperties
<1>2. SubSeq(s, m, m - 1) = << >>
  BY SubSeqEmpty
<1>3. a \o << >> = a
  BY ConcatEmptySeq
<1>4. Append(a \o SubSeq(s, m, m - 1), s[m]) = a \o SubSeq(s, m, m)
  BY <1>1, AppendNext
<1> QED BY <1>2, <1>3, <1>4

-----------------------------------------------------------------------------
(***************************************************************************)
(* The closed form.                                                        *)
(***************************************************************************)
LEMMA FirstIsNew ==
    ASSUME LoopType, NEW f, First(f)
    PROVE  FirstNew(before, prev, entries) = f
<1> DEFINE Is(j) == /\ \A i \in 1..(j - 1) : Holds(before, prev, entries, i)
                    /\ j <= Len(entries) => ~Holds(before, prev, entries, j)
<1>1. Len(entries) \in Nat /\ f \in 1..Len(entries) /\ f \in 1..(Len(entries) + 1)
  BY LenProperties DEF LoopType, First
<1>2. Is(f)
  BY DEF First
<1>3. ASSUME NEW j \in 1..(Len(entries) + 1), Is(j)
      PROVE  j = f
  <2>1. CASE j < f
    <3>1. j \in 1..(f - 1) /\ j <= Len(entries)
      BY <1>1, <2>1
    <3> QED BY <1>3, <3>1 DEF First
  <2>2. CASE f < j
    <3>1. f \in 1..(j - 1)
      BY <1>1, <2>2
    <3> QED BY <1>3, <3>1 DEF First
  <2> QED BY <1>1, <2>1, <2>2
<1>4. FirstNew(before, prev, entries) = CHOOSE j \in 1..(Len(entries) + 1) : Is(j)
  BY DEF FirstNew
<1> HIDE DEF Is
<1> QED BY <1>1, <1>2, <1>3, <1>4

LEMMA NoneIsNew ==
    ASSUME LoopType, \A j \in 1..Len(entries) : Holds(before, prev, entries, j)
    PROVE  FirstNew(before, prev, entries) = Len(entries) + 1
<1> DEFINE Is(j) == /\ \A i \in 1..(j - 1) : Holds(before, prev, entries, i)
                    /\ j <= Len(entries) => ~Holds(before, prev, entries, j)
<1>1. Len(entries) \in Nat /\ Len(entries) + 1 \in 1..(Len(entries) + 1)
  BY LenProperties DEF LoopType
<1>2. Is(Len(entries) + 1)
  BY <1>1
<1>3. ASSUME NEW j \in 1..(Len(entries) + 1), Is(j)
      PROVE  j = Len(entries) + 1
  BY <1>1, <1>3
<1>4. FirstNew(before, prev, entries) = CHOOSE j \in 1..(Len(entries) + 1) : Is(j)
  BY DEF FirstNew
<1> HIDE DEF Is
<1> QED BY <1>1, <1>2, <1>3, <1>4

-----------------------------------------------------------------------------
(***************************************************************************)
(* The loop.                                                               *)
(***************************************************************************)

\* The entries that the log holds reach up to the one the loop is at.
LEMMA UntouchedReaches ==
    ASSUME LoopType, Untouched
    PROVE  Index - 1 <= Len(l)
<1>1. Len(before) \in Nat /\ prev \in Nat /\ prev <= Len(before) /\ k \in Nat /\ 1 <= k
  BY LenProperties DEF LoopType
<1>2. CASE k = 1
  BY <1>1, <1>2 DEF Index, Untouched
<1>3. CASE k > 1
  <2>1. Holds(before, prev, entries, k - 1)
    BY <1>1, <1>3 DEF Untouched
  <2>2. prev + (k - 1) <= Len(before)
    BY <2>1 DEF Holds
  <2> QED BY <1>1, <2>2 DEF Index, Untouched
<1> QED BY <1>1, <1>2, <1>3

\* Once an entry has been put in, the log ends right before the next.
LEMMA RewrittenReaches ==
    ASSUME LoopType, NEW f, Rewritten(f)
    PROVE  /\ SubSeq(before, 1, prev + f - 1) \in Seq(Entry)
           /\ Len(l) = Index - 1
<1>1. /\ Len(before) \in Nat /\ Len(entries) \in Nat /\ prev \in Nat /\ prev <= Len(before)
      /\ k \in 1..(Len(entries) + 1) /\ f \in 1..Len(entries) /\ f < k
  BY LenProperties DEF LoopType, Rewritten, First
<1>2. prev + f - 1 <= Len(before)
  <2>1. CASE f = 1
    BY <1>1, <2>1
  <2>2. CASE f > 1
    <3>1. Holds(before, prev, entries, f - 1)
      BY <1>1, <2>2 DEF Rewritten, First
    <3>2. prev + (f - 1) <= Len(before)
      BY <3>1 DEF Holds
    <3> QED BY <1>1, <3>2
  <2> QED BY <1>1, <2>1, <2>2
<1>3. /\ SubSeq(before, 1, prev + f - 1) \in Seq(Entry)
      /\ Len(SubSeq(before, 1, prev + f - 1)) = prev + f - 1
  <2>1. prev + f - 1 \in Nat /\ 1 <= (prev + f - 1) + 1 /\ (prev + f - 1) - 1 + 1 = prev + f - 1
    BY <1>1
  <2> QED BY <1>2, <2>1, Part DEF LoopType
<1>4. /\ SubSeq(entries, f, k - 1) \in Seq(Entry)
      /\ Len(SubSeq(entries, f, k - 1)) = k - f
  <2>1. /\ f \in Nat /\ k - 1 \in Nat /\ 1 <= f /\ f <= (k - 1) + 1 /\ k - 1 <= Len(entries)
        /\ (k - 1) - f + 1 = k - f
    BY <1>1
  <2> QED BY <2>1, Part DEF LoopType
<1>5. Len(l) = (prev + f - 1) + (k - f)
  BY <1>3, <1>4, ConcatProperties DEF Rewritten
<1> QED BY <1>1, <1>3, <1>5 DEF Index

LEMMA LoopTypeNext ==
    ASSUME LoopType, [Next]_vars
    PROVE  LoopType'
<1>1. CASE UNCHANGED vars
  BY <1>1 DEF vars, arguments, LoopType
<1>2. CASE Return
  BY <1>2 DEF Return, arguments, LoopType
<1>3. CASE Iterate
  <2>1. /\ UNCHANGED arguments /\ k' = k + 1 /\ k <= Len(entries) /\ Len(entries) \in Nat
        /\ k \in 1..(Len(entries) + 1)
    BY <1>3, LenProperties DEF Iterate, LoopType
  <2>2. k' \in 1..(Len(entries) + 1) /\ entries[k] \in Entry
    BY <2>1, ElementOfSeq DEF LoopType
  <2>3. l' \in Seq(Entry)
    <3>1. CASE Skip \/ Panic
      BY <3>1 DEF Skip, Panic, LoopType
    <3>2. CASE Extend
      BY <2>2, <3>2, AppendProperties DEF Extend, LoopType
    <3>3. CASE Truncate
      <4>1. Index - 1 \in Nat /\ Index - 1 <= Len(l) /\ Len(l) \in Nat
        BY <2>1, <3>3, LenProperties DEF Truncate, Occupied, Index, LoopType
      <4>2. SubSeq(l, 1, Index - 1) \in Seq(Entry)
        BY <4>1, Part DEF LoopType
      <4> QED BY <2>2, <3>3, <4>2, AppendProperties DEF Truncate
    <3> QED BY <1>3, <3>1, <3>2, <3>3 DEF Iterate
  <2>4. pc' \in {"loop", "done", "panic"}
    BY <1>3 DEF Iterate, Skip, Panic, Truncate, Extend, LoopType
  <2> QED BY <2>1, <2>2, <2>3, <2>4 DEF arguments, LoopType
<1> QED BY <1>1, <1>2, <1>3 DEF Next

LEMMA IterateUntouched ==
    ASSUME LoopType, Iterate, Untouched, NEW f, f = k
    PROVE  \/ pc' = "loop" /\ Untouched'
           \/ pc' = "loop" /\ Rewritten(f)'
           \/ pc' = "panic" /\ l' = before' /\ First(f)' /\ Conflict(f)'
<1>0. /\ Len(before) \in Nat /\ Len(entries) \in Nat /\ Len(l) \in Nat /\ prev \in Nat
      /\ f \in 1..Len(entries) /\ k' = f + 1
      /\ before' = before /\ entries' = entries /\ prev' = prev /\ commitIndex' = commitIndex
      /\ l = before /\ pc = "loop" /\ Index = prev + f /\ commitIndex \in Nat
  BY LenProperties DEF Iterate, arguments, LoopType, Untouched, Index
<1>1. Index - 1 <= Len(l)
  BY UntouchedReaches
<1>2. Holds(before, prev, entries, f) <=> Occupied /\ l[Index].term = entries[k].term
  BY <1>0 DEF Holds, Occupied
<1>3. \A j \in 1..(f - 1) : Holds(before, prev, entries, j)
  BY DEF Untouched
<1>4. CASE Skip
  <2>1. \A j \in 1..f : Holds(before, prev, entries, j)
    BY <1>0, <1>2, <1>3, <1>4 DEF Skip
  <2>2. (k - 1)' = f
    BY <1>0
  <2> QED BY <1>0, <1>4, <2>1, <2>2 DEF Skip, Untouched
<1>5. ASSUME ~(Occupied /\ l[Index].term = entries[k].term)
      PROVE  First(f)'
  BY <1>0, <1>2, <1>3, <1>5 DEF First
<1>6. CASE Panic
  <2>1. First(f)'
    BY <1>5, <1>6 DEF Panic
  <2>2. Conflict(f)'
    BY <1>0, <1>6 DEF Panic, Occupied, Protected, Conflict
  <2> QED BY <1>0, <1>6, <2>1, <2>2 DEF Panic
<1>7. ASSUME NEW a, a = SubSeq(before, 1, prev + f - 1), l' = Append(a, entries[f]), First(f)',
             ~Conflict(f)
      PROVE  Rewritten(f)'
  <2>1. prev + f - 1 \in Nat /\ prev + f - 1 <= Len(before) /\ 1 <= (prev + f - 1) + 1
    BY <1>0, <1>1
  <2>2. a \in Seq(Entry)
    BY <1>7, <2>1, Part DEF LoopType
  <2>3. l' = a \o SubSeq(entries, f, f)
    BY <1>0, <1>7, <2>2, AppendFirst DEF LoopType
  <2>4. (k - 1)' = f /\ f < k'
    BY <1>0
  <2>5. l' = SubSeq(before', 1, prev' + f - 1) \o SubSeq(entries', f, k' - 1)
    BY <1>0, <1>7, <2>3, <2>4
  <2>6. ~Conflict(f)'
    BY <1>0, <1>7 DEF Conflict
  <2> QED BY <1>7, <2>4, <2>5, <2>6 DEF Rewritten
<1>8. CASE Truncate
  <2>1. First(f)'
    BY <1>5, <1>8 DEF Truncate
  <2>2. l' = Append(SubSeq(before, 1, prev + f - 1), entries[f])
    BY <1>0, <1>8 DEF Truncate
  <2>3. ~Conflict(f)
    BY <1>0, <1>8 DEF Truncate, Protected, Conflict
  <2> QED BY <1>0, <1>7, <1>8, <2>1, <2>2, <2>3 DEF Truncate
<1>9. CASE Extend
  <2>1. First(f)'
    BY <1>5, <1>9 DEF Extend
  <2>2. Len(before) = prev + f - 1 /\ ~Conflict(f)
    BY <1>0, <1>1, <1>9 DEF Extend, Occupied, Conflict
  <2>3. SubSeq(before, 1, prev + f - 1) = before
    BY <2>2, SubSeqFull DEF LoopType
  <2>4. l' = Append(SubSeq(before, 1, prev + f - 1), entries[f])
    BY <1>0, <1>9, <2>3 DEF Extend
  <2> QED BY <1>0, <1>7, <1>9, <2>1, <2>2, <2>4 DEF Extend
<1> QED
  BY <1>4, <1>6, <1>8, <1>9 DEF Iterate

LEMMA IterateRewritten ==
    ASSUME LoopType, Iterate, NEW f, Rewritten(f)
    PROVE  pc' = "loop" /\ Rewritten(f)'
<1> DEFINE a == SubSeq(before, 1, prev + f - 1)
<1>0. /\ Len(entries) \in Nat /\ prev \in Nat /\ k \in 1..Len(entries) /\ k' = k + 1
      /\ before' = before /\ entries' = entries /\ prev' = prev /\ commitIndex' = commitIndex
      /\ pc = "loop" /\ Index = prev + k /\ f \in 1..Len(entries) /\ f < k
  BY LenProperties DEF Iterate, arguments, LoopType, Index, Rewritten, First
<1>1. a \in Seq(Entry) /\ Len(l) = Index - 1
  BY RewrittenReaches
<1>2. l = a \o SubSeq(entries, f, k - 1)
  BY DEF Rewritten
<1> HIDE DEF a
<1>3. ~Occupied
  BY <1>0, <1>1 DEF Occupied
<1>4. l' = Append(l, entries[k]) /\ pc' = "loop"
  BY <1>0, <1>3 DEF Iterate, Skip, Panic, Truncate, Extend
<1>5. l' = a \o SubSeq(entries, f, k)
  <2>1. f <= k /\ entries \in Seq(Entry)
    BY <1>0 DEF LoopType
  <2> QED BY <1>0, <1>1, <1>2, <1>4, <2>1, AppendNext
<1>6. l' = SubSeq(before', 1, prev' + f - 1) \o SubSeq(entries', f, k' - 1)
  <2>1. k' - 1 = k
    BY <1>0
  <2> QED BY <1>0, <1>5, <2>1 DEF a
<1>7. First(f)' /\ ~Conflict(f)' /\ f < k'
  BY <1>0 DEF Rewritten, First, Conflict
<1> QED BY <1>4, <1>6, <1>7 DEF Rewritten

LEMMA LoopInvInit == Init => LoopInv
<1> SUFFICES ASSUME Init
             PROVE  LoopInv
  OBVIOUS
<1>1. before \in Seq(Entry) /\ entries \in Seq(Entry)
  BY LogAppendAssumption DEF Init, BoundedSeq, SeqOf
<1>2. LoopType
  BY <1>1, LenProperties DEF Init, LoopType
<1> QED BY <1>2 DEF Init, LoopInv, Untouched

LEMMA LoopInvNext == LoopInv /\ [Next]_vars => LoopInv'
<1> SUFFICES ASSUME LoopInv, [Next]_vars
             PROVE  LoopInv'
  OBVIOUS
<1>1. LoopType /\ LoopType'
  BY LoopTypeNext DEF LoopInv
<1>2. CASE UNCHANGED vars
  BY <1>1, <1>2 DEF vars, arguments, LoopInv, Untouched, Rewritten, First, Conflict
<1>3. CASE Return
  <2>1. /\ pc = "loop" /\ k > Len(entries) /\ pc' = "done"
        /\ UNCHANGED <<before, entries, prev, commitIndex, l, k>>
    BY <1>3 DEF Return, arguments
  <2>2. k = Len(entries) + 1
    BY <1>1, <2>1, LenProperties DEF LoopType
  <2>3. Untouched \/ \E f \in 1..Len(entries) : Rewritten(f)
    BY <2>1 DEF LoopInv
  <2>4. Untouched' \/ \E f \in 1..Len(entries) : Rewritten(f)'
    BY <2>1, <2>3 DEF Untouched, Rewritten, First, Conflict
  <2> QED BY <1>1, <2>1, <2>2, <2>4 DEF LoopInv
<1>4. CASE Iterate
  <2>1. /\ pc = "loop" /\ entries' = entries
        /\ Untouched \/ \E f \in 1..Len(entries) : Rewritten(f)
    BY <1>4 DEF Iterate, arguments, LoopInv
  <2>2. CASE Untouched
    <3>1. PICK f \in 1..Len(entries) : f = k
      BY <1>1, <1>4, LenProperties DEF Iterate, LoopType
    <3>2. \/ pc' = "loop" /\ Untouched'
          \/ pc' = "loop" /\ Rewritten(f)'
          \/ pc' = "panic" /\ l' = before' /\ First(f)' /\ Conflict(f)'
      BY <1>1, <1>4, <2>2, <3>1, IterateUntouched
    <3> QED BY <1>1, <2>1, <3>1, <3>2 DEF LoopInv
  <2>3. ASSUME NEW f \in 1..Len(entries), Rewritten(f)
        PROVE  LoopInv'
    <3>1. pc' = "loop" /\ Rewritten(f)'
      BY <1>1, <1>4, <2>3, IterateRewritten
    <3> QED BY <1>1, <2>1, <3>1 DEF LoopInv
  <2> QED BY <2>1, <2>2, <2>3
<1> QED BY <1>2, <1>3, <1>4 DEF Next

LEMMA LoopInvariant == Spec => []LoopInv
BY LoopInvInit, LoopInvNext, PTL DEF Spec

\* The loop of Log.AppendEntries leaves the log that AppendEntries of RaftLog describes,
\* and panics exactly when TruncatesCommitted says so, with the log as it was: what
\* the proofs of Raft use of the closed form holds of the loop, for logs of any length.
THEOREM LoopIsClosedForm == Spec => []ComputesClosedForm
<1>1. LoopInv => ComputesClosedForm
  <2> SUFFICES ASSUME LoopInv
               PROVE  ComputesClosedForm
    OBVIOUS
  <2>0. LoopType /\ Len(entries) \in Nat
    BY LenProperties DEF LoopInv, LoopType
  <2>1. ASSUME pc = "panic"
        PROVE  TruncatesCommitted(before, prev, entries, commitIndex) /\ l = before
    <3>1. PICK f \in 1..Len(entries) : First(f) /\ Conflict(f)
      BY <2>1 DEF LoopInv
    <3>2. FirstNew(before, prev, entries) = f
      BY <2>0, <3>1, FirstIsNew
    <3> QED BY <2>0, <2>1, <3>1, <3>2 DEF LoopInv, TruncatesCommitted, Conflict
  <2>2. ASSUME pc = "done", Untouched
        PROVE  /\ ~TruncatesCommitted(before, prev, entries, commitIndex)
               /\ l = AppendEntries(before, prev, entries)
    <3>1. \A j \in 1..Len(entries) : Holds(before, prev, entries, j)
      BY <2>0, <2>2 DEF LoopInv, Untouched
    <3>2. FirstNew(before, prev, entries) = Len(entries) + 1
      BY <2>0, <3>1, NoneIsNew
    <3> QED BY <2>0, <2>2, <3>2 DEF TruncatesCommitted, AppendEntries, Untouched
  <2>3. ASSUME pc = "done", NEW f \in 1..Len(entries), Rewritten(f)
        PROVE  /\ ~TruncatesCommitted(before, prev, entries, commitIndex)
               /\ l = AppendEntries(before, prev, entries)
    <3>1. FirstNew(before, prev, entries) = f
      BY <2>0, <2>3, FirstIsNew DEF Rewritten
    <3>2. ~(f > Len(entries)) /\ k - 1 = Len(entries)
      BY <2>0, <2>3 DEF LoopInv
    <3>3. l = SubSeq(before, 1, prev + f - 1) \o SubSeq(entries, f, Len(entries))
      BY <2>3, <3>2 DEF Rewritten
    <3>4. ~TruncatesCommitted(before, prev, entries, commitIndex)
      BY <2>3, <3>1 DEF TruncatesCommitted, Rewritten, Conflict
    <3> QED BY <3>1, <3>2, <3>3, <3>4 DEF AppendEntries
  <2> QED BY <2>1, <2>2, <2>3 DEF LoopInv, ComputesClosedForm
<1> QED BY <1>1, LoopInvariant, PTL

\* The position the loop gives an entry is the Index the leader gave it.
THEOREM LoopKeepsIndex == Spec => []IndexKept
<1>1. LoopInv => IndexKept
  <2> SUFFICES ASSUME LoopInv, pc = "loop"
               PROVE  Index <= Len(l) + 1
    BY DEF IndexKept
  <2>0. LoopType /\ Index \in Nat /\ Len(l) \in Nat
    BY LenProperties DEF LoopInv, LoopType, Index
  <2>1. CASE Untouched
    BY <2>0, <2>1, UntouchedReaches
  <2>2. ASSUME NEW f \in 1..Len(entries), Rewritten(f)
        PROVE  Index <= Len(l) + 1
    BY <2>0, <2>2, RewrittenReaches
  <2> QED BY <2>1, <2>2 DEF LoopInv
<1> QED BY <1>1, LoopInvariant, PTL

=============================================================================
