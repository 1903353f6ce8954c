------------------------ MODULE CommitPipelineProofs ------------------------
(***************************************************************************)
(* For every capacity of commitCh, any number of replicas, and whatever    *)
(* the applier drops: the channel is a window of the log, and a replica    *)
(* announces its entries in the order of the log.                          *)
(***************************************************************************)
EXTENDS CommitPipeline, SequenceTheorems, TLAPS

Announcement == [from : Server, index : Nat]

PipelineType ==
    /\ commitIndex \in [Server -> Nat]
    /\ lastApplied \in [Server -> Nat]
    /\ commitCh \in [Server -> Seq(Nat)]
    /\ pc \in [Server -> {"idle", "loop", "drain", "resend"}]
    /\ at \in [Server -> Nat] /\ upTo \in [Server -> Nat]
    /\ hand \in [Server -> Nat] /\ posting \in [Server -> BOOLEAN]
    /\ announced \in Seq(Announcement)

\* The applier is at the entry after lastApplied, and goes no further than the
\* commit index it has read.
ApplierInv(n) ==
    /\ lastApplied[n] <= commitIndex[n] /\ upTo[n] <= commitIndex[n]
    /\ pc[n] # "idle" => at[n] = lastApplied[n] + 1
    /\ pc[n] \in {"drain", "resend"} => at[n] <= upTo[n]

\* The channel holds the last entries applied ...
WindowInv(n) ==
    /\ Len(commitCh[n]) <= lastApplied[n]
    /\ \A k \in 1..Len(commitCh[n]) :
           commitCh[n][k] = (lastApplied[n] + k) - Len(commitCh[n])

\* ... what the notifier holds comes before them ...
HandInv(n) ==
    /\ hand[n] + Len(commitCh[n]) <= lastApplied[n]
    /\ posting[n] => hand[n] # 0

\* ... and what it has announced comes before that.
AnnouncedInv(n) ==
    \A k \in 1..Len(announced) : announced[k].from = n =>
        /\ announced[k].index + Len(commitCh[n]) <= lastApplied[n]
        /\ hand[n] # 0 => announced[k].index < hand[n]

ReplicaInv(n) == ApplierInv(n) /\ WindowInv(n) /\ HandInv(n) /\ AnnouncedInv(n)

PipelineInv ==
    /\ PipelineType
    /\ \A n \in Server : ReplicaInv(n)
    /\ AnnouncedInOrder

-----------------------------------------------------------------------------
LEMMA PipelineInit == Init => PipelineInv
BY DEF Init, PipelineInv, PipelineType, ReplicaInv, ApplierInv, WindowInv, HandInv, AnnouncedInv,
    AnnouncedInOrder, Announcement

\* A replica on which nothing changes but the commit index, which grows.
LEMMA UntouchedReplica ==
    ASSUME NEW m \in Server, ReplicaInv(m), PipelineType,
           commitIndex'[m] \in Nat, commitIndex'[m] >= commitIndex[m],
           lastApplied'[m] = lastApplied[m], commitCh'[m] = commitCh[m],
           pc'[m] = pc[m], at'[m] = at[m], upTo'[m] = upTo[m],
           hand'[m] = hand[m], posting'[m] = posting[m],
           announced' = announced
    PROVE  ReplicaInv(m)'
<1>1. ApplierInv(m)'
  BY DEF ReplicaInv, ApplierInv, PipelineType
<1>2. WindowInv(m)' /\ HandInv(m)' /\ AnnouncedInv(m)'
  BY DEF ReplicaInv, WindowInv, HandInv, AnnouncedInv
<1> QED
  BY <1>1, <1>2 DEF ReplicaInv

\* Commitment.
LEMMA RaftStep ==
    ASSUME PipelineInv, NEW n \in Server, NEW i \in Index,
           LeaderCommits(n, i) \/ FollowerCommits(n, i)
    PROVE  PipelineInv'
<1>0. i \in Nat
  BY DEF Index
<1>1. /\ commitIndex' \in [Server -> Nat]
      /\ \A m \in Server : commitIndex'[m] >= commitIndex[m]
  <2>1. commitIndex \in [Server -> Nat]
    BY DEF PipelineInv, PipelineType
  <2>2. commitIndex' = [commitIndex EXCEPT ![n] = i] /\ i > commitIndex[n]
    BY DEF LeaderCommits, FollowerCommits
  <2> QED BY <1>0, <2>1, <2>2
<1>2. UNCHANGED <<applierVars, commitCh, hand, posting, announced>>
  BY DEF LeaderCommits, FollowerCommits, notifierVars
<1>3. PipelineType' /\ AnnouncedInOrder'
  BY <1>1, <1>2 DEF PipelineInv, PipelineType, applierVars, AnnouncedInOrder
<1>4. ASSUME NEW m \in Server
      PROVE  ReplicaInv(m)'
  BY <1>1, <1>2, UntouchedReplica DEF PipelineInv, applierVars
<1> QED
  BY <1>3, <1>4 DEF PipelineInv

-----------------------------------------------------------------------------
\* What the steps of applier and notifier leave alone.
LEMMA OtherReplicas ==
    ASSUME PipelineInv, NEW n \in Server, Applier(n) \/ Take(n) \/ Decide(n) \/ PostFails(n)
    PROVE  /\ announced' = announced /\ commitIndex' = commitIndex
           /\ AnnouncedInOrder'
           /\ \A m \in Server \ {n} : ReplicaInv(m)'
<1>1. announced' = announced /\ commitIndex' = commitIndex
  BY DEF Applier, Tick, Apply, FindFull, DropOldest, Resend, Return, Put, Take, Decide, PostFails,
      Done, raftVars, notifierVars
<1>2. ASSUME NEW m \in Server \ {n}
      PROVE  /\ lastApplied'[m] = lastApplied[m] /\ commitCh'[m] = commitCh[m]
             /\ pc'[m] = pc[m] /\ at'[m] = at[m] /\ upTo'[m] = upTo[m]
             /\ hand'[m] = hand[m] /\ posting'[m] = posting[m]
  <2>1. CASE Applier(n)
    BY <2>1 DEF PipelineInv, PipelineType, Applier, Tick, Apply, FindFull, DropOldest, Resend,
        Return, Put, ToLoop, notifierVars
  <2>2. CASE Take(n) \/ Decide(n) \/ PostFails(n)
    BY <2>2 DEF PipelineInv, PipelineType, Take, Decide, PostFails, Done, applierVars
  <2> QED BY <2>1, <2>2
<1>3. ASSUME NEW m \in Server \ {n}
      PROVE  ReplicaInv(m)'
  <2>1. commitIndex'[m] \in Nat /\ commitIndex'[m] >= commitIndex[m]
    BY <1>1 DEF PipelineInv, PipelineType
  <2> QED BY <1>1, <1>2, <2>1, UntouchedReplica DEF PipelineInv
<1> QED
  BY <1>1, <1>3 DEF PipelineInv, AnnouncedInOrder

LEMMA AnnouncementType ==
    ASSUME PipelineType, NEW k \in 1..Len(announced)
    PROVE  announced[k] \in Announcement /\ announced[k].index \in Nat
<1>1. announced[k] \in Announcement
  BY DEF PipelineType
<1> QED
  BY <1>1 DEF Announcement

\* What has been announced stays behind: of the entries applied, no more are in
\* the channel than before, and the notifier holds what it held or a later one.
LEMMA AnnouncedKept ==
    ASSUME NEW n \in Server, PipelineType, PipelineType', AnnouncedInv(n), announced' = announced,
           lastApplied[n] + Len(commitCh'[n]) <= lastApplied'[n] + Len(commitCh[n]),
           \/ hand'[n] = 0 \/ hand'[n] = hand[n]
           \/ hand'[n] + Len(commitCh[n]) > lastApplied[n]
    PROVE  AnnouncedInv(n)'
<1>1. /\ Len(commitCh[n]) \in Nat /\ Len(commitCh'[n]) \in Nat
      /\ lastApplied[n] \in Nat /\ lastApplied'[n] \in Nat
      /\ hand[n] \in Nat /\ hand'[n] \in Nat
  <2>1. commitCh[n] \in Seq(Nat) /\ commitCh'[n] \in Seq(Nat)
    BY DEF PipelineType
  <2> QED BY <2>1 DEF PipelineType
<1>2. SUFFICES ASSUME NEW k \in 1..Len(announced), announced[k].from = n
               PROVE  /\ announced[k].index + Len(commitCh'[n]) <= lastApplied'[n]
                      /\ hand'[n] # 0 => announced[k].index < hand'[n]
  BY DEF AnnouncedInv
<1>3. /\ announced[k].index \in Nat
      /\ announced[k].index + Len(commitCh[n]) <= lastApplied[n]
      /\ hand[n] # 0 => announced[k].index < hand[n]
  BY <1>2, AnnouncementType DEF AnnouncedInv
<1>4. announced[k].index + Len(commitCh'[n]) <= lastApplied'[n]
  <2> DEFINE i == announced[k].index
             old == Len(commitCh[n])
             new == Len(commitCh'[n])
             was == lastApplied[n]
             is == lastApplied'[n]
  <2>1. /\ i \in Nat /\ old \in Nat /\ new \in Nat /\ was \in Nat /\ is \in Nat
        /\ i + old <= was /\ was + new <= is + old
    BY <1>1, <1>3
  <2>2. i + new <= is
    <3> HIDE DEF i, old, new, was, is
    <3> QED BY <2>1
  <2> QED BY <2>2
<1>5. ASSUME hand'[n] # 0
      PROVE  announced[k].index < hand'[n]
  <2>1. CASE hand'[n] = hand[n]
    BY <1>3, <1>5, <2>1
  <2>2. CASE hand'[n] + Len(commitCh[n]) > lastApplied[n]
    BY <1>1, <1>3, <2>2
  <2> QED BY <1>5, <2>1, <2>2
<1> QED
  BY <1>4, <1>5

\* An entry goes into the channel.
LEMMA PutStep ==
    ASSUME PipelineInv, NEW n \in Server, Apply(n) \/ Resend(n)
    PROVE  PipelineType' /\ ReplicaInv(n)'
<1> DEFINE c == commitCh[n]
<1>1. /\ c \in Seq(Nat) /\ lastApplied[n] \in Nat /\ at[n] \in Nat /\ upTo[n] \in Nat
      /\ hand[n] \in Nat /\ commitIndex[n] \in Nat
      /\ ReplicaInv(n)
  BY DEF PipelineInv, PipelineType
<1>2. at[n] = lastApplied[n] + 1 /\ at[n] <= commitIndex[n]
  BY <1>1 DEF ReplicaInv, ApplierInv, Apply, Resend
<1>3. /\ commitCh' = [commitCh EXCEPT ![n] = Append(c, at[n])]
      /\ lastApplied' = [lastApplied EXCEPT ![n] = at[n]]
      /\ at' = [at EXCEPT ![n] = at[n] + 1]
      /\ pc' = [pc EXCEPT ![n] = "loop"]
      /\ UNCHANGED <<commitIndex, upTo, hand, posting, announced>>
  BY DEF Apply, Resend, Put, ToLoop, raftVars, notifierVars
<1>4. Append(c, at[n]) \in Seq(Nat)
  BY <1>1
<1>5. PipelineType'
  BY <1>1, <1>3, <1>4 DEF PipelineInv, PipelineType
<1>6. /\ commitCh'[n] = Append(c, at[n]) /\ lastApplied'[n] = lastApplied[n] + 1
      /\ at'[n] = lastApplied'[n] + 1 /\ pc'[n] = "loop"
  BY <1>1, <1>2, <1>3 DEF PipelineInv, PipelineType
<1>7. /\ Len(commitCh'[n]) = Len(c) + 1 /\ Len(c) \in Nat
      /\ \A k \in 1..Len(c) : commitCh'[n][k] = c[k]
      /\ commitCh'[n][Len(c) + 1] = at[n]
  BY <1>1, <1>6
<1>8. ApplierInv(n)'
  BY <1>1, <1>2, <1>3, <1>6 DEF ReplicaInv, ApplierInv
<1>9. WindowInv(n)'
  <2>1. Len(c) <= lastApplied[n] /\ \A k \in 1..Len(c) : c[k] = (lastApplied[n] + k) - Len(c)
    <3>1. WindowInv(n)
      BY <1>1 DEF ReplicaInv
    <3> QED BY <3>1, Zenon DEF WindowInv
  <2> HIDE DEF c
  <2>2. ASSUME NEW k \in 1..(Len(c) + 1)
        PROVE  commitCh'[n][k] = (lastApplied'[n] + k) - (Len(c) + 1)
    <3>1. CASE k = Len(c) + 1
      BY <1>1, <1>2, <1>6, <1>7, <3>1
    <3>2. CASE k \in 1..Len(c)
      <4>1. commitCh'[n][k] = (lastApplied[n] + k) - Len(c)
        BY <1>7, <2>1, <3>2
      <4> QED BY <1>1, <1>6, <1>7, <3>2, <4>1
    <3> QED BY <1>7, <3>1, <3>2
  <2> QED BY <1>1, <1>6, <1>7, <2>1, <2>2 DEF WindowInv
<1>10. HandInv(n)'
  BY <1>1, <1>3, <1>6, <1>7 DEF ReplicaInv, HandInv
<1>11. AnnouncedInv(n)'
  <2>1. AnnouncedInv(n) /\ hand'[n] = hand[n] /\ announced' = announced /\ PipelineType
    BY <1>1, <1>3 DEF ReplicaInv, PipelineInv
  <2>2. lastApplied[n] + Len(commitCh'[n]) <= lastApplied'[n] + Len(commitCh[n])
    BY <1>1, <1>6, <1>7
  <2> QED BY <1>5, <2>1, <2>2, AnnouncedKept
<1> QED
  BY <1>5, <1>8, <1>9, <1>10, <1>11 DEF ReplicaInv

\* Steps of the applier that only move it.
LEMMA MoveStep ==
    ASSUME PipelineInv, NEW n \in Server, Tick(n) \/ FindFull(n) \/ Return(n)
    PROVE  PipelineType' /\ ReplicaInv(n)'
<1>1. /\ lastApplied[n] \in Nat /\ at[n] \in Nat /\ upTo[n] \in Nat /\ commitIndex[n] \in Nat
      /\ ReplicaInv(n)
  BY DEF PipelineInv, PipelineType
<1>2. UNCHANGED <<commitIndex, lastApplied, commitCh, hand, posting, announced>>
  BY DEF Tick, FindFull, Return, raftVars, notifierVars
<1>3. WindowInv(n)' /\ HandInv(n)' /\ AnnouncedInv(n)'
  BY <1>1, <1>2 DEF ReplicaInv, WindowInv, HandInv, AnnouncedInv
<1>4. PipelineType' /\ ApplierInv(n)'
  <2>1. CASE Tick(n)
    BY <1>1, <1>2, <2>1 DEF Tick, ToLoop, FirstToApply, LastToApply, PipelineInv, PipelineType,
        ReplicaInv, ApplierInv
  <2>2. CASE FindFull(n) \/ Return(n)
    BY <1>1, <1>2, <2>2 DEF FindFull, Return, PipelineInv, PipelineType, ReplicaInv, ApplierInv
  <2> QED BY <2>1, <2>2
<1> QED
  BY <1>3, <1>4 DEF ReplicaInv

\* The first entry leaves the channel.
LEMMA FirstLeaves ==
    ASSUME PipelineInv, NEW n \in Server, commitCh[n] # << >>,
           commitCh' = [commitCh EXCEPT ![n] = Tail(commitCh[n])],
           UNCHANGED lastApplied
    PROVE  /\ commitCh' \in [Server -> Seq(Nat)]
           /\ Len(commitCh[n]) \in Nat /\ Len(commitCh'[n]) = Len(commitCh[n]) - 1
           /\ Len(commitCh'[n]) \in Nat
           /\ Head(commitCh[n]) \in Nat
           /\ Head(commitCh[n]) + Len(commitCh'[n]) = lastApplied[n]
           /\ WindowInv(n)'
<1> DEFINE c == commitCh[n]
<1>1. /\ c \in Seq(Nat) /\ c # << >> /\ lastApplied[n] \in Nat /\ WindowInv(n)
  BY DEF PipelineInv, PipelineType, ReplicaInv
<1>2. /\ Tail(c) \in Seq(Nat) /\ Head(c) = c[1] /\ c[1] \in Nat
      /\ Len(c) \in Nat \ {0} /\ Len(Tail(c)) = Len(c) - 1
      /\ \A k \in 1..Len(Tail(c)) : Tail(c)[k] = c[k + 1]
  BY <1>1, HeadTailProperties
<1>3. commitCh'[n] = Tail(c) /\ commitCh' \in [Server -> Seq(Nat)]
  BY <1>2 DEF PipelineInv, PipelineType
<1>4. /\ Len(c) <= lastApplied[n]
      /\ \A k \in 1..Len(c) : c[k] = (lastApplied[n] + k) - Len(c)
  BY <1>1, Zenon DEF WindowInv
<1>0. commitCh[n] = c
  OBVIOUS
<1> HIDE DEF c
<1>5. c[1] = (lastApplied[n] + 1) - Len(c)
  BY <1>2, <1>4
<1>6. ASSUME NEW k \in 1..Len(Tail(c))
      PROVE  Tail(c)[k] = (lastApplied[n] + k) - Len(Tail(c))
  <2>1. k + 1 \in 1..Len(c) /\ Tail(c)[k] = c[k + 1]
    BY <1>2
  <2>2. c[k + 1] = (lastApplied[n] + (k + 1)) - Len(c)
    BY <1>4, <2>1
  <2> QED BY <1>1, <1>2, <2>1, <2>2
<1>7. WindowInv(n)'
  BY <1>1, <1>2, <1>3, <1>4, <1>6 DEF WindowInv
<1>8. Len(commitCh[n]) \in Nat /\ Len(commitCh'[n]) = Len(commitCh[n]) - 1
  BY <1>0, <1>2, <1>3
<1>9. Head(commitCh[n]) \in Nat /\ Head(commitCh[n]) = (lastApplied[n] + 1) - Len(commitCh[n])
  BY <1>0, <1>2, <1>5
<1>10. Len(commitCh'[n]) \in Nat
  BY <1>2, <1>3
<1>11. Head(commitCh[n]) + Len(commitCh'[n]) = lastApplied[n]
  <2> DEFINE first == Head(commitCh[n])
             old == Len(commitCh[n])
             new == Len(commitCh'[n])
             last == lastApplied[n]
  <2>1. /\ first \in Nat /\ old \in Nat /\ new \in Nat /\ last \in Nat
        /\ new = old - 1 /\ first = (last + 1) - old
    BY <1>1, <1>8, <1>9, <1>10
  <2>2. first + new = last
    <3> HIDE DEF first, old, new, last
    <3> QED BY <2>1
  <2> QED BY <2>2
<1> QED
  BY <1>3, <1>7, <1>8, <1>9, <1>10, <1>11

\* The applier drops an entry, or the notifier takes it.
LEMMA TailStep ==
    ASSUME PipelineInv, NEW n \in Server, DropOldest(n) \/ Take(n)
    PROVE  PipelineType' /\ ReplicaInv(n)'
<1>1. /\ commitCh[n] # << >> /\ commitCh' = [commitCh EXCEPT ![n] = Tail(commitCh[n])]
      /\ UNCHANGED <<commitIndex, lastApplied, at, upTo, posting, announced>>
  BY DEF DropOldest, Take, AfterDrop, raftVars, applierVars, notifierVars
<1>2. /\ commitCh' \in [Server -> Seq(Nat)]
      /\ Len(commitCh[n]) \in Nat /\ Len(commitCh'[n]) = Len(commitCh[n]) - 1
      /\ Len(commitCh'[n]) \in Nat
      /\ Head(commitCh[n]) \in Nat
      /\ Head(commitCh[n]) + Len(commitCh'[n]) = lastApplied[n]
      /\ WindowInv(n)'
  BY <1>1, FirstLeaves
<1>3. /\ ReplicaInv(n) /\ lastApplied[n] \in Nat /\ hand[n] \in Nat
      /\ PipelineType
  BY DEF PipelineInv, PipelineType
<1>4. CASE DropOldest(n)
  <2>1. hand' = hand /\ pc' = [pc EXCEPT ![n] = "resend"] /\ pc[n] = "drain"
    BY <1>4 DEF DropOldest, notifierVars
  <2>2. PipelineType'
    BY <1>1, <1>2, <1>3, <2>1 DEF PipelineType
  <2>3. ApplierInv(n)'
    BY <1>1, <1>3, <2>1 DEF ReplicaInv, ApplierInv, PipelineType
  <2>4. HandInv(n)'
    BY <1>1, <1>2, <1>3, <2>1 DEF ReplicaInv, HandInv
  <2>5. lastApplied[n] + Len(commitCh'[n]) <= lastApplied'[n] + Len(commitCh[n])
    BY <1>1, <1>2, <1>3
  <2>6. AnnouncedInv(n)'
    BY <1>1, <1>3, <2>1, <2>2, <2>5, AnnouncedKept DEF ReplicaInv
  <2> QED BY <1>2, <2>2, <2>3, <2>4, <2>6 DEF ReplicaInv
<1>5. CASE Take(n)
  <2>1. /\ hand' = [hand EXCEPT ![n] = Head(commitCh[n])] /\ hand[n] = 0 /\ pc' = pc
    BY <1>5 DEF Take, applierVars
  <2>2. PipelineType' /\ hand'[n] = Head(commitCh[n])
    BY <1>1, <1>2, <1>3, <2>1 DEF PipelineType
  <2>3. ApplierInv(n)'
    BY <1>1, <1>3, <2>1 DEF ReplicaInv, ApplierInv, PipelineType
  <2>4. HandInv(n)'
    <3>1. ~posting[n]
      BY <1>3, <2>1 DEF ReplicaInv, HandInv
    <3>2. hand'[n] + Len(commitCh'[n]) <= lastApplied'[n]
      BY <1>1, <1>2, <1>3, <2>2
    <3> QED BY <1>1, <3>1, <3>2 DEF HandInv
  <2>5. /\ lastApplied[n] + Len(commitCh'[n]) <= lastApplied'[n] + Len(commitCh[n])
        /\ hand'[n] + Len(commitCh[n]) > lastApplied[n]
    BY <1>1, <1>2, <1>3, <2>2
  <2>6. AnnouncedInv(n)'
    BY <1>1, <1>3, <2>2, <2>5, AnnouncedKept DEF ReplicaInv
  <2> QED BY <1>2, <2>2, <2>3, <2>4, <2>6 DEF ReplicaInv
<1> QED
  BY <1>4, <1>5

\* The notifier goes on to post, drops its entry, or fails to post it.
LEMMA HandStep ==
    ASSUME PipelineInv, NEW n \in Server, Decide(n) \/ PostFails(n)
    PROVE  PipelineType' /\ ReplicaInv(n)'
<1>1. /\ ReplicaInv(n) /\ PipelineType /\ hand[n] \in Nat /\ lastApplied[n] \in Nat
      /\ Len(commitCh[n]) \in Nat
  <2>1. commitCh[n] \in Seq(Nat)
    BY DEF PipelineInv, PipelineType
  <2> QED BY <2>1 DEF PipelineInv, PipelineType
<1>2. UNCHANGED <<commitIndex, applierVars, commitCh, announced>>
  BY DEF Decide, PostFails, Done, raftVars
<1>3. \/ hand' = hand /\ hand[n] # 0 /\ posting' = [posting EXCEPT ![n] = TRUE]
      \/ hand' = [hand EXCEPT ![n] = 0] /\ posting' = [posting EXCEPT ![n] = FALSE]
  <2>1. CASE PostFails(n)
    BY <2>1 DEF PostFails, Done
  <2>2. CASE Decide(n)
    <3>1. CASE Forwards(n)
      BY <2>2, <3>1, Zenon DEF Decide
    <3>2. CASE ~Forwards(n)
      <4>1. Forwards(n) = FALSE
        BY <3>2 DEF Forwards, PipelineInv, PipelineType
      <4> QED BY <2>2, <3>2, <4>1, Zenon DEF Decide
    <3> QED BY <3>1, <3>2
  <2> QED BY <2>1, <2>2
<1>4. PipelineType' /\ (hand'[n] = 0 \/ hand'[n] = hand[n])
  <2>1. /\ hand' \in [Server -> Nat] /\ posting' \in [Server -> BOOLEAN]
        /\ hand'[n] = 0 \/ hand'[n] = hand[n]
    <3>1. CASE hand' = hand /\ posting' = [posting EXCEPT ![n] = TRUE]
      BY <1>1, <3>1 DEF PipelineType
    <3>2. CASE hand' = [hand EXCEPT ![n] = 0] /\ posting' = [posting EXCEPT ![n] = FALSE]
      BY <1>1, <3>2 DEF PipelineType
    <3> QED BY <1>3, <3>1, <3>2
  <2> QED BY <1>1, <1>2, <2>1 DEF PipelineType, applierVars
<1>5. ApplierInv(n)' /\ WindowInv(n)'
  BY <1>1, <1>2 DEF ReplicaInv, ApplierInv, WindowInv, applierVars
<1>6. HandInv(n)'
  <2>1. /\ hand[n] + Len(commitCh[n]) <= lastApplied[n]
        /\ lastApplied'[n] = lastApplied[n] /\ commitCh'[n] = commitCh[n]
    BY <1>1, <1>2 DEF ReplicaInv, HandInv, applierVars
  <2>2. hand'[n] + Len(commitCh'[n]) <= lastApplied'[n]
    <3>1. hand'[n] \in Nat /\ hand'[n] <= hand[n]
      BY <1>1, <1>4
    <3> QED BY <1>1, <2>1, <3>1
  <2>3. posting'[n] => hand'[n] # 0
    <3>1. CASE hand' = hand /\ hand[n] # 0
      BY <3>1
    <3>2. CASE posting' = [posting EXCEPT ![n] = FALSE]
      BY <1>1, <3>2 DEF PipelineType
    <3> QED BY <1>3, <3>1, <3>2
  <2> QED BY <2>2, <2>3 DEF HandInv
<1>7. AnnouncedInv(n)'
  <2>1. lastApplied[n] + Len(commitCh'[n]) <= lastApplied'[n] + Len(commitCh[n])
    BY <1>1, <1>2 DEF applierVars
  <2> QED BY <1>1, <1>2, <1>4, <2>1, AnnouncedKept DEF ReplicaInv
<1> QED
  BY <1>4, <1>5, <1>6, <1>7 DEF ReplicaInv

\* The entry reaches the gateway: it comes after all that n has announced.
LEMMA PostStep ==
    ASSUME PipelineInv, NEW n \in Server, Post(n)
    PROVE  PipelineInv'
<1> DEFINE e == [from |-> n, index |-> hand[n]]
           N == Len(announced)
<1>1. /\ PipelineType /\ announced \in Seq(Announcement) /\ hand[n] \in Nat
      /\ \A m \in Server : ReplicaInv(m)
      /\ AnnouncedInOrder
  BY DEF PipelineInv, PipelineType
<1>2. /\ posting[n] /\ posting' = [posting EXCEPT ![n] = FALSE]
      /\ hand' = [hand EXCEPT ![n] = 0]
      /\ announced' = Append(announced, e)
      /\ UNCHANGED <<commitIndex, applierVars, commitCh>>
  BY DEF Post, Done, raftVars
<1>3. e \in Announcement /\ e.from = n /\ e.index = hand[n]
  BY <1>1 DEF Announcement
<1> HIDE DEF e
<1>4. /\ announced' \in Seq(Announcement) /\ N \in Nat /\ Len(announced') = N + 1
      /\ announced'[N + 1] = e
      /\ \A k \in 1..N : announced'[k] = announced[k]
  BY <1>1, <1>2, <1>3
<1>5. PipelineType'
  BY <1>1, <1>2, <1>4 DEF PipelineType, applierVars
<1>6. hand[n] # 0 /\ \A k \in 1..N : announced[k].from = n => announced[k].index < hand[n]
  BY <1>1, <1>2 DEF ReplicaInv, HandInv, AnnouncedInv
<1> HIDE DEF N
<1>7. AnnouncedInOrder'
  <2> SUFFICES ASSUME NEW j \in 1..(N + 1), NEW k \in 1..(N + 1), j < k,
                      announced'[j].from = announced'[k].from
               PROVE  announced'[j].index < announced'[k].index
    BY <1>4 DEF AnnouncedInOrder
  <2>1. j \in 1..N /\ announced'[j] = announced[j]
    BY <1>4
  <2>2. CASE k \in 1..N
    BY <1>1, <1>4, <2>1, <2>2 DEF AnnouncedInOrder, N
  <2>3. CASE k = N + 1
    BY <1>3, <1>4, <1>6, <2>1, <2>3
  <2> QED BY <1>4, <2>2, <2>3
<1>8. ASSUME NEW m \in Server
      PROVE  ReplicaInv(m)'
  <2>1. ReplicaInv(m) /\ Len(commitCh[m]) \in Nat /\ lastApplied[m] \in Nat /\ hand[m] \in Nat
    <3>1. commitCh[m] \in Seq(Nat)
      BY <1>1 DEF PipelineType
    <3> QED BY <1>1, <3>1 DEF PipelineType
  <2>2. ApplierInv(m)' /\ WindowInv(m)'
    BY <1>2, <2>1 DEF ReplicaInv, ApplierInv, WindowInv, applierVars
  <2>3. /\ hand'[m] = (IF m = n THEN 0 ELSE hand[m])
        /\ posting'[m] = (IF m = n THEN FALSE ELSE posting[m])
    BY <1>1, <1>2 DEF PipelineType
  <2>4. HandInv(m)'
    <3>1. /\ hand[m] + Len(commitCh[m]) <= lastApplied[m] /\ (posting[m] => hand[m] # 0)
          /\ lastApplied'[m] = lastApplied[m] /\ commitCh'[m] = commitCh[m]
      BY <1>2, <2>1 DEF ReplicaInv, HandInv, applierVars
    <3>2. CASE m = n
      BY <2>1, <2>3, <3>1, <3>2 DEF HandInv
    <3>3. CASE m # n
      BY <2>3, <3>1, <3>3 DEF HandInv
    <3> QED BY <3>2, <3>3
  <2>5. AnnouncedInv(m)'
    <3> SUFFICES ASSUME NEW k \in 1..(N + 1), announced'[k].from = m
                 PROVE  /\ announced'[k].index + Len(commitCh[m]) <= lastApplied[m]
                        /\ hand'[m] # 0 => announced'[k].index < hand'[m]
      BY <1>2, <1>4 DEF AnnouncedInv, applierVars
    <3>1. CASE k \in 1..N
      <4>1. /\ announced'[k] = announced[k]
            /\ announced[k].index + Len(commitCh[m]) <= lastApplied[m]
            /\ hand[m] # 0 => announced[k].index < hand[m]
        BY <1>4, <2>1, <3>1 DEF ReplicaInv, AnnouncedInv, N
      <4> QED BY <2>3, <4>1
    <3>2. CASE k = N + 1
      <4>1. m = n /\ announced'[k].index = hand[n]
        BY <1>3, <1>4, <3>2
      <4> QED BY <2>1, <2>3, <4>1 DEF ReplicaInv, HandInv
    <3> QED BY <1>4, <3>1, <3>2
  <2> QED BY <2>2, <2>4, <2>5 DEF ReplicaInv
<1> QED
  BY <1>5, <1>7, <1>8 DEF PipelineInv

-----------------------------------------------------------------------------
LEMMA PipelineNext ==
    ASSUME PipelineInv, [Next]_vars
    PROVE  PipelineInv'
<1>1. CASE UNCHANGED vars
  BY <1>1 DEF vars, raftVars, applierVars, notifierVars, PipelineInv, PipelineType, ReplicaInv,
      ApplierInv, WindowInv, HandInv, AnnouncedInv, AnnouncedInOrder
<1>2. ASSUME NEW n \in Server, BecomeLeader(n) \/ BecomeFollower(n)
      PROVE  PipelineInv'
  <2>1. UNCHANGED <<commitIndex, applierVars, commitCh, hand, posting, announced>>
    BY <1>2 DEF BecomeLeader, BecomeFollower, notifierVars
  <2> QED BY <2>1 DEF applierVars, PipelineInv, PipelineType, ReplicaInv, ApplierInv, WindowInv,
              HandInv, AnnouncedInv, AnnouncedInOrder
<1>3. ASSUME NEW n \in Server, NEW i \in Index, LeaderCommits(n, i) \/ FollowerCommits(n, i)
      PROVE  PipelineInv'
  BY <1>3, RaftStep
<1>4. ASSUME NEW n \in Server, Applier(n) \/ Take(n) \/ Decide(n) \/ PostFails(n)
      PROVE  PipelineInv'
  <2>1. AnnouncedInOrder' /\ \A m \in Server \ {n} : ReplicaInv(m)'
    BY <1>4, OtherReplicas
  <2>2. PipelineType' /\ ReplicaInv(n)'
    BY <1>4, PutStep, MoveStep, TailStep, HandStep DEF Applier
  <2> QED BY <2>1, <2>2 DEF PipelineInv
<1>5. ASSUME NEW n \in Server, Post(n)
      PROVE  PipelineInv'
  BY <1>5, PostStep
<1> QED
  BY <1>1, <1>2, <1>3, <1>4, <1>5 DEF Next, Notifier

LEMMA PipelineInvariant == Spec => []PipelineInv
BY PipelineInit, PipelineNext, PTL DEF Spec

\* The applier and the notifier, which take from the channel without a lock in
\* common, leave no gap in it, for every capacity.
THEOREM WindowKept == Spec => []ChannelIsWindow
<1>1. PipelineInv => ChannelIsWindow
  <2> SUFFICES ASSUME PipelineInv, NEW n \in Server
               PROVE  /\ lastApplied[n] <= commitIndex[n]
                      /\ \A k \in 1..Len(commitCh[n]) :
                             commitCh[n][k] = (lastApplied[n] + k) - Len(commitCh[n])
    BY DEF ChannelIsWindow
  <2>1. ApplierInv(n) /\ WindowInv(n)
    BY DEF PipelineInv, ReplicaInv
  <2> QED BY <2>1, Zenon DEF ApplierInv, WindowInv
<1> QED
  BY <1>1, PipelineInvariant, PTL

\* A replica never announces an entry twice or out of order, for every capacity,
\* however often it gains and loses the leadership.
THEOREM OrderKept == Spec => []AnnouncedInOrder
<1>1. PipelineInv => AnnouncedInOrder
  BY DEF PipelineInv
<1> QED
  BY <1>1, PipelineInvariant, PTL

=============================================================================
