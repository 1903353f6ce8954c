------------------------- MODULE RaftHistoryProofs -------------------------
(***************************************************************************)
(* Log matching, and the leader a replica names, for any cluster and any   *)
(* bounds.                                                                 *)
(*                                                                         *)
(* The argument is about the logs the leaders had: a history H gives every *)
(* term the log of its leader, as it is while the leader leads and as it   *)
(* was when it stopped.  Everything else is a part of some H[t]: a request *)
(* of term t is a segment of H[t], and a log that has an entry of term t   *)
(* agrees with H[t] up to it.  H is no variable of the specification: the  *)
(* inductive invariant says that there is such a history.                  *)
(***************************************************************************)
EXTENDS RaftElectionProofs

\* Both logs have i entries, and the same ones.
SamePrefix(l, g, i) == i <= Len(l) /\ i <= Len(g) /\ \A j \in 1..i : l[j] = g[j]

\* The entries of l are of terms up to t, and l agrees with the leader of each
\* entry's term up to that entry.
Rooted(H, l, t) == \A i \in 1..Len(l) : l[i].term <= t /\ SamePrefix(l, H[l[i].term], i)

\* Request m is cut out of log g.
IsSegment(m, g) ==
    /\ m.prevLogIndex + Len(m.entries) <= Len(g)
    /\ \A k \in 1..Len(m.entries) : m.entries[k] = g[m.prevLogIndex + k]
    /\ m.prevLogIndex > 0 => m.prevLogTerm = g[m.prevLogIndex].term

\* Whoever was elected leads, until its term is over.
ElectedInv ==
    \A n \in Server : \A t \in Terms : <<n, t>> \in elected =>
        currentTerm[n] >= t /\ (currentTerm[n] = t => state[n] = Leader)

\* The history itself, and what it has of a term before its election.
HistoryOK(H) ==
    /\ H \in [Terms -> Seq(Entry)]
    /\ \A t \in Terms : Rooted(H, H[t], t)
    /\ \A t \in Terms : (\A n \in Server : <<n, t>> \notin elected) => H[t] = << >>

\* The logs, the leaders' own among them.
LogsInv(H) ==
    /\ \A n \in Server : Rooted(H, log[n], currentTerm[n])
    /\ \A n \in Server : state[n] = Leader => H[currentTerm[n]] = log[n]

\* A leader sends what it has, so nextIndex stays within its log.
SendingInv(H) ==
    /\ \A n \in Server : state[n] = Leader =>
            \A p \in Server : nextIndex[n][p] <= Len(log[n]) + 1
    /\ \A m \in appendReqs : IsSegment(m, H[m.term])
    /\ \A r \in appendResps : r.lastSent <= Len(H[r.reqTerm]) /\ r.conflictIndex <= Len(H[r.reqTerm])

HistoryInv(H) == HistoryOK(H) /\ LogsInv(H) /\ SendingInv(H)

-----------------------------------------------------------------------------
(***************************************************************************)
(* Logs and prefixes.                                                      *)
(***************************************************************************)
LEMMA LogType ==
    ASSUME NEW l \in Seq(Entry)
    PROVE  Len(l) \in Nat /\ \A i \in 1..Len(l) : l[i] \in Entry /\ l[i].term \in Terms
<1>1. Len(l) \in Nat /\ \A i \in 1..Len(l) : l[i] \in Entry
  BY LenProperties, ElementOfSeq
<1> QED BY <1>1 DEF Entry

LEMMA SamePrefixSubSeq ==
    ASSUME NEW l \in Seq(Entry), NEW g \in Seq(Entry), NEW i \in Nat, i <= Len(l), i <= Len(g)
    PROVE  SamePrefix(l, g, i) <=> SubSeq(l, 1, i) = SubSeq(g, 1, i)
<1>1. Len(l) \in Nat /\ Len(g) \in Nat /\ \A j \in 1..i : l[j] \in Entry /\ g[j] \in Entry
  BY LenProperties, ElementOfSeq
<1> DEFINE a == SubSeq(l, 1, i)
           b == SubSeq(g, 1, i)
<1>2. /\ a \in Seq(Entry) /\ Len(a) = i /\ \A j \in 1..i : a[j] = l[j]
      /\ b \in Seq(Entry) /\ Len(b) = i /\ \A j \in 1..i : b[j] = g[j]
  BY <1>1, SubSeqProperties
<1> HIDE DEF a, b
<1>3. a = b <=> \A j \in 1..i : l[j] = g[j]
  BY <1>2, SeqEqual
<1> QED
  BY <1>1, <1>3 DEF SamePrefix, a, b

\* Two logs that both stem from the history and have entries of one term at one
\* index are the same up to there.
LEMMA RootedMeet ==
    ASSUME NEW H, NEW l \in Seq(Entry), NEW g \in Seq(Entry), NEW t, NEW u,
           Rooted(H, l, t), Rooted(H, g, u),
           NEW i \in 1..Len(l), i <= Len(g), l[i].term = g[i].term
    PROVE  SamePrefix(l, g, i)
<1>1. Len(l) \in Nat /\ Len(g) \in Nat
  BY LogType
<1>2. SamePrefix(l, H[l[i].term], i) /\ SamePrefix(g, H[l[i].term], i)
  BY <1>1 DEF Rooted
<1> QED
  BY <1>1, <1>2 DEF SamePrefix

\* What a follower that accepts m has afterwards, when m is cut out of the leader's
\* log g: the leader's entries up to the last one sent, and whatever it shared with
\* the leader before.
LEMMA AcceptResult ==
    ASSUME NEW H, NEW l \in Seq(Entry), NEW g \in Seq(Entry), NEW t, NEW u,
           Rooted(H, l, t), Rooted(H, g, u),
           NEW m \in AppendEntriesRequest, IsSegment(m, g), PrevMatches(l, m)
    PROVE  LET r == AppendEntries(l, m.prevLogIndex, m.entries)
               last == m.prevLogIndex + Len(m.entries)
           IN  /\ m.prevLogIndex <= Len(l)
               /\ r \in Seq(Entry)
               /\ SamePrefix(r, g, last)
               /\ r = l \/ Len(r) = last
               /\ \A i \in Nat : SamePrefix(l, g, i) => SamePrefix(r, l, i)
<1> DEFINE prev == m.prevLogIndex
           es == m.entries
           r == AppendEntries(l, prev, es)
<1>0. prev \in Nat /\ es \in Seq(Entry)
  BY DEF AppendEntriesRequest
<1>1. Len(l) \in Nat /\ Len(g) \in Nat /\ Len(es) \in Nat
  BY <1>0, LogType
<1>2. prev <= Len(l)
  BY <1>0, <1>1 DEF PrevMatches
<1>3. SamePrefix(l, g, prev)
  <2>1. CASE prev = 0
    BY <1>1, <2>1 DEF SamePrefix
  <2>2. CASE prev > 0
    <3>1. prev \in 1..Len(l) /\ prev <= Len(g) /\ l[prev].term = g[prev].term
      BY <1>0, <1>1, <1>2, <2>2 DEF PrevMatches, IsSegment
    <3> QED BY <3>1, RootedMeet
  <2> QED BY <1>0, <2>1, <2>2
<1>4. r \in Seq(Entry)
  BY <1>0, <1>2, AppendEntriesType
<1>5. PICK k \in 1..(Len(es) + 1) : Appended(l, prev, es, k, r)
  BY <1>0, <1>2, AppendEntriesResult
<1>6. prev + Len(es) <= Len(g) /\ \A j \in 1..Len(es) : es[j] = g[prev + j]
  BY DEF IsSegment
<1> HIDE DEF prev, es, r
<1>7. SamePrefix(l, g, prev + k - 1)
  <2>1. CASE k = 1
    <3>1. prev + k - 1 = prev
      BY <1>0, <2>1
    <3> QED BY <1>3, <3>1
  <2>2. CASE k > 1
    <3>1. k - 1 \in 1..(k - 1) /\ k - 1 \in 1..Len(es) /\ prev + (k - 1) = prev + k - 1
      BY <1>0, <1>1, <2>2
    <3>2. l[prev + (k - 1)].term = g[prev + (k - 1)].term
      BY <1>5, <1>6, <3>1 DEF Appended
    <3>3. prev + (k - 1) \in 1..Len(l) /\ prev + (k - 1) <= Len(g)
      BY <1>0, <1>1, <1>5, <1>6, <2>2, <3>1 DEF Appended
    <3>4. SamePrefix(l, g, prev + (k - 1))
      BY <3>2, <3>3, RootedMeet
    <3> QED BY <3>1, <3>4
  <2> QED BY <2>1, <2>2
<1>8. CASE k > Len(es)
  <2>1. r = l /\ prev + k - 1 = prev + Len(es)
    <3>1. k = Len(es) + 1
      BY <1>0, <1>1, <1>8
    <3> QED BY <1>0, <1>1, <1>5, <1>8, <3>1 DEF Appended
  <2>2. \A i \in Nat : SamePrefix(l, g, i) => SamePrefix(r, l, i)
    BY <2>1 DEF SamePrefix
  <2> QED BY <1>2, <1>4, <1>7, <2>1, <2>2 DEF prev, es, r
<1>9. CASE k <= Len(es)
  <2>1. ASSUME NEW j \in 1..(prev + Len(es))
        PROVE  r[j] = g[j]
    <3>1. CASE j <= prev + k - 1
      BY <1>0, <1>1, <1>5, <1>7, <1>9, <3>1 DEF SamePrefix, Appended
    <3>2. CASE j > prev + k - 1
      <4>1. j - prev \in k..Len(es) /\ j - prev \in 1..Len(es) /\ prev + (j - prev) = j
        BY <1>0, <1>1, <3>2
      <4>2. r[prev + (j - prev)] = es[j - prev] /\ es[j - prev] = g[prev + (j - prev)]
        BY <1>5, <1>6, <1>9, <4>1 DEF Appended
      <4> QED BY <4>1, <4>2
    <3> QED BY <1>0, <1>1, <3>1, <3>2
  <2>2. SamePrefix(r, g, prev + Len(es))
    BY <1>0, <1>1, <1>5, <1>6, <1>9, <2>1 DEF SamePrefix, Appended
  <2>3. ASSUME NEW i \in Nat, SamePrefix(l, g, i)
        PROVE  SamePrefix(r, l, i)
    <3>1. ~(prev + k <= i)
      <4> SUFFICES ASSUME prev + k <= i
                   PROVE  FALSE
        OBVIOUS
      <4>1. prev + k <= Len(l) /\ l[prev + k] = g[prev + k] /\ k \in 1..Len(es)
        BY <1>0, <1>1, <1>9, <2>3 DEF SamePrefix
      <4> QED BY <1>5, <1>6, <1>9, <4>1 DEF Appended
    <3> QED BY <1>0, <1>1, <1>5, <1>9, <2>3, <3>1 DEF SamePrefix, Appended
  <2> QED BY <1>2, <1>4, <1>5, <1>9, <2>2, <2>3 DEF Appended, prev, es, r
<1> QED
  BY <1>1, <1>8, <1>9

-----------------------------------------------------------------------------
(***************************************************************************)
(* Who leads, who stands, and whom a replica follows.                      *)
(***************************************************************************)

\* What one step may do: v names no leader, or the one it named before in this
\* term, or one that was elected in it; a leader leads as long as its term lasts;
\* and only the election timer makes a candidate.
LeadStep(v) ==
    /\ \/ leaderID'[v] = Nil
       \/ leaderID'[v] = leaderID[v] /\ currentTerm'[v] = currentTerm[v]
       \/ <<leaderID'[v], currentTerm'[v]>> \in elected'
    /\ state[v] = Leader /\ currentTerm'[v] = currentTerm[v] => state'[v] = Leader
    /\ state'[v] = Candidate =>
        \/ state[v] = Candidate /\ currentTerm'[v] = currentTerm[v]
        \/ StartElection(v)

LEMMA SetNodeFields ==
    ASSUME TypeOK, NEW n \in Server, NEW s, SetNode(n, s)
    PROVE  /\ state'[n] = s.state /\ currentTerm'[n] = s.term /\ leaderID'[n] = s.leaderID
           /\ \A v \in Server \ {n} : /\ state'[v] = state[v]
                                      /\ currentTerm'[v] = currentTerm[v]
                                      /\ leaderID'[v] = leaderID[v]
BY DEF TypeOK, SetNode

\* Only the replica whose fields are set needs a look.
LEMMA OneLeadStep ==
    ASSUME TypeOK, NEW n \in Server, NEW s, SetNode(n, s), LeadStep(n)
    PROVE  \A v \in Server : LeadStep(v)
<1>1. ASSUME NEW v \in Server \ {n}
      PROVE  LeadStep(v)
  BY SetNodeFields DEF LeadStep
<1> QED
  BY <1>1

LEMMA UnchangedLeadStep ==
    ASSUME UNCHANGED nodeVars
    PROVE  \A v \in Server : LeadStep(v)
BY DEF LeadStep, nodeVars

\* stepDown, and the replies that carry a higher term.
LEMMA HigherTermLeadStep ==
    ASSUME TypeOK, NEW n \in Server, NEW t \in Terms, t > currentTerm[n],
           SetNode(n, BecomeFollower(t, Nil))
    PROVE  \A v \in Server : LeadStep(v)
<1>1. currentTerm'[n] = t /\ state'[n] = Follower /\ leaderID'[n] = Nil
  BY SetNodeFields DEF BecomeFollower
<1>2. currentTerm[n] \in Nat /\ t \in Nat
  BY DEF TypeOK, Terms
<1>3. LeadStep(n)
  BY <1>1, <1>2 DEF LeadStep, Follower, Candidate
<1> QED
  BY <1>3, OneLeadStep

\* The fields of a follower that heeds a request.
LEMMA FollowLeaderEffect ==
    ASSUME TypeOK, NEW m \in AppendEntriesRequest, m.term >= currentTerm[m.to],
           SetNode(m.to, FollowLeader(m))
    PROVE  /\ state'[m.to] = Follower /\ currentTerm'[m.to] = m.term /\ leaderID'[m.to] = m.from
           /\ \A v \in Server \ {m.to} : /\ state'[v] = state[v]
                                         /\ currentTerm'[v] = currentTerm[v]
                                         /\ leaderID'[v] = leaderID[v]
<1>1. m.to \in Server /\ m.term \in Nat /\ currentTerm[m.to] \in Nat
  BY DEF AppendEntriesRequest, TypeOK, Terms
<1>2. /\ FollowLeader(m).state = Follower /\ FollowLeader(m).term = m.term
      /\ FollowLeader(m).leaderID = m.from
  <2>1. CASE m.term > currentTerm[m.to]
    BY <2>1 DEF FollowLeader, StepDown, BecomeFollower
  <2>2. CASE m.term = currentTerm[m.to]
    <3>1. StepDown(m.to, m.term) = NodeFields(m.to)
      BY <1>1, <2>2 DEF StepDown
    <3> QED BY <2>2, <3>1 DEF FollowLeader, NodeFields, BecomeFollower
  <2> QED BY <1>1, <2>1, <2>2
<1> QED
  BY <1>1, <1>2, SetNodeFields

LEMMA LeadHandleVoteRequest ==
    ASSUME TypeOK, NEW m \in VoteRequest, HandleVoteRequest(m)
    PROVE  \A v \in Server : LeadStep(v)
<1> DEFINE n == m.to
           s == StepDown(n, m.term)
           granted == VoteGranted(m)
           t == IF granted THEN [s EXCEPT !.votedFor = m.from, !.term = m.term] ELSE s
<1>1. n \in Server /\ m.term \in Nat /\ currentTerm[n] \in Nat
  BY DEF VoteRequest, TypeOK, Terms
<1>2. SetNode(n, t)
  BY DEF HandleVoteRequest, CastVote
<1>3. granted => m.term >= s.term
  BY DEF VoteGranted
<1>4. s \in NodeState
  BY <1>1, StepDownType DEF Terms
<1>5. t.state = s.state /\ t.leaderID = s.leaderID /\ (t.term = s.term \/ (granted /\ t.term = m.term))
  <2> HIDE DEF s, granted
  <2> QED BY <1>4 DEF NodeState
<1> HIDE DEF t, granted
<1>6. CASE m.term > currentTerm[n]
  <2>1. s.state = Follower /\ s.leaderID = Nil /\ s.term = m.term
    BY <1>6 DEF StepDown, BecomeFollower
  <2> HIDE DEF s
  <2>2. state'[n] = Follower /\ leaderID'[n] = Nil /\ currentTerm'[n] = m.term
    BY <1>1, <1>2, <1>5, <2>1, SetNodeFields
  <2>3. LeadStep(n)
    BY <1>1, <1>6, <2>2 DEF LeadStep, Follower, Candidate
  <2> QED BY <1>1, <1>2, <2>3, OneLeadStep
<1>7. CASE ~(m.term > currentTerm[n])
  <2>1. s.state = state[n] /\ s.leaderID = leaderID[n] /\ s.term = currentTerm[n]
    BY <1>7 DEF StepDown, NodeFields
  <2> HIDE DEF s
  <2>2. t.term = currentTerm[n]
    BY <1>1, <1>3, <1>5, <1>7, <2>1
  <2>3. state'[n] = state[n] /\ leaderID'[n] = leaderID[n] /\ currentTerm'[n] = currentTerm[n]
    BY <1>1, <1>2, <1>5, <2>1, <2>2, SetNodeFields
  <2>4. LeadStep(n)
    BY <2>3 DEF LeadStep
  <2> QED BY <1>1, <1>2, <2>4, OneLeadStep
<1> QED
  BY <1>6, <1>7

LEMMA LeadHandleAppendEntries ==
    ASSUME TypeOK, ElectionInv, NEW m \in appendReqs, HandleAppendEntries(m)
    PROVE  \A v \in Server : LeadStep(v)
<1>1. /\ m \in AppendEntriesRequest /\ m.to \in Server /\ m.from \in Server
      /\ m.term \in Nat /\ currentTerm[m.to] \in Nat
  BY DEF TypeOK, AppendEntriesRequest, Terms
<1>2. CASE UNCHANGED nodeVars
  BY <1>2, UnchangedLeadStep
<1>3. CASE SetNode(m.to, FollowLeader(m)) /\ m.term >= currentTerm[m.to]
  <2>1. state'[m.to] = Follower /\ currentTerm'[m.to] = m.term /\ leaderID'[m.to] = m.from
    BY <1>1, <1>3, FollowLeaderEffect
  <2>2. m.from # m.to /\ <<m.from, m.term>> \in elected /\ elected' = elected
    BY DEF ElectionInv, CallsInv, HandleAppendEntries, historyVars
  <2>3. ~(state[m.to] = Leader /\ m.term = currentTerm[m.to])
    BY <1>1, <2>2 DEF ElectionInv, LeaderInv, ElectionSafety
  <2>4. LeadStep(m.to)
    BY <2>1, <2>2, <2>3 DEF LeadStep, Follower, Candidate
  <2> QED BY <1>1, <1>3, <2>4, OneLeadStep
<1> QED
  BY <1>2, <1>3 DEF HandleAppendEntries, RejectStale, RejectMismatch, PanicOnCommitted, AcceptEntries

\* Every step, on every replica.
LEMMA LeadNext ==
    ASSUME TypeOK, ElectionInv, [Next]_vars
    PROVE  \A v \in Server : LeadStep(v)
<1>1. ASSUME NEW n \in Server, StartElection(n)
      PROVE  \A v \in Server : LeadStep(v)
  <2> DEFINE s == [state |-> Candidate, term |-> currentTerm[n] + 1, votedFor |-> n, leaderID |-> Nil]
  <2>1. SetNode(n, s) /\ state[n] # Leader
    BY <1>1 DEF StartElection
  <2>2. leaderID'[n] = Nil
    BY <2>1, SetNodeFields
  <2>3. LeadStep(n)
    BY <1>1, <2>1, <2>2 DEF LeadStep
  <2> QED BY <2>1, <2>3, OneLeadStep
<1>2. ASSUME NEW n \in Server, FinishElection(n)
      PROVE  \A v \in Server : LeadStep(v)
  <2> DEFINE s == [NodeFields(n) EXCEPT !.state = Leader, !.leaderID = n]
  <2>1. CASE UNCHANGED nodeVars
    BY <2>1, UnchangedLeadStep
  <2>2. CASE SetNode(n, s) /\ <<n, currentTerm[n]>> \in elected'
    <3>1. s.state = Leader /\ s.term = currentTerm[n] /\ s.leaderID = n
      BY DEF NodeFields
    <3> HIDE DEF s
    <3>2. state'[n] = Leader /\ currentTerm'[n] = currentTerm[n] /\ leaderID'[n] = n
      BY <2>2, <3>1, SetNodeFields
    <3>3. LeadStep(n)
      BY <2>2, <3>2 DEF LeadStep, Leader, Candidate
    <3> QED BY <2>2, <3>3, OneLeadStep
  <2> QED BY <1>2, <2>1, <2>2 DEF FinishElection
<1>3. ASSUME NEW m \in voteReqs, HandleVoteRequest(m)
      PROVE  \A v \in Server : LeadStep(v)
  BY <1>3, LeadHandleVoteRequest DEF TypeOK
<1>4. ASSUME NEW r \in voteResps, HandleVoteResponse(r)
      PROVE  \A v \in Server : LeadStep(v)
  <2>1. r.to \in Server /\ r.term \in Terms
    BY DEF TypeOK, VoteResponse
  <2> QED BY <1>4, <2>1, HigherTermLeadStep, UnchangedLeadStep DEF HandleVoteResponse
<1>5. ASSUME NEW m \in appendReqs, HandleAppendEntries(m)
      PROVE  \A v \in Server : LeadStep(v)
  BY <1>5, LeadHandleAppendEntries
<1>6. ASSUME NEW r \in appendResps, HandleAppendResponse(r)
      PROVE  \A v \in Server : LeadStep(v)
  <2>1. r.to \in Server /\ r.term \in Terms
    BY DEF TypeOK, AppendEntriesResponse
  <2> QED BY <1>6, <2>1, HigherTermLeadStep, UnchangedLeadStep DEF HandleAppendResponse
<1>7. CASE UNCHANGED nodeVars
  BY <1>7, UnchangedLeadStep
<1> QED
  BY <1>1, <1>2, <1>3, <1>4, <1>5, <1>6, <1>7
  DEF Next, vars, HandleStroke, SendAppendEntries, LoseRequest, LoseResponse

LEMMA LeaderIDInit == Init => LeaderIDCorrect
BY DEF Init, LeaderIDCorrect

LEMMA ElectedGrows ==
    ASSUME [Next]_vars
    PROVE  elected \subseteq elected'
BY DEF Next, vars, historyVars, StartElection, FinishElection, HandleVoteRequest,
    HandleVoteResponse, HandleStroke, SendAppendEntries, HandleAppendEntries,
    HandleAppendResponse, LoseRequest, LoseResponse

LEMMA LeaderIDNext ==
    ASSUME TypeOK, ElectionInv, LeaderIDCorrect, [Next]_vars
    PROVE  LeaderIDCorrect'
<1>1. \A v \in Server : LeadStep(v)
  BY LeadNext
<1>2. elected \subseteq elected'
  BY ElectedGrows
<1> QED
  BY <1>1, <1>2 DEF LeaderIDCorrect, LeadStep

\* Whatever calls arrive late or twice, a replica names only a leader of the very
\* term it is in: the hint of a refused stroke, and /status, are never of another term.
THEOREM LeaderNamedIsElected == Spec => []LeaderIDCorrect
<1>1. Init => TypeOK /\ ElectionInv /\ LeaderIDCorrect
  BY TypeInit, ElectionInit, LeaderIDInit
<1>2. TypeOK /\ ElectionInv /\ LeaderIDCorrect /\ [Next]_vars
        => (TypeOK /\ ElectionInv /\ LeaderIDCorrect)'
  BY TypeNext, ElectionNext, LeaderIDNext
<1> QED
  BY <1>1, <1>2, PTL DEF Spec


-----------------------------------------------------------------------------
(***************************************************************************)
(* Leaders, from their election to the end of their term.                  *)
(***************************************************************************)

\* The step in which n becomes leader.
Elects(n) ==
    FinishElection(n) /\ state[n] = Candidate /\ currentTerm[n] = electionTerm[n] /\ Wins(n)

\* The winner of an election has the term and the log it stood with.
LEMMA ElectsEffect ==
    ASSUME TypeOK, NEW n \in Server, Elects(n)
    PROVE  /\ state'[n] = Leader /\ currentTerm' = currentTerm
           /\ \A v \in Server \ {n} : state'[v] = state[v]
           /\ elected' = elected \cup {<<n, currentTerm[n]>>}
           /\ \A p \in Server : nextIndex'[n][p] = Len(log[n]) + 1 /\ matchIndex'[n][p] = 0
           /\ \A v \in Server \ {n} : nextIndex'[v] = nextIndex[v] /\ matchIndex'[v] = matchIndex[v]
           /\ UNCHANGED <<log, commitIndex, voteReqs, appendReqs, appendResps>>
<1> DEFINE s == [NodeFields(n) EXCEPT !.state = Leader, !.leaderID = n]
<1>1. SetNode(n, s)
  BY DEF Elects, FinishElection
<1>2. s.state = Leader /\ s.term = currentTerm[n]
  BY DEF NodeFields
<1> HIDE DEF s
<1>3. /\ state'[n] = Leader
      /\ \A v \in Server \ {n} : state'[v] = state[v]
  BY <1>1, <1>2, SetNodeFields
<1>4. currentTerm' = currentTerm
  BY <1>1, <1>2 DEF SetNode, TypeOK
<1>5. /\ elected' = elected \cup {<<n, currentTerm[n]>>}
      /\ nextIndex' = [nextIndex EXCEPT ![n] = [p \in Server |-> InitialNextIndex(n)]]
      /\ matchIndex' = [matchIndex EXCEPT ![n] = [p \in Server |-> 0]]
      /\ UNCHANGED <<log, commitIndex, voteReqs, appendReqs, appendResps>>
  BY DEF Elects, FinishElection, logVars
<1>6. /\ \A p \in Server : nextIndex'[n][p] = Len(log[n]) + 1 /\ matchIndex'[n][p] = 0
      /\ \A v \in Server \ {n} : nextIndex'[v] = nextIndex[v] /\ matchIndex'[v] = matchIndex[v]
  BY <1>5 DEF TypeOK, InitialNextIndex, LastIndex
<1> QED
  BY <1>3, <1>4, <1>5, <1>6

\* A step that elects nobody.
LEMMA ElectedUnchanged ==
    ASSUME [Next]_vars, \A n \in Server : ~Elects(n)
    PROVE  elected' = elected
<1>1. ASSUME NEW n \in Server, FinishElection(n)
      PROVE  elected' = elected
  BY <1>1 DEF FinishElection, Elects
<1> QED
  BY <1>1
  DEF Next, vars, historyVars, StartElection, HandleVoteRequest, HandleVoteResponse,
      HandleStroke, SendAppendEntries, HandleAppendEntries, HandleAppendResponse, LoseRequest,
      LoseResponse

LEMMA ElectedInvInit == Init => ElectedInv
BY DEF Init, ElectedInv

LEMMA ElectedInvNext ==
    ASSUME TypeOK, ElectionInv, ElectedInv, [Next]_vars
    PROVE  ElectedInv'
<1>1. \A v \in Server : LeadStep(v) /\ currentTerm'[v] >= currentTerm[v]
  BY LeadNext, NodeNext DEF NodeStep, KeepsVote
<1>2. \A v \in Server : currentTerm[v] \in Nat /\ currentTerm'[v] \in Nat
  BY TypeNext DEF TypeOK, Terms
<1> SUFFICES ASSUME NEW v \in Server, NEW t \in Terms, <<v, t>> \in elected'
             PROVE  currentTerm'[v] >= t /\ (currentTerm'[v] = t => state'[v] = Leader)
  BY DEF ElectedInv
<1>3. t \in Nat
  BY DEF Terms
<1>4. CASE <<v, t>> \in elected
  <2>1. currentTerm[v] >= t /\ (currentTerm[v] = t => state[v] = Leader)
    BY <1>4 DEF ElectedInv
  <2>2. state[v] = Leader /\ currentTerm'[v] = currentTerm[v] => state'[v] = Leader
    BY <1>1 DEF LeadStep
  <2> QED BY <1>1, <1>2, <1>3, <2>1, <2>2
<1>5. CASE <<v, t>> \notin elected
  <2>1. PICK n \in Server : Elects(n)
    BY <1>5, ElectedUnchanged
  <2>2. /\ state'[n] = Leader /\ currentTerm' = currentTerm
        /\ elected' = elected \cup {<<n, currentTerm[n]>>}
    BY <2>1, ElectsEffect
  <2>3. v = n /\ t = currentTerm[n]
    BY <1>5, <2>2
  <2> QED BY <1>2, <2>2, <2>3
<1> QED
  BY <1>4, <1>5

\* A leader has just been elected, or has led this term already.
LEMMA LeaderBefore ==
    ASSUME TypeOK, ElectionInv, ElectedInv, [Next]_vars, NEW n \in Server, state'[n] = Leader
    PROVE  Elects(n) \/ (state[n] = Leader /\ currentTerm'[n] = currentTerm[n])
<1>1. NodeStep(n)
  BY NodeNext
<1>2. currentTerm[n] \in Nat /\ currentTerm'[n] \in Nat /\ currentTerm'[n] \in Terms
  BY TypeNext DEF TypeOK, Terms
<1>3. CASE <<n, currentTerm'[n]>> \in elected
  <2>1. /\ currentTerm[n] >= currentTerm'[n]
        /\ currentTerm[n] = currentTerm'[n] => state[n] = Leader
    BY <1>2, <1>3 DEF ElectedInv
  <2>2. currentTerm'[n] >= currentTerm[n]
    BY <1>1 DEF NodeStep, KeepsVote
  <2> QED BY <1>2, <2>1, <2>2
<1>4. CASE <<n, currentTerm'[n]>> \in elected' /\ <<n, currentTerm'[n]>> \notin elected
  <2>1. PICK c \in Server : Elects(c)
    BY <1>4, ElectedUnchanged
  <2>2. elected' = elected \cup {<<c, currentTerm[c]>>}
    BY <2>1, ElectsEffect
  <2> QED BY <1>4, <2>1, <2>2
<1> QED
  BY <1>1, <1>3, <1>4 DEF NodeStep

\* The term of a new leader was never led before.
LEMMA FreshTerm ==
    ASSUME TypeOK, ElectionInv, ElectedInv, [Next]_vars, NEW n \in Server, Elects(n)
    PROVE  \A p \in Server : <<p, currentTerm[n]>> \notin elected
<1> SUFFICES ASSUME NEW p \in Server, <<p, currentTerm[n]>> \in elected
             PROVE  FALSE
  OBVIOUS
<1>1. <<n, currentTerm[n]>> \in elected' /\ <<p, currentTerm[n]>> \in elected'
  BY ElectsEffect
<1>2. ElectionSafety'
  BY ElectionNext DEF ElectionInv
<1>3. p = n
  BY <1>1, <1>2 DEF ElectionSafety
<1>4. state[n] = Leader
  BY <1>3 DEF ElectedInv, TypeOK
<1> QED
  BY <1>4 DEF Elects, Leader, Candidate


-----------------------------------------------------------------------------
(***************************************************************************)
(* How the history grows: by the log of a new leader, or by a stroke.      *)
(***************************************************************************)
Extends(H, G) ==
    \A t \in Terms : SamePrefix(H[t], G[t], Len(H[t]))

\* What stems from a history stems from the longer one.
LEMMA RootedExtends ==
    ASSUME NEW H \in [Terms -> Seq(Entry)], NEW G \in [Terms -> Seq(Entry)], Extends(H, G),
           NEW l \in Seq(Entry), NEW t, Rooted(H, l, t)
    PROVE  Rooted(G, l, t)
<1> SUFFICES ASSUME NEW i \in 1..Len(l)
             PROVE  l[i].term <= t /\ SamePrefix(l, G[l[i].term], i)
  BY DEF Rooted
<1>1. l[i].term \in Terms /\ Len(l) \in Nat
  BY LogType
<1>2. l[i].term <= t /\ SamePrefix(l, H[l[i].term], i)
  BY DEF Rooted
<1> DEFINE h == H[l[i].term]
           g == G[l[i].term]
<1>3. SamePrefix(h, g, Len(h)) /\ h \in Seq(Entry) /\ g \in Seq(Entry)
  BY <1>1 DEF Extends
<1> HIDE DEF h, g
<1>4. Len(h) \in Nat /\ Len(g) \in Nat
  BY <1>3, LogType
<1>5. SamePrefix(l, h, i)
  BY <1>2 DEF h
<1>6. SamePrefix(l, g, i)
  BY <1>1, <1>3, <1>4, <1>5 DEF SamePrefix
<1> QED
  BY <1>2, <1>6 DEF g

LEMMA SegmentExtends ==
    ASSUME NEW h \in Seq(Entry), NEW g \in Seq(Entry), SamePrefix(h, g, Len(h)),
           NEW m \in AppendEntriesRequest, IsSegment(m, h)
    PROVE  IsSegment(m, g)
<1>1. /\ m.prevLogIndex \in Nat /\ Len(m.entries) \in Nat
      /\ Len(h) \in Nat /\ Len(g) \in Nat
  BY LogType DEF AppendEntriesRequest
<1>2. m.prevLogIndex + Len(m.entries) <= Len(g)
  BY <1>1 DEF IsSegment, SamePrefix
<1>3. ASSUME NEW k \in 1..Len(m.entries)
      PROVE  m.entries[k] = g[m.prevLogIndex + k]
  <2>1. m.prevLogIndex + k \in 1..Len(h)
    BY <1>1 DEF IsSegment
  <2> QED BY <2>1 DEF IsSegment, SamePrefix
<1>4. ASSUME m.prevLogIndex > 0
      PROVE  m.prevLogTerm = g[m.prevLogIndex].term
  <2>1. m.prevLogIndex \in 1..Len(h)
    BY <1>1, <1>4 DEF IsSegment
  <2> QED BY <1>4, <2>1 DEF IsSegment, SamePrefix
<1> QED
  BY <1>2, <1>3, <1>4 DEF IsSegment

\* Replacing the log of term t by a longer one that stems from the new history.
LEMMA HistoryGrows ==
    ASSUME NEW H \in [Terms -> Seq(Entry)], NEW t \in Terms, NEW l \in Seq(Entry),
           NEW G, G = [H EXCEPT ![t] = l], SamePrefix(H[t], l, Len(H[t]))
    PROVE  /\ G \in [Terms -> Seq(Entry)] /\ Extends(H, G)
           /\ G[t] = l /\ \A u \in Terms \ {t} : G[u] = H[u]
<1>1. G \in [Terms -> Seq(Entry)] /\ G[t] = l /\ \A u \in Terms \ {t} : G[u] = H[u]
  OBVIOUS
<1>2. ASSUME NEW u \in Terms \ {t}
      PROVE  SamePrefix(H[u], G[u], Len(H[u]))
  <2>1. G[u] = H[u] /\ Len(H[u]) \in Nat
    BY <1>1, LogType
  <2> QED BY <2>1 DEF SamePrefix
<1> QED
  BY <1>1, <1>2 DEF Extends


\* The calls in flight, when nothing is sent.
LEMMA CallsExtend ==
    ASSUME TypeOK, NEW H \in [Terms -> Seq(Entry)], NEW G \in [Terms -> Seq(Entry)],
           Extends(H, G), SendingInv(H), UNCHANGED <<appendReqs, appendResps>>
    PROVE  /\ \A m \in appendReqs' : IsSegment(m, G[m.term])
           /\ \A r \in appendResps' :
                r.lastSent <= Len(G[r.reqTerm]) /\ r.conflictIndex <= Len(G[r.reqTerm])
<1>1. ASSUME NEW m \in appendReqs
      PROVE  IsSegment(m, G[m.term])
  <2>1. m \in AppendEntriesRequest /\ m.term \in Terms
    BY DEF TypeOK, AppendEntriesRequest
  <2>2. /\ H[m.term] \in Seq(Entry) /\ G[m.term] \in Seq(Entry)
        /\ SamePrefix(H[m.term], G[m.term], Len(H[m.term])) /\ IsSegment(m, H[m.term])
    BY <2>1 DEF Extends, SendingInv
  <2> QED BY <2>1, <2>2, SegmentExtends
<1>2. ASSUME NEW r \in appendResps
      PROVE  r.lastSent <= Len(G[r.reqTerm]) /\ r.conflictIndex <= Len(G[r.reqTerm])
  <2>1. r.reqTerm \in Terms /\ r.lastSent \in Nat /\ r.conflictIndex \in Nat
    BY DEF TypeOK, AppendEntriesResponse
  <2>2. /\ Len(H[r.reqTerm]) \in Nat /\ Len(G[r.reqTerm]) \in Nat
        /\ Len(H[r.reqTerm]) <= Len(G[r.reqTerm])
    BY <2>1, LogType DEF Extends, SamePrefix
  <2>3. r.lastSent <= Len(H[r.reqTerm]) /\ r.conflictIndex <= Len(H[r.reqTerm])
    BY DEF SendingInv
  <2> QED BY <2>1, <2>2, <2>3
<1> QED
  BY <1>1, <1>2

\* A new leader brings its log into the history.
LEMMA HistoryElects ==
    ASSUME TypeOK, ElectionInv, ElectedInv, [Next]_vars, NEW H, HistoryInv(H),
           NEW n \in Server, Elects(n), NEW G, G = [H EXCEPT ![currentTerm[n]] = log[n]]
    PROVE  HistoryInv(G)' /\ G \in [Terms -> Seq(Entry)] /\ Extends(H, G) /\ H[currentTerm[n]] = << >>
<1>0. HistoryOK(H) /\ LogsInv(H) /\ SendingInv(H)
  BY DEF HistoryInv
<1>1. PICK t \in Terms : t = currentTerm[n]
  BY DEF TypeOK
<1>2. H \in [Terms -> Seq(Entry)] /\ \A v \in Server : log[v] \in Seq(Entry)
  BY <1>0 DEF HistoryOK, TypeOK
<1>3. \A p \in Server : <<p, t>> \notin elected
  BY <1>1, FreshTerm
<1>4. H[t] = << >>
  BY <1>0, <1>3 DEF HistoryOK
<1>5. SamePrefix(H[t], log[n], Len(H[t]))
  BY <1>2, <1>4, LogType DEF SamePrefix
<1>6. /\ G \in [Terms -> Seq(Entry)] /\ Extends(H, G)
      /\ G[t] = log[n] /\ \A u \in Terms \ {t} : G[u] = H[u]
  <2>1. G = [H EXCEPT ![t] = log[n]] /\ log[n] \in Seq(Entry)
    BY <1>1, <1>2
  <2> QED BY <1>2, <1>5, <2>1, HistoryGrows
<1>7. /\ state'[n] = Leader /\ currentTerm' = currentTerm
      /\ \A v \in Server \ {n} : state'[v] = state[v]
      /\ elected' = elected \cup {<<n, t>>}
      /\ \A p \in Server : nextIndex'[n][p] = Len(log[n]) + 1
      /\ \A v \in Server \ {n} : nextIndex'[v] = nextIndex[v]
      /\ UNCHANGED <<log, appendReqs, appendResps>>
  BY <1>1, ElectsEffect
<1>8. \A v \in Server : Rooted(G, log[v], currentTerm[v])
  BY <1>0, <1>2, <1>6, RootedExtends DEF LogsInv
<1>9. HistoryOK(G)'
  <2>1. ASSUME NEW u \in Terms
        PROVE  Rooted(G, G[u], u)
    <3>1. CASE u = t
      BY <1>1, <1>6, <1>8, <3>1
    <3>2. CASE u # t
      <4>1. G[u] = H[u] /\ H[u] \in Seq(Entry) /\ Rooted(H, H[u], u)
        BY <1>0, <1>2, <1>6, <3>2 DEF HistoryOK
      <4>2. Rooted(G, H[u], u)
        BY <1>2, <1>6, <4>1, RootedExtends
      <4> QED BY <4>1, <4>2
    <3> QED BY <3>1, <3>2
  <2>2. \A u \in Terms : (\A v \in Server : <<v, u>> \notin elected') => G[u] = << >>
    BY <1>0, <1>6, <1>7 DEF HistoryOK
  <2> QED BY <1>6, <2>1, <2>2 DEF HistoryOK
<1>10. LogsInv(G)'
  <2>1. ASSUME NEW v \in Server, state'[v] = Leader
        PROVE  G[currentTerm[v]] = log[v]
    <3>1. CASE v = n
      BY <1>1, <1>6, <3>1
    <3>2. CASE v # n
      <4>1. state[v] = Leader
        BY <1>7, <2>1, <3>2
      <4>2. <<v, currentTerm[v]>> \in elected /\ H[currentTerm[v]] = log[v]
        BY <1>0, <4>1 DEF ElectionInv, LeaderInv, LogsInv
      <4>3. currentTerm[v] \in Terms \ {t}
        BY <1>3, <4>2 DEF TypeOK
      <4> QED BY <1>6, <4>2, <4>3
    <3> QED BY <3>1, <3>2
  <2> QED BY <1>7, <1>8, <2>1 DEF LogsInv
<1>11. SendingInv(G)'
  <2>1. ASSUME NEW v \in Server, state'[v] = Leader, NEW p \in Server
        PROVE  nextIndex'[v][p] <= Len(log[v]) + 1
    <3>1. CASE v = n
      BY <1>2, <1>7, <3>1, LogType
    <3>2. CASE v # n
      BY <1>0, <1>7, <2>1, <3>2 DEF SendingInv
    <3> QED BY <3>1, <3>2
  <2>2. /\ \A m \in appendReqs' : IsSegment(m, G[m.term])
        /\ \A r \in appendResps' :
             r.lastSent <= Len(G[r.reqTerm]) /\ r.conflictIndex <= Len(G[r.reqTerm])
    BY <1>0, <1>2, <1>6, <1>7, CallsExtend
  <2> QED BY <1>7, <2>1, <2>2 DEF SendingInv
<1> QED
  BY <1>1, <1>4, <1>6, <1>9, <1>10, <1>11 DEF HistoryInv

\* A stroke is appended to the leader's log, and so to the history of its term.
LEMMA HistoryStroke ==
    ASSUME TypeOK, ElectionInv, NEW H, HistoryInv(H),
           NEW n \in Server, NEW s \in Stroke, HandleStroke(n, s),
           NEW G, G = [H EXCEPT ![currentTerm[n]] = log'[n]]
    PROVE  /\ HistoryInv(G)' /\ G \in [Terms -> Seq(Entry)] /\ Extends(H, G)
           /\ H[currentTerm[n]] = log[n] /\ Len(log'[n]) = Len(log[n]) + 1
           /\ SamePrefix(log[n], log'[n], Len(log[n]))
<1>0. HistoryOK(H) /\ LogsInv(H) /\ SendingInv(H)
  BY DEF HistoryInv
<1>1. PICK t \in Terms : t = currentTerm[n]
  BY DEF TypeOK
<1>2. H \in [Terms -> Seq(Entry)] /\ \A v \in Server : log[v] \in Seq(Entry)
  BY <1>0 DEF HistoryOK, TypeOK
<1> DEFINE e == [term |-> t, stroke |-> s]
<1>3. PICK l : l = Append(log[n], e)
  OBVIOUS
<1>4. /\ state[n] = Leader /\ log'[n] = l /\ \A v \in Server \ {n} : log'[v] = log[v]
      /\ UNCHANGED <<state, currentTerm, elected, nextIndex, appendReqs, appendResps>>
  BY <1>1, <1>3 DEF HandleStroke, TypeOK, nodeVars, leaderVars, netVars, historyVars
<1>5. e \in Entry /\ e.term = t
  BY DEF Entry
<1> HIDE DEF e
<1>6. /\ l \in Seq(Entry) /\ Len(l) = Len(log[n]) + 1
      /\ \A i \in 1..Len(log[n]) : l[i] = log[n][i]
      /\ l[Len(log[n]) + 1] = e
  BY <1>2, <1>3, <1>5, AppendProperties
<1>7. Len(log[n]) \in Nat
  BY <1>2, LogType
<1>8. H[t] = log[n]
  BY <1>0, <1>1, <1>4 DEF LogsInv
<1>9. SamePrefix(log[n], l, Len(log[n]))
  BY <1>6, <1>7 DEF SamePrefix
<1>10. /\ G \in [Terms -> Seq(Entry)] /\ Extends(H, G)
       /\ G[t] = l /\ \A u \in Terms \ {t} : G[u] = H[u]
  <2>1. G = [H EXCEPT ![t] = l] /\ SamePrefix(H[t], l, Len(H[t]))
    BY <1>1, <1>4, <1>8, <1>9
  <2> QED BY <1>2, <1>6, <2>1, HistoryGrows
<1>11. \A v \in Server : Rooted(G, log[v], currentTerm[v])
  BY <1>0, <1>2, <1>10, RootedExtends DEF LogsInv
<1>12. Rooted(G, l, t)
  <2> SUFFICES ASSUME NEW i \in 1..Len(l)
               PROVE  l[i].term <= t /\ SamePrefix(l, G[l[i].term], i)
    BY DEF Rooted
  <2>1. CASE i = Len(log[n]) + 1
    BY <1>1, <1>5, <1>6, <1>7, <1>10, <2>1 DEF SamePrefix, Terms
  <2>2. CASE i # Len(log[n]) + 1
    <3>1. i \in 1..Len(log[n])
      BY <1>6, <1>7, <2>2
    <3>2. l[i] = log[n][i]
      BY <1>6, <3>1
    <3>3. log[n][i].term <= t /\ SamePrefix(log[n], G[log[n][i].term], i)
      BY <1>1, <1>11, <3>1 DEF Rooted
    <3>4. SamePrefix(l, G[l[i].term], i)
      BY <1>6, <1>7, <3>1, <3>2, <3>3 DEF SamePrefix
    <3> QED BY <3>2, <3>3, <3>4
  <2> QED BY <2>1, <2>2
<1>13. HistoryOK(G)'
  <2>1. ASSUME NEW u \in Terms
        PROVE  Rooted(G, G[u], u)
    <3>1. CASE u = t
      BY <1>10, <1>12, <3>1
    <3>2. CASE u # t
      <4>1. G[u] = H[u] /\ H[u] \in Seq(Entry) /\ Rooted(H, H[u], u)
        BY <1>0, <1>2, <1>10, <3>2 DEF HistoryOK
      <4>2. Rooted(G, H[u], u)
        BY <1>2, <1>10, <4>1, RootedExtends
      <4> QED BY <4>1, <4>2
    <3> QED BY <3>1, <3>2
  <2>2. <<n, t>> \in elected
    BY <1>1, <1>4 DEF ElectionInv, LeaderInv
  <2>3. \A u \in Terms : (\A v \in Server : <<v, u>> \notin elected) => G[u] = << >>
    BY <1>0, <1>10, <2>2 DEF HistoryOK
  <2> QED BY <1>4, <1>10, <2>1, <2>3 DEF HistoryOK
<1>14. LogsInv(G)'
  <2>1. ASSUME NEW v \in Server, state[v] = Leader
        PROVE  G[currentTerm[v]] = log'[v]
    <3>1. CASE v = n
      BY <1>1, <1>4, <1>10, <3>1
    <3>2. CASE v # n
      <4>1. <<v, currentTerm[v]>> \in elected /\ <<n, t>> \in elected
        BY <1>1, <1>4, <2>1 DEF ElectionInv, LeaderInv
      <4>2. currentTerm[v] \in Terms \ {t}
        BY <3>2, <4>1 DEF ElectionInv, ElectionSafety, TypeOK
      <4> QED BY <1>0, <1>4, <1>10, <2>1, <3>2, <4>2 DEF LogsInv
    <3> QED BY <3>1, <3>2
  <2>2. ASSUME NEW v \in Server
        PROVE  Rooted(G, log'[v], currentTerm[v])
    <3>1. CASE v = n
      BY <1>1, <1>4, <1>12, <3>1
    <3>2. CASE v # n
      BY <1>4, <1>11, <3>2
    <3> QED BY <3>1, <3>2
  <2> QED BY <1>4, <2>1, <2>2 DEF LogsInv
<1>15. SendingInv(G)'
  <2>1. ASSUME NEW v \in Server, state[v] = Leader, NEW p \in Server
        PROVE  nextIndex[v][p] <= Len(log'[v]) + 1
    <3>1. nextIndex[v][p] <= Len(log[v]) + 1 /\ nextIndex[v][p] \in Nat
      BY <1>0, <2>1 DEF SendingInv, TypeOK
    <3> QED BY <1>4, <1>6, <1>7, <3>1
  <2>2. /\ \A m \in appendReqs' : IsSegment(m, G[m.term])
        /\ \A r \in appendResps' :
             r.lastSent <= Len(G[r.reqTerm]) /\ r.conflictIndex <= Len(G[r.reqTerm])
    BY <1>0, <1>2, <1>4, <1>10, CallsExtend
  <2> QED BY <1>4, <2>1, <2>2 DEF SendingInv
<1> QED
  BY <1>1, <1>4, <1>6, <1>8, <1>9, <1>10, <1>13, <1>14, <1>15 DEF HistoryInv


-----------------------------------------------------------------------------
(***************************************************************************)
(* Every other step leaves the history as it is.                           *)
(***************************************************************************)

\* A follower that accepts a request: the log it has afterwards, and who it is.
LEMMA AcceptEffect ==
    ASSUME TypeOK, NEW H, HistoryInv(H), NEW m \in appendReqs, AcceptEntries(m)
    PROVE  /\ m \in AppendEntriesRequest /\ m.to \in Server /\ m.term \in Terms
           /\ H[m.term] \in Seq(Entry) /\ log[m.to] \in Seq(Entry) /\ log'[m.to] \in Seq(Entry)
           /\ state'[m.to] = Follower /\ currentTerm'[m.to] = m.term
           /\ m.term >= currentTerm[m.to]
           /\ \A v \in Server \ {m.to} : /\ state'[v] = state[v] /\ currentTerm'[v] = currentTerm[v]
                                         /\ log'[v] = log[v]
           /\ m.prevLogIndex + Len(m.entries) \in Nat
           /\ SamePrefix(log'[m.to], H[m.term], m.prevLogIndex + Len(m.entries))
           /\ log'[m.to] = log[m.to] \/ Len(log'[m.to]) = m.prevLogIndex + Len(m.entries)
           /\ \A i \in Nat : SamePrefix(log[m.to], H[m.term], i) => SamePrefix(log'[m.to], log[m.to], i)
<1> DEFINE n == m.to
           r == AppendEntries(log[n], m.prevLogIndex, m.entries)
<1>1. /\ m \in AppendEntriesRequest /\ n \in Server /\ m.term \in Terms
      /\ m.prevLogIndex \in Nat /\ m.entries \in Seq(Entry)
  BY DEF TypeOK, AppendEntriesRequest
<1>2. /\ H[m.term] \in Seq(Entry) /\ log[n] \in Seq(Entry)
      /\ Rooted(H, log[n], currentTerm[n]) /\ Rooted(H, H[m.term], m.term)
      /\ IsSegment(m, H[m.term])
  BY <1>1 DEF HistoryInv, HistoryOK, LogsInv, SendingInv, TypeOK
<1>3. /\ m.term >= currentTerm[n] /\ PrevMatches(log[n], m) /\ SetNode(n, FollowLeader(m))
      /\ log' = [log EXCEPT ![n] = r]
  BY DEF AcceptEntries
<1>4. /\ r \in Seq(Entry)
      /\ SamePrefix(r, H[m.term], m.prevLogIndex + Len(m.entries))
      /\ r = log[n] \/ Len(r) = m.prevLogIndex + Len(m.entries)
      /\ \A i \in Nat : SamePrefix(log[n], H[m.term], i) => SamePrefix(r, log[n], i)
  BY <1>1, <1>2, <1>3, AcceptResult
<1>5. /\ state'[n] = Follower /\ currentTerm'[n] = m.term
      /\ \A v \in Server \ {n} : state'[v] = state[v] /\ currentTerm'[v] = currentTerm[v]
  BY <1>1, <1>3, FollowLeaderEffect
<1> HIDE DEF r
<1>6. log'[n] = r /\ \A v \in Server \ {n} : log'[v] = log[v]
  BY <1>1, <1>3 DEF TypeOK
<1>7. m.prevLogIndex + Len(m.entries) \in Nat
  BY <1>1, LogType
<1> QED
  BY <1>1, <1>2, <1>3, <1>4, <1>5, <1>6, <1>7

\* Only a stroke and an accepted request change a log.
LEMMA LogUnchanged ==
    ASSUME [Next]_vars, \A n \in Server, s \in Stroke : ~HandleStroke(n, s),
           \A m \in appendReqs : ~AcceptEntries(m)
    PROVE  log' = log
BY DEF Next, vars, logVars, StartElection, FinishElection, HandleVoteRequest,
    HandleVoteResponse, SendAppendEntries, HandleAppendEntries, RejectStale, RejectMismatch,
    PanicOnCommitted, HandleAppendResponse, LoseRequest, LoseResponse

LEMMA LogsOther ==
    ASSUME TypeOK, ElectionInv, ElectedInv, [Next]_vars, NEW H, HistoryInv(H),
           \A n \in Server : ~Elects(n), \A n \in Server, s \in Stroke : ~HandleStroke(n, s)
    PROVE  LogsInv(H)'
<1>0. /\ HistoryOK(H) /\ LogsInv(H)
      /\ \A v \in Server : currentTerm'[v] >= currentTerm[v]
      /\ \A v \in Server : log[v] \in Seq(Entry) /\ currentTerm[v] \in Nat /\ currentTerm'[v] \in Nat
  BY NodeNext, TypeNext DEF HistoryInv, NodeStep, KeepsVote, TypeOK, Terms
<1>1. \A v \in Server : state'[v] = Leader => state[v] = Leader /\ currentTerm'[v] = currentTerm[v]
  BY LeaderBefore
<1>2. \A v \in Server : Rooted(H, log[v], currentTerm'[v])
  <2> SUFFICES ASSUME NEW v \in Server, NEW i \in 1..Len(log[v])
               PROVE  log[v][i].term <= currentTerm'[v] /\ SamePrefix(log[v], H[log[v][i].term], i)
    BY DEF Rooted
  <2>1. log[v][i].term <= currentTerm[v] /\ SamePrefix(log[v], H[log[v][i].term], i)
    BY <1>0 DEF LogsInv, Rooted
  <2>2. log[v][i].term \in Nat
    BY <1>0, LogType DEF Terms
  <2> QED BY <1>0, <2>1, <2>2
<1>3. CASE log' = log
  BY <1>0, <1>1, <1>2, <1>3 DEF LogsInv
<1>4. ASSUME NEW m \in appendReqs, AcceptEntries(m)
      PROVE  LogsInv(H)'
  <2> DEFINE n == m.to
             r == log'[n]
             g == H[m.term]
             last == m.prevLogIndex + Len(m.entries)
  <2>1. /\ n \in Server /\ m.term \in Terms /\ g \in Seq(Entry) /\ r \in Seq(Entry)
        /\ state'[n] = Follower /\ currentTerm'[n] = m.term
        /\ \A v \in Server \ {n} : log'[v] = log[v]
        /\ SamePrefix(r, g, last) /\ last \in Nat
        /\ r = log[n] \/ Len(r) = last
    BY <1>4, AcceptEffect
  <2> HIDE DEF r, g, last
  <2>2. Rooted(H, r, m.term)
    <3>1. CASE r = log[n]
      BY <1>2, <2>1, <3>1
    <3>2. CASE Len(r) = last
      <4> SUFFICES ASSUME NEW i \in 1..Len(r)
                   PROVE  r[i].term <= m.term /\ SamePrefix(r, H[r[i].term], i)
        BY DEF Rooted
      <4>1. i \in 1..Len(g) /\ r[i] = g[i] /\ Len(g) \in Nat /\ Len(r) \in Nat
        BY <2>1, <3>2, LogType DEF SamePrefix
      <4>2. g[i].term <= m.term /\ SamePrefix(g, H[g[i].term], i)
        BY <1>0, <2>1, <4>1 DEF HistoryOK, Rooted, g
      <4>3. SamePrefix(r, H[r[i].term], i)
        BY <2>1, <3>2, <4>1, <4>2 DEF SamePrefix
      <4> QED BY <4>1, <4>2, <4>3
    <3> QED BY <2>1, <3>1, <3>2
  <2>3. ASSUME NEW v \in Server
        PROVE  Rooted(H, log'[v], currentTerm'[v])
    <3>1. CASE v = n
      BY <2>1, <2>2, <3>1 DEF r
    <3>2. CASE v # n
      BY <1>2, <2>1, <3>2
    <3> QED BY <3>1, <3>2
  <2>4. ASSUME NEW v \in Server, state'[v] = Leader
        PROVE  H[currentTerm'[v]] = log'[v]
    <3>1. v # n
      BY <2>1, <2>4 DEF Follower, Leader
    <3> QED BY <1>0, <1>1, <2>1, <2>4, <3>1 DEF LogsInv
  <2> QED BY <2>3, <2>4 DEF LogsInv
<1> QED
  BY <1>3, <1>4, LogUnchanged


\* sendAppendEntries sends the leader's log from prevLogIndex to its end.
LEMMA RequestIsSegment ==
    ASSUME TypeOK, NEW n \in Server, NEW p \in Server, nextIndex[n][p] <= Len(log[n]) + 1
    PROVE  /\ IsSegment(RequestTo(n, p), log[n])
           /\ RequestTo(n, p).prevLogIndex + Len(RequestTo(n, p).entries) = Len(log[n])
           /\ RequestTo(n, p).from = n /\ RequestTo(n, p).term = currentTerm[n]
           /\ RequestTo(n, p).leaderCommit = commitIndex[n]
<1> DEFINE l == log[n]
           next == nextIndex[n][p]
           es == GetFrom(l, next)
           m == RequestTo(n, p)
<1>1. l \in Seq(Entry) /\ next \in Nat \ {0} /\ Len(l) \in Nat
  BY LogType DEF TypeOK
<1>2. /\ m.prevLogIndex = next - 1 /\ m.prevLogTerm = Term(l, next - 1) /\ m.entries = es
      /\ m.from = n /\ m.term = currentTerm[n] /\ m.leaderCommit = commitIndex[n]
  BY DEF RequestTo, EntriesToSend
<1>3. Len(es) = IF next <= Len(l) THEN Len(l) - next + 1 ELSE 0
  BY <1>1, GetFromType
<1>4. \A k \in 1..(Len(l) - next + 1) : es[k] = l[next + k - 1]
  <2>1. \A i \in next..Len(l) : l[i] \in Entry
    BY <1>1, ElementOfSeq
  <2>2. es = SubSeq(l, next, Len(l)) /\ next \in Int /\ Len(l) \in Int
    BY <1>1 DEF GetFrom
  <2> HIDE DEF es, l, next
  <2> QED BY <2>1, <2>2, SubSeqProperties
<1>5. next - 1 > 0 => Term(l, next - 1) = l[next - 1].term
  BY <1>1 DEF Term
<1> HIDE DEF l, next, es, m
<1>6. next - 1 + Len(es) = Len(l)
  BY <1>1, <1>3 DEF l, next
<1>7. ASSUME NEW k \in 1..Len(es)
      PROVE  es[k] = l[(next - 1) + k]
  <2>1. k \in 1..(Len(l) - next + 1) /\ (next - 1) + k = next + k - 1
    BY <1>1, <1>3
  <2> QED BY <1>4, <2>1
<1>8. IsSegment(m, l)
  BY <1>1, <1>2, <1>5, <1>6, <1>7 DEF IsSegment
<1> QED
  BY <1>2, <1>6, <1>8 DEF l, m

\* The answer HandleAppendEntries gives, if any.
LEMMA ReplyEffect ==
    ASSUME NEW m \in appendReqs, HandleAppendEntries(m), NEW r \in appendResps', r \notin appendResps
    PROVE  /\ r.from = m.to /\ r.to = m.from /\ r.reqTerm = m.term
           /\ r.lastSent = IF m.entries = << >> THEN 0 ELSE m.prevLogIndex + Len(m.entries)
           /\ \/ ~r.success /\ r.conflictIndex \in {0, ConflictIndex(m, log[m.to])}
              \/ AcceptEntries(m) /\ r.conflictIndex = 0
<1> DEFINE a(term, success, conflict) ==
             [from |-> m.to, to |-> m.from, reqTerm |-> m.term,
              lastSent |-> IF m.entries = << >> THEN 0 ELSE m.prevLogIndex + Len(m.entries),
              term |-> term, success |-> success, conflictIndex |-> conflict]
<1>1. ASSUME NEW term, NEW success, NEW conflict, Reply(m, term, success, conflict)
      PROVE  r = a(term, success, conflict)
  BY <1>1 DEF Reply
<1>2. CASE RejectStale(m)
  <2>1. r = a(currentTerm[m.to], FALSE, 0)
    BY <1>1, <1>2 DEF RejectStale
  <2> QED BY <2>1
<1>3. CASE RejectMismatch(m)
  <2>1. r = a(currentTerm[m.to], FALSE, ConflictIndex(m, log[m.to]))
    BY <1>1, <1>3 DEF RejectMismatch
  <2> QED BY <2>1
<1>4. CASE PanicOnCommitted(m)
  BY <1>4 DEF PanicOnCommitted
<1>5. CASE AcceptEntries(m)
  <2>1. r = a(m.term, TRUE, 0)
    BY <1>1, <1>5 DEF AcceptEntries
  <2> QED BY <1>5, <2>1
<1> QED
  BY <1>2, <1>3, <1>4, <1>5 DEF HandleAppendEntries

\* Responses come from HandleAppendEntries only, requests from sendAppendEntries.
LEMMA CallsUnchanged ==
    ASSUME [Next]_vars
    PROVE  /\ \/ appendReqs' \subseteq appendReqs
              \/ \E n, p \in Server : SendAppendEntries(n, p)
           /\ \/ appendResps' \subseteq appendResps
              \/ \E m \in appendReqs : HandleAppendEntries(m)
<1>1. ASSUME NEW r \in appendResps, HandleAppendResponse(r)
      PROVE  appendReqs' \subseteq appendReqs /\ appendResps' \subseteq appendResps
  BY <1>1 DEF HandleAppendResponse
<1>2. ASSUME NEW m \in appendReqs, HandleAppendEntries(m)
      PROVE  appendReqs' \subseteq appendReqs
  BY <1>2 DEF HandleAppendEntries
<1>3. ASSUME NEW n \in Server, StartElection(n) \/ FinishElection(n)
      PROVE  appendReqs' \subseteq appendReqs /\ appendResps' \subseteq appendResps
  BY <1>3 DEF StartElection, FinishElection
<1> QED
  BY <1>1, <1>2, <1>3
  DEF Next, vars, netVars, HandleVoteRequest, HandleVoteResponse, HandleStroke,
      SendAppendEntries, LoseRequest, LoseResponse

LEMMA NextIndexOther ==
    ASSUME TypeOK, ElectionInv, ElectedInv, [Next]_vars, NEW H, HistoryInv(H),
           \A n \in Server : ~Elects(n), \A n \in Server, s \in Stroke : ~HandleStroke(n, s),
           NEW n \in Server, state'[n] = Leader, NEW p \in Server
    PROVE  nextIndex'[n][p] <= Len(log'[n]) + 1
<1>0. SendingInv(H) /\ LogsInv(H)
  BY DEF HistoryInv
<1>1. state[n] = Leader /\ currentTerm'[n] = currentTerm[n]
  BY LeaderBefore
<1>2. log'[n] = log[n]
  <2>1. CASE log' = log
    BY <2>1
  <2>2. ASSUME NEW m \in appendReqs, AcceptEntries(m)
        PROVE  log'[n] = log[n]
    <3>1. /\ state'[m.to] = Follower
          /\ \A v \in Server \ {m.to} : log'[v] = log[v]
      BY <2>2, AcceptEffect
    <3>2. n # m.to
      BY <3>1 DEF Follower, Leader
    <3> QED BY <3>1, <3>2
  <2> QED BY <2>1, <2>2, LogUnchanged
<1>3. /\ nextIndex[n][p] <= Len(log[n]) + 1 /\ nextIndex[n][p] \in Nat /\ Len(log[n]) \in Nat
      /\ nextIndex \in [Server -> [Server -> Nat \ {0}]]
  BY <1>0, <1>1, LogType DEF SendingInv, TypeOK
<1>4. CASE nextIndex' = nextIndex
  BY <1>2, <1>3, <1>4
<1>5. ASSUME NEW r \in appendResps, HandleAppendResponse(r)
      PROVE  nextIndex'[n][p] <= Len(log'[n]) + 1
  <2>1. /\ r.to \in Server /\ r.from \in Server /\ r.reqTerm \in Terms
        /\ r.lastSent \in Nat /\ r.conflictIndex \in Nat
    BY DEF TypeOK, AppendEntriesResponse
  <2>2. r.lastSent <= Len(H[r.reqTerm]) /\ r.conflictIndex <= Len(H[r.reqTerm])
    BY <1>0 DEF SendingInv
  <2>3. CASE r.to # n \/ r.from # p
    <3>1. \/ nextIndex' = nextIndex
          \/ \E x : nextIndex' = [nextIndex EXCEPT ![r.to][r.from] = x]
      <4>1. ASSUME nextIndex' = [nextIndex EXCEPT ![r.to][r.from] =
                                  IF r.conflictIndex > 0 THEN r.conflictIndex
                                  ELSE IF @ > 1 THEN @ - 1 ELSE @]
            PROVE  \E x : nextIndex' = [nextIndex EXCEPT ![r.to][r.from] = x]
        BY <4>1
      <4> QED BY <1>5, <4>1, Zenon DEF HandleAppendResponse, leaderVars
    <3>2. ASSUME NEW x, nextIndex' = [nextIndex EXCEPT ![r.to][r.from] = x]
          PROVE  nextIndex'[n][p] = nextIndex[n][p]
      BY <1>3, <2>1, <2>3, <3>2
    <3> QED BY <1>2, <1>3, <3>1, <3>2
  <2>4. CASE r.to = n /\ r.from = p /\ currentTerm[n] = r.reqTerm
    <3>1. Len(H[r.reqTerm]) = Len(log[n])
      BY <1>0, <1>1, <2>4 DEF LogsInv
    <3>2. \/ nextIndex' = nextIndex
          \/ nextIndex' = [nextIndex EXCEPT ![n][p] = r.lastSent + 1]
          \/ nextIndex' = [nextIndex EXCEPT ![n][p] =
                              IF r.conflictIndex > 0 THEN r.conflictIndex
                              ELSE IF @ > 1 THEN @ - 1 ELSE @]
      BY <1>5, <2>4, Zenon DEF HandleAppendResponse, leaderVars
    <3>3. CASE nextIndex' = [nextIndex EXCEPT ![n][p] = r.lastSent + 1]
      <4>1. nextIndex'[n][p] = r.lastSent + 1
        BY <1>3, <3>3
      <4> QED BY <1>2, <1>3, <2>1, <2>2, <3>1, <4>1
    <3>4. CASE nextIndex' = [nextIndex EXCEPT ![n][p] =
                              IF r.conflictIndex > 0 THEN r.conflictIndex
                              ELSE IF @ > 1 THEN @ - 1 ELSE @]
      <4>1. nextIndex'[n][p] = IF r.conflictIndex > 0 THEN r.conflictIndex
                               ELSE IF nextIndex[n][p] > 1 THEN nextIndex[n][p] - 1
                               ELSE nextIndex[n][p]
        BY <1>3, <3>4
      <4> QED BY <1>2, <1>3, <2>1, <2>2, <3>1, <4>1
    <3> QED BY <1>4, <3>2, <3>3, <3>4
  <2>5. CASE currentTerm[r.to] # r.reqTerm
    <3>1. nextIndex' = nextIndex
      BY <1>5, <2>5 DEF HandleAppendResponse, leaderVars
    <3> QED BY <1>4, <3>1
  <2> QED BY <2>3, <2>4, <2>5
<1>6. ASSUME NEW c \in Server, FinishElection(c)
      PROVE  nextIndex' = nextIndex
  BY <1>6 DEF FinishElection, Elects, leaderVars
<1> QED
  BY <1>4, <1>5, <1>6
  DEF Next, vars, leaderVars, StartElection, HandleVoteRequest, HandleVoteResponse,
      SendAppendEntries, HandleAppendEntries, LoseRequest, LoseResponse

LEMMA SendingOther ==
    ASSUME TypeOK, ElectionInv, ElectedInv, [Next]_vars, NEW H, HistoryInv(H),
           \A n \in Server : ~Elects(n), \A n \in Server, s \in Stroke : ~HandleStroke(n, s)
    PROVE  SendingInv(H)'
<1>0. HistoryOK(H) /\ LogsInv(H) /\ SendingInv(H)
  BY DEF HistoryInv
<1>1. \A n \in Server : state'[n] = Leader =>
        \A p \in Server : nextIndex'[n][p] <= Len(log'[n]) + 1
  BY NextIndexOther
<1>2. ASSUME NEW m \in appendReqs'
      PROVE  IsSegment(m, H[m.term])
  <2>1. CASE m \in appendReqs
    BY <1>0, <2>1 DEF SendingInv
  <2>2. CASE m \notin appendReqs
    <3>1. PICK n \in Server, p \in Server : SendAppendEntries(n, p)
      BY <2>2, CallsUnchanged
    <3>2. m = RequestTo(n, p) /\ state[n] = Leader
      BY <1>2, <2>2, <3>1 DEF SendAppendEntries
    <3>3. nextIndex[n][p] <= Len(log[n]) + 1 /\ H[currentTerm[n]] = log[n]
      BY <1>0, <3>2 DEF SendingInv, LogsInv
    <3> QED BY <3>2, <3>3, RequestIsSegment
  <2> QED BY <2>1, <2>2
<1>3. ASSUME NEW r \in appendResps'
      PROVE  r.lastSent <= Len(H[r.reqTerm]) /\ r.conflictIndex <= Len(H[r.reqTerm])
  <2>1. CASE r \in appendResps
    BY <1>0, <2>1 DEF SendingInv
  <2>2. CASE r \notin appendResps
    <3>1. PICK m \in appendReqs : HandleAppendEntries(m)
      BY <2>2, CallsUnchanged
    <3>2. /\ r.reqTerm = m.term
          /\ r.lastSent = IF m.entries = << >> THEN 0 ELSE m.prevLogIndex + Len(m.entries)
          /\ r.conflictIndex \in {0, ConflictIndex(m, log[m.to])}
      BY <2>2, <3>1, ReplyEffect
    <3>3. /\ m.to \in Server /\ m.term \in Terms /\ m.prevLogIndex \in Nat
          /\ Len(m.entries) \in Nat /\ Len(log[m.to]) \in Nat /\ Len(H[m.term]) \in Nat
      BY <1>0, LogType DEF TypeOK, AppendEntriesRequest, HistoryOK
    <3>4. m.prevLogIndex + Len(m.entries) <= Len(H[m.term])
      BY <1>0 DEF SendingInv, IsSegment
    <3>5. ConflictIndex(m, log[m.to]) <= m.prevLogIndex
      BY <3>3 DEF ConflictIndex
    <3>6. ConflictIndex(m, log[m.to]) \in Nat
      BY <3>3 DEF ConflictIndex
    <3> QED BY <3>2, <3>3, <3>4, <3>5, <3>6
  <2> QED BY <2>1, <2>2
<1> QED
  BY <1>1, <1>2, <1>3 DEF SendingInv

LEMMA HistoryOther ==
    ASSUME TypeOK, ElectionInv, ElectedInv, [Next]_vars, NEW H, HistoryInv(H),
           \A n \in Server : ~Elects(n), \A n \in Server, s \in Stroke : ~HandleStroke(n, s)
    PROVE  HistoryInv(H)'
<1>1. HistoryOK(H)'
  BY ElectedUnchanged DEF HistoryInv, HistoryOK
<1> QED
  BY <1>1, LogsOther, SendingOther DEF HistoryInv

LEMMA HistoryInit ==
    ASSUME Init
    PROVE  HistoryInv([t \in Terms |-> << >>])
<1>1. PICK H : H = [t \in Terms |-> << >>]
  OBVIOUS
<1>2. H \in [Terms -> Seq(Entry)] /\ \A t \in Terms : H[t] = << >>
  BY <1>1
<1>3. /\ \A n \in Server : log[n] = << >> /\ state[n] = Follower
      /\ appendReqs = {} /\ appendResps = {}
  BY DEF Init
<1>4. \A t : Rooted(H, << >>, t)
  BY DEF Rooted
<1>5. HistoryOK(H)
  BY <1>2, <1>4 DEF HistoryOK
<1>6. LogsInv(H) /\ SendingInv(H)
  BY <1>2, <1>3, <1>4 DEF LogsInv, SendingInv, Follower, Leader
<1> QED
  BY <1>1, <1>5, <1>6 DEF HistoryInv

\* The inductive invariant.
RaftInv == TypeOK /\ ElectionInv /\ ElectedInv /\ \E H : HistoryInv(H)

LEMMA RaftInvNext ==
    ASSUME RaftInv, [Next]_vars
    PROVE  RaftInv'
<1>1. PICK H : HistoryInv(H)
  BY DEF RaftInv
<1>2. \E G : HistoryInv(G)'
  <2>1. ASSUME NEW n \in Server, Elects(n)
        PROVE  \E G : HistoryInv(G)'
    <3>1. PICK G : G = [H EXCEPT ![currentTerm[n]] = log[n]]
      OBVIOUS
    <3>2. HistoryInv(G)'
      BY <1>1, <2>1, <3>1, HistoryElects DEF RaftInv
    <3> QED BY <3>2
  <2>2. ASSUME NEW n \in Server, NEW s \in Stroke, HandleStroke(n, s)
        PROVE  \E G : HistoryInv(G)'
    <3>1. PICK G : G = [H EXCEPT ![currentTerm[n]] = log'[n]]
      OBVIOUS
    <3>2. HistoryInv(G)'
      BY <1>1, <2>2, <3>1, HistoryStroke DEF RaftInv
    <3> QED BY <3>2
  <2>3. ASSUME \A n \in Server : ~Elects(n), \A n \in Server, s \in Stroke : ~HandleStroke(n, s)
        PROVE  \E G : HistoryInv(G)'
    BY <1>1, <2>3, HistoryOther DEF RaftInv
  <2> QED BY <2>1, <2>2, <2>3
<1> QED
  BY <1>2, TypeNext, ElectionNext, ElectedInvNext DEF RaftInv

\* Two logs that agree with one leader agree with one another.
LEMMA HistoryGivesMatching ==
    ASSUME TypeOK, NEW H, HistoryInv(H)
    PROVE  LogMatching
<1> SUFFICES ASSUME NEW a \in Server, NEW b \in Server, NEW i \in 1..Len(log[a]),
                    i <= Len(log[b]), log[a][i].term = log[b][i].term
             PROVE  SubSeq(log[a], 1, i) = SubSeq(log[b], 1, i)
  BY DEF LogMatching
<1>1. log[a] \in Seq(Entry) /\ log[b] \in Seq(Entry) /\ Len(log[a]) \in Nat /\ Len(log[b]) \in Nat
  BY LogType DEF TypeOK
<1>2. SamePrefix(log[a], log[b], i)
  BY <1>1, RootedMeet DEF HistoryInv, LogsInv
<1> QED
  BY <1>1, <1>2, SamePrefixSubSeq

\* Entries of one index and term are the same entry, and so are all before them,
\* however leaders changed and requests were delayed: what Log.AppendEntries skips by
\* comparing terms alone, it rightly skips.
THEOREM LogsMatch == Spec => []LogMatching
<1>1. Init => RaftInv
  <2> HAVE Init
  <2>1. \E H : HistoryInv(H)
    BY HistoryInit
  <2> QED BY <2>1, TypeInit, ElectionInit, ElectedInvInit DEF RaftInv
<1>2. RaftInv /\ [Next]_vars => RaftInv'
  BY RaftInvNext
<1>3. RaftInv => LogMatching
  BY HistoryGivesMatching DEF RaftInv
<1> QED
  BY <1>1, <1>2, <1>3, PTL DEF Spec


=============================================================================
