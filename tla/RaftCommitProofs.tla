-------------------------- MODULE RaftCommitProofs --------------------------
(***************************************************************************)
(* What is committed stays committed, for any cluster and any bounds.      *)
(*                                                                         *)
(* Beside the leaders' logs H of RaftHistoryProofs, a second history A     *)
(* says how far a replica has accepted the log of a leader: A[p][t] is the *)
(* last index up to which p has taken over H[t], or written it itself as   *)
(* the leader of term t, and it only grows while p is in term t.  An entry *)
(* that t itself has written is decided once a majority has accepted it.   *)
(*                                                                         *)
(* A vote, or a commit, may rest on acknowledgements that are known to     *)
(* nobody yet: a leader of an old term may count its last answer long      *)
(* after a new leader was elected.  So the invariant does not speak of     *)
(* what has been committed, but of what may still be: for every entry of   *)
(* term t, a later leader has it, or a majority that has left term t       *)
(* without accepting it blocks it for ever.                                *)
(***************************************************************************)
EXTENDS RaftHistoryProofs, RaftRefinement, RaftRestart

\* The indexes of the entries that the leader of term t has written itself.
Own(H, t) == {i \in 1..Len(H[t]) : H[t][i].term = t}

\* Entry i of term t will never be accepted by a majority.
Blocked(A, t, i) ==
    \E Q \in SUBSET Server : IsMajority(Q) /\ \A q \in Q : currentTerm[q] > t /\ A[q][t] < i

\* Log l has that entry and all before it, or need not have it.
Safe(H, A, l, t, i) == SamePrefix(H[t], l, i) \/ Blocked(A, t, i)

Decided(A, t, i) == \E Q \in SUBSET Server : IsMajority(Q) /\ \A q \in Q : i <= A[q][t]

\* The first k entries of l are decided, by a leader of a term up to u.
CommittedBy(H, A, l, u, k) ==
    \E t \in Terms : t <= u /\ \E i \in Own(H, t) :
        k <= i /\ Decided(A, t, i) /\ SamePrefix(l, H[t], k)

\* What has been accepted, where it is now, and what the leader knows of it.
AckInv(H, A) ==
    /\ A \in [Server -> [Terms -> Nat]]
    /\ \A p \in Server : \A t \in Terms :
            A[p][t] <= Len(H[t]) /\ (A[p][t] > 0 => t <= currentTerm[p])
    /\ \A p \in Server : SamePrefix(log[p], H[currentTerm[p]], A[p][currentTerm[p]])
    /\ \A n \in Server : state[n] = Leader => A[n][currentTerm[n]] = Len(log[n])
    /\ \A r \in appendResps : r.success => r.lastSent <= A[r.from][r.reqTerm]
    /\ \A n \in Server : state[n] = Leader =>
            \A p \in Peers(n) : matchIndex[n][p] <= A[p][currentTerm[n]]

\* A request for a vote describes the candidate's log, as long as it matters.
CandidacyInv ==
    \A m \in voteReqs :
        /\ m.term <= currentTerm[m.from]
        /\ state[m.from] = Candidate /\ currentTerm[m.from] = m.term =>
            m.lastLogIndex = Len(log[m.from]) /\ m.lastLogTerm = LastTerm(log[m.from])

\* Every later leader has what may still be decided ...
LeadersSafe(H, A) ==
    \A n \in Server : \A u \in Terms : <<n, u>> \in elected =>
        \A t \in Terms : t < u => \A i \in Own(H, t) : Safe(H, A, H[u], t, i)

\* ... and so has whoever has accepted it ...
LogsSafe(H, A) ==
    \A p \in Server : \A t \in Terms : \A i \in Own(H, t) :
        i <= A[p][t] => Safe(H, A, log[p], t, i)

\* ... and a candidate has it if one of its voters has accepted it.
VotersSafe(H, A) ==
    \A v, c \in Server : \A u \in Terms :
        Voted(v, c, u) /\ state[c] = Candidate /\ currentTerm[c] = u =>
            \A t \in Terms : t < u => \A i \in Own(H, t) :
                i <= A[v][t] => Safe(H, A, log[c], t, i)

SafeInv(H, A) == LeadersSafe(H, A) /\ LogsSafe(H, A) /\ VotersSafe(H, A)

\* What the replicas have committed, and what the requests tell them to.
CommitInv(H, A) ==
    /\ \A n \in Server :
        /\ commitIndex[n] <= Len(log[n])
        /\ commitIndex[n] > 0 => CommittedBy(H, A, log[n], currentTerm[n], commitIndex[n])
    /\ \A m \in appendReqs :
        /\ m.leaderCommit <= m.prevLogIndex + Len(m.entries)
        /\ m.leaderCommit > 0 => CommittedBy(H, A, H[m.term], m.term, m.leaderCommit)

-----------------------------------------------------------------------------
(***************************************************************************)
(* The histories grow.                                                     *)
(***************************************************************************)

\* A replica accepts only entries of the leader of the term it is in.
AckStep(A, B) ==
    \A p \in Server : \A t \in Terms :
        A[p][t] <= B[p][t] /\ (A[p][t] # B[p][t] => currentTerm'[p] = t)

LEMMA OwnExtends ==
    ASSUME NEW H \in [Terms -> Seq(Entry)], NEW G \in [Terms -> Seq(Entry)], Extends(H, G),
           NEW t \in Terms
    PROVE  /\ Own(H, t) \subseteq Own(G, t)
           /\ \A i \in Own(G, t) : i <= Len(H[t]) => i \in Own(H, t)
<1>1. Len(H[t]) \in Nat /\ Len(G[t]) \in Nat /\ SamePrefix(H[t], G[t], Len(H[t]))
  BY LogType DEF Extends
<1> QED
  BY <1>1 DEF Own, SamePrefix

LEMMA PrefixExtends ==
    ASSUME NEW H \in [Terms -> Seq(Entry)], NEW G \in [Terms -> Seq(Entry)], Extends(H, G),
           NEW t \in Terms, NEW l, NEW i \in Nat, SamePrefix(H[t], l, i)
    PROVE  SamePrefix(G[t], l, i)
<1>1. Len(H[t]) \in Nat /\ Len(G[t]) \in Nat /\ SamePrefix(H[t], G[t], Len(H[t]))
  BY LogType DEF Extends
<1> QED
  BY <1>1 DEF SamePrefix

LEMMA BlockedNext ==
    ASSUME TypeOK, ElectionInv, [Next]_vars, NEW A, NEW B, AckStep(A, B),
           NEW t \in Terms, NEW i, Blocked(A, t, i)
    PROVE  Blocked(B, t, i)'
<1>1. PICK Q \in SUBSET Server : IsMajority(Q) /\ \A q \in Q : currentTerm[q] > t /\ A[q][t] < i
  BY DEF Blocked
<1>2. ASSUME NEW q \in Q
      PROVE  currentTerm'[q] > t /\ B[q][t] < i
  <2>1. currentTerm'[q] >= currentTerm[q]
    BY NodeNext DEF NodeStep, KeepsVote
  <2>2. currentTerm[q] \in Nat /\ currentTerm'[q] \in Nat /\ t \in Nat
    BY TypeNext DEF TypeOK, Terms
  <2>3. currentTerm'[q] > t
    BY <1>1, <2>1, <2>2
  <2>4. B[q][t] = A[q][t]
    BY <2>2, <2>3 DEF AckStep
  <2> QED BY <1>1, <2>3, <2>4
<1> QED
  BY <1>1, <1>2 DEF Blocked, IsMajority

LEMMA SafeNext ==
    ASSUME TypeOK, ElectionInv, [Next]_vars,
           NEW H \in [Terms -> Seq(Entry)], NEW G \in [Terms -> Seq(Entry)], Extends(H, G),
           NEW A, NEW B, AckStep(A, B),
           NEW t \in Terms, NEW i \in Nat, NEW l, NEW k,
           Safe(H, A, l, t, i), SamePrefix(H[t], l, i) => SamePrefix(k, l, i)
    PROVE  Safe(G, B, k, t, i)'
<1>1. CASE Blocked(A, t, i)
  BY <1>1, BlockedNext DEF Safe
<1>2. CASE SamePrefix(H[t], l, i)
  <2>1. SamePrefix(G[t], l, i)
    BY <1>2, PrefixExtends
  <2>2. SamePrefix(G[t], k, i)
    BY <1>2, <2>1 DEF SamePrefix
  <2> QED BY <2>2 DEF Safe
<1> QED
  BY <1>1, <1>2 DEF Safe

\* A decided entry is not blocked: the two majorities meet.
LEMMA DecidedNotBlocked ==
    ASSUME NEW A \in [Server -> [Terms -> Nat]], NEW t \in Terms, NEW i \in Nat, Decided(A, t, i)
    PROVE  ~Blocked(A, t, i)
<1> SUFFICES ASSUME Blocked(A, t, i)
             PROVE  FALSE
  OBVIOUS
<1>1. PICK P \in SUBSET Server : IsMajority(P) /\ \A q \in P : i <= A[q][t]
  BY DEF Decided
<1>2. PICK Q \in SUBSET Server : IsMajority(Q) /\ \A q \in Q : A[q][t] < i
  BY DEF Blocked
<1>3. PICK q \in Server : q \in P /\ q \in Q
  BY <1>1, <1>2, MajoritiesMeet
<1>4. A[q][t] \in Nat /\ i <= A[q][t] /\ A[q][t] < i
  BY <1>1, <1>2, <1>3
<1> QED
  BY <1>4

-----------------------------------------------------------------------------
(***************************************************************************)
(* What is accepted: the four ways in which the histories may grow.        *)
(***************************************************************************)

\* Replica n has accepted the log of term t up to k.
SetAck(A, n, t, k) == [A EXCEPT ![n][t] = k]

\* The histories after a step: a leader is elected, a leader takes a stroke, a
\* follower accepts a request, or nothing of this.
ByElection(H, A, G, B, n) ==
    /\ Elects(n)
    /\ G = [H EXCEPT ![currentTerm[n]] = log[n]]
    /\ B = SetAck(A, n, currentTerm[n], Len(log[n]))

ByStroke(H, A, G, B, n, s) ==
    /\ HandleStroke(n, s)
    /\ G = [H EXCEPT ![currentTerm[n]] = log'[n]]
    /\ B = SetAck(A, n, currentTerm[n], Len(log'[n]))

Later(i, k) == IF i > k THEN i ELSE k

LastSent(m) == m.prevLogIndex + Len(m.entries)

ByAccept(H, A, G, B, m) ==
    /\ HandleAppendEntries(m) /\ AcceptEntries(m)
    /\ G = H
    /\ B = SetAck(A, m.to, m.term, Later(LastSent(m), A[m.to][m.term]))

ByNothing(H, A, G, B) ==
    /\ \A n \in Server : ~Elects(n)
    /\ \A n \in Server, s \in Stroke : ~HandleStroke(n, s)
    /\ \A m \in appendReqs : ~(HandleAppendEntries(m) /\ AcceptEntries(m))
    /\ G = H /\ B = A

HistoryStep(H, A, G, B) ==
    \/ \E n \in Server : ByElection(H, A, G, B, n)
    \/ \E n \in Server, s \in Stroke : ByStroke(H, A, G, B, n, s)
    \/ \E m \in appendReqs : ByAccept(H, A, G, B, m)
    \/ ByNothing(H, A, G, B)

LEMMA HistoryStepExists ==
    ASSUME NEW H, NEW A
    PROVE  \E G, B : HistoryStep(H, A, G, B)
<1>1. ASSUME NEW n \in Server, Elects(n)
      PROVE  \E G, B : HistoryStep(H, A, G, B)
  <2>1. PICK G, B : ByElection(H, A, G, B, n)
    BY <1>1 DEF ByElection
  <2> QED BY <2>1 DEF HistoryStep
<1>2. ASSUME NEW n \in Server, NEW s \in Stroke, HandleStroke(n, s)
      PROVE  \E G, B : HistoryStep(H, A, G, B)
  <2>1. PICK G, B : ByStroke(H, A, G, B, n, s)
    BY <1>2 DEF ByStroke
  <2> QED BY <2>1 DEF HistoryStep
<1>3. ASSUME NEW m \in appendReqs, HandleAppendEntries(m), AcceptEntries(m)
      PROVE  \E G, B : HistoryStep(H, A, G, B)
  <2>1. PICK G, B : ByAccept(H, A, G, B, m)
    BY <1>3 DEF ByAccept
  <2> QED BY <2>1 DEF HistoryStep
<1>4. CASE ByNothing(H, A, H, A)
  BY <1>4 DEF HistoryStep
<1> QED
  BY <1>1, <1>2, <1>3, <1>4 DEF ByNothing

\* A step that is no stroke and accepts nothing leaves the logs alone.
LEMMA LogByNothing ==
    ASSUME [Next]_vars, \A n \in Server, s \in Stroke : ~HandleStroke(n, s),
           \A m \in appendReqs : ~(HandleAppendEntries(m) /\ AcceptEntries(m))
    PROVE  log' = log
<1>1. ASSUME NEW m \in appendReqs, HandleAppendEntries(m)
      PROVE  log' = log
  BY <1>1 DEF HandleAppendEntries, RejectStale, RejectMismatch, PanicOnCommitted, logVars
<1> QED
  BY <1>1
  DEF Next, vars, logVars, StartElection, FinishElection, HandleVoteRequest,
      HandleVoteResponse, SendAppendEntries, HandleAppendResponse, LoseRequest, LoseResponse


\* An acknowledgement of replica n in term t, and nothing else.
LEMMA OneAck ==
    ASSUME NEW A \in [Server -> [Terms -> Nat]], NEW n \in Server, NEW t \in Terms, NEW k \in Nat,
           A[n][t] <= k, currentTerm'[n] = t, NEW B, B = SetAck(A, n, t, k)
    PROVE  /\ B \in [Server -> [Terms -> Nat]] /\ AckStep(A, B)
           /\ B[n][t] = k
           /\ \A p \in Server : \A u \in Terms : p # n \/ u # t => B[p][u] = A[p][u]
<1>1. /\ B \in [Server -> [Terms -> Nat]] /\ B[n][t] = k
      /\ \A p \in Server : \A u \in Terms : p # n \/ u # t => B[p][u] = A[p][u]
  BY DEF SetAck
<1>2. ASSUME NEW p \in Server, NEW u \in Terms
      PROVE  A[p][u] <= B[p][u] /\ (A[p][u] # B[p][u] => currentTerm'[p] = u)
  BY <1>1
<1> QED
  BY <1>1, <1>2 DEF AckStep

\* What a new leader acknowledges to itself.
LEMMA ElectionAck ==
    ASSUME TypeOK, ElectionInv, ElectedInv, [Next]_vars, NEW H, HistoryInv(H), NEW A, AckInv(H, A),
           NEW n \in Server, NEW G, NEW B, ByElection(H, A, G, B, n)
    PROVE  /\ HistoryInv(G)' /\ G \in [Terms -> Seq(Entry)] /\ Extends(H, G)
           /\ B \in [Server -> [Terms -> Nat]] /\ AckStep(A, B)
           /\ G[currentTerm[n]] = log[n] /\ B[n][currentTerm[n]] = Len(log[n])
           /\ \A p \in Server : \A u \in Terms : p # n \/ u # currentTerm[n] => B[p][u] = A[p][u]
           /\ H[currentTerm[n]] = << >>
<1>1. PICK t \in Terms : t = currentTerm[n]
  BY DEF TypeOK
<1>2. /\ HistoryInv(G)' /\ G \in [Terms -> Seq(Entry)] /\ Extends(H, G) /\ H[t] = << >>
  BY <1>1, HistoryElects DEF ByElection
<1>3. /\ H \in [Terms -> Seq(Entry)] /\ A \in [Server -> [Terms -> Nat]]
      /\ A[n][t] <= Len(H[t]) /\ Len(log[n]) \in Nat /\ A[n][t] \in Nat
  BY LogType DEF HistoryInv, HistoryOK, AckInv, TypeOK
<1>4. A[n][t] <= Len(log[n])
  BY <1>2, <1>3
<1>5. currentTerm'[n] = t
  BY <1>1, ElectsEffect DEF ByElection
<1>6. B = SetAck(A, n, t, Len(log[n])) /\ G = [H EXCEPT ![t] = log[n]]
  BY <1>1 DEF ByElection
<1>7. /\ B \in [Server -> [Terms -> Nat]] /\ AckStep(A, B)
      /\ B[n][t] = Len(log[n])
      /\ \A p \in Server : \A u \in Terms : p # n \/ u # t => B[p][u] = A[p][u]
  BY <1>3, <1>4, <1>5, <1>6, OneAck
<1>8. G[t] = log[n]
  BY <1>3, <1>6
<1> QED
  BY <1>1, <1>2, <1>7, <1>8

LEMMA StrokeAck ==
    ASSUME TypeOK, ElectionInv, NEW H, HistoryInv(H), NEW A, AckInv(H, A),
           NEW n \in Server, NEW s \in Stroke, NEW G, NEW B, ByStroke(H, A, G, B, n, s)
    PROVE  /\ HistoryInv(G)' /\ G \in [Terms -> Seq(Entry)] /\ Extends(H, G)
           /\ B \in [Server -> [Terms -> Nat]] /\ AckStep(A, B)
           /\ G[currentTerm[n]] = log'[n] /\ B[n][currentTerm[n]] = Len(log'[n])
           /\ \A p \in Server : \A u \in Terms : p # n \/ u # currentTerm[n] => B[p][u] = A[p][u]
           /\ Len(log'[n]) = Len(log[n]) + 1 /\ SamePrefix(log[n], log'[n], Len(log[n]))
           /\ \A v \in Server \ {n} : log'[v] = log[v]
           /\ state[n] = Leader
<1>1. PICK t \in Terms : t = currentTerm[n]
  BY DEF TypeOK
<1>2. /\ HistoryInv(G)' /\ G \in [Terms -> Seq(Entry)] /\ Extends(H, G) /\ H[t] = log[n]
      /\ Len(log'[n]) = Len(log[n]) + 1 /\ SamePrefix(log[n], log'[n], Len(log[n]))
  BY <1>1, HistoryStroke DEF ByStroke
<1>3. /\ H \in [Terms -> Seq(Entry)] /\ A \in [Server -> [Terms -> Nat]]
      /\ A[n][t] <= Len(H[t]) /\ Len(log[n]) \in Nat /\ A[n][t] \in Nat
  BY LogType DEF HistoryInv, HistoryOK, AckInv, TypeOK
<1>4. A[n][t] <= Len(log'[n]) /\ Len(log'[n]) \in Nat
  BY <1>2, <1>3
<1>5. /\ currentTerm'[n] = t /\ state[n] = Leader
      /\ \A v \in Server \ {n} : log'[v] = log[v]
  BY <1>1 DEF ByStroke, HandleStroke, nodeVars, TypeOK
<1>6. B = SetAck(A, n, t, Len(log'[n])) /\ G = [H EXCEPT ![t] = log'[n]]
  BY <1>1 DEF ByStroke
<1>7. /\ B \in [Server -> [Terms -> Nat]] /\ AckStep(A, B)
      /\ B[n][t] = Len(log'[n])
      /\ \A p \in Server : \A u \in Terms : p # n \/ u # t => B[p][u] = A[p][u]
  BY <1>3, <1>4, <1>5, <1>6, OneAck
<1>8. G[t] = log'[n]
  BY <1>3, <1>6
<1> QED
  BY <1>1, <1>2, <1>5, <1>7, <1>8

LEMMA AcceptAck ==
    ASSUME TypeOK, ElectionInv, ElectedInv, [Next]_vars, NEW H, HistoryInv(H), NEW A, AckInv(H, A),
           NEW m \in appendReqs, NEW G, NEW B, ByAccept(H, A, G, B, m)
    PROVE  /\ HistoryInv(G)' /\ G \in [Terms -> Seq(Entry)] /\ Extends(H, G)
           /\ B \in [Server -> [Terms -> Nat]] /\ AckStep(A, B)
           /\ LastSent(m) \in Nat /\ LastSent(m) <= B[m.to][m.term]
           /\ B[m.to][m.term] \in {LastSent(m), A[m.to][m.term]}
           /\ \A p \in Server : \A u \in Terms : p # m.to \/ u # m.term => B[p][u] = A[p][u]
<1>1. /\ m.to \in Server /\ m.term \in Terms /\ currentTerm'[m.to] = m.term
      /\ LastSent(m) \in Nat
  BY AcceptEffect DEF ByAccept, LastSent
<1>2. \A n \in Server : ~Elects(n)
  BY DEF ByAccept, AcceptEntries, HandleAppendEntries, Elects, FinishElection, TypeOK,
     electionVars
<1>3. \A n \in Server, s \in Stroke : ~HandleStroke(n, s)
  <2> SUFFICES ASSUME NEW n \in Server, NEW s \in Stroke, HandleStroke(n, s)
               PROVE  FALSE
    OBVIOUS
  <2>1. UNCHANGED <<state, currentTerm, appendResps>> /\ state[n] = Leader /\ log'[n] # log[n]
    <3>1. log[n] \in Seq(Entry) /\ [term |-> currentTerm[n], stroke |-> s] \in Entry
      BY DEF TypeOK, Entry
    <3>2. Len(log'[n]) = Len(log[n]) + 1 /\ Len(log[n]) \in Nat
      BY <3>1, AppendProperties DEF HandleStroke, TypeOK
    <3>3. log'[n] # log[n]
      BY <3>2
    <3> QED BY <3>3 DEF HandleStroke, nodeVars, netVars
  <2>2. state'[m.to] = Follower /\ \A v \in Server \ {m.to} : log'[v] = log[v]
    BY AcceptEffect DEF ByAccept
  <2> QED BY <2>1, <2>2 DEF Follower, Leader
<1>4. HistoryInv(H)'
  BY <1>2, <1>3, HistoryOther
<1>5. /\ H \in [Terms -> Seq(Entry)] /\ A \in [Server -> [Terms -> Nat]] /\ G = H
  BY DEF HistoryInv, HistoryOK, AckInv, ByAccept
<1>6. Extends(H, H)
  BY <1>5, LogType DEF Extends, SamePrefix
<1>7. PICK k \in Nat : k = Later(LastSent(m), A[m.to][m.term])
  BY <1>1, <1>5 DEF Later
<1>8. /\ A[m.to][m.term] <= k /\ LastSent(m) <= k /\ k \in {LastSent(m), A[m.to][m.term]}
      /\ B = SetAck(A, m.to, m.term, k)
  BY <1>1, <1>5, <1>7 DEF ByAccept, Later
<1>9. /\ B \in [Server -> [Terms -> Nat]] /\ AckStep(A, B)
      /\ B[m.to][m.term] = k
      /\ \A p \in Server : \A u \in Terms : p # m.to \/ u # m.term => B[p][u] = A[p][u]
  <2>1. PICK n \in Server, t \in Terms : n = m.to /\ t = m.term
    BY <1>1
  <2>2. A[n][t] <= k /\ currentTerm'[n] = t /\ B = SetAck(A, n, t, k)
    BY <1>1, <1>8, <2>1
  <2>3. /\ B \in [Server -> [Terms -> Nat]] /\ AckStep(A, B) /\ B[n][t] = k
        /\ \A p \in Server : \A u \in Terms : p # n \/ u # t => B[p][u] = A[p][u]
    BY <1>5, <2>2, OneAck
  <2> QED BY <2>1, <2>3
<1> QED
  BY <1>1, <1>4, <1>5, <1>6, <1>8, <1>9

LEMMA HistoryStepGrows ==
    ASSUME TypeOK, ElectionInv, ElectedInv, [Next]_vars, NEW H, HistoryInv(H), NEW A, AckInv(H, A),
           NEW G, NEW B, HistoryStep(H, A, G, B)
    PROVE  /\ HistoryInv(G)' /\ G \in [Terms -> Seq(Entry)] /\ Extends(H, G)
           /\ B \in [Server -> [Terms -> Nat]] /\ AckStep(A, B)
<1>1. CASE ByNothing(H, A, G, B)
  <2>1. /\ H \in [Terms -> Seq(Entry)] /\ A \in [Server -> [Terms -> Nat]] /\ G = H /\ B = A
    BY <1>1 DEF HistoryInv, HistoryOK, AckInv, ByNothing
  <2>2. HistoryInv(H)'
    BY <1>1, HistoryOther DEF ByNothing
  <2>3. Extends(H, H)
    BY <2>1, LogType DEF Extends, SamePrefix
  <2>4. AckStep(A, A)
    BY <2>1 DEF AckStep
  <2> QED BY <2>1, <2>2, <2>3, <2>4
<1> QED
  BY <1>1, ElectionAck, StrokeAck, AcceptAck DEF HistoryStep


LEMMA ExtendsPrefix ==
    ASSUME NEW H \in [Terms -> Seq(Entry)], NEW G \in [Terms -> Seq(Entry)], Extends(H, G),
           NEW t \in Terms, NEW l, NEW i \in Nat, SamePrefix(l, H[t], i)
    PROVE  SamePrefix(l, G[t], i)
<1>1. Len(H[t]) \in Nat /\ Len(G[t]) \in Nat /\ SamePrefix(H[t], G[t], Len(H[t]))
  BY LogType DEF Extends
<1> QED
  BY <1>1 DEF SamePrefix

\* A replica holds what it has accepted in the term it is in.
LEMMA AckLogsNext ==
    ASSUME TypeOK, ElectionInv, ElectedInv, [Next]_vars, NEW H, HistoryInv(H), NEW A, AckInv(H, A),
           NEW G, NEW B, HistoryStep(H, A, G, B), NEW p \in Server
    PROVE  SamePrefix(log'[p], G[currentTerm'[p]], B[p][currentTerm'[p]])
<1>1. /\ G \in [Terms -> Seq(Entry)] /\ Extends(H, G)
      /\ B \in [Server -> [Terms -> Nat]] /\ AckStep(A, B)
  BY HistoryStepGrows
<1>2. H \in [Terms -> Seq(Entry)] /\ A \in [Server -> [Terms -> Nat]]
  BY DEF HistoryInv, HistoryOK, AckInv
<1>3. currentTerm[p] \in Terms /\ currentTerm'[p] \in Terms /\ Len(log[p]) \in Nat /\ Len(log'[p]) \in Nat
  BY TypeNext, LogType DEF TypeOK
<1>4. A[p][currentTerm[p]] \in Nat /\ SamePrefix(log[p], H[currentTerm[p]], A[p][currentTerm[p]])
  BY <1>2, <1>3 DEF AckInv
<1>5. SamePrefix(log[p], G[currentTerm[p]], A[p][currentTerm[p]])
  BY <1>1, <1>2, <1>3, <1>4, ExtendsPrefix
<1>6. ASSUME NEW n \in Server, ByElection(H, A, G, B, n)
      PROVE  SamePrefix(log'[p], G[currentTerm'[p]], B[p][currentTerm'[p]])
  <2>1. /\ G[currentTerm[n]] = log[n] /\ B[n][currentTerm[n]] = Len(log[n])
        /\ \A q \in Server : \A u \in Terms : q # n \/ u # currentTerm[n] => B[q][u] = A[q][u]
    BY <1>6, ElectionAck
  <2>2. currentTerm' = currentTerm /\ log' = log
    BY <1>6, ElectsEffect DEF ByElection
  <2>3. CASE p = n
    BY <1>3, <2>1, <2>2, <2>3 DEF SamePrefix
  <2>4. CASE p # n
    BY <1>3, <1>5, <2>1, <2>2, <2>4
  <2> QED BY <2>3, <2>4
<1>7. ASSUME NEW n \in Server, NEW s \in Stroke, ByStroke(H, A, G, B, n, s)
      PROVE  SamePrefix(log'[p], G[currentTerm'[p]], B[p][currentTerm'[p]])
  <2>1. /\ G[currentTerm[n]] = log'[n] /\ B[n][currentTerm[n]] = Len(log'[n])
        /\ \A q \in Server : \A u \in Terms : q # n \/ u # currentTerm[n] => B[q][u] = A[q][u]
        /\ \A v \in Server \ {n} : log'[v] = log[v]
    BY <1>7, StrokeAck
  <2>2. currentTerm' = currentTerm
    BY <1>7 DEF ByStroke, HandleStroke, nodeVars
  <2>3. CASE p = n
    BY <1>3, <2>1, <2>2, <2>3 DEF SamePrefix
  <2>4. CASE p # n
    BY <1>3, <1>5, <2>1, <2>2, <2>4
  <2> QED BY <2>3, <2>4
<1>8. ASSUME NEW m \in appendReqs, ByAccept(H, A, G, B, m)
      PROVE  SamePrefix(log'[p], G[currentTerm'[p]], B[p][currentTerm'[p]])
  <2>1. /\ LastSent(m) \in Nat /\ G = H
        /\ B[m.to][m.term] \in {LastSent(m), A[m.to][m.term]}
        /\ \A q \in Server : \A u \in Terms : q # m.to \/ u # m.term => B[q][u] = A[q][u]
    BY <1>8, AcceptAck DEF ByAccept
  <2>2. /\ m.to \in Server /\ m.term \in Terms
        /\ currentTerm'[m.to] = m.term /\ m.term >= currentTerm[m.to]
        /\ \A v \in Server \ {m.to} : currentTerm'[v] = currentTerm[v] /\ log'[v] = log[v]
        /\ SamePrefix(log'[m.to], H[m.term], LastSent(m))
        /\ \A i \in Nat : SamePrefix(log[m.to], H[m.term], i) => SamePrefix(log'[m.to], log[m.to], i)
    BY <1>8, AcceptEffect DEF ByAccept, LastSent
  <2>3. CASE p # m.to
    BY <1>3, <1>5, <2>1, <2>2, <2>3
  <2>4. CASE p = m.to /\ B[p][m.term] = LastSent(m)
    BY <2>1, <2>2, <2>4
  <2>5. CASE p = m.to /\ B[p][m.term] = A[p][m.term]
    <3>1. A[p][m.term] \in Nat /\ (A[p][m.term] > 0 => m.term <= currentTerm[p])
      BY <1>2, <2>2 DEF AckInv
    <3>2. CASE A[p][m.term] = 0
      BY <1>1, <1>3, <2>2, <2>5, <3>2, LogType DEF SamePrefix
    <3>3. CASE A[p][m.term] > 0
      <4>1. m.term = currentTerm[p]
        BY <1>3, <2>2, <2>5, <3>1, <3>3 DEF Terms
      <4>2. SamePrefix(log'[p], log[p], A[p][m.term])
        BY <1>4, <2>2, <2>5, <4>1
      <4>3. SamePrefix(log'[p], H[m.term], A[p][m.term])
        BY <1>4, <4>1, <4>2 DEF SamePrefix
      <4> QED BY <2>1, <2>2, <2>5, <4>3
    <3> QED BY <3>1, <3>2, <3>3
  <2> QED BY <2>1, <2>3, <2>4, <2>5
<1>9. CASE ByNothing(H, A, G, B)
  <2>1. log' = log /\ G = H /\ B = A
    BY <1>9, LogByNothing DEF ByNothing
  <2>2. CASE currentTerm'[p] = currentTerm[p]
    BY <1>4, <2>1, <2>2
  <2>3. CASE currentTerm'[p] # currentTerm[p]
    <3>1. currentTerm'[p] >= currentTerm[p]
      BY NodeNext DEF NodeStep, KeepsVote
    <3>2. A[p][currentTerm'[p]] \in Nat /\ (A[p][currentTerm'[p]] > 0 => currentTerm'[p] <= currentTerm[p])
      BY <1>2, <1>3 DEF AckInv
    <3>3. A[p][currentTerm'[p]] = 0
      BY <1>3, <2>3, <3>1, <3>2 DEF Terms
    <3>4. Len(G[currentTerm'[p]]) \in Nat
      BY <1>1, <1>3, LogType
    <3> QED BY <1>3, <2>1, <3>3, <3>4 DEF SamePrefix
  <2> QED BY <2>2, <2>3
<1> QED
  BY <1>6, <1>7, <1>8, <1>9 DEF HistoryStep


-----------------------------------------------------------------------------
(***************************************************************************)
(* What the leader knows of what is accepted.                              *)
(***************************************************************************)
LEMMA AckBoundsNext ==
    ASSUME TypeOK, ElectionInv, ElectedInv, [Next]_vars, NEW H, HistoryInv(H), NEW A, AckInv(H, A),
           NEW G, NEW B, HistoryStep(H, A, G, B), NEW p \in Server, NEW t \in Terms
    PROVE  B[p][t] <= Len(G[t]) /\ (B[p][t] > 0 => t <= currentTerm'[p])
<1>1. /\ G \in [Terms -> Seq(Entry)] /\ Extends(H, G)
      /\ B \in [Server -> [Terms -> Nat]] /\ AckStep(A, B)
  BY HistoryStepGrows
<1>2. /\ H \in [Terms -> Seq(Entry)] /\ A \in [Server -> [Terms -> Nat]]
      /\ A[p][t] <= Len(H[t]) /\ (A[p][t] > 0 => t <= currentTerm[p])
  BY DEF HistoryInv, HistoryOK, AckInv
<1>3. currentTerm[p] \in Nat /\ currentTerm'[p] \in Nat /\ t \in Nat
  BY TypeNext DEF TypeOK, Terms
<1>4. CASE B[p][t] = A[p][t]
  <2>1. Len(H[t]) \in Nat /\ Len(G[t]) \in Nat /\ Len(H[t]) <= Len(G[t])
    BY <1>1, <1>2, LogType DEF Extends, SamePrefix
  <2>2. currentTerm'[p] >= currentTerm[p]
    BY NodeNext DEF NodeStep, KeepsVote
  <2>3. A[p][t] \in Nat
    BY <1>2
  <2> QED BY <1>2, <1>3, <1>4, <2>1, <2>2, <2>3
<1>5. CASE B[p][t] # A[p][t]
  <2>1. currentTerm'[p] = t
    BY <1>1, <1>5 DEF AckStep
  <2>2. SamePrefix(log'[p], G[t], B[p][t])
    BY <2>1, AckLogsNext
  <2> QED BY <1>3, <2>1, <2>2 DEF SamePrefix
<1> QED
  BY <1>4, <1>5

LEMMA AckLeaderNext ==
    ASSUME TypeOK, ElectionInv, ElectedInv, [Next]_vars, NEW H, HistoryInv(H), NEW A, AckInv(H, A),
           NEW G, NEW B, HistoryStep(H, A, G, B), NEW n \in Server, state'[n] = Leader
    PROVE  B[n][currentTerm'[n]] = Len(log'[n])
<1>1. currentTerm[n] \in Terms /\ (state[n] = Leader => A[n][currentTerm[n]] = Len(log[n]))
  BY DEF TypeOK, AckInv
<1>2. ASSUME NEW c \in Server, ByElection(H, A, G, B, c)
      PROVE  B[n][currentTerm'[n]] = Len(log'[n])
  <2>1. /\ B[c][currentTerm[c]] = Len(log[c])
        /\ \A q \in Server : \A u \in Terms : q # c \/ u # currentTerm[c] => B[q][u] = A[q][u]
    BY <1>2, ElectionAck
  <2>2. /\ currentTerm' = currentTerm /\ log' = log
        /\ \A v \in Server \ {c} : state'[v] = state[v]
    BY <1>2, ElectsEffect DEF ByElection
  <2> QED BY <1>1, <2>1, <2>2
<1>3. ASSUME NEW c \in Server, NEW s \in Stroke, ByStroke(H, A, G, B, c, s)
      PROVE  B[n][currentTerm'[n]] = Len(log'[n])
  <2>1. /\ B[c][currentTerm[c]] = Len(log'[c])
        /\ \A q \in Server : \A u \in Terms : q # c \/ u # currentTerm[c] => B[q][u] = A[q][u]
        /\ \A v \in Server \ {c} : log'[v] = log[v]
    BY <1>3, StrokeAck
  <2>2. currentTerm' = currentTerm /\ state' = state
    BY <1>3 DEF ByStroke, HandleStroke, nodeVars
  <2> QED BY <1>1, <2>1, <2>2
<1>4. ASSUME NEW m \in appendReqs, ByAccept(H, A, G, B, m)
      PROVE  B[n][currentTerm'[n]] = Len(log'[n])
  <2>1. \A q \in Server : \A u \in Terms : q # m.to \/ u # m.term => B[q][u] = A[q][u]
    BY <1>4, AcceptAck
  <2>2. /\ state'[m.to] = Follower
        /\ \A v \in Server \ {m.to} : /\ state'[v] = state[v] /\ currentTerm'[v] = currentTerm[v]
                                      /\ log'[v] = log[v]
    BY <1>4, AcceptEffect DEF ByAccept
  <2>3. n # m.to
    BY <2>2 DEF Follower, Leader
  <2> QED BY <1>1, <2>1, <2>2, <2>3
<1>5. CASE ByNothing(H, A, G, B)
  <2>1. log' = log /\ B = A
    BY <1>5, LogByNothing DEF ByNothing
  <2>2. state[n] = Leader /\ currentTerm'[n] = currentTerm[n]
    BY <1>5, LeaderBefore DEF ByNothing
  <2> QED BY <1>1, <2>1, <2>2
<1> QED
  BY <1>2, <1>3, <1>4, <1>5 DEF HistoryStep

LEMMA AckRepliesNext ==
    ASSUME TypeOK, ElectionInv, ElectedInv, [Next]_vars, NEW H, HistoryInv(H), NEW A, AckInv(H, A),
           NEW G, NEW B, HistoryStep(H, A, G, B), NEW r \in appendResps', r.success
    PROVE  r.lastSent <= B[r.from][r.reqTerm]
<1>1. B \in [Server -> [Terms -> Nat]] /\ AckStep(A, B) /\ A \in [Server -> [Terms -> Nat]]
  BY HistoryStepGrows DEF AckInv
<1>2. r.lastSent \in Nat /\ r.from \in Server /\ r.reqTerm \in Terms
  BY TypeNext DEF TypeOK, AppendEntriesResponse
<1>3. CASE r \in appendResps
  <2>1. r.lastSent <= A[r.from][r.reqTerm] /\ A[r.from][r.reqTerm] <= B[r.from][r.reqTerm]
    BY <1>1, <1>2, <1>3 DEF AckInv, AckStep
  <2>2. A[r.from][r.reqTerm] \in Nat /\ B[r.from][r.reqTerm] \in Nat
    BY <1>1, <1>2
  <2> QED BY <1>2, <2>1, <2>2
<1>4. CASE r \notin appendResps
  <2>1. ASSUME NEW c \in Server, ByElection(H, A, G, B, c)
        PROVE  FALSE
    BY <1>4, <2>1, ElectsEffect DEF ByElection
  <2>2. ASSUME NEW c \in Server, NEW s \in Stroke, ByStroke(H, A, G, B, c, s)
        PROVE  FALSE
    BY <1>4, <2>2 DEF ByStroke, HandleStroke, netVars
  <2>3. ASSUME NEW m \in appendReqs, ByAccept(H, A, G, B, m)
        PROVE  r.lastSent <= B[r.from][r.reqTerm]
    <3>1. LastSent(m) \in Nat /\ LastSent(m) <= B[m.to][m.term]
      BY <2>3, AcceptAck
    <3>2. /\ r.from = m.to /\ r.reqTerm = m.term
          /\ r.lastSent = IF m.entries = << >> THEN 0 ELSE m.prevLogIndex + Len(m.entries)
      BY <1>4, <2>3, ReplyEffect DEF ByAccept
    <3>3. B[r.from][r.reqTerm] \in Nat
      BY <1>1, <1>2
    <3> QED BY <3>1, <3>2, <3>3 DEF LastSent
  <2>4. CASE ByNothing(H, A, G, B)
    <3>1. PICK m \in appendReqs : HandleAppendEntries(m)
      BY <1>4, CallsUnchanged
    <3>2. AcceptEntries(m)
      BY <1>4, <3>1, ReplyEffect
    <3> QED BY <2>4, <3>1, <3>2 DEF ByNothing
  <2> QED BY <2>1, <2>2, <2>3, <2>4 DEF HistoryStep
<1> QED
  BY <1>3, <1>4

\* Where a leader's matchIndex comes from.
LEMMA MatchIndexNext ==
    ASSUME TypeOK, [Next]_vars, NEW n \in Server, ~Elects(n), NEW p \in Server,
           matchIndex'[n][p] # matchIndex[n][p]
    PROVE  \E r \in appendResps :
              /\ HandleAppendResponse(r) /\ r.success /\ r.to = n /\ r.from = p
              /\ r.reqTerm = currentTerm[n] /\ matchIndex'[n][p] = r.lastSent
<1>1. ASSUME NEW c \in Server, FinishElection(c)
      PROVE  FALSE
  <2>1. c # n => matchIndex'[n] = matchIndex[n]
    BY <1>1 DEF FinishElection, leaderVars, TypeOK
  <2>2. c = n => matchIndex'[n] = matchIndex[n]
    BY <1>1 DEF FinishElection, leaderVars, Elects
  <2> QED BY <2>1, <2>2
<1>2. ASSUME NEW r \in appendResps, HandleAppendResponse(r)
      PROVE  /\ r.success /\ r.to = n /\ r.from = p
             /\ r.reqTerm = currentTerm[n] /\ matchIndex'[n][p] = r.lastSent
  <2> DEFINE mi == IF r.lastSent > 0 THEN [matchIndex[r.to] EXCEPT ![r.from] = r.lastSent]
                   ELSE matchIndex[r.to]
  <2>1. /\ matchIndex' = [matchIndex EXCEPT ![r.to] = mi]
        /\ r.success /\ currentTerm[r.to] = r.reqTerm
    BY <1>2 DEF HandleAppendResponse, leaderVars
  <2>2. r.to = n /\ matchIndex'[n] = mi
    BY <2>1 DEF TypeOK
  <2>3. matchIndex[n] \in [Server -> Nat]
    BY DEF TypeOK
  <2>4. r.from = p /\ matchIndex'[n][p] = r.lastSent
    BY <2>2, <2>3
  <2> QED BY <2>1, <2>2, <2>4
<1> QED
  BY <1>1, <1>2
  DEF Next, vars, leaderVars, StartElection, HandleVoteRequest, HandleVoteResponse, HandleStroke,
      SendAppendEntries, HandleAppendEntries, LoseRequest, LoseResponse

LEMMA AckMatchNext ==
    ASSUME TypeOK, ElectionInv, ElectedInv, [Next]_vars, NEW H, HistoryInv(H), NEW A, AckInv(H, A),
           NEW G, NEW B, HistoryStep(H, A, G, B), NEW n \in Server, state'[n] = Leader,
           NEW p \in Peers(n)
    PROVE  matchIndex'[n][p] <= B[p][currentTerm'[n]]
<1>1. B \in [Server -> [Terms -> Nat]] /\ AckStep(A, B) /\ A \in [Server -> [Terms -> Nat]]
  BY HistoryStepGrows DEF AckInv
<1>2. /\ p \in Server /\ currentTerm[n] \in Terms /\ currentTerm'[n] \in Terms
      /\ matchIndex[n][p] \in Nat /\ matchIndex'[n][p] \in Nat
  <2>1. p \in Server
    BY DEF Peers
  <2>2. TypeOK /\ TypeOK'
    BY TypeNext
  <2> QED BY <2>1, <2>2 DEF TypeOK
<1>3. CASE Elects(n)
  BY <1>1, <1>2, <1>3, ElectsEffect
<1>4. CASE ~Elects(n)
  <2>1. state[n] = Leader /\ currentTerm'[n] = currentTerm[n]
    BY <1>4, LeaderBefore
  <2>2. /\ A[p][currentTerm[n]] \in Nat /\ B[p][currentTerm[n]] \in Nat
        /\ A[p][currentTerm[n]] <= B[p][currentTerm[n]]
    BY <1>1, <1>2 DEF AckStep
  <2>3. matchIndex'[n][p] <= A[p][currentTerm[n]]
    <3>1. CASE matchIndex'[n][p] = matchIndex[n][p]
      BY <2>1, <3>1 DEF AckInv
    <3>2. CASE matchIndex'[n][p] # matchIndex[n][p]
      <4>1. PICK r \in appendResps : /\ r.success /\ r.from = p /\ r.reqTerm = currentTerm[n]
                                     /\ matchIndex'[n][p] = r.lastSent
        BY <1>2, <1>4, <3>2, MatchIndexNext
      <4> QED BY <4>1 DEF AckInv
    <3> QED BY <3>1, <3>2
  <2> QED BY <1>2, <2>1, <2>2, <2>3
<1> QED
  BY <1>3, <1>4

LEMMA AckNext ==
    ASSUME TypeOK, ElectionInv, ElectedInv, [Next]_vars, NEW H, HistoryInv(H), NEW A, AckInv(H, A),
           NEW G, NEW B, HistoryStep(H, A, G, B)
    PROVE  AckInv(G, B)'
<1>1. B \in [Server -> [Terms -> Nat]]
  BY HistoryStepGrows
<1>2. /\ \A p \in Server : \A t \in Terms :
            B[p][t] <= Len(G[t]) /\ (B[p][t] > 0 => t <= currentTerm'[p])
  BY AckBoundsNext
<1>3. \A p \in Server : SamePrefix(log'[p], G[currentTerm'[p]], B[p][currentTerm'[p]])
  BY AckLogsNext
<1>4. \A n \in Server : state'[n] = Leader => B[n][currentTerm'[n]] = Len(log'[n])
  BY AckLeaderNext
<1>5. \A r \in appendResps' : r.success => r.lastSent <= B[r.from][r.reqTerm]
  BY AckRepliesNext
<1>6. \A n \in Server : state'[n] = Leader =>
            \A p \in Peers(n) : matchIndex'[n][p] <= B[p][currentTerm'[n]]
  BY AckMatchNext
<1> QED
  BY <1>1, <1>2, <1>3, <1>4, <1>5, <1>6 DEF AckInv

-----------------------------------------------------------------------------
(***************************************************************************)
(* What may still be decided: candidates and their voters.                 *)
(***************************************************************************)

\* A candidate's log does not change.
LEMMA CandidateLog ==
    ASSUME TypeOK, NEW H, HistoryInv(H), [Next]_vars, NEW c \in Server, state'[c] = Candidate
    PROVE  log'[c] = log[c]
<1>1. ASSUME NEW n \in Server, NEW s \in Stroke, HandleStroke(n, s)
      PROVE  log'[c] = log[c]
  BY <1>1 DEF HandleStroke, nodeVars, TypeOK, Candidate, Leader
<1>2. ASSUME NEW m \in appendReqs, AcceptEntries(m)
      PROVE  log'[c] = log[c]
  <2>1. state'[m.to] = Follower /\ \A v \in Server \ {m.to} : log'[v] = log[v]
    BY <1>2, AcceptEffect
  <2> QED BY <2>1 DEF Follower, Candidate
<1> QED
  BY <1>1, <1>2, LogUnchanged

LEMMA CandidacyInit == Init => CandidacyInv
BY DEF Init, CandidacyInv

LEMMA CandidacyNext ==
    ASSUME TypeOK, ElectionInv, NEW H, HistoryInv(H), CandidacyInv, [Next]_vars
    PROVE  CandidacyInv'
<1> SUFFICES ASSUME NEW m \in voteReqs'
             PROVE  /\ m.term <= currentTerm'[m.from]
                    /\ state'[m.from] = Candidate /\ currentTerm'[m.from] = m.term =>
                        m.lastLogIndex = Len(log'[m.from]) /\ m.lastLogTerm = LastTerm(log'[m.from])
  BY DEF CandidacyInv
<1>1. CASE m \in voteReqs
  <2>1. m.from \in Server /\ m.term \in Nat
    BY <1>1 DEF TypeOK, VoteRequest, Terms
  <2>2. currentTerm[m.from] \in Nat /\ currentTerm'[m.from] \in Nat
    BY <2>1, TypeNext DEF TypeOK, Terms
  <2>3. currentTerm'[m.from] >= currentTerm[m.from]
    BY <2>1, NodeNext DEF NodeStep, KeepsVote
  <2>4. m.term <= currentTerm[m.from]
    BY <1>1 DEF CandidacyInv
  <2>5. ASSUME state'[m.from] = Candidate, currentTerm'[m.from] = m.term
        PROVE  m.lastLogIndex = Len(log'[m.from]) /\ m.lastLogTerm = LastTerm(log'[m.from])
    <3>1. ~StartElection(m.from)
      BY <2>1, <2>2, <2>4, <2>5, SetNodeFields DEF StartElection
    <3>2. state[m.from] = Candidate /\ currentTerm[m.from] = m.term
      BY <2>1, <2>5, <3>1, LeadNext DEF LeadStep
    <3>3. log'[m.from] = log[m.from]
      BY <2>1, <2>5, CandidateLog
    <3> QED BY <1>1, <3>2, <3>3 DEF CandidacyInv
  <2> QED BY <2>1, <2>2, <2>3, <2>4, <2>5
<1>2. CASE m \notin voteReqs
  <2>1. PICK n \in Server : StartElection(n)
    BY <1>2 DEF Next, vars, netVars, FinishElection, HandleVoteRequest,
       HandleVoteResponse, HandleStroke, SendAppendEntries, HandleAppendEntries,
       HandleAppendResponse, LoseRequest, LoseResponse
  <2>2. /\ m.from = n /\ m.term = currentTerm[n] + 1 /\ log' = log
        /\ m.lastLogIndex = Len(log[n]) /\ m.lastLogTerm = LastTerm(log[n])
    BY <1>2, <2>1 DEF StartElection, logVars, LastIndex
  <2>3. currentTerm'[n] = currentTerm[n] + 1
    BY <2>1, SetNodeFields DEF StartElection
  <2>4. currentTerm[n] \in Nat
    BY DEF TypeOK, Terms
  <2> QED BY <2>2, <2>3, <2>4
<1> QED
  BY <1>1, <1>2

\* Whoever holds an entry that may still be decided votes only for those who do.
LEMMA UpToDateIsSafe ==
    ASSUME NEW H, HistoryOK(H), NEW A, LeadersSafe(H, A),
           NEW l \in Seq(Entry), NEW k \in Seq(Entry), NEW a, NEW b, Rooted(H, l, a), Rooted(H, k, b),
           NEW t \in Terms, NEW i \in Own(H, t), SamePrefix(H[t], k, i),
           NEW m, m.lastLogIndex = Len(l), m.lastLogTerm = LastTerm(l), LogUpToDate(m, k)
    PROVE  Safe(H, A, l, t, i)
<1>1. /\ H \in [Terms -> Seq(Entry)] /\ H[t] \in Seq(Entry)
      /\ Len(H[t]) \in Nat /\ Len(l) \in Nat /\ Len(k) \in Nat /\ t \in Nat
  BY LogType DEF HistoryOK, Terms
<1>2. i \in 1..Len(H[t]) /\ H[t][i].term = t
  BY DEF Own
<1>3. i \in 1..Len(k) /\ k[i].term = t
  BY <1>1, <1>2 DEF SamePrefix
<1>4. PICK w \in Nat : w = k[Len(k)].term /\ w = LastTerm(k)
  <2>1. k # << >> /\ Len(k) \in 1..Len(k)
    BY <1>1, <1>3
  <2>2. k[Len(k)].term \in Nat
    BY <1>1, <2>1, LogType DEF Terms
  <2> QED BY <2>1, <2>2 DEF LastTerm
<1>5. w >= t
  <2>1. H[w] \in Seq(Entry) /\ Len(H[w]) \in Nat
    BY <1>1, LogType DEF Terms
  <2>2. SamePrefix(k, H[w], Len(k))
    <3>1. Len(k) \in 1..Len(k)
      BY <1>1, <1>3
    <3> QED BY <1>4, <3>1 DEF Rooted
  <2>3. i \in 1..Len(H[w]) /\ H[w][i].term = t
    BY <1>1, <1>3, <2>1, <2>2 DEF SamePrefix
  <2>4. Rooted(H, H[w], w)
    BY DEF HistoryOK, Terms
  <2>5. t <= w
    BY <2>3, <2>4 DEF Rooted
  <2> QED BY <1>1, <2>5
<1>6. l # << >>
  BY <1>1, <1>3, <1>4, <1>5 DEF LogUpToDate, LastTerm, LastIndex
<1>7. PICK x \in Nat : x = l[Len(l)].term /\ x = LastTerm(l) /\ Len(l) \in 1..Len(l)
  <2>1. Len(l) \in 1..Len(l)
    BY <1>1, <1>6, EmptySeq
  <2>2. l[Len(l)].term \in Nat
    BY <1>1, <2>1, LogType DEF Terms
  <2> QED BY <1>6, <2>1, <2>2 DEF LastTerm
<1>8. H[x] \in Seq(Entry) /\ Len(H[x]) \in Nat /\ SamePrefix(l, H[x], Len(l))
  BY <1>1, <1>7, LogType DEF Rooted, Terms
<1>9. x > w \/ (x = w /\ Len(l) >= Len(k))
  BY <1>4, <1>7 DEF LogUpToDate, LastIndex
<1>10. CASE x = t
  <2>1. i <= Len(l)
    BY <1>1, <1>3, <1>4, <1>5, <1>7, <1>9, <1>10
  <2>2. SamePrefix(H[t], l, i)
    BY <1>1, <1>2, <1>8, <1>10, <2>1 DEF SamePrefix
  <2> QED BY <2>2 DEF Safe
<1>11. CASE x > t
  <2>1. PICK n \in Server : <<n, x>> \in elected
    <3>1. H[x] # << >>
      BY <1>7, <1>8 DEF SamePrefix
    <3> QED BY <3>1 DEF HistoryOK, Terms
  <2>2. Safe(H, A, H[x], t, i)
    BY <1>1, <1>11, <2>1 DEF LeadersSafe, Terms
  <2>3. CASE SamePrefix(H[t], H[x], i)
    <3>1. i <= Len(l)
      <4> SUFFICES ASSUME Len(l) < i
                   PROVE  FALSE
        BY <1>1, <1>2
      <4>1. Len(l) \in 1..Len(H[t]) /\ H[t][Len(l)].term = x
        <5>1. Len(l) \in 1..Len(H[t]) /\ Len(l) \in 1..i
          BY <1>1, <1>2, <1>7
        <5>2. l[Len(l)] = H[x][Len(l)] /\ H[t][Len(l)] = H[x][Len(l)]
          BY <1>7, <1>8, <2>3, <5>1 DEF SamePrefix
        <5> QED BY <1>7, <5>1, <5>2
      <4>2. x <= t
        BY <4>1 DEF HistoryOK, Rooted
      <4> QED BY <1>1, <1>11, <4>2
    <3>2. SamePrefix(H[t], l, i)
      <4>1. i <= Len(H[t]) /\ i \in Nat /\ \A j \in 1..i : j \in 1..Len(l)
        BY <1>1, <1>2, <3>1
      <4>2. \A j \in 1..Len(l) : l[j] = H[x][j]
        BY <1>8 DEF SamePrefix
      <4>3. \A j \in 1..i : H[t][j] = H[x][j]
        BY <2>3 DEF SamePrefix
      <4>4. \A j \in 1..i : H[t][j] = l[j]
        BY <4>1, <4>2, <4>3
      <4> QED BY <3>1, <4>1, <4>4 DEF SamePrefix
    <3> QED BY <3>2 DEF Safe
  <2> QED BY <2>2, <2>3 DEF Safe
<1> QED
  BY <1>1, <1>4, <1>5, <1>7, <1>9, <1>10, <1>11


\* The histories' types, and what is known of them across a step.
LEMMA HistoryTypes ==
    ASSUME TypeOK, ElectionInv, ElectedInv, [Next]_vars, NEW H, HistoryInv(H), NEW A, AckInv(H, A),
           NEW G, NEW B, HistoryStep(H, A, G, B), NEW t \in Terms
    PROVE  /\ H \in [Terms -> Seq(Entry)] /\ G \in [Terms -> Seq(Entry)] /\ Extends(H, G)
           /\ A \in [Server -> [Terms -> Nat]] /\ B \in [Server -> [Terms -> Nat]] /\ AckStep(A, B)
           /\ Len(H[t]) \in Nat /\ Len(G[t]) \in Nat /\ SamePrefix(H[t], G[t], Len(H[t]))
           /\ \A p \in Server : A[p][t] \in Nat /\ B[p][t] \in Nat /\ A[p][t] <= Len(H[t])
           /\ \A p \in Server : A[p][t] > 0 => t <= currentTerm[p]
<1>1. /\ G \in [Terms -> Seq(Entry)] /\ Extends(H, G)
      /\ B \in [Server -> [Terms -> Nat]] /\ AckStep(A, B)
  BY HistoryStepGrows
<1>2. /\ H \in [Terms -> Seq(Entry)] /\ A \in [Server -> [Terms -> Nat]]
      /\ \A p \in Server : A[p][t] <= Len(H[t]) /\ (A[p][t] > 0 => t <= currentTerm[p])
  BY DEF HistoryInv, HistoryOK, AckInv
<1>3. Len(H[t]) \in Nat /\ Len(G[t]) \in Nat
  BY <1>1, <1>2, LogType
<1>4. \A p \in Server : A[p][t] \in Nat /\ B[p][t] \in Nat
  BY <1>1, <1>2
<1> QED
  BY <1>1, <1>2, <1>3, <1>4 DEF Extends

\* The voters of a new leader have left the earlier terms, and if one of them has
\* accepted an entry the new leader has it.
LEMMA NewLeaderSafe ==
    ASSUME TypeOK, ElectionInv, NEW H, NEW A \in [Server -> [Terms -> Nat]], SafeInv(H, A),
           NEW n \in Server, Elects(n), NEW t \in Terms, t < currentTerm[n], NEW i \in Own(H, t)
    PROVE  Safe(H, A, log[n], t, i)
<1>1. /\ state[n] = Candidate /\ currentTerm[n] = electionTerm[n]
      /\ IsMajority({n} \cup votes[n]) /\ votes[n] \subseteq Server
  BY DEF Elects, Wins, TypeOK
<1>2. ASSUME NEW v \in votes[n]
      PROVE  Voted(v, n, currentTerm[n]) /\ currentTerm[v] >= currentTerm[n] /\ v \in Server
  <2>1. Voted(v, n, currentTerm[n]) /\ v \in Server /\ currentTerm[n] \in Terms
    BY <1>1 DEF Voted, TypeOK
  <2> QED BY <2>1 DEF ElectionInv, VoteHeldInv
<1>3. CASE i <= A[n][t]
  BY <1>3 DEF SafeInv, LogsSafe
<1>4. ASSUME NEW v \in votes[n], i <= A[v][t]
      PROVE  Safe(H, A, log[n], t, i)
  <2>1. currentTerm[n] \in Terms
    BY DEF TypeOK
  <2> QED BY <1>1, <1>2, <1>4, <2>1 DEF SafeInv, VotersSafe
<1>5. CASE \A v \in {n} \cup votes[n] : ~(i <= A[v][t])
  <2>1. PICK Q \in SUBSET Server : Q = {n} \cup votes[n]
    BY <1>1
  <2>2. i \in Nat /\ t \in Nat
    BY DEF Own, Terms
  <2>3. ASSUME NEW q \in Q
        PROVE  currentTerm[q] > t /\ A[q][t] < i
    <3>1. A[q][t] \in Nat /\ currentTerm[q] \in Nat /\ currentTerm[n] \in Nat
      BY DEF TypeOK, Terms
    <3>2. currentTerm[q] >= currentTerm[n]
      BY <1>2, <2>1, <3>1
    <3>3. ~(i <= A[q][t])
      BY <1>5, <2>1
    <3> QED BY <2>2, <3>1, <3>2, <3>3
  <2>4. Blocked(A, t, i)
    BY <1>1, <2>1, <2>3 DEF Blocked
  <2> QED BY <2>4 DEF Safe
<1> QED
  BY <1>3, <1>4, <1>5

LEMMA LeadersSafeNext ==
    ASSUME TypeOK, ElectionInv, ElectedInv, [Next]_vars, NEW H, HistoryInv(H), NEW A, AckInv(H, A),
           SafeInv(H, A), NEW G, NEW B, HistoryStep(H, A, G, B)
    PROVE  LeadersSafe(G, B)'
<1> SUFFICES ASSUME NEW n \in Server, NEW u \in Terms, <<n, u>> \in elected',
                    NEW t \in Terms, t < u, NEW i \in Own(G, t)
             PROVE  Safe(G, B, G[u], t, i)'
  BY DEF LeadersSafe
<1>1. /\ H \in [Terms -> Seq(Entry)] /\ G \in [Terms -> Seq(Entry)] /\ Extends(H, G)
      /\ A \in [Server -> [Terms -> Nat]] /\ AckStep(A, B)
      /\ Len(H[t]) \in Nat /\ \A p \in Server : A[p][t] \in Nat /\ A[p][t] <= Len(H[t])
  BY HistoryTypes
<1>2. i \in Nat /\ (i <= Len(H[t]) => i \in Own(H, t))
  <2>1. i \in Nat
    BY <1>1 DEF Own
  <2>2. i <= Len(H[t]) => i \in Own(H, t)
    BY <1>1, OwnExtends
  <2> QED BY <2>1, <2>2
<1>3. CASE <<n, u>> \in elected /\ i <= Len(H[t])
  <2>1. Safe(H, A, H[u], t, i)
    BY <1>2, <1>3 DEF SafeInv, LeadersSafe
  <2>2. SamePrefix(H[t], H[u], i) => SamePrefix(G[u], H[u], i)
    <3>1. /\ Len(H[u]) \in Nat /\ Len(G[u]) \in Nat /\ SamePrefix(H[u], G[u], Len(H[u]))
      BY HistoryTypes
    <3> QED BY <1>2, <3>1 DEF SamePrefix
  <2> QED BY <1>1, <1>2, <2>1, <2>2, SafeNext
<1>4. CASE <<n, u>> \in elected /\ ~(i <= Len(H[t]))
  <2>1. PICK Q \in SUBSET Server : IsMajority(Q) /\ \A q \in Q : Pledged(q, n, u)
    BY <1>4 DEF ElectionInv, QuorumInv
  <2>2. ASSUME NEW q \in Q
        PROVE  currentTerm[q] > t /\ A[q][t] < i
    <3>1. currentTerm[q] >= u /\ currentTerm[q] \in Nat /\ t \in Nat /\ u \in Nat
      BY <2>1 DEF Pledged, TypeOK, Terms
    <3>2. A[q][t] \in Nat /\ A[q][t] <= Len(H[t])
      BY <1>1
    <3> QED BY <1>1, <1>2, <1>4, <3>1, <3>2
  <2>3. Blocked(A, t, i)
    BY <2>1, <2>2 DEF Blocked
  <2>4. Blocked(B, t, i)'
    BY <1>1, <2>3, BlockedNext
  <2> QED BY <2>4 DEF Safe
<1>5. CASE <<n, u>> \notin elected
  <2>1. ASSUME NEW c \in Server, ByElection(H, A, G, B, c)
        PROVE  Safe(G, B, G[u], t, i)'
    <3>1. n = c /\ u = currentTerm[n]
      BY <1>5, <2>1, ElectsEffect DEF ByElection
    <3>2. G[u] = log[n] /\ G[t] = H[t]
      <4>1. t # u
        BY DEF Terms
      <4>2. G = [H EXCEPT ![u] = log[n]]
        BY <2>1, <3>1 DEF ByElection
      <4> QED BY <1>1, <4>1, <4>2
    <3>3. i \in Own(H, t)
      BY <3>2 DEF Own
    <3>4. Safe(H, A, G[u], t, i)
      BY <1>1, <2>1, <3>1, <3>2, <3>3, NewLeaderSafe DEF ByElection
    <3>5. Len(G[u]) \in Nat
      BY <1>1, LogType
    <3>6. SamePrefix(H[t], G[u], i) => SamePrefix(G[u], G[u], i)
      BY <1>2 DEF SamePrefix
    <3> QED BY <1>1, <1>2, <3>4, <3>6, SafeNext
  <2>2. ASSUME NEW c \in Server, NEW s \in Stroke, ByStroke(H, A, G, B, c, s)
        PROVE  FALSE
    BY <1>5, <2>2 DEF ByStroke, HandleStroke, historyVars
  <2>3. ASSUME NEW m \in appendReqs, ByAccept(H, A, G, B, m)
        PROVE  FALSE
    BY <1>5, <2>3 DEF ByAccept, HandleAppendEntries, historyVars
  <2>4. ~ByNothing(H, A, G, B)
    BY <1>5, ElectedUnchanged DEF ByNothing
  <2> QED BY <2>1, <2>2, <2>3, <2>4 DEF HistoryStep
<1> QED
  BY <1>3, <1>4, <1>5

\* A replica gives up what it has accepted in an earlier term only if it is blocked.
LEMMA KeptOrBlocked ==
    ASSUME TypeOK, ElectionInv, ElectedInv, [Next]_vars, NEW H, HistoryInv(H), NEW A, AckInv(H, A),
           SafeInv(H, A), NEW G, NEW B, HistoryStep(H, A, G, B),
           NEW p \in Server, NEW t \in Terms, t < currentTerm'[p], NEW i \in Own(H, t),
           SamePrefix(H[t], log[p], i)
    PROVE  Blocked(A, t, i) \/ SamePrefix(log'[p], log[p], i)
<1>1. i \in Nat /\ Len(log[p]) \in Nat /\ SamePrefix(log[p], log[p], i)
  BY LogType DEF Own, SamePrefix, TypeOK
<1>2. ASSUME NEW n \in Server, ByElection(H, A, G, B, n)
      PROVE  log' = log
  BY <1>2, ElectsEffect DEF ByElection
<1>3. ASSUME NEW n \in Server, NEW s \in Stroke, ByStroke(H, A, G, B, n, s)
      PROVE  SamePrefix(log'[p], log[p], i)
  <2>1. /\ Len(log'[n]) = Len(log[n]) + 1 /\ SamePrefix(log[n], log'[n], Len(log[n]))
        /\ \A v \in Server \ {n} : log'[v] = log[v]
    BY <1>3, StrokeAck
  <2> QED BY <1>1, <2>1 DEF SamePrefix
<1>4. ASSUME NEW m \in appendReqs, ByAccept(H, A, G, B, m)
      PROVE  Blocked(A, t, i) \/ SamePrefix(log'[p], log[p], i)
  <2>1. /\ m.term \in Terms /\ currentTerm'[m.to] = m.term
        /\ \A v \in Server \ {m.to} : log'[v] = log[v]
        /\ \A j \in Nat : SamePrefix(log[m.to], H[m.term], j) => SamePrefix(log'[m.to], log[m.to], j)
    BY <1>4, AcceptEffect DEF ByAccept
  <2>2. m.from \in Server /\ <<m.from, m.term>> \in elected
    BY DEF ElectionInv, CallsInv, TypeOK, AppendEntriesRequest
  <2>3. CASE p = m.to
    <3>1. Safe(H, A, H[m.term], t, i)
      BY <2>1, <2>2, <2>3 DEF SafeInv, LeadersSafe
    <3>2. CASE SamePrefix(H[t], H[m.term], i)
      <4>1. SamePrefix(log[p], H[m.term], i)
        BY <3>2 DEF SamePrefix
      <4> QED BY <1>1, <2>1, <2>3, <4>1
    <3> QED BY <3>1, <3>2 DEF Safe
  <2>4. CASE p # m.to
    BY <1>1, <2>1, <2>4
  <2> QED BY <2>3, <2>4
<1>5. CASE ByNothing(H, A, G, B)
  BY <1>1, <1>5, LogByNothing DEF ByNothing
<1> QED
  BY <1>1, <1>2, <1>3, <1>4, <1>5 DEF HistoryStep

LEMMA LogsSafeNext ==
    ASSUME TypeOK, ElectionInv, ElectedInv, [Next]_vars, NEW H, HistoryInv(H), NEW A, AckInv(H, A),
           SafeInv(H, A), NEW G, NEW B, HistoryStep(H, A, G, B)
    PROVE  LogsSafe(G, B)'
<1> SUFFICES ASSUME NEW p \in Server, NEW t \in Terms, NEW i \in Own(G, t), i <= B[p][t]
             PROVE  Safe(G, B, log[p], t, i)'
  BY DEF LogsSafe
<1>1. /\ H \in [Terms -> Seq(Entry)] /\ G \in [Terms -> Seq(Entry)] /\ Extends(H, G)
      /\ AckStep(A, B) /\ Len(H[t]) \in Nat /\ A[p][t] \in Nat /\ B[p][t] \in Nat
      /\ A[p][t] <= Len(H[t]) /\ (A[p][t] > 0 => t <= currentTerm[p])
  BY HistoryTypes
<1>2. i \in Nat /\ i > 0 /\ (i <= Len(H[t]) => i \in Own(H, t))
  <2>1. i \in Nat /\ i > 0
    BY <1>1 DEF Own
  <2>2. i <= Len(H[t]) => i \in Own(H, t)
    BY <1>1, OwnExtends
  <2> QED BY <2>1, <2>2
<1>3. CASE currentTerm'[p] = t
  <2>1. SamePrefix(log'[p], G[t], B[p][t])
    BY <1>3, AckLogsNext
  <2>2. SamePrefix(G[t], log'[p], i)
    <3>1. Len(G[t]) \in Nat /\ Len(log'[p]) \in Nat
      BY <1>1, TypeNext, LogType DEF TypeOK
    <3> QED BY <1>1, <1>2, <2>1, <3>1 DEF SamePrefix
  <2> QED BY <2>2 DEF Safe
<1>4. CASE currentTerm'[p] # t
  <2>1. B[p][t] = A[p][t]
    BY <1>1, <1>4 DEF AckStep
  <2>2. i \in Own(H, t) /\ A[p][t] > 0 /\ i <= A[p][t]
    BY <1>1, <1>2, <2>1
  <2>3. t < currentTerm'[p]
    <3>1. currentTerm'[p] >= currentTerm[p]
      BY NodeNext DEF NodeStep, KeepsVote
    <3>2. currentTerm[p] \in Nat /\ currentTerm'[p] \in Nat /\ t \in Nat
      BY TypeNext DEF TypeOK, Terms
    <3> QED BY <1>1, <1>4, <2>2, <3>1, <3>2
  <2>4. Safe(H, A, log[p], t, i)
    BY <2>2 DEF SafeInv, LogsSafe
  <2>5. PICK l : l = log'[p]
    OBVIOUS
  <2>6. CASE Blocked(A, t, i)
    BY <1>1, <2>6, BlockedNext DEF Safe
  <2>7. CASE ~Blocked(A, t, i)
    <3>1. SamePrefix(l, log[p], i)
      BY <2>2, <2>3, <2>4, <2>5, <2>7, KeptOrBlocked DEF Safe
    <3>2. Safe(G, B, l, t, i)'
      BY <1>1, <1>2, <2>4, <3>1, SafeNext
    <3> QED BY <2>5, <3>2 DEF Safe
  <2> QED BY <2>6, <2>7
<1> QED
  BY <1>3, <1>4


\* An election that has a vote was started before this step.
LEMMA CandidateBefore ==
    ASSUME TypeOK, ElectionInv, CandidacyInv, [Next]_vars, NEW v \in Server, NEW c \in Server,
           NEW u \in Terms, u > 0, Voted(v, c, u)', state'[c] = Candidate, currentTerm'[c] = u
    PROVE  /\ state[c] = Candidate /\ currentTerm[c] = u
           /\ Voted(v, c, u) \/ Grants(v, c, u)
<1>1. Voted(v, c, u) \/ Grants(v, c, u)
  BY VotesNext DEF VotesStep
<1>2. ASSUME StartElection(c)
      PROVE  FALSE
  <2>1. electionTerm[c] = 0 /\ currentTerm'[c] = currentTerm[c] + 1
    BY <1>2, SetNodeFields DEF StartElection
  <2>2. CASE Voted(v, c, u)
    BY <2>1, <2>2 DEF Voted, ElectionInv, CallsInv
  <2>3. CASE Grants(v, c, u)
    <3>1. u <= currentTerm[c]
      BY <2>3 DEF Grants, CandidacyInv
    <3>2. currentTerm[c] \in Nat
      BY DEF TypeOK, Terms
    <3> QED BY <2>1, <3>1, <3>2
  <2> QED BY <1>1, <2>2, <2>3
<1> QED
  BY <1>1, <1>2, LeadNext DEF LeadStep

LEMMA VotersSafeNext ==
    ASSUME TypeOK, ElectionInv, ElectedInv, CandidacyInv, [Next]_vars,
           NEW H, HistoryInv(H), NEW A, AckInv(H, A),
           SafeInv(H, A), NEW G, NEW B, HistoryStep(H, A, G, B)
    PROVE  VotersSafe(G, B)'
<1> SUFFICES ASSUME NEW v \in Server, NEW c \in Server, NEW u \in Terms,
                    Voted(v, c, u)', state'[c] = Candidate, currentTerm'[c] = u,
                    NEW t \in Terms, t < u, NEW i \in Own(G, t), i <= B[v][t]
             PROVE  Safe(G, B, log[c], t, i)'
  BY DEF VotersSafe
<1>1. /\ H \in [Terms -> Seq(Entry)] /\ G \in [Terms -> Seq(Entry)] /\ Extends(H, G)
      /\ AckStep(A, B) /\ Len(H[t]) \in Nat /\ A[v][t] \in Nat /\ B[v][t] \in Nat
      /\ A[v][t] <= Len(H[t])
  BY HistoryTypes
<1>2. u \in Nat /\ t \in Nat /\ u > 0
  BY DEF Terms
<1>3. state[c] = Candidate /\ currentTerm[c] = u /\ (Voted(v, c, u) \/ Grants(v, c, u))
  BY <1>2, CandidateBefore
<1>4. B[v][t] = A[v][t]
  <2>1. currentTerm'[v] >= u /\ currentTerm'[v] \in Nat
    BY VoteNext, TypeNext DEF VoteHeldInv, TypeOK, Terms
  <2> QED BY <1>1, <1>2, <2>1 DEF AckStep
<1>5. i \in Nat /\ i \in Own(H, t) /\ i <= A[v][t]
  <2>1. i \in Nat
    BY <1>1 DEF Own
  <2>2. i <= Len(H[t])
    BY <1>1, <1>4, <2>1
  <2> QED BY <1>1, <1>4, <2>1, <2>2, OwnExtends
<1>6. Safe(H, A, log[c], t, i)
  <2>1. CASE Voted(v, c, u)
    BY <1>3, <1>5, <2>1 DEF SafeInv, VotersSafe
  <2>2. CASE Grants(v, c, u)
    <3>1. PICK m \in voteReqs : m.from = c /\ m.term = u /\ LogUpToDate(m, log[v])
      BY <2>2 DEF Grants
    <3>2. m.lastLogIndex = Len(log[c]) /\ m.lastLogTerm = LastTerm(log[c])
      BY <1>3, <3>1 DEF CandidacyInv
    <3>3. Safe(H, A, log[v], t, i)
      BY <1>5 DEF SafeInv, LogsSafe
    <3>4. CASE SamePrefix(H[t], log[v], i)
      <4>1. /\ log[c] \in Seq(Entry) /\ log[v] \in Seq(Entry)
            /\ Rooted(H, log[c], currentTerm[c]) /\ Rooted(H, log[v], currentTerm[v])
            /\ HistoryOK(H) /\ LeadersSafe(H, A)
        BY DEF TypeOK, HistoryInv, LogsInv, SafeInv
      <4> QED BY <1>5, <3>1, <3>2, <3>4, <4>1, UpToDateIsSafe
    <3> QED BY <3>3, <3>4 DEF Safe
  <2> QED BY <1>3, <2>1, <2>2
<1>7. PICK l : l = log[c] /\ l = log'[c] /\ Len(l) \in Nat
  BY CandidateLog, LogType DEF TypeOK
<1>8. SamePrefix(H[t], l, i) => SamePrefix(l, l, i)
  BY DEF SamePrefix
<1>9. Safe(G, B, l, t, i)'
  BY <1>1, <1>5, <1>6, <1>7, <1>8, SafeNext
<1> QED
  BY <1>7, <1>9 DEF Safe

LEMMA SafeInvNext ==
    ASSUME TypeOK, ElectionInv, ElectedInv, CandidacyInv, [Next]_vars,
           NEW H, HistoryInv(H), NEW A, AckInv(H, A),
           SafeInv(H, A), NEW G, NEW B, HistoryStep(H, A, G, B)
    PROVE  SafeInv(G, B)'
BY LeadersSafeNext, LogsSafeNext, VotersSafeNext DEF SafeInv

-----------------------------------------------------------------------------
(***************************************************************************)
(* What is committed.                                                      *)
(***************************************************************************)

\* What is decided stays so as the histories grow.
LEMMA CommittedByGrows ==
    ASSUME NEW H \in [Terms -> Seq(Entry)], NEW G \in [Terms -> Seq(Entry)], Extends(H, G),
           NEW A \in [Server -> [Terms -> Nat]], NEW B \in [Server -> [Terms -> Nat]],
           \A p \in Server : \A t \in Terms : A[p][t] <= B[p][t],
           NEW l, NEW g, NEW u \in Nat, NEW w \in Nat, u <= w, NEW k \in Nat,
           SamePrefix(g, l, k), CommittedBy(H, A, l, u, k)
    PROVE  CommittedBy(G, B, g, w, k)
<1>1. PICK t \in Terms : t <= u /\ \E i \in Own(H, t) :
                            k <= i /\ Decided(A, t, i) /\ SamePrefix(l, H[t], k)
  BY DEF CommittedBy
<1>2. PICK i \in Own(H, t) : k <= i /\ Decided(A, t, i) /\ SamePrefix(l, H[t], k)
  BY <1>1
<1>3. t <= w
  BY <1>1 DEF Terms
<1>4. i \in Own(G, t)
  BY <1>2, OwnExtends
<1>5. Decided(B, t, i)
  <2>1. i \in Nat
    <3>1. Len(H[t]) \in Nat
      BY LogType
    <3> QED BY <3>1 DEF Own
  <2>2. PICK Q \in SUBSET Server : IsMajority(Q) /\ \A q \in Q : i <= A[q][t]
    BY <1>2 DEF Decided
  <2>3. ASSUME NEW q \in Q
        PROVE  i <= B[q][t]
    <3>1. A[q][t] \in Nat /\ B[q][t] \in Nat /\ A[q][t] <= B[q][t] /\ i <= A[q][t]
      BY <2>2
    <3> QED BY <2>1, <3>1
  <2> QED BY <2>2, <2>3 DEF Decided
<1>6. SamePrefix(l, G[t], k)
  BY <1>2, ExtendsPrefix
<1>7. SamePrefix(g, G[t], k)
  BY <1>6 DEF SamePrefix
<1> QED
  BY <1>2, <1>3, <1>4, <1>5, <1>7 DEF CommittedBy

\* A call of Log.AppendEntries that does not panic keeps what is committed.
LEMMA AppendKeepsCommitted ==
    ASSUME NEW l \in Seq(Entry), NEW es \in Seq(Entry), NEW prev \in Nat, prev <= Len(l),
           NEW c \in Nat, c <= Len(l), ~TruncatesCommitted(l, prev, es, c)
    PROVE  SamePrefix(AppendEntries(l, prev, es), l, c)
<1>1. PICK k \in 1..(Len(es) + 1) :
          k = FirstNew(l, prev, es) /\ Appended(l, prev, es, k, AppendEntries(l, prev, es))
  BY AppendEntriesResult
<1>2. PICK r : r = AppendEntries(l, prev, es)
  OBVIOUS
<1>3. Len(l) \in Nat /\ Len(es) \in Nat /\ Appended(l, prev, es, k, r)
  BY <1>1, <1>2, LogType
<1>4. ~(k <= Len(es) /\ prev + k <= Len(l) /\ prev + k <= c)
  BY <1>1 DEF TruncatesCommitted
<1>5. CASE k > Len(es)
  BY <1>3, <1>5, <1>2 DEF Appended, SamePrefix
<1>6. CASE k <= Len(es)
  <2>1. prev + k - 1 <= Len(l) /\ Len(r) = prev + Len(es) /\ \A j \in 1..(prev + k - 1) : r[j] = l[j]
    BY <1>3, <1>6 DEF Appended
  <2>2. c <= prev + k - 1 /\ c <= Len(r)
    BY <1>3, <1>4, <1>6, <2>1
  <2>3. \A j \in 1..c : r[j] = l[j]
    BY <1>3, <2>1, <2>2
  <2> QED BY <1>2, <2>2, <2>3 DEF SamePrefix
<1> QED
  BY <1>3, <1>5, <1>6

LEMMA CommittedKept ==
    ASSUME TypeOK, ElectionInv, [Next]_vars, NEW H, HistoryInv(H), NEW n \in Server,
           commitIndex[n] <= Len(log[n])
    PROVE  SamePrefix(log'[n], log[n], commitIndex[n])
<1>1. commitIndex[n] \in Nat /\ log[n] \in Seq(Entry) /\ Len(log[n]) \in Nat
  BY LogType DEF TypeOK
<1>2. SamePrefix(log[n], log[n], commitIndex[n])
  BY <1>1 DEF SamePrefix
<1>3. ASSUME NEW c \in Server, NEW s \in Stroke, HandleStroke(c, s)
      PROVE  SamePrefix(log'[n], log[n], commitIndex[n])
  <2>1. CASE c # n
    <3>1. log'[n] = log[n]
      BY <1>3, <2>1 DEF HandleStroke, TypeOK
    <3> QED BY <1>2, <3>1
  <2>2. CASE c = n
    <3>1. PICK G : G = [H EXCEPT ![currentTerm[n]] = log'[n]]
      OBVIOUS
    <3>2. Len(log'[n]) = Len(log[n]) + 1 /\ SamePrefix(log[n], log'[n], Len(log[n]))
      BY <1>3, <2>2, <3>1, HistoryStroke
    <3> QED BY <1>1, <3>2 DEF SamePrefix
  <2> QED BY <2>1, <2>2
<1>4. ASSUME NEW m \in appendReqs, AcceptEntries(m)
      PROVE  SamePrefix(log'[n], log[n], commitIndex[n])
  <2>1. CASE m.to # n
    <3>1. log'[n] = log[n]
      BY <1>4, <2>1, AcceptEffect
    <3> QED BY <1>2, <3>1
  <2>2. CASE m.to = n
    <3>1. m.prevLogIndex \in Nat /\ m.entries \in Seq(Entry)
      BY DEF TypeOK, AppendEntriesRequest
    <3>2. /\ PrevMatches(log[n], m)
          /\ ~TruncatesCommitted(log[n], m.prevLogIndex, m.entries, commitIndex[n])
          /\ log'[n] = AppendEntries(log[n], m.prevLogIndex, m.entries)
      BY <1>4, <2>2 DEF AcceptEntries, TypeOK
    <3>3. m.prevLogIndex <= Len(log[n])
      BY <1>1, <3>1, <3>2 DEF PrevMatches
    <3> QED BY <1>1, <3>1, <3>2, <3>3, AppendKeepsCommitted
  <2> QED BY <2>1, <2>2
<1> QED
  BY <1>2, <1>3, <1>4, LogUnchanged

\* An answer that leads on to a new commitIndex.
Advances(r, i) ==
    /\ HandleAppendResponse(r) /\ r.success
    /\ state[r.to] = Leader /\ currentTerm[r.to] = r.reqTerm
    /\ i \in Committable(r.to, IF r.lastSent > 0
                               THEN [matchIndex[r.to] EXCEPT ![r.from] = r.lastSent]
                               ELSE matchIndex[r.to])
    /\ UNCHANGED <<currentTerm, log>>

\* A commitIndex changes by a request or by an answer.
LEMMA CommitIndexNext ==
    ASSUME TypeOK, [Next]_vars, NEW n \in Server, commitIndex'[n] # commitIndex[n]
    PROVE  \/ \E m \in appendReqs :
                /\ m.to = n /\ AcceptEntries(m)
                /\ commitIndex'[n] = FollowerCommit(log'[n], commitIndex[n], m.leaderCommit)
           \/ \E r \in appendResps : r.to = n /\ Advances(r, commitIndex'[n])
<1>1. ASSUME NEW m \in appendReqs, HandleAppendEntries(m)
      PROVE  /\ m.to = n /\ AcceptEntries(m)
             /\ commitIndex'[n] = FollowerCommit(log'[n], commitIndex[n], m.leaderCommit)
  <2>1. AcceptEntries(m)
    BY <1>1 DEF HandleAppendEntries, RejectStale, RejectMismatch, PanicOnCommitted, logVars
  <2>2. m.to \in Server
    BY DEF TypeOK, AppendEntriesRequest
  <2>3. /\ log' = [log EXCEPT ![m.to] = AppendEntries(log[m.to], m.prevLogIndex, m.entries)]
        /\ commitIndex' = [commitIndex EXCEPT ![m.to] =
              FollowerCommit(AppendEntries(log[m.to], m.prevLogIndex, m.entries),
                             commitIndex[m.to], m.leaderCommit)]
    BY <2>1 DEF AcceptEntries
  <2>4. log \in [Server -> Seq(Entry)] /\ commitIndex \in [Server -> Nat]
    BY DEF TypeOK
  <2>5. m.to = n
    BY <2>2, <2>3, <2>4
  <2> QED BY <2>1, <2>3, <2>4, <2>5
<1>2. ASSUME NEW r \in appendResps, HandleAppendResponse(r)
      PROVE  r.to = n /\ Advances(r, commitIndex'[n])
  <2> DEFINE mi == IF r.lastSent > 0 THEN [matchIndex[r.to] EXCEPT ![r.from] = r.lastSent]
                   ELSE matchIndex[r.to]
  <2>1. /\ r.success /\ state[r.to] = Leader /\ currentTerm[r.to] = r.reqTerm
        /\ AdvanceCommitIndex(r.to, mi) /\ UNCHANGED <<currentTerm, log>>
    BY <1>2 DEF HandleAppendResponse, nodeVars
  <2> HIDE DEF mi
  <2>2. PICK i \in {commitIndex[r.to]} \cup Committable(r.to, mi) :
            commitIndex' = [commitIndex EXCEPT ![r.to] = i]
    BY <2>1 DEF AdvanceCommitIndex
  <2>3. commitIndex \in [Server -> Nat]
    BY DEF TypeOK
  <2>4. r.to = n /\ commitIndex'[n] = i /\ i \in Committable(n, mi)
    BY <2>2, <2>3
  <2> QED BY <1>2, <2>1, <2>4 DEF Advances, mi
<1> QED
  BY <1>1, <1>2
  DEF Next, vars, logVars, StartElection, FinishElection, HandleVoteRequest, HandleVoteResponse,
      HandleStroke, SendAppendEntries, LoseRequest, LoseResponse

\* advanceCommitIndex counts replicas that have accepted the entry.
LEMMA AdvanceDecides ==
    ASSUME TypeOK, NEW H, HistoryInv(H), NEW A, AckInv(H, A),
           NEW r \in appendResps, NEW i, Advances(r, i)
    PROVE  /\ i \in Nat /\ i <= Len(log[r.to]) /\ i > commitIndex[r.to]
           /\ CommittedBy(H, A, log[r.to], currentTerm[r.to], i)
<1>1. PICK n \in Server : n = r.to
  BY DEF TypeOK, AppendEntriesResponse
<1>2. PICK t \in Terms : t = currentTerm[n]
  BY DEF TypeOK
<1> DEFINE mi == IF r.lastSent > 0 THEN [matchIndex[n] EXCEPT ![r.from] = r.lastSent]
                 ELSE matchIndex[n]
<1>3. /\ r.success /\ state[n] = Leader /\ t = r.reqTerm /\ i \in Committable(n, mi)
  BY <1>1, <1>2 DEF Advances
<1>4. \A p \in Peers(n) : mi[p] <= A[p][t]
  <2>1. \A p \in Peers(n) : matchIndex[n][p] <= A[p][t]
    BY <1>2, <1>3 DEF AckInv
  <2>2. r.lastSent <= A[r.from][t]
    BY <1>3 DEF AckInv
  <2>3. matchIndex[n] \in [Server -> Nat]
    BY DEF TypeOK
  <2> QED BY <2>1, <2>2, <2>3 DEF Peers
<1>5. \A p \in Peers(n) : mi[p] \in Nat /\ A[p][t] \in Nat
  <2>1. matchIndex[n] \in [Server -> Nat] /\ r.lastSent \in Nat /\ A \in [Server -> [Terms -> Nat]]
    BY DEF TypeOK, AppendEntriesResponse, AckInv
  <2> QED BY <2>1 DEF Peers
<1> HIDE DEF mi
<1>6. /\ i \in (commitIndex[n] + 1)..Len(log[n]) /\ Term(log[n], i) = t
      /\ IsMajority({n} \cup {p \in Peers(n) : mi[p] >= i})
  BY <1>2, <1>3 DEF Committable, LastIndex
<1>7. /\ commitIndex[n] \in Nat /\ Len(log[n]) \in Nat
      /\ H[t] = log[n] /\ A[n][t] = Len(log[n])
  BY <1>2, <1>3, LogType DEF TypeOK, HistoryInv, LogsInv, AckInv
<1>8. i \in Nat /\ i <= Len(log[n]) /\ i > commitIndex[n] /\ i \in 1..Len(log[n])
  BY <1>6, <1>7
<1>9. i \in Own(H, t)
  BY <1>6, <1>7, <1>8 DEF Own, Term
<1>10. Decided(A, t, i)
  <2>1. PICK Q \in SUBSET Server : Q = {n} \cup {p \in Peers(n) : mi[p] >= i}
    BY DEF Peers
  <2>2. ASSUME NEW q \in Q
        PROVE  i <= A[q][t]
    <3>1. CASE q = n
      BY <1>7, <1>8, <3>1
    <3>2. CASE q \in Peers(n) /\ mi[q] >= i
      BY <1>4, <1>5, <1>8, <3>2
    <3> QED BY <2>1, <3>1, <3>2
  <2> QED BY <1>6, <2>1, <2>2 DEF Decided
<1>11. SamePrefix(log[n], H[t], i)
  BY <1>7, <1>8 DEF SamePrefix
<1>12. CommittedBy(H, A, log[n], t, i)
  BY <1>8, <1>9, <1>10, <1>11 DEF CommittedBy, Terms
<1> QED
  BY <1>1, <1>2, <1>8, <1>12


\* A follower commits what the request tells it to, and all of it comes from the
\* leader's log.
LEMMA AcceptCommits ==
    ASSUME TypeOK, NEW H, HistoryInv(H), NEW A, CommitInv(H, A),
           NEW m \in appendReqs, AcceptEntries(m), NEW c \in Nat, NEW k,
           k = FollowerCommit(log'[m.to], c, m.leaderCommit), k # c
    PROVE  /\ k \in Nat /\ k > c /\ k = m.leaderCommit /\ k <= Len(log'[m.to])
           /\ SamePrefix(log'[m.to], H[m.term], k)
           /\ CommittedBy(H, A, H[m.term], m.term, k)
<1>1. /\ LastSent(m) \in Nat /\ log'[m.to] \in Seq(Entry)
      /\ SamePrefix(log'[m.to], H[m.term], LastSent(m))
  BY AcceptEffect DEF LastSent
<1>2. m.leaderCommit \in Nat /\ Len(log'[m.to]) \in Nat
  BY <1>1, LogType DEF TypeOK, AppendEntriesRequest
<1>3. m.leaderCommit <= LastSent(m)
  BY DEF CommitInv, LastSent
<1>4. LastSent(m) <= Len(log'[m.to])
  BY <1>1 DEF SamePrefix
<1>5. k = m.leaderCommit /\ k > c /\ k <= Len(log'[m.to])
  BY <1>1, <1>2, <1>3, <1>4 DEF FollowerCommit, LastIndex
<1>6. SamePrefix(log'[m.to], H[m.term], k)
  BY <1>1, <1>2, <1>3, <1>5 DEF SamePrefix
<1>7. CommittedBy(H, A, H[m.term], m.term, k)
  BY <1>2, <1>5 DEF CommitInv
<1> QED
  BY <1>2, <1>5, <1>6, <1>7

LEMMA ReplicaCommits ==
    ASSUME TypeOK, ElectionInv, ElectedInv, [Next]_vars, NEW H, HistoryInv(H), NEW A, AckInv(H, A),
           CommitInv(H, A), NEW G, NEW B, HistoryStep(H, A, G, B), NEW n \in Server
    PROVE  /\ commitIndex'[n] >= commitIndex[n]
           /\ commitIndex'[n] <= Len(log'[n])
           /\ commitIndex'[n] > 0 => CommittedBy(G, B, log'[n], currentTerm'[n], commitIndex'[n])
<1>1. /\ H \in [Terms -> Seq(Entry)] /\ G \in [Terms -> Seq(Entry)] /\ Extends(H, G)
      /\ A \in [Server -> [Terms -> Nat]] /\ B \in [Server -> [Terms -> Nat]]
      /\ \A p \in Server : \A t \in Terms : A[p][t] <= B[p][t]
  BY HistoryTypes DEF AckStep, Terms
<1>2. /\ currentTerm[n] \in Nat /\ currentTerm'[n] \in Nat
      /\ commitIndex[n] \in Nat /\ commitIndex'[n] \in Nat
      /\ Len(log[n]) \in Nat /\ Len(log'[n]) \in Nat
  BY TypeNext, LogType DEF TypeOK, Terms
<1>3. CASE commitIndex'[n] = commitIndex[n]
  <2>1. SamePrefix(log'[n], log[n], commitIndex[n])
    BY CommittedKept DEF CommitInv
  <2>2. currentTerm[n] <= currentTerm'[n]
    BY <1>2, NodeNext DEF NodeStep, KeepsVote
  <2>3. commitIndex[n] <= Len(log'[n])
    BY <2>1 DEF SamePrefix
  <2>4. ASSUME commitIndex[n] > 0
        PROVE  CommittedBy(G, B, log'[n], currentTerm'[n], commitIndex[n])
    <3>1. CommittedBy(H, A, log[n], currentTerm[n], commitIndex[n])
      BY <2>4 DEF CommitInv
    <3> QED BY <1>1, <1>2, <2>1, <2>2, <3>1, CommittedByGrows
  <2> QED BY <1>2, <1>3, <2>3, <2>4
<1>4. ASSUME NEW m \in appendReqs, m.to = n, AcceptEntries(m), commitIndex'[n] # commitIndex[n],
             commitIndex'[n] = FollowerCommit(log'[n], commitIndex[n], m.leaderCommit)
      PROVE  /\ commitIndex'[n] >= commitIndex[n]
             /\ commitIndex'[n] <= Len(log'[n])
             /\ CommittedBy(G, B, log'[n], currentTerm'[n], commitIndex'[n])
  <2>1. PICK k \in Nat : k = commitIndex'[n]
    BY <1>2
  <2>2. /\ k > commitIndex[n] /\ k <= Len(log'[n])
        /\ SamePrefix(log'[n], H[m.term], k)
        /\ CommittedBy(H, A, H[m.term], m.term, k)
    BY <1>2, <1>4, <2>1, AcceptCommits
  <2>3. currentTerm'[n] = m.term /\ m.term \in Nat /\ m.term <= m.term
    BY <1>4, AcceptEffect DEF Terms
  <2>4. CommittedBy(G, B, log'[n], m.term, k)
    BY <1>1, <2>2, <2>3, CommittedByGrows
  <2> QED BY <1>2, <2>1, <2>2, <2>3, <2>4
<1>5. ASSUME NEW r \in appendResps, r.to = n, Advances(r, commitIndex'[n])
      PROVE  /\ commitIndex'[n] >= commitIndex[n]
             /\ commitIndex'[n] <= Len(log'[n])
             /\ CommittedBy(G, B, log'[n], currentTerm'[n], commitIndex'[n])
  <2>1. PICK k \in Nat : k = commitIndex'[n]
    BY <1>2
  <2>2. /\ k <= Len(log[n]) /\ k > commitIndex[n]
        /\ CommittedBy(H, A, log[n], currentTerm[n], k)
    BY <1>5, <2>1, AdvanceDecides
  <2>3. log' = log /\ currentTerm' = currentTerm
    BY <1>5 DEF Advances
  <2>4. SamePrefix(log[n], log[n], k) /\ currentTerm[n] <= currentTerm[n]
    BY <1>2, <2>2 DEF SamePrefix
  <2>5. CommittedBy(G, B, log[n], currentTerm[n], k)
    BY <1>1, <1>2, <2>2, <2>4, CommittedByGrows
  <2> QED BY <1>2, <2>1, <2>2, <2>3, <2>5
<1> QED
  BY <1>3, <1>4, <1>5, CommitIndexNext

LEMMA RequestCommits ==
    ASSUME TypeOK, ElectionInv, ElectedInv, [Next]_vars, NEW H, HistoryInv(H), NEW A, AckInv(H, A),
           CommitInv(H, A), NEW G, NEW B, HistoryStep(H, A, G, B), NEW m \in appendReqs'
    PROVE  /\ m.leaderCommit <= m.prevLogIndex + Len(m.entries)
           /\ m.leaderCommit > 0 => CommittedBy(G, B, G[m.term], m.term, m.leaderCommit)
<1>1. /\ H \in [Terms -> Seq(Entry)] /\ G \in [Terms -> Seq(Entry)] /\ Extends(H, G)
      /\ A \in [Server -> [Terms -> Nat]] /\ B \in [Server -> [Terms -> Nat]]
      /\ \A p \in Server : \A t \in Terms : A[p][t] <= B[p][t]
  BY HistoryTypes DEF AckStep, Terms
<1>2. m.term \in Terms /\ m.term \in Nat /\ m.leaderCommit \in Nat
  BY TypeNext DEF TypeOK, AppendEntriesRequest, Terms
<1>3. /\ m.leaderCommit <= m.prevLogIndex + Len(m.entries)
      /\ m.leaderCommit > 0 => CommittedBy(H, A, H[m.term], m.term, m.leaderCommit)
  <2>1. CASE m \in appendReqs
    BY <2>1 DEF CommitInv
  <2>2. CASE m \notin appendReqs
    <3>1. PICK n \in Server, p \in Server : SendAppendEntries(n, p)
      BY <2>2, CallsUnchanged
    <3>2. m = RequestTo(n, p) /\ state[n] = Leader
      BY <2>2, <3>1 DEF SendAppendEntries
    <3>3. nextIndex[n][p] <= Len(log[n]) + 1 /\ H[currentTerm[n]] = log[n]
      BY <3>2 DEF HistoryInv, SendingInv, LogsInv
    <3>4. /\ m.prevLogIndex + Len(m.entries) = Len(log[n]) /\ m.term = currentTerm[n]
          /\ m.leaderCommit = commitIndex[n]
      BY <3>2, <3>3, RequestIsSegment
    <3> QED BY <3>3, <3>4 DEF CommitInv
  <2> QED BY <2>1, <2>2
<1>4. ASSUME m.leaderCommit > 0
      PROVE  CommittedBy(G, B, G[m.term], m.term, m.leaderCommit)
  <2>1. CommittedBy(H, A, H[m.term], m.term, m.leaderCommit)
    BY <1>3, <1>4
  <2>2. m.leaderCommit <= Len(H[m.term])
    BY <2>1 DEF CommittedBy, SamePrefix
  <2>3. /\ Len(H[m.term]) \in Nat /\ Len(G[m.term]) \in Nat
        /\ SamePrefix(H[m.term], G[m.term], Len(H[m.term]))
    BY <1>1, <1>2, LogType DEF Extends
  <2>4. SamePrefix(G[m.term], H[m.term], m.leaderCommit)
    BY <1>2, <2>2, <2>3 DEF SamePrefix
  <2>5. PICK u \in Nat, k \in Nat : u = m.term /\ k = m.leaderCommit /\ u <= u
    BY <1>2
  <2>6. PICK h, g : h = H[m.term] /\ g = G[m.term]
    OBVIOUS
  <2>7. CommittedBy(H, A, h, u, k) /\ SamePrefix(g, h, k)
    BY <2>1, <2>4, <2>5, <2>6
  <2>8. CommittedBy(G, B, g, u, k)
    BY <1>1, <2>5, <2>7, CommittedByGrows
  <2> QED BY <2>5, <2>6, <2>8
<1> QED
  BY <1>3, <1>4

LEMMA CommitInvNext ==
    ASSUME TypeOK, ElectionInv, ElectedInv, [Next]_vars, NEW H, HistoryInv(H), NEW A, AckInv(H, A),
           CommitInv(H, A), NEW G, NEW B, HistoryStep(H, A, G, B)
    PROVE  CommitInv(G, B)'
BY ReplicaCommits, RequestCommits DEF CommitInv

-----------------------------------------------------------------------------
(***************************************************************************)
(* The inductive invariant, and what follows from it.                      *)
(***************************************************************************)

\* All that the two histories tell of a state.
Histories(H, A) == HistoryInv(H) /\ AckInv(H, A) /\ SafeInv(H, A) /\ CommitInv(H, A)

ReplicationInv ==
    TypeOK /\ ElectionInv /\ ElectedInv /\ CandidacyInv /\ \E H, A : Histories(H, A)

LEMMA ReplicationInit ==
    ASSUME Init
    PROVE  ReplicationInv
<1>1. PICK H, A : H = [t \in Terms |-> << >>] /\ A = [p \in Server |-> [t \in Terms |-> 0]]
  OBVIOUS
<1>2. HistoryInv(H)
  BY <1>1, HistoryInit
<1>3. H \in [Terms -> Seq(Entry)] /\ \A t \in Terms : H[t] = << >>
  BY <1>1
<1>4. A \in [Server -> [Terms -> Nat]] /\ \A p \in Server : \A t \in Terms : A[p][t] = 0
  BY <1>1
<1>5. /\ \A n \in Server : /\ log[n] = << >> /\ state[n] = Follower /\ commitIndex[n] = 0
                           /\ currentTerm[n] \in Terms
      /\ appendReqs = {} /\ appendResps = {}
  BY DEF Init, Terms
<1>6. AckInv(H, A)
  BY <1>3, <1>4, <1>5 DEF AckInv, SamePrefix, Follower, Leader
<1>7. \A t \in Terms : Own(H, t) = {}
  BY <1>3 DEF Own
<1>8. SafeInv(H, A)
  BY <1>7 DEF SafeInv, LeadersSafe, LogsSafe, VotersSafe
<1>9. CommitInv(H, A)
  BY <1>5 DEF CommitInv
<1> QED
  BY <1>2, <1>6, <1>8, <1>9, TypeInit, ElectionInit, ElectedInvInit, CandidacyInit
  DEF ReplicationInv, Histories

LEMMA ReplicationNext ==
    ASSUME ReplicationInv, [Next]_vars
    PROVE  ReplicationInv'
<1>1. TypeOK /\ ElectionInv /\ ElectedInv /\ CandidacyInv
  BY DEF ReplicationInv
<1>2. PICK H, A : HistoryInv(H) /\ AckInv(H, A) /\ SafeInv(H, A) /\ CommitInv(H, A)
  BY DEF ReplicationInv, Histories
<1>3. PICK G, B : HistoryStep(H, A, G, B)
  BY HistoryStepExists
<1>4. HistoryInv(G)'
  BY <1>1, <1>2, <1>3, HistoryStepGrows
<1>5. AckInv(G, B)'
  BY <1>1, <1>2, <1>3, AckNext
<1>6. SafeInv(G, B)'
  BY <1>1, <1>2, <1>3, SafeInvNext
<1>7. CommitInv(G, B)'
  BY <1>1, <1>2, <1>3, CommitInvNext
<1>8. CandidacyInv'
  BY <1>1, <1>2, CandidacyNext
<1> QED
  BY <1>1, <1>4, <1>5, <1>6, <1>7, <1>8, TypeNext, ElectionNext, ElectedInvNext
  DEF ReplicationInv, Histories

LEMMA Replication == Spec => []ReplicationInv
<1>1. Init => ReplicationInv
  BY ReplicationInit
<1>2. ReplicationInv /\ [Next]_vars => ReplicationInv'
  BY ReplicationNext
<1> QED
  BY <1>1, <1>2, PTL DEF Spec


\* A decided entry is in the log of every leader of that term or of a later one.
LEMMA DecidedInLeaders ==
    ASSUME NEW H, HistoryInv(H), NEW A, AckInv(H, A), SafeInv(H, A),
           NEW t \in Terms, NEW u \in Terms, t <= u, NEW i \in Own(H, t), Decided(A, t, i),
           NEW n \in Server, <<n, u>> \in elected
    PROVE  i \in Nat /\ SamePrefix(H[t], H[u], i)
<1>1. /\ H \in [Terms -> Seq(Entry)] /\ A \in [Server -> [Terms -> Nat]]
      /\ Len(H[t]) \in Nat
  BY LogType DEF HistoryInv, HistoryOK, AckInv
<1>2. i \in Nat /\ i <= Len(H[t])
  BY <1>1 DEF Own
<1>3. CASE t = u
  BY <1>2, <1>3 DEF SamePrefix
<1>4. CASE t # u
  <2>1. t < u
    BY <1>4 DEF Terms
  <2>2. Safe(H, A, H[u], t, i)
    BY <2>1 DEF SafeInv, LeadersSafe
  <2>3. ~Blocked(A, t, i)
    BY <1>1, <1>2, DecidedNotBlocked
  <2> QED BY <1>2, <2>2, <2>3 DEF Safe
<1> QED
  BY <1>3, <1>4

\* What is decided in two logs is the same, as far as it is decided in both: the
\* leader of the later of the two terms has it all.
LEMMA DecidedAgree ==
    ASSUME NEW H, HistoryInv(H), NEW A, AckInv(H, A), SafeInv(H, A),
           NEW l, NEW g, NEW u, NEW w, NEW k \in Nat, NEW j \in Nat,
           CommittedBy(H, A, l, u, k), CommittedBy(H, A, g, w, j),
           NEW x \in Nat, x <= k, x <= j
    PROVE  SamePrefix(l, g, x)
<1>a. PICK s \in Terms : \E i \in Own(H, s) :
          k <= i /\ Decided(A, s, i) /\ SamePrefix(l, H[s], k)
  BY DEF CommittedBy
<1>b. PICK t \in Terms : \E i \in Own(H, t) :
          j <= i /\ Decided(A, t, i) /\ SamePrefix(g, H[t], j)
  BY DEF CommittedBy
<1>1. PICK a \in Own(H, s) : k <= a /\ Decided(A, s, a) /\ SamePrefix(l, H[s], k)
  BY <1>a
<1>2. PICK b \in Own(H, t) : j <= b /\ Decided(A, t, b) /\ SamePrefix(g, H[t], j)
  BY <1>b
<1>3. H \in [Terms -> Seq(Entry)] /\ Len(H[s]) \in Nat /\ Len(H[t]) \in Nat
  BY LogType DEF HistoryInv, HistoryOK
<1>4. H[s] # << >> /\ H[t] # << >> /\ a \in Nat /\ b \in Nat
  BY <1>3 DEF Own
<1>5. (\E n \in Server : <<n, s>> \in elected) /\ (\E n \in Server : <<n, t>> \in elected)
  BY <1>4 DEF HistoryInv, HistoryOK
<1>6. CASE s <= t
  <2>1. SamePrefix(H[s], H[t], a)
    BY <1>1, <1>5, <1>6, DecidedInLeaders
  <2> QED BY <1>1, <1>2, <1>4, <2>1 DEF SamePrefix
<1>7. CASE t <= s
  <2>1. SamePrefix(H[t], H[s], b)
    BY <1>2, <1>5, <1>7, DecidedInLeaders
  <2> QED BY <1>1, <1>2, <1>4, <2>1 DEF SamePrefix
<1> QED
  BY <1>6, <1>7 DEF Terms

\* The replicas' committed prefixes, two by two.
LEMMA CommitsMeet ==
    ASSUME TypeOK, NEW H, NEW A, Histories(H, A), NEW a \in Server, NEW b \in Server,
           NEW x \in Nat, x <= commitIndex[a], x <= commitIndex[b]
    PROVE  SamePrefix(log[a], log[b], x)
<1>1. commitIndex[a] \in Nat /\ commitIndex[b] \in Nat /\ Len(log[a]) \in Nat /\ Len(log[b]) \in Nat
  BY LogType DEF TypeOK
<1>2. CASE x = 0
  BY <1>1, <1>2 DEF SamePrefix
<1>3. CASE x > 0
  <2>1. /\ CommittedBy(H, A, log[a], currentTerm[a], commitIndex[a])
        /\ CommittedBy(H, A, log[b], currentTerm[b], commitIndex[b])
    BY <1>1, <1>3 DEF Histories, CommitInv
  <2> QED BY <1>1, <2>1, DecidedAgree DEF Histories
<1> QED
  BY <1>2, <1>3

\* Two replicas never commit different strokes at one index, in a cluster of any size
\* and whatever becomes of leaders and calls: the gateway, which hears from every
\* replica, never hears two strokes for one place on the canvas.
THEOREM ReplicasAgree == Spec => []CommittedAgree
<1>1. ReplicationInv => CommittedAgree
  <2> SUFFICES ASSUME ReplicationInv, NEW a \in Server, NEW b \in Server,
                      NEW i \in 1..commitIndex[a], i <= commitIndex[b]
               PROVE  /\ i <= Len(log[a]) /\ i <= Len(log[b])
                      /\ log[a][i] = log[b][i]
    BY DEF CommittedAgree
  <2>1. TypeOK /\ \E H, A : Histories(H, A)
    BY DEF ReplicationInv
  <2>2. commitIndex[a] \in Nat
    BY <2>1 DEF TypeOK
  <2>3. i \in Nat /\ i \in 1..i /\ i <= commitIndex[a]
    BY <2>2
  <2>4. SamePrefix(log[a], log[b], i)
    BY <2>1, <2>3, CommitsMeet
  <2> QED BY <2>3, <2>4 DEF SamePrefix
<1> QED
  BY <1>1, Replication, PTL

\* The panic of Log.AppendEntries is unreachable: a leader whose request is accepted
\* has everything the follower has committed, so the first entry that is new to the
\* follower lies behind it.
THEOREM NeverPanics == Spec => []NoPanic
<1>1. ReplicationInv => NoPanic
  <2> SUFFICES ASSUME ReplicationInv, NEW m \in appendReqs,
                      m.term >= currentTerm[m.to], PrevMatches(log[m.to], m),
                      TruncatesCommitted(log[m.to], m.prevLogIndex, m.entries, commitIndex[m.to])
               PROVE  FALSE
    BY DEF NoPanic
  <2>1. TypeOK /\ ElectionInv
    BY DEF ReplicationInv
  <2>2. PICK H, A : HistoryInv(H) /\ AckInv(H, A) /\ SafeInv(H, A) /\ CommitInv(H, A)
    BY DEF ReplicationInv, Histories
  <2>3. /\ m.to \in Server /\ m.from \in Server /\ m.term \in Terms
        /\ m.prevLogIndex \in Nat /\ m.entries \in Seq(Entry)
    BY <2>1 DEF TypeOK, AppendEntriesRequest
  <2>4. PICK n \in Server, prev \in Nat, es \in Seq(Entry) :
            n = m.to /\ prev = m.prevLogIndex /\ es = m.entries
    BY <2>3
  <2>5. /\ log[n] \in Seq(Entry) /\ Len(log[n]) \in Nat /\ Len(es) \in Nat
        /\ commitIndex[n] \in Nat /\ currentTerm[n] \in Nat /\ m.term \in Nat
    BY <2>1, <2>3, LogType DEF TypeOK, Terms
  <2>6. PICK k \in 1..(Len(es) + 1) : k = FirstNew(log[n], prev, es) /\ (k <= Len(es) => ~Holds(log[n], prev, es, k))
    BY <2>5, FirstNewExists
  <2>7. k <= Len(es) /\ prev + k <= Len(log[n]) /\ prev + k <= commitIndex[n]
    BY <2>4, <2>6 DEF TruncatesCommitted
  <2>8. CommittedBy(H, A, log[n], currentTerm[n], commitIndex[n])
    BY <2>2, <2>5, <2>6, <2>7 DEF CommitInv
  <2>9. PICK t \in Terms : t <= currentTerm[n] /\ \E i \in Own(H, t) :
            commitIndex[n] <= i /\ Decided(A, t, i) /\ SamePrefix(log[n], H[t], commitIndex[n])
    BY <2>8 DEF CommittedBy
  <2>10. PICK i \in Own(H, t) :
            commitIndex[n] <= i /\ Decided(A, t, i) /\ SamePrefix(log[n], H[t], commitIndex[n])
    BY <2>9
  <2>11. i \in Nat /\ SamePrefix(H[t], H[m.term], i)
    <3>1. t <= m.term
      BY <2>4, <2>5, <2>9 DEF Terms
    <3>2. <<m.from, m.term>> \in elected
      BY <2>1 DEF ElectionInv, CallsInv
    <3> QED BY <2>2, <2>3, <2>10, <3>1, <3>2, DecidedInLeaders
  <2>12. log[n][prev + k] = H[m.term][prev + k]
    <3>1. PICK j : j = prev + k
      OBVIOUS
    <3>2. j \in 1..commitIndex[n] /\ j \in 1..i
      BY <2>5, <2>7, <2>10, <2>11, <3>1
    <3>3. log[n][j] = H[t][j]
      BY <2>10, <3>2 DEF SamePrefix
    <3>4. H[t][j] = H[m.term][j]
      BY <2>11, <3>2 DEF SamePrefix
    <3> QED BY <3>1, <3>3, <3>4
  <2>13. es[k] = H[m.term][prev + k]
    BY <2>2, <2>4, <2>7 DEF HistoryInv, SendingInv, IsSegment
  <2> QED BY <2>6, <2>7, <2>12, <2>13 DEF Holds
<1> QED
  BY <1>1, Replication, PTL

\* While a peer is in the leader's term it holds what matchIndex says it does, whatever
\* the order in which sendAppendEntries was answered.
THEOREM MatchIndexHolds == Spec => []MatchIndexTrue
<1>1. ReplicationInv => MatchIndexTrue
  <2> SUFFICES ASSUME ReplicationInv, NEW n \in Server, state[n] = Leader,
                      NEW p \in Peers(n), currentTerm[p] = currentTerm[n]
               PROVE  /\ matchIndex[n][p] <= Len(log[p]) /\ matchIndex[n][p] <= Len(log[n])
                      /\ SubSeq(log[p], 1, matchIndex[n][p]) = SubSeq(log[n], 1, matchIndex[n][p])
    BY DEF MatchIndexTrue
  <2>1. PICK H, A : TypeOK /\ HistoryInv(H) /\ AckInv(H, A)
    BY DEF ReplicationInv, Histories
  <2>2. p \in Server
    BY DEF Peers
  <2>3. PICK t \in Terms, k \in Nat : t = currentTerm[n] /\ k = matchIndex[n][p]
    BY <2>1, <2>2 DEF TypeOK
  <2>4. log[p] \in Seq(Entry) /\ log[n] \in Seq(Entry) /\ Len(log[p]) \in Nat /\ Len(log[n]) \in Nat
    BY <2>1, <2>2, LogType DEF TypeOK
  <2>5. /\ k <= A[p][t] /\ A[p][t] \in Nat
        /\ SamePrefix(log[p], H[t], A[p][t]) /\ H[t] = log[n]
    BY <2>1, <2>2, <2>3 DEF AckInv, HistoryInv, LogsInv
  <2>6. SamePrefix(log[p], log[n], k)
    BY <2>5 DEF SamePrefix
  <2>7. k <= Len(log[p]) /\ k <= Len(log[n])
    BY <2>6 DEF SamePrefix
  <2> QED BY <2>3, <2>4, <2>6, <2>7, SamePrefixSubSeq
<1> QED
  BY <1>1, Replication, PTL

\* A request commits no more than the entries it proves the follower to hold, so the
\* code's bound, the follower's own last index, is never the one that decides.
THEOREM CommitsWithinRequests == Spec => []CommitWithinRequest
<1>1. ReplicationInv => CommitWithinRequest
  BY DEF ReplicationInv, Histories, CommitInv, CommitWithinRequest
<1> QED
  BY <1>1, Replication, PTL

\* A replica that lacks a committed entry finds no majority of voters for its log.
THEOREM CommittedSurvivesElections == Spec => []ElectableHasCommitted
<1>1. ReplicationInv => ElectableHasCommitted
  <2> SUFFICES ASSUME ReplicationInv, NEW c \in Server, NEW n \in Server,
                      IsMajority({v \in Server : LogUpToDate(VoteRequestOf(c), log[v])})
               PROVE  HoldsCommitted(c, n)
    BY DEF ElectableHasCommitted
  <2>1. PICK H, A : TypeOK /\ HistoryInv(H) /\ AckInv(H, A) /\ SafeInv(H, A) /\ CommitInv(H, A)
    BY DEF ReplicationInv, Histories
  <2>2. /\ log[c] \in Seq(Entry) /\ log[n] \in Seq(Entry) /\ commitIndex[n] \in Nat
        /\ Len(log[c]) \in Nat /\ Len(log[n]) \in Nat
    BY <2>1, LogType DEF TypeOK
  <2>3. SamePrefix(log[c], log[n], commitIndex[n])
    <3>1. CASE commitIndex[n] = 0
      BY <2>2, <3>1 DEF SamePrefix
    <3>2. CASE commitIndex[n] > 0
      <4>1. CommittedBy(H, A, log[n], currentTerm[n], commitIndex[n])
        BY <2>1, <3>2 DEF CommitInv
      <4>a. PICK t \in Terms : \E i \in Own(H, t) :
              commitIndex[n] <= i /\ Decided(A, t, i) /\ SamePrefix(log[n], H[t], commitIndex[n])
        BY <4>1 DEF CommittedBy
      <4>2. PICK i \in Own(H, t) :
              commitIndex[n] <= i /\ Decided(A, t, i) /\ SamePrefix(log[n], H[t], commitIndex[n])
        BY <4>a
      <4>3. PICK Q \in SUBSET Server : IsMajority(Q) /\ \A q \in Q : i <= A[q][t]
        BY <4>2 DEF Decided
      <4>4. PICK v \in Server : v \in Q /\ LogUpToDate(VoteRequestOf(c), log[v])
        <5>1. PICK P \in SUBSET Server : P = {v \in Server : LogUpToDate(VoteRequestOf(c), log[v])}
          OBVIOUS
        <5>2. IsMajority(P)
          BY <5>1
        <5>3. PICK v \in Server : v \in P /\ v \in Q
          BY <4>3, <5>2, MajoritiesMeet
        <5> QED BY <5>1, <5>3
      <4>5. i \in Nat /\ ~Blocked(A, t, i)
        <5>1. H \in [Terms -> Seq(Entry)] /\ A \in [Server -> [Terms -> Nat]] /\ Len(H[t]) \in Nat
          BY <2>1, LogType DEF HistoryInv, HistoryOK, AckInv
        <5>2. i \in Nat
          BY <5>1 DEF Own
        <5> QED BY <4>2, <5>1, <5>2, DecidedNotBlocked
      <4>6. SamePrefix(H[t], log[v], i)
        BY <2>1, <4>3, <4>4, <4>5 DEF SafeInv, LogsSafe, Safe
      <4>7. Safe(H, A, log[c], t, i)
        <5>1. /\ log[v] \in Seq(Entry) /\ HistoryOK(H) /\ LeadersSafe(H, A)
              /\ Rooted(H, log[c], currentTerm[c]) /\ Rooted(H, log[v], currentTerm[v])
          BY <2>1 DEF TypeOK, HistoryInv, LogsInv, SafeInv
        <5>2. PICK m : m = VoteRequestOf(c)
          OBVIOUS
        <5>3. m.lastLogIndex = Len(log[c]) /\ m.lastLogTerm = LastTerm(log[c])
          BY <5>2 DEF VoteRequestOf, LastIndex
        <5> QED BY <2>2, <4>4, <4>6, <5>1, <5>2, <5>3, UpToDateIsSafe
      <4>8. SamePrefix(H[t], log[c], i)
        BY <4>5, <4>7 DEF Safe
      <4> QED BY <2>2, <4>2, <4>5, <4>8 DEF SamePrefix
    <3> QED BY <2>2, <3>1, <3>2
  <2>4. commitIndex[n] <= Len(log[c]) /\ commitIndex[n] <= Len(log[n])
    BY <2>3 DEF SamePrefix
  <2> QED BY <2>2, <2>3, <2>4, SamePrefixSubSeq DEF HoldsCommitted
<1> QED
  BY <1>1, Replication, PTL

\* No step takes back or rewrites what a replica has committed.
THEOREM CommitsStay == Spec => CommittedPrefixStable
<1> DEFINE Kept(n) == /\ commitIndex'[n] >= commitIndex[n]
                      /\ Len(log'[n]) >= commitIndex[n]
                      /\ SubSeq(log'[n], 1, commitIndex[n]) = SubSeq(log[n], 1, commitIndex[n])
<1>1. ReplicationInv /\ [Next]_vars => [\A n \in Server : Kept(n)]_vars
  <2> SUFFICES ASSUME ReplicationInv, [Next]_vars, NEW n \in Server
               PROVE  Kept(n)
    OBVIOUS
  <2>1. TypeOK /\ ElectionInv /\ ElectedInv
    BY DEF ReplicationInv
  <2>2. PICK H, A : HistoryInv(H) /\ AckInv(H, A) /\ CommitInv(H, A)
    BY DEF ReplicationInv, Histories
  <2>3. PICK G, B : HistoryStep(H, A, G, B)
    BY HistoryStepExists
  <2>4. commitIndex'[n] >= commitIndex[n]
    BY <2>1, <2>2, <2>3, ReplicaCommits
  <2>5. SamePrefix(log'[n], log[n], commitIndex[n])
    BY <2>1, <2>2, CommittedKept DEF CommitInv
  <2>6. /\ log[n] \in Seq(Entry) /\ log'[n] \in Seq(Entry) /\ commitIndex[n] \in Nat
        /\ Len(log'[n]) \in Nat
    BY <2>1, TypeNext, LogType DEF TypeOK
  <2>7. commitIndex[n] <= Len(log[n]) /\ commitIndex[n] <= Len(log'[n])
    BY <2>5 DEF SamePrefix
  <2>8. Len(log'[n]) >= commitIndex[n]
    BY <2>6, <2>7
  <2> QED BY <2>4, <2>5, <2>6, <2>7, <2>8, SamePrefixSubSeq
<1>2. [\A n \in Server : Kept(n)]_vars =>
        [\A n \in Server :
            /\ commitIndex'[n] >= commitIndex[n]
            /\ Len(log'[n]) >= commitIndex[n]
            /\ SubSeq(log'[n], 1, commitIndex[n]) = SubSeq(log[n], 1, commitIndex[n])]_vars
  OBVIOUS
<1> QED
  BY <1>1, <1>2, Replication, PTL DEF Spec, CommittedPrefixStable


-----------------------------------------------------------------------------
(***************************************************************************)
(* Raft implements CommittedLog.                                           *)
(***************************************************************************)

\* There is a replica that knows of most.
LEMMA ForemostExists ==
    ASSUME commitIndex \in [Server -> Nat]
    PROVE  Foremost \in Server /\ \A p \in Server : commitIndex[p] <= commitIndex[Foremost]
<1> DEFINE Ahead(n) == {p \in Server : commitIndex[p] > commitIndex[n]}
           T == {Cardinality(Ahead(n)) : n \in Server}
<1>1. \A n \in Server : Ahead(n) \in SUBSET Server /\ IsFiniteSet(Ahead(n)) /\ Cardinality(Ahead(n)) \in Nat
  BY RaftAssumption, FS_Subset, FS_CardinalityType
<1>2. T \in SUBSET Nat /\ T # {}
  <2>1. PICK n \in Server : TRUE
    BY RaftAssumption
  <2>2. Cardinality(Ahead(n)) \in T
    BY <2>1
  <2>3. \A x \in T : x \in Nat
    BY <1>1
  <2> HIDE DEF T
  <2> QED BY <2>2, <2>3
<1>3. PICK x \in T : \A y \in T : x <= y
  BY <1>2, LeastNatural
<1>4. PICK n \in Server : \A p \in Server : Cardinality(Ahead(n)) <= Cardinality(Ahead(p))
  BY <1>3
<1>5. ASSUME NEW p \in Server, ~(commitIndex[p] <= commitIndex[n])
      PROVE  FALSE
  <2>1. p \in Ahead(n) /\ p \notin Ahead(p) /\ Ahead(p) \in SUBSET Ahead(n)
    BY <1>5
  <2>2. Cardinality(Ahead(p)) <= Cardinality(Ahead(n)) /\ Cardinality(Ahead(n)) # Cardinality(Ahead(p))
    <3> HIDE DEF Ahead
    <3> QED BY <1>1, <2>1, FS_Subset
  <2> HIDE DEF Ahead
  <2> QED BY <1>1, <1>4, <2>2
<1> QED
  BY <1>5 DEF Foremost

LEMMA CommittedStrokes ==
    ASSUME TypeOK, NEW n \in Server, commitIndex[n] <= Len(log[n])
    PROVE  /\ Committed(n) \in Seq(Stroke) /\ Len(Committed(n)) = commitIndex[n]
           /\ \A i \in 1..commitIndex[n] : Committed(n)[i] = log[n][i].stroke
<1>1. commitIndex[n] \in Nat /\ log[n] \in Seq(Entry) /\ Len(log[n]) \in Nat
  BY LogType DEF TypeOK
<1>2. \A i \in 1..commitIndex[n] : log[n][i].stroke \in Stroke
  <2>1. \A i \in 1..Len(log[n]) : log[n][i] \in Entry
    BY <1>1, LogType
  <2>2. \A i \in 1..commitIndex[n] : i \in 1..Len(log[n])
    BY <1>1
  <2>3. \A e \in Entry : e.stroke \in Stroke
    BY DEF Entry
  <2> QED BY <2>1, <2>2, <2>3
<1>3. Committed(n) \in [1..commitIndex[n] -> Stroke]
  BY <1>2 DEF Committed
<1> QED
  BY <1>1, <1>3 DEF Committed

LEMMA IsPrefixOf ==
    ASSUME NEW S, NEW s \in Seq(S), NEW t \in Seq(S), Len(s) <= Len(t),
           \A i \in 1..Len(s) : s[i] = t[i]
    PROVE  Abstract!IsPrefix(s, t)
<1>1. Len(s) \in Nat /\ Len(t) \in Nat
  BY LenProperties
<1>2. /\ SubSeq(s, 1, Len(s)) \in Seq(S) /\ Len(SubSeq(s, 1, Len(s))) = Len(s)
      /\ SubSeq(t, 1, Len(s)) \in Seq(S) /\ Len(SubSeq(t, 1, Len(s))) = Len(s)
      /\ \A i \in 1..Len(s) : SubSeq(s, 1, Len(s))[i] = s[i] /\ SubSeq(t, 1, Len(s))[i] = t[i]
  BY <1>1, SubSeqProperties, ElementOfSeq
<1>3. SubSeq(s, 1, Len(s)) = SubSeq(t, 1, Len(s))
  BY <1>2, SeqEqual
<1> QED
  BY <1>3 DEF Abstract!IsPrefix


\* The strokes the replicas have committed are sequences of which the shorter is the
\* beginning of the longer, and one replica has the longest.
AgreedInv ==
    /\ Foremost \in Server /\ \A p \in Server : commitIndex[p] <= commitIndex[Foremost]
    /\ \A n \in Server : /\ commitIndex[n] \in Nat
                         /\ Committed(n) \in Seq(Stroke) /\ Len(Committed(n)) = commitIndex[n]
    /\ \A a, b \in Server : commitIndex[a] <= commitIndex[b] =>
            \A i \in 1..commitIndex[a] : Committed(a)[i] = Committed(b)[i]

LEMMA ReplicationAgrees ==
    ASSUME ReplicationInv
    PROVE  AgreedInv
<1>1. PICK H, A : TypeOK /\ Histories(H, A)
  BY DEF ReplicationInv
<1>2. commitIndex \in [Server -> Nat]
  BY <1>1 DEF TypeOK
<1>3. \A n \in Server : commitIndex[n] <= Len(log[n])
  BY <1>1 DEF Histories, CommitInv
<1>4. \A n \in Server :
        /\ Committed(n) \in Seq(Stroke) /\ Len(Committed(n)) = commitIndex[n]
        /\ \A i \in 1..commitIndex[n] : Committed(n)[i] = log[n][i].stroke
  BY <1>1, <1>3, CommittedStrokes
<1>5. ASSUME NEW a \in Server, NEW b \in Server, commitIndex[a] <= commitIndex[b],
             NEW i \in 1..commitIndex[a]
      PROVE  Committed(a)[i] = Committed(b)[i]
  <2>1. i \in Nat /\ i <= commitIndex[a] /\ i <= commitIndex[b] /\ i \in 1..i /\ i \in 1..commitIndex[b]
    BY <1>2, <1>5
  <2>2. SamePrefix(log[a], log[b], i)
    BY <1>1, <2>1, CommitsMeet
  <2>3. log[a][i] = log[b][i]
    BY <2>1, <2>2 DEF SamePrefix
  <2> QED BY <1>4, <2>1, <2>3
<1> QED
  BY <1>2, <1>4, <1>5, ForemostExists DEF AgreedInv

\* One replica at a time commits, and what is committed stays.
CommitStep ==
    /\ \A n \in Server : /\ commitIndex'[n] >= commitIndex[n]
                         /\ \A i \in 1..commitIndex[n] : Committed(n)'[i] = Committed(n)[i]
    /\ \E n \in Server : \A p \in Server \ {n} : commitIndex'[p] = commitIndex[p]

LEMMA OneCommits ==
    ASSUME TypeOK, [Next]_vars
    PROVE  \E n \in Server : \A p \in Server \ {n} : commitIndex'[p] = commitIndex[p]
<1>1. ASSUME NEW n \in Server, commitIndex'[n] # commitIndex[n]
      PROVE  \A p \in Server \ {n} : commitIndex'[p] = commitIndex[p]
  <2>1. ASSUME NEW m \in appendReqs, m.to = n, AcceptEntries(m)
        PROVE  \A p \in Server \ {n} : commitIndex'[p] = commitIndex[p]
    BY <2>1 DEF AcceptEntries, TypeOK
  <2>2. ASSUME NEW r \in appendResps, r.to = n, Advances(r, commitIndex'[n])
        PROVE  \A p \in Server \ {n} : commitIndex'[p] = commitIndex[p]
    <3> DEFINE mi == IF r.lastSent > 0 THEN [matchIndex[n] EXCEPT ![r.from] = r.lastSent]
                     ELSE matchIndex[n]
    <3>1. commitIndex' = commitIndex \/ AdvanceCommitIndex(n, mi)
      BY <2>2 DEF Advances, HandleAppendResponse
    <3> HIDE DEF mi
    <3> QED BY <3>1 DEF AdvanceCommitIndex, TypeOK
  <2> QED BY <1>1, <2>1, <2>2, CommitIndexNext
<1>2. PICK n \in Server : TRUE
  BY RaftAssumption
<1> QED
  BY <1>1, <1>2

LEMMA ReplicationCommits ==
    ASSUME ReplicationInv, [Next]_vars
    PROVE  CommitStep
<1>1. TypeOK /\ ElectionInv /\ ElectedInv
  BY DEF ReplicationInv
<1>2. PICK H, A : HistoryInv(H) /\ AckInv(H, A) /\ CommitInv(H, A)
  BY DEF ReplicationInv, Histories
<1>3. PICK G, B : HistoryStep(H, A, G, B)
  BY HistoryStepExists
<1>4. ASSUME NEW n \in Server
      PROVE  /\ commitIndex'[n] >= commitIndex[n]
             /\ \A i \in 1..commitIndex[n] : Committed(n)'[i] = Committed(n)[i]
  <2>1. commitIndex'[n] >= commitIndex[n]
    BY <1>1, <1>2, <1>3, ReplicaCommits
  <2>2. commitIndex[n] \in Nat /\ commitIndex'[n] \in Nat
    BY <1>1, TypeNext DEF TypeOK
  <2>3. SamePrefix(log'[n], log[n], commitIndex[n])
    BY <1>1, <1>2, CommittedKept DEF CommitInv
  <2>4. \A i \in 1..commitIndex[n] : i \in 1..commitIndex'[n] /\ log'[n][i] = log[n][i]
    BY <2>1, <2>2, <2>3 DEF SamePrefix
  <2> QED BY <2>1, <2>4 DEF Committed
<1> QED
  BY <1>1, <1>4, OneCommits DEF CommitStep

LEMMA AbstractStep ==
    ASSUME AgreedInv, AgreedInv', CommitStep
    PROVE  [Abstract!Next]_(Abstract!vars)
<1>1. PICK n \in Server : \A p \in Server \ {n} : commitIndex'[p] = commitIndex[p]
  BY DEF CommitStep
<1>2. PICK f \in Server, g \in Server : f = Foremost /\ g = Foremost'
  BY DEF AgreedInv
<1>3. PICK d, e : d = Committed(f) /\ e = Committed(g)'
  OBVIOUS
<1>4. PICK x, y : x = [p \in Server |-> Committed(p)] /\ y = [p \in Server |-> Committed(p)']
  OBVIOUS
<1>5. \A p \in Server :
        /\ x[p] \in Seq(Stroke) /\ Len(x[p]) = commitIndex[p] /\ commitIndex[p] \in Nat
        /\ y[p] \in Seq(Stroke) /\ Len(y[p]) = commitIndex'[p] /\ commitIndex'[p] \in Nat
        /\ commitIndex'[p] >= commitIndex[p]
        /\ \A i \in 1..commitIndex[p] : y[p][i] = x[p][i]
  BY <1>4 DEF AgreedInv, CommitStep
<1>6. /\ d = x[f] /\ \A p \in Server : commitIndex[p] <= commitIndex[f]
      /\ e = y[g] /\ \A p \in Server : commitIndex'[p] <= commitIndex'[g]
  BY <1>2, <1>3, <1>4 DEF AgreedInv
<1>7. \A a, b \in Server : commitIndex'[a] <= commitIndex'[b] =>
            \A i \in 1..commitIndex'[a] : y[a][i] = y[b][i]
  BY <1>4 DEF AgreedInv
<1>8. \A p \in Server : commitIndex'[p] = commitIndex[p] => y[p] = x[p]
  BY <1>5, SeqEqual
<1>9. x \in [Server -> Seq(Stroke)] /\ y \in [Server -> Seq(Stroke)]
  BY <1>4, <1>5
<1>10. y = [x EXCEPT ![n] = y[n]]
  BY <1>1, <1>8, <1>9
<1>11. d = Committed(Foremost) /\ e = Committed(Foremost)'
  BY <1>2, <1>3
<1>12. ASSUME NEW a \in Server, NEW b \in Server, commitIndex'[a] = commitIndex'[b]
       PROVE  y[a] = y[b]
  <2>1. commitIndex'[a] <= commitIndex'[b]
    BY <1>5, <1>12
  <2>2. \A i \in 1..Len(y[a]) : y[a][i] = y[b][i]
    BY <1>5, <1>7, <2>1
  <2>3. y[a] \in Seq(Stroke) /\ y[b] \in Seq(Stroke) /\ Len(y[a]) = Len(y[b])
    BY <1>5, <1>12
  <2> QED BY <2>2, <2>3, SeqEqual
<1>13. CASE commitIndex'[n] = commitIndex[n]
  <2>1. y = x
    <3>1. y[n] = x[n]
      BY <1>8, <1>13
    <3> QED BY <1>9, <1>10, <3>1
  <2>2. commitIndex'[g] = commitIndex'[f]
    BY <1>1, <1>5, <1>6, <1>13
  <2>3. y[g] = y[f]
    BY <1>12, <2>2
  <2>4. e = d
    BY <1>6, <2>1, <2>3
  <2> QED BY <1>4, <1>11, <2>1, <2>4 DEF Abstract!vars
<1>14. CASE commitIndex'[n] # commitIndex[n] /\ commitIndex'[n] > commitIndex[f]
  <2>1. commitIndex'[g] = commitIndex'[n]
    BY <1>1, <1>5, <1>6, <1>14
  <2>2. e = y[n]
    BY <1>6, <1>12, <2>1
  <2>3. Abstract!Grows(x[n], y[n])
    <3>1. Abstract!IsPrefix(x[n], y[n])
      BY <1>5, IsPrefixOf
    <3> QED BY <1>5, <1>14, <3>1 DEF Abstract!Grows
  <2>4. Abstract!Grows(d, e)
    <3>1. commitIndex'[f] <= commitIndex'[n] /\ commitIndex[f] <= commitIndex'[f]
      BY <1>5, <1>6, <2>1
    <3>2. \A i \in 1..commitIndex[f] : i \in 1..commitIndex'[f] /\ x[f][i] = y[n][i]
      BY <1>5, <1>7, <3>1
    <3>3. /\ d \in Seq(Stroke) /\ e \in Seq(Stroke) /\ Len(d) = commitIndex[f]
          /\ Len(e) = commitIndex'[n] /\ commitIndex[f] \in Nat /\ commitIndex'[n] \in Nat
      BY <1>5, <1>6, <2>2
    <3>4. Len(d) < Len(e)
      BY <1>14, <3>3
    <3>5. \A i \in 1..Len(d) : d[i] = e[i]
      BY <1>6, <2>2, <3>2, <3>3
    <3>6. Len(d) <= Len(e)
      BY <3>3, <3>4
    <3>7. Abstract!IsPrefix(d, e)
      BY <3>3, <3>5, <3>6, IsPrefixOf
    <3> QED BY <3>4, <3>7 DEF Abstract!Grows
  <2>5. \A i \in 1..Len(e) : e[i] \in Stroke
    BY <1>5, <2>2, ElementOfSeq
  <2>6. y = [x EXCEPT ![n] = e]
    BY <1>10, <2>2
  <2>7. Abstract!Decide(n)
    BY <1>4, <1>11, <2>3, <2>4, <2>5, <2>6 DEF Abstract!Decide
  <2> QED BY <2>7 DEF Abstract!Next
<1>15. CASE commitIndex'[n] # commitIndex[n] /\ ~(commitIndex'[n] > commitIndex[f])
  <2>1. f # n
    BY <1>5, <1>15
  <2>2. commitIndex'[f] = commitIndex[f] /\ commitIndex'[n] <= commitIndex'[f]
    BY <1>1, <1>5, <1>15, <2>1
  <2>3. commitIndex'[g] = commitIndex'[f]
    <3>1. commitIndex'[g] <= commitIndex'[f]
      BY <1>1, <1>5, <1>6, <2>2
    <3> QED BY <1>5, <1>6, <3>1
  <2>4. e = d
    BY <1>6, <1>8, <1>12, <2>2, <2>3
  <2>5. Abstract!Grows(x[n], y[n])
    <3>1. Abstract!IsPrefix(x[n], y[n])
      BY <1>5, IsPrefixOf
    <3> QED BY <1>5, <1>15, <3>1 DEF Abstract!Grows
  <2>6. Abstract!IsPrefix(y[n], d)
    <3>1. d = y[f]
      BY <1>6, <1>8, <2>2
    <3> QED BY <1>5, <1>7, <2>2, <3>1, IsPrefixOf
  <2>7. Abstract!Deliver(n)
    BY <1>4, <1>10, <1>11, <2>4, <2>5, <2>6 DEF Abstract!Deliver
  <2> QED BY <2>7 DEF Abstract!Next
<1> QED
  BY <1>13, <1>14, <1>15

\* The replicas behave as one log of strokes that only grows and that each of them
\* delivers from its start: terms, elections, conflicts and calls are invisible.
THEOREM RaftImplementsCommittedLog == Spec => ImplementsCommittedLog
<1>1. Init => Abstract!Init
  <2> SUFFICES ASSUME Init
               PROVE  Abstract!Init
    OBVIOUS
  <2>1. commitIndex \in [Server -> Nat] /\ \A n \in Server : commitIndex[n] = 0
    BY DEF Init
  <2>2. \A n \in Server : Committed(n) = << >>
    BY <2>1 DEF Committed
  <2>3. Foremost \in Server
    BY <2>1, ForemostExists
  <2> QED BY <2>2, <2>3 DEF Abstract!Init
<1>2. ReplicationInv => AgreedInv
  BY ReplicationAgrees
<1>3. ReplicationInv /\ [Next]_vars => CommitStep
  BY ReplicationCommits
<1>4. AgreedInv /\ AgreedInv' /\ CommitStep => [Abstract!Next]_(Abstract!vars)
  BY AbstractStep
<1> QED
  BY <1>1, <1>2, <1>3, <1>4, Replication, PTL DEF Spec, ImplementsCommittedLog, Abstract!Spec

-----------------------------------------------------------------------------
(***************************************************************************)
(* Restarts.  A replica that forgets breaks everything above: votes and    *)
(* acknowledgements that others count on are gone.  What is left needs no  *)
(* history: Log.AppendEntries refuses to cut what its own replica has      *)
(* committed, whoever asks for it.                                         *)
(***************************************************************************)
RestartInv ==
    /\ TypeOK
    /\ orphanVotes \subseteq VoteRequest
    /\ orphanAppends \subseteq AppendEntriesRequest
    /\ \A n \in Server : commitIndex[n] <= Len(log[n])

\* A step keeps what n has committed, and commits no more than n has.
Keeps(n) ==
    /\ commitIndex[n] <= commitIndex'[n]
    /\ commitIndex'[n] <= Len(log'[n])
    /\ SamePrefix(log'[n], log[n], commitIndex[n])

LEMMA UnchangedKeeps ==
    ASSUME TypeOK, NEW n \in Server, commitIndex[n] <= Len(log[n]),
           log'[n] = log[n], commitIndex'[n] = commitIndex[n]
    PROVE  Keeps(n)
<1>1. commitIndex[n] \in Nat
  BY DEF TypeOK
<1> QED
  BY <1>1 DEF Keeps, SamePrefix

\* The request may be of anyone, and say anything.
LEMMA AcceptKeeps ==
    ASSUME TypeOK, NEW m \in AppendEntriesRequest, AcceptEntries(m),
           NEW n \in Server, commitIndex[n] <= Len(log[n])
    PROVE  Keeps(n)
<1>1. /\ m.to \in Server /\ m.prevLogIndex \in Nat /\ m.entries \in Seq(Entry)
      /\ m.leaderCommit \in Nat
  BY DEF AppendEntriesRequest
<1>2. /\ log \in [Server -> Seq(Entry)] /\ commitIndex \in [Server -> Nat]
      /\ log[n] \in Seq(Entry) /\ Len(log[n]) \in Nat /\ commitIndex[n] \in Nat
  BY LogType DEF TypeOK
<1>3. PICK l : l = AppendEntries(log[m.to], m.prevLogIndex, m.entries)
  OBVIOUS
<1>4. /\ PrevMatches(log[m.to], m)
      /\ ~TruncatesCommitted(log[m.to], m.prevLogIndex, m.entries, commitIndex[m.to])
      /\ log' = [log EXCEPT ![m.to] = l]
      /\ commitIndex' = [commitIndex EXCEPT ![m.to] =
                             FollowerCommit(l, commitIndex[m.to], m.leaderCommit)]
  BY <1>3 DEF AcceptEntries
<1>5. CASE m.to # n
  <2>1. log'[n] = log[n] /\ commitIndex'[n] = commitIndex[n]
    BY <1>1, <1>2, <1>4, <1>5
  <2> QED BY <2>1, UnchangedKeeps
<1>6. CASE m.to = n
  <2>1. log'[n] = l /\ commitIndex'[n] = FollowerCommit(l, commitIndex[n], m.leaderCommit)
    BY <1>2, <1>4, <1>6
  <2>2. m.prevLogIndex <= Len(log[n])
    BY <1>1, <1>2, <1>4, <1>6 DEF PrevMatches
  <2>3. SamePrefix(l, log[n], commitIndex[n])
    BY <1>1, <1>2, <1>3, <1>4, <1>6, <2>2, AppendKeepsCommitted
  <2>4. l \in Seq(Entry) /\ Len(l) \in Nat
    BY <1>1, <1>2, <1>3, <1>6, <2>2, AppendEntriesType, LogType
  <2>5. commitIndex[n] <= Len(l)
    BY <2>3 DEF SamePrefix
  <2>6. /\ commitIndex[n] <= FollowerCommit(l, commitIndex[n], m.leaderCommit)
        /\ FollowerCommit(l, commitIndex[n], m.leaderCommit) <= Len(l)
    BY <1>1, <1>2, <2>4, <2>5 DEF FollowerCommit, LastIndex
  <2> QED BY <2>1, <2>3, <2>6 DEF Keeps
<1> QED BY <1>5, <1>6

LEMMA NextKeeps ==
    ASSUME TypeOK, [Next]_vars, NEW n \in Server, commitIndex[n] <= Len(log[n])
    PROVE  Keeps(n)
<1>1. /\ log \in [Server -> Seq(Entry)] /\ commitIndex \in [Server -> Nat]
      /\ log[n] \in Seq(Entry) /\ Len(log[n]) \in Nat /\ commitIndex[n] \in Nat
  BY LogType DEF TypeOK
<1>2. ASSUME NEW c \in Server, NEW s \in Stroke, HandleStroke(c, s)
      PROVE  Keeps(n)
  <2>1. PICK e : e = [term |-> currentTerm[c], stroke |-> s]
    OBVIOUS
  <2>2. e \in Entry
    BY <2>1 DEF Entry, TypeOK
  <2>3. log' = [log EXCEPT ![c] = Append(log[c], e)] /\ commitIndex' = commitIndex
    BY <1>2, <2>1 DEF HandleStroke
  <2>4. CASE c # n
    BY <1>1, <2>3, <2>4, UnchangedKeeps
  <2>5. CASE c = n
    <3>1. log'[n] = Append(log[n], e)
      BY <1>1, <2>3, <2>5
    <3>2. /\ Len(log'[n]) = Len(log[n]) + 1
          /\ \A j \in 1..Len(log[n]) : log'[n][j] = log[n][j]
      BY <1>1, <2>2, <3>1, AppendProperties
    <3> QED BY <1>1, <2>3, <3>2 DEF Keeps, SamePrefix
  <2> QED BY <2>4, <2>5
<1>3. ASSUME NEW m \in appendReqs, AcceptEntries(m)
      PROVE  Keeps(n)
  <2>1. m \in AppendEntriesRequest
    BY DEF TypeOK
  <2> QED BY <1>3, <2>1, AcceptKeeps
<1>4. ASSUME NEW r \in appendResps, r.to = n, Advances(r, commitIndex'[n])
      PROVE  Keeps(n)
  <2>1. commitIndex'[n] \in (commitIndex[n] + 1)..Len(log[n]) /\ log' = log
    BY <1>4 DEF Advances, Committable, LastIndex
  <2> QED BY <1>1, <2>1 DEF Keeps, SamePrefix
<1>5. ASSUME commitIndex'[n] = commitIndex[n], log' = log
      PROVE  Keeps(n)
  BY <1>5, UnchangedKeeps
<1> QED
  BY <1>2, <1>3, <1>4, <1>5, LogUnchanged, CommitIndexNext

\* Only a replica that restarts itself loses what it has committed.
LEMMA RestartKeeps ==
    ASSUME RestartInv, [RestartNext]_restartVars, NEW n \in Server
    PROVE  Keeps(n) \/ Restart(n)
<1>1. TypeOK /\ commitIndex[n] <= Len(log[n])
  BY DEF RestartInv
<1>2. CASE [Next]_vars
  BY <1>1, <1>2, NextKeeps
<1>3. ASSUME NEW c \in Server, Restart(c), c # n
      PROVE  Keeps(n)
  <2>1. log'[n] = log[n] /\ commitIndex'[n] = commitIndex[n]
    BY <1>1, <1>3 DEF Restart, TypeOK
  <2> QED BY <1>1, <2>1, UnchangedKeeps
<1>4. ASSUME NEW m \in orphanVotes, HandleOrphanVote(m)
      PROVE  Keeps(n)
  <2>1. log' = log /\ commitIndex' = commitIndex
    BY <1>4 DEF HandleOrphanVote, logVars
  <2> QED BY <1>1, <2>1, UnchangedKeeps
<1>5. ASSUME NEW m \in orphanAppends, HandleOrphanAppend(m)
      PROVE  Keeps(n)
  <2>1. m \in AppendEntriesRequest /\ HandleAppendEntries(m)
    BY <1>5 DEF RestartInv, HandleOrphanAppend
  <2>2. CASE AcceptEntries(m)
    BY <1>1, <2>1, <2>2, AcceptKeeps
  <2>3. CASE ~AcceptEntries(m)
    <3>1. log' = log /\ commitIndex' = commitIndex
      BY <2>1, <2>3
      DEF HandleAppendEntries, RejectStale, RejectMismatch, PanicOnCommitted, logVars
    <3> QED BY <1>1, <3>1, UnchangedKeeps
  <2> QED BY <2>2, <2>3
<1>6. CASE UNCHANGED restartVars
  BY <1>2, <1>6 DEF restartVars
<1> QED
  BY <1>2, <1>3, <1>4, <1>5, <1>6 DEF RestartNext

\* NewNode again: the types of a replica that comes back, and of what it has sent.
LEMMA RestartType ==
    ASSUME RestartInv, NEW n \in Server, Restart(n)
    PROVE  /\ TypeOK' /\ orphanVotes' \subseteq VoteRequest
           /\ orphanAppends' \subseteq AppendEntriesRequest
           /\ log'[n] = << >> /\ commitIndex'[n] = 0
<1>1. TypeOK
  BY DEF RestartInv
<1>2. PICK s : s = BecomeFollower(0, Nil)
  OBVIOUS
<1>3. s \in NodeState
  BY <1>2 DEF BecomeFollower, NodeState, Terms
<1>4. SetNode(n, s)
  BY <1>2 DEF Restart
<1>5. /\ state' \in [Server -> {Follower, Candidate, Leader}]
      /\ currentTerm' \in [Server -> Terms]
      /\ votedFor' \in [Server -> Server \cup {Nil}]
      /\ leaderID' \in [Server -> Server \cup {Nil}]
  BY <1>1, <1>3, <1>4, SetNodeType
<1>6. << >> \in Seq(Entry)
  BY EmptySeq
<1>7. log' \in [Server -> Seq(Entry)] /\ log'[n] = << >>
  BY <1>1, <1>6 DEF Restart, TypeOK
<1>8. commitIndex' \in [Server -> Nat] /\ commitIndex'[n] = 0
  BY <1>1 DEF Restart, TypeOK
<1>9. /\ nextIndex' \in [Server -> [Server -> Nat \ {0}]]
      /\ matchIndex' \in [Server -> [Server -> Nat]]
  BY <1>1 DEF Restart, TypeOK
<1>10. electionTerm' \in [Server -> Terms] /\ votes' \in [Server -> SUBSET Server]
  BY <1>1 DEF Restart, TypeOK, Terms
<1>11. /\ voteReqs' \subseteq VoteRequest /\ voteResps' \subseteq VoteResponse
       /\ appendReqs' \subseteq AppendEntriesRequest
       /\ appendResps' \subseteq AppendEntriesResponse
       /\ orphanVotes' \subseteq VoteRequest /\ orphanAppends' \subseteq AppendEntriesRequest
  BY <1>1 DEF Restart, TypeOK, RestartInv
<1>12. elections' \in Nat /\ elected' \subseteq Server \X Terms
  BY <1>1 DEF Restart, TypeOK, historyVars
<1> QED
  BY <1>5, <1>7, <1>8, <1>9, <1>10, <1>11, <1>12 DEF TypeOK

LEMMA OrphanVoteType ==
    ASSUME RestartInv, NEW m \in orphanVotes, HandleOrphanVote(m)
    PROVE  TypeOK'
<1>1. TypeOK /\ m \in VoteRequest
  BY DEF RestartInv
<1>2. m.from \in Server /\ m.to \in Server /\ m.term \in Terms
  BY <1>1 DEF VoteRequest
<1>3. PICK s : s = StepDown(m.to, m.term)
  OBVIOUS
<1>4. s \in NodeState
  BY <1>1, <1>2, <1>3, StepDownType
<1>5. PICK t \in NodeState : SetNode(m.to, t)
  <2>1. [s EXCEPT !.votedFor = m.from, !.term = m.term] \in NodeState
    BY <1>2, <1>4 DEF NodeState
  <2>2. SetNode(m.to, IF VoteGranted(m)
                      THEN [s EXCEPT !.votedFor = m.from, !.term = m.term]
                      ELSE s)
    BY <1>3 DEF HandleOrphanVote, CastVote
  <2> QED BY <1>4, <2>1, <2>2
<1>6. /\ state' \in [Server -> {Follower, Candidate, Leader}]
      /\ currentTerm' \in [Server -> Terms]
      /\ votedFor' \in [Server -> Server \cup {Nil}]
      /\ leaderID' \in [Server -> Server \cup {Nil}]
  BY <1>1, <1>2, <1>5, SetNodeType
<1> QED
  BY <1>1, <1>6
  DEF TypeOK, HandleOrphanVote, logVars, leaderVars, electionVars, netVars, historyVars

LEMMA RestartInvNext ==
    ASSUME RestartInv, [RestartNext]_restartVars
    PROVE  RestartInv'
<1>0. /\ TypeOK /\ orphanVotes \subseteq VoteRequest
      /\ orphanAppends \subseteq AppendEntriesRequest
  BY DEF RestartInv
<1>1. /\ TypeOK' /\ orphanVotes' \subseteq VoteRequest
      /\ orphanAppends' \subseteq AppendEntriesRequest
  <2>1. CASE [Next]_vars /\ UNCHANGED <<restarts, orphanVotes, orphanAppends>>
    BY <1>0, <2>1, TypeNext
  <2>2. ASSUME NEW n \in Server, Restart(n)
        PROVE  /\ TypeOK' /\ orphanVotes' \subseteq VoteRequest
               /\ orphanAppends' \subseteq AppendEntriesRequest
    BY <2>2, RestartType
  <2>3. ASSUME NEW m \in orphanVotes, HandleOrphanVote(m)
        PROVE  /\ TypeOK' /\ orphanVotes' \subseteq VoteRequest
               /\ orphanAppends' \subseteq AppendEntriesRequest
    <3>1. orphanVotes' \subseteq orphanVotes /\ orphanAppends' = orphanAppends
      BY <2>3 DEF HandleOrphanVote
    <3> QED BY <1>0, <2>3, <3>1, OrphanVoteType
  <2>4. ASSUME NEW m \in orphanAppends, HandleOrphanAppend(m)
        PROVE  /\ TypeOK' /\ orphanVotes' \subseteq VoteRequest
               /\ orphanAppends' \subseteq AppendEntriesRequest
    <3>1. /\ m \in AppendEntriesRequest /\ HandleAppendEntries(m)
          /\ orphanVotes' = orphanVotes /\ orphanAppends' = orphanAppends
      BY <1>0, <2>4 DEF HandleOrphanAppend
    <3> QED BY <1>0, <3>1, TypeHandleAppendEntries
  <2>5. CASE UNCHANGED restartVars
    BY <2>1, <2>5 DEF restartVars
  <2> QED BY <2>1, <2>2, <2>3, <2>4, <2>5 DEF RestartNext
<1>2. ASSUME NEW n \in Server
      PROVE  commitIndex'[n] <= Len(log'[n])
  <2>1. CASE Keeps(n)
    BY <2>1 DEF Keeps
  <2>2. CASE Restart(n)
    <3>1. log'[n] = << >> /\ commitIndex'[n] = 0
      BY <2>2, RestartType
    <3> QED BY <3>1
  <2> QED BY <2>1, <2>2, RestartKeeps
<1> QED
  BY <1>1, <1>2 DEF RestartInv

\* However many replicas restart and forget what they have promised, one that
\* stays up keeps what it has committed.  (Whether the others agree with it is
\* another matter, which restarts do spoil.)
THEOREM UpReplicaKeepsCommitted == RestartSpec => CommittedKeptWhileUp
<1> DEFINE Kept(n) == /\ commitIndex'[n] >= commitIndex[n]
                      /\ Len(log'[n]) >= commitIndex[n]
                      /\ SubSeq(log'[n], 1, commitIndex[n]) = SubSeq(log[n], 1, commitIndex[n])
<1>1. RestartInit => RestartInv
  <2> SUFFICES ASSUME RestartInit
               PROVE  RestartInv
    OBVIOUS
  <2>1. TypeOK
    BY TypeInit DEF RestartInit
  <2>2. \A n \in Server : commitIndex[n] <= Len(log[n])
    BY DEF RestartInit, Init
  <2> QED BY <2>1, <2>2 DEF RestartInit, RestartInv
<1>2. RestartInv /\ [RestartNext]_restartVars => RestartInv'
  BY RestartInvNext
<1>3. RestartInv /\ [RestartNext]_restartVars =>
        [\A n \in Server : Kept(n) \/ Restart(n)]_restartVars
  <2> SUFFICES ASSUME RestartInv, [RestartNext]_restartVars, NEW n \in Server, Keeps(n)
               PROVE  Kept(n)
    BY RestartKeeps
  <2>1. /\ log[n] \in Seq(Entry) /\ log'[n] \in Seq(Entry) /\ Len(log'[n]) \in Nat
        /\ commitIndex[n] \in Nat /\ commitIndex'[n] \in Nat
    BY RestartInvNext, LogType DEF RestartInv, TypeOK
  <2>2. SamePrefix(log'[n], log[n], commitIndex[n])
    BY DEF Keeps
  <2>3. commitIndex[n] <= Len(log[n]) /\ commitIndex[n] <= Len(log'[n])
    BY <2>2 DEF SamePrefix
  <2>4. SubSeq(log'[n], 1, commitIndex[n]) = SubSeq(log[n], 1, commitIndex[n])
    BY <2>1, <2>2, <2>3, SamePrefixSubSeq
  <2> QED BY <2>1, <2>3, <2>4 DEF Keeps
<1>4. [\A n \in Server : Kept(n) \/ Restart(n)]_restartVars =>
        [\A n \in Server :
            \/ /\ commitIndex'[n] >= commitIndex[n]
               /\ Len(log'[n]) >= commitIndex[n]
               /\ SubSeq(log'[n], 1, commitIndex[n]) = SubSeq(log[n], 1, commitIndex[n])
            \/ Restart(n)]_restartVars
  OBVIOUS
<1> QED
  BY <1>1, <1>2, <1>3, <1>4, PTL DEF RestartSpec, CommittedKeptWhileUp

=============================================================================
