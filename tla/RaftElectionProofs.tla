------------------------- MODULE RaftElectionProofs -------------------------
(***************************************************************************)
(* What the log's operations do, the types of the state, and at most one   *)
(* leader per term, for any cluster and any bounds.                        *)
(*                                                                         *)
(* The usual argument, that a replica votes once per term, is not true of  *)
(* this code: a candidate that steps down within its term forgets that it  *)
(* voted for itself, and may vote again.  What is true, and enough, is     *)
(* that a vote that was given to another replica is kept (its giver is a   *)
(* follower, whose votedFor no same-term step clears), so that the voters  *)
(* of a leader stay pledged to it, and that a replica's vote for itself    *)
(* counts only while it is a candidate.                                    *)
(***************************************************************************)
EXTENDS Raft, SequenceTheorems, WellFoundedInduction, FiniteSetTheorems, TLAPS

(***************************************************************************)
(* The operations of the log, for logs of any length.                      *)
(***************************************************************************)

\* A set of naturals that is not empty has a least element.
LEMMA LeastNatural ==
    ASSUME NEW T \in SUBSET Nat, T # {}
    PROVE  \E x \in T : \A y \in T : x <= y
<1>1. PICK x \in T : \A y \in T : ~(<<y, x>> \in OpToRel(<, Nat))
  BY NatLessThanWellFounded, WFMin
<1>2. \A y \in T : ~(y < x)
  BY <1>1 DEF OpToRel
<1> QED
  BY <1>2

\* GetFrom, from any position a nextIndex may have, returns entries of the log.
LEMMA GetFromType ==
    ASSUME NEW S, NEW l \in Seq(S), NEW i \in Nat \ {0}
    PROVE  /\ GetFrom(l, i) \in Seq(S)
           /\ Len(GetFrom(l, i)) = IF i <= Len(l) THEN Len(l) - i + 1 ELSE 0
<1>1. \A j \in i..Len(l) : l[j] \in S
  BY LenProperties, ElementOfSeq
<1> QED
  BY <1>1, SubSeqProperties, LenProperties DEF GetFrom

\* The loop of Log.AppendEntries has a first entry it does not skip, or skips all.
LEMMA FirstNewExists ==
    ASSUME NEW S, NEW l \in Seq(S), NEW es \in Seq(S), NEW prev \in Nat
    PROVE  LET k == FirstNew(l, prev, es)
           IN  /\ k \in 1..(Len(es) + 1)
               /\ \A j \in 1..(k - 1) : Holds(l, prev, es, j)
               /\ k <= Len(es) => ~Holds(l, prev, es, k)
<1> DEFINE New == {k \in 1..Len(es) : ~Holds(l, prev, es, k)} \cup {Len(es) + 1}
<1>0. Len(es) \in Nat
  BY LenProperties
<1>1. New \in SUBSET Nat /\ New # {}
  BY <1>0
<1>2. PICK k \in New : \A j \in New : k <= j
  <2> HIDE DEF New
  <2> QED BY <1>1, LeastNatural
<1>3. /\ k \in 1..(Len(es) + 1)
      /\ \A j \in 1..(k - 1) : Holds(l, prev, es, j)
      /\ k <= Len(es) => ~Holds(l, prev, es, k)
  BY <1>0, <1>2
<1> QED
  BY <1>3 DEF FirstNew

\* The log Log.AppendEntries leaves is a log again, keeps what it does not
\* truncate, and reaches the last entry received.
LEMMA AppendEntriesType ==
    ASSUME NEW S, NEW l \in Seq(S), NEW es \in Seq(S), NEW prev \in Nat, prev <= Len(l)
    PROVE  /\ AppendEntries(l, prev, es) \in Seq(S)
           /\ Len(AppendEntries(l, prev, es)) >= prev + Len(es)
<1> DEFINE k == FirstNew(l, prev, es)
<1>0. Len(es) \in Nat /\ Len(l) \in Nat
  BY LenProperties
<1>1. /\ k \in 1..(Len(es) + 1)
      /\ \A j \in 1..(k - 1) : Holds(l, prev, es, j)
  BY FirstNewExists
<1>2. \A j \in 1..(k - 1) : prev + j <= Len(l)
  BY <1>1 DEF Holds
<1> HIDE DEF k
<1>3. prev + k - 1 <= Len(l)
  <2>1. CASE k = 1
    BY <2>1, <1>0
  <2>2. CASE k > 1
    <3>1. k - 1 \in 1..(k - 1)
      BY <2>2, <1>0, <1>1
    <3> QED BY <3>1, <1>0, <1>1, <1>2
  <2> QED BY <2>1, <2>2, <1>0, <1>1
<1>4. CASE k > Len(es)
  BY <1>0, <1>1, <1>3, <1>4 DEF AppendEntries, k
<1>5. CASE k <= Len(es)
  <2> DEFINE kept == SubSeq(l, 1, prev + k - 1)
             new == SubSeq(es, k, Len(es))
  <2>1. kept \in Seq(S) /\ Len(kept) = prev + k - 1
    <3>1. \A j \in 1..(prev + k - 1) : l[j] \in S
      BY <1>0, <1>1, <1>3, ElementOfSeq
    <3> QED BY <3>1, <1>0, <1>1, SubSeqProperties
  <2>2. new \in Seq(S) /\ Len(new) = Len(es) - k + 1
    <3>1. \A j \in k..Len(es) : es[j] \in S
      BY <1>0, <1>1, ElementOfSeq
    <3> QED BY <3>1, <1>0, <1>1, <1>5, SubSeqProperties
  <2>3. AppendEntries(l, prev, es) = kept \o new
    <3>1. ~(k > Len(es))
      BY <1>0, <1>1, <1>5
    <3> QED BY <3>1, Zenon DEF AppendEntries, k
  <2> HIDE DEF kept, new
  <2>4. kept \o new \in Seq(S) /\ Len(kept \o new) = Len(kept) + Len(new)
    BY <2>1, <2>2, ConcatProperties
  <2> QED BY <2>1, <2>2, <2>3, <2>4, <1>0, <1>1
<1> QED
  BY <1>0, <1>1, <1>4, <1>5

\* What Log.AppendEntries makes of l, position by position, when es[k] is the first
\* new entry: r holds what l has before it, and es from there on; if there is no new
\* entry, nothing changes.
Appended(l, prev, es, k, r) ==
    /\ prev + k - 1 <= Len(l)
    /\ \A j \in 1..(k - 1) : l[prev + j].term = es[j].term
    /\ k > Len(es) => r = l
    /\ k <= Len(es) =>
         /\ Len(r) = prev + Len(es)
         /\ \A j \in 1..(prev + k - 1) : r[j] = l[j]
         /\ \A j \in k..Len(es) : r[prev + j] = es[j]
         /\ prev + k <= Len(l) => l[prev + k].term # es[k].term

\* The entries before the first new one are in the log already, at least by their
\* terms; if there is a new one, the log ends with the last entry received.
LEMMA AppendEntriesResult ==
    ASSUME NEW S, NEW l \in Seq(S), NEW es \in Seq(S), NEW prev \in Nat, prev <= Len(l)
    PROVE  /\ FirstNew(l, prev, es) \in 1..(Len(es) + 1)
           /\ Appended(l, prev, es, FirstNew(l, prev, es), AppendEntries(l, prev, es))
<1> DEFINE k == FirstNew(l, prev, es)
           r == AppendEntries(l, prev, es)
<1>0. Len(es) \in Nat /\ Len(l) \in Nat
  BY LenProperties
<1>1. /\ k \in 1..(Len(es) + 1)
      /\ \A j \in 1..(k - 1) : Holds(l, prev, es, j)
      /\ k <= Len(es) => ~Holds(l, prev, es, k)
  BY FirstNewExists
<1>2. \A j \in 1..(k - 1) : prev + j <= Len(l) /\ l[prev + j].term = es[j].term
  BY <1>1 DEF Holds
<1>3. k <= Len(es) /\ prev + k <= Len(l) => l[prev + k].term # es[k].term
  BY <1>1 DEF Holds
<1>4. k > Len(es) => r = l
  BY DEF AppendEntries
<1>5. k <= Len(es) => r = SubSeq(l, 1, prev + k - 1) \o SubSeq(es, k, Len(es))
  <2> HAVE k <= Len(es)
  <2>1. ~(k > Len(es))
    BY <1>0, <1>1
  <2> QED BY <2>1, Zenon DEF AppendEntries
<1> HIDE DEF k, r
<1>6. prev + k - 1 <= Len(l)
  <2>1. CASE k = 1
    BY <1>0, <2>1
  <2>2. CASE k > 1
    <3>1. k - 1 \in 1..(k - 1)
      BY <1>0, <1>1, <2>2
    <3> QED BY <1>0, <1>1, <1>2, <3>1
  <2> QED BY <1>0, <1>1, <2>1, <2>2
<1>7. ASSUME k <= Len(es)
      PROVE  /\ Len(r) = prev + Len(es)
             /\ \A j \in 1..(prev + k - 1) : r[j] = l[j]
             /\ \A j \in k..Len(es) : r[prev + j] = es[j]
  <2> DEFINE kept == SubSeq(l, 1, prev + k - 1)
             new == SubSeq(es, k, Len(es))
  <2>1. /\ kept \in Seq(S) /\ Len(kept) = prev + k - 1
        /\ \A j \in 1..(prev + k - 1) : kept[j] = l[j]
    <3>1. \A j \in 1..(prev + k - 1) : l[j] \in S
      BY <1>0, <1>1, <1>6, ElementOfSeq
    <3> QED BY <3>1, <1>0, <1>1, SubSeqProperties
  <2>2. /\ new \in Seq(S) /\ Len(new) = Len(es) - k + 1
        /\ \A j \in 1..(Len(es) - k + 1) : new[j] = es[k + j - 1]
    <3>1. \A j \in k..Len(es) : es[j] \in S
      BY <1>0, <1>1, ElementOfSeq
    <3> QED BY <3>1, <1>0, <1>1, <1>7, SubSeqProperties
  <2>3. r = kept \o new
    BY <1>5, <1>7
  <2> HIDE DEF kept, new
  <2>4. /\ Len(r) = Len(kept) + Len(new)
        /\ \A j \in 1..(Len(kept) + Len(new)) :
              r[j] = IF j <= Len(kept) THEN kept[j] ELSE new[j - Len(kept)]
    BY <2>1, <2>2, <2>3, ConcatProperties
  <2>5. \A j \in 1..(prev + k - 1) : r[j] = l[j]
    BY <1>0, <1>1, <1>7, <2>1, <2>2, <2>4
  <2>6. ASSUME NEW j \in k..Len(es)
        PROVE  r[prev + j] = es[j]
    <3>0. /\ prev + j \in 1..(Len(kept) + Len(new)) /\ ~(prev + j <= Len(kept))
          /\ prev + j - Len(kept) = j - k + 1
      BY <1>0, <1>1, <1>7, <2>1, <2>2
    <3>1. r[prev + j] = new[j - k + 1]
      BY <2>4, <3>0
    <3>2. new[j - k + 1] = es[k + (j - k + 1) - 1]
      BY <1>0, <1>1, <1>7, <2>2
    <3> QED BY <1>0, <1>1, <3>1, <3>2
  <2> QED BY <1>0, <1>1, <1>7, <2>1, <2>2, <2>4, <2>5, <2>6
<1>8. /\ \A j \in 1..(k - 1) : l[prev + j].term = es[j].term
  BY <1>2
<1> QED
  <2>1. k \in 1..(Len(es) + 1) /\ Appended(l, prev, es, k, r)
    BY <1>1, <1>3, <1>4, <1>6, <1>7, <1>8 DEF Appended
  <2> QED BY <2>1 DEF k, r

-----------------------------------------------------------------------------
(***************************************************************************)
(* Type correctness.                                                       *)
(***************************************************************************)

\* The four fields of a node that the state changes of node.go assign.
NodeState == [state : {Follower, Candidate, Leader}, term : Terms,
              votedFor : Server \cup {Nil}, leaderID : Server \cup {Nil}]

LEMMA StepDownType ==
    ASSUME TypeOK, NEW n \in Server, NEW t \in Terms
    PROVE  StepDown(n, t) \in NodeState
BY DEF TypeOK, StepDown, BecomeFollower, NodeFields, NodeState, Terms

LEMMA FollowLeaderType ==
    ASSUME TypeOK, NEW m \in AppendEntriesRequest
    PROVE  FollowLeader(m) \in NodeState
<1>1. m.to \in Server /\ m.from \in Server /\ m.term \in Terms
  BY DEF AppendEntriesRequest
<1>2. StepDown(m.to, m.term) \in NodeState
  BY <1>1, StepDownType
<1> HIDE DEF TypeOK
<1>3. [StepDown(m.to, m.term) EXCEPT !.leaderID = m.from] \in NodeState
  BY <1>1, <1>2 DEF NodeState
<1>4. BecomeFollower(m.term, m.from) \in NodeState
  BY <1>1 DEF NodeState, BecomeFollower
<1> QED
  BY <1>3, <1>4 DEF FollowLeader

\* A step that sets the fields of one node keeps the types of all.
LEMMA SetNodeType ==
    ASSUME TypeOK, NEW n \in Server, NEW s \in NodeState, SetNode(n, s)
    PROVE  /\ state' \in [Server -> {Follower, Candidate, Leader}]
           /\ currentTerm' \in [Server -> Terms]
           /\ votedFor' \in [Server -> Server \cup {Nil}]
           /\ leaderID' \in [Server -> Server \cup {Nil}]
BY DEF TypeOK, SetNode, NodeState

LEMMA LastTermType ==
    ASSUME NEW l \in Seq(Entry), NEW i \in Nat
    PROVE  LastTerm(l) \in Terms /\ Term(l, i) \in Terms /\ LastIndex(l) \in Nat
<1>1. Len(l) \in Nat /\ (l # << >> => Len(l) \in 1..Len(l))
  BY LenProperties, EmptySeq
<1>2. \A j \in 1..Len(l) : l[j] \in Entry
  BY ElementOfSeq
<1>3. \A j \in 1..Len(l) : l[j].term \in Terms
  BY <1>2 DEF Entry
<1>4. 0 \in Terms
  BY DEF Terms
<1> QED
  BY <1>1, <1>3, <1>4 DEF LastTerm, Term, LastIndex

-----------------------------------------------------------------------------
LEMMA TypeInit == Init => TypeOK
BY EmptySeq DEF Init, TypeOK, Terms

LEMMA TypeStartElection ==
    ASSUME TypeOK, NEW n \in Server, StartElection(n)
    PROVE  TypeOK'
<1> DEFINE s == [state |-> Candidate, term |-> currentTerm[n] + 1, votedFor |-> n, leaderID |-> Nil]
<1>1. s \in NodeState
  BY DEF TypeOK, NodeState, Terms
<1>2. SetNode(n, s)
  BY DEF StartElection
<1> HIDE DEF s
<1>3. /\ state' \in [Server -> {Follower, Candidate, Leader}]
      /\ currentTerm' \in [Server -> Terms]
      /\ votedFor' \in [Server -> Server \cup {Nil}]
      /\ leaderID' \in [Server -> Server \cup {Nil}]
  BY <1>1, <1>2, SetNodeType
<1>4. LastTerm(log[n]) \in Terms /\ LastIndex(log[n]) \in Nat
  BY LastTermType DEF TypeOK
<1>5. voteReqs' \subseteq VoteRequest
  <2> DEFINE req(p) == [from |-> n, to |-> p, term |-> currentTerm[n] + 1,
                        lastLogIndex |-> LastIndex(log[n]), lastLogTerm |-> LastTerm(log[n])]
  <2>1. \A p \in Peers(n) : req(p) \in VoteRequest
    <3>1. currentTerm[n] + 1 \in Terms
      BY DEF TypeOK, Terms
    <3> QED BY <1>4, <3>1 DEF VoteRequest, Peers
  <2>2. voteReqs' = voteReqs \cup {req(p) : p \in Peers(n)}
    BY DEF StartElection
  <2> HIDE DEF req
  <2> QED BY <2>1, <2>2 DEF TypeOK
<1>6. /\ electionTerm' \in [Server -> Terms]
      /\ votes' \in [Server -> SUBSET Server]
      /\ elections' \in Nat
  BY DEF TypeOK, StartElection, Terms
<1> QED
  BY <1>3, <1>5, <1>6 DEF TypeOK, StartElection, logVars, leaderVars

LEMMA TypeHandleVoteRequest ==
    ASSUME TypeOK, NEW m \in VoteRequest, HandleVoteRequest(m)
    PROVE  TypeOK'
<1> DEFINE s == StepDown(m.to, m.term)
           granted == /\ m.term >= s.term
                      /\ CanVote(s.votedFor, m.from)
                      /\ LogUpToDate(m, log[m.to])
           t == IF granted THEN [s EXCEPT !.votedFor = m.from, !.term = m.term] ELSE s
           r == [from |-> m.to, to |-> m.from, reqTerm |-> m.term,
                 term |-> VoteReplyTerm(m.to, m, granted), voteGranted |-> granted]
<1>1. m.from \in Server /\ m.to \in Server /\ m.term \in Terms
  BY DEF VoteRequest
<1>2. s \in NodeState
  BY <1>1, StepDownType
<1>3. SetNode(m.to, t) /\ voteResps' \subseteq voteResps \cup {r} /\ voteReqs' \subseteq voteReqs
  BY DEF HandleVoteRequest, CastVote, VoteGranted
<1>4. granted \in BOOLEAN
  BY DEF CanVote
<1>5. VoteReplyTerm(m.to, m, granted) \in Terms
  BY <1>1 DEF VoteReplyTerm, TypeOK
<1>6. r \in VoteResponse
  <2> HIDE DEF granted
  <2> QED BY <1>1, <1>4, <1>5 DEF VoteResponse
<1> HIDE DEF s, granted, r
<1>7. t \in NodeState
  BY <1>1, <1>2 DEF NodeState
<1> HIDE DEF t
<1>8. /\ state' \in [Server -> {Follower, Candidate, Leader}]
      /\ currentTerm' \in [Server -> Terms]
      /\ votedFor' \in [Server -> Server \cup {Nil}]
      /\ leaderID' \in [Server -> Server \cup {Nil}]
  BY <1>1, <1>3, <1>7, SetNodeType
<1> QED
  BY <1>3, <1>6, <1>8 DEF TypeOK, HandleVoteRequest, logVars, leaderVars, electionVars, historyVars

LEMMA TypeHandleVoteResponse ==
    ASSUME TypeOK, NEW r \in VoteResponse, HandleVoteResponse(r)
    PROVE  TypeOK'
<1>1. r.from \in Server /\ r.to \in Server /\ r.term \in Terms
  BY DEF VoteResponse
<1>2. /\ state' \in [Server -> {Follower, Candidate, Leader}]
      /\ currentTerm' \in [Server -> Terms]
      /\ votedFor' \in [Server -> Server \cup {Nil}]
      /\ leaderID' \in [Server -> Server \cup {Nil}]
  <2>1. CASE SetNode(r.to, BecomeFollower(r.term, Nil))
    <3>1. BecomeFollower(r.term, Nil) \in NodeState
      BY <1>1 DEF NodeState, BecomeFollower
    <3> QED BY <1>1, <2>1, <3>1, SetNodeType
  <2>2. CASE UNCHANGED nodeVars
    BY <2>2 DEF TypeOK, nodeVars
  <2> QED BY <2>1, <2>2 DEF HandleVoteResponse
<1>3. votes' \in [Server -> SUBSET Server]
  <2>1. votes' = votes \/ votes' = [votes EXCEPT ![r.to] = @ \cup {r.from}]
    BY Zenon DEF HandleVoteResponse
  <2>2. votes \in [Server -> SUBSET Server]
    BY DEF TypeOK
  <2>3. votes[r.to] \cup {r.from} \in SUBSET Server
    BY <1>1, <2>2
  <2> QED BY <1>1, <2>1, <2>2, <2>3
<1>4. voteResps' \subseteq voteResps
  BY DEF HandleVoteResponse
<1> QED
  BY <1>2, <1>3, <1>4 DEF TypeOK, HandleVoteResponse, logVars, leaderVars, historyVars

LEMMA TypeFinishElection ==
    ASSUME TypeOK, NEW n \in Server, FinishElection(n)
    PROVE  TypeOK'
<1> DEFINE wins == state[n] = Candidate /\ currentTerm[n] = electionTerm[n] /\ Wins(n)
<1>1. /\ electionTerm' \in [Server -> Terms]
      /\ votes' \in [Server -> SUBSET Server]
      /\ voteResps' \subseteq voteResps
  BY DEF TypeOK, FinishElection, Terms
<1>2. InitialNextIndex(n) \in Nat \ {0}
  BY LenProperties DEF TypeOK, InitialNextIndex, LastIndex
<1>3. /\ state' \in [Server -> {Follower, Candidate, Leader}]
      /\ currentTerm' \in [Server -> Terms]
      /\ votedFor' \in [Server -> Server \cup {Nil}]
      /\ leaderID' \in [Server -> Server \cup {Nil}]
      /\ nextIndex' \in [Server -> [Server -> Nat \ {0}]]
      /\ matchIndex' \in [Server -> [Server -> Nat]]
      /\ elected' \subseteq Server \X Terms
  <2>1. CASE wins
    <3> DEFINE s == [NodeFields(n) EXCEPT !.state = Leader, !.leaderID = n]
    <3>1. s \in NodeState
      BY DEF TypeOK, NodeFields, NodeState
    <3>2. /\ SetNode(n, s)
          /\ nextIndex' = [nextIndex EXCEPT ![n] = [p \in Server |-> InitialNextIndex(n)]]
          /\ matchIndex' = [matchIndex EXCEPT ![n] = [p \in Server |-> 0]]
          /\ elected' = elected \cup {<<n, currentTerm[n]>>}
      BY <2>1 DEF FinishElection
    <3> HIDE DEF s
    <3>3. /\ nextIndex' \in [Server -> [Server -> Nat \ {0}]]
          /\ matchIndex' \in [Server -> [Server -> Nat]]
          /\ elected' \subseteq Server \X Terms
      BY <1>2, <3>2 DEF TypeOK
    <3> QED BY <3>1, <3>2, <3>3, SetNodeType
  <2>2. CASE ~wins
    BY <2>2 DEF TypeOK, FinishElection, nodeVars, leaderVars
  <2> QED BY <2>1, <2>2
<1> QED
  BY <1>1, <1>3 DEF TypeOK, FinishElection, logVars

LEMMA TypeHandleStroke ==
    ASSUME TypeOK, NEW n \in Server, NEW s \in Stroke, HandleStroke(n, s)
    PROVE  TypeOK'
<1>1. [term |-> currentTerm[n], stroke |-> s] \in Entry
  BY DEF TypeOK, Entry
<1>2. Append(log[n], [term |-> currentTerm[n], stroke |-> s]) \in Seq(Entry)
  BY <1>1, AppendProperties DEF TypeOK
<1>3. log' \in [Server -> Seq(Entry)]
  BY <1>2 DEF TypeOK, HandleStroke
<1> QED
  BY <1>3 DEF TypeOK, HandleStroke, nodeVars, leaderVars, electionVars, netVars, historyVars

LEMMA TypeSendAppendEntries ==
    ASSUME TypeOK, NEW n \in Server, NEW p \in Server, SendAppendEntries(n, p)
    PROVE  TypeOK'
<1> DEFINE prev == nextIndex[n][p] - 1
           m == [from |-> n, to |-> p, term |-> currentTerm[n],
                 prevLogIndex |-> prev, prevLogTerm |-> Term(log[n], prev),
                 entries |-> EntriesToSend(log[n], nextIndex[n][p]),
                 leaderCommit |-> commitIndex[n]]
<1>1. nextIndex[n][p] \in Nat \ {0} /\ prev \in Nat
  BY DEF TypeOK
<1>2. /\ log[n] \in Seq(Entry)
      /\ currentTerm[n] \in Terms
      /\ commitIndex[n] \in Nat
  BY DEF TypeOK
<1>3. EntriesToSend(log[n], nextIndex[n][p]) \in Seq(Entry)
  BY <1>1, <1>2, GetFromType DEF EntriesToSend
<1>4. Term(log[n], prev) \in Terms
  <2> HIDE DEF prev
  <2> QED BY <1>1, <1>2, LastTermType
<1>5. appendReqs' = appendReqs \cup {m}
  BY DEF SendAppendEntries, RequestTo
<1>6. m \in AppendEntriesRequest
  <2> HIDE DEF prev
  <2> QED BY <1>1, <1>2, <1>3, <1>4 DEF AppendEntriesRequest
<1> HIDE DEF m
<1> QED
  BY <1>5, <1>6 DEF TypeOK, SendAppendEntries, nodeVars, logVars, leaderVars, electionVars, historyVars

LEMMA ReplyType ==
    ASSUME TypeOK, NEW m \in AppendEntriesRequest,
           NEW t \in Terms, NEW ok \in BOOLEAN, NEW c \in Nat, Reply(m, t, ok, c)
    PROVE  appendResps' \subseteq AppendEntriesResponse
<1> DEFINE last == IF m.entries = << >> THEN 0 ELSE m.prevLogIndex + Len(m.entries)
           r == [from |-> m.to, to |-> m.from, reqTerm |-> m.term, lastSent |-> last,
                 term |-> t, success |-> ok, conflictIndex |-> c]
<1>1. /\ m.from \in Server /\ m.to \in Server /\ m.term \in Terms
      /\ m.prevLogIndex \in Nat /\ m.entries \in Seq(Entry)
  BY DEF AppendEntriesRequest
<1>2. last \in Nat
  BY <1>1, LenProperties
<1>3. r \in AppendEntriesResponse
  <2> HIDE DEF last
  <2> QED BY <1>1, <1>2 DEF AppendEntriesResponse
<1>4. appendResps' = appendResps \cup {r} \/ appendResps' = appendResps
  BY DEF Reply
<1> HIDE DEF r
<1> QED
  BY <1>3, <1>4 DEF TypeOK

LEMMA TypeHandleAppendEntries ==
    ASSUME TypeOK, NEW m \in AppendEntriesRequest, HandleAppendEntries(m)
    PROVE  TypeOK'
<1> DEFINE n == m.to
<1>1. /\ n \in Server /\ m.from \in Server /\ m.term \in Terms
      /\ m.prevLogIndex \in Nat /\ m.entries \in Seq(Entry) /\ m.leaderCommit \in Nat
  BY DEF AppendEntriesRequest
<1>2. log[n] \in Seq(Entry) /\ Len(log[n]) \in Nat /\ currentTerm[n] \in Terms
  BY <1>1, LenProperties DEF TypeOK
<1>3. UNCHANGED <<nextIndex, matchIndex, electionTerm, votes, voteReqs, voteResps, appendReqs,
                  elections, elected>>
  BY DEF HandleAppendEntries, leaderVars, electionVars, historyVars
<1>4. ASSUME SetNode(n, FollowLeader(m))
      PROVE  /\ state' \in [Server -> {Follower, Candidate, Leader}]
             /\ currentTerm' \in [Server -> Terms]
             /\ votedFor' \in [Server -> Server \cup {Nil}]
             /\ leaderID' \in [Server -> Server \cup {Nil}]
  BY <1>1, <1>4, FollowLeaderType, SetNodeType
<1>5. CASE RejectStale(m)
  <2>1. appendResps' \subseteq AppendEntriesResponse
    BY <1>2, <1>5, ReplyType DEF RejectStale
  <2> QED BY <1>3, <1>5, <2>1 DEF TypeOK, RejectStale, nodeVars, logVars
<1>6. CASE RejectMismatch(m)
  <2> DEFINE c == ConflictIndex(m, log[n])
  <2>0. Reply(m, currentTerm[n], FALSE, c)
    BY <1>6, Zenon DEF RejectMismatch
  <2>1. c \in Nat
    BY <1>1, <1>2 DEF ConflictIndex
  <2>2. appendResps' \subseteq AppendEntriesResponse
    <3> HIDE DEF c
    <3> QED BY <1>2, <2>0, <2>1, ReplyType
  <2>3. SetNode(n, FollowLeader(m)) /\ UNCHANGED logVars
    BY <1>6 DEF RejectMismatch
  <2> QED BY <1>3, <1>4, <2>2, <2>3 DEF TypeOK, logVars
<1>7. CASE PanicOnCommitted(m)
  <2>1. SetNode(n, FollowLeader(m)) /\ UNCHANGED <<log, commitIndex, appendResps>>
    BY <1>7 DEF PanicOnCommitted, logVars
  <2> QED BY <1>3, <1>4, <2>1 DEF TypeOK
<1>8. CASE AcceptEntries(m)
  <2> DEFINE l == AppendEntries(log[n], m.prevLogIndex, m.entries)
             c == FollowerCommit(l, commitIndex[n], m.leaderCommit)
  <2>1. SetNode(n, FollowLeader(m)) /\ Reply(m, m.term, TRUE, 0) /\ PrevMatches(log[n], m)
    BY <1>8 DEF AcceptEntries
  <2>2. log' = [log EXCEPT ![n] = l] /\ commitIndex' = [commitIndex EXCEPT ![n] = c]
    BY <1>8 DEF AcceptEntries
  <2>3. m.prevLogIndex <= Len(log[n])
    BY <1>1, <1>2, <2>1 DEF PrevMatches
  <2>4. l \in Seq(Entry)
    BY <1>1, <1>2, <2>3, AppendEntriesType
  <2> HIDE DEF l
  <2>5. c \in Nat
    BY <1>1, <2>4, LenProperties DEF TypeOK, FollowerCommit, LastIndex
  <2> HIDE DEF c
  <2>6. appendResps' \subseteq AppendEntriesResponse
    BY <1>1, <2>1, ReplyType
  <2>7. log' \in [Server -> Seq(Entry)] /\ commitIndex' \in [Server -> Nat]
    BY <1>1, <2>2, <2>4, <2>5 DEF TypeOK
  <2> QED BY <1>3, <1>4, <2>1, <2>6, <2>7 DEF TypeOK
<1> QED
  BY <1>5, <1>6, <1>7, <1>8 DEF HandleAppendEntries

LEMMA TypeHandleAppendResponse ==
    ASSUME TypeOK, NEW r \in AppendEntriesResponse, HandleAppendResponse(r)
    PROVE  TypeOK'
<1> DEFINE n == r.to
           p == r.from
           mi == IF r.lastSent > 0 THEN [matchIndex[n] EXCEPT ![p] = r.lastSent] ELSE matchIndex[n]
<1>1. /\ n \in Server /\ p \in Server /\ r.term \in Terms
      /\ r.lastSent \in Nat /\ r.conflictIndex \in Nat
  BY DEF AppendEntriesResponse
<1>2. appendResps' \subseteq appendResps
  BY DEF HandleAppendResponse
<1>3. UNCHANGED <<log, electionTerm, votes, voteReqs, voteResps, appendReqs, elections, elected>>
  BY DEF HandleAppendResponse, electionVars, historyVars
<1>4. CASE SetNode(n, BecomeFollower(r.term, Nil)) /\ UNCHANGED <<commitIndex, leaderVars>>
  <2>1. BecomeFollower(r.term, Nil) \in NodeState
    BY <1>1 DEF NodeState, BecomeFollower
  <2>2. /\ state' \in [Server -> {Follower, Candidate, Leader}]
        /\ currentTerm' \in [Server -> Terms]
        /\ votedFor' \in [Server -> Server \cup {Nil}]
        /\ leaderID' \in [Server -> Server \cup {Nil}]
    BY <1>1, <1>4, <2>1, SetNodeType
  <2> QED BY <1>2, <1>3, <1>4, <2>2 DEF TypeOK, leaderVars
<1>5. CASE /\ matchIndex' = [matchIndex EXCEPT ![n] = mi]
           /\ nextIndex' = IF r.lastSent > 0
                           THEN [nextIndex EXCEPT ![n][p] = r.lastSent + 1]
                           ELSE nextIndex
           /\ AdvanceCommitIndex(n, mi)
           /\ UNCHANGED nodeVars
  <2>1. mi \in [Server -> Nat]
    BY <1>1 DEF TypeOK
  <2>2. nextIndex' \in [Server -> [Server -> Nat \ {0}]]
    <3>1. nextIndex \in [Server -> [Server -> Nat \ {0}]] /\ r.lastSent + 1 \in Nat \ {0}
      BY <1>1 DEF TypeOK
    <3>2. nextIndex' = nextIndex \/ nextIndex' = [nextIndex EXCEPT ![n][p] = r.lastSent + 1]
      BY <1>5
    <3> QED BY <1>1, <3>1, <3>2
  <2> HIDE DEF mi
  <2>3. matchIndex' \in [Server -> [Server -> Nat]]
    BY <1>1, <1>5, <2>1 DEF TypeOK
  <2>4. commitIndex[n] \in Nat /\ LastIndex(log[n]) \in Nat
    BY <1>1, LenProperties DEF TypeOK, LastIndex
  <2>5. Committable(n, mi) \subseteq Nat
    BY <2>4 DEF Committable
  <2>6. commitIndex' \in [Server -> Nat]
    <3>1. PICK i \in {commitIndex[n]} \cup Committable(n, mi) :
                 commitIndex' = [commitIndex EXCEPT ![n] = i]
      BY <1>5 DEF AdvanceCommitIndex
    <3>2. i \in Nat
      BY <2>4, <2>5
    <3> QED BY <1>1, <3>1, <3>2 DEF TypeOK
  <2> QED BY <1>2, <1>3, <1>5, <2>2, <2>3, <2>6 DEF TypeOK, nodeVars
<1>6. CASE /\ nextIndex' = [nextIndex EXCEPT ![n][p] =
                               IF r.conflictIndex > 0 THEN r.conflictIndex
                               ELSE IF @ > 1 THEN @ - 1 ELSE @]
           /\ UNCHANGED <<nodeVars, commitIndex, matchIndex>>
  <2> DEFINE next == IF r.conflictIndex > 0 THEN r.conflictIndex
                     ELSE IF nextIndex[n][p] > 1 THEN nextIndex[n][p] - 1 ELSE nextIndex[n][p]
  <2>1. nextIndex' \in [Server -> [Server -> Nat \ {0}]]
    <3>1. nextIndex \in [Server -> [Server -> Nat \ {0}]]
      BY DEF TypeOK
    <3>2. nextIndex[n][p] \in Nat \ {0}
      BY <1>1, <3>1
    <3>3. next \in Nat \ {0}
      BY <1>1, <3>2
    <3>4. nextIndex' = [nextIndex EXCEPT ![n] = [@ EXCEPT ![p] = next]]
      BY <1>6
    <3> HIDE DEF next
    <3> QED BY <1>1, <3>1, <3>3, <3>4
  <2> QED BY <1>2, <1>3, <1>6, <2>1 DEF TypeOK, nodeVars
<1> QED
  BY <1>4, <1>5, <1>6 DEF HandleAppendResponse

-----------------------------------------------------------------------------
LEMMA TypeNext ==
    ASSUME TypeOK, [Next]_vars
    PROVE  TypeOK'
<1>0. /\ voteReqs \subseteq VoteRequest /\ voteResps \subseteq VoteResponse
      /\ appendReqs \subseteq AppendEntriesRequest /\ appendResps \subseteq AppendEntriesResponse
  BY DEF TypeOK
<1>1. ASSUME NEW n \in Server, StartElection(n) \/ FinishElection(n)
      PROVE  TypeOK'
  BY <1>1, TypeStartElection, TypeFinishElection
<1>2. ASSUME NEW m \in voteReqs, HandleVoteRequest(m)
      PROVE  TypeOK'
  BY <1>0, <1>2, TypeHandleVoteRequest
<1>3. ASSUME NEW r \in voteResps, HandleVoteResponse(r)
      PROVE  TypeOK'
  BY <1>0, <1>3, TypeHandleVoteResponse
<1>4. ASSUME NEW n \in Server, NEW s \in Stroke, HandleStroke(n, s)
      PROVE  TypeOK'
  BY <1>4, TypeHandleStroke
<1>5. ASSUME NEW n \in Server, NEW p \in Server, SendAppendEntries(n, p)
      PROVE  TypeOK'
  BY <1>5, TypeSendAppendEntries
<1>6. ASSUME NEW m \in appendReqs, HandleAppendEntries(m)
      PROVE  TypeOK'
  BY <1>0, <1>6, TypeHandleAppendEntries
<1>7. ASSUME NEW r \in appendResps, HandleAppendResponse(r)
      PROVE  TypeOK'
  BY <1>0, <1>7, TypeHandleAppendResponse
<1>8. ASSUME NEW m, LoseRequest(m) \/ LoseResponse(m)
      PROVE  TypeOK'
  BY <1>8 DEF TypeOK, LoseRequest, LoseResponse, nodeVars, logVars, leaderVars, electionVars, historyVars
<1>9. CASE UNCHANGED vars
  BY <1>9 DEF TypeOK, vars, nodeVars, logVars, leaderVars, electionVars, netVars, historyVars
<1> QED
  BY <1>1, <1>2, <1>3, <1>4, <1>5, <1>6, <1>7, <1>8, <1>9 DEF Next

\* Every reachable state is well typed; in particular nextIndex stays positive
\* whatever answers arrive, so that no request carries prevLogIndex = -1.
THEOREM TypeCorrect == Spec => []TypeOK
BY TypeInit, TypeNext, PTL DEF Spec

-----------------------------------------------------------------------------
(***************************************************************************)
(* Elections.                                                              *)
(***************************************************************************)

\* v's vote for c in term t is on its way to c, or has been counted there.
Voted(v, c, t) ==
    \/ \E r \in voteResps : r.from = v /\ r.to = c /\ r.reqTerm = t /\ r.voteGranted
    \/ v \in votes[c] /\ electionTerm[c] = t

\* The shape of what is in flight, and of a running election.
CallsInv ==
    /\ \A m \in voteReqs : m.from # m.to /\ m.term # 0
    /\ \A r \in voteResps : r.reqTerm # 0 /\ electionTerm[r.to] = r.reqTerm
    /\ \A m \in appendReqs : m.from # m.to /\ <<m.from, m.term>> \in elected

\* A leader has been elected in its term.
LeaderInv == \A n \in Server : state[n] = Leader => <<n, currentTerm[n]>> \in elected

\* A replica that stands or leads holds its own vote.
OwnVoteInv == \A n \in Server : state[n] # Follower => votedFor[n] = n

\* A vote for another replica is held as long as its term lasts ...
VoteHeldInv ==
    \A v, c \in Server : \A t \in Terms : Voted(v, c, t) =>
        /\ v # c
        /\ currentTerm[v] >= t
        /\ currentTerm[v] = t => votedFor[v] = c /\ state[v] = Follower

\* ... and is the only one its giver sends in that term.
VoteUniqueInv ==
    \A v, c, d \in Server : \A t \in Terms : Voted(v, c, t) /\ Voted(v, d, t) => c = d

\* q can take no part in electing anyone but l in term t.
Pledged(q, l, t) ==
    /\ currentTerm[q] >= t
    /\ currentTerm[q] = t => votedFor[q] = l /\ (q = l \/ state[q] = Follower)
    /\ \A c \in Server : Voted(q, c, t) => c = l

\* A majority is pledged to every leader that was ever elected.
QuorumInv ==
    \A e \in elected : \E Q \in SUBSET Server :
        IsMajority(Q) /\ \A q \in Q : Pledged(q, e[1], e[2])

ElectionInv ==
    /\ CallsInv /\ LeaderInv /\ OwnVoteInv /\ VoteHeldInv /\ VoteUniqueInv
    /\ QuorumInv /\ ElectionSafety

-----------------------------------------------------------------------------
(***************************************************************************)
(* What one step may do to a replica's term and vote.                      *)
(***************************************************************************)

\* Terms never go back; within a term, a follower that has voted keeps its vote
\* and its state, and so does the leader of the term keep its vote.
KeepsVote(v) ==
    /\ currentTerm'[v] >= currentTerm[v]
    /\ currentTerm'[v] = currentTerm[v] /\ votedFor[v] # Nil =>
        /\ state[v] = Follower => votedFor'[v] = votedFor[v] /\ state'[v] = Follower
        /\ <<v, currentTerm[v]>> \in elected => votedFor'[v] = votedFor[v]

\* Besides, whoever stands or leads holds its own vote, and whoever leads has
\* just been elected or led this term before.
NodeStep(v) ==
    /\ KeepsVote(v)
    /\ state'[v] # Follower => votedFor'[v] = v
    /\ state'[v] = Leader =>
        \/ state[v] = Leader /\ currentTerm'[v] = currentTerm[v]
        \/ <<v, currentTerm'[v]>> \in elected'

LEMMA SetNodeEffect ==
    ASSUME TypeOK, NEW n \in Server, NEW s, SetNode(n, s)
    PROVE  /\ state'[n] = s.state /\ currentTerm'[n] = s.term /\ votedFor'[n] = s.votedFor
           /\ \A v \in Server \ {n} : /\ state'[v] = state[v]
                                      /\ currentTerm'[v] = currentTerm[v]
                                      /\ votedFor'[v] = votedFor[v]
BY DEF TypeOK, SetNode

\* Only the replica whose fields are set needs a look.
LEMMA OneNodeStep ==
    ASSUME TypeOK, OwnVoteInv, NEW n \in Server, NEW s, SetNode(n, s),
           NodeStep(n)
    PROVE  \A v \in Server : NodeStep(v)
<1>1. ASSUME NEW v \in Server \ {n}
      PROVE  NodeStep(v)
  <2>1. currentTerm[v] \in Nat
    BY DEF TypeOK, Terms
  <2> QED BY <2>1, SetNodeEffect DEF NodeStep, Follower, Leader, KeepsVote, OwnVoteInv
<1> QED
  BY <1>1

LEMMA UnchangedNodeStep ==
    ASSUME TypeOK, OwnVoteInv, UNCHANGED nodeVars
    PROVE  \A v \in Server : NodeStep(v)
BY DEF TypeOK, Terms, OwnVoteInv, NodeStep, KeepsVote, nodeVars

\* stepDown, and the replies that carry a higher term.
LEMMA HigherTermStep ==
    ASSUME TypeOK, OwnVoteInv, NEW n \in Server, NEW t \in Terms, t > currentTerm[n],
           SetNode(n, BecomeFollower(t, Nil))
    PROVE  \A v \in Server : NodeStep(v)
<1>1. currentTerm'[n] = t /\ state'[n] = Follower
  BY SetNodeEffect DEF BecomeFollower
<1>2. NodeStep(n)
  BY <1>1 DEF NodeStep, Follower, Leader, KeepsVote, TypeOK, Terms
<1> QED
  BY <1>2, OneNodeStep

LEMMA NodeStartElection ==
    ASSUME TypeOK, OwnVoteInv, NEW n \in Server, StartElection(n)
    PROVE  \A v \in Server : NodeStep(v)
<1> DEFINE s == [state |-> Candidate, term |-> currentTerm[n] + 1, votedFor |-> n, leaderID |-> Nil]
<1>1. SetNode(n, s)
  BY DEF StartElection
<1>2. currentTerm'[n] = currentTerm[n] + 1 /\ votedFor'[n] = n /\ state'[n] = Candidate
  BY <1>1, SetNodeEffect
<1>3. NodeStep(n)
  BY <1>2 DEF NodeStep, Candidate, Leader, KeepsVote, TypeOK, Terms
<1> QED
  BY <1>1, <1>3, OneNodeStep

LEMMA NodeHandleVoteRequest ==
    ASSUME TypeOK, CallsInv, OwnVoteInv, NEW m \in VoteRequest, m.from # m.to,
           HandleVoteRequest(m)
    PROVE  \A v \in Server : NodeStep(v)
<1> DEFINE n == m.to
           s == StepDown(n, m.term)
           granted == /\ m.term >= s.term
                      /\ CanVote(s.votedFor, m.from)
                      /\ LogUpToDate(m, log[n])
           t == IF granted THEN [s EXCEPT !.votedFor = m.from, !.term = m.term] ELSE s
<1>1. n \in Server /\ m.from \in Server /\ m.term \in Nat /\ currentTerm[n] \in Nat
  BY DEF VoteRequest, TypeOK, Terms
<1>2. SetNode(n, t)
  BY DEF HandleVoteRequest, CastVote, VoteGranted
<1>3. NodeStep(n)
  <2>1. CASE m.term > currentTerm[n]
    <3>1. s = BecomeFollower(m.term, Nil)
      BY <2>1 DEF StepDown
    <3>2. t.state = Follower /\ t.term = m.term
      BY <3>1 DEF BecomeFollower
    <3>3. state'[n] = Follower /\ currentTerm'[n] = m.term
      BY <1>1, <1>2, <3>2, SetNodeEffect
    <3> QED BY <1>1, <2>1, <3>3 DEF NodeStep, Follower, Leader, KeepsVote
  <2>2. CASE ~(m.term > currentTerm[n])
    <3>1. s = NodeFields(n)
      BY <2>2 DEF StepDown
    <3>2. s.state = state[n] /\ s.term = currentTerm[n] /\ s.votedFor = votedFor[n]
      BY <3>1 DEF NodeFields
    <3>3. CASE granted
      <4>1. m.term = currentTerm[n] /\ votedFor[n] \in {Nil, m.from}
        BY <1>1, <2>2, <3>2, <3>3 DEF CanVote
      <4>2. t.state = state[n] /\ t.term = currentTerm[n] /\ t.votedFor = m.from
        BY <3>1, <3>3, <4>1 DEF NodeFields
      <4> HIDE DEF t, granted, s
      <4>3. state'[n] = state[n] /\ currentTerm'[n] = currentTerm[n] /\ votedFor'[n] = m.from
        BY <1>1, <1>2, <4>2, SetNodeEffect
      <4>4. state[n] # Follower => votedFor[n] = n /\ n # Nil
        BY <1>1, RaftAssumption DEF OwnVoteInv
      <4>5. state[n] = Follower
        BY <4>1, <4>4
      <4> QED BY <1>1, <4>1, <4>3, <4>5 DEF NodeStep, Follower, Leader, KeepsVote
    <3>4. CASE ~granted
      <4>1. t.state = state[n] /\ t.term = currentTerm[n] /\ t.votedFor = votedFor[n]
        BY <3>2, <3>4
      <4> HIDE DEF t, granted, s
      <4>2. /\ state'[n] = state[n] /\ currentTerm'[n] = currentTerm[n]
            /\ votedFor'[n] = votedFor[n]
        BY <1>1, <1>2, <4>1, SetNodeEffect
      <4> QED BY <1>1, <4>2 DEF NodeStep, Follower, Leader, KeepsVote, OwnVoteInv
    <3> QED BY <3>3, <3>4
  <2> QED BY <2>1, <2>2
<1> HIDE DEF t
<1> QED
  BY <1>1, <1>2, <1>3, OneNodeStep

LEMMA NodeFinishElection ==
    ASSUME TypeOK, OwnVoteInv, NEW n \in Server, FinishElection(n)
    PROVE  \A v \in Server : NodeStep(v)
<1> DEFINE s == [NodeFields(n) EXCEPT !.state = Leader, !.leaderID = n]
<1>1. CASE UNCHANGED nodeVars
  BY <1>1, UnchangedNodeStep
<1>2. CASE /\ SetNode(n, s) /\ state[n] = Candidate
           /\ <<n, currentTerm[n]>> \in elected'
  <2>1. s.state = Leader /\ s.term = currentTerm[n] /\ s.votedFor = votedFor[n]
    BY DEF NodeFields
  <2> HIDE DEF s
  <2>2. /\ state'[n] = Leader /\ currentTerm'[n] = currentTerm[n]
        /\ votedFor'[n] = votedFor[n]
    BY <1>2, <2>1, SetNodeEffect
  <2>3. currentTerm[n] \in Nat /\ votedFor[n] = n
    BY <1>2 DEF TypeOK, Terms, OwnVoteInv, Candidate, Follower
  <2>4. NodeStep(n)
    BY <1>2, <2>2, <2>3 DEF NodeStep, KeepsVote, Follower, Candidate, Leader
  <2> QED BY <1>2, <2>4, OneNodeStep
<1> QED
  BY <1>1, <1>2 DEF FinishElection

LEMMA NodeHandleAppendEntries ==
    ASSUME TypeOK, CallsInv, OwnVoteInv, ElectionSafety,
           NEW m \in appendReqs, HandleAppendEntries(m)
    PROVE  \A v \in Server : NodeStep(v)
<1> DEFINE n == m.to
<1>1. /\ n \in Server /\ m.from \in Server /\ m.term \in Nat /\ currentTerm[n] \in Nat
  BY DEF TypeOK, AppendEntriesRequest, Terms
<1>2. CASE UNCHANGED nodeVars
  BY <1>2, UnchangedNodeStep
<1>3. CASE SetNode(n, FollowLeader(m)) /\ m.term >= currentTerm[n]
  <2>1. CASE m.term > currentTerm[n]
    <3>1. FollowLeader(m).state = Follower /\ FollowLeader(m).term = m.term
      BY <2>1 DEF FollowLeader, StepDown, BecomeFollower
    <3>2. state'[n] = Follower /\ currentTerm'[n] = m.term
      BY <1>1, <1>3, <3>1, SetNodeEffect
    <3>3. NodeStep(n)
      BY <1>1, <2>1, <3>2 DEF NodeStep, Follower, Leader, KeepsVote
    <3> QED BY <1>1, <1>3, <3>3, OneNodeStep
  <2>2. CASE m.term = currentTerm[n]
    <3>1. StepDown(n, m.term) = NodeFields(n)
      BY <1>1, <2>2 DEF StepDown
    <3>2. FollowLeader(m).state = Follower /\ FollowLeader(m).term = currentTerm[n]
      BY <2>2, <3>1 DEF FollowLeader, NodeFields, BecomeFollower
    <3>3. state[n] = Follower => FollowLeader(m).votedFor = votedFor[n]
      BY <3>1 DEF FollowLeader, NodeFields
    <3>4. state'[n] = Follower /\ currentTerm'[n] = currentTerm[n]
      BY <1>1, <1>3, <3>2, SetNodeEffect
    <3>5. state[n] = Follower => votedFor'[n] = votedFor[n]
      BY <1>1, <1>3, <3>3, SetNodeEffect
    <3>6. <<n, currentTerm[n]>> \notin elected
      <4>1. m.from # n /\ <<m.from, currentTerm[n]>> \in elected
        BY <2>2 DEF CallsInv
      <4> QED BY <4>1 DEF ElectionSafety
    <3>7. NodeStep(n)
      BY <1>1, <3>4, <3>5, <3>6 DEF NodeStep, Follower, Leader, KeepsVote
    <3> QED BY <1>1, <1>3, <3>7, OneNodeStep
  <2> QED BY <1>1, <1>3, <2>1, <2>2
<1> QED
  BY <1>2, <1>3 DEF HandleAppendEntries, RejectStale, RejectMismatch, PanicOnCommitted, AcceptEntries

\* Every step, on every replica.
LEMMA NodeNext ==
    ASSUME TypeOK, ElectionInv, [Next]_vars
    PROVE  \A v \in Server : NodeStep(v)
<1>0. CallsInv /\ OwnVoteInv /\ ElectionSafety
  BY DEF ElectionInv
<1>1. ASSUME NEW n \in Server, StartElection(n) \/ FinishElection(n)
      PROVE  \A v \in Server : NodeStep(v)
  BY <1>0, <1>1, NodeStartElection, NodeFinishElection
<1>2. ASSUME NEW m \in voteReqs, HandleVoteRequest(m)
      PROVE  \A v \in Server : NodeStep(v)
  <2>1. m \in VoteRequest /\ m.from # m.to
    BY <1>0 DEF TypeOK, CallsInv
  <2> QED BY <1>0, <1>2, <2>1, NodeHandleVoteRequest
<1>3. ASSUME NEW r \in voteResps, HandleVoteResponse(r)
      PROVE  \A v \in Server : NodeStep(v)
  <2>1. r.to \in Server /\ r.term \in Terms
    BY DEF TypeOK, VoteResponse
  <2>2. CASE r.term > currentTerm[r.to] /\ SetNode(r.to, BecomeFollower(r.term, Nil))
    BY <1>0, <2>1, <2>2, HigherTermStep
  <2>3. CASE UNCHANGED nodeVars
    BY <1>0, <2>3, UnchangedNodeStep
  <2> QED BY <1>3, <2>2, <2>3 DEF HandleVoteResponse
<1>4. ASSUME NEW m \in appendReqs, HandleAppendEntries(m)
      PROVE  \A v \in Server : NodeStep(v)
  BY <1>0, <1>4, NodeHandleAppendEntries
<1>5. ASSUME NEW r \in appendResps, HandleAppendResponse(r)
      PROVE  \A v \in Server : NodeStep(v)
  <2>1. r.to \in Server /\ r.term \in Terms
    BY DEF TypeOK, AppendEntriesResponse
  <2>2. CASE r.term > currentTerm[r.to] /\ SetNode(r.to, BecomeFollower(r.term, Nil))
    BY <1>0, <2>1, <2>2, HigherTermStep
  <2>3. CASE UNCHANGED nodeVars
    BY <1>0, <2>3, UnchangedNodeStep
  <2> QED BY <1>5, <2>2, <2>3 DEF HandleAppendResponse
<1>6. CASE UNCHANGED nodeVars
  BY <1>0, <1>6, UnchangedNodeStep
<1> QED
  BY <1>1, <1>2, <1>3, <1>4, <1>5, <1>6
  DEF Next, vars, HandleStroke, SendAppendEntries, LoseRequest, LoseResponse

-----------------------------------------------------------------------------
(***************************************************************************)
(* What one step may do to the votes under way.                            *)
(***************************************************************************)

\* v grants c its vote of term t in this step, for a log that is up to date.
Grants(v, c, t) ==
    /\ v # c
    /\ \E m \in voteReqs : m.to = v /\ m.from = c /\ m.term = t /\ LogUpToDate(m, log[v])
    /\ t >= currentTerm[v]
    /\ currentTerm[v] = t => votedFor[v] \in {Nil, c}
    /\ currentTerm'[v] = t /\ votedFor'[v] = c /\ state'[v] = Follower

\* A vote that is under way after the step was so before, or has just been granted.
VotesStep ==
    \A v, c \in Server : \A t \in Terms : Voted(v, c, t)' => Voted(v, c, t) \/ Grants(v, c, t)

LEMMA UnchangedVotes ==
    ASSUME UNCHANGED <<voteResps, votes, electionTerm>>
    PROVE  VotesStep
BY DEF VotesStep, Voted

LEMMA VotesStartElection ==
    ASSUME TypeOK, CallsInv, NEW n \in Server, StartElection(n)
    PROVE  VotesStep
<1> SUFFICES ASSUME NEW v \in Server, NEW c \in Server, NEW t \in Terms, Voted(v, c, t)'
             PROVE  Voted(v, c, t)
  BY DEF VotesStep
<1>1. voteResps' = voteResps /\ votes' = [votes EXCEPT ![n] = {}]
  BY DEF StartElection
<1>2. c # n => votes'[c] = votes[c] /\ electionTerm'[c] = electionTerm[c]
  BY DEF StartElection, TypeOK
<1>3. votes'[n] = {}
  BY <1>1 DEF TypeOK
<1> QED
  BY <1>1, <1>2, <1>3 DEF Voted

LEMMA VotesHandleVoteRequest ==
    ASSUME TypeOK, CallsInv, OwnVoteInv, NEW m \in voteReqs, HandleVoteRequest(m)
    PROVE  VotesStep
<1> DEFINE n == m.to
           s == StepDown(n, m.term)
           granted == /\ m.term >= s.term
                      /\ CanVote(s.votedFor, m.from)
                      /\ LogUpToDate(m, log[n])
           t == IF granted THEN [s EXCEPT !.votedFor = m.from, !.term = m.term] ELSE s
           r == [from |-> n, to |-> m.from, reqTerm |-> m.term,
                 term |-> VoteReplyTerm(n, m, granted), voteGranted |-> granted]
<1>1. /\ n \in Server /\ m.from \in Server /\ m.from # n
      /\ m.term \in Nat /\ currentTerm[n] \in Nat
  BY DEF TypeOK, VoteRequest, Terms, CallsInv
<1>2. /\ SetNode(n, t)
      /\ voteResps' \subseteq voteResps \cup {r}
      /\ UNCHANGED <<votes, electionTerm>>
  BY DEF HandleVoteRequest, CastVote, VoteGranted, electionVars
<1>3. ASSUME granted
      PROVE  Grants(n, m.from, m.term)
  <2> DEFINE asked == \E q \in voteReqs : /\ q.to = n /\ q.from = m.from /\ q.term = m.term
                                           /\ LogUpToDate(q, log[n])
  <2>a. asked
    BY <1>3
  <2>0. s \in NodeState
    BY <1>1, StepDownType DEF Terms
  <2> HIDE DEF asked
  <2>1. t.term = m.term /\ t.votedFor = m.from /\ t.state = s.state
    <3> HIDE DEF s, granted
    <3> QED BY <1>3, <2>0 DEF NodeState
  <2>2. currentTerm'[n] = m.term /\ votedFor'[n] = m.from /\ state'[n] = s.state
    <3> HIDE DEF t, s, granted
    <3> QED BY <1>1, <1>2, <2>1, SetNodeEffect
  <2>3. CASE m.term > currentTerm[n]
    <3>1. s.state = Follower
      BY <2>3 DEF StepDown, BecomeFollower
    <3> QED BY <1>1, <2>a, <2>2, <2>3, <3>1 DEF Grants, asked
  <2>4. CASE ~(m.term > currentTerm[n])
    <3>1. s.state = state[n] /\ s.votedFor = votedFor[n] /\ s.term = currentTerm[n]
      BY <2>4 DEF StepDown, NodeFields
    <3>2. m.term = currentTerm[n] /\ votedFor[n] \in {Nil, m.from}
      BY <1>1, <1>3, <2>4, <3>1 DEF CanVote
    <3>3. state[n] = Follower
      BY <1>1, <3>2, RaftAssumption DEF OwnVoteInv
    <3> HIDE DEF s
    <3> QED BY <1>1, <2>a, <2>2, <3>1, <3>2, <3>3 DEF Grants, asked
  <2> QED BY <2>3, <2>4
<1>4. r.from = n /\ r.to = m.from /\ r.reqTerm = m.term /\ (r.voteGranted => granted)
  OBVIOUS
<1> HIDE DEF r, granted, s, t
<1>5. SUFFICES ASSUME NEW v \in Server, NEW c \in Server, NEW u \in Terms, Voted(v, c, u)'
               PROVE  Voted(v, c, u) \/ Grants(v, c, u)
  BY DEF VotesStep
<1>6. CASE \E q \in voteResps' : q.from = v /\ q.to = c /\ q.reqTerm = u /\ q.voteGranted
  BY <1>2, <1>3, <1>4, <1>6 DEF Voted
<1>7. CASE v \in votes'[c] /\ electionTerm'[c] = u
  BY <1>2, <1>7 DEF Voted
<1> QED
  BY <1>5, <1>6, <1>7 DEF Voted

LEMMA VotesHandleVoteResponse ==
    ASSUME TypeOK, CallsInv, NEW r \in voteResps, HandleVoteResponse(r)
    PROVE  VotesStep
<1>1. /\ r.to \in Server /\ r.from \in Server
      /\ electionTerm[r.to] = r.reqTerm
  BY DEF TypeOK, VoteResponse, CallsInv
<1>2. /\ voteResps' \subseteq voteResps /\ electionTerm' = electionTerm
      /\ votes' = votes \/ (r.voteGranted /\ votes' = [votes EXCEPT ![r.to] = @ \cup {r.from}])
  BY Zenon DEF HandleVoteResponse
<1>3. SUFFICES ASSUME NEW v \in Server, NEW c \in Server, NEW u \in Terms, Voted(v, c, u)'
               PROVE  Voted(v, c, u)
  BY DEF VotesStep
<1>4. CASE \E q \in voteResps' : q.from = v /\ q.to = c /\ q.reqTerm = u /\ q.voteGranted
  BY <1>2, <1>4 DEF Voted
<1>5. CASE v \in votes'[c] /\ electionTerm'[c] = u
  <2>0. votes \in [Server -> SUBSET Server]
    BY DEF TypeOK
  <2>1. v \in votes[c] \/ (r.voteGranted /\ c = r.to /\ v = r.from)
    <3>1. CASE votes' = votes
      BY <1>5, <3>1
    <3>2. CASE r.voteGranted /\ votes' = [votes EXCEPT ![r.to] = votes[r.to] \cup {r.from}]
      <4>1. CASE c = r.to
        BY <1>1, <1>5, <2>0, <3>2, <4>1
      <4>2. CASE c # r.to
        BY <1>1, <1>5, <2>0, <3>2, <4>2
      <4> QED BY <4>1, <4>2
    <3> QED BY <1>2, <3>1, <3>2
  <2> QED BY <1>1, <1>2, <1>5, <2>1 DEF Voted
<1> QED
  BY <1>3, <1>4, <1>5 DEF Voted

LEMMA VotesFinishElection ==
    ASSUME TypeOK, NEW n \in Server, FinishElection(n)
    PROVE  \A v, c \in Server : \A t \in Terms : Voted(v, c, t)' => Voted(v, c, t)
<1>1. voteResps' \subseteq voteResps /\ votes'[n] = {}
  BY DEF FinishElection, TypeOK
<1>2. \A c \in Server \ {n} : votes'[c] = votes[c] /\ electionTerm'[c] = electionTerm[c]
  BY DEF FinishElection, TypeOK
<1> QED
  BY <1>1, <1>2 DEF Voted

LEMMA VotesNext ==
    ASSUME TypeOK, ElectionInv, [Next]_vars
    PROVE  VotesStep
<1>0. CallsInv /\ OwnVoteInv
  BY DEF ElectionInv
<1>1. ASSUME NEW n \in Server, StartElection(n)
      PROVE  VotesStep
  BY <1>0, <1>1, VotesStartElection
<1>2. ASSUME NEW n \in Server, FinishElection(n)
      PROVE  VotesStep
  BY <1>2, VotesFinishElection DEF VotesStep
<1>3. ASSUME NEW m \in voteReqs, HandleVoteRequest(m)
      PROVE  VotesStep
  BY <1>0, <1>3, VotesHandleVoteRequest
<1>4. ASSUME NEW r \in voteResps, HandleVoteResponse(r)
      PROVE  VotesStep
  BY <1>0, <1>4, VotesHandleVoteResponse
<1>5. CASE UNCHANGED <<voteResps, votes, electionTerm>>
  BY <1>5, UnchangedVotes
<1> QED
  BY <1>1, <1>2, <1>3, <1>4, <1>5
  DEF Next, vars, netVars, electionVars, HandleStroke, SendAppendEntries, HandleAppendEntries,
      HandleAppendResponse, LoseRequest, LoseResponse

-----------------------------------------------------------------------------
(***************************************************************************)
(* The inductive invariant.                                                *)
(***************************************************************************)

LEMMA CallsNext ==
    ASSUME TypeOK, ElectionInv, [Next]_vars
    PROVE  CallsInv'
<1>0. CallsInv /\ ElectionInv
  BY DEF ElectionInv
<1>1. ASSUME NEW n \in Server, StartElection(n)
      PROVE  CallsInv'
  <2>1. UNCHANGED <<voteResps, appendReqs, elected>>
    BY <1>1 DEF StartElection
  <2>2. \A m \in voteReqs' : m.from # m.to /\ m.term # 0
    <3>1. currentTerm[n] \in Nat
      BY DEF TypeOK, Terms
    <3>2. ASSUME NEW m \in voteReqs', m \notin voteReqs
          PROVE  \E p \in Peers(n) : m.from = n /\ m.to = p /\ m.term = currentTerm[n] + 1
      BY <1>1, <3>2 DEF StartElection
    <3> QED BY <1>0, <3>1, <3>2 DEF CallsInv, Peers
  <2>3. \A r \in voteResps : r.to # n
    BY <1>0, <1>1 DEF CallsInv, StartElection
  <2>4. \A r \in voteResps : electionTerm'[r.to] = electionTerm[r.to]
    BY <1>1, <2>3 DEF StartElection, TypeOK, VoteResponse
  <2> QED BY <1>0, <2>1, <2>2, <2>4 DEF CallsInv
<1>2. ASSUME NEW n \in Server, FinishElection(n)
      PROVE  CallsInv'
  <2>1. /\ voteReqs' = voteReqs /\ appendReqs' = appendReqs /\ elected \subseteq elected'
        /\ voteResps' = {r \in voteResps : r.to # n}
    BY <1>2 DEF FinishElection
  <2>2. \A r \in voteResps' : r \in voteResps /\ electionTerm'[r.to] = electionTerm[r.to]
    BY <1>2, <2>1 DEF FinishElection, TypeOK, VoteResponse
  <2> QED BY <1>0, <2>1, <2>2 DEF CallsInv
<1>3. ASSUME NEW m \in voteReqs, HandleVoteRequest(m)
      PROVE  CallsInv'
  <2>1. /\ voteReqs' \subseteq voteReqs
        /\ UNCHANGED <<electionTerm, appendReqs, elected>>
    BY <1>3 DEF HandleVoteRequest, electionVars, historyVars
  <2> DEFINE r == [from |-> m.to, to |-> m.from, reqTerm |-> m.term,
                   term |-> VoteReplyTerm(m.to, m, VoteGranted(m)),
                   voteGranted |-> VoteGranted(m)]
  <2>2. \/ voteResps' = voteResps
        \/ voteResps' = voteResps \cup {r} /\ electionTerm[m.from] = m.term
    BY <1>3 DEF HandleVoteRequest
  <2>3. r.to = m.from /\ r.reqTerm = m.term
    OBVIOUS
  <2> HIDE DEF r
  <2> QED BY <1>0, <2>1, <2>2, <2>3 DEF CallsInv
<1>4. ASSUME NEW n \in Server, NEW p \in Server, SendAppendEntries(n, p)
      PROVE  CallsInv'
  <2>1. UNCHANGED <<voteReqs, voteResps, electionTerm, elected>>
    BY <1>4 DEF SendAppendEntries, electionVars, historyVars
  <2>2. \A m \in appendReqs' :
            m \in appendReqs \/ (m.from = n /\ m.to = p /\ m.term = currentTerm[n])
    BY <1>4 DEF SendAppendEntries, RequestTo
  <2>3. n # p
    BY <1>4 DEF SendAppendEntries, Peers
  <2>4. <<n, currentTerm[n]>> \in elected
    BY <1>0, <1>4 DEF ElectionInv, LeaderInv, SendAppendEntries
  <2> QED BY <1>0, <2>1, <2>2, <2>3, <2>4 DEF CallsInv
<1>5. CASE /\ UNCHANGED <<voteReqs, electionTerm, elected>>
           /\ voteResps' \subseteq voteResps /\ appendReqs' \subseteq appendReqs
  BY <1>0, <1>5 DEF CallsInv
<1> QED
  BY <1>1, <1>2, <1>3, <1>4, <1>5
  DEF Next, vars, netVars, electionVars, historyVars, HandleVoteResponse, HandleStroke,
      HandleAppendEntries, HandleAppendResponse, LoseRequest, LoseResponse

LEMMA LeaderNext ==
    ASSUME TypeOK, ElectionInv, [Next]_vars
    PROVE  LeaderInv' /\ OwnVoteInv'
<1>0. LeaderInv /\ elected \subseteq elected'
  BY DEF ElectionInv, Next, vars, historyVars, StartElection, FinishElection, HandleVoteRequest,
      HandleVoteResponse, HandleStroke, SendAppendEntries, HandleAppendEntries,
      HandleAppendResponse, LoseRequest, LoseResponse
<1>1. \A v \in Server : NodeStep(v)
  BY NodeNext
<1> QED
  BY <1>0, <1>1 DEF LeaderInv, OwnVoteInv, NodeStep

\* Votes are held, and are unique: whatever step brought them under way.
LEMMA VoteNext ==
    ASSUME TypeOK, ElectionInv, [Next]_vars
    PROVE  VoteHeldInv' /\ VoteUniqueInv'
<1>1. /\ VoteHeldInv /\ VoteUniqueInv
      /\ \A v \in Server : KeepsVote(v)
      /\ VotesStep
  BY NodeNext, VotesNext DEF ElectionInv, NodeStep
<1>2. TypeOK'
  BY TypeNext
<1>3. ASSUME NEW v \in Server, NEW c \in Server, NEW t \in Terms, Voted(v, c, t)'
      PROVE  /\ v # c
             /\ currentTerm'[v] >= t
             /\ currentTerm'[v] = t => votedFor'[v] = c /\ state'[v] = Follower
  <2>0. t \in Nat /\ currentTerm[v] \in Nat /\ currentTerm'[v] \in Nat /\ c # Nil
    BY <1>2, RaftAssumption DEF TypeOK, Terms
  <2>1. CASE Grants(v, c, t)
    BY <2>0, <2>1 DEF Grants
  <2>2. CASE Voted(v, c, t)
    <3>1. /\ v # c /\ currentTerm[v] >= t
          /\ currentTerm[v] = t => votedFor[v] = c /\ state[v] = Follower
      BY <1>1, <2>2 DEF VoteHeldInv
    <3>2. currentTerm'[v] >= currentTerm[v]
      BY <1>1 DEF KeepsVote
    <3>3. ASSUME currentTerm'[v] = t
          PROVE  votedFor'[v] = c /\ state'[v] = Follower
      <4>1. currentTerm[v] = t /\ votedFor[v] = c /\ state[v] = Follower
        BY <2>0, <3>1, <3>2, <3>3
      <4> QED BY <1>1, <2>0, <3>3, <4>1 DEF KeepsVote
    <3> QED BY <2>0, <3>1, <3>2, <3>3
  <2> QED BY <1>1, <1>3, <2>1, <2>2 DEF VotesStep
<1>4. ASSUME NEW v \in Server, NEW c \in Server, NEW d \in Server, NEW t \in Terms,
             Voted(v, c, t)', Voted(v, d, t)', c # d
      PROVE  FALSE
  <2>0. t \in Nat /\ currentTerm[v] \in Nat /\ c # Nil /\ d # Nil
    BY RaftAssumption DEF TypeOK, Terms
  <2>1. ASSUME NEW x \in Server, NEW y \in Server, x # y, Grants(v, x, t), Voted(v, y, t)
        PROVE  FALSE
    <3>1. currentTerm[v] >= t /\ (currentTerm[v] = t => votedFor[v] = y) /\ y # Nil
      BY <1>1, <2>1, RaftAssumption DEF VoteHeldInv
    <3> QED BY <2>0, <2>1, <3>1 DEF Grants
  <2>2. ~(Voted(v, c, t) /\ Voted(v, d, t))
    BY <1>1, <1>4 DEF VoteUniqueInv
  <2>3. ~(Grants(v, c, t) /\ Grants(v, d, t))
    BY <1>4 DEF Grants
  <2> QED BY <1>1, <1>4, <2>1, <2>2, <2>3 DEF VotesStep
<1>5. VoteHeldInv'
  BY <1>3 DEF VoteHeldInv
<1>6. VoteUniqueInv'
  BY <1>4 DEF VoteUniqueInv
<1> QED
  BY <1>5, <1>6

\* A pledge to an elected leader is kept.
LEMMA PledgeNext ==
    ASSUME TypeOK, ElectionInv, [Next]_vars,
           NEW q \in Server, NEW l \in Server, NEW t \in Terms,
           <<l, t>> \in elected, Pledged(q, l, t)
    PROVE  Pledged(q, l, t)'
<1>1. KeepsVote(q) /\ VotesStep
  BY NodeNext, VotesNext DEF NodeStep
<1>2. /\ t \in Nat /\ currentTerm[q] \in Nat /\ currentTerm'[q] \in Nat /\ l # Nil
  BY TypeNext, RaftAssumption DEF TypeOK, Terms
<1>3. currentTerm'[q] >= t
  BY <1>1, <1>2 DEF KeepsVote, Pledged
<1>4. currentTerm'[q] = t => votedFor'[q] = l /\ (q = l \/ state'[q] = Follower)
  <2> HAVE currentTerm'[q] = t
  <2>1. currentTerm[q] = t /\ votedFor[q] = l /\ (q = l \/ state[q] = Follower)
    BY <1>1, <1>2 DEF KeepsVote, Pledged
  <2> QED BY <1>1, <1>2, <2>1 DEF KeepsVote
<1>5. ASSUME NEW c \in Server, Voted(q, c, t)'
      PROVE  c = l
  <2>1. CASE Voted(q, c, t)
    BY <2>1 DEF Pledged
  <2>2. CASE Grants(q, c, t)
    <3>1. currentTerm[q] = t /\ votedFor[q] = l /\ votedFor[q] \in {Nil, c}
      BY <1>2, <2>2 DEF Grants, Pledged
    <3> QED BY <1>2, <3>1
  <2> QED BY <1>1, <1>5, <2>1, <2>2 DEF VotesStep
<1> QED
  BY <1>3, <1>4, <1>5 DEF Pledged

\* Two majorities of the cluster have a replica in common.
LEMMA MajoritiesMeet ==
    ASSUME NEW P \in SUBSET Server, NEW Q \in SUBSET Server, IsMajority(P), IsMajority(Q)
    PROVE  \E q \in Server : q \in P /\ q \in Q
<1>1. /\ IsFiniteSet(Server) /\ IsFiniteSet(P) /\ IsFiniteSet(Q)
  BY RaftAssumption, FS_Subset
<1>2. Cardinality(Server) \in Nat /\ Cardinality(P) \in Nat /\ Cardinality(Q) \in Nat
  BY <1>1, FS_CardinalityType
<1>3. Cardinality(P) + Cardinality(Q) > Cardinality(Server)
  BY <1>2 DEF IsMajority
<1>4. P \cap Q # {}
  BY <1>1, <1>3, FS_MajoritiesIntersect
<1> QED
  BY <1>4

\* The winner of an election has a majority pledged to it, and is the only one of
\* its term.
LEMMA ElectedNext ==
    ASSUME TypeOK, ElectionInv, [Next]_vars
    PROVE  QuorumInv' /\ ElectionSafety'
<1>0. /\ LeaderInv /\ OwnVoteInv /\ VoteHeldInv /\ VoteUniqueInv /\ QuorumInv /\ ElectionSafety
      /\ elected \subseteq Server \X Terms
  BY DEF ElectionInv, TypeOK
<1>1. ASSUME NEW e \in elected
      PROVE  \E Q \in SUBSET Server : IsMajority(Q) /\ \A q \in Q : Pledged(q, e[1], e[2])'
  <2>1. e[1] \in Server /\ e[2] \in Terms /\ <<e[1], e[2]>> \in elected
    BY <1>0
  <2>2. PICK Q \in SUBSET Server : IsMajority(Q) /\ \A q \in Q : Pledged(q, e[1], e[2])
    BY <1>0 DEF QuorumInv
  <2>3. \A q \in Q : Pledged(q, e[1], e[2])'
    BY <2>1, <2>2, PledgeNext
  <2> QED BY <2>2, <2>3
<1>2. CASE elected' = elected
  BY <1>0, <1>1, <1>2 DEF QuorumInv, ElectionSafety, IsMajority
<1>3. ASSUME NEW n \in Server, FinishElection(n), elected' # elected
      PROVE  QuorumInv' /\ ElectionSafety'
  <2>0. PICK t \in Terms : t = currentTerm[n]
    BY DEF TypeOK
  <2> DEFINE W == {n} \cup votes[n]
             s == [NodeFields(n) EXCEPT !.state = Leader, !.leaderID = n]
  <2>1. /\ state[n] = Candidate /\ t = electionTerm[n] /\ IsMajority(W)
        /\ SetNode(n, s) /\ elected' = elected \cup {<<n, t>>}
    BY <1>3, <2>0 DEF FinishElection, Wins
  <2>2. W \in SUBSET Server /\ t \in Terms /\ state[n] # Follower /\ votedFor[n] = n
    BY <1>0, <2>0, <2>1 DEF TypeOK, OwnVoteInv, Candidate, Follower
  <2>3. \A q \in votes[n] : q \in Server /\ Voted(q, n, t)
    BY <2>1, <2>2 DEF Voted
  <2>4. \A v, c \in Server : Voted(v, c, t)' => Voted(v, c, t)
    BY <1>3, <2>2, VotesFinishElection
  <2>5. s.term = t /\ s.votedFor = votedFor[n]
    BY <2>0 DEF NodeFields
  <2> HIDE DEF s
  <2>6. /\ currentTerm'[n] = t /\ votedFor'[n] = n
        /\ \A q \in Server \ {n} : /\ state'[q] = state[q] /\ currentTerm'[q] = currentTerm[q]
                                   /\ votedFor'[q] = votedFor[q]
    BY <2>1, <2>2, <2>5, SetNodeEffect
  <2>7. ASSUME NEW q \in W
        PROVE  Pledged(q, n, t)'
    <3>1. CASE q = n
      <4>1. \A c \in Server : ~Voted(n, c, t)
        <5> SUFFICES ASSUME NEW c \in Server, Voted(n, c, t)
                     PROVE  FALSE
          OBVIOUS
        <5>1. currentTerm[n] = t => state[n] = Follower
          BY <1>0 DEF VoteHeldInv
        <5> QED BY <2>0, <2>2, <5>1
      <4> QED BY <2>0, <2>2, <2>4, <2>6, <3>1, <4>1 DEF Pledged, TypeOK, Terms
    <3>2. CASE q # n
      <4>1. q \in Server \ {n} /\ Voted(q, n, t)
        BY <2>3, <3>2
      <4>2. /\ currentTerm[q] >= t
            /\ currentTerm[q] = t => votedFor[q] = n /\ state[q] = Follower
        BY <1>0, <2>2, <4>1 DEF VoteHeldInv
      <4>3. \A c \in Server : Voted(q, c, t) => c = n
        BY <1>0, <2>2, <4>1 DEF VoteUniqueInv
      <4> QED BY <2>4, <2>6, <4>1, <4>2, <4>3 DEF Pledged
    <3> QED BY <3>1, <3>2
  <2>8. QuorumInv'
    <3>1. ASSUME NEW e \in elected'
          PROVE  \E Q \in SUBSET Server : IsMajority(Q) /\ \A q \in Q : Pledged(q, e[1], e[2])'
      <4>1. CASE e \in elected
        BY <1>1, <4>1
      <4>2. CASE e = <<n, t>>
        <5>1. e[1] = n /\ e[2] = t
          BY <4>2
        <5> HIDE DEF W
        <5> QED BY <2>1, <2>2, <2>7, <5>1
      <4> QED BY <2>1, <3>1, <4>1, <4>2
    <3> QED BY <3>1 DEF QuorumInv, IsMajority
  <2>9. ASSUME NEW e \in elected, e[2] = t
        PROVE  e[1] = n
    <3>1. PICK Q \in SUBSET Server : IsMajority(Q) /\ \A q \in Q : Pledged(q, e[1], e[2])
      BY <1>0 DEF QuorumInv
    <3>2. PICK q \in Server : q \in Q /\ q \in W
      BY <2>1, <2>2, <3>1, MajoritiesMeet
    <3>3. Pledged(q, e[1], t)
      BY <2>9, <3>1, <3>2
    <3>4. CASE q = n
      BY <2>0, <2>2, <3>3, <3>4 DEF Pledged
    <3>5. CASE q \in votes[n]
      BY <2>3, <3>3, <3>5 DEF Pledged
    <3> QED BY <3>2, <3>4, <3>5
  <2>10. ElectionSafety'
    <3>1. \A e \in elected' : e \in elected \/ (e[1] = n /\ e[2] = t)
      BY <2>1
    <3> QED BY <1>0, <2>9, <3>1 DEF ElectionSafety
  <2> QED BY <2>8, <2>10
<1> QED
  BY <1>2, <1>3
  DEF Next, vars, historyVars, StartElection, HandleVoteRequest, HandleVoteResponse, HandleStroke,
      SendAppendEntries, HandleAppendEntries, HandleAppendResponse, LoseRequest, LoseResponse

LEMMA ElectionInit == Init => ElectionInv
BY DEF Init, ElectionInv, CallsInv, LeaderInv, OwnVoteInv, VoteHeldInv, VoteUniqueInv, QuorumInv,
    ElectionSafety, Voted, Follower, Leader

LEMMA ElectionNext ==
    ASSUME TypeOK, ElectionInv, [Next]_vars
    PROVE  ElectionInv'
BY CallsNext, LeaderNext, VoteNext, ElectedNext DEF ElectionInv

\* No term has two leaders, in a cluster of any size, with any number of elections,
\* strokes and calls under way.
THEOREM AtMostOneLeader == Spec => []ElectionSafety
<1>1. Init => TypeOK /\ ElectionInv
  BY TypeInit, ElectionInit
<1>2. TypeOK /\ ElectionInv /\ [Next]_vars => (TypeOK /\ ElectionInv)'
  BY TypeNext, ElectionNext
<1>3. TypeOK /\ ElectionInv => ElectionSafety
  BY DEF ElectionInv
<1> QED
  BY <1>1, <1>2, <1>3, PTL DEF Spec

=============================================================================
