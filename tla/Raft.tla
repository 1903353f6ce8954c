-------------------------------- MODULE Raft --------------------------------
(***************************************************************************)
(* The replicas of smolRAFT: leader election and log replication           *)
(* (replica/internal/raft: node.go, election.go, replication.go), with the *)
(* HTTP calls between them (rpc.go, internal/server/handler.go).           *)
(*                                                                         *)
(* Node.mu is held across each action below, so an action is atomic; what  *)
(* happens between two critical sections of one goroutine (a call in       *)
(* flight, an election waiting for its votes) is state of its own.         *)
(*                                                                         *)
(* A call is a request and, once the peer has handled it, a response that  *)
(* also carries what the calling goroutine remembers of its request.  Any  *)
(* call may be delayed, overtaken, lost, or given up by its caller.  A     *)
(* vote request is sent once per election and handled at most once.  An    *)
(* AppendEntries request is sent again at every heartbeat while nothing    *)
(* changes, so an element of appendReqs stands for any number of equal     *)
(* calls and stays until the last of them is lost.                         *)
(*                                                                         *)
(* The clocks (election timeout, heartbeat interval, RPC timeout) are not  *)
(* modelled: each may expire at any moment.                                *)
(***************************************************************************)
EXTENDS RaftLog, FiniteSets

CONSTANTS
    Server,     \* the replicas; a node's ID and its address are one value
    Stroke,     \* the strokes clients draw
    Nil,        \* the empty string in votedFor and leaderID
    Standing,       \* bound: the replicas whose election timer may fire
    MaxElections,   \* bound: elections started, by all replicas together
    MaxLogLen,      \* bound: a leader of this many entries accepts no stroke
    MaxCalls        \* bound: AppendEntries requests, and responses, in flight

ASSUME RaftAssumption ==
    /\ IsFiniteSet(Server) /\ Server # {}
    /\ Nil \notin Server
    /\ Standing \subseteq Server
    /\ MaxElections \in Nat
    /\ MaxLogLen \in Nat
    /\ MaxCalls \in Nat

VARIABLES
    state, currentTerm, votedFor, leaderID,     \* Node's fields
    log, commitIndex,
    nextIndex, matchIndex,                      \* leader only
    electionTerm,   \* the term startElection collects votes for, 0 if it is not running
    votes,          \* the peers whose vote startElection has counted
    voteReqs, voteResps, appendReqs, appendResps,   \* the calls in flight
    elections,      \* history: how many elections have been started
    elected         \* history: the <<n, t>> such that n has become leader of term t

nodeVars == <<state, currentTerm, votedFor, leaderID>>
logVars == <<log, commitIndex>>
leaderVars == <<nextIndex, matchIndex>>
electionVars == <<electionTerm, votes>>
historyVars == <<elections, elected>>
netVars == <<voteReqs, voteResps, appendReqs, appendResps>>
vars == <<nodeVars, logVars, leaderVars, electionVars, netVars, historyVars>>

Follower == "FOLLOWER"
Candidate == "CANDIDATE"
Leader == "LEADER"

Terms == Nat
Entry == [term : Terms, stroke : Stroke]

VoteRequest == [from : Server, to : Server, term : Terms,
                lastLogIndex : Nat, lastLogTerm : Terms]

\* reqTerm is electionTerm of requestVoteFromPeer, kept by the caller.
VoteResponse == [from : Server, to : Server, reqTerm : Terms,
                 term : Terms, voteGranted : BOOLEAN]

AppendEntriesRequest == [from : Server, to : Server, term : Terms,
                         prevLogIndex : Nat, prevLogTerm : Terms,
                         entries : Seq(Entry), leaderCommit : Nat]

\* reqTerm and lastSent (the Index of the last entry sent, 0 if none was) are
\* the locals term and entries of sendAppendEntries.
AppendEntriesResponse == [from : Server, to : Server, reqTerm : Terms, lastSent : Nat,
                          term : Terms, success : BOOLEAN, conflictIndex : Nat]

Peers(n) == Server \ {n}

\* total/2 + 1 of the len(peers) + 1 replicas.
IsMajority(S) == Cardinality(S) >= (Cardinality(Server) \div 2) + 1

-----------------------------------------------------------------------------
\* NewNode, on every replica.
Init ==
    /\ state = [n \in Server |-> Follower]
    /\ currentTerm = [n \in Server |-> 0]
    /\ votedFor = [n \in Server |-> Nil]
    /\ leaderID = [n \in Server |-> Nil]
    /\ log = [n \in Server |-> << >>]
    /\ commitIndex = [n \in Server |-> 0]
    /\ nextIndex = [n \in Server |-> [p \in Server |-> 1]]
    /\ matchIndex = [n \in Server |-> [p \in Server |-> 0]]
    /\ electionTerm = [n \in Server |-> 0]
    /\ votes = [n \in Server |-> {}]
    /\ voteReqs = {} /\ voteResps = {} /\ appendReqs = {} /\ appendResps = {}
    /\ elections = 0 /\ elected = {}

-----------------------------------------------------------------------------
(***************************************************************************)
(* State changes of node.go.  The four fields becomeFollower assigns are   *)
(* computed as one record, because handlers change them more than once.    *)
(***************************************************************************)

\* becomeFollower: the vote is cleared even when the term stays the same.
BecomeFollower(term, leader) ==
    [state |-> Follower, term |-> term, votedFor |-> Nil, leaderID |-> leader]

NodeFields(n) ==
    [state |-> state[n], term |-> currentTerm[n],
     votedFor |-> votedFor[n], leaderID |-> leaderID[n]]

\* Mutant: the leader of the old term is kept.
StepDownKeepsLeader(n, remoteTerm) ==
    IF remoteTerm > currentTerm[n] THEN BecomeFollower(remoteTerm, leaderID[n]) ELSE NodeFields(n)

\* stepDown
StepDown(n, remoteTerm) ==
    IF remoteTerm > currentTerm[n] THEN BecomeFollower(remoteTerm, Nil) ELSE NodeFields(n)

SetNode(n, s) ==
    /\ state' = [state EXCEPT ![n] = s.state]
    /\ currentTerm' = [currentTerm EXCEPT ![n] = s.term]
    /\ votedFor' = [votedFor EXCEPT ![n] = s.votedFor]
    /\ leaderID' = [leaderID EXCEPT ![n] = s.leaderID]

\* Mutant: nextIndex starts at the last entry instead of after it.
InitialNextIndexLow(n) == LastIndex(log[n])

\* becomeLeader, the value it gives nextIndex for every peer.
InitialNextIndex(n) == LastIndex(log[n]) + 1

-----------------------------------------------------------------------------
(***************************************************************************)
(* Elections (election.go).                                                *)
(***************************************************************************)

\* The election timer fires on a node that does not lead: startElection up to
\* the point where it waits for its calls.  One election runs at a time, in the
\* timer's goroutine.
StartElection(n) ==
    /\ state[n] # Leader
    /\ electionTerm[n] = 0
    /\ n \in Standing
    /\ elections < MaxElections
    /\ SetNode(n, [state |-> Candidate, term |-> currentTerm[n] + 1,
                   votedFor |-> n, leaderID |-> Nil])
    /\ electionTerm' = [electionTerm EXCEPT ![n] = currentTerm[n] + 1]
    /\ votes' = [votes EXCEPT ![n] = {}]
    /\ voteReqs' = voteReqs \cup
           {[from |-> n, to |-> p, term |-> currentTerm[n] + 1,
             lastLogIndex |-> LastIndex(log[n]), lastLogTerm |-> LastTerm(log[n])]
            : p \in Peers(n)}
    /\ elections' = elections + 1
    /\ UNCHANGED <<logVars, leaderVars, voteResps, appendReqs, appendResps, elected>>

\* Mutant: the voter compares lengths only.
LogUpToDateLengthOnly(m, l) == m.lastLogIndex >= LastIndex(l)

\* logOK of HandleVoteRequest, against the voter's log l.
LogUpToDate(m, l) ==
    \/ m.lastLogTerm > LastTerm(l)
    \/ m.lastLogTerm = LastTerm(l) /\ m.lastLogIndex >= LastIndex(l)

\* Mutant: the voter forgets to look at its earlier vote.
CanVoteAnyone(voted, candidate) == TRUE

\* canVote of HandleVoteRequest.
CanVote(voted, candidate) == voted \in {Nil, candidate}

\* Term of the response: read before stepDown, and assigned again only when the
\* request is stale (then stepDown did nothing) or granted.
VoteReplyTerm(n, m, granted) == IF granted THEN m.term ELSE currentTerm[n]

VoteGranted(m) ==
    LET s == StepDown(m.to, m.term)
    IN  /\ m.term >= s.term
        /\ CanVote(s.votedFor, m.from)
        /\ LogUpToDate(m, log[m.to])

\* What HandleVoteRequest does to the voter.
CastVote(m) ==
    LET s == StepDown(m.to, m.term)
    IN  SetNode(m.to, IF VoteGranted(m)
                      THEN [s EXCEPT !.votedFor = m.from, !.term = m.term]
                      ELSE s)

\* HandleVoteRequest: m reaches POST /request-vote of its destination.  The
\* answer goes nowhere if the candidate has stopped waiting.
HandleVoteRequest(m) ==
    /\ CastVote(m)
    /\ voteReqs' = voteReqs \ {m}
    /\ voteResps' =
           IF electionTerm[m.from] = m.term
           THEN voteResps \cup {[from |-> m.to, to |-> m.from, reqTerm |-> m.term,
                                 term |-> VoteReplyTerm(m.to, m, VoteGranted(m)),
                                 voteGranted |-> VoteGranted(m)]}
           ELSE voteResps
    /\ UNCHANGED <<logVars, leaderVars, electionVars, appendReqs, appendResps, historyVars>>

\* requestVoteFromPeer gets its answer, while startElection waits for it.
HandleVoteResponse(r) ==
    LET n == r.to
        counts == currentTerm[n] = r.reqTerm /\ state[n] = Candidate /\ r.voteGranted
    IN  /\ \/ /\ r.term > currentTerm[n]
              /\ SetNode(n, BecomeFollower(r.term, Nil))
              /\ UNCHANGED votes
           \/ /\ r.term <= currentTerm[n]
              /\ votes' = IF counts THEN [votes EXCEPT ![n] = @ \cup {r.from}] ELSE votes
              /\ UNCHANGED nodeVars
        /\ voteResps' = voteResps \ {r}
        /\ UNCHANGED <<logVars, leaderVars, electionTerm, voteReqs, appendReqs, appendResps,
                       historyVars>>

\* finalVotes >= majority, the node's own vote included.
Wins(n) == IsMajority({n} \cup votes[n])

\* Every call of the election has been answered or has failed (a call without
\* an answer has timed out): startElection resumes.  Its result counts only for
\* a node that is still a candidate in that term.
FinishElection(n) ==
    /\ electionTerm[n] # 0
    /\ electionTerm' = [electionTerm EXCEPT ![n] = 0]
    /\ votes' = [votes EXCEPT ![n] = {}]
    /\ voteResps' = {r \in voteResps : r.to # n}
    /\ IF state[n] = Candidate /\ currentTerm[n] = electionTerm[n] /\ Wins(n)
       THEN /\ SetNode(n, [NodeFields(n) EXCEPT !.state = Leader, !.leaderID = n])
            /\ nextIndex' = [nextIndex EXCEPT ![n] = [p \in Server |-> InitialNextIndex(n)]]
            /\ matchIndex' = [matchIndex EXCEPT ![n] = [p \in Server |-> 0]]
            /\ elected' = elected \cup {<<n, currentTerm[n]>>}
       ELSE UNCHANGED <<nodeVars, leaderVars, elected>>
    /\ UNCHANGED <<logVars, voteReqs, appendReqs, appendResps, elections>>

-----------------------------------------------------------------------------
(***************************************************************************)
(* Replication (replication.go).                                           *)
(***************************************************************************)

\* HandleStroke: POST /stroke reaches the leader.  A node that does not lead
\* answers ErrNotLeader and changes nothing.
HandleStroke(n, s) ==
    /\ state[n] = Leader
    /\ LastIndex(log[n]) < MaxLogLen
    /\ log' = [log EXCEPT ![n] = Append(@, [term |-> currentTerm[n], stroke |-> s])]
    /\ UNCHANGED <<nodeVars, commitIndex, leaderVars, electionVars, netVars, historyVars>>

\* Mutant: one entry per request.
EntriesToSendOne(l, next) == IF next <= Len(l) THEN <<l[next]>> ELSE << >>

\* Everything from nextIndex on.
EntriesToSend(l, next) == GetFrom(l, next)

\* The request sendAppendEntries makes for peer p.
RequestTo(n, p) ==
    LET prev == nextIndex[n][p] - 1
    IN  [from |-> n, to |-> p, term |-> currentTerm[n],
         prevLogIndex |-> prev, prevLogTerm |-> Term(log[n], prev),
         entries |-> EntriesToSend(log[n], nextIndex[n][p]),
         leaderCommit |-> commitIndex[n]]

\* sendAppendEntries up to the call itself.  The heartbeat loop makes it for
\* every peer at each tick, a replication loop when it is woken by a stroke, and
\* a new leader at once; all of them only while the node leads.
SendAppendEntries(n, p) ==
    /\ state[n] = Leader
    /\ p \in Peers(n)
    /\ Cardinality(appendReqs) < MaxCalls
    /\ appendReqs' = appendReqs \cup {RequestTo(n, p)}
    /\ UNCHANGED <<nodeVars, logVars, leaderVars, electionVars,
                   voteReqs, voteResps, appendResps, historyVars>>

-----------------------------------------------------------------------------
(***************************************************************************)
(* HandleAppendEntries: m reaches POST /append-entries of its destination. *)
(* One action per way out of the handler.                                  *)
(***************************************************************************)
\* An answer reaches its caller only while the call is in flight.
Reply(m, term, success, conflict) ==
    IF m \in appendReqs
    THEN /\ Cardinality(appendResps) < MaxCalls
         /\ appendResps' = appendResps \cup
                {[from |-> m.to, to |-> m.from, reqTerm |-> m.term,
                  lastSent |-> IF m.entries = << >> THEN 0
                               ELSE m.prevLogIndex + Len(m.entries),
                  term |-> term, success |-> success, conflictIndex |-> conflict]}
    ELSE UNCHANGED appendResps

RejectStale(m) ==
    /\ m.term < currentTerm[m.to]
    /\ Reply(m, currentTerm[m.to], FALSE, 0)
    /\ UNCHANGED <<nodeVars, logVars>>

\* The request is of the leader of this term or of a newer one: the node's
\* fields when the handler comes to look at the log.
FollowLeader(m) ==
    LET s == StepDown(m.to, m.term)
    IN  IF s.state = Follower
        THEN [s EXCEPT !.leaderID = m.from]
        ELSE BecomeFollower(m.term, m.from)

\* The log consistency check.
PrevMatches(l, m) ==
    m.prevLogIndex > 0 =>
        m.prevLogIndex <= Len(l) /\ l[m.prevLogIndex].term = m.prevLogTerm

\* Mutant: the hint is one too high.
ConflictIndexHigh(m, l) == IF m.prevLogIndex > Len(l) THEN Len(l) + 1 ELSE m.prevLogIndex + 1

\* The hint of a rejection: where the leader shall continue.
ConflictIndex(m, l) == IF m.prevLogIndex > Len(l) THEN Len(l) + 1 ELSE m.prevLogIndex

\* The rejection carries the term read before stepDown.
RejectMismatch(m) ==
    LET n == m.to
    IN  /\ m.term >= currentTerm[n]
        /\ ~PrevMatches(log[n], m)
        /\ SetNode(n, FollowLeader(m))
        /\ Reply(m, currentTerm[n], FALSE, ConflictIndex(m, log[n]))
        /\ UNCHANGED logVars

\* Log.AppendEntries panics; net/http recovers the panic, the deferred unlocks
\* run, and the caller gets no answer.  What was assigned before stays.
PanicOnCommitted(m) ==
    LET n == m.to
    IN  /\ m.term >= currentTerm[n]
        /\ PrevMatches(log[n], m)
        /\ TruncatesCommitted(log[n], m.prevLogIndex, m.entries, commitIndex[n])
        /\ SetNode(n, FollowLeader(m))
        /\ UNCHANGED <<logVars, appendResps>>

\* The last step of the handler, with the log l that the entries have left.
FollowerCommit(l, commitIdx, leaderCommit) ==
    IF leaderCommit <= commitIdx THEN commitIdx
    ELSE IF leaderCommit < LastIndex(l) THEN leaderCommit ELSE LastIndex(l)

AcceptEntries(m) ==
    LET n == m.to
        l == AppendEntries(log[n], m.prevLogIndex, m.entries)
    IN  /\ m.term >= currentTerm[n]
        /\ PrevMatches(log[n], m)
        /\ ~TruncatesCommitted(log[n], m.prevLogIndex, m.entries, commitIndex[n])
        /\ SetNode(n, FollowLeader(m))
        /\ log' = [log EXCEPT ![n] = l]
        /\ commitIndex' = [commitIndex EXCEPT ![n] = FollowerCommit(l, @, m.leaderCommit)]
        /\ Reply(m, m.term, TRUE, 0)

HandleAppendEntries(m) ==
    /\ \/ RejectStale(m)
       \/ RejectMismatch(m)
       \/ PanicOnCommitted(m)
       \/ AcceptEntries(m)
    /\ UNCHANGED <<leaderVars, electionVars, voteReqs, voteResps, appendReqs, historyVars>>

-----------------------------------------------------------------------------
\* Mutant: entries of earlier terms are committed by counting replicas.
CommittableAnyTerm(n, mi) ==
    {i \in (commitIndex[n] + 1)..LastIndex(log[n]) :
        IsMajority({n} \cup {p \in Peers(n) : mi[p] >= i})}

\* Mutant: more than a majority is asked for.
CommittableByAll(n, mi) ==
    {i \in (commitIndex[n] + 1)..LastIndex(log[n]) :
        Term(log[n], i) = currentTerm[n] /\ \A p \in Peers(n) : mi[p] >= i}

\* The indexes at which advanceCommitIndex assigns commitIndex, for a leader
\* whose matchIndex is mi.
Committable(n, mi) ==
    {i \in (commitIndex[n] + 1)..LastIndex(log[n]) :
        /\ Term(log[n], i) = currentTerm[n]
        /\ IsMajority({n} \cup {p \in Peers(n) : mi[p] >= i})}

\* advanceCommitIndex: its loop ends with the largest of them.
AdvanceCommitIndex(n, mi) ==
    \E i \in {commitIndex[n]} \cup Committable(n, mi) :
        /\ \A j \in Committable(n, mi) : j <= i
        /\ commitIndex' = [commitIndex EXCEPT ![n] = i]

\* The last part of sendAppendEntries, when the call has been answered.
HandleAppendResponse(r) ==
    LET n == r.to
        p == r.from
        mi == IF r.lastSent > 0 THEN [matchIndex[n] EXCEPT ![p] = r.lastSent] ELSE matchIndex[n]
    IN  /\ \/ /\ r.term > currentTerm[n]
              /\ SetNode(n, BecomeFollower(r.term, Nil))
              /\ UNCHANGED <<commitIndex, leaderVars>>
           \/ /\ r.term <= currentTerm[n] /\ state[n] = Leader /\ currentTerm[n] = r.reqTerm
              /\ r.success
              /\ matchIndex' = [matchIndex EXCEPT ![n] = mi]
              /\ nextIndex' = IF r.lastSent > 0
                              THEN [nextIndex EXCEPT ![n][p] = r.lastSent + 1]
                              ELSE nextIndex
              /\ AdvanceCommitIndex(n, mi)
              /\ UNCHANGED nodeVars
           \/ /\ r.term <= currentTerm[n] /\ state[n] = Leader /\ currentTerm[n] = r.reqTerm
              /\ ~r.success
              /\ nextIndex' = [nextIndex EXCEPT ![n][p] =
                                  IF r.conflictIndex > 0 THEN r.conflictIndex
                                  ELSE IF @ > 1 THEN @ - 1 ELSE @]
              /\ UNCHANGED <<nodeVars, commitIndex, matchIndex>>
        /\ appendResps' = appendResps \ {r}
        /\ UNCHANGED <<log, electionVars, voteReqs, voteResps, appendReqs, historyVars>>

\* A call is lost on its way, or its caller gives it up after RPCTimeout: the
\* request is never handled, or its answer (err # nil) changes nothing.
LoseRequest(m) ==
    /\ appendReqs' = appendReqs \ {m}
    /\ UNCHANGED <<nodeVars, logVars, leaderVars, electionVars,
                   voteReqs, voteResps, appendResps, historyVars>>

LoseResponse(r) ==
    /\ appendResps' = appendResps \ {r}
    /\ UNCHANGED <<nodeVars, logVars, leaderVars, electionVars,
                   voteReqs, voteResps, appendReqs, historyVars>>

-----------------------------------------------------------------------------
Next ==
    \/ \E n \in Server : StartElection(n) \/ FinishElection(n)
    \/ \E m \in voteReqs : HandleVoteRequest(m)
    \/ \E r \in voteResps : HandleVoteResponse(r)
    \/ \E n \in Server, s \in Stroke : HandleStroke(n, s)
    \/ \E n, p \in Server : SendAppendEntries(n, p)
    \/ \E m \in appendReqs : HandleAppendEntries(m) \/ LoseRequest(m)
    \/ \E r \in appendResps : HandleAppendResponse(r) \/ LoseResponse(r)

Spec == Init /\ [][Next]_vars

-----------------------------------------------------------------------------
(***************************************************************************)
(* Properties.                                                             *)
(***************************************************************************)

\* Every field has its type; nextIndex never falls to 0, where prevLogIndex
\* would be -1 and the follower's check would be skipped.
TypeOK ==
    /\ state \in [Server -> {Follower, Candidate, Leader}]
    /\ currentTerm \in [Server -> Terms]
    /\ votedFor \in [Server -> Server \cup {Nil}]
    /\ leaderID \in [Server -> Server \cup {Nil}]
    /\ log \in [Server -> Seq(Entry)]
    /\ commitIndex \in [Server -> Nat]
    /\ nextIndex \in [Server -> [Server -> Nat \ {0}]]
    /\ matchIndex \in [Server -> [Server -> Nat]]
    /\ electionTerm \in [Server -> Terms]
    /\ votes \in [Server -> SUBSET Server]
    /\ voteReqs \subseteq VoteRequest
    /\ voteResps \subseteq VoteResponse
    /\ appendReqs \subseteq AppendEntriesRequest
    /\ appendResps \subseteq AppendEntriesResponse
    /\ elections \in Nat
    /\ elected \subseteq Server \X Terms

\* No term has two leaders, not even one after the other, although becomeFollower
\* clears votedFor of a candidate that steps down within its term.
ElectionSafety ==
    \A e, f \in elected : e[2] = f[2] => e[1] = f[1]

\* Two logs with an entry of the same index and term agree up to it: the premise
\* on which Log.AppendEntries skips an entry without looking at its stroke.
LogMatching ==
    \A a, b \in Server : \A i \in 1..Len(log[a]) :
        i <= Len(log[b]) /\ log[a][i].term = log[b][i].term =>
            SubSeq(log[a], 1, i) = SubSeq(log[b], 1, i)

\* Two replicas never commit different strokes at one index: what one of them
\* sends the gateway, another cannot contradict after a change of leader.
CommittedAgree ==
    \A a, b \in Server : \A i \in 1..commitIndex[a] :
        i <= commitIndex[b] =>
            /\ i <= Len(log[a]) /\ i <= Len(log[b])
            /\ log[a][i] = log[b][i]

\* The request startElection of c would send now.
VoteRequestOf(c) == [lastLogIndex |-> LastIndex(log[c]), lastLogTerm |-> LastTerm(log[c])]

\* c holds every entry that n has committed.
HoldsCommitted(c, n) ==
    /\ commitIndex[n] <= Len(log[c])
    /\ SubSeq(log[c], 1, commitIndex[n]) = SubSeq(log[n], 1, commitIndex[n])

\* A replica that lacks an entry some replica has committed finds no majority of
\* voters for its log, so a committed stroke survives every later election.
ElectableHasCommitted ==
    \A c, n \in Server :
        ~HoldsCommitted(c, n) =>
            ~IsMajority({v \in Server : LogUpToDate(VoteRequestOf(c), log[v])})

\* The panic of Log.AppendEntries is unreachable: no request that a replica would
\* accept, however late it arrives, conflicts with an entry committed there.
NoPanic ==
    \A m \in appendReqs :
        m.term >= currentTerm[m.to] /\ PrevMatches(log[m.to], m) =>
            ~TruncatesCommitted(log[m.to], m.prevLogIndex, m.entries, commitIndex[m.to])

\* What a replica has committed, no step takes back or rewrites.
CommittedPrefixStable ==
    [][\A n \in Server :
        /\ commitIndex'[n] >= commitIndex[n]
        /\ Len(log'[n]) >= commitIndex[n]
        /\ SubSeq(log'[n], 1, commitIndex[n]) = SubSeq(log[n], 1, commitIndex[n])]_vars

\* matchIndex is what advanceCommitIndex counts as replicas.  It is assigned from
\* answers that may arrive in any order and may even go down, but while the peer
\* is in the leader's term it is never more than what the peer really holds.
MatchIndexTrue ==
    \A n \in Server : state[n] = Leader =>
        \A p \in Peers(n) : currentTerm[p] = currentTerm[n] =>
            LET k == matchIndex[n][p]
            IN  /\ k <= Len(log[p]) /\ k <= Len(log[n])
                /\ SubSeq(log[p], 1, k) = SubSeq(log[n], 1, k)

\* The leader a replica names (its /status, and the hint of a refused stroke) has
\* led the very term the replica is in.
LeaderIDCorrect ==
    \A n \in Server : leaderID[n] # Nil => <<leaderID[n], currentTerm[n]>> \in elected

\* A request commits no more than it proves the follower to hold.  The follower
\* bounds LeaderCommit by its own last index, which may lie in an unverified
\* suffix, rather than by the last entry received: this makes the two agree.
CommitWithinRequest ==
    \A m \in appendReqs : m.leaderCommit <= m.prevLogIndex + Len(m.entries)

=============================================================================
