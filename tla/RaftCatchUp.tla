---------------------------- MODULE RaftCatchUp ----------------------------
(***************************************************************************)
(* Raft from the moment a third leader has been elected, with no further   *)
(* election: the logs that two earlier leaders have left on the replicas   *)
(* are brought together, and strokes are committed, while calls are lost,  *)
(* repeated and overtaken and a minority of the replicas is down.          *)
(***************************************************************************)
EXTENDS Raft, SequencesExt

CONSTANTS
    Chosen,         \* the leader
    Up,             \* its peers that are up; a call to another is refused at once
    MaxOldLen       \* bound: entries of earlier terms in a log

ASSUME CatchUpAssumption ==
    /\ Chosen \in Server
    /\ Up \subseteq Peers(Chosen)
    /\ IsMajority({Chosen} \cup Up)
    /\ MaxOldLen \in Nat

OldEntries(k, t) == [i \in 1..k |-> [term |-> t, stroke |-> CHOOSE s \in Stroke : TRUE]]

\* The logs that the leaders of terms 1 and 2 may have left.  The first had k1
\* entries; the second knew k of them, wrote k2 of its own and had the votes of a
\* majority, which took no more entries of term 1 from then on.
OldLogs(l) ==
    \E k1, k, k2 \in 0..MaxOldLen :
        LET first == OldEntries(k1, 1)
            second == OldEntries(k, 1) \o OldEntries(k2, 2)
            followsSecond == {n \in Server : IsPrefix(l[n], second)}
        IN  /\ k <= k1 /\ k + k2 <= MaxOldLen
            /\ \A n \in Server : IsPrefix(l[n], first) \/ IsPrefix(l[n], second)
            /\ \E y \in Server : l[y] = second
            /\ IsMajority(followsSecond)

LogsUpToMaxOldLen ==
    [Server -> UNION {[1..k -> [term : {1, 2}, stroke : {CHOOSE s \in Stroke : TRUE}]]
                      : k \in 0..MaxOldLen}]

\* Nothing has been committed so far, and every replica has heard of the election.
CatchUpInit ==
    /\ log \in {l \in LogsUpToMaxOldLen : OldLogs(l)}
    /\ IsMajority({v \in Server : LogUpToDate(VoteRequestOf(Chosen), log[v])})
    /\ state = [n \in Server |-> IF n = Chosen THEN Leader ELSE Follower]
    /\ currentTerm = [n \in Server |-> 3]
    /\ votedFor = [n \in Server |->
                      IF LogUpToDate(VoteRequestOf(Chosen), log[n]) THEN Chosen ELSE Nil]
    /\ leaderID = [n \in Server |-> IF n = Chosen THEN Chosen ELSE Nil]
    /\ commitIndex = [n \in Server |-> 0]
    /\ nextIndex = [n \in Server |-> [p \in Server |->
                       IF n = Chosen THEN InitialNextIndex(n) ELSE 1]]
    /\ matchIndex = [n \in Server |-> [p \in Server |-> 0]]
    /\ electionTerm = [n \in Server |-> 0]
    /\ votes = [n \in Server |-> {}]
    /\ voteReqs = {} /\ voteResps = {} /\ appendReqs = {} /\ appendResps = {}
    /\ elections = MaxElections /\ elected = {<<Chosen, 3>>}

\* HandleAppendEntries, for a call that ends with it: progress cannot be asked of a
\* peer that gets the same old request for ever.
HandleOnce(m) ==
    /\ \/ RejectStale(m)
       \/ RejectMismatch(m)
       \/ PanicOnCommitted(m)
       \/ AcceptEntries(m)
    /\ appendReqs' = appendReqs \ {m}
    /\ UNCHANGED <<leaderVars, electionVars, voteReqs, voteResps, historyVars>>

CatchUpNext ==
    \/ \E s \in Stroke : HandleStroke(Chosen, s)
    \/ \E p \in Up : SendAppendEntries(Chosen, p)
    \/ \E m \in appendReqs : HandleOnce(m) \/ LoseRequest(m)
    \/ \E r \in appendResps : HandleAppendResponse(r) \/ LoseResponse(r)

\* A call to p that is made again and again gets through at some time.
GetsThrough(p) ==
    []<>(RequestTo(Chosen, p) \in appendReqs) =>
        []<><<\E m \in appendReqs : m = RequestTo(Chosen, p) /\ HandleOnce(m)>>_vars

\* The heartbeat loop calls every peer again and again (strong fairness, because
\* MaxCalls stops it at times), and a call ends after RPCTimeout at the latest.  The
\* calls to a peer that is up get through at times, and so do its answers.
Fairness ==
    \A p \in Up :
        /\ SF_vars(SendAppendEntries(Chosen, p))
        /\ WF_vars(\E m \in appendReqs :
                      m.to = p /\ m # RequestTo(Chosen, p) /\ LoseRequest(m))
        /\ WF_vars(\E r \in appendResps :
                      r.from = p /\ (HandleAppendResponse(r) \/ LoseResponse(r)))
        /\ GetsThrough(p)
        /\ SF_vars(\E r \in appendResps : r.from = p /\ HandleAppendResponse(r))

CatchUpSpec == CatchUpInit /\ [][CatchUpNext]_vars /\ Fairness

-----------------------------------------------------------------------------
\* A stroke that the leader has accepted is committed while a majority is up, whatever
\* the peers' logs hold.  (The log of the leader stops growing at MaxLogLen or before.)
AcceptedIsCommitted ==
    <>[](LastTerm(log[Chosen]) = 3 => commitIndex[Chosen] = Len(log[Chosen]))

\* Every peer that is up comes to hold the leader's entries and to know which of them
\* are committed: the conflict hints lead nextIndex to where the logs agree, although
\* answers to earlier calls move it about.  (What the peer holds beyond them stays
\* until the leader has an entry for that place.)
CatchesUp ==
    \A p \in Up :
        <>[](IsPrefix(log[Chosen], log[p]) /\ commitIndex[p] = commitIndex[Chosen])

=============================================================================
