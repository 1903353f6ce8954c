---------------------------- MODULE LeaderLoops ----------------------------
(***************************************************************************)
(* The goroutines that decide when a leader sends AppendEntries: the       *)
(* heartbeat loop, one replication loop per peer, and the channel          *)
(* newEntryCh that wakes the latter (election.go, node.go, replication.go).*)
(* In Raft a leader may send at any moment; here is why it does send.      *)
(*                                                                         *)
(* One replica and its peers.  Every leadership has a term of its own and  *)
(* starts loops of its own; those of an earlier one end only when they     *)
(* next look at the role.  A call to a peer carries everything the peer    *)
(* has not acknowledged, so it is the last index it reaches.  Shutdown     *)
(* (ctx.Done, stopCh) is left out.                                         *)
(***************************************************************************)
EXTENDS Naturals, FiniteSets

CONSTANTS
    Peer,
    MaxTerms,       \* bound: leaderships of this replica
    MaxStrokes      \* bound: strokes accepted, in all leaderships together

ASSUME LoopsAssumption == IsFiniteSet(Peer) /\ MaxTerms \in Nat /\ MaxStrokes \in Nat

VARIABLES
    leads, term,    \* whether the replica leads; the term of its last leadership
    accepted,       \* how many strokes the replica has ever accepted
    newEntry,       \* whether newEntryCh, of capacity 1, holds a signal
    beat,           \* the heartbeat loop of each term: "off", "tick" or "send"
    loop,           \* the replication loop of each peer and term: "off", "wait",
                    \* "check", "send" or "call"
    beating,        \* peers for which a goroutine of sendHeartbeats is about to send
    sent,           \* the last stroke sent to each peer in this leadership, or the
                    \* last one before it
    stolen          \* history: a loop of an earlier term has taken a signal

vars == <<leads, term, accepted, newEntry, beat, loop, beating, sent, stolen>>

Terms == 1..MaxTerms

Init ==
    /\ leads = FALSE /\ term = 0
    /\ accepted = 0 /\ newEntry = FALSE
    /\ beat = [t \in Terms |-> "off"]
    /\ loop = [p \in Peer |-> [t \in Terms |-> "off"]]
    /\ beating = {}
    /\ sent = [p \in Peer |-> 0]
    /\ stolen = FALSE

-----------------------------------------------------------------------------
\* The end of startElection: becomeLeader, and the goroutines of the new term.  The
\* heartbeats sent at once, by one more goroutine, are taken for the loop's first.
BecomeLeader ==
    /\ ~leads /\ term < MaxTerms
    /\ leads' = TRUE /\ term' = term + 1
    /\ sent' = [p \in Peer |-> accepted] /\ stolen' = FALSE
    /\ beat' = [beat EXCEPT ![term + 1] = "send"]
    /\ loop' = [p \in Peer |-> [loop[p] EXCEPT ![term + 1] = "wait"]]
    /\ UNCHANGED <<accepted, newEntry, beating>>

\* becomeFollower, for whatever reason: no goroutine is told.
BecomeFollower ==
    /\ leads
    /\ leads' = FALSE
    /\ UNCHANGED <<term, accepted, newEntry, beat, loop, beating, sent, stolen>>

\* signalNewEntry keeps one signal for all strokes since the last was taken.
HandleStroke ==
    /\ leads /\ accepted < MaxStrokes
    /\ accepted' = accepted + 1
    /\ newEntry' = TRUE
    /\ UNCHANGED <<leads, term, beat, loop, beating, sent, stolen>>

-----------------------------------------------------------------------------
\* Mutant: the loop leaves the test of the role to sendHeartbeats.
AfterTickAlways == "send"

\* runHeartbeatLoop looks at the role, not at its term.
AfterTick == IF leads THEN "send" ELSE "off"

HeartbeatTick(t) ==
    /\ beat[t] = "tick"
    /\ beat' = [beat EXCEPT ![t] = AfterTick]
    /\ UNCHANGED <<leads, term, accepted, newEntry, loop, beating, sent, stolen>>

\* sendHeartbeats starts a goroutine per peer, if the replica still leads.
SendHeartbeats == beating' = IF leads THEN Peer ELSE beating

BeatAgain(t) ==
    /\ beat[t] = "send"
    /\ SendHeartbeats
    /\ beat' = [beat EXCEPT ![t] = "tick"]
    /\ UNCHANGED <<leads, term, accepted, newEntry, loop, sent, stolen>>

\* Mutant: a heartbeat carries no entries.
ReachNothing(p) == sent[p]

\* sendAppendEntries sends what the peer lacks, for a heartbeat too.
Reach(p) == accepted

\* A goroutine of sendHeartbeats calls sendAppendEntries.
Heartbeat(p) ==
    /\ p \in beating
    /\ beating' = beating \ {p}
    /\ sent' = IF leads THEN [sent EXCEPT ![p] = Reach(p)] ELSE sent
    /\ UNCHANGED <<leads, term, accepted, newEntry, beat, loop, stolen>>

-----------------------------------------------------------------------------
(***************************************************************************)
(* runReplicationLoop, for peer p and leadership t.                        *)
(***************************************************************************)

\* All waiting loops, of all terms, receive from the one channel.
TakeSignal(p, t) ==
    /\ loop[p][t] = "wait" /\ newEntry
    /\ newEntry' = FALSE
    /\ loop' = [loop EXCEPT ![p][t] = "check"]
    /\ stolen' = (stolen \/ t # term)
    /\ UNCHANGED <<leads, term, accepted, beat, beating, sent>>

\* stillLeader, at a moment after the signal was taken.
StillLeader(t) == leads /\ term = t

CheckTerm(p, t) ==
    /\ loop[p][t] = "check"
    /\ loop' = [loop EXCEPT ![p][t] = IF StillLeader(t) THEN "send" ELSE "off"]
    /\ UNCHANGED <<leads, term, accepted, newEntry, beat, beating, sent, stolen>>

\* sendAppendEntries looks at the role once more, and not at the term.
Replicate(p, t) ==
    /\ loop[p][t] = "send"
    /\ loop' = [loop EXCEPT ![p][t] = IF leads THEN "call" ELSE "wait"]
    /\ sent' = IF leads THEN [sent EXCEPT ![p] = accepted] ELSE sent
    /\ UNCHANGED <<leads, term, accepted, newEntry, beat, beating, stolen>>

\* Mutant: the loop clears the channel once it has sent.
AfterCallDrained == FALSE

\* The loop goes back to its select and finds the signals that came meanwhile.
AfterCall == newEntry

\* The call is answered or times out.
CallEnds(p, t) ==
    /\ loop[p][t] = "call"
    /\ loop' = [loop EXCEPT ![p][t] = "wait"]
    /\ newEntry' = AfterCall
    /\ UNCHANGED <<leads, term, accepted, beat, beating, sent, stolen>>

HeartbeatLoop(t) == HeartbeatTick(t) \/ BeatAgain(t)
ReplicationLoop(p, t) ==
    TakeSignal(p, t) \/ CheckTerm(p, t) \/ Replicate(p, t) \/ CallEnds(p, t)

-----------------------------------------------------------------------------
Next ==
    \/ BecomeLeader \/ BecomeFollower \/ HandleStroke
    \/ \E t \in Terms : HeartbeatLoop(t)
    \/ \E p \in Peer : Heartbeat(p)
    \/ \E p \in Peer, t \in Terms : ReplicationLoop(p, t)

\* The ticker and the scheduler run every goroutine that can run.  Nothing is
\* assumed of who receives a signal: a loop may lose every race for it.
Fairness ==
    /\ \A t \in Terms : WF_vars(HeartbeatLoop(t))
    /\ \A p \in Peer : WF_vars(Heartbeat(p))
    /\ \A p \in Peer, t \in Terms : WF_vars(ReplicationLoop(p, t))

Spec == Init /\ [][Next]_vars /\ Fairness

-----------------------------------------------------------------------------
\* A stroke that no peer has been sent is noticed by a replication loop before the
\* next heartbeat: its signal is pending or was taken by a loop that will send it,
\* however busy the loops are.  Only a loop of an earlier leadership, which lives on
\* in the select of runReplicationLoop, can take the signal away.
NewEntryNoticed ==
    leads /\ (\A p \in Peer : sent[p] < accepted) =>
        \/ newEntry \/ stolen
        \/ \E p \in Peer : loop[p][term] \in {"check", "send"}

\* Whoever takes the signals, and whatever loops an earlier leadership has left
\* behind, a leader that stays in its term sends every stroke to every peer.
EntriesReachPeers ==
    \A p \in Peer, t \in Terms, i \in 1..MaxStrokes :
        leads /\ term = t /\ accepted >= i
            ~> sent[p] >= i \/ ~(leads /\ term = t)

\* runHeartbeatLoop knows no term: after leaderships in quick succession several
\* loops beat side by side.  All of them end once the replica stays a follower.
BeatsEnd == ~leads ~> leads \/ \A t \in Terms : beat[t] = "off"

=============================================================================
