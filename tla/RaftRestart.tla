---------------------------- MODULE RaftRestart ----------------------------
(***************************************************************************)
(* Raft with replicas that stop and start again.                           *)
(*                                                                         *)
(* The term, the vote and the log are fields of Node ("would be on disk in *)
(* production"): main calls NewNode, and a replica that comes back is at   *)
(* term 0 with an empty log.                                               *)
(***************************************************************************)
EXTENDS Raft

CONSTANT MaxRestarts    \* bound: restarts, of all replicas together

ASSUME RestartAssumption == MaxRestarts \in Nat

VARIABLES
    restarts,
    orphanVotes, orphanAppends  \* requests in flight whose caller is gone

restartVars == <<vars, restarts, orphanVotes, orphanAppends>>

\* The process of n ends, at any point between two critical sections, and main
\* runs again.  What n has sent may still arrive, but nobody waits for an answer.
Restart(n) ==
    /\ restarts < MaxRestarts
    /\ restarts' = restarts + 1
    /\ SetNode(n, BecomeFollower(0, Nil))
    /\ log' = [log EXCEPT ![n] = << >>]
    /\ commitIndex' = [commitIndex EXCEPT ![n] = 0]
    /\ nextIndex' = [nextIndex EXCEPT ![n] = [p \in Server |-> 1]]
    /\ matchIndex' = [matchIndex EXCEPT ![n] = [p \in Server |-> 0]]
    /\ electionTerm' = [electionTerm EXCEPT ![n] = 0]
    /\ votes' = [votes EXCEPT ![n] = {}]
    /\ voteResps' = {r \in voteResps : r.to # n}
    /\ appendResps' = {r \in appendResps : r.to # n}
    /\ voteReqs' = {m \in voteReqs : m.from # n}
    /\ appendReqs' = {m \in appendReqs : m.from # n}
    /\ orphanVotes' = orphanVotes \cup {m \in voteReqs : m.from = n}
    /\ orphanAppends' = orphanAppends \cup {m \in appendReqs : m.from = n}
    /\ UNCHANGED historyVars

\* A request of a process that no longer runs reaches its destination.  As in
\* appendReqs, an element of orphanAppends stands for any number of equal calls.
HandleOrphanVote(m) ==
    /\ CastVote(m)
    /\ orphanVotes' = orphanVotes \ {m}
    /\ UNCHANGED <<logVars, leaderVars, electionVars, netVars, historyVars,
                   restarts, orphanAppends>>

HandleOrphanAppend(m) ==
    /\ HandleAppendEntries(m)
    /\ UNCHANGED <<restarts, orphanVotes, orphanAppends>>

RestartInit == Init /\ restarts = 0 /\ orphanVotes = {} /\ orphanAppends = {}

RestartNext ==
    \/ Next /\ UNCHANGED <<restarts, orphanVotes, orphanAppends>>
    \/ \E n \in Server : Restart(n)
    \/ \E m \in orphanVotes : HandleOrphanVote(m)
    \/ \E m \in orphanAppends : HandleOrphanAppend(m)

RestartSpec == RestartInit /\ [][RestartNext]_restartVars

-----------------------------------------------------------------------------
\* Whatever a restarted replica has made others believe, a replica that does not
\* itself restart keeps what it has committed: Log.AppendEntries panics first.
CommittedKeptWhileUp ==
    [][\A n \in Server :
        \/ /\ commitIndex'[n] >= commitIndex[n]
           /\ Len(log'[n]) >= commitIndex[n]
           /\ SubSeq(log'[n], 1, commitIndex[n]) = SubSeq(log[n], 1, commitIndex[n])
        \/ Restart(n)]_restartVars

=============================================================================
