--------------------------- MODULE StrokeForward ---------------------------
(***************************************************************************)
(* The gateway's way to the leader: the tracker that asks the replicas who *)
(* leads (tracker.go) and the forwarding of a stroke with its one retry    *)
(* (handler.go), against replicas whose leader changes.                    *)
(*                                                                         *)
(* The replicas are what their /status and /stroke handlers show of them:  *)
(* who believes to lead, and whom the others name.  A deposed leader goes  *)
(* on believing until it hears of the next one.                            *)
(***************************************************************************)
EXTENDS Naturals, FiniteSets

CONSTANTS
    N,              \* replicas, numbered in the order of replicaAddrs
    Pump,           \* readPumps; each has one stroke to forward
    Ticker,         \* the goroutine of Tracker.Start
    MaxElections,   \* bound: elections, won or lost, each in a term of its own
    MaxFaults       \* bound: calls, of both kinds, that fail or time out

ASSUME ForwardAssumption ==
    N \in Nat \ {0} /\ Ticker \notin Pump /\ MaxElections \in Nat /\ MaxFaults \in Nat

Replica == 1..N
Term == 1..MaxElections
Nobody == 0             \* the empty string in leaderID and leaderAddr
Poller == Pump \cup {Ticker}
Try == {1, 2}

VARIABLES
    leads,          \* the replicas in state LEADER
    leaderID,       \* whom a replica takes for the leader
    term,           \* the replicas' currentTerm
    elections,      \* how many elections there were: the highest term
    elected,        \* who has won the election of each term
    faults,
    leaderAddr,     \* the tracker's cache
    poll,           \* where each goroutine is in Tracker.poll: asking replica i,
                    \* asking the replica that i has named, or about to set found
    pc, try,        \* where a pump is in forwardToLeader, and in which try
    call,           \* the POST /stroke of each try
    appended,       \* history: how often a pump's stroke is in a leader's log
    timedOut,       \* history: a call of this pump has timed out
    calm            \* history: nothing has changed or failed since the stroke came

clusterVars == <<leads, leaderID, term, elections, elected>>
pumpVars == <<pc, try, call, appended, timedOut>>
vars == <<clusterVars, faults, leaderAddr, poll, pumpVars, calm>>

Idle == [at |-> "idle", i |-> 1, found |-> Nobody]
Asking(i) == [at |-> "ask", i |-> i, found |-> Nobody]
Finding(r) == [at |-> "set", i |-> 1, found |-> r]

Init ==
    /\ leads = {} /\ leaderID = [r \in Replica |-> Nobody]
    /\ term = [r \in Replica |-> 0]
    /\ elections = 0 /\ elected = [t \in Term |-> Nobody] /\ faults = 0
    /\ leaderAddr = Nobody
    /\ poll = [x \in Poller |-> Idle]
    /\ pc = [x \in Pump |-> "new"]
    /\ try = [x \in Pump |-> 1]
    /\ call = [x \in Pump |-> [k \in Try |-> [to |-> Nobody, at |-> "none"]]]
    /\ appended = [x \in Pump |-> 0]
    /\ timedOut = [x \in Pump |-> FALSE]
    /\ calm = [x \in Pump |-> FALSE]

NoLongerCalm == calm' = [x \in Pump |-> FALSE]

-----------------------------------------------------------------------------
(***************************************************************************)
(* The replicas, as the gateway sees them.                                 *)
(***************************************************************************)

\* Replica r, with the votes of V, wins the election of a new term.
Elect(r, V) ==
    LET t == elections + 1
    IN  /\ elections < MaxElections
        /\ r \notin leads \cup V
        /\ 2 * (Cardinality(V) + 1) > N
        /\ elections' = t
        /\ elected' = [elected EXCEPT ![t] = r]
        /\ term' = [q \in Replica |-> IF q \in V \cup {r} THEN t ELSE term[q]]
        /\ leads' = (leads \ V) \cup {r}
        /\ leaderID' = [q \in Replica |-> IF q = r THEN r
                                          ELSE IF q \in V THEN Nobody ELSE leaderID[q]]
        /\ NoLongerCalm
        /\ UNCHANGED <<faults, leaderAddr, poll, pumpVars>>

\* Replica q learns of a higher term t, from an answer or from a candidate; the
\* candidate of a new term does not win.
StepDown(q, t) ==
    /\ term[q] < t /\ t <= elections + 1
    /\ elections' = IF t > elections THEN t ELSE elections
    /\ term' = [term EXCEPT ![q] = t]
    /\ leads' = leads \ {q}
    /\ leaderID' = [leaderID EXCEPT ![q] = Nobody]
    /\ NoLongerCalm
    /\ UNCHANGED <<elected, faults, leaderAddr, poll, pumpVars>>

\* Replica q gets AppendEntries of the leader of term t, by now perhaps deposed.
Hear(q, t) ==
    /\ elected[t] \notin {Nobody, q}
    /\ term[q] <= t /\ (term[q] = t => leaderID[q] = Nobody)
    /\ term' = [term EXCEPT ![q] = t]
    /\ leads' = leads \ {q}
    /\ leaderID' = [leaderID EXCEPT ![q] = elected[t]]
    /\ NoLongerCalm
    /\ UNCHANGED <<elections, elected, faults, leaderAddr, poll, pumpVars>>

-----------------------------------------------------------------------------
(***************************************************************************)
(* Tracker.poll, in the goroutine x.                                       *)
(***************************************************************************)
StartPoll(x) == [poll EXCEPT ![x] = Asking(1)]
Found(x, r) == poll' = [poll EXCEPT ![x] = Finding(r)]

\* The next replica, or the end of the loop: no leader found.
AskNext(x) ==
    IF poll[x].i < N
    THEN poll' = [poll EXCEPT ![x] = Asking(poll[x].i + 1)]
    ELSE Found(x, Nobody)

\* The status of replica i.  The first that says it leads is taken, of whatever
\* term; one that names another makes the tracker look for that one.
AskReplica(x) ==
    LET i == poll[x].i
    IN  /\ poll[x].at = "ask"
        /\ \/ /\ i \in leads
              /\ Found(x, i)
           \/ /\ i \notin leads /\ leaderID[i] # Nobody
              /\ poll' = [poll EXCEPT ![x].at = "askNamed", ![x].found = leaderID[i]]
           \/ /\ i \notin leads /\ leaderID[i] = Nobody
              /\ AskNext(x)
        /\ UNCHANGED <<clusterVars, faults, leaderAddr, pumpVars, calm>>

\* Mutant: what a follower says is not checked.
NamedLeadsUnchecked(r) == TRUE

NamedLeads(r) == r \in leads

\* The inner loop asks every replica, but only the named one can match.
AskNamed(x) ==
    /\ poll[x].at = "askNamed"
    /\ IF NamedLeads(poll[x].found) THEN Found(x, poll[x].found) ELSE AskNext(x)
    /\ UNCHANGED <<clusterVars, faults, leaderAddr, pumpVars, calm>>

\* fetchStatus fails or takes longer than PollTimeout.
FetchFails(x) ==
    /\ poll[x].at \in {"ask", "askNamed"}
    /\ faults < MaxFaults
    /\ faults' = faults + 1
    /\ AskNext(x)
    /\ NoLongerCalm
    /\ UNCHANGED <<clusterVars, leaderAddr, pumpVars>>

\* The loop of Start, at a tick.
Tick ==
    /\ poll[Ticker].at = "idle"
    /\ poll' = StartPoll(Ticker)
    /\ UNCHANGED <<clusterVars, faults, leaderAddr, pumpVars, calm>>

\* setLeader: what was found may be old by now, and a poll that began earlier may
\* have the last word.
SetLeader(x) ==
    /\ poll[x].at = "set"
    /\ leaderAddr' = poll[x].found
    /\ poll' = [poll EXCEPT ![x] = Idle]
    /\ pc' = IF x = Ticker THEN pc ELSE [pc EXCEPT ![x] = "forward"]
    /\ UNCHANGED <<clusterVars, faults, try, call, appended, timedOut, calm>>

Poll(x) == AskReplica(x) \/ AskNamed(x) \/ SetLeader(x)

-----------------------------------------------------------------------------
(***************************************************************************)
(* forwardToLeader, in the readPump x.                                     *)
(***************************************************************************)
OnlyOneLeads == Cardinality(leads) = 1

\* A stroke comes from the browser.
Read(x) ==
    /\ pc[x] = "new"
    /\ pc' = [pc EXCEPT ![x] = "forward"]
    /\ calm' = [calm EXCEPT ![x] = OnlyOneLeads /\ \A y \in Poller : poll[y].at = "idle"]
    /\ UNCHANGED <<clusterVars, faults, leaderAddr, poll, try, call, appended, timedOut>>

\* Mutant: the second try uses what is cached.
FailNoPoll(x) ==
    /\ pc' = [pc EXCEPT ![x] = IF try[x] = 1 THEN "forward" ELSE "error"]
    /\ try' = [try EXCEPT ![x] = 2]
    /\ UNCHANGED poll

\* Mutant: forwarding goes on until it succeeds.
FailForever(x) ==
    /\ pc' = [pc EXCEPT ![x] = "poll"]
    /\ poll' = StartPoll(x)
    /\ try' = [try EXCEPT ![x] = 2]

\* forwardToLeaderAddr has returned an error: one poll and a second try.
Fail(x) ==
    /\ pc' = [pc EXCEPT ![x] = IF try[x] = 1 THEN "poll" ELSE "error"]
    /\ poll' = IF try[x] = 1 THEN StartPoll(x) ELSE poll
    /\ try' = [try EXCEPT ![x] = 2]

\* forwardToLeaderAddr, with LeaderAddr at this moment.
Forward(x) ==
    /\ pc[x] = "forward"
    /\ IF leaderAddr = Nobody
       THEN /\ Fail(x)
            /\ UNCHANGED call
       ELSE /\ pc' = [pc EXCEPT ![x] = "wait"]
            /\ call' = [call EXCEPT ![x][try[x]] = [to |-> leaderAddr, at |-> "sent"]]
            /\ UNCHANGED <<poll, try>>
    /\ UNCHANGED <<clusterVars, faults, leaderAddr, appended, timedOut, calm>>

\* POST /stroke is handled, be it after the gateway has given it up.
HandleStroke(x, k) ==
    LET accepts == call[x][k].to \in leads
    IN  /\ call[x][k].at = "sent"
        /\ call' = [call EXCEPT ![x][k].at = IF accepts THEN "202" ELSE "503"]
        /\ appended' = IF accepts THEN [appended EXCEPT ![x] = @ + 1] ELSE appended
        /\ UNCHANGED <<clusterVars, faults, leaderAddr, poll, pc, try, timedOut, calm>>

\* Mutant: the gateway expects 200 OK.
IsSuccessOK(status) == status = "200"

IsSuccess(status) == status = "202"

Answered(x) ==
    LET status == call[x][try[x]].at
    IN  /\ pc[x] = "wait" /\ status \in {"202", "503"}
        /\ IF IsSuccess(status)
           THEN /\ pc' = [pc EXCEPT ![x] = "ok"]
                /\ UNCHANGED <<poll, try>>
           ELSE Fail(x)
        /\ UNCHANGED <<clusterVars, faults, leaderAddr, call, appended, timedOut, calm>>

\* The call takes longer than the client's timeout, handled or not.
TimeOut(x) ==
    /\ pc[x] = "wait"
    /\ faults < MaxFaults
    /\ faults' = faults + 1
    /\ timedOut' = [timedOut EXCEPT ![x] = TRUE]
    /\ Fail(x)
    /\ NoLongerCalm
    /\ UNCHANGED <<clusterVars, leaderAddr, call, appended>>

-----------------------------------------------------------------------------
Next ==
    \/ \E r \in Replica, V \in SUBSET Replica : Elect(r, V)
    \/ \E q \in Replica, t \in Term : StepDown(q, t) \/ Hear(q, t)
    \/ \E x \in Poller : Poll(x) \/ FetchFails(x)
    \/ Tick
    \/ \E x \in Pump : Read(x) \/ Forward(x) \/ Answered(x) \/ TimeOut(x)
    \/ \E x \in Pump, k \in Try : HandleStroke(x, k)

\* A goroutine that can run does, the ticker ticks, and a call that the pump waits
\* for is handled or times out.
Fairness ==
    /\ WF_vars(Tick)
    /\ \A x \in Poller : WF_vars(Poll(x))
    /\ \A x \in Pump :
        /\ WF_vars(Forward(x)) /\ WF_vars(Answered(x))
        /\ WF_vars(TimeOut(x) \/ (pc[x] = "wait" /\ HandleStroke(x, try[x])))

Spec == Init /\ [][Next]_vars /\ Fairness

-----------------------------------------------------------------------------
\* The browser is told the truth, although the retry sends the stroke a second time: one
\* that was forwarded without an error is in the log of a leader, be it that its first
\* call timed out; it is there twice only if a call has timed out; and one reported as
\* failed is in no log unless a call has timed out.
ToldTheTruth ==
    \A x \in Pump :
        /\ pc[x] = "ok" => appended[x] >= 1
        /\ pc[x] = "error" /\ ~timedOut[x] => appended[x] = 0
        /\ appended[x] > 1 => timedOut[x]

\* A stroke that comes while one replica leads, and before anyone else polls, is not
\* refused as long as the leader stays and no call fails, however stale the cache is:
\* the one poll before the retry finds the leader.  (A poll that began under an earlier
\* leader could still overwrite the cache between PollOnce and LeaderAddr.)
RetryFindsLeader == \A x \in Pump : calm[x] => pc[x] # "error"

\* forwardToLeader comes to an end, whoever leads.
EveryStrokeAnswered == \A x \in Pump : pc[x] = "forward" ~> pc[x] \in {"ok", "error"}

\* Once one replica alone leads, the cache comes to hold its address for good, although
\* followers go on naming earlier leaders and polls run side by side.
TracksLeader ==
    \A r \in Replica : <>[](leads = {r}) => <>[](leaderAddr = r)

=============================================================================
