# smolRAFT in TLA+

smolRAFT is a collaborative whiteboard: browsers draw strokes, a gateway forwards
them to the leader of a cluster of replicas, the replicas agree on a log of
strokes with a simplified Raft, and the leader tells the gateway what has been
committed. This directory models the replicas (`replica/internal/raft`) and the
gateway from the Go source, checks them with TLC on small instances and proves with
TLAPS, for instances of every size, all of the safety that is checked. Paths below are relative to the
repository.

## 1. Inventory

| Part | Source | State | Operations |
|---|---|---|---|
| Log | `replica/internal/raft/log.go` | entries behind a sentinel at index 0, a mutex | Append, AppendEntries, GetEntry, GetFrom, LastIndex, LastTerm, Term, Length |
| Node | `node.go` | role, term, vote, leader hint, commitIndex, lastApplied, nextIndex, matchIndex, all under `mu`; channels commitCh, newEntryCh, resetElectionCh, stopCh | becomeFollower, becomeCandidate, becomeLeader, stepDown, applyCommitted |
| Election | `election.go` | the votes of a running election (locals) | runElectionTimer, startElection, requestVoteFromPeer, HandleVoteRequest |
| Replication | `replication.go` | locals of each call | HandleStroke, the heartbeat and replication loops, sendAppendEntries, advanceCommitIndex, HandleAppendEntries, GetSyncLog |
| RPC client, replica server | `rpc.go`, `replica/internal/server` | none | one HTTP endpoint per handler, a timeout per call |
| Commit notifier | `replica/cmd/main.go` | position in commitCh | takes committed entries, posts them to the gateway while this replica leads |
| Leader tracker | `gateway/internal/leader/tracker.go` | cached leader address | poll every replica's `/status` |
| Hub and pumps | `gateway/internal/gateway/hub.go`, `handler.go` | connected clients, a buffered channel each | register, unregister, broadcast, replayHistory, readPump, writePump |
| Stroke forwarding | `gateway/internal/gateway/handler.go` | none | forwardToLeader, one retry after a poll |
| Front end | `frontend/app.js` | canvas, web socket | draw, reconnect |

A stroke travels browser -> gateway (`readPump`, `forwardToLeader`) -> leader
(`HandleStroke`) -> followers (`sendAppendEntries`, `HandleAppendEntries`) -> a
majority (`advanceCommitIndex`) -> the applier and the notifier -> gateway
(`HandleCommit`, `Hub`) -> every browser.

What is hard about it:

* the lock of a node is given up around every call, so an election or a
  replication step resumes in a state that may have changed;
* calls are delayed, overtaken, repeated and lost; their answers too;
* a replica keeps nothing on disk;
* several goroutines share channels of small capacity (newEntryCh, commitCh, a
  client's send), with non-blocking sends that drop what does not fit.

What makes each part correct: at most one leader per term; logs that agree
wherever index and term agree; committed strokes that never change and that every
later leader has; a follower's panic on committed entries that cannot happen; a
leader that believes of its peers only what is true, sends them everything and
brings them up to date; every committed stroke announced, in order; a gateway that
finds the leader, tells the browser the truth about its stroke, and neither leaves
a gap in what a client sees nor trips over a client that goes. The
hazards behind these are listed, line by line, in `PROJECT.json`.

## 2. Modules

| Module | Models |
|---|---|
| `RaftLog` | the log as a sequence, one operator per method of `Log`; AppendEntries in closed form |
| `LogAppend` | the loop of `Log.AppendEntries`, one step per iteration |
| `Raft` | elections, replication and commitment on all replicas, and the calls between them |
| `RaftRestart` | `Raft` plus replicas that stop and come back with nothing |
| `RaftCatchUp` | `Raft` from the election of a leader that stays, with the calls' fairness |
| `CommittedLog` | abstract: one log of strokes that grows, and prefixes of it that the replicas deliver |
| `RaftRefinement` | the mapping under which `Raft` implements `CommittedLog` |
| `LeaderLoops` | the heartbeat and replication loops of one replica, over several leaderships |
| `CommitPipeline` | the applier, the channel commitCh and the notifier on every replica, while leaders change |
| `StrokeForward` | the gateway's leader tracker and the forwarding of strokes, while leaders change |
| `Hub` | the gateway's hub, the pumps of its clients and the replay of the history |
| `MC...` | one per model, with the symmetry and the small constants for TLC |
| `RaftElectionProofs` | the operations of the log, the types, at most one leader per term |
| `RaftHistoryProofs` | on top of it: the leader a replica names, log matching |
| `RaftCommitProofs` | on top of that: everything about commitment, the refinement of `CommittedLog`, restarts |
| `LogAppendProofs`, `CommitPipelineProofs`, `LeaderLoopsProofs`, `StrokeForwardProofs`, `HubProofs` | the safety of the module each is named after |

### How Raft corresponds to the code

Variables named as in the code (`currentTerm`, `votedFor`, `log`, `nextIndex`, ...)
are functions from replicas to the node's fields. A node's ID and address are one
value, `Nil` is the empty string. An action is one critical section of `Node.mu`:

| Action | Code |
|---|---|
| `StartElection` | the timer fires; `startElection` up to its wait (becomeCandidate, the requests) |
| `HandleVoteRequest` | `HandleVoteRequest` |
| `HandleVoteResponse` | `requestVoteFromPeer` after its call |
| `FinishElection` | `startElection` after its wait, becomeLeader included |
| `HandleStroke` | `HandleStroke` on the leader |
| `SendAppendEntries` | `sendAppendEntries` up to its call; heartbeat loop and replication loops both end there |
| `HandleAppendEntries` | `HandleAppendEntries`, one disjunct per way out: stale term, log mismatch, panic, accepted |
| `HandleAppendResponse` | `sendAppendEntries` after its call, advanceCommitIndex included |
| `LoseRequest`, `LoseResponse` | a call is lost or times out |

An election in progress is `electionTerm[n]` (the local `term`) and `votes[n]`. What
a calling goroutine remembers of its request travels in the response record
(`reqTerm`, `lastSent`). A vote request is handled at most once; an element of
`appendReqs` stands for any number of equal calls, since every heartbeat repeats
them, and so may be handled again. `elections` and `elected` are history variables.

The model keeps what looks odd in the code: `becomeFollower` clears the vote
even within a term; responses carry the term read before `stepDown`; matchIndex is
assigned rather than raised, so it may go down; the follower bounds LeaderCommit
by its own last index. When `Log.AppendEntries` panics, net/http recovers and the
deferred unlocks run: the role and term already assigned stay, and no answer is
sent.

Abstractions: strokes are model values and entries have no timestamps; time is not
modelled, so the election timer may fire, and a call may time out, at any moment
(resetElectionTimer then has no effect to model); when a leader sends is its free
choice (why it does send is the subject of `LeaderLoops`); HTTP and JSON are not
modelled. An answer that comes when its caller no longer leads in the term of the
request changes nothing, and is the same step as one that is lost.

`RaftRefinement` maps a state of Raft to `CommittedLog`: `delivered` is each replica's
log up to its commitIndex, which is what its applier hands on, and `decided` the
longest of these. Terms, leaders, uncommitted entries and calls are hidden.

### How RaftCatchUp corresponds to the code

It is Raft with no further election, begun in the states that a third leader may
find: the logs that the leaders of terms 1 and 2 can have left, over all lengths up
to `MaxOldLen`, such that a majority of the replicas would vote for `Chosen`. (Nothing
is committed yet; runs of `Raft` from its own initial state cover commitment across
elections.) A call is handled at most once here (`HandleOnce`): equal calls are made
again by the heartbeat loop, and a request that were handled for ever would leave no
room, under `MaxCalls`, for the others.

### How LeaderLoops corresponds to the code

One replica. `leads` and `term` are its role and the term of its last leadership; each
leadership starts a heartbeat loop and one replication loop per peer (`beat`, `loop`),
which stay where they are when it ends. `newEntry` is newEntryCh, of capacity 1,
which the waiting replication loops of all terms receive from.

| Action | Code |
|---|---|
| `BecomeLeader` | the end of startElection, with the goroutines it starts |
| `HandleStroke` | HandleStroke with signalNewEntry |
| `HeartbeatTick`, `BeatAgain`, `Heartbeat` | runHeartbeatLoop's tick, sendHeartbeats, one of the goroutines it starts |
| `TakeSignal`, `CheckTerm`, `Replicate`, `CallEnds` | an iteration of runReplicationLoop: the receive, stillLeader under the lock, sendAppendEntries up to its call, the end of the call |

What a call carries is abstracted to the last stroke it reaches, since it carries
everything from nextIndex on; what becomes of the call is Raft's business.

### How CommitPipeline corresponds to the code

The module takes from Raft only what it needs: who takes itself for the leader
(`leads`, that is `IsLeader()`), and each replica's commitIndex, which grows. An
entry is its index, since replicas agree on what is committed there. Leaders of older
terms may go on believing that they lead; they may commit here what Raft would
not let them, which only adds behaviours.

| Action | Code |
|---|---|
| `BecomeLeader`, `BecomeFollower`, `LeaderCommits`, `FollowerCommits` | becomeLeader, becomeFollower, advanceCommitIndex, the end of HandleAppendEntries |
| `Tick` | the ticker; applyCommitted reads both indexes and unlocks |
| `Apply` | one iteration whose send succeeds, lastApplied included (nobody else reads it) |
| `FindFull`, `DropOldest`, `Resend` | the default case of the select: three steps, since the notifier runs between them |
| `Return` | the end of the loop |
| `Take`, `Decide` | the notifier receives an entry; it asks IsLeader and goes on or drops it |
| `Post`, `PostFails` | NotifyCommit returns; the gateway's HandleCommit has run, or the call has failed |

`DropOldest` needs an entry in the channel: the receive blocks otherwise, which is
the wait that `pipeline_stuck` finds. `announced` is a history of what reached the
gateway.

### How StrokeForward corresponds to the code

The replicas are what `/status` and `/stroke` show: who is in state LEADER (`leads`; a
deposed leader stays in it until it hears of another) and whom each names
(`leaderID`). `Elect`, `StepDown` and `Hear` change that: a won election with its
voters, a higher term in an answer or of a candidate that does not win, AppendEntries
of a leader whose term is not below the receiver's (`term`), be that leader deposed.

| Action | Code |
|---|---|
| `Tick`, `AskReplica`, `AskNamed`, `FetchFails`, `SetLeader` | Tracker.Start, and poll: one step per call of fetchStatus (the inner loop's only decisive call is the one to the named replica), setLeader |
| `Read`, `Forward`, `Answered`, `TimeOut` | readPump takes a stroke; forwardToLeaderAddr up to its call; its answer; the client's timeout; `Fail` is the rest of forwardToLeader |
| `HandleStroke` | the replica's HandleStroke, 202 or 503, also for a call that was given up |

A poll is a sequence of steps of its own for the ticker and for each pump, so polls
overlap, and what one finds may be old when it is stored.

### How Hub corresponds to the code

A stroke is its index, a client one connection. `broadcast` and `send` are the
channels with their capacities; register and unregister have no buffer, so an action
of the hub's loop takes the sender along.

| Action | Code |
|---|---|
| `HandleCommit` | HandleCommit and Hub.Broadcast, for any committed stroke: around a change of leader the replicas may announce one twice, late or never |
| `Register`, `UnregisterSlow`, `UnregisterLeaver`, `BroadcastStroke` | the cases of Hub.Run, for HandleWS, for the goroutine that drops a slow client, for readPump's exit; a broadcast to all clients |
| `ReadFails`, `SendError` | readPump: a read that fails, and an error sent to its client |
| `WriteMessage`, `WriteFails`, `WriterEnds` | writePump: a message of a batch, a batch or ping that fails, the closed channel |
| `FetchHistory`, `FetchFails`, `SendHistory` | replayHistory: the call of /sync-log (GetSyncLog on the replica), and one iteration of its loop |
| `Commit`, `Disconnect` | the replicas commit; the browser or its network goes |

A send on a closed channel, and a second close, panic; no goroutine recovers, so the
gateway stops (`panic`). The history that is fetched may be shorter than what has been
announced: a new leader learns only with its first entry what its predecessor had
committed. The history variables `shown`, `missed` and `lost` say what has become of a
stroke; `joined` and `asked` what had been announced when a client was registered and
when its history was fetched, `fetched` how much that was. NothingMissing excuses a
stroke the replica left out only if it is in both, so that what is announced between
the two has no excuse; its mutant has HandleWS start the replay before it registers.

### Bounds

All bounds are constants in guards: `MaxElections` (elections started), `MaxLogLen`
(the leader accepts no more strokes), `MaxCalls` (AppendEntries requests, and
responses, in flight), `Standing` (the replicas whose timer may fire),
`MaxRestarts`, `MaxLen`, `MaxOldLen`; in `CommitPipeline` `MaxIndex` (entries), `MaxLeaders`
and `MaxFailures` (notifications that fail); in `LeaderLoops` `MaxTerms` and `MaxStrokes`;
in `StrokeForward` `MaxElections` and `MaxFaults` (calls that fail); in `Hub` `MaxStrokes`,
`MaxPosts` (notifications) and `MaxErrors`. The gateway's capacities (256 for `send` and for `broadcast`) are
constants like commitCh's, small enough in the runs to be reached. `Capacity` is no bound but the
capacity of commitCh, 256 in NewNode; the theorems hold for all capacities. A run stops when its
bounds are used up, hence `CHECK_DEADLOCK FALSE` in the configurations (not in that of
`StrokeForward`, whose ticker goes on); the loop of `LogAppend` really ends. Symmetry permutes
the standing replicas, the others, and the strokes; the properties name none.

## 3. Runs

| Run | Instance | Shows |
|---|---|---|
| `raft_change` | 3 replicas, all standing, 2 elections, logs of 2, 2 values, 1 call | TypeOK, LogMatching, CommittedAgree, and that Raft implements `CommittedLog`. Two leaders write different strokes at the same index |
| `raft_figure8` | 3 replicas, 2 standing, 3 elections, logs of 1 | ElectionSafety, LeaderIDCorrect, ElectableHasCommitted, NoPanic. The third election lets a deposed leader return with its old entry, and both candidates of a term meet a later one |
| `raft_catchup` | 3 replicas, one of them down, 100 initial combinations of logs of up to 2, logs of 3, 2 calls | MatchIndexTrue, CommitWithinRequest, CommittedPrefixStable, AcceptedIsCommitted, CatchesUp. Two calls in flight overtake each other, as requests and as responses; the peer's log is shorter, longer or in conflict |
| `restart_kept` | 3 replicas, 2 standing, 2 elections, 1 restart | CommittedKeptWhileUp |
| `log_append` | logs and lists of up to 3 entries, 2 terms, 2 strokes, every prev and commitIndex | ComputesClosedForm, IndexKept |
| `pipeline` | 2 replicas, 3 entries, a channel of 2, 2 leaders, 1 failure | ChannelIsWindow, AnnouncedInOrder, AppliedUnlessStuck, StableLeaderAnnounces. The third entry does not fit, so the applier drops while the notifier takes |
| `loops` | 2 peers, 2 leaderships, 2 strokes | NewEntryNoticed, EntriesReachPeers, BeatsEnd. The loops of the first leadership are still there in the second and compete for its signals |
| `forward` | 3 replicas, 1 stroke, the ticker beside it, 2 elections, 2 failed calls | ToldTheTruth, RetryFindsLeader, EveryStrokeAnswered, TracksLeader. Two elections let two replicas believe they lead and the third name the older one, also by a late AppendEntries; two failures let both calls of a stroke time out |
| `hub` | 1 client, 2 strokes, 3 notifications, 1 error, channels of 2 and 1 | HubNeverPanics, NothingMissing, LeaverIsRemoved. Clients share only the broadcast, which serves each by itself; history, error and three notifications fill the channel and find it full more than once |

Three more runs are meant to fail; each shows where a sentence of the
repository and the code disagree:

* `restart_lost`: "Committed entries are never overwritten" (`README.md:121`). After
  one restart, a replica with an empty log helps elect a leader that lacks the
  committed stroke, and two replicas commit different strokes at one index.
* `pipeline_stuck`: "sends any entries between lastApplied and commitIndex"
  (`node.go:275`). With a channel of 1: the applier finds it full, the notifier empties
  it, the applier's receive waits for a value only the applier would send. With
  256 the notifier must take 256 entries in that moment: unlikely, not impossible.
  AppliedUnlessStuck says that nothing else stops the applier.
* `hub_panic`: "If a WS client cannot keep up, it is disconnected to protect overall
  throughput" (`gateway/ARCHITECTURE.md:37`). The hub drops a slow client and closes
  its channel while replayHistory, or sendError, may still send on it: the gateway
  panics. HubNeverPanics says that the hub itself is not at fault.

Smaller disagreements seen while modelling, without a run:

* "A node only votes once per term" (`README.md:122`): a candidate that receives an
  AppendEntries of its own term calls becomeFollower (`node.go:191`), forgets the vote it
  gave itself and may grant it again. ElectionSafety holds all the same (section 4).
* "Gateway hub broadcasts committed stroke" (`gateway/ARCHITECTURE.md:31`): around a
  change of leader each replica may take an entry from its channel while it does
  not lead (nobody announces it), or two may announce it, each while it leads.
* runReplicationLoop "exits when the node is no longer the leader" (`replication.go:87`):
  it exits when it next takes a signal, so that of a deposed leader stays blocked,
  possibly into a later leadership, where it takes a signal from the loops of that
  one. The stroke then waits for the next heartbeat (`stolen` in NewEntryNoticed).
* runHeartbeatLoop "Runs while the node is LEADER in the given term"
  (`replication.go:43`): it looks at the role only. A replica that loses and regains
  leadership between two ticks keeps the old loop beside the new one, and sends more
  heartbeats than one loop would.
* replayHistory "fetches all committed strokes from the current leader ... so it sees
  the full canvas state immediately" (`handler.go:223-225`): it stops without a word when
  the client's channel is full (`handler.go:261-263`), and a new leader may not yet know
  of everything that has been announced.
* Entries of earlier terms are committed only with the first stroke of the new term;
  a new leader appends no entry of its own.
* The endpoint /heartbeat has no caller.

Every property of a passing run has a mutant in `PROJECT.json`: a small bug in one
definition under which TLC finds that property violated. The mutants stand just
before the definitions they replace, marked "Mutant".

Fairness, and why the code justifies it:

* `CommitPipeline`: weak fairness of each replica's applier and of its notifier. The
  ticker keeps firing and the Go scheduler runs every goroutine that can go on;
  NotifyCommit has no timeout, but the gateway's HandleCommit never waits (its
  hand-over to the hub is non-blocking), so the call is answered or fails.
* `LeaderLoops`: weak fairness of every heartbeat loop, heartbeat goroutine and
  replication loop. Who receives a signal is left open: a loop may lose every race.
* `RaftCatchUp`: strong fairness of SendAppendEntries to a peer that is up (the
  heartbeat loop; `MaxCalls` disables it at times); a call ends (RPCTimeout); and the
  network is fair-lossy towards a peer that is up: of the calls made again and
  again one gets through (`GetsThrough`), and of their answers. Strokes are not fair.
* `StrokeForward`: weak fairness of the ticker, of the steps of a poll and of a pump,
  and a call that a pump waits for is handled or times out (the http.Client's
  timeout). Elections, and the news of them, are not fair.
* `Hub`: weak fairness of the hub's cases and of a client's pumps. Go's select
  chooses at random among ready cases, and a read or write ends by its deadline.

Elections and commits are nowhere fair: they may stop at any point. The runs with
liveness properties use no symmetry. `Raft` itself is a safety specification.

## 4. Proofs

Every invariant and every action property that a passing run checks is also a theorem,
and so is the refinement. The theorems hold for every finite, non-empty set of
replicas, every set of strokes and all values of the bounds and capacities. The
assumptions on the constants (`RaftAssumption`, `RestartAssumption`,
`LogAppendAssumption`, `PipelineAssumption`, `LoopsAssumption`, `ForwardAssumption`,
`HubAssumption`) are types and distinctness; TLC evaluates each of them in the runs of
its module. A bound that no assumption limits stands for no bound at all: whatever
finite behaviour the program has, some value of the constants allows it.

| Theorem | States | Module |
|---|---|---|
| `TypeCorrect` | TypeOK | `RaftElectionProofs` |
| `AtMostOneLeader` | ElectionSafety | |
| `LeaderNamedIsElected` | LeaderIDCorrect | `RaftHistoryProofs` |
| `LogsMatch` | LogMatching | |
| `ReplicasAgree` | CommittedAgree | `RaftCommitProofs` |
| `NeverPanics` | NoPanic | |
| `MatchIndexHolds` | MatchIndexTrue | |
| `CommitsWithinRequests` | CommitWithinRequest | |
| `CommittedSurvivesElections` | ElectableHasCommitted | |
| `CommitsStay` | CommittedPrefixStable | |
| `RaftImplementsCommittedLog` | ImplementsCommittedLog | |
| `UpReplicaKeepsCommitted` | CommittedKeptWhileUp | |
| `LoopIsClosedForm`, `LoopKeepsIndex` | ComputesClosedForm, IndexKept | `LogAppendProofs` |
| `WindowKept`, `OrderKept` | ChannelIsWindow, AnnouncedInOrder | `CommitPipelineProofs` |
| `SignalNotLost` | NewEntryNoticed | `LeaderLoopsProofs` |
| `BrowserToldTheTruth`, `RetryIsEnough` | ToldTheTruth, RetryFindsLeader | `StrokeForwardProofs` |
| `HubStaysUp`, `NoGap` | HubNeverPanics, NothingMissing | `HubProofs` |

### The argument for Raft

The three modules build one inductive invariant, `ReplicationInv`, in layers.

**Types.** TypeOK is inductive as it stands, one lemma per action. What it says
beyond types is that nextIndex stays positive: conflict hints are positive because a
refused prevLogIndex is, and the decrement is guarded. FirstNew exists by a
least-number argument, so AppendEntries returns a log.

**Elections** (`ElectionInv`). The usual argument, one vote per term, is not
available, since a replica may vote twice. Instead:

* a vote for another replica that is on its way or counted (`Voted`) is held by its
  giver, as a follower, as long as the giver's term lasts (`VoteHeldInv`), and is the
  only such vote of the giver in that term (`VoteUniqueInv`): only a candidate's vote
  *for itself* can be forgotten within a term, and nobody receives that one;
* a replica that is not a follower has voted for itself (`OwnVoteInv`);
* an AppendEntries request comes from an elected leader of its term (`CallsInv`,
  `LeaderInv`);
* every leader ever elected has a majority *pledged* to it (`QuorumInv`): replicas past
  its term, or in it with their vote for that leader, which have sent no other vote. A
  pledge is kept by every step (`PledgeNext`): a candidate of the term that steps down
  was never part of the majority.

Two majorities meet, so a second winner of the term would need the vote of a pledged
replica.

**Logs** (`HistoryInv(H)`). H gives every term the log of its leader, as it is while it
leads and as it was when it stopped. A request of term t is a segment of H[t], a log
that has an entry of term t agrees with H[t] up to it (`Rooted`), and a leader's own log
is H of its term. Log matching follows. H is not a variable: the invariant says that
such a history exists, and each step is shown to have one that extends it.

**Commitment** (`AckInv`, `SafeInv`, `CommitInv`). A second history says how far a
replica has accepted the log of each term's leader: `A[p][t]`. An entry that the
leader of t wrote is *decided* once a majority has accepted it, whether or not anyone
has counted the answers: the leader of an old term may count the last one after
others have been elected. So the invariant is not about what is committed but
about what may still be: every entry of term t is in the log of each later
leader, or a majority that has left term t without accepting it *blocks* it for
ever (`Safe`). The same holds of the log of whoever has accepted the entry, and of a
candidate one of whose voters has accepted it. It is kept because a voter compares
last terms and lengths (`UpToDateIsSafe`), and Raft's rule that only entries of the
current term are counted makes every commitIndex rest on a decided entry
(`AdvanceDecides`). Decided entries are not blocked, since majorities meet, and so
lie in all later leaders: agreement, the unreachable panic, and what a candidate must
have follow.

Before they were proved, these invariants were checked with TLC: a copy of `Raft` with H
and A as explicit history variables, exhaustively on the instance of
`raft_figure8` and by simulation on larger ones.

**Refinement.** `AgreedInv` (any two replicas' committed prefixes are prefixes of one
another, and made of strokes) and `CommitStep` (one replica at a time commits more, and
none less) follow from `ReplicationInv`. They are all that is used to show that a step
maps to Decide, Deliver or a stutter of `CommittedLog`.

**Restarts** (`RestartInv`). A replica that forgets invalidates both histories, which is
why agreement fails (`restart_lost`). What remains is local: commitIndex never passes
the end of the log, and a call of Log.AppendEntries that does not panic keeps the first
commitIndex entries whoever sent it, requests of dead processes included.

### The other components

* `LogAppendProofs`: the loop invariant says that either all entries so far were held and
  the log is untouched, or one, the first that was not held and not in conflict
  with what is committed, and all after it have been put in place (`Rewritten`). The
  proofs of Raft use the closed form, so they hold of the loop.
* `CommitPipelineProofs`: neither property is inductive alone. `PipelineInv` adds, for each
  replica, where the applier stands (`ApplierInv`: at the entry after lastApplied, and
  no further than the commit index it read), that what the notifier holds comes before
  the channel (`HandInv`), and that what it has announced comes before both
  (`AnnouncedInv`). The applier's drop and the notifier's receive both take the head,
  which keeps the window and can only open a gap in front of it.
* `LeaderLoopsProofs`: NewEntryNoticed is inductive beside the types. The theorem has
  the hypothesis `Peer # {}`: a replica without peers has no replication loops, and
  "no peer has been sent the stroke" would be true of it for no reason.
* `StrokeForwardProofs`: for the truth, `PumpInv` follows each try: a pump goes on to the
  second only when the first was refused or timed out, a stroke is appended once for
  each call answered 202, and a pump that reports success has had such an answer. For the retry, `CalmInv`: while one replica alone
  leads and no call fails, no poll under way has passed it by, also not one by the
  ticker, and the second try is addressed to it (`Steady`).
* `HubProofs`: a registered client's channel is open, and a client that has left does not
  come back. Of the strokes a client shall see, those announced since it was
  registered are shown, in its channel, on their way from the hub, or counted as lost
  (`Broadcasted`); those of its history are shown, in its channel or still to be sent
  (`Replayed`). What is in neither set was announced before the client was registered,
  hence before its history was asked for (`RegisteredFirst`, which fails if HandleWS
  registers second), and is missing only because the replica left it out.

### Only model-checked

The liveness properties (AppliedUnlessStuck, StableLeaderAnnounces, AcceptedIsCommitted,
CatchesUp, EntriesReachPeers, BeatsEnd, EveryStrokeAnswered, TracksLeader,
LeaverIsRemoved) stay with TLC: the prover does not reason about fairness or ENABLED.
The three disagreements of section 3 are counterexamples, and TLC's as well. That
`RaftCatchUp` starts in states that Raft can reach is argued in its comments, not
proved; its safety properties are therefore proved of `Raft` and only checked of it.

## 5. Plan

Every module that was planned is written, and every safety property has its theorem.
What could be added:

1. the theorems about Raft carried over to `RaftCatchUp`: its initial states would have to
   record in `elected` who led terms 1 and 2 before they can satisfy `ReplicationInv`;
2. what `CommitPipeline` and `Hub` assume of Raft (a commit index that only grows, replicas
   that agree on an index) as refinements, instead of by reading: `CommitsStay` and
   `ReplicasAgree` say it in other words.

## 6. Not modelled

* Formatting, logging and metrics; HTTP routing and JSON; start-up and shutdown of the
  processes (ctx.Done, stopCh) other than as a crash.
* Time. A timeout may strike at any moment; that the intervals are chosen so that
  elections succeed (`ElectionTimeoutMin` against `HeartbeatInterval`) is not stated,
  nor is, therefore, that a leader is ever elected.
* The front end (`frontend/app.js`): drawing, and a fold of the received messages over
  a list of strokes. It does not recognise a stroke it has already drawn, so a stroke
  that comes twice (replay beside broadcast, two announcements, a retry after a
  timeout) is drawn twice, and a history replayed on a reconnection is added to what
  is there. With that known, no property of its own is left.
* A history longer than a client's channel: replayHistory stops where it is full.
* The order in which replay and broadcast reach a client: the code does not define it.
