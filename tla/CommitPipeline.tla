--------------------------- MODULE CommitPipeline ---------------------------
(***************************************************************************)
(* From the commit index to the gateway: on every replica the applier      *)
(* (node.go: runCommitApplier, applyCommitted) puts committed entries into *)
(* the channel commitCh, and the notifier (replica/cmd/main.go:            *)
(* runCommitNotifier) takes them out and posts them to the gateway if the  *)
(* replica leads at that moment.                                           *)
(*                                                                         *)
(* An entry is its index: all replicas agree on what is committed there    *)
(* (module Raft).  Roles and commit indexes change as in Raft, seen from   *)
(* here: a leader of an older term may still take itself for the leader    *)
(* and even commit what it had replicated; followers learn of it later.    *)
(***************************************************************************)
EXTENDS Naturals, Sequences, FiniteSets

CONSTANTS
    Server,
    Nil,
    Capacity,       \* of commitCh
    MaxIndex,       \* bound: entries committed
    MaxLeaders,     \* bound: leaders elected
    MaxFailures     \* bound: notifications that fail

ASSUME PipelineAssumption ==
    /\ Nil \notin Server
    /\ Capacity \in Nat \ {0}
    /\ MaxIndex \in Nat /\ MaxLeaders \in Nat /\ MaxFailures \in Nat

VARIABLES
    leads,          \* IsLeader(), on every replica
    newest,         \* the leader elected last, Nil if there is none
    commitIndex,
    leaders, failures,          \* history: how many there have been
    lastApplied, commitCh,
    pc, at, upTo,   \* the applier: its place, the locals i and commitIndex
    hand, posting,  \* the notifier: the entry it has taken (0 if none), and
                    \* whether it is being posted
    announced       \* history: what has reached POST /commit, in this order

raftVars == <<leads, newest, commitIndex, leaders>>
applierVars == <<lastApplied, pc, at, upTo>>
notifierVars == <<hand, posting, announced, failures>>
vars == <<raftVars, applierVars, commitCh, notifierVars>>

Index == 1..MaxIndex

Init ==
    /\ leads = [n \in Server |-> FALSE] /\ newest = Nil
    /\ commitIndex = [n \in Server |-> 0]
    /\ leaders = 0 /\ failures = 0
    /\ lastApplied = [n \in Server |-> 0]
    /\ commitCh = [n \in Server |-> << >>]
    /\ pc = [n \in Server |-> "idle"]
    /\ at = [n \in Server |-> 1]
    /\ upTo = [n \in Server |-> 0]
    /\ hand = [n \in Server |-> 0]
    /\ posting = [n \in Server |-> FALSE]
    /\ announced = << >>

-----------------------------------------------------------------------------
\* becomeLeader
BecomeLeader(n) ==
    /\ leaders < MaxLeaders
    /\ ~leads[n]
    /\ leads' = [leads EXCEPT ![n] = TRUE]
    /\ newest' = n
    /\ leaders' = leaders + 1
    /\ UNCHANGED <<commitIndex, applierVars, commitCh, notifierVars>>

\* becomeFollower, on a leader that hears of a newer term, of the leader elected
\* in it or of a candidate that may still win.
BecomeFollower(n) ==
    /\ leads[n]
    /\ newest # n \/ leaders < MaxLeaders
    /\ leads' = [leads EXCEPT ![n] = FALSE]
    /\ UNCHANGED <<newest, commitIndex, leaders, applierVars, commitCh, notifierVars>>

\* advanceCommitIndex: a leader commits entries of its own term.  Those of the
\* newest leader come after everything that is committed; an older leader may here
\* commit any index, more than Raft lets it.
LeaderCommits(n, i) ==
    /\ leads[n]
    /\ i > commitIndex[n]
    /\ newest = n => \A p \in Server : i > commitIndex[p]
    /\ commitIndex' = [commitIndex EXCEPT ![n] = i]
    /\ UNCHANGED <<leads, newest, leaders, applierVars, commitCh, notifierVars>>

\* HandleAppendEntries, on a follower.
FollowerCommits(n, i) ==
    /\ ~leads[n]
    /\ i > commitIndex[n]
    /\ \E p \in Server : i <= commitIndex[p]
    /\ commitIndex' = [commitIndex EXCEPT ![n] = i]
    /\ UNCHANGED <<leads, newest, leaders, applierVars, commitCh, notifierVars>>

-----------------------------------------------------------------------------
(***************************************************************************)
(* The applier.  Only it uses lastApplied.                                 *)
(***************************************************************************)
ToLoop(n) == pc' = [pc EXCEPT ![n] = "loop"]

\* Mutant: the loop starts at the entry applied last.
FirstToApplyAgain(n) == IF lastApplied[n] = 0 THEN 1 ELSE lastApplied[n]

FirstToApply(n) == lastApplied[n] + 1

\* Mutant: the loop stops before the commit index.
LastToApplyBelow(n) == IF commitIndex[n] = 0 THEN 0 ELSE commitIndex[n] - 1

LastToApply(n) == commitIndex[n]

\* The ticker: applyCommitted reads the two indexes and unlocks.
Tick(n) ==
    /\ pc[n] = "idle"
    /\ ToLoop(n)
    /\ at' = [at EXCEPT ![n] = FirstToApply(n)]
    /\ upTo' = [upTo EXCEPT ![n] = LastToApply(n)]
    /\ UNCHANGED <<raftVars, lastApplied, commitCh, notifierVars>>

\* The entry is in the channel: lastApplied is set and the loop goes on.
Put(n) ==
    /\ Len(commitCh[n]) < Capacity
    /\ commitCh' = [commitCh EXCEPT ![n] = Append(@, at[n])]
    /\ lastApplied' = [lastApplied EXCEPT ![n] = at[n]]
    /\ at' = [at EXCEPT ![n] = @ + 1]
    /\ ToLoop(n)
    /\ UNCHANGED <<raftVars, upTo, notifierVars>>

Apply(n) == pc[n] = "loop" /\ at[n] <= upTo[n] /\ Put(n)

\* select takes its default case ...
FindFull(n) ==
    /\ pc[n] = "loop" /\ at[n] <= upTo[n]
    /\ Len(commitCh[n]) = Capacity
    /\ pc' = [pc EXCEPT ![n] = "drain"]
    /\ UNCHANGED <<raftVars, lastApplied, at, upTo, commitCh, notifierVars>>

\* Mutant: the newest entry goes instead of the oldest.
AfterDropNewest(ch) == SubSeq(ch, 1, Len(ch) - 1)

AfterDrop(ch) == Tail(ch)

\* ... the applier takes an entry itself, waiting for one if there is none ...
DropOldest(n) ==
    /\ pc[n] = "drain" /\ commitCh[n] # << >>
    /\ commitCh' = [commitCh EXCEPT ![n] = AfterDrop(@)]
    /\ pc' = [pc EXCEPT ![n] = "resend"]
    /\ UNCHANGED <<raftVars, lastApplied, at, upTo, notifierVars>>

\* ... and sends again.
Resend(n) == pc[n] = "resend" /\ Put(n)

Return(n) ==
    /\ pc[n] = "loop" /\ at[n] > upTo[n]
    /\ pc' = [pc EXCEPT ![n] = "idle"]
    /\ UNCHANGED <<raftVars, lastApplied, at, upTo, commitCh, notifierVars>>

Applier(n) ==
    Tick(n) \/ Apply(n) \/ FindFull(n) \/ DropOldest(n) \/ Resend(n) \/ Return(n)

-----------------------------------------------------------------------------
(***************************************************************************)
(* The notifier.                                                           *)
(***************************************************************************)
Take(n) ==
    /\ hand[n] = 0 /\ commitCh[n] # << >>
    /\ hand' = [hand EXCEPT ![n] = Head(commitCh[n])]
    /\ commitCh' = [commitCh EXCEPT ![n] = Tail(@)]
    /\ UNCHANGED <<raftVars, applierVars, posting, announced, failures>>

\* Mutant: the test of IsLeader is the wrong way round.
ForwardsOnFollower(n) == ~leads[n]

Forwards(n) == leads[n]

\* Only a replica that leads goes on; any other drops the entry.
Decide(n) ==
    /\ hand[n] # 0 /\ ~posting[n]
    /\ posting' = [posting EXCEPT ![n] = Forwards(n)]
    /\ hand' = IF Forwards(n) THEN hand ELSE [hand EXCEPT ![n] = 0]
    /\ UNCHANGED <<raftVars, applierVars, commitCh, announced, failures>>

Done(n) ==
    /\ posting[n]
    /\ posting' = [posting EXCEPT ![n] = FALSE]
    /\ hand' = [hand EXCEPT ![n] = 0]
    /\ UNCHANGED <<raftVars, applierVars, commitCh>>

\* NotifyCommit: the gateway's HandleCommit hands the stroke to the hub.
Post(n) ==
    /\ Done(n)
    /\ announced' = Append(announced, [from |-> n, index |-> hand[n]])
    /\ UNCHANGED failures

\* NotifyCommit fails; the entry is not posted again.
PostFails(n) ==
    /\ Done(n)
    /\ failures < MaxFailures
    /\ failures' = failures + 1
    /\ UNCHANGED announced

Notifier(n) == Take(n) \/ Decide(n) \/ Post(n) \/ PostFails(n)

-----------------------------------------------------------------------------
Next ==
    \E n \in Server :
        \/ BecomeLeader(n) \/ BecomeFollower(n)
        \/ \E i \in Index : LeaderCommits(n, i) \/ FollowerCommits(n, i)
        \/ Applier(n)
        \/ Notifier(n)

\* The ticker keeps ticking, the scheduler runs every goroutine that can go on,
\* and a notification, which has no timeout, is answered or fails some day:
\* HandleCommit never waits.
Fairness == \A n \in Server : WF_vars(Applier(n)) /\ WF_vars(Notifier(n))

Spec == Init /\ [][Next]_vars /\ Fairness

-----------------------------------------------------------------------------
\* Whatever the applier drops and the notifier takes, the channel holds the
\* entries just before lastApplied, without a gap, and nothing uncommitted.
ChannelIsWindow ==
    \A n \in Server :
        /\ lastApplied[n] <= commitIndex[n]
        /\ \A k \in 1..Len(commitCh[n]) :
               commitCh[n][k] = (lastApplied[n] + k) - Len(commitCh[n])

\* One replica announces its entries in the order of the log, each at most once,
\* also when the applier drops entries from the channel under the notifier.  (Two
\* replicas may announce the same entry, when the leader changes.)
AnnouncedInOrder ==
    \A j, k \in 1..Len(announced) :
        j < k /\ announced[j].from = announced[k].from =>
            announced[j].index < announced[k].index

\* The applier, after finding the channel full, waits on one that the notifier has
\* emptied meanwhile: for good, since nobody else sends.
Stuck(n) == pc[n] = "drain" /\ commitCh[n] = << >>

\* Once no more is committed, every replica has applied all of it and has nothing left
\* to announce, however slow its notifier is; the only thing that can stop it is the
\* second receive from a full channel.
AppliedUnlessStuck ==
    <>[](\A n \in Server :
            \/ lastApplied[n] = commitIndex[n] /\ commitCh[n] = << >> /\ hand[n] = 0
            \/ Stuck(n))

\* n leads, and no later election makes it a follower again.
LastLeader(n) == leaders = MaxLeaders /\ newest = n /\ leads[n]

\* A leader that stays announces every entry that it applies, unless a notification
\* fails or its channel overflows.
StableLeaderAnnounces ==
    \A i \in Index :
        (\E n \in Server : LastLeader(n) /\ commitIndex[n] >= i /\ lastApplied[n] < i) ~>
            \/ failures > 0
            \/ \E n \in Server : LastLeader(n) /\
                 \/ pc[n] = "drain"
                 \/ \E k \in 1..Len(announced) : announced[k] = [from |-> n, index |-> i]

-----------------------------------------------------------------------------
(***************************************************************************)
(* What the repository says of the code, and the code does not do.         *)
(***************************************************************************)

\* node.go: "applyCommitted sends any entries between lastApplied and commitIndex to
\* the commit channel": every replica applies what it has committed.
CommittedIsApplied ==
    \A n \in Server, i \in Index : commitIndex[n] >= i ~> lastApplied[n] >= i

=============================================================================
