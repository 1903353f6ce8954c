------------------------ MODULE StrokeForwardProofs ------------------------
(***************************************************************************)
(* Forwarding a stroke, for any number of replicas, readPumps, elections   *)
(* and failed calls: the browser is told the truth, and the retry finds a  *)
(* leader that stays.                                                      *)
(***************************************************************************)
EXTENDS StrokeForward, FiniteSetTheorems, TLAPS

Place == [at : {"idle", "ask", "askNamed", "set"}, i : Replica, found : 0..N]
Call == [to : 0..N, at : {"none", "sent", "202", "503"}]

ForwardType ==
    /\ leads \subseteq Replica /\ leaderID \in [Replica -> 0..N]
    /\ term \in [Replica -> Nat] /\ elections \in Nat /\ elected \in [Term -> 0..N]
    /\ leaderAddr \in 0..N
    /\ poll \in [Poller -> Place]
    /\ pc \in [Pump -> {"new", "forward", "wait", "poll", "ok", "error"}]
    /\ try \in [Pump -> Try]
    /\ call \in [Pump -> [Try -> Call]]
    /\ appended \in [Pump -> Nat]
    /\ timedOut \in [Pump -> BOOLEAN] /\ calm \in [Pump -> BOOLEAN]

\* The call of x in try k has not had, and will not have, the stroke appended.
Refused(x, k) == call[x][k].at \in {"none", "503"}

Accepted(x, k) == IF call[x][k].at = "202" THEN 1 ELSE 0

\* A pump and its calls: it leaves a try behind only when its call was refused or has
\* timed out, and a stroke is appended once for every call accepted.
PumpInv(x) ==
    /\ poll[x].at # "idle" => pc[x] = "poll"
    /\ pc[x] \in {"poll", "error"} => try[x] = 2
    /\ pc[x] = "new" => try[x] = 1
    /\ try[x] = 1 => call[x][2].at = "none"
    /\ pc[x] \in {"new", "forward", "poll"} => call[x][try[x]].at = "none"
    /\ pc[x] = "ok" => call[x][try[x]].at = "202"
    /\ appended[x] = Accepted(x, 1) + Accepted(x, 2)
    /\ ~timedOut[x] =>
        /\ try[x] = 2 => Refused(x, 1)
        /\ pc[x] = "error" => Refused(x, 2)

\* While replica r alone leads and no call fails, no poll passes it by, and the
\* second try goes to it.
PollInv(y, r) ==
    /\ poll[y].at = "ask" => poll[y].i <= r
    /\ poll[y].at = "askNamed" => poll[y].i < r
    /\ poll[y].at = "set" => poll[y].found = r

SecondTry(x, r) ==
    /\ pc[x] # "error"
    /\ pc[x] = "forward" /\ try[x] = 2 => leaderAddr = r
    /\ pc[x] = "wait" /\ try[x] = 2 => call[x][2].to = r /\ call[x][2].at # "503"

Steady(x, r) ==
    /\ leads = {r}
    /\ \A y \in Poller : PollInv(y, r)
    /\ SecondTry(x, r)

CalmInv(x) == calm[x] => \E r \in Replica : Steady(x, r)

ForwardInv == ForwardType /\ \A x \in Pump : PumpInv(x) /\ CalmInv(x)

-----------------------------------------------------------------------------
LEMMA PlaceType ==
    /\ 1 \in Replica /\ Nobody \in 0..N /\ Idle \in Place
    /\ \A i \in Replica : Asking(i) \in Place
    /\ \A r \in 0..N : Finding(r) \in Place
BY ForwardAssumption DEF Place, Idle, Asking, Finding, Replica, Nobody

LEMMA StartPollType ==
    ASSUME ForwardType, NEW x \in Poller
    PROVE  StartPoll(x) \in [Poller -> Place]
BY PlaceType DEF ForwardType, StartPoll

LEMMA FoundType ==
    ASSUME ForwardType, NEW x \in Poller, NEW r \in 0..N, Found(x, r)
    PROVE  poll' \in [Poller -> Place]
BY PlaceType DEF ForwardType, Found

LEMMA AskNextType ==
    ASSUME ForwardType, NEW x \in Poller, AskNext(x)
    PROVE  poll' \in [Poller -> Place]
<1>1. poll[x].i \in 1..N /\ N \in Nat \ {0}
  BY ForwardAssumption DEF ForwardType, Place, Replica
<1>2. CASE poll[x].i < N
  <2>1. Asking(poll[x].i + 1) \in Place
    BY <1>1, <1>2, PlaceType DEF Replica
  <2> QED BY <1>2, <2>1 DEF AskNext, ForwardType
<1>3. CASE ~(poll[x].i < N)
  BY <1>3, PlaceType, FoundType DEF AskNext
<1> QED BY <1>2, <1>3

LEMMA FailType ==
    ASSUME ForwardType, NEW x \in Pump, Fail(x)
    PROVE  /\ poll' \in [Poller -> Place]
           /\ pc' \in [Pump -> {"new", "forward", "wait", "poll", "ok", "error"}]
           /\ try' \in [Pump -> Try]
<1>1. poll' \in [Poller -> Place]
  BY StartPollType DEF Fail, ForwardType, Poller
<1> QED BY <1>1 DEF Fail, ForwardType, Try

LEMMA ForwardTypeNext ==
    ASSUME ForwardType, [Next]_vars
    PROVE  ForwardType'
<1>1. CASE UNCHANGED vars
  BY <1>1 DEF vars, clusterVars, pumpVars, ForwardType
<1>2. ASSUME NEW r \in Replica, NEW V \in SUBSET Replica, Elect(r, V)
      PROVE  ForwardType'
  <2>1. r \in 0..N /\ Nobody \in 0..N
    BY ForwardAssumption DEF Replica, Nobody
  <2>2. elections' \in Nat /\ term' \in [Replica -> Nat]
    BY <1>2 DEF Elect, ForwardType
  <2>3. elected' \in [Term -> 0..N]
    BY <1>2, <2>1 DEF Elect, ForwardType
  <2>4. leads' \subseteq Replica /\ leaderID' \in [Replica -> 0..N]
    BY <1>2, <2>1 DEF Elect, ForwardType
  <2>5. calm' \in [Pump -> BOOLEAN]
    BY <1>2 DEF Elect, NoLongerCalm
  <2> QED BY <1>2, <2>2, <2>3, <2>4, <2>5 DEF Elect, pumpVars, ForwardType
<1>3. ASSUME NEW q \in Replica, NEW t \in Term, StepDown(q, t) \/ Hear(q, t)
      PROVE  ForwardType'
  <2>1. leads' \subseteq Replica /\ leaderID' \in [Replica -> 0..N]
    BY <1>3, PlaceType DEF StepDown, Hear, ForwardType
  <2>2. calm' \in [Pump -> BOOLEAN]
    BY <1>3 DEF StepDown, Hear, NoLongerCalm
  <2>3. t \in Nat
    BY ForwardAssumption DEF Term
  <2>4. elections' \in Nat /\ term' \in [Replica -> Nat] /\ elected' = elected
    BY <1>3, <2>3 DEF StepDown, Hear, ForwardType
  <2> QED BY <1>3, <2>1, <2>2, <2>4 DEF StepDown, Hear, pumpVars, ForwardType
<1>4. ASSUME NEW x \in Poller, AskReplica(x)
      PROVE  ForwardType'
  <2>1. poll[x] \in Place /\ poll[x].i \in Replica /\ leaderID[poll[x].i] \in 0..N
        /\ poll[x].i \in 0..N
    BY DEF ForwardType, Place, Replica
  <2>2. poll' \in [Poller -> Place]
    <3>1. CASE Found(x, poll[x].i)
      BY <2>1, <3>1, FoundType
    <3>2. CASE poll' = [poll EXCEPT ![x].at = "askNamed", ![x].found = leaderID[poll[x].i]]
      BY <2>1, <3>2 DEF ForwardType, Place
    <3>3. CASE AskNext(x)
      BY <3>3, AskNextType
    <3> QED BY <1>4, <3>1, <3>2, <3>3 DEF AskReplica
  <2> QED BY <1>4, <2>2 DEF AskReplica, clusterVars, pumpVars, ForwardType
<1>5. ASSUME NEW x \in Poller, AskNamed(x) \/ FetchFails(x)
      PROVE  ForwardType'
  <2>1. poll' \in [Poller -> Place]
    <3>1. poll[x].found \in 0..N
      BY DEF ForwardType, Place
    <3> QED BY <1>5, <3>1, AskNextType, FoundType DEF AskNamed, FetchFails
  <2>2. calm' \in [Pump -> BOOLEAN]
    BY <1>5 DEF AskNamed, FetchFails, NoLongerCalm, ForwardType
  <2> QED BY <1>5, <2>1, <2>2 DEF AskNamed, FetchFails, clusterVars, pumpVars, ForwardType
<1>6. ASSUME NEW x \in Poller, SetLeader(x)
      PROVE  ForwardType'
  <2>1. poll[x].found \in 0..N /\ Idle \in Place
    BY ForwardAssumption DEF ForwardType, Place, Idle, Nobody, Replica
  <2> QED BY <1>6, <2>1 DEF SetLeader, clusterVars, ForwardType, Poller
<1>7. CASE Tick
  <2>1. Ticker \in Poller
    BY DEF Poller
  <2> QED BY <1>7, <2>1, StartPollType DEF Tick, clusterVars, pumpVars, ForwardType
<1>8. ASSUME NEW x \in Pump, Read(x)
      PROVE  ForwardType'
  BY <1>8 DEF Read, clusterVars, ForwardType
<1>9. ASSUME NEW x \in Pump, Forward(x)
      PROVE  ForwardType'
  <2>1. CASE leaderAddr = Nobody
    BY <1>9, <2>1, FailType DEF Forward, clusterVars, ForwardType
  <2>2. CASE leaderAddr # Nobody
    <3>1. [to |-> leaderAddr, at |-> "sent"] \in Call /\ try[x] \in Try
      BY DEF ForwardType, Call
    <3>2. call' \in [Pump -> [Try -> Call]]
      <4>1. call \in [Pump -> [Try -> Call]]
        BY DEF ForwardType
      <4>2. call' = [call EXCEPT ![x][try[x]] = [to |-> leaderAddr, at |-> "sent"]]
        BY <1>9, <2>2 DEF Forward
      <4> QED BY <3>1, <4>1, <4>2
    <3> QED BY <1>9, <2>2, <3>2 DEF Forward, clusterVars, ForwardType
  <2> QED BY <2>1, <2>2
<1>10. ASSUME NEW x \in Pump, Answered(x) \/ TimeOut(x)
       PROVE  ForwardType'
  <2>1. /\ poll' \in [Poller -> Place]
        /\ pc' \in [Pump -> {"new", "forward", "wait", "poll", "ok", "error"}]
        /\ try' \in [Pump -> Try]
    <3>1. CASE Fail(x)
      BY <3>1, FailType
    <3>2. CASE pc' = [pc EXCEPT ![x] = "ok"] /\ UNCHANGED <<poll, try>>
      BY <3>2 DEF ForwardType
    <3> QED BY <1>10, <3>1, <3>2 DEF Answered, TimeOut
  <2>2. timedOut' \in [Pump -> BOOLEAN] /\ calm' \in [Pump -> BOOLEAN]
    BY <1>10 DEF Answered, TimeOut, NoLongerCalm, ForwardType
  <2> QED BY <1>10, <2>1, <2>2 DEF Answered, TimeOut, clusterVars, ForwardType
<1>11. ASSUME NEW x \in Pump, NEW k \in Try, HandleStroke(x, k)
       PROVE  ForwardType'
  <2>1. call' \in [Pump -> [Try -> Call]]
    <3>1. PICK a \in {"202", "503"} : call' = [call EXCEPT ![x][k].at = a]
      BY <1>11 DEF HandleStroke
    <3>2. call \in [Pump -> [Try -> Call]]
      BY DEF ForwardType
    <3>3. [call[x][k] EXCEPT !.at = a] \in Call
      BY <3>2 DEF Call
    <3> QED BY <3>1, <3>2, <3>3
  <2>2. appended' \in [Pump -> Nat]
    BY <1>11 DEF HandleStroke, ForwardType
  <2> QED BY <1>11, <2>1, <2>2 DEF HandleStroke, clusterVars, ForwardType
<1> QED
  BY <1>1, <1>2, <1>3, <1>4, <1>5, <1>6, <1>7, <1>8, <1>9, <1>10, <1>11 DEF Next, Poll

-----------------------------------------------------------------------------
(***************************************************************************)
(* A pump and its calls.                                                   *)
(***************************************************************************)
LEMMA SamePump ==
    ASSUME NEW x \in Pump, PumpInv(x),
           poll'[x].at # "idle" => poll[x].at # "idle",
           pc'[x] = pc[x], try'[x] = try[x], call'[x] = call[x], appended'[x] = appended[x],
           timedOut'[x] = timedOut[x]
    PROVE  PumpInv(x)'
BY DEF PumpInv, Refused, Accepted

\* A poll that goes on changes the place of one goroutine, which was polling before.
LEMMA PollStep ==
    ASSUME ForwardType, NEW y \in Poller, AskReplica(y) \/ AskNamed(y) \/ FetchFails(y)
    PROVE  /\ poll[y].at \in {"ask", "askNamed"}
           /\ \A x \in Poller : x # y => poll'[x] = poll[x]
           /\ pc' = pc /\ try' = try /\ call' = call /\ appended' = appended
           /\ timedOut' = timedOut
<1>1. poll[y].at \in {"ask", "askNamed"}
  BY DEF AskReplica, AskNamed, FetchFails
<1>2. PICK v : poll' = [poll EXCEPT ![y] = v]
  <2>1. CASE AskReplica(y)
    <3>1. CASE poll' = [poll EXCEPT ![y].at = "askNamed", ![y].found = leaderID[poll[y].i]]
      BY <3>1
    <3>2. CASE Found(y, poll[y].i) \/ AskNext(y)
      BY <3>2 DEF Found, AskNext
    <3> QED BY <2>1, <3>1, <3>2 DEF AskReplica
  <2>2. CASE AskNamed(y) \/ FetchFails(y)
    BY <2>2 DEF AskNamed, FetchFails, Found, AskNext
  <2> QED BY <2>1, <2>2
<1>3. \A x \in Poller : x # y => poll'[x] = poll[x]
  BY <1>2 DEF ForwardType
<1> QED
  BY <1>1, <1>3 DEF AskReplica, AskNamed, FetchFails, pumpVars

LEMMA FailKeepsPump ==
    ASSUME ForwardType, NEW x \in Pump, PumpInv(x), Fail(x),
           call' = call, appended' = appended,
           pc[x] \in {"forward", "wait"},
           timedOut'[x] \/ (timedOut'[x] = timedOut[x] /\ Refused(x, try[x]))
    PROVE  PumpInv(x)'
<1>1. x \in Poller /\ try[x] \in {1, 2}
  BY DEF ForwardType, Poller, Try
<1>2. try'[x] = 2
  BY DEF Fail, ForwardType
<1>3. CASE try[x] = 1
  <2>1. pc'[x] = "poll"
    BY <1>3 DEF Fail, ForwardType
  <2> QED BY <1>2, <1>3, <2>1 DEF PumpInv, Refused, Accepted
<1>4. CASE try[x] = 2
  <2>1. pc'[x] = "error" /\ poll' = poll
    BY <1>4 DEF Fail, ForwardType
  <2> QED BY <1>2, <1>4, <2>1 DEF PumpInv, Refused, Accepted
<1> QED BY <1>1, <1>3, <1>4

LEMMA FailOther ==
    ASSUME ForwardType, NEW x \in Pump, NEW y \in Pump, x # y, Fail(y)
    PROVE  pc'[x] = pc[x] /\ try'[x] = try[x] /\ poll'[x] = poll[x]
<1>1. x \in Poller /\ y \in Poller
  BY DEF Poller
<1>2. poll'[x] = poll[x]
  BY <1>1 DEF Fail, StartPoll, ForwardType
<1> QED BY <1>2 DEF Fail, ForwardType

LEMMA ForwardKeepsPump ==
    ASSUME ForwardType, NEW x \in Pump, PumpInv(x), NEW y \in Pump, Forward(y)
    PROVE  PumpInv(x)'
<1>0. appended' = appended /\ timedOut' = timedOut
  BY DEF Forward
<1>1. CASE leaderAddr = Nobody
  <2>1. Fail(y) /\ call' = call
    BY <1>1 DEF Forward
  <2>2. CASE x # y
    BY <1>0, <2>1, <2>2, FailOther, SamePump
  <2>3. CASE x = y
    <3>1. pc[x] = "forward"
      BY <2>3 DEF Forward
    <3>2. Refused(x, try[x])
      BY <3>1 DEF PumpInv, Refused
    <3> QED BY <1>0, <2>1, <2>3, <3>1, <3>2, FailKeepsPump
  <2> QED BY <2>2, <2>3
<1>2. CASE leaderAddr # Nobody
  <2>1. /\ poll' = poll /\ try' = try /\ pc' = [pc EXCEPT ![y] = "wait"]
        /\ call' = [call EXCEPT ![y][try[y]] = [to |-> leaderAddr, at |-> "sent"]]
    BY <1>2 DEF Forward
  <2>2. CASE x # y
    <3>1. pc'[x] = pc[x] /\ call'[x] = call[x]
      BY <2>1, <2>2 DEF ForwardType
    <3> QED BY <1>0, <2>1, <3>1, SamePump
  <2>3. CASE x = y
    <3>1. pc[x] = "forward" /\ pc'[x] = "wait" /\ try[x] \in {1, 2}
      BY <2>1, <2>3 DEF Forward, ForwardType, Try
    <3>2. \A k \in {1, 2} : call'[x][k].at = IF k = try[x] THEN "sent" ELSE call[x][k].at
      BY <2>1, <2>3, <3>1 DEF ForwardType, Try
    <3>3. call[x][try[x]].at = "none"
      BY <3>1 DEF PumpInv
    <3> QED BY <1>0, <2>1, <3>1, <3>2, <3>3 DEF PumpInv, Refused, Accepted
  <2> QED BY <2>2, <2>3
<1> QED BY <1>1, <1>2

LEMMA HandleStrokeKeepsPump ==
    ASSUME ForwardType, NEW x \in Pump, PumpInv(x), NEW y \in Pump, NEW k \in Try,
           HandleStroke(y, k)
    PROVE  PumpInv(x)'
<1>0. pc' = pc /\ try' = try /\ poll' = poll /\ timedOut' = timedOut
  BY DEF HandleStroke
<1> DEFINE accepts == call[y][k].to \in leads
           a == IF accepts THEN "202" ELSE "503"
<1>1. /\ call[y][k].at = "sent" /\ call' = [call EXCEPT ![y][k].at = a]
      /\ appended' = IF accepts THEN [appended EXCEPT ![y] = @ + 1] ELSE appended
  BY DEF HandleStroke
<1> HIDE DEF accepts
<1>2. CASE x # y
  <2>1. call'[x] = call[x] /\ appended'[x] = appended[x]
    BY <1>1, <1>2 DEF ForwardType
  <2> QED BY <1>0, <2>1, SamePump
<1>3. CASE x = y
  <2>1. k \in {1, 2} /\ try[x] \in {1, 2}
    BY DEF Try, ForwardType
  <2>2. \A j \in {1, 2} : call'[x][j].at = IF j = k THEN a ELSE call[x][j].at
    BY <1>1, <1>3, <2>1 DEF ForwardType, Try, Call
  <2>3. appended'[x] = IF accepts THEN appended[x] + 1 ELSE appended[x]
    BY <1>1, <1>3 DEF ForwardType
  <2>4. (appended[x] = Accepted(x, 1) + Accepted(x, 2))'
    <3>1. appended[x] = Accepted(x, 1) + Accepted(x, 2)
      BY DEF PumpInv
    <3>2. CASE k = 1
      BY <1>1, <1>3, <2>2, <2>3, <3>1, <3>2 DEF Accepted
    <3>3. CASE k = 2
      BY <1>1, <1>3, <2>2, <2>3, <3>1, <3>3 DEF Accepted
    <3> QED BY <2>1, <3>2, <3>3
  <2> QED BY <1>0, <1>1, <1>3, <2>1, <2>2, <2>4 DEF PumpInv, Refused
<1> QED BY <1>2, <1>3

LEMMA AnswerKeepsPump ==
    ASSUME ForwardType, NEW x \in Pump, PumpInv(x), NEW y \in Pump, Answered(y) \/ TimeOut(y)
    PROVE  PumpInv(x)'
<1>0. call' = call /\ appended' = appended /\ pc[y] = "wait"
  BY DEF Answered, TimeOut
<1>1. CASE x # y
  <2>1. timedOut'[x] = timedOut[x]
    BY <1>1 DEF Answered, TimeOut, ForwardType
  <2>2. pc'[x] = pc[x] /\ try'[x] = try[x] /\ poll'[x] = poll[x]
    <3>1. CASE Fail(y)
      BY <1>1, <3>1, FailOther
    <3>2. CASE pc' = [pc EXCEPT ![y] = "ok"] /\ UNCHANGED <<poll, try>>
      BY <1>1, <3>2 DEF ForwardType
    <3> QED BY <3>1, <3>2 DEF Answered, TimeOut
  <2> QED BY <1>0, <2>1, <2>2, SamePump
<1>2. CASE x = y /\ TimeOut(y)
  <2>1. timedOut'[x] /\ Fail(x)
    BY <1>2 DEF TimeOut, ForwardType
  <2> QED BY <1>0, <1>2, <2>1, FailKeepsPump
<1>3. CASE x = y /\ Answered(y) /\ IsSuccess(call[y][try[y]].at)
  <2>1. pc'[x] = "ok" /\ poll' = poll /\ try' = try /\ timedOut' = timedOut
    BY <1>3 DEF Answered, ForwardType
  <2>2. call[x][try[x]].at = "202"
    BY <1>3 DEF IsSuccess
  <2> QED BY <1>0, <1>3, <2>1, <2>2 DEF PumpInv, Refused, Accepted
<1>4. CASE x = y /\ Answered(y) /\ ~IsSuccess(call[y][try[y]].at)
  <2>1. Fail(x) /\ timedOut' = timedOut
    BY <1>4 DEF Answered
  <2>2. Refused(x, try[x])
    BY <1>4 DEF Answered, IsSuccess, Refused
  <2> QED BY <1>0, <1>4, <2>1, <2>2, FailKeepsPump
<1> QED BY <1>1, <1>2, <1>3, <1>4

LEMMA PumpNext ==
    ASSUME ForwardType, NEW x \in Pump, PumpInv(x), [Next]_vars
    PROVE  PumpInv(x)'
<1>0. x \in Poller /\ x # Ticker
  BY ForwardAssumption DEF Poller
<1>1. CASE UNCHANGED vars
  BY <1>1, SamePump DEF vars, pumpVars
<1>2. ASSUME \/ \E r \in Replica, V \in SUBSET Replica : Elect(r, V)
             \/ \E q \in Replica, t \in Term : StepDown(q, t) \/ Hear(q, t)
      PROVE  PumpInv(x)'
  <2>1. UNCHANGED <<poll, pumpVars>>
    BY <1>2 DEF Elect, StepDown, Hear
  <2> QED BY <2>1, SamePump DEF pumpVars
<1>3. ASSUME NEW y \in Poller, AskReplica(y) \/ AskNamed(y) \/ FetchFails(y)
      PROVE  PumpInv(x)'
  BY <1>0, <1>3, PollStep, SamePump
<1>4. CASE Tick
  <2>1. poll'[x] = poll[x]
    BY <1>0, <1>4 DEF Tick, StartPoll, ForwardType
  <2> QED BY <1>4, <2>1, SamePump DEF Tick, pumpVars
<1>5. ASSUME NEW y \in Poller, SetLeader(y)
      PROVE  PumpInv(x)'
  <2>0. try' = try /\ call' = call /\ appended' = appended /\ timedOut' = timedOut
    BY <1>5 DEF SetLeader
  <2>1. CASE x # y
    <3>1. poll'[x] = poll[x] /\ pc'[x] = pc[x]
      BY <1>0, <1>5, <2>1 DEF SetLeader, ForwardType
    <3> QED BY <2>0, <3>1, SamePump
  <2>2. CASE x = y
    <3>1. poll[x].at = "set" /\ pc'[x] = "forward" /\ poll'[x] = Idle
      BY <1>0, <1>5, <2>2 DEF SetLeader, ForwardType
    <3>2. pc[x] = "poll" /\ poll'[x].at = "idle"
      BY <3>1 DEF PumpInv, Idle
    <3> QED BY <2>0, <3>1, <3>2 DEF PumpInv, Refused, Accepted
  <2> QED BY <2>1, <2>2
<1>6. ASSUME NEW y \in Pump, Read(y)
      PROVE  PumpInv(x)'
  <2>0. /\ poll' = poll /\ try' = try /\ call' = call /\ appended' = appended
        /\ timedOut' = timedOut
    BY <1>6 DEF Read
  <2>1. CASE x # y
    <3>1. pc'[x] = pc[x]
      BY <1>6, <2>1 DEF Read, ForwardType
    <3> QED BY <2>0, <3>1, SamePump
  <2>2. CASE x = y
    <3>1. pc[x] = "new" /\ pc'[x] = "forward"
      BY <1>6, <2>2 DEF Read, ForwardType
    <3> QED BY <2>0, <3>1 DEF PumpInv, Refused, Accepted
  <2> QED BY <2>1, <2>2
<1>7. ASSUME NEW y \in Pump, Forward(y) \/ Answered(y) \/ TimeOut(y)
      PROVE  PumpInv(x)'
  BY <1>7, ForwardKeepsPump, AnswerKeepsPump
<1>8. ASSUME NEW y \in Pump, NEW k \in Try, HandleStroke(y, k)
      PROVE  PumpInv(x)'
  BY <1>8, HandleStrokeKeepsPump
<1> QED
  BY <1>1, <1>2, <1>3, <1>4, <1>5, <1>6, <1>7, <1>8 DEF Next, Poll


-----------------------------------------------------------------------------
(***************************************************************************)
(* A leader that stays.                                                    *)
(***************************************************************************)
LEMMA PollFindsLeader ==
    ASSUME ForwardType, NEW y \in Poller, AskReplica(y) \/ AskNamed(y),
           NEW r \in Replica, leads = {r}, PollInv(y, r)
    PROVE  PollInv(y, r)'
<1> DEFINE i == poll[y].i
<1>0. i \in 1..N /\ r \in 1..N /\ N \in Nat
  BY ForwardAssumption DEF ForwardType, Place, Replica
<1>1. poll'[y].at = "set" /\ poll'[y].found = r => PollInv(y, r)'
  BY DEF PollInv
<1>2. ASSUME AskNext(y), i < r
      PROVE  PollInv(y, r)'
  <2>1. i < N
    BY <1>0, <1>2
  <2>2. poll'[y] = Asking(i + 1)
    BY <1>2, <2>1 DEF AskNext, ForwardType
  <2>3. poll'[y].at = "ask" /\ poll'[y].i = i + 1
    BY <2>2 DEF Asking
  <2> QED BY <1>0, <1>2, <2>3 DEF PollInv
<1>3. CASE AskReplica(y)
  <2>1. i <= r
    BY <1>3 DEF PollInv, AskReplica
  <2>2. CASE i = r
    <3>1. poll'[y] = Finding(r)
      BY <1>3, <2>2 DEF AskReplica, Found, ForwardType
    <3> QED BY <1>1, <3>1 DEF Finding
  <2>3. CASE i # r /\ leaderID[i] # Nobody
    <3>1. poll' = [poll EXCEPT ![y].at = "askNamed", ![y].found = leaderID[i]]
      BY <1>3, <2>3 DEF AskReplica
    <3>2. poll'[y].at = "askNamed" /\ poll'[y].i = i
      BY <3>1 DEF ForwardType, Place
    <3> QED BY <1>0, <2>1, <2>3, <3>2 DEF PollInv
  <2>4. CASE i # r /\ leaderID[i] = Nobody
    <3>1. AskNext(y)
      BY <1>3, <2>4 DEF AskReplica
    <3> QED BY <1>0, <1>2, <2>1, <2>4, <3>1
  <2> QED BY <2>2, <2>3, <2>4
<1>4. CASE AskNamed(y)
  <2>1. i < r
    BY <1>4 DEF PollInv, AskNamed
  <2>2. CASE poll[y].found = r
    <3>1. poll'[y] = Finding(r)
      BY <1>4, <2>2 DEF AskNamed, NamedLeads, Found, ForwardType
    <3> QED BY <1>1, <3>1 DEF Finding
  <2>3. CASE poll[y].found # r
    <3>1. AskNext(y)
      BY <1>4, <2>3 DEF AskNamed, NamedLeads
    <3> QED BY <1>2, <2>1, <3>1
  <2> QED BY <2>2, <2>3
<1> QED BY <1>3, <1>4

\* A poll that starts is at the first replica; one that has ended is nowhere.
LEMMA PollStartsEnds ==
    ASSUME ForwardType, NEW y \in Poller, NEW r \in Replica,
           poll'[y] = Asking(1) \/ poll'[y] = Idle
    PROVE  PollInv(y, r)'
BY ForwardAssumption DEF PollInv, Asking, Idle, Replica

\* A pump that fails in its first try polls.
LEMMA FailKeepsCalm ==
    ASSUME ForwardType, NEW y \in Pump, Fail(y), NEW r \in Replica, 
           \A z \in Poller : PollInv(z, r)
    PROVE  \A z \in Poller : PollInv(z, r)'
<1> SUFFICES ASSUME NEW z \in Poller
             PROVE  PollInv(z, r)'
  OBVIOUS
<1>1. y \in Poller
  BY DEF Poller
<1>2. CASE poll'[z] = poll[z]
  BY <1>2 DEF PollInv
<1>3. CASE poll'[z] = Asking(1)
  BY <1>3, PollStartsEnds
<1> QED BY <1>1, <1>2, <1>3 DEF Fail, StartPoll, ForwardType

LEMMA SteadyNext ==
    ASSUME ForwardType, NEW x \in Pump, PumpInv(x), NEW r \in Replica, Steady(x, r), calm'[x],
           [Next]_vars, ~Read(x)
    PROVE  Steady(x, r)'
<1>0. /\ x \in Poller /\ x # Ticker /\ Ticker \in Poller /\ r # Nobody /\ leads = {r}
      /\ \A y \in Poller : PollInv(y, r)
      /\ SecondTry(x, r)
  BY ForwardAssumption DEF Poller, Steady, Replica, Nobody
<1>1. CASE UNCHANGED vars
  BY <1>1 DEF vars, clusterVars, pumpVars, Steady, PollInv, SecondTry
<1>2. ASSUME NoLongerCalm
      PROVE  FALSE
  BY <1>2 DEF NoLongerCalm
<1>3. ASSUME NEW y \in Poller, AskReplica(y) \/ AskNamed(y)
      PROVE  Steady(x, r)'
  <2>1. PollInv(y, r)'
    BY <1>0, <1>3, PollFindsLeader
  <2>2. ASSUME NEW z \in Poller
        PROVE  PollInv(z, r)'
    <3>1. CASE z = y
      BY <2>1, <3>1
    <3>2. CASE z # y
      <4>1. poll'[z] = poll[z] /\ PollInv(z, r)
        BY <1>0, <1>3, <3>2, PollStep
      <4> QED BY <4>1 DEF PollInv
    <3> QED BY <3>1, <3>2
  <2>3. SecondTry(x, r)'
    BY <1>0, <1>3 DEF AskReplica, AskNamed, pumpVars, SecondTry
  <2>4. leads' = {r}
    BY <1>0, <1>3 DEF AskReplica, AskNamed, clusterVars
  <2> QED BY <2>2, <2>3, <2>4 DEF Steady
<1>4. CASE Tick
  <2>1. ASSUME NEW z \in Poller
        PROVE  PollInv(z, r)'
    <3>1. CASE z = Ticker
      <4>1. poll'[z] = Asking(1)
        BY <1>0, <1>4, <3>1 DEF Tick, StartPoll, ForwardType
      <4> QED BY <4>1, PollStartsEnds
    <3>2. CASE z # Ticker
      <4>1. poll'[z] = poll[z] /\ PollInv(z, r)
        BY <1>0, <1>4, <3>2 DEF Tick, StartPoll, ForwardType
      <4> QED BY <4>1 DEF PollInv
    <3> QED BY <3>1, <3>2
  <2> QED BY <1>0, <1>4, <2>1 DEF Tick, clusterVars, pumpVars, Steady, SecondTry
<1>5. ASSUME NEW y \in Poller, SetLeader(y)
      PROVE  Steady(x, r)'
  <2>1. leaderAddr' = r
    BY <1>0, <1>5 DEF SetLeader, PollInv
  <2>2. ASSUME NEW z \in Poller
        PROVE  PollInv(z, r)'
    <3>1. CASE z = y
      <4>1. poll'[z] = Idle
        BY <1>5, <3>1 DEF SetLeader, ForwardType
      <4> QED BY <4>1, PollStartsEnds
    <3>2. CASE z # y
      <4>1. poll'[z] = poll[z] /\ PollInv(z, r)
        BY <1>0, <1>5, <3>2 DEF SetLeader, ForwardType
      <4> QED BY <4>1 DEF PollInv
    <3> QED BY <3>1, <3>2
  <2>3. try' = try /\ call' = call /\ (pc'[x] = pc[x] \/ pc'[x] = "forward")
    BY <1>5 DEF SetLeader, ForwardType
  <2>4. SecondTry(x, r)'
    BY <1>0, <2>1, <2>3 DEF SecondTry
  <2>5. leads' = {r}
    BY <1>0, <1>5 DEF SetLeader, clusterVars
  <2> QED BY <2>2, <2>4, <2>5 DEF Steady
<1>6. ASSUME NEW y \in Pump, Read(y), y # x
      PROVE  Steady(x, r)'
  <2>1. pc'[x] = pc[x]
    BY <1>6 DEF Read, ForwardType
  <2> QED BY <1>0, <1>6, <2>1 DEF Read, clusterVars, Steady, SecondTry, PollInv
<1>7. ASSUME NEW y \in Pump, Forward(y)
      PROVE  Steady(x, r)'
  <2>0. leads' = {r} /\ leaderAddr' = leaderAddr
    BY <1>0, <1>7 DEF Forward, clusterVars
  <2>1. \A z \in Poller : PollInv(z, r)'
    <3>1. CASE Fail(y)
      BY <1>0, <3>1, FailKeepsCalm
    <3>2. CASE poll' = poll
      BY <1>0, <3>2 DEF PollInv
    <3> QED BY <1>7, <3>1, <3>2 DEF Forward
  <2>2. CASE x # y
    <3>1. pc'[x] = pc[x] /\ try'[x] = try[x] /\ call'[x] = call[x]
      <4>1. CASE leaderAddr = Nobody
        BY <1>7, <2>2, <4>1, FailOther DEF Forward
      <4>2. CASE leaderAddr # Nobody
        BY <1>7, <2>2, <4>2 DEF Forward, ForwardType
      <4> QED BY <4>1, <4>2
    <3> QED BY <1>0, <2>0, <2>1, <3>1 DEF Steady, SecondTry
  <2>3. CASE x = y /\ try[x] = 1
    <3>1. CASE leaderAddr = Nobody
      <4>1. pc'[x] = "poll"
        BY <1>7, <2>3, <3>1 DEF Forward, Fail, ForwardType
      <4> QED BY <2>0, <2>1, <4>1 DEF Steady, SecondTry
    <3>2. CASE leaderAddr # Nobody
      <4>1. pc'[x] = "wait" /\ try' = try
        BY <1>7, <2>3, <3>2 DEF Forward, ForwardType
      <4> QED BY <2>0, <2>1, <2>3, <4>1 DEF Steady, SecondTry
    <3> QED BY <3>1, <3>2
  <2>4. CASE x = y /\ try[x] = 2
    <3>1. leaderAddr = r
      BY <1>0, <1>7, <2>4 DEF Forward, SecondTry
    <3>2. /\ pc'[x] = "wait" /\ try' = try
          /\ call' = [call EXCEPT ![x][2] = [to |-> r, at |-> "sent"]]
      BY <1>0, <1>7, <2>4, <3>1 DEF Forward, ForwardType
    <3>3. call'[x][2].to = r /\ call'[x][2].at = "sent"
      BY <3>2 DEF ForwardType, Try
    <3> QED BY <2>0, <2>1, <3>2, <3>3 DEF Steady, SecondTry
  <2> QED BY <2>2, <2>3, <2>4 DEF ForwardType, Try
<1>8. ASSUME NEW y \in Pump, Answered(y)
      PROVE  Steady(x, r)'
  <2>0. leads' = {r} /\ leaderAddr' = leaderAddr /\ call' = call
    BY <1>0, <1>8 DEF Answered, clusterVars
  <2>1. CASE IsSuccess(call[y][try[y]].at)
    <3>1. poll' = poll /\ try' = try /\ (pc'[x] = pc[x] \/ pc'[x] = "ok")
      BY <1>8, <2>1 DEF Answered, ForwardType
    <3> QED BY <1>0, <2>0, <3>1 DEF Steady, SecondTry, PollInv
  <2>2. CASE ~IsSuccess(call[y][try[y]].at)
    <3>1. Fail(y) /\ call[y][try[y]].at = "503" /\ pc[y] = "wait"
      BY <1>8, <2>2 DEF Answered, IsSuccess
    <3>2. \A z \in Poller : PollInv(z, r)'
      BY <1>0, <3>1, FailKeepsCalm
    <3>3. CASE x # y
      BY <1>0, <2>0, <3>1, <3>2, <3>3, FailOther DEF Steady, SecondTry
    <3>4. CASE x = y
      <4>1. try[x] = 1
        BY <1>0, <3>1, <3>4 DEF SecondTry, ForwardType, Try
      <4>2. pc'[x] = "poll"
        BY <3>1, <3>4, <4>1 DEF Fail, ForwardType
      <4> QED BY <2>0, <3>2, <4>2 DEF Steady, SecondTry
    <3> QED BY <3>3, <3>4
  <2> QED BY <2>1, <2>2
<1>9. ASSUME NEW y \in Pump, NEW k \in Try, HandleStroke(y, k)
      PROVE  Steady(x, r)'
  <2>0. /\ leads' = {r} /\ leaderAddr' = leaderAddr /\ poll' = poll /\ pc' = pc /\ try' = try
    BY <1>0, <1>9 DEF HandleStroke, clusterVars
  <2>1. \A z \in Poller : PollInv(z, r)'
    BY <1>0, <2>0 DEF PollInv
  <2>2. call'[x][2].to = call[x][2].to
    BY <1>9 DEF HandleStroke, ForwardType, Try, Call
  <2>3. call[x][2].to = r /\ call[x][2].at # "503" => call'[x][2].at # "503"
    <3>1. CASE y = x /\ k = 2
      BY <1>0, <1>9, <3>1 DEF HandleStroke, ForwardType, Try, Call
    <3>2. CASE ~(y = x /\ k = 2)
      <4>1. call'[x][2] = call[x][2]
        BY <1>9, <3>2 DEF HandleStroke, ForwardType, Try
      <4> QED BY <4>1
    <3> QED BY <3>1, <3>2
  <2> QED BY <1>0, <2>0, <2>1, <2>2, <2>3 DEF Steady, SecondTry
<1>10. ASSUME \/ \E q \in Replica, V \in SUBSET Replica : Elect(q, V)
              \/ \E q \in Replica, t \in Term : StepDown(q, t) \/ Hear(q, t)
              \/ \E y \in Poller : FetchFails(y)
              \/ \E y \in Pump : TimeOut(y)
       PROVE  FALSE
  BY <1>2, <1>10 DEF Elect, StepDown, Hear, FetchFails, TimeOut
<1> QED
  BY <1>1, <1>3, <1>4, <1>5, <1>6, <1>7, <1>8, <1>9, <1>10 DEF Next, Poll

LEMMA CalmNext ==
    ASSUME ForwardType, NEW x \in Pump, PumpInv(x), CalmInv(x), [Next]_vars
    PROVE  CalmInv(x)'
<1> SUFFICES ASSUME calm'[x]
             PROVE  \E r \in Replica : Steady(x, r)'
  BY DEF CalmInv
<1>1. CASE Read(x)
  <2>1. OnlyOneLeads /\ \A y \in Poller : poll[y].at = "idle"
    BY <1>1 DEF Read, ForwardType
  <2>2. IsFiniteSet(leads)
    <3>1. IsFiniteSet(Replica)
      <4>1. 1 \in Int /\ N \in Int
        BY ForwardAssumption
      <4> QED BY <4>1, FS_Interval DEF Replica
    <3>2. leads \in SUBSET Replica
      BY DEF ForwardType
    <3> QED BY <3>1, <3>2, FS_Subset
  <2>3. PICK r : leads = {r}
    BY <2>1, <2>2, FS_Singleton DEF OnlyOneLeads
  <2>4. r \in Replica
    BY <2>3 DEF ForwardType
  <2>5. pc'[x] = "forward" /\ try'[x] = 1 /\ poll' = poll /\ leads' = leads
    BY <1>1 DEF Read, PumpInv, clusterVars, ForwardType
  <2>6. Steady(x, r)'
    BY <2>1, <2>3, <2>5 DEF Steady, SecondTry, PollInv
  <2> QED BY <2>4, <2>6
<1>2. CASE ~Read(x)
  <2>1. calm[x]
    <3>1. calm' = calm \/ NoLongerCalm \/ \E y \in Pump : Read(y)
      BY DEF Next, vars, Elect, StepDown, Hear, Poll, AskReplica, AskNamed, SetLeader, FetchFails,
             Tick, Forward, Answered, TimeOut, HandleStroke
    <3>2. ASSUME NEW y \in Pump, Read(y)
          PROVE  calm'[x] = calm[x]
      BY <1>2, <3>2 DEF Read, ForwardType
    <3> QED BY <3>1, <3>2 DEF NoLongerCalm
  <2>2. PICK r \in Replica : Steady(x, r)
    BY <2>1 DEF CalmInv
  <2> QED BY <1>2, <2>2, SteadyNext
<1> QED BY <1>1, <1>2

-----------------------------------------------------------------------------
LEMMA ForwardInvInit == Init => ForwardInv
<1> SUFFICES ASSUME Init
             PROVE  ForwardInv
  OBVIOUS
<1>1. ForwardType
  <2>1. Idle \in Place /\ [to |-> Nobody, at |-> "none"] \in Call
    BY PlaceType DEF Call
  <2> QED BY <2>1, PlaceType DEF Init, ForwardType, Try
<1>2. ASSUME NEW x \in Pump
      PROVE  PumpInv(x) /\ CalmInv(x)
  <2>1. x \in Poller /\ poll[x].at = "idle"
    BY DEF Init, Poller, Idle
  <2> QED BY <2>1 DEF Init, PumpInv, CalmInv, Refused, Accepted, Try
<1> QED BY <1>1, <1>2 DEF ForwardInv

LEMMA ForwardInvNext == ForwardInv /\ [Next]_vars => ForwardInv'
BY ForwardTypeNext, PumpNext, CalmNext DEF ForwardInv

LEMMA ForwardInvariant == Spec => []ForwardInv
BY ForwardInvInit, ForwardInvNext, PTL DEF Spec

\* forwardToLeader tells the truth, whoever led at its two calls: without an error the
\* stroke was appended, with one it was not, and it was never appended twice, where only
\* a call that timed out may be the exception to the last two.
THEOREM BrowserToldTheTruth == Spec => []ToldTheTruth
<1>1. ForwardInv => ToldTheTruth
  <2> SUFFICES ASSUME ForwardInv, NEW x \in Pump
               PROVE  /\ pc[x] = "ok" => appended[x] >= 1
                      /\ pc[x] = "error" /\ ~timedOut[x] => appended[x] = 0
                      /\ appended[x] > 1 => timedOut[x]
    BY DEF ToldTheTruth
  <2>1. PumpInv(x) /\ try[x] \in {1, 2}
    BY DEF ForwardInv, ForwardType, Try
  <2>2. pc[x] = "ok" => appended[x] >= 1
    BY <2>1 DEF PumpInv, Accepted
  <2>3. pc[x] = "error" /\ ~timedOut[x] => appended[x] = 0
    BY <2>1 DEF PumpInv, Refused, Accepted
  <2>4. appended[x] > 1 => timedOut[x]
    BY <2>1 DEF PumpInv, Refused, Accepted
  <2> QED BY <2>2, <2>3, <2>4
<1> QED BY <1>1, ForwardInvariant, PTL

\* The poll before the retry finds a replica that alone leads and stays the leader,
\* wherever it comes in replicaAddrs and whomever the others name.
THEOREM RetryIsEnough == Spec => []RetryFindsLeader
<1>1. ForwardInv => RetryFindsLeader
  BY DEF ForwardInv, CalmInv, Steady, SecondTry, RetryFindsLeader
<1> QED BY <1>1, ForwardInvariant, PTL


=============================================================================
