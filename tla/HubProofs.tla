----------------------------- MODULE HubProofs -----------------------------
(***************************************************************************)
(* The hub, for any number of clients and strokes and for channels of any  *)
(* capacity: it never panics itself, and no stroke falls into a gap        *)
(* between the replay of the history and the broadcast.                    *)
(*                                                                         *)
(* The strokes a client shall see are of two kinds.  Those announced after *)
(* it was registered come to it through the broadcast, whatever its replay *)
(* does; those its replay has fetched come to it through the replay.  Each *)
(* kind has an invariant of its own, which the other's steps preserve.     *)
(* What is left was announced before it was registered, and so, since      *)
(* HandleWS registers first, before its history was asked for.             *)
(***************************************************************************)
EXTENDS Hub, SequenceTheorems, TLAPS

HubType ==
    /\ committed \in Nat /\ posts \in Nat /\ announced \subseteq Index /\ broadcast \in Seq(Nat)
    /\ clients \subseteq Client
    /\ closed \in [Client -> BOOLEAN] /\ dropping \in [Client -> Nat]
    /\ send \in [Client -> Seq(Nat)] /\ history \in [Client -> Seq(Nat)]
    /\ fetched \in [Client -> Nat]
    /\ joined \in [Client -> SUBSET Index] /\ asked \in [Client -> SUBSET Index]
    /\ conn \in [Client -> {"new", "open", "closed"}]
    /\ reader \in [Client -> {"off", "reading", "leaving", "done"}]
    /\ writer \in [Client -> {"off", "on", "done"}]
    /\ replay \in [Client -> {"off", "fetch", "send", "failed"}]
    /\ shown \in [Client -> SUBSET Nat] /\ missed \in [Client -> SUBSET Nat]

\* What has reached client c, or is in its own channel; and what is on the hub's
\* side, or has been given up.
Reached(c) == (shown[c] \cup Elements(send[c])) \ {Error}
UnderWay(c) == Elements(broadcast) \cup lost \cup missed[c]

\* The strokes announced since c was registered ...
Broadcasted(c) == \A i \in announced \ joined[c] : i \in Reached(c) \cup UnderWay(c)

\* ... and those its replay has fetched.
Replayed(c) ==
    replay[c] = "send" => \A i \in 1..fetched[c] : i \in Reached(c) \cup Elements(history[c])

\* What was announced before c was registered was announced before its history was
\* asked for.
RegisteredFirst(c) ==
    /\ joined[c] \subseteq announced
    /\ replay[c] = "send" => joined[c] \subseteq asked[c]

\* A channel is closed when its client leaves the hub, and no client comes back.
ClientInv(c) ==
    /\ conn[c] = "new" => c \notin clients /\ ~closed[c]
    /\ c \in clients => ~closed[c]
    /\ RegisteredFirst(c)
    /\ c \in clients /\ conn[c] = "open" => Broadcasted(c) /\ Replayed(c)

HubInv == HubType /\ panic # "hub" /\ \A c \in Client : ClientInv(c)

-----------------------------------------------------------------------------
(***************************************************************************)
(* Channels.                                                               *)
(***************************************************************************)
LEMMA AppendElements ==
    ASSUME NEW s \in Seq(Nat), NEW x \in Nat
    PROVE  Elements(Append(s, x)) = Elements(s) \cup {x}
<1> DEFINE t == Append(s, x)
<1>1. /\ Len(s) \in Nat /\ Len(t) = Len(s) + 1 /\ t[Len(s) + 1] = x
      /\ \A i \in 1..Len(s) : t[i] = s[i]
  BY AppendProperties, LenProperties
<1> HIDE DEF t
<1>2. Elements(t) \subseteq Elements(s) \cup {x}
  BY <1>1 DEF Elements
<1>3. Elements(s) \subseteq Elements(t)
  BY <1>1 DEF Elements
<1>4. x \in Elements(t)
  BY <1>1 DEF Elements
<1> QED
  BY <1>2, <1>3, <1>4 DEF t

LEMMA TailElements ==
    ASSUME NEW s \in Seq(Nat), s # << >>
    PROVE  /\ Tail(s) \in Seq(Nat) /\ Head(s) \in Nat
           /\ Elements(s) = {Head(s)} \cup Elements(Tail(s))
<1> DEFINE t == Tail(s)
<1>1. /\ t \in Seq(Nat) /\ Head(s) \in Nat /\ Head(s) = s[1] /\ Len(s) \in Nat \ {0}
      /\ Len(t) = Len(s) - 1 /\ \A i \in 1..Len(t) : t[i] = s[i + 1]
  BY HeadTailProperties, EmptySeq, LenProperties, ElementOfSeq
<1> HIDE DEF t
<1>2. Elements(t) \subseteq Elements(s) /\ Head(s) \in Elements(s)
  BY <1>1 DEF Elements
<1>3. ASSUME NEW i \in 1..Len(s), i # 1
      PROVE  s[i] \in Elements(t)
  <2>1. i - 1 \in 1..Len(t) /\ t[i - 1] = s[i]
    BY <1>1, <1>3
  <2> QED BY <2>1 DEF Elements
<1>4. Elements(s) \subseteq {Head(s)} \cup Elements(t)
  BY <1>1, <1>3 DEF Elements
<1> QED
  BY <1>1, <1>2, <1>4 DEF t

-----------------------------------------------------------------------------
(***************************************************************************)
(* One step.                                                               *)
(***************************************************************************)
LEMMA HubTypeNext ==
    ASSUME HubType, [Next]_vars
    PROVE  HubType'
<1> USE DEF HubType
<1>1. CASE UNCHANGED vars
  BY <1>1 DEF vars, logVars, hubVars, replayVars, pumpVars
<1>2. CASE Commit
  BY <1>2 DEF Commit, hubVars, replayVars, pumpVars
<1>3. ASSUME NEW i \in Index, HandleCommit(i)
      PROVE  HubType'
  <2>1. i \in Nat
    BY HubAssumption DEF Index
  <2>2. Append(broadcast, i) \in Seq(Nat)
    BY <2>1, AppendProperties
  <2>3. broadcast' \in Seq(Nat)
    BY <1>3, <2>2 DEF HandleCommit
  <2>4. posts' \in Nat /\ announced' \subseteq Index
    BY <1>3 DEF HandleCommit
  <2> QED BY <1>3, <2>3, <2>4 DEF HandleCommit, hubVars, replayVars, pumpVars
<1>4. CASE BroadcastStroke
  <2>1. Tail(broadcast) \in Seq(Nat) /\ Head(broadcast) \in Nat
    BY <1>4, TailElements DEF BroadcastStroke
  <2>2. send' \in [Client -> Seq(Nat)] /\ broadcast' \in Seq(Nat)
    BY <1>4, <2>1, AppendProperties DEF BroadcastStroke
  <2>3. dropping' \in [Client -> Nat] /\ missed' \in [Client -> SUBSET Nat]
    BY <1>4, <2>1 DEF BroadcastStroke, OneMoreDropper
  <2> QED BY <1>4, <2>2, <2>3 DEF BroadcastStroke, replayVars, pumpVars
<1>5. ASSUME NEW c \in Client, Register(c)
      PROVE  HubType'
  BY <1>5 DEF Register, Admit, logVars
<1>6. ASSUME NEW c \in Client, UnregisterSlow(c) \/ UnregisterLeaver(c)
      PROVE  HubType'
  <2>1. clients' \subseteq Client /\ closed' \in [Client -> BOOLEAN]
    <3>1. CloseIfRegistered(c)
      BY <1>6 DEF UnregisterSlow, UnregisterLeaver
    <3>2. CASE c \in clients
      BY <3>1, <3>2 DEF CloseIfRegistered
    <3>3. CASE c \notin clients
      <4>1. clients' = clients /\ closed' = closed
        BY <3>1, <3>3 DEF CloseIfRegistered
      <4> QED BY <4>1
    <3> QED BY <3>2, <3>3
  <2>2. CASE UnregisterSlow(c)
    <3>1. dropping' \in [Client -> Nat]
      <4>1. dropping[c] \in Nat /\ dropping[c] > 0
        BY <2>2 DEF UnregisterSlow
      <4>2. dropping[c] - 1 \in Nat
        BY <4>1
      <4> QED BY <2>2, <4>2 DEF UnregisterSlow
    <3> QED BY <2>1, <2>2, <3>1 DEF UnregisterSlow, logVars, replayVars, pumpVars
  <2>3. CASE UnregisterLeaver(c)
    BY <2>1, <2>3 DEF UnregisterLeaver, logVars, replayVars
  <2> QED BY <1>6, <2>2, <2>3
<1>7. ASSUME NEW c \in Client, Disconnect(c) \/ ReadFails(c) \/ WriterEnds(c)
      PROVE  HubType'
  BY <1>7 DEF Disconnect, ReadFails, WriterEnds, logVars, hubVars, replayVars
<1>8. ASSUME NEW c \in Client, SendError(c)
      PROVE  HubType'
  <2>1. send' \in [Client -> Seq(Nat)]
    BY <1>8, AppendProperties DEF SendError, Error
  <2> QED BY <1>8, <2>1 DEF SendError, logVars, hubVars, replayVars, pumpVars
<1>9. ASSUME NEW c \in Client, WriteMessage(c)
      PROVE  HubType'
  <2>1. Tail(send[c]) \in Seq(Nat) /\ Head(send[c]) \in Nat
    BY <1>9, TailElements DEF WriteMessage
  <2> QED BY <1>9, <2>1 DEF WriteMessage, logVars, hubVars, replayVars
<1>10. ASSUME NEW c \in Client, NEW k \in 0..Len(send[c]), WriteFails(c, k)
       PROVE  HubType'
  <2>1. SubSeq(send[c], k + 1, Len(send[c])) \in Seq(Nat)
    BY LenProperties, SubSeqProperties
  <2> QED BY <1>10, <2>1 DEF WriteFails, logVars, hubVars, replayVars
<1>11. ASSUME NEW c \in Client, NEW k \in 0..MaxStrokes, FetchHistory(c, k)
       PROVE  HubType'
  <2>1. GetSyncLog(k) \in Seq(Nat) /\ k \in Nat
    BY HubAssumption DEF GetSyncLog
  <2> QED BY <1>11, <2>1 DEF FetchHistory, logVars, hubVars, pumpVars
<1>12. ASSUME NEW c \in Client, FetchFails(c)
       PROVE  HubType'
  BY <1>12 DEF FetchFails, logVars, hubVars, pumpVars
<1>13. ASSUME NEW c \in Client, SendHistory(c)
       PROVE  HubType'
  <2>1. Tail(history[c]) \in Seq(Nat) /\ Head(history[c]) \in Nat
    BY <1>13, TailElements DEF SendHistory
  <2>2. Append(send[c], Head(history[c])) \in Seq(Nat)
    BY <2>1, AppendProperties
  <2> QED BY <1>13, <2>1, <2>2 DEF SendHistory, logVars, hubVars, pumpVars
<1> QED
  BY <1>1, <1>2, <1>3, <1>4, <1>5, <1>6, <1>7, <1>8, <1>9, <1>10, <1>11, <1>12, <1>13
  DEF Next, Reader, Writer

\* The steps of others, and those that only end something: nothing that has come to
\* the client or is on its way to it goes.
LEMMA KeepsClient ==
    ASSUME NEW c \in Client, ClientInv(c), joined' = joined, announced' = announced,
           closed'[c] = closed[c], c \in clients' <=> c \in clients,
           conn'[c] = conn[c] \/ conn'[c] = "closed",
           replay'[c] = "send" => replay[c] = "send" /\ asked'[c] = asked[c],
           conn'[c] = "open" => Reached(c) \cup UnderWay(c) \subseteq Reached(c)' \cup UnderWay(c)',
           conn'[c] = "open" /\ replay'[c] = "send" =>
              /\ fetched'[c] = fetched[c]
              /\ Reached(c) \cup Elements(history[c])
                    \subseteq Reached(c)' \cup Elements(history'[c])
    PROVE  ClientInv(c)'
<1>1. (conn[c] = "new" => c \notin clients /\ ~closed[c])' /\ (c \in clients => ~closed[c])'
  BY DEF ClientInv
<1>2. ASSUME (c \in clients /\ conn[c] = "open")'
      PROVE  Broadcasted(c)' /\ Replayed(c)'
  <2>1. c \in clients /\ conn[c] = "open" /\ conn'[c] = "open"
    BY <1>2
  <2>2. Broadcasted(c) /\ Replayed(c)
    BY <2>1 DEF ClientInv
  <2>3. Broadcasted(c)'
    BY <2>1, <2>2 DEF Broadcasted
  <2>4. Replayed(c)'
    BY <2>1, <2>2 DEF Replayed
  <2> QED BY <2>3, <2>4
<1>3. RegisteredFirst(c)'
  BY DEF ClientInv, RegisteredFirst
<1> QED
  BY <1>1, <1>2, <1>3 DEF ClientInv

\* The same for a client whose channels the step does not touch.
LEMMA OtherClient ==
    ASSUME NEW c \in Client, ClientInv(c), joined' = joined, announced' = announced,
           broadcast' = broadcast, lost' = lost, missed' = missed,
           closed'[c] = closed[c], c \in clients' <=> c \in clients,
           conn'[c] = conn[c] \/ conn'[c] = "closed",
           shown'[c] = shown[c], send'[c] = send[c], history'[c] = history[c],
           fetched'[c] = fetched[c], asked'[c] = asked[c],
           replay'[c] = "send" => replay[c] = "send"
    PROVE  ClientInv(c)'
<1>1. Reached(c)' = Reached(c) /\ UnderWay(c)' = UnderWay(c)
  BY DEF Reached, UnderWay
<1> QED BY <1>1, KeepsClient

LEMMA HandleCommitKeeps ==
    ASSUME HubType, NEW c \in Client, ClientInv(c), NEW i \in Index, HandleCommit(i)
    PROVE  ClientInv(c)'
<1>1. i \in Nat /\ announced' = announced \cup {i} /\ joined' = joined
  BY HubAssumption DEF HandleCommit, Index
<1>2. Reached(c)' = Reached(c) /\ Replayed(c)' = Replayed(c)
  BY DEF HandleCommit, Reached, Replayed, pumpVars, replayVars
<1>3. UnderWay(c) \cup {i} \subseteq UnderWay(c)'
  <2>1. Elements(Append(broadcast, i)) = Elements(broadcast) \cup {i}
    BY <1>1, AppendElements DEF HubType
  <2> QED BY <2>1 DEF HandleCommit, UnderWay, hubVars
<1>4. Broadcasted(c) => Broadcasted(c)'
  BY <1>1, <1>2, <1>3 DEF Broadcasted
<1>5. RegisteredFirst(c)'
  BY <1>1 DEF ClientInv, RegisteredFirst, HandleCommit, replayVars
<1> QED
  BY <1>2, <1>4, <1>5 DEF ClientInv, HandleCommit, hubVars, pumpVars

LEMMA RegisterKeeps ==
    ASSUME HubType, NEW c \in Client, ClientInv(c), NEW d \in Client, Register(d)
    PROVE  ClientInv(c)'
<1> USE DEF Register, Admit
<1>1. CASE c # d
  <2>1. c \in clients' <=> c \in clients
    BY <1>1
  <2>2. conn'[c] = conn[c] /\ replay'[c] = replay[c] /\ joined'[c] = joined[c]
    BY <1>1 DEF HubType
  <2>3. Reached(c)' = Reached(c) /\ UnderWay(c)' = UnderWay(c)
    BY DEF Reached, UnderWay, logVars
  <2>4. /\ announced' = announced /\ closed' = closed /\ history' = history
        /\ fetched' = fetched /\ asked' = asked
    BY DEF logVars
  <2>5. Broadcasted(c)' = Broadcasted(c) /\ Replayed(c)' = Replayed(c)
    BY <2>2, <2>3, <2>4 DEF Broadcasted, Replayed
  <2>6. RegisteredFirst(c)'
    BY <2>2, <2>4 DEF ClientInv, RegisteredFirst
  <2> QED BY <2>1, <2>2, <2>4, <2>5, <2>6 DEF ClientInv
<1>2. CASE c = d
  <2>1. conn[c] = "new" /\ ~closed[c] /\ closed' = closed /\ conn'[c] = "open"
    BY <1>2 DEF ClientInv, HubType
  <2>2. joined'[c] = announced /\ announced' = announced /\ replay'[c] = "fetch"
    BY <1>2 DEF logVars, HubType
  <2>3. Broadcasted(c)' /\ Replayed(c)' /\ RegisteredFirst(c)'
    BY <2>2 DEF Broadcasted, Replayed, RegisteredFirst
  <2> QED BY <2>1, <2>3 DEF ClientInv
<1> QED BY <1>1, <1>2

LEMMA UnregisterKeeps ==
    ASSUME HubType, panic # "hub", NEW d \in Client, ClientInv(d),
           UnregisterSlow(d) \/ UnregisterLeaver(d)
    PROVE  /\ panic' # "hub"
           /\ \A c \in Client : ClientInv(c) => ClientInv(c)'
<1>1. CloseIfRegistered(d)
  BY DEF UnregisterSlow, UnregisterLeaver
<1>2. /\ broadcast' = broadcast /\ lost' = lost /\ announced' = announced /\ missed' = missed
      /\ send' = send /\ history' = history /\ fetched' = fetched /\ replay' = replay
      /\ shown' = shown /\ joined' = joined /\ asked' = asked
  BY DEF UnregisterSlow, UnregisterLeaver, logVars, replayVars, pumpVars
<1>3. \A c \in Client : conn'[c] = conn[c] \/ conn'[c] = "closed"
  BY DEF UnregisterSlow, UnregisterLeaver, pumpVars, HubType
<1>4. panic' # "hub"
  BY <1>1 DEF CloseIfRegistered, ClientInv
<1>5. ASSUME NEW c \in Client, ClientInv(c), c # d \/ d \notin clients
      PROVE  ClientInv(c)'
  <2>1. closed'[c] = closed[c] /\ (c \in clients' <=> c \in clients)
    BY <1>1, <1>5 DEF CloseIfRegistered, HubType
  <2> QED BY <1>2, <1>3, <1>5, <2>1, OtherClient
<1>6. ASSUME d \in clients
      PROVE  ClientInv(d)'
  <2>1. d \notin clients' /\ conn[d] # "new"
    BY <1>1, <1>6 DEF CloseIfRegistered, ClientInv
  <2>2. conn'[d] # "new"
    BY <1>3, <2>1
  <2>3. RegisteredFirst(d)'
    BY <1>2 DEF ClientInv, RegisteredFirst
  <2> QED BY <2>1, <2>2, <2>3 DEF ClientInv
<1> QED
  BY <1>4, <1>5, <1>6

LEMMA BroadcastKeeps ==
    ASSUME HubType, panic # "hub", \A c \in Client : ClientInv(c), BroadcastStroke
    PROVE  /\ panic' # "hub"
           /\ \A c \in Client : ClientInv(c)'
<1> DEFINE i == Head(broadcast)
<1>1. panic' # "hub"
  BY DEF BroadcastStroke, ClientInv, HubType
<1>2. i \in Nat /\ Elements(broadcast) = {i} \cup Elements(broadcast')
  BY TailElements DEF BroadcastStroke, HubType
<1>3. /\ joined' = joined /\ announced' = announced /\ closed' = closed /\ clients' = clients
      /\ conn' = conn /\ replay' = replay /\ fetched' = fetched /\ history' = history
      /\ shown' = shown /\ lost' = lost /\ asked' = asked
  BY DEF BroadcastStroke, replayVars, pumpVars
<1>4. ASSUME NEW c \in Client
      PROVE  /\ send'[c] = IF c \in clients /\ ~Full(c) THEN Append(send[c], i) ELSE send[c]
             /\ missed'[c] = IF c \in clients /\ Full(c) THEN missed[c] \cup {i} ELSE missed[c]
  BY DEF BroadcastStroke
<1> HIDE DEF i
<1>5. ASSUME NEW c \in Client
      PROVE  /\ Elements(send[c]) \subseteq Elements(send'[c]) /\ missed[c] \subseteq missed'[c]
             /\ c \in clients => i \in Elements(send'[c]) \cup missed'[c]
  <2>1. Elements(Append(send[c], i)) = Elements(send[c]) \cup {i}
    BY <1>2, AppendElements DEF HubType
  <2> QED BY <1>4, <2>1
<1>6. ASSUME NEW c \in Client, c \in clients
      PROVE  ClientInv(c)'
  <2>0. i # Error => i \in Reached(c)' \cup UnderWay(c)'
    BY <1>5, <1>6 DEF Reached, UnderWay
  <2>1. Reached(c) \subseteq Reached(c)' 
    BY <1>3, <1>5 DEF Reached
  <2>2. \A j \in Reached(c) \cup UnderWay(c) : j # Error => j \in Reached(c)' \cup UnderWay(c)'
    BY <1>2, <1>3, <1>5, <2>0, <2>1 DEF UnderWay
  <2>3. Broadcasted(c) => Broadcasted(c)'
    <3> SUFFICES ASSUME Broadcasted(c), NEW j \in announced \ joined[c]
                 PROVE  j \in Reached(c)' \cup UnderWay(c)'
      BY <1>3 DEF Broadcasted
    <3>1. j # Error
      BY HubAssumption DEF HubType, Index, Error
    <3> QED BY <2>2, <3>1 DEF Broadcasted
  <2>4. Replayed(c) => Replayed(c)'
    BY <1>3, <2>1 DEF Replayed
  <2> QED BY <1>3, <2>3, <2>4 DEF ClientInv, RegisteredFirst
<1>7. ASSUME NEW c \in Client, c \notin clients
      PROVE  ClientInv(c)'
  BY <1>3, <1>7 DEF ClientInv, RegisteredFirst
<1> QED
  BY <1>1, <1>6, <1>7


\* The pumps, the errors and the replay: what leaves a channel has been shown, and
\* what leaves the history is in the channel.
LEMMA WriteMessageKeeps ==
    ASSUME HubType, NEW c \in Client, ClientInv(c), NEW d \in Client, WriteMessage(d)
    PROVE  ClientInv(c)'
<1>1. /\ joined' = joined /\ announced' = announced /\ closed' = closed /\ clients' = clients
      /\ conn' = conn /\ replay' = replay /\ fetched' = fetched /\ history' = history
      /\ broadcast' = broadcast /\ lost' = lost /\ missed' = missed /\ asked' = asked
  BY DEF WriteMessage, logVars, hubVars, replayVars
<1>2. CASE c # d
  <2>1. shown'[c] = shown[c] /\ send'[c] = send[c]
    BY <1>2 DEF WriteMessage, HubType
  <2> QED BY <1>1, <2>1, OtherClient
<1>3. CASE c = d
  <2>1. Elements(send[c]) = {Head(send[c])} \cup Elements(Tail(send[c]))
    BY <1>3, TailElements DEF WriteMessage, HubType
  <2>2. send'[c] = Tail(send[c]) /\ shown'[c] = shown[c] \cup ({Head(send[c])} \ {Error})
    BY <1>3 DEF WriteMessage, HubType
  <2>3. Reached(c)' = Reached(c)
    BY <2>1, <2>2 DEF Reached
  <2>4. UnderWay(c)' = UnderWay(c)
    BY <1>1 DEF UnderWay
  <2> QED BY <1>1, <2>3, <2>4, KeepsClient
<1> QED BY <1>2, <1>3

LEMMA SendErrorKeeps ==
    ASSUME HubType, NEW c \in Client, ClientInv(c), NEW d \in Client, SendError(d)
    PROVE  ClientInv(c)'
<1>1. /\ joined' = joined /\ announced' = announced /\ closed' = closed /\ clients' = clients
      /\ conn' = conn /\ replay' = replay /\ fetched' = fetched /\ history' = history
      /\ broadcast' = broadcast /\ lost' = lost /\ missed' = missed /\ shown' = shown
      /\ asked' = asked
  BY DEF SendError, logVars, hubVars, replayVars, pumpVars
<1>2. send'[c] = send[c] \/ send'[c] = Append(send[c], Error)
  BY DEF SendError, HubType
<1>3. Elements(Append(send[c], Error)) = Elements(send[c]) \cup {Error}
  BY AppendElements DEF HubType, Error
<1>4. Reached(c)' = Reached(c)
  BY <1>1, <1>2, <1>3 DEF Reached
<1>5. UnderWay(c)' = UnderWay(c)
  BY <1>1 DEF UnderWay
<1> QED BY <1>1, <1>4, <1>5, KeepsClient

LEMMA FetchHistoryKeeps ==
    ASSUME HubType, NEW c \in Client, ClientInv(c), NEW d \in Client, NEW k \in 0..MaxStrokes,
           FetchHistory(d, k)
    PROVE  ClientInv(c)'
<1>1. /\ joined' = joined /\ announced' = announced /\ closed' = closed /\ clients' = clients
      /\ conn' = conn /\ send' = send
      /\ broadcast' = broadcast /\ lost' = lost /\ missed' = missed /\ shown' = shown
  BY DEF FetchHistory, logVars, hubVars, pumpVars
<1>2. CASE c # d
  <2>1. /\ history'[c] = history[c] /\ fetched'[c] = fetched[c] /\ replay'[c] = replay[c]
        /\ asked'[c] = asked[c]
    BY <1>2 DEF FetchHistory, HubType
  <2> QED BY <1>1, <2>1, OtherClient
<1>3. CASE c = d
  <2>1. history'[c] = GetSyncLog(k) /\ fetched'[c] = k /\ k \in Nat
    BY <1>3, HubAssumption DEF FetchHistory, HubType
  <2>2. Elements(GetSyncLog(k)) = 1..k
    <3>1. Len(GetSyncLog(k)) = k /\ \A i \in 1..k : GetSyncLog(k)[i] = i
      BY <2>1 DEF GetSyncLog
    <3> QED BY <3>1 DEF Elements
  <2>3. Replayed(c)'
    BY <2>1, <2>2 DEF Replayed
  <2>4. Broadcasted(c)' = Broadcasted(c)
    BY <1>1 DEF Broadcasted, Reached, UnderWay
  <2>5. asked'[c] = announced
    BY <1>3 DEF FetchHistory, HubType
  <2>6. RegisteredFirst(c)'
    BY <1>1, <2>5 DEF ClientInv, RegisteredFirst
  <2> QED BY <1>1, <2>3, <2>4, <2>6 DEF ClientInv
<1> QED BY <1>2, <1>3

LEMMA SendHistoryKeeps ==
    ASSUME HubType, NEW c \in Client, ClientInv(c), NEW d \in Client, SendHistory(d)
    PROVE  ClientInv(c)'
<1>1. /\ joined' = joined /\ announced' = announced /\ closed' = closed /\ clients' = clients
      /\ conn' = conn /\ fetched' = fetched
      /\ broadcast' = broadcast /\ lost' = lost /\ missed' = missed /\ shown' = shown
      /\ asked' = asked
  BY DEF SendHistory, logVars, hubVars, pumpVars
<1>2. CASE c # d \/ closed[d] \/ Full(d)
  <2>1. /\ history'[c] = history[c] /\ send'[c] = send[c]
        /\ replay'[c] = "send" => replay[c] = "send"
    BY <1>2 DEF SendHistory, HubType
  <2> QED BY <1>1, <2>1, OtherClient
<1>3. CASE c = d /\ ~(closed[d] \/ Full(d))
  <2>1. /\ send'[c] = Append(send[c], Head(history[c])) /\ history'[c] = Tail(history[c])
        /\ replay' = replay
    BY <1>3 DEF SendHistory, HubType
  <2>2. /\ Elements(history[c]) = {Head(history[c])} \cup Elements(Tail(history[c]))
        /\ Head(history[c]) \in Nat
    BY <1>3, TailElements DEF SendHistory, HubType
  <2>3. Elements(send'[c]) = Elements(send[c]) \cup {Head(history[c])}
    BY <2>1, <2>2, AppendElements DEF HubType
  <2>4. Reached(c) \subseteq Reached(c)' /\ UnderWay(c)' = UnderWay(c)
    BY <1>1, <2>3 DEF Reached, UnderWay
  <2>5. \A i \in Elements(history[c]) : i # Error => i \in Reached(c)' \cup Elements(history'[c])
    BY <2>1, <2>2, <2>3 DEF Reached
  <2>6. Broadcasted(c) => Broadcasted(c)'
    BY <1>1, <2>4 DEF Broadcasted
  <2>7. Replayed(c) => Replayed(c)'
    <3> SUFFICES ASSUME Replayed(c), replay[c] = "send", NEW i \in 1..fetched[c]
                 PROVE  i \in Reached(c)' \cup Elements(history'[c])
      BY <1>1, <2>1 DEF Replayed
    <3>1. i # Error
      BY DEF Error, HubType
    <3> QED BY <2>4, <2>5, <3>1 DEF Replayed
  <2> QED BY <1>1, <2>1, <2>6, <2>7 DEF ClientInv, RegisteredFirst
<1> QED BY <1>2, <1>3

\* What is left changes no channel of a client that is connected.
LEMMA QuietKeeps ==
    ASSUME HubType, NEW c \in Client, ClientInv(c), NEW d \in Client,
           Disconnect(d) \/ ReadFails(d) \/ WriterEnds(d) \/ FetchFails(d) \/ Commit
    PROVE  ClientInv(c)'
<1>1. /\ joined' = joined /\ announced' = announced /\ closed' = closed /\ clients' = clients
      /\ send' = send /\ history' = history /\ fetched' = fetched
      /\ broadcast' = broadcast /\ lost' = lost /\ missed' = missed /\ shown' = shown
      /\ asked' = asked
  BY DEF Disconnect, ReadFails, WriterEnds, FetchFails, Commit, logVars, hubVars, replayVars,
         pumpVars
<1>2. conn'[c] = conn[c] \/ conn'[c] = "closed"
  BY DEF Disconnect, ReadFails, WriterEnds, FetchFails, Commit, pumpVars, HubType
<1>3. replay'[c] = "send" => replay[c] = "send"
  BY DEF Disconnect, ReadFails, WriterEnds, FetchFails, Commit, replayVars, HubType
<1> QED BY <1>1, <1>2, <1>3, OtherClient

LEMMA WriteFailsKeeps ==
    ASSUME HubType, NEW c \in Client, ClientInv(c), NEW d \in Client, NEW k \in Nat,
           WriteFails(d, k)
    PROVE  ClientInv(c)'
<1>1. /\ joined' = joined /\ announced' = announced /\ closed' = closed /\ clients' = clients
      /\ history' = history /\ fetched' = fetched /\ replay' = replay /\ conn' = conn
      /\ broadcast' = broadcast /\ lost' = lost /\ missed' = missed /\ shown' = shown
      /\ asked' = asked
  BY DEF WriteFails, logVars, hubVars, replayVars
<1>2. CASE c # d
  <2>1. send'[c] = send[c]
    BY <1>2 DEF WriteFails, HubType
  <2> QED BY <1>1, <2>1, OtherClient
<1>3. CASE c = d
  BY <1>1, <1>3, KeepsClient DEF WriteFails
<1> QED BY <1>2, <1>3


-----------------------------------------------------------------------------
LEMMA HubInvInit == Init => HubInv
<1> SUFFICES ASSUME Init
             PROVE  HubInv
  OBVIOUS
<1>1. HubType
  BY EmptySeq DEF Init, HubType
<1>2. panic # "hub" /\ \A c \in Client : ClientInv(c)
  BY DEF Init, ClientInv, RegisteredFirst
<1> QED BY <1>1, <1>2 DEF HubInv

LEMMA HubInvNext == HubInv /\ [Next]_vars => HubInv'
<1> SUFFICES ASSUME HubInv, [Next]_vars
             PROVE  HubInv'
  OBVIOUS
<1>1. HubType' /\ HubType /\ panic # "hub"
  BY HubTypeNext DEF HubInv
<1>2. \A c \in Client : ClientInv(c)
  BY DEF HubInv
<1>3. CASE UNCHANGED vars
  <2>1. panic' # "hub" /\ \A c \in Client : ClientInv(c)'
    BY <1>1, <1>2, <1>3 DEF vars, logVars, hubVars, replayVars, pumpVars, ClientInv, Broadcasted,
                            Replayed, RegisteredFirst, Reached, UnderWay
  <2> QED BY <1>1, <2>1 DEF HubInv
<1>4. ASSUME Commit \/ \E i \in Index : HandleCommit(i)
      PROVE  HubInv'
  <2>1. panic' # "hub"
    BY <1>1, <1>4 DEF Commit, HandleCommit
  <2>2. \A c \in Client : ClientInv(c)'
    BY <1>1, <1>2, <1>4, QuietKeeps, HandleCommitKeeps
  <2> QED BY <1>1, <2>1, <2>2 DEF HubInv
<1>5. CASE BroadcastStroke
  BY <1>1, <1>2, <1>5, BroadcastKeeps DEF HubInv
<1>6. ASSUME NEW d \in Client, UnregisterSlow(d) \/ UnregisterLeaver(d)
      PROVE  HubInv'
  BY <1>1, <1>2, <1>6, UnregisterKeeps DEF HubInv
<1>7. ASSUME NEW d \in Client,
             \/ Register(d) \/ Disconnect(d) \/ ReadFails(d) \/ SendError(d) \/ WriteMessage(d)
             \/ WriterEnds(d) \/ FetchFails(d) \/ SendHistory(d)
      PROVE  HubInv'
  <2>1. panic' # "hub"
    BY <1>1, <1>7 DEF Register, Admit, Disconnect, ReadFails, SendError, WriteMessage, WriterEnds,
                      FetchFails, SendHistory
  <2>2. ASSUME NEW c \in Client
        PROVE  ClientInv(c)'
    <3>1. ClientInv(c)
      BY <1>2
    <3> QED BY <1>1, <1>7, <3>1, RegisterKeeps, QuietKeeps, SendErrorKeeps, WriteMessageKeeps,
               SendHistoryKeeps
  <2> QED BY <1>1, <2>1, <2>2 DEF HubInv
<1>8. ASSUME NEW d \in Client, NEW k \in 0..Len(send[d]), WriteFails(d, k)
      PROVE  HubInv'
  <2>1. panic' # "hub" /\ k \in Nat
    BY <1>1, <1>8, LenProperties DEF WriteFails, HubType
  <2> QED BY <1>1, <1>2, <1>8, <2>1, WriteFailsKeeps DEF HubInv
<1>9. ASSUME NEW d \in Client, NEW k \in 0..MaxStrokes, FetchHistory(d, k)
      PROVE  HubInv'
  <2>1. panic' # "hub"
    BY <1>1, <1>9 DEF FetchHistory
  <2> QED BY <1>1, <1>2, <1>9, <2>1, FetchHistoryKeeps DEF HubInv
<1> QED
  BY <1>3, <1>4, <1>5, <1>6, <1>7, <1>8, <1>9 DEF Next, Reader, Writer

LEMMA HubInvariant == Spec => []HubInv
BY HubInvInit, HubInvNext, PTL DEF Spec

\* Hub.Run never closes a channel twice and never sends on a closed one, for any number
\* of clients and however often a slow one is unregistered: its map decides who is
\* still there, and a client is in it only while its channel is open.
THEOREM HubStaysUp == Spec => []HubNeverPanics
<1>1. HubInv => HubNeverPanics
  BY DEF HubInv, HubNeverPanics
<1> QED BY <1>1, HubInvariant, PTL

\* A connected client whose replay goes on misses no stroke that has been announced,
\* in whatever order and however often the replicas announce, but for what a full
\* channel cost it and what a replica left out although it was announced before it was
\* asked: HandleWS registers the client before replayHistory asks, so nothing can be
\* announced too late for the history and too early for the broadcast.
THEOREM NoGap == Spec => []NothingMissing
<1>1. HubInv => NothingMissing
  <2> SUFFICES ASSUME HubInv, NEW c \in clients, conn[c] = "open", replay[c] = "send",
                      NEW i \in announced
               PROVE  \/ i \in shown[c] \cup Elements(send[c]) \cup Elements(history[c])
                      \/ i \in Elements(broadcast) \cup lost \cup missed[c]
                      \/ i > fetched[c] /\ i \in joined[c] \cap asked[c]
    BY DEF NothingMissing
  <2>1. c \in Client /\ i \in Nat \ {0} /\ fetched[c] \in Nat
    BY HubAssumption DEF HubInv, HubType, Index
  <2>2. Broadcasted(c) /\ Replayed(c) /\ RegisteredFirst(c)
    BY <2>1 DEF HubInv, ClientInv
  <2>3. CASE i \notin joined[c]
    <3>1. i \in Reached(c) \cup UnderWay(c)
      BY <2>2, <2>3 DEF Broadcasted
    <3> QED BY <3>1 DEF Reached, UnderWay
  <2>4. CASE i <= fetched[c]
    <3>1. i \in 1..fetched[c]
      BY <2>1, <2>4
    <3>2. i \in Reached(c) \cup Elements(history[c])
      BY <2>2, <3>1 DEF Replayed
    <3> QED BY <3>2 DEF Reached
  <2>5. CASE i \in joined[c] /\ i > fetched[c]
    BY <2>2, <2>5 DEF RegisteredFirst
  <2> QED BY <2>1, <2>3, <2>4, <2>5
<1> QED BY <1>1, HubInvariant, PTL

=============================================================================
