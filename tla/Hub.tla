-------------------------------- MODULE Hub --------------------------------
(***************************************************************************)
(* The gateway's side of the browsers: the hub (hub.go), the pumps of a    *)
(* WebSocket client, the replay of the history to a new one, and the       *)
(* errors sent to one client (handler.go).                                 *)
(*                                                                         *)
(* A stroke is its index in the log.  A client is one connection: a        *)
(* browser that reconnects is a new client.  A send on a closed channel    *)
(* panics, also in a select with a default case, and nothing recovers a    *)
(* panic of these goroutines: the gateway stops.                           *)
(***************************************************************************)
EXTENDS Naturals, Sequences, FiniteSets

CONSTANTS
    Client,
    SendCapacity,       \* of a client's channel send
    BroadcastCapacity,  \* of the hub's channel broadcast
    MaxStrokes,         \* bound: strokes committed
    MaxPosts,           \* bound: notifications of the replicas
    MaxErrors           \* bound: errors sent to clients

ASSUME HubAssumption ==
    /\ SendCapacity \in Nat \ {0} /\ BroadcastCapacity \in Nat \ {0}
    /\ MaxStrokes \in Nat /\ MaxPosts \in Nat /\ MaxErrors \in Nat

VARIABLES
    committed,          \* how many strokes are
    broadcast,          \* the hub's channel of that name
    clients,            \* the hub's map
    send, closed,       \* a client's channel, and whether the hub has closed it
    dropping,           \* goroutines that wait to unregister a slow client
    conn,               \* "new", "open" or "closed"
    reader,             \* readPump: "off", "reading", "leaving" or "done"
    writer,             \* writePump: "off", "on" or "done"
    replay, history,    \* replayHistory: its place, and what it has yet to send
    panic,              \* what stopped the gateway: "none", "hub" or "sender"
    posts, errors,      \* history: how many notifications and errors there were
    announced,          \* history: the strokes that have been posted to /commit
    shown,              \* history: the strokes that have reached a browser
    missed,             \* history: strokes that did not fit into send
    lost,               \* history: strokes that did not fit into broadcast
    joined, asked,      \* history: what was announced when a client registered,
                        \* and when the replica answered its replay
    fetched             \* history: how many strokes that replay has fetched

logVars == <<committed, posts, announced, broadcast, lost>>
hubVars == <<clients, closed, dropping, missed>>
replayVars == <<replay, history, fetched, asked>>
pumpVars == <<conn, reader, writer, shown>>
vars == <<logVars, hubVars, send, replayVars, pumpVars, panic, errors, joined>>

Index == 1..MaxStrokes
Error == 0              \* an error message, beside the strokes
Elements(s) == {s[k] : k \in 1..Len(s)}

Init ==
    /\ committed = 0 /\ posts = 0 /\ announced = {} /\ broadcast = << >> /\ lost = {}
    /\ clients = {}
    /\ closed = [c \in Client |-> FALSE]
    /\ dropping = [c \in Client |-> 0]
    /\ missed = [c \in Client |-> {}]
    /\ send = [c \in Client |-> << >>]
    /\ replay = [c \in Client |-> "off"]
    /\ history = [c \in Client |-> << >>]
    /\ fetched = [c \in Client |-> 0]
    /\ asked = [c \in Client |-> {}]
    /\ conn = [c \in Client |-> "new"]
    /\ reader = [c \in Client |-> "off"]
    /\ writer = [c \in Client |-> "off"]
    /\ shown = [c \in Client |-> {}]
    /\ panic = "none" /\ errors = 0
    /\ joined = [c \in Client |-> {}]

Running == panic = "none"

-----------------------------------------------------------------------------
(***************************************************************************)
(* The replicas.                                                           *)
(***************************************************************************)
Commit ==
    /\ Running
    /\ committed < MaxStrokes
    /\ committed' = committed + 1
    /\ UNCHANGED <<posts, announced, broadcast, lost, hubVars, send, replayVars, pumpVars,
                   panic, errors, joined>>

\* HandleCommit and Hub.Broadcast: a stroke that finds broadcast full is lost.  One
\* replica posts its strokes in order, but around a change of leader two may, and a
\* stroke may be skipped: here any committed one may be next, also once more.
HandleCommit(i) ==
    /\ Running
    /\ i <= committed
    /\ posts < MaxPosts
    /\ posts' = posts + 1
    /\ announced' = announced \cup {i}
    /\ IF Len(broadcast) < BroadcastCapacity
       THEN /\ broadcast' = Append(broadcast, i)
            /\ UNCHANGED lost
       ELSE /\ lost' = lost \cup {i}
            /\ UNCHANGED broadcast
    /\ UNCHANGED <<committed, hubVars, send, replayVars, pumpVars, panic, errors, joined>>

-----------------------------------------------------------------------------
(***************************************************************************)
(* The hub's loop.  register and unregister have no buffer: whoever sends  *)
(* on them waits for the loop.                                             *)
(***************************************************************************)

\* The case of register in Run; the client's readPump and writePump start.
Admit(c) ==
    /\ Running
    /\ conn[c] = "new"
    /\ clients' = clients \cup {c}
    /\ conn' = [conn EXCEPT ![c] = "open"]
    /\ reader' = [reader EXCEPT ![c] = "reading"]
    /\ writer' = [writer EXCEPT ![c] = "on"]
    /\ joined' = [joined EXCEPT ![c] = announced]
    /\ UNCHANGED <<logVars, closed, dropping, missed, send, history, fetched, asked, shown,
                   panic, errors>>

\* Mutant: HandleWS starts the replay, and only then registers the client.
RegisterLater(c) ==
    \/ /\ Running
       /\ conn[c] = "new" /\ replay[c] = "off"
       /\ replay' = [replay EXCEPT ![c] = "fetch"]
       /\ UNCHANGED <<logVars, hubVars, send, history, fetched, asked, pumpVars, panic, errors,
                      joined>>
    \/ /\ replay[c] # "off"
       /\ Admit(c)
       /\ UNCHANGED replay

\* HandleWS: once the hub has the client, the replay starts.
Register(c) ==
    /\ Admit(c)
    /\ replay' = [replay EXCEPT ![c] = "fetch"]

\* Mutant: the hub does not look whether the client is still there.
CloseAlways(c) ==
    /\ clients' = clients \ {c}
    /\ closed' = [closed EXCEPT ![c] = TRUE]
    /\ panic' = IF closed[c] THEN "hub" ELSE panic

\* The case of unregister in Run: only the first of several for one client
\* closes its channel.
CloseIfRegistered(c) ==
    IF c \in clients
    THEN /\ clients' = clients \ {c}
         /\ closed' = [closed EXCEPT ![c] = TRUE]
         /\ panic' = IF closed[c] THEN "hub" ELSE panic
    ELSE UNCHANGED <<clients, closed, panic>>

\* For a goroutine of the broadcast case ...
UnregisterSlow(c) ==
    /\ Running
    /\ dropping[c] > 0
    /\ CloseIfRegistered(c)
    /\ dropping' = [dropping EXCEPT ![c] = @ - 1]
    /\ UNCHANGED <<logVars, missed, send, replayVars, pumpVars, errors, joined>>

\* ... and for readPump on its way out, which then closes the connection.
UnregisterLeaver(c) ==
    /\ Running
    /\ reader[c] = "leaving"
    /\ CloseIfRegistered(c)
    /\ reader' = [reader EXCEPT ![c] = "done"]
    /\ conn' = [conn EXCEPT ![c] = "closed"]
    /\ UNCHANGED <<logVars, dropping, missed, send, replayVars, writer, shown, errors, joined>>

Full(c) == Len(send[c]) >= SendCapacity

\* Mutant: a slow client only loses the stroke.
OneMoreDropperNever(c) == dropping[c]

\* A slow client is left to a goroutine of its own, one per stroke.
OneMoreDropper(c) == dropping[c] + 1

BroadcastStroke ==
    LET slow == {c \in clients : Full(c)}
        i == Head(broadcast)
    IN  /\ Running
        /\ broadcast # << >>
        /\ broadcast' = Tail(broadcast)
        /\ send' = [c \in Client |-> IF c \in clients \ slow THEN Append(send[c], i) ELSE send[c]]
        /\ dropping' = [c \in Client |-> IF c \in slow THEN OneMoreDropper(c) ELSE dropping[c]]
        /\ missed' = [c \in Client |-> IF c \in slow THEN missed[c] \cup {i} ELSE missed[c]]
        /\ panic' = IF \E c \in clients : closed[c] THEN "hub" ELSE panic
        /\ UNCHANGED <<committed, posts, announced, lost, clients, closed, replayVars, pumpVars,
                       errors, joined>>

-----------------------------------------------------------------------------
(***************************************************************************)
(* The goroutines of a client.                                             *)
(***************************************************************************)

\* The browser goes, the network fails or a deadline passes (no pong, a write
\* that takes too long): every later read and write fails.
Disconnect(c) ==
    /\ Running
    /\ conn[c] = "open"
    /\ conn' = [conn EXCEPT ![c] = "closed"]
    /\ UNCHANGED <<logVars, hubVars, send, replayVars, reader, writer, shown, panic, errors,
                   joined>>

\* readPump
ReadFails(c) ==
    /\ Running
    /\ reader[c] = "reading" /\ conn[c] = "closed"
    /\ reader' = [reader EXCEPT ![c] = "leaving"]
    /\ UNCHANGED <<logVars, hubVars, send, replayVars, conn, writer, shown, panic, errors, joined>>

\* sendError, on a message that cannot be read or forwarded.
SendError(c) ==
    /\ Running
    /\ reader[c] = "reading" /\ conn[c] # "new"
    /\ errors < MaxErrors
    /\ errors' = errors + 1
    /\ panic' = IF closed[c] THEN "sender" ELSE panic
    /\ send' = IF closed[c] \/ Full(c) THEN send ELSE [send EXCEPT ![c] = Append(@, Error)]
    /\ UNCHANGED <<logVars, hubVars, replayVars, pumpVars, joined>>

\* writePump writes a message; a batch is several of these.
WriteMessage(c) ==
    /\ Running
    /\ writer[c] = "on" /\ conn[c] = "open" /\ send[c] # << >>
    /\ shown' = [shown EXCEPT ![c] = @ \cup ({Head(send[c])} \ {Error})]
    /\ send' = [send EXCEPT ![c] = Tail(@)]
    /\ UNCHANGED <<logVars, hubVars, replayVars, conn, reader, writer, panic, errors, joined>>

\* A ping (k = 0) or a batch of k messages cannot be written; the batch is lost.
WriteFails(c, k) ==
    /\ Running
    /\ writer[c] = "on" /\ conn[c] = "closed"
    /\ writer' = [writer EXCEPT ![c] = "done"]
    /\ send' = [send EXCEPT ![c] = SubSeq(@, k + 1, Len(@))]
    /\ UNCHANGED <<logVars, hubVars, replayVars, conn, reader, shown, panic, errors, joined>>

\* The channel is closed and drained: writePump closes the connection.
WriterEnds(c) ==
    /\ Running
    /\ writer[c] = "on" /\ closed[c] /\ send[c] = << >>
    /\ writer' = [writer EXCEPT ![c] = "done"]
    /\ conn' = [conn EXCEPT ![c] = "closed"]
    /\ UNCHANGED <<logVars, hubVars, send, replayVars, reader, shown, panic, errors, joined>>

\* GetSyncLog(1) of a replica that has committed k entries.
GetSyncLog(k) == [i \in 1..k |-> i]

\* replayHistory gets the history from the replica it takes for the leader; a
\* new leader may know of fewer committed entries than its predecessor.
FetchHistory(c, k) ==
    /\ Running
    /\ replay[c] = "fetch"
    /\ k <= committed
    /\ replay' = [replay EXCEPT ![c] = "send"]
    /\ history' = [history EXCEPT ![c] = GetSyncLog(k)]
    /\ fetched' = [fetched EXCEPT ![c] = k]
    /\ asked' = [asked EXCEPT ![c] = announced]
    /\ UNCHANGED <<logVars, hubVars, send, pumpVars, panic, errors, joined>>

\* There is no leader, or it does not answer.
FetchFails(c) ==
    /\ Running
    /\ replay[c] = "fetch"
    /\ replay' = [replay EXCEPT ![c] = "failed"]
    /\ UNCHANGED <<logVars, hubVars, send, history, fetched, asked, pumpVars, panic, errors,
                   joined>>

\* One iteration of the loop; a full channel ends the replay.
SendHistory(c) ==
    /\ Running
    /\ replay[c] = "send" /\ history[c] # << >>
    /\ panic' = IF closed[c] THEN "sender" ELSE panic
    /\ IF closed[c] \/ Full(c)
       THEN /\ replay' = [replay EXCEPT ![c] = "failed"]
            /\ UNCHANGED <<send, history>>
       ELSE /\ send' = [send EXCEPT ![c] = Append(@, Head(history[c]))]
            /\ history' = [history EXCEPT ![c] = Tail(@)]
            /\ UNCHANGED replay
    /\ UNCHANGED <<logVars, hubVars, fetched, asked, pumpVars, errors, joined>>

Reader(c) == ReadFails(c)
Writer(c) ==
    \/ WriteMessage(c) \/ WriterEnds(c)
    \/ \E k \in 0..Len(send[c]) : WriteFails(c, k)

-----------------------------------------------------------------------------
Next ==
    \/ Commit \/ BroadcastStroke
    \/ \E i \in Index : HandleCommit(i)
    \/ \E c \in Client :
        \/ Register(c) \/ UnregisterSlow(c) \/ UnregisterLeaver(c)
        \/ Disconnect(c) \/ Reader(c) \/ SendError(c) \/ Writer(c)
        \/ \E k \in 0..MaxStrokes : FetchHistory(c, k)
        \/ FetchFails(c) \/ SendHistory(c)

\* The hub's select serves every case that stays ready, a read of a closed
\* connection fails, and a write succeeds or fails within writeWait.
Fairness ==
    /\ WF_vars(BroadcastStroke)
    /\ \A c \in Client :
        /\ WF_vars(UnregisterSlow(c)) /\ WF_vars(UnregisterLeaver(c))
        /\ WF_vars(Reader(c)) /\ WF_vars(Writer(c))

Spec == Init /\ [][Next]_vars /\ Fairness

-----------------------------------------------------------------------------
\* The hub itself never closes a channel twice and never sends on a closed one,
\* although a slow client is unregistered once for every stroke it misses and
\* once more by its readPump.
HubNeverPanics == panic # "hub"

\* A stroke that has been announced has reached every connected client or is on its way
\* to it, through the broadcast or through the replay: HandleWS registers the client
\* before the history is asked for, which leaves no gap between the two.  Excepted is
\* what did not fit into a channel, and what had been announced before the client came
\* and before its history was fetched, and was yet unknown to the replica that was
\* asked.  A stroke announced between the two has no excuse.
NothingMissing ==
    \A c \in clients : conn[c] = "open" /\ replay[c] = "send" =>
        \A i \in announced :
            \/ i \in shown[c] \cup Elements(send[c]) \cup Elements(history[c])
            \/ i \in Elements(broadcast) \cup lost \cup missed[c]
            \/ i > fetched[c] /\ i \in joined[c] \cap asked[c]

Gone(c) ==
    /\ c \notin clients /\ conn[c] = "closed" /\ dropping[c] = 0
    /\ reader[c] = "done" /\ writer[c] = "done"

\* A client that has missed a stroke or lost its connection is removed from the hub,
\* and its goroutines end, unless the gateway stops.
LeaverIsRemoved ==
    \A c \in Client : missed[c] # {} \/ conn[c] = "closed" ~> Gone(c) \/ ~Running

-----------------------------------------------------------------------------
\* gateway/ARCHITECTURE.md: "If a WS client cannot keep up, it is disconnected to
\* protect overall throughput": a client dropped for the strokes it has missed does
\* not stop the gateway.
SlowClientHarmless ==
    (\E c \in Client : missed[c] # {} /\ closed[c]) => panic # "sender"

=============================================================================
