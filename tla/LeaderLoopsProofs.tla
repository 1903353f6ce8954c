------------------------- MODULE LeaderLoopsProofs -------------------------
(***************************************************************************)
(* The signal of a new entry, for any number of peers and leaderships.     *)
(***************************************************************************)
EXTENDS LeaderLoops, TLAPS

LoopsType ==
    /\ leads \in BOOLEAN /\ term \in 0..MaxTerms /\ accepted \in Nat
    /\ loop \in [Peer -> [Terms -> {"off", "wait", "check", "send", "call"}]]
    /\ sent \in [Peer -> Nat]
    /\ leads => term \in Terms

\* A loop of the current leadership has taken a signal and not yet sent.
Busy == \E p \in Peer : loop[p][term] \in {"check", "send"}
Unsent == \A p \in Peer : sent[p] < accepted

\* NewEntryNoticed is inductive once the types are known.
Noticed == leads /\ Unsent => newEntry \/ stolen \/ Busy

LoopsInv == Peer # {} /\ LoopsType /\ Noticed

-----------------------------------------------------------------------------
LEMMA LoopsTypeNext ==
    ASSUME LoopsType, [Next]_vars
    PROVE  LoopsType'
<1> USE LoopsAssumption DEF LoopsType
<1>1. CASE UNCHANGED vars
  BY <1>1 DEF vars
<1>2. CASE BecomeLeader
  <2>1. term + 1 \in Terms /\ term' = term + 1
    BY <1>2 DEF BecomeLeader, Terms
  <2>2. loop' \in [Peer -> [Terms -> {"off", "wait", "check", "send", "call"}]]
    BY <1>2 DEF BecomeLeader
  <2> QED BY <1>2, <2>1, <2>2 DEF BecomeLeader, Terms
<1>3. CASE BecomeFollower \/ HandleStroke
  <2>0. leads' \in BOOLEAN /\ leads
    BY <1>3, Zenon DEF BecomeFollower, HandleStroke
  <2>1. accepted' \in Nat
    BY <1>3 DEF BecomeFollower, HandleStroke
  <2>2. UNCHANGED <<term, loop, sent>>
    BY <1>3 DEF BecomeFollower, HandleStroke
  <2> QED BY <2>0, <2>1, <2>2
<1>4. ASSUME NEW t \in Terms, HeartbeatLoop(t)
      PROVE  LoopsType'
  BY <1>4 DEF HeartbeatLoop, HeartbeatTick, BeatAgain
<1>5. ASSUME NEW p \in Peer, Heartbeat(p)
      PROVE  LoopsType'
  BY <1>5 DEF Heartbeat, Reach
<1>6. ASSUME NEW p \in Peer, NEW t \in Terms, ReplicationLoop(p, t)
      PROVE  LoopsType'
  <2>1. PICK v \in {"off", "wait", "check", "send", "call"} : loop' = [loop EXCEPT ![p][t] = v]
    BY <1>6 DEF ReplicationLoop, TakeSignal, CheckTerm, Replicate, CallEnds
  <2>2. loop' \in [Peer -> [Terms -> {"off", "wait", "check", "send", "call"}]]
    BY <2>1
  <2>3. sent' \in [Peer -> Nat] /\ UNCHANGED <<leads, term, accepted>>
    BY <1>6 DEF ReplicationLoop, TakeSignal, CheckTerm, Replicate, CallEnds
  <2> QED BY <2>2, <2>3
<1> QED
  BY <1>1, <1>2, <1>3, <1>4, <1>5, <1>6 DEF Next

LEMMA NoticedNext ==
    ASSUME LoopsType, Noticed, Peer # {}, [Next]_vars
    PROVE  Noticed'
<1> SUFFICES ASSUME leads', Unsent'
             PROVE  (newEntry \/ stolen \/ Busy)'
  BY DEF Noticed
<1>1. CASE UNCHANGED vars
  BY <1>1 DEF vars, Noticed, Busy, Unsent
<1>2. CASE BecomeLeader
  <2>1. PICK p \in Peer : TRUE
    OBVIOUS
  <2>2. sent'[p] = accepted' /\ accepted' \in Nat
    BY <1>2 DEF BecomeLeader, LoopsType
  <2> QED BY <2>2 DEF Unsent
<1>3. CASE BecomeFollower \/ HandleStroke
  BY <1>3 DEF BecomeFollower, HandleStroke
<1>4. ASSUME NEW t \in Terms, HeartbeatLoop(t)
      PROVE  (newEntry \/ stolen \/ Busy)'
  BY <1>4 DEF HeartbeatLoop, HeartbeatTick, BeatAgain, Noticed, Busy, Unsent
<1>5. ASSUME NEW p \in Peer, Heartbeat(p)
      PROVE  (newEntry \/ stolen \/ Busy)'
  <2>1. leads /\ sent'[p] = accepted /\ accepted' = accepted /\ accepted \in Nat
    BY <1>5 DEF Heartbeat, Reach, LoopsType
  <2> QED BY <2>1 DEF Unsent
<1>6. ASSUME NEW p \in Peer, NEW t \in Terms, TakeSignal(p, t)
      PROVE  (newEntry \/ stolen \/ Busy)'
  <2>1. CASE t # term
    BY <1>6, <2>1 DEF TakeSignal
  <2>2. CASE t = term
    <3>1. loop'[p][term'] = "check"
      BY <1>6, <2>2 DEF TakeSignal, LoopsType
    <3> QED BY <3>1 DEF Busy
  <2> QED BY <2>1, <2>2
<1>7. ASSUME NEW p \in Peer, NEW t \in Terms, CheckTerm(p, t)
      PROVE  (newEntry \/ stolen \/ Busy)'
  <2>0. /\ leads /\ UNCHANGED <<leads, term, accepted, newEntry, sent, stolen>> /\ term \in Terms
        /\ loop' = [loop EXCEPT ![p][t] = IF StillLeader(t) THEN "send" ELSE "off"]
    BY <1>7 DEF CheckTerm, LoopsType
  <2>1. CASE t = term
    <3>1. loop'[p][term'] = "send"
      BY <2>0, <2>1 DEF StillLeader, LoopsType
    <3> QED BY <3>1 DEF Busy
  <2>2. CASE t # term
    <3>1. \A q \in Peer : loop'[q][term] = loop[q][term]
      BY <2>0, <2>2 DEF LoopsType
    <3> QED BY <2>0, <3>1 DEF Noticed, Busy, Unsent
  <2> QED BY <2>1, <2>2
<1>8. ASSUME NEW p \in Peer, NEW t \in Terms, Replicate(p, t)
      PROVE  (newEntry \/ stolen \/ Busy)'
  <2>1. leads /\ sent'[p] = accepted /\ accepted' = accepted /\ accepted \in Nat
    BY <1>8 DEF Replicate, LoopsType
  <2> QED BY <2>1 DEF Unsent
<1>9. ASSUME NEW p \in Peer, NEW t \in Terms, CallEnds(p, t)
      PROVE  (newEntry \/ stolen \/ Busy)'
  <2>0. /\ leads /\ UNCHANGED <<leads, term, accepted, newEntry, sent, stolen>>
        /\ loop' = [loop EXCEPT ![p][t] = "wait"] /\ loop[p][t] = "call"
    BY <1>9 DEF CallEnds, AfterCall
  <2>1. \A q \in Peer : loop[q][term] \in {"check", "send"} => loop'[q][term] = loop[q][term]
    BY <2>0 DEF LoopsType
  <2> QED BY <2>0, <2>1 DEF Noticed, Busy, Unsent
<1> QED
  BY <1>1, <1>2, <1>3, <1>4, <1>5, <1>6, <1>7, <1>8, <1>9 DEF Next, ReplicationLoop

\* In a cluster of more than one replica, a stroke that no peer has been sent wakes a
\* replication loop, unless one of an earlier leadership has taken its signal:
\* newEntryCh holds one signal for any number of strokes, and none is cleared unread.
THEOREM SignalNotLost == Peer # {} /\ Spec => []NewEntryNoticed
<1>1. Peer # {} /\ Init => LoopsInv
  <2> SUFFICES ASSUME Peer # {}, Init
               PROVE  LoopsInv
    OBVIOUS
  <2>1. leads = FALSE /\ term = 0 /\ accepted = 0
    BY DEF Init
  <2>2. loop \in [Peer -> [Terms -> {"off", "wait", "check", "send", "call"}]]
    BY DEF Init
  <2>3. sent \in [Peer -> Nat]
    BY DEF Init
  <2>4. term \in 0..MaxTerms /\ accepted \in Nat
    BY <2>1, LoopsAssumption
  <2>5. leads \in BOOLEAN /\ ~leads
    BY <2>1, Zenon
  <2> QED BY <2>2, <2>3, <2>4, <2>5 DEF LoopsInv, LoopsType, Noticed
<1>2. LoopsInv /\ [Next]_vars => LoopsInv'
  BY LoopsTypeNext, NoticedNext DEF LoopsInv
<1>3. LoopsInv => NewEntryNoticed
  BY DEF LoopsInv, Noticed, NewEntryNoticed, Unsent, Busy
<1> QED
  BY <1>1, <1>2, <1>3, PTL DEF Spec

=============================================================================
