---------------------------- MODULE CommittedLog ----------------------------
(***************************************************************************)
(* What the replicas promise together: there is one sequence of strokes,   *)
(* it only grows, and every replica delivers a prefix of it, which it      *)
(* never takes back.  No terms, no leaders, no messages.                   *)
(***************************************************************************)
EXTENDS Naturals, Sequences, SequencesExt

CONSTANTS Server, Stroke

VARIABLES
    decided,        \* the strokes of the canvas
    delivered       \* of these, the ones each replica knows to be committed

vars == <<decided, delivered>>

Init == decided = << >> /\ delivered = [n \in Server |-> << >>]

Grows(old, new) == old # new /\ IsPrefix(old, new)

\* Strokes are decided, and the replica that decides them delivers them.
Decide(n) ==
    /\ Grows(delivered[n], delivered'[n])
    /\ Grows(decided, decided')
    /\ \A i \in 1..Len(decided') : decided'[i] \in Stroke
    /\ delivered' = [delivered EXCEPT ![n] = decided']

\* A replica learns of strokes that are decided.
Deliver(n) ==
    /\ Grows(delivered[n], delivered'[n])
    /\ IsPrefix(delivered'[n], decided)
    /\ delivered' = [delivered EXCEPT ![n] = delivered'[n]]
    /\ UNCHANGED decided

Next == \E n \in Server : Decide(n) \/ Deliver(n)

Spec == Init /\ [][Next]_vars

=============================================================================
