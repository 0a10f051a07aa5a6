------------------------------- MODULE Outbox --------------------------------
(***************************************************************************)
(* What an outbox promises, with nothing of how its worker keeps it.  An   *)
(* item is queued once, may reach its receiver several times while it is   *)
(* queued, and is closed once: as delivered only if the receiver took it.  *)
(* Delivery is at least once, and the surplus is bounded: each item is     *)
(* sent at most MaxAttempts times, and accepted at most once, but for one  *)
(* more every time the worker is interrupted.                              *)
(*                                                                         *)
(* WebhookOutbox and EmailOutbox are shown to implement this.              *)
(***************************************************************************)
EXTENDS Naturals

CONSTANTS Items, MaxAttempts

VARIABLES phase,            \* "none", "queued", "delivered" or "dropped"
          copies,           \* how many copies reached the receiver
          acks,             \* how many of them it accepted
          interruptions     \* how often the worker lost what it was doing

outboxVars == <<phase, copies, acks, interruptions>>

-----------------------------------------------------------------------------
Init ==
    /\ phase = [i \in Items |-> "none"]
    /\ copies = [i \in Items |-> 0]
    /\ acks = [i \in Items |-> 0]
    /\ interruptions = 0

\* One event may be queued for several receivers at once.
Queue(S) ==
    /\ \A i \in S : phase[i] = "none"
    /\ phase' = [i \in Items |-> IF i \in S THEN "queued" ELSE phase[i]]
    /\ UNCHANGED <<copies, acks, interruptions>>

Send(i) ==
    /\ phase[i] = "queued"
    /\ copies[i] < MaxAttempts + interruptions
    /\ copies' = [copies EXCEPT ![i] = @ + 1]
    /\ \/ UNCHANGED acks
       \/ acks[i] < 1 + interruptions /\ acks' = [acks EXCEPT ![i] = @ + 1]
    /\ UNCHANGED <<phase, interruptions>>

Deliver(i) ==
    /\ phase[i] = "queued"
    /\ acks[i] > 0
    /\ phase' = [phase EXCEPT ![i] = "delivered"]
    /\ UNCHANGED <<copies, acks, interruptions>>

\* Given up, or never let in.
Drop(i) ==
    /\ phase[i] \in {"none", "queued"}
    /\ phase' = [phase EXCEPT ![i] = "dropped"]
    /\ UNCHANGED <<copies, acks, interruptions>>

Interrupt ==
    /\ interruptions' = interruptions + 1
    /\ UNCHANGED <<phase, copies, acks>>

Next ==
    \/ \E S \in SUBSET Items : Queue(S)
    \/ \E i \in Items : Send(i) \/ Deliver(i) \/ Drop(i)
    \/ Interrupt

Spec == Init /\ [][Next]_outboxVars
=============================================================================
