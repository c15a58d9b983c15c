------------------------------ MODULE EventLog ------------------------------
(***************************************************************************)
(* What the indexer promises of the events of the network: each is         *)
(* delivered to its handler at least once, or given up openly, before it   *)
(* is acknowledged; events are acknowledged in their order; and what is    *)
(* acknowledged is never delivered again.  (docs/INDEXER.md, Checkpoint.)  *)
(***************************************************************************)
EXTENDS Integers

CONSTANT NumEvents
Numbers == 1 .. NumEvents

VARIABLES
  delivered,     \* how often an event was delivered
  givenUp,       \* the events that are not going to be delivered
  acknowledged   \* the events that will not be delivered again
logVars == <<delivered, givenUp, acknowledged>>

LogInit ==
  /\ delivered = [e \in Numbers |-> 0]
  /\ givenUp = {}
  /\ acknowledged = {}

Deliver(e) ==
  /\ e \notin acknowledged
  /\ delivered' = [delivered EXCEPT ![e] = @ + 1]
  /\ UNCHANGED <<givenUp, acknowledged>>

GiveUp(S) ==
  /\ S # {} /\ S \cap acknowledged = {}
  /\ givenUp' = givenUp \cup S
  /\ UNCHANGED <<delivered, acknowledged>>

Done(e) == delivered[e] > 0 \/ e \in givenUp

Acknowledge(n) ==
  /\ 1 .. n # acknowledged
  /\ acknowledged \subseteq 1 .. n
  /\ \A e \in 1 .. n : Done(e)
  /\ acknowledged' = 1 .. n
  /\ UNCHANGED <<delivered, givenUp>>

LogNext ==
  \/ \E e \in Numbers : Deliver(e)
  \/ \E S \in SUBSET Numbers : GiveUp(S)
  \/ \E n \in Numbers : Acknowledge(n)

LogSpec == LogInit /\ [][LogNext]_logVars
=============================================================================
