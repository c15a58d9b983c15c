--------------------------- MODULE ProjectionRace ---------------------------
(***************************************************************************)
(* Two pollers at once (Indexer, after a lost session) apply the events of *)
(* a stream: beside the indexer of Projection, one that has lost its lock  *)
(* is still in the transaction of a withdraw or cancel.  handleWithdraw    *)
(* and handleCancel read the row, decide, and write the amounts they have  *)
(* computed; Postgres runs that at READ COMMITTED, so the row may change   *)
(* between the two statements.                                             *)
(***************************************************************************)
EXTENDS Projection

VARIABLE pending  \* the transaction of the other poller: its event, and the
                  \* row it has read

raceVars == <<vars, pending>>

RaceInit == Init /\ pending = Absent

(* findUnique and the checks of the handler.                               *)
OtherReads ==
  /\ pending = Absent /\ cursor < NumEvents
  /\ LET e == cursor + 1
         s == log[e].stream
     IN  /\ log[e].type \in {"withdraw", "cancel"} /\ Active(s) /\ e \notin broken
         /\ pending' = [event |-> e, row |-> stream[s]]
  /\ UNCHANGED vars

(* update and streamEvent.create.  A withdraw writes neither the status    *)
(* nor the rate.                                                           *)
OtherWrites ==
  /\ pending # Absent
  /\ LET e == log[pending.event]
         old == pending.row
     IN  Write(pending.event, e.stream,
           IF e.type = "withdraw"
             THEN [stream[e.stream] EXCEPT !.balance = Max({0, old.balance - e.amount}),
                                           !.withdrawn = old.withdrawn + e.amount]
             ELSE [status |-> "CANCELLED", balance |-> 0,
                   withdrawn |-> old.withdrawn + e.amount,
                   rate |-> 0, lastRate |-> old.rate])
  /\ pending' = Absent
  /\ UNCHANGED <<log, broken, indexer, replay>>

(* The transaction is rolled back: its process ends, or it takes too long. *)
OtherAborts ==
  /\ pending # Absent
  /\ pending' = Absent
  /\ UNCHANGED vars

RaceNext == (Next /\ UNCHANGED pending) \/ OtherReads \/ OtherWrites \/ OtherAborts

RaceSpec == RaceInit /\ [][RaceNext]_raceVars

----------------------------------------------------------------------------
(* donationVault.ts:109-110, on withdraw: "No-ops if the stream isn't      *)
(* known yet or if it is already cancelled".  A cancelled stream's amounts *)
(* are final: nothing may give it a balance again.                         *)
CancelledHasNoBalance ==
  \A s \in StreamIds :
    stream[s] # Absent /\ stream[s].status = "CANCELLED" => stream[s].balance = 0
=============================================================================
