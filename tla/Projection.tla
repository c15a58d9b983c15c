----------------------------- MODULE Projection -----------------------------
(***************************************************************************)
(* What the donation-vault handlers write, and the dead letters:           *)
(* src/indexer/handlers/donationVault.ts, deadLetter.ts, the script        *)
(* replayDeadLetters.ts and the pruning of maintenance/logRetention.ts.    *)
(*                                                                         *)
(* The indexer delivers the events of a log in order, each at least once   *)
(* (the module Indexer); an operator runs the replay script beside it.     *)
(* A transaction of a handler is one step.  Amounts are small numbers,     *)
(* decoding is a set of events the deployed handlers cannot decode.        *)
(***************************************************************************)
EXTENDS Integers, FiniteSetsExt

CONSTANTS
  StreamIds,        \* on-chain stream ids
  Absent,           \* no such row
  NumEvents,        \* events of the log
  Amounts,          \* amounts of a withdraw, cancel or topup event
  Deposit,          \* the deposit of a created event
  MaxBroken,        \* bound: undecodable events of a log
  MaxRedeliveries,  \* bound: deliveries beyond the first, over all events
  MaxAttempts       \* bound: the script is not run again for a row with as many

(* A row of the streams table, and a row of indexer_dead_letters.          *)
StreamRow == [status : {"ACTIVE", "CANCELLED"}, balance : Nat, withdrawn : Nat,
              rate : {0, 1}, lastRate : {0, 1}]
DeadLetterRow == [attempts : Nat, resolved : BOOLEAN]

ASSUME ProjectionAssumption ==
  /\ NumEvents \in Nat /\ Amounts \subseteq Nat /\ Deposit \in Nat
  /\ MaxRedeliveries \in Nat
  /\ Absent \notin StreamRow \cup DeadLetterRow

Events == 1 .. NumEvents
EventKinds == [type : {"created"}, stream : StreamIds, amount : {Deposit}]
         \cup [type : {"withdraw", "cancel", "topup"}, stream : StreamIds,
               amount : Amounts]

VARIABLES
  log,          \* the contract's events from where the indexer started
  broken,       \* the events the deployed handlers cannot decode
  stream,       \* the streams table
  streamEvents, \* how many StreamEvent rows an event has
  deadLetter,   \* the indexer_dead_letters table
  saved,        \* the event of the checkpoint row
  cursor,       \* the event of the worker's cached cursor
  reached,      \* history: the last event that was handled
  redelivered,  \* how many deliveries were repeated
  replay        \* the replay script: what it does, the rows it still has to
                \* do, and the attempts they had when it listed them

tables == <<stream, streamEvents, deadLetter>>
indexer == <<saved, cursor, reached, redelivered>>
vars == <<log, broken, stream, streamEvents, deadLetter, saved, cursor, reached,
          redelivered, replay>>

----------------------------------------------------------------------------
(* The contract (external): what an event e makes of stream s, which is x, *)
(* Absent when it was created before the log begins.                       *)
Applied(s, e, x) ==
  IF e.stream # s THEN x
  ELSE CASE e.type = "created" ->
              [status |-> "ACTIVE", balance |-> e.amount, withdrawn |-> 0,
               rate |-> 1, lastRate |-> 0]
         [] e.type # "created" /\ x = Absent -> Absent
         [] e.type = "topup" /\ x # Absent -> [x EXCEPT !.balance = @ + e.amount]
         [] e.type = "withdraw" /\ x # Absent ->
              [x EXCEPT !.balance = @ - e.amount, !.withdrawn = @ + e.amount]
         [] e.type = "cancel" /\ x # Absent ->
              [status |-> "CANCELLED", balance |-> 0,
               withdrawn |-> x.withdrawn + e.amount, rate |-> 0, lastRate |-> 1]

(* What became of stream s after n events of the log.                      *)
OnChain(s) ==
  LET f[n \in 0 .. NumEvents] ==
        IF n = 0 THEN Absent ELSE Applied(s, log[n], f[n - 1])
  IN  f

(* A stream is created once, before its other events, and cancelled once,  *)
(* after them; it never pays out more than it holds.                       *)
LegalLog ==
  \A e \in Events :
    /\ \A d \in 1 .. e - 1 : log[d].stream = log[e].stream =>
         log[d].type # "cancel" /\ log[e].type # "created"
    /\ LET before == OnChain(log[e].stream)[e - 1]
       IN  log[e].type \in {"withdraw", "cancel"} /\ before # Absent =>
             log[e].amount <= before.balance

Init ==
  /\ log \in [Events -> EventKinds] /\ LegalLog
  /\ broken \in {B \in SUBSET Events : Cardinality(B) <= MaxBroken}
  /\ stream = [s \in StreamIds |-> Absent]
  /\ streamEvents = [e \in Events |-> 0]
  /\ deadLetter = [e \in Events |-> Absent]
  /\ saved = 0 /\ cursor = 0 /\ reached = 0 /\ redelivered = 0
  /\ replay = [at |-> "idle", rows |-> {}, attempts |-> [e \in Events |-> 0]]

----------------------------------------------------------------------------
(* The handlers.                                                           *)

(* recordDeadLetter: the row is created, or its attempts are incremented;  *)
(* resolvedAt stays as it is.                                              *)
RecordDeadLetter(e) ==
  deadLetter' = [deadLetter EXCEPT ![e] =
                   IF @ = Absent THEN [attempts |-> 1, resolved |-> FALSE]
                   ELSE [attempts |-> @.attempts + 1, resolved |-> @.resolved]]

(* Mistaken: the StreamEvent row is written on its own, and may be lost.   *)
WriteTwice(e, s, x) ==
  /\ stream' = [stream EXCEPT ![s] = x]
  /\ \E rows \in {0, 1} : streamEvents' = [streamEvents EXCEPT ![e] = @ + rows]
  /\ UNCHANGED deadLetter

(* The transaction that updates a stream and adds a StreamEvent row.       *)
Write(e, s, x) ==
  /\ stream' = [stream EXCEPT ![s] = x]
  /\ streamEvents' = [streamEvents EXCEPT ![e] = @ + 1]
  /\ UNCHANGED deadLetter

HandleStreamCreated(e, s) ==
  /\ log[e].type = "created"
  /\ Write(e, s, IF stream[s] # Absent THEN stream[s]
                 ELSE [status |-> "ACTIVE", balance |-> log[e].amount,
                       withdrawn |-> 0, rate |-> 1, lastRate |-> 0])

(* Mistaken: an event of an unknown stream is only logged.                *)
HandleUnknownStreamLogged(e, s) ==
  /\ log[e].type \in {"withdraw", "cancel"} /\ stream[s] = Absent
  /\ UNCHANGED tables

(* An event of a stream that is not known is a dead letter; the handler    *)
(* returns all the same.                                                   *)
HandleUnknownStream(e, s) ==
  /\ log[e].type \in {"withdraw", "cancel"} /\ stream[s] = Absent
  /\ RecordDeadLetter(e)
  /\ UNCHANGED <<stream, streamEvents>>

(* A cancelled stream, and a topup: nothing is written.                    *)
Ignored(e, s) ==
  \/ log[e].type = "topup"
  \/ /\ log[e].type \in {"withdraw", "cancel"}
     /\ stream[s] # Absent /\ stream[s].status = "CANCELLED"
HandleIgnored(e, s) == Ignored(e, s) /\ UNCHANGED tables

(* Mistaken: the status is not looked at.                                  *)
Known(s) == stream[s] # Absent
Active(s) == stream[s] # Absent /\ stream[s].status = "ACTIVE"

(* Mistaken: the balance may go below zero.                                *)
HandleWithdrawUnclamped(e, s) ==
  /\ log[e].type = "withdraw" /\ Active(s)
  /\ Write(e, s, [stream[s] EXCEPT !.balance = @ - log[e].amount,
                                   !.withdrawn = @ + log[e].amount])

(* The balance never goes below zero, whatever was withdrawn.              *)
HandleWithdraw(e, s) ==
  /\ log[e].type = "withdraw" /\ Active(s)
  /\ Write(e, s, [stream[s] EXCEPT
                    !.balance = Max({0, @ - log[e].amount}),
                    !.withdrawn = @ + log[e].amount])

HandleCancel(e, s) ==
  /\ log[e].type = "cancel" /\ Active(s)
  /\ Write(e, s, [status |-> "CANCELLED", balance |-> 0,
                  withdrawn |-> stream[s].withdrawn + log[e].amount,
                  rate |-> 0, lastRate |-> stream[s].rate])

Dispatch(e) ==
  LET s == log[e].stream
  IN  \/ HandleStreamCreated(e, s) \/ HandleUnknownStream(e, s)
      \/ HandleIgnored(e, s) \/ HandleWithdraw(e, s) \/ HandleCancel(e, s)

(* The handler throws: it cannot decode the event, or it writes a time it  *)
(* has not got.  An event rebuilt from a dead letter has no ledgerClosedAt *)
(* and Prisma rejects the invalid Date made of it.                         *)
Writes(e) == \/ log[e].type = "created"
             \/ log[e].type \in {"withdraw", "cancel"} /\ Active(log[e].stream)
Throws(e, hasClosedAt) == e \in broken \/ (~hasClosedAt /\ Writes(e))

----------------------------------------------------------------------------
(* The indexer: one event after the other, from its cached cursor.         *)

(* The handler commits, or the failure is recorded.  The cached cursor     *)
(* moves on, unless the answer of the database is lost: then the poll      *)
(* fails, and the event is delivered again.                                *)
Deliver ==
  /\ cursor < NumEvents
  /\ LET e == cursor + 1
     IN  /\ IF e <= reached
              THEN /\ redelivered < MaxRedeliveries
                   /\ redelivered' = redelivered + 1
                   /\ UNCHANGED reached
              ELSE reached' = e /\ UNCHANGED redelivered
         /\ IF Throws(e, TRUE)
              THEN RecordDeadLetter(e) /\ UNCHANGED <<stream, streamEvents>>
              ELSE Dispatch(e)
         /\ cursor' \in {cursor, e}
  /\ UNCHANGED <<log, broken, saved, replay>>

(* The row follows the cursor.  When the save fails, the next poll goes on *)
(* from the cursor all the same.                                           *)
Save ==
  /\ saved # cursor
  /\ saved' = cursor
  /\ UNCHANGED <<log, broken, tables, cursor, reached, redelivered, replay>>

(* The process is started again: it reads the row.                         *)
Crash ==
  /\ cursor # saved
  /\ cursor' = saved
  /\ UNCHANGED <<log, broken, tables, saved, reached, redelivered, replay>>

(* A release with repaired handlers.                                       *)
Deploy ==
  /\ broken # {}
  /\ broken' = {}
  /\ UNCHANGED <<log, tables, indexer, replay>>

----------------------------------------------------------------------------
(* The replay script.                                                      *)

Unresolved == {e \in Events : deadLetter[e] # Absent /\ ~deadLetter[e].resolved}

ReplayList ==
  /\ replay.at = "idle" /\ Unresolved # {}
  /\ \A e \in Unresolved : deadLetter[e].attempts < MaxAttempts
  /\ replay' = [at |-> "dispatch", rows |-> Unresolved,
                attempts |-> [e \in Events |-> IF e \in Unresolved
                                THEN deadLetter[e].attempts ELSE 0]]
  /\ UNCHANGED <<log, broken, tables, indexer>>

(* Oldest first.                                                           *)
ReplayNext(e) == replay.at = "dispatch" /\ replay.rows # {} /\ e = Min(replay.rows)
ReplayAt(at) == replay' = [replay EXCEPT !.at = at]
ReplayOver == replay' = [at |-> "idle", rows |-> {}, attempts |-> [d \in Events |-> 0]]
RowDone(e) == IF replay.rows = {e} THEN ReplayOver
              ELSE replay' = [replay EXCEPT !.at = "dispatch", !.rows = @ \ {e}]

ReplayThrows ==
  \E e \in Events :
    /\ ReplayNext(e) /\ Throws(e, FALSE)
    /\ ReplayAt("catch")
    /\ UNCHANGED <<log, broken, tables, indexer>>

ReplayDispatch ==
  \E e \in Events :
    /\ ReplayNext(e) /\ ~Throws(e, FALSE)
    /\ Dispatch(e)
    /\ ReplayAt("read")
    /\ UNCHANGED <<log, broken, indexer>>

(* Mistaken: the row is resolved without a look at its attempts.           *)
ReplayReadNothing ==
  /\ replay.at = "read"
  /\ ReplayAt("resolve")
  /\ UNCHANGED <<log, broken, tables, indexer>>

(* The row is read again: a failure that the handler recorded on its own   *)
(* has moved its attempts, and the row is left as it is.                   *)
ReplayRead ==
  /\ replay.at = "read"
  /\ LET e == Min(replay.rows)
     IN  IF deadLetter[e].attempts > replay.attempts[e] THEN RowDone(e)
                                                        ELSE ReplayAt("resolve")
  /\ UNCHANGED <<log, broken, tables, indexer>>

(* The row is resolved, whatever became of it since it was read.  When the *)
(* answer is lost, the script takes it for a failure.                      *)
ReplayResolve ==
  /\ replay.at = "resolve"
  /\ LET e == Min(replay.rows)
     IN  /\ deadLetter' = [deadLetter EXCEPT
                             ![e] = [attempts |-> @.attempts + 1, resolved |-> TRUE]]
         /\ RowDone(e) \/ ReplayAt("catch")
  /\ UNCHANGED <<log, broken, stream, streamEvents, indexer>>

(* The re-read or the update fails.                                        *)
ReplayQueryFails ==
  /\ replay.at \in {"read", "resolve"}
  /\ ReplayAt("catch")
  /\ UNCHANGED <<log, broken, tables, indexer>>

(* The catch block counts one more attempt.  A row that was resolved after *)
(* all may be pruned by then: the update throws, and the script ends.      *)
ReplayCatch ==
  /\ replay.at = "catch"
  /\ LET e == Min(replay.rows)
     IN  \/ /\ deadLetter[e] # Absent
            /\ deadLetter' = [deadLetter EXCEPT ![e].attempts = @ + 1]
            /\ RowDone(e)
         \/ /\ deadLetter[e] = Absent
            /\ ReplayOver /\ UNCHANGED deadLetter
  /\ UNCHANGED <<log, broken, stream, streamEvents, indexer>>

(* The script is killed, or an error leaves its loop.                      *)
ReplayCrash ==
  /\ replay.at # "idle"
  /\ ReplayOver
  /\ UNCHANGED <<log, broken, tables, indexer>>

(* Mistaken: old rows go whether they were resolved or not.                *)
PruneAll ==
  /\ \E e \in Events : deadLetter[e] # Absent
  /\ deadLetter' = [e \in Events |-> Absent]
  /\ UNCHANGED <<log, broken, stream, streamEvents, indexer, replay>>

(* pruneOldLogs: resolved rows expire, unresolved ones never do.           *)
PruneOldLogs ==
  /\ \E e \in Events : deadLetter[e] # Absent /\ deadLetter[e].resolved
  /\ deadLetter' = [e \in Events |->
                      IF e \in Unresolved THEN deadLetter[e] ELSE Absent]
  /\ UNCHANGED <<log, broken, stream, streamEvents, indexer, replay>>

Next == \/ Deliver \/ Save \/ Crash \/ Deploy
        \/ ReplayList \/ ReplayThrows \/ ReplayDispatch \/ ReplayRead
        \/ ReplayResolve \/ ReplayQueryFails \/ ReplayCatch \/ ReplayCrash
        \/ PruneOldLogs

Spec == Init /\ [][Next]_vars

----------------------------------------------------------------------------
(* Properties *)

TypeOK ==
  /\ log \in [Events -> EventKinds]
  /\ broken \in SUBSET Events
  /\ stream \in [StreamIds -> StreamRow \cup {Absent}]
  /\ streamEvents \in [Events -> Nat]
  /\ deadLetter \in [Events -> DeadLetterRow \cup {Absent}]
  /\ reached \in 0 .. NumEvents
  /\ cursor \in 0 .. reached /\ saved \in 0 .. cursor
  /\ redelivered \in 0 .. MaxRedeliveries
  /\ replay \in [at : {"idle", "dispatch", "read", "resolve", "catch"},
                 rows : SUBSET Events, attempts : [Events -> Nat]]

OfStream(s) == {e \in 1 .. reached : log[e].stream = s}

(* What the rows of stream_events say an event has paid out, and the       *)
(* events that pay out of stream s.                                        *)
PaidOut == [e \in Events |-> log[e].amount * streamEvents[e]]
PaysOut(s) == {e \in OfStream(s) : log[e].type \in {"withdraw", "cancel"}}

(* The two tables a handler writes agree: what a stream paid out is the    *)
(* sum of its withdraw and cancel rows in stream_events, however often an  *)
(* event was delivered or replayed.                                        *)
WithdrawnIsAudited ==
  \A s \in StreamIds : stream[s] # Absent =>
    stream[s].withdrawn = SumFunctionOnSet(PaidOut, PaysOut(s))

(* Delivering created and cancel again changes nothing: a stream whose     *)
(* withdraws were applied once each, and its other events at least once,   *)
(* is what the contract has, as long as no topup came in between (the      *)
(* indexer ignores those).                                                 *)
MatchesChain ==
  \A s \in StreamIds :
    /\ OfStream(s) # {}
    /\ \A e \in OfStream(s) :
         \/ log[e].type = "withdraw" /\ streamEvents[e] = 1
         \/ log[e].type \in {"created", "cancel"} /\ streamEvents[e] > 0
    => stream[s] = OnChain(s)[reached]

(* docs/INDEXER.md: a failed event is recorded, not silently dropped.  An  *)
(* event that was handled is in stream_events, or it has an unresolved     *)
(* dead letter, or it came to a stream cancelled before, or it is a topup. *)
NothingForgotten ==
  \A e \in 1 .. reached :
    streamEvents[e] > 0 \/ e \in Unresolved \/ Ignored(e, log[e].stream)

(* A cancelled stream is never written again.                              *)
CancelledIsFinal ==
  [][\A s \in StreamIds :
       stream[s] # Absent /\ stream[s].status = "CANCELLED"
         => stream'[s] = stream[s]]_vars

(* The streams table as accounts: what is left out is the balance.         *)
Accounts == [s \in StreamIds |->
  IF stream[s] = Absent THEN [state |-> "none", paid |-> 0]
  ELSE [state |-> IF stream[s].status = "CANCELLED" THEN "closed" ELSE "open",
        paid |-> stream[s].withdrawn]]
Ledger == INSTANCE VaultLedger WITH
  events <- log, account <- Accounts, entries <- streamEvents,
  failed <- Unresolved, passed <- saved, begun <- reached
(* docs/INDEXER.md, Checkpoint and Failed events: the handlers, the script *)
(* with its crashes and the pruning together are a ledger, which passes no *)
(* event, and takes none off the dead letters, before it is booked on its  *)
(* stream and in stream_events or there is nothing to book.                *)
ImplementsLedger == Ledger!LedgerSpec

(* replayDeadLetters.ts:63-64: "The dead-letter row stores the fields      *)
(* handlers actually read".  So the dispatch of a created event that the   *)
(* handlers can decode by now does not throw.                              *)
RepairedCreatedDispatched ==
  [][\A e \in Events :
       ReplayNext(e) /\ log[e].type = "created" /\ e \notin broken
         => replay'.at # "catch"]_vars
=============================================================================
