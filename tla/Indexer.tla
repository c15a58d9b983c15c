------------------------------ MODULE Indexer ------------------------------
(***************************************************************************)
(* The event indexer: src/indexer/worker.ts, lock.ts and checkpoint.ts.    *)
(*                                                                         *)
(* Several worker processes poll the Stellar RPC for contract events.  A   *)
(* session-level Postgres advisory lock is meant to let one of them poll   *)
(* at a time; the cursor a worker polls from is cached in its memory and   *)
(* saved, after every event, in the single row of indexer_checkpoints.     *)
(*                                                                         *)
(* A step of a worker ends at an await of the code.  Handlers are one step *)
(* here (their database transaction); what they write is the subject of    *)
(* the module Projection.  Time is not modelled: the delay before a poll   *)
(* (scheduleNextPoll, backoffDelayMs) only decides when StartPoll happens. *)
(* An event is the number of its place in the order the RPC serves events. *)
(***************************************************************************)
EXTENDS Integers, FiniteSets

CONSTANTS
  Workers,      \* the worker processes (replicas of the service)
  NoWorker,     \* nobody holds the advisory lock
  Orphan,       \* a server session whose client is gone holds it
  Undef,        \* the JavaScript undefined; a row that does not exist
  NumEvents,    \* how many contract events there will ever be
  Chain,        \* Chain[e]: the ledger that emitted event e
  MaxLedger,    \* bound: the last ledger the network closes
  StartLedger,  \* INDEXER_START_LEDGER, Undef when it is not set
  Retention,    \* how many of the latest ledgers the RPC still serves
  PageSize,     \* MAX_EVENTS_PER_POLL
  Malformed,    \* the events whose handler throws a decode error
  FaultKinds,   \* the kinds of fault that may happen
  MaxFaults     \* bound: how many faults may happen

Events == 1 .. NumEvents

ASSUME ConstAssumption ==
  /\ NoWorker \notin Workers /\ Orphan \notin Workers /\ NoWorker # Orphan
  /\ NumEvents \in Nat /\ MaxLedger \in Nat \ {0} /\ MaxFaults \in Nat
  /\ Chain \in [Events -> Nat]
  /\ \A d, e \in Events : d < e => Chain[d] <= Chain[e]
  /\ StartLedger \in Nat \cup {Undef}
  /\ Undef \notin Nat /\ Undef \notin [ledger : Nat, cursor : Nat]
  /\ Retention \in Nat \ {0} /\ PageSize \in Nat \ {0}
  /\ Malformed \subseteq Events
  /\ FaultKinds \subseteq
       {"rpc", "lag", "behind", "db", "handler", "save", "ack", "session",
        "crash", "stop"}

VARIABLES
  latest,      \* the latest closed ledger
  row,         \* the indexer_checkpoints row, Undef before the first save
  lockHolder,  \* whose session holds the advisory lock
  pc,          \* what a worker awaits next
  mem,         \* lastProcessedLedger and lastProcessedEventId of a worker
  lock,        \* its indexerLock: "none", "held" or "broken"
  stopping,    \* stopped: the process was asked to shut down
  seen,        \* latestLedger, read at the start of the running poll
  batch,       \* the fetched events that are still to be handled
  faults,      \* how many faults happened
  applied,     \* history: how often the handler of an event committed
  deadLettered,\* history: the events recorded as dead letters
  skipped,     \* history: the events a logged skip-ahead passed over
  preStart     \* history: the events a first run started after

network == <<latest>>
database == <<row, lockHolder>>
process == <<pc, mem, lock, stopping, seen, batch>>
history == <<applied, deadLettered, skipped, preStart>>
vars == <<latest, row, lockHolder, pc, mem, lock, stopping, seen, batch,
          faults, applied, deadLettered, skipped, preStart>>

----------------------------------------------------------------------------
(* Positions of the cursor.  A cursor of 0 is an undefined lastEventId:    *)
(* everything up to and with the ledger was scanned.                       *)

Position == [ledger : Nat, cursor : Nat]
AtLedger(n) == [ledger |-> n, cursor |-> 0]
(* Mistaken: the cursor is lost, or only the ledger is kept.               *)
AtEventUndefined(e) == [ledger |-> Chain[e], cursor |-> Undef]
AtEventLedger(e) == AtLedger(Chain[e])
AtEvent(e) == [ledger |-> Chain[e], cursor |-> e]

UpTo(pos) == {e \in Events : IF pos.cursor # 0 THEN e <= pos.cursor
                                              ELSE Chain[e] <= pos.ledger}
Covered(pos) == IF pos = Undef THEN {} ELSE UpTo(pos)

(* The answer of the RPC (external): getEvents serves, in order, the       *)
(* events after the position asked for, a page at most, from the ledgers   *)
(* up to n, the last it has; it rejects a position outside its window.     *)
Start(pos) == IF pos.cursor # 0 THEN pos.ledger ELSE pos.ledger + 1
OutOfRange(pos, n) == Start(pos) > n \/ Start(pos) + Retention <= n
After(pos, n) == {e \in Events : Chain[e] <= n /\ e \notin UpTo(pos)}
Page(pos, n) == {e \in After(pos, n) :
                   Cardinality({d \in After(pos, n) : d <= e}) <= PageSize}

(* The event the loop handles next: the first of those still to be done.   *)
First(w) == {e \in batch[w] : \A d \in batch[w] : e <= d}

----------------------------------------------------------------------------
(* Faults.  They are counted so that a run is finite.                      *)

Fault(kind) == kind \in FaultKinds /\ faults < MaxFaults /\ faults' = faults + 1
NoFault == UNCHANGED faults

(* A write that landed, but whose caller may see a lost connection instead *)
(* of the answer.                                                          *)
Written(answered) == IF answered THEN NoFault ELSE Fault("ack")

AwaitKind == [acquire |-> "db", readRow |-> "db", firstLatest |-> "rpc",
              readLatest |-> "rpc", fetch |-> "rpc", handle |-> "handler",
              save |-> "save"]
PollStates == {"readRow", "firstLatest", "readLatest", "fetch", "handle", "save"}

----------------------------------------------------------------------------
Init ==
  /\ latest \in 1 .. MaxLedger
  /\ row = Undef
  /\ lockHolder = NoWorker
  /\ pc = [w \in Workers |-> "idle"]
  /\ mem = [w \in Workers |-> Undef]
  /\ lock = [w \in Workers |-> "none"]
  /\ stopping = [w \in Workers |-> FALSE]
  /\ seen = [w \in Workers |-> 0]
  /\ batch = [w \in Workers |-> {}]
  /\ faults = 0
  /\ applied = [e \in Events |-> 0]
  /\ deadLettered = {}
  /\ skipped = {}
  /\ preStart = {}

(* The worker's control goes on to state s with everything it holds.       *)
Goto(w, s) == pc' = [pc EXCEPT ![w] = s]
(* Mistaken: what is left of the page survives the failed poll.            *)
EndPollKeepsBatch(w) == Goto(w, "idle") /\ UNCHANGED batch
(* The poll ends: inFlight is cleared and the next poll is scheduled.      *)
EndPoll(w) == Goto(w, "idle") /\ batch' = [batch EXCEPT ![w] = {}]
(* pollOnce reads the checkpoint row only when it has no cached cursor.    *)
PollEntry(w) == IF mem[w] = Undef THEN "readRow" ELSE "readLatest"

(* Mistaken: a lock whose connection failed is kept.                       *)
StartPollKeepsBroken(w) ==
  /\ pc[w] = "idle" /\ ~stopping[w]
  /\ \/ lock[w] = "held" /\ Goto(w, PollEntry(w))
     \/ lock[w] = "none" /\ Goto(w, "acquire")
     \/ lock[w] = "broken" /\ UNCHANGED pc
  /\ NoFault
  /\ UNCHANGED <<network, database, mem, lock, stopping, seen, batch, history>>

(* runPoll, fired by the timer: keep the lock, or drop one whose           *)
(* connection failed and try to acquire it again.                          *)
StartPoll(w) ==
  /\ pc[w] = "idle" /\ ~stopping[w]
  /\ IF lock[w] = "held"
       THEN Goto(w, PollEntry(w)) /\ UNCHANGED lock
       ELSE Goto(w, "acquire") /\ lock' = [lock EXCEPT ![w] = "none"]
  /\ NoFault
  /\ UNCHANGED <<network, database, mem, stopping, seen, batch, history>>

TryAcquire(w) ==
  /\ pc[w] = "acquire"
  /\ IF lockHolder = NoWorker
       THEN /\ lockHolder' = w
            /\ lock' = [lock EXCEPT ![w] = "held"]
            /\ Goto(w, IF stopping[w] THEN "idle" ELSE PollEntry(w))
       ELSE /\ Goto(w, "idle")
            /\ UNCHANGED <<lockHolder, lock>>
  /\ NoFault
  /\ UNCHANGED <<network, row, mem, stopping, seen, batch, history>>

(* A first run starts after ledger n: the events before are not wanted.    *)
StartAfter(w, n) ==
  /\ mem' = [mem EXCEPT ![w] = AtLedger(n)]
  /\ preStart' = preStart \cup UpTo(AtLedger(n))
  /\ Goto(w, "save")

ReadRow(w) ==
  /\ pc[w] = "readRow"
  /\ \/ /\ row # Undef
        /\ mem' = [mem EXCEPT ![w] = row]
        /\ Goto(w, "readLatest")
        /\ UNCHANGED preStart
     \/ /\ row = Undef /\ StartLedger # Undef
        /\ StartAfter(w, StartLedger)
     \/ /\ row = Undef /\ StartLedger = Undef
        /\ Goto(w, "firstLatest")
        /\ UNCHANGED <<mem, preStart>>
  /\ NoFault
  /\ UNCHANGED <<network, database, lock, stopping, seen, batch,
                 applied, deadLettered, skipped>>

(* The latest ledger.  An RPC endpoint that balances its load may answer   *)
(* with one that is a ledger behind.                                       *)
FirstLatest(w) ==
  /\ pc[w] = "firstLatest"
  /\ \E lag \in {0, 1} :
       /\ lag < latest
       /\ IF lag = 0 THEN NoFault ELSE Fault("lag")
       /\ StartAfter(w, latest - lag)
  /\ UNCHANGED <<network, database, lock, stopping, seen, batch,
                 applied, deadLettered, skipped>>

(* Mistaken: a page that ended within a ledger is not continued.           *)
ReadLatestIgnoresCursor(w) ==
  /\ pc[w] = "readLatest"
  /\ \E lag \in {0, 1} :
       /\ lag < latest
       /\ IF lag = 0 THEN NoFault ELSE Fault("lag")
       /\ seen' = [seen EXCEPT ![w] = latest - lag]
       /\ Goto(w, IF mem[w].ledger >= latest - lag
                    THEN "idle" ELSE "fetch")
  /\ UNCHANGED <<network, database, mem, lock, stopping, batch, history>>

(* latestLedger is read before the events, and may lag as well.            *)
ReadLatest(w) ==
  /\ pc[w] = "readLatest"
  /\ \E lag \in {0, 1} :
       /\ lag < latest
       /\ IF lag = 0 THEN NoFault ELSE Fault("lag")
       /\ seen' = [seen EXCEPT ![w] = latest - lag]
       /\ Goto(w, IF mem[w].ledger >= latest - lag /\ mem[w].cursor = 0
                    THEN "idle" ELSE "fetch")
  /\ UNCHANGED <<network, database, mem, lock, stopping, batch, history>>

(* The range was scanned up to the latest ledger read before.              *)
Scanned(w) ==
  /\ mem' = [mem EXCEPT ![w] = AtLedger(seen[w])]
  /\ Goto(w, "save")

(* The node that serves the events need not have every ledger that has     *)
(* closed; what it says of that (the latestLedger and the cursor of its    *)
(* answer) is not looked at.                                               *)
Fetch(w) ==
  /\ pc[w] = "fetch"
  /\ \E n \in 0 .. latest :
       /\ IF n = latest THEN NoFault ELSE Fault("behind")
       /\ \/ /\ OutOfRange(mem[w], n)
             /\ Scanned(w)
             /\ skipped' = skipped \cup (UpTo(AtLedger(seen[w])) \ UpTo(mem[w]))
             /\ UNCHANGED batch
          \/ /\ ~OutOfRange(mem[w], n) /\ After(mem[w], n) = {}
             /\ Scanned(w)
             /\ UNCHANGED <<batch, skipped>>
          \/ /\ ~OutOfRange(mem[w], n) /\ After(mem[w], n) # {}
             /\ batch' = [batch EXCEPT ![w] = Page(mem[w], n)]
             /\ Goto(w, "handle")
             /\ UNCHANGED <<mem, skipped>>
  /\ UNCHANGED <<network, database, lock, stopping, seen,
                 applied, deadLettered, preStart>>

(* Mistaken: the row is saved once per page.                               *)
AdvanceUnsaved(w, e) ==
  /\ mem' = [mem EXCEPT ![w] = AtEvent(e)]
  /\ batch' = [batch EXCEPT ![w] = @ \ {e}]
  /\ Goto(w, IF batch[w] = {e} THEN "save" ELSE "handle")

(* The event is done: the cached cursor moves first, the row afterwards.   *)
Advance(w, e) ==
  /\ mem' = [mem EXCEPT ![w] = AtEvent(e)]
  /\ batch' = [batch EXCEPT ![w] = @ \ {e}]
  /\ Goto(w, "save")

(* Whether an error of the handler is for good, or is worth a retry.       *)
IsDecodeOrValidationError(e) == e \in Malformed

(* The handler commits its transaction.  When the answer is lost the error *)
(* is transient, so the poll fails and the cursor stays.                   *)
HandleEvent(w) ==
  /\ pc[w] = "handle"
  /\ \E e \in First(w), answered \in BOOLEAN :
       /\ ~IsDecodeOrValidationError(e)
       /\ applied' = [applied EXCEPT ![e] = @ + 1]
       /\ Written(answered)
       /\ IF answered THEN Advance(w, e) ELSE EndPoll(w) /\ UNCHANGED mem
  /\ UNCHANGED <<network, database, lock, stopping, seen,
                 deadLettered, skipped, preStart>>

(* The handler throws a decode error: recordDeadLetter, then advance.      *)
DeadLetterEvent(w) ==
  /\ pc[w] = "handle"
  /\ \E e \in First(w), answered \in BOOLEAN :
       /\ IsDecodeOrValidationError(e)
       /\ deadLettered' = deadLettered \cup {e}
       /\ Written(answered)
       /\ IF answered THEN Advance(w, e) ELSE EndPoll(w) /\ UNCHANGED mem
  /\ UNCHANGED <<network, database, lock, stopping, seen,
                 applied, skipped, preStart>>

(* saveCheckpoint upserts the row; the cached cursor already moved.        *)
SaveCheckpoint(w) ==
  /\ pc[w] = "save"
  /\ row' = mem[w]
  /\ \E answered \in BOOLEAN :
       /\ Written(answered)
       /\ IF answered /\ batch[w] # {}
            THEN Goto(w, "handle") /\ UNCHANGED batch
            ELSE EndPoll(w)
  /\ UNCHANGED <<network, lockHolder, mem, lock, stopping, seen, history>>

(* Mistaken: a transient failure of a handler skips the event.             *)
PollFailsSkipping(w) ==
  /\ pc[w] \in DOMAIN AwaitKind
  /\ Fault(AwaitKind[pc[w]])
  /\ IF pc[w] = "handle" THEN \E e \in First(w) : Advance(w, e)
                         ELSE EndPoll(w) /\ UNCHANGED mem
  /\ UNCHANGED <<network, database, lock, stopping, seen, history>>

(* An await rejects and nothing was written: the poll fails, whatever the  *)
(* cached cursor is by then.                                               *)
PollFails(w) ==
  /\ pc[w] \in DOMAIN AwaitKind
  /\ Fault(AwaitKind[pc[w]])
  /\ EndPoll(w)
  /\ UNCHANGED <<network, database, mem, lock, stopping, seen, history>>

----------------------------------------------------------------------------
(* The lock's connection.                                                  *)

(* Postgres ends the session (a partition, a failover): it frees the lock  *)
(* while the client still believes it is held.                             *)
ServerDropsSession(w) ==
  /\ lockHolder = w
  /\ Fault("session")
  /\ lockHolder' = NoWorker
  /\ UNCHANGED <<network, row, process, history>>

(* The client sees its connection fail first; the server's session lives   *)
(* on until Postgres notices.                                              *)
ClientLosesSession(w) ==
  /\ lock[w] = "held" /\ lockHolder = w
  /\ Fault("session")
  /\ lock' = [lock EXCEPT ![w] = "broken"]
  /\ lockHolder' = Orphan
  /\ UNCHANGED <<network, row, pc, mem, stopping, seen, batch, history>>

(* The 'error' event of a connection the server ended.                     *)
ClientNoticesLoss(w) ==
  /\ lock[w] = "held" /\ lockHolder # w
  /\ lock' = [lock EXCEPT ![w] = "broken"]
  /\ NoFault
  /\ UNCHANGED <<network, database, pc, mem, stopping, seen, batch, history>>

ReapOrphan ==
  /\ lockHolder = Orphan
  /\ lockHolder' = NoWorker
  /\ NoFault
  /\ UNCHANGED <<network, row, process, history>>

----------------------------------------------------------------------------
(* Processes stop, crash and are started again by the orchestrator.        *)

(* Mistaken: the lock is released before the poll in flight has ended.     *)
AskToStopReleasing(w) ==
  /\ pc[w] # "down" /\ ~stopping[w]
  /\ Fault("stop")
  /\ stopping' = [stopping EXCEPT ![w] = TRUE]
  /\ lockHolder' = IF lockHolder = w THEN NoWorker ELSE lockHolder
  /\ UNCHANGED <<network, row, pc, mem, lock, seen, batch, history>>

AskToStop(w) ==
  /\ pc[w] # "down" /\ ~stopping[w]
  /\ Fault("stop")
  /\ stopping' = [stopping EXCEPT ![w] = TRUE]
  /\ UNCHANGED <<network, database, pc, mem, lock, seen, batch, history>>

(* The process is gone, and its memory with it.                            *)
Exit(w) ==
  /\ Goto(w, "down")
  /\ mem' = [mem EXCEPT ![w] = Undef]
  /\ lock' = [lock EXCEPT ![w] = "none"]
  /\ stopping' = [stopping EXCEPT ![w] = FALSE]
  /\ seen' = [seen EXCEPT ![w] = 0]
  /\ batch' = [batch EXCEPT ![w] = {}]

(* stop() waits for the poll in flight, then releases the lock.            *)
FinishStop(w) ==
  /\ stopping[w] /\ pc[w] = "idle"
  /\ lockHolder' = IF lockHolder = w THEN NoWorker ELSE lockHolder
  /\ Exit(w)
  /\ NoFault
  /\ UNCHANGED <<network, row, history>>

Crash(w) ==
  /\ pc[w] # "down"
  /\ Fault("crash")
  /\ lockHolder' = IF lockHolder = w THEN Orphan ELSE lockHolder
  /\ Exit(w)
  /\ UNCHANGED <<network, row, history>>

Restart(w) ==
  /\ pc[w] = "down"
  /\ Goto(w, "idle")
  /\ NoFault
  /\ UNCHANGED <<network, database, mem, lock, stopping, seen, batch, history>>

CloseLedger ==
  /\ latest < MaxLedger
  /\ latest' = latest + 1
  /\ UNCHANGED <<database, process, faults, history>>

----------------------------------------------------------------------------
PollOnce(w) ==
  \/ ReadRow(w) \/ FirstLatest(w) \/ ReadLatest(w) \/ Fetch(w)
  \/ HandleEvent(w) \/ DeadLetterEvent(w) \/ SaveCheckpoint(w)
WorkerStep(w) == StartPoll(w) \/ TryAcquire(w) \/ PollOnce(w)
                   \/ FinishStop(w) \/ Restart(w)
Trouble(w) == \/ PollFails(w) \/ AskToStop(w) \/ Crash(w)
              \/ ServerDropsSession(w) \/ ClientLosesSession(w)
              \/ ClientNoticesLoss(w)

Next == \/ \E w \in Workers : WorkerStep(w) \/ Trouble(w)
        \/ ReapOrphan
        \/ CloseLedger

Spec == Init /\ [][Next]_vars

(* A poll schedules the next one, an await settles, the orchestrator       *)
(* restarts what exits, Postgres reaps dead sessions.  Faults, the         *)
(* shutdown requests and new ledgers are never forced.                     *)
FairSpec == /\ Spec
            /\ \A w \in Workers : WF_vars(WorkerStep(w))
            /\ WF_vars(ReapOrphan)

----------------------------------------------------------------------------
(* Properties *)

(* Every variable has its type. *)
TypeOK ==
  /\ latest \in 1 .. MaxLedger
  /\ row \in Position \cup {Undef}
  /\ lockHolder \in Workers \cup {NoWorker, Orphan}
  /\ pc \in [Workers -> {"idle", "acquire", "down"} \cup PollStates]
  /\ mem \in [Workers -> Position \cup {Undef}]
  /\ lock \in [Workers -> {"none", "held", "broken"}]
  /\ stopping \in [Workers -> BOOLEAN]
  /\ seen \in [Workers -> Nat]
  /\ batch \in [Workers -> SUBSET Events]
  /\ faults \in 0 .. MaxFaults
  /\ applied \in [Events -> Nat]
  /\ deadLettered \in SUBSET Events
  /\ skipped \in SUBSET Events
  /\ preStart \in SUBSET Events

(* What became of an event is known: its handler committed, it is a dead   *)
(* letter, or a logged skip or the choice of a first run passed it over.   *)
Settled(e) == applied[e] > 0 \/ e \in deadLettered \cup skipped \cup preStart

(* No event is silently skipped: whatever a saved row or a cached cursor   *)
(* claims to be done is settled.  Through batches, empty pages, skips,     *)
(* failures, crashes and any number of workers at once.                    *)
NoSilentSkip ==
  /\ \A e \in Covered(row) : Settled(e)
  /\ \A w \in Workers : \A e \in Covered(mem[w]) : Settled(e)

(* What holds between two awaits of a poll; with TypeOK and NoSilentSkip   *)
(* it makes an inductive invariant.                                        *)
PollConsistent ==
  \A w \in Workers :
    /\ pc[w] \in {"readLatest", "fetch", "handle", "save"} => mem[w] # Undef
    /\ seen[w] <= latest
    /\ batch[w] # {} =>
         /\ pc[w] \in {"handle", "save"}
         /\ \A e \in batch[w] : /\ e \notin Covered(mem[w])
                                /\ \A d \in Events : d < e =>
                                     d \in batch[w] \cup Covered(mem[w])
IInv == TypeOK /\ NoSilentSkip /\ PollConsistent

(* worker.ts:239-242: saving after every event "bounds the damage to at    *)
(* most the in-flight event on a crash".  What a crash would apply twice   *)
(* is what was applied and is not covered by the row.                      *)
AtRisk == {e \in Events : applied[e] > 0 /\ e \notin Covered(row)}
OnlyInFlightAtRisk == Cardinality(AtRisk) <= 1

(* Two polls never run at once, and only the session that Postgres has     *)
(* granted the advisory lock polls.                                        *)
Polling(w) == pc[w] \in PollStates
OnePoller == \A w \in Workers : Polling(w) => lockHolder = w

(* docs/INDEXER.md, Checkpoint: the indexer implements the log of events.  *)
(* A delivery is a committed handler, an acknowledgement a saved row; what *)
(* a saved row has acknowledged is never handled again.                    *)
Log == INSTANCE EventLog WITH
  delivered <- applied,
  givenUp <- deadLettered \cup skipped \cup preStart,
  acknowledged <- Covered(row)
ImplementsEventLog == Log!LogSpec

(* Every event of a closed ledger is settled in the end.                   *)
EventuallySettled ==
  \A e \in Events : (Chain[e] <= latest) ~> Settled(e)

(* The row catches up with the events of the network and stays there.      *)
EventuallySaved ==
  <>[](\A e \in Events : Chain[e] <= latest => e \in Covered(row))
=============================================================================
