--------------------------- MODULE IndexerProofs ---------------------------
(***************************************************************************)
(* Theorems about the indexer, for any number of workers, events, ledgers  *)
(* and faults: one poller at a time, polls that skip nothing, the log of   *)
(* events it implements (the module EventLog), and the bound of what a     *)
(* crash can repeat.                                                       *)
(*                                                                         *)
(* Two faults break the log, and three the bound.  With a lost session     *)
(* two workers poll, and the slower one moves the row back.  With an RPC   *)
(* that lags, a cursor within the last ledger falls back behind it.  With  *)
(* a save that fails, the cached cursor runs ahead of the row by one more  *)
(* event each time.                                                        *)
(***************************************************************************)
EXTENDS Indexer, FiniteSetTheorems, TLAPS

(* A fault is counted and stays within its bound, whatever its kind.       *)
LEMMA FaultType ==
  ASSUME faults \in 0 .. MaxFaults, NEW kind, Fault(kind) \/ NoFault
  PROVE  faults' \in 0 .. MaxFaults
BY ConstAssumption DEF Fault, NoFault

(* The same for a write whose answer may be lost.                          *)
LEMMA WrittenType ==
  ASSUME faults \in 0 .. MaxFaults, NEW answered \in BOOLEAN, Written(answered)
  PROVE  faults' \in 0 .. MaxFaults
BY ConstAssumption DEF Written, Fault, NoFault

(* The positions the code builds are positions, and never undefined.       *)
LEMMA PositionType ==
  /\ \A n \in Nat : AtLedger(n) \in Position
  /\ \A e \in Events : AtEvent(e) \in Position
  /\ \A p \in Position : p # Undef
BY ConstAssumption DEF AtLedger, AtEvent, Position, Events

(* Every step keeps every variable within its type.                        *)
LEMMA TypeStep == TypeOK /\ [Next]_vars => TypeOK'
<1> SUFFICES ASSUME TypeOK, [Next]_vars PROVE TypeOK'
  OBVIOUS
<1> USE DEF TypeOK, network, database, process, history, Goto, PollStates, NoFault
<1>1. ASSUME NEW w \in Workers, StartPoll(w) PROVE TypeOK'
  BY <1>1 DEF StartPoll, PollEntry
<1>2. ASSUME NEW w \in Workers, TryAcquire(w) PROVE TypeOK'
  BY <1>2 DEF TryAcquire, PollEntry
<1>3. ASSUME NEW w \in Workers, ReadRow(w) PROVE TypeOK'
  <2>1. CASE row # Undef
    BY <1>3, <2>1 DEF ReadRow
  <2>2. CASE row = Undef /\ StartLedger # Undef
    BY <1>3, <2>2, PositionType, ConstAssumption DEF ReadRow, StartAfter, UpTo
  <2>3. CASE row = Undef /\ StartLedger = Undef
    BY <1>3, <2>3 DEF ReadRow
  <2>4. QED
    BY <2>1, <2>2, <2>3
<1>4. ASSUME NEW w \in Workers, FirstLatest(w) PROVE TypeOK'
  <2>1. PICK lag \in {0, 1} :
          /\ lag < latest
          /\ IF lag = 0 THEN NoFault ELSE Fault("lag")
          /\ StartAfter(w, latest - lag)
    BY <1>4 DEF FirstLatest
  <2>2. latest - lag \in Nat
    BY <2>1, ConstAssumption
  <2>3. AtLedger(latest - lag) \in Position
    BY <2>2, PositionType
  <2>4. faults' \in 0 .. MaxFaults
    BY <2>1, FaultType
  <2>5. QED
    BY <1>4, <2>1, <2>3, <2>4 DEF FirstLatest, StartAfter, UpTo
<1>5. ASSUME NEW w \in Workers, ReadLatest(w) PROVE TypeOK'
  BY <1>5, FaultType DEF ReadLatest
<1>6. ASSUME NEW w \in Workers, Fetch(w) PROVE TypeOK'
  <2>1. PICK n \in 0 .. latest :
          /\ IF n = latest THEN NoFault ELSE Fault("behind")
          /\ \/ Scanned(w) /\ UNCHANGED batch
             \/ /\ batch' = [batch EXCEPT ![w] = Page(mem[w], n)]
                /\ Goto(w, "handle") /\ UNCHANGED mem
    BY <1>6 DEF Fetch
  <2>2. faults' \in 0 .. MaxFaults
    BY <2>1, FaultType
  <2>3. Page(mem[w], n) \subseteq Events
    BY DEF Page, After
  <2>4. skipped' \in SUBSET Events
    BY <1>6 DEF Fetch, UpTo
  <2>5. CASE Scanned(w) /\ UNCHANGED batch
    BY <1>6, <2>2, <2>4, <2>5, PositionType DEF Fetch, Scanned
  <2>6. CASE /\ batch' = [batch EXCEPT ![w] = Page(mem[w], n)]
             /\ Goto(w, "handle") /\ UNCHANGED mem
    BY <1>6, <2>2, <2>3, <2>4, <2>6 DEF Fetch
  <2>7. QED
    BY <2>1, <2>5, <2>6
<1>7. ASSUME NEW w \in Workers, HandleEvent(w) PROVE TypeOK'
  <2>1. PICK e \in First(w), answered \in BOOLEAN :
          /\ applied' = [applied EXCEPT ![e] = @ + 1]
          /\ Written(answered)
          /\ IF answered THEN Advance(w, e) ELSE EndPoll(w) /\ UNCHANGED mem
    BY <1>7 DEF HandleEvent
  <2>2. e \in Events
    BY <2>1 DEF First
  <2>3. faults' \in 0 .. MaxFaults
    BY <2>1, WrittenType
  <2>4. QED
    BY <1>7, <2>1, <2>2, <2>3, PositionType DEF HandleEvent, Advance, EndPoll
<1>8. ASSUME NEW w \in Workers, DeadLetterEvent(w) PROVE TypeOK'
  <2>1. PICK e \in First(w), answered \in BOOLEAN :
          /\ deadLettered' = deadLettered \cup {e}
          /\ Written(answered)
          /\ IF answered THEN Advance(w, e) ELSE EndPoll(w) /\ UNCHANGED mem
    BY <1>8 DEF DeadLetterEvent
  <2>2. e \in Events
    BY <2>1 DEF First
  <2>3. faults' \in 0 .. MaxFaults
    BY <2>1, WrittenType
  <2>4. QED
    BY <1>8, <2>1, <2>2, <2>3, PositionType DEF DeadLetterEvent, Advance, EndPoll
<1>9. ASSUME NEW w \in Workers, SaveCheckpoint(w) PROVE TypeOK'
  <2>1. PICK answered \in BOOLEAN :
          /\ Written(answered)
          /\ IF answered /\ batch[w] # {}
               THEN Goto(w, "handle") /\ UNCHANGED batch
               ELSE EndPoll(w)
    BY <1>9 DEF SaveCheckpoint
  <2>2. faults' \in 0 .. MaxFaults
    BY <2>1, WrittenType
  <2>3. QED
    BY <1>9, <2>1, <2>2 DEF SaveCheckpoint, EndPoll
<1>10. ASSUME NEW w \in Workers, PollFails(w) PROVE TypeOK'
  BY <1>10, FaultType DEF PollFails, EndPoll
<1>11. ASSUME NEW w \in Workers, ServerDropsSession(w) PROVE TypeOK'
  BY <1>11, FaultType DEF ServerDropsSession
<1>12. ASSUME NEW w \in Workers, ClientLosesSession(w) PROVE TypeOK'
  BY <1>12, FaultType DEF ClientLosesSession
<1>13. ASSUME NEW w \in Workers, ClientNoticesLoss(w) PROVE TypeOK'
  BY <1>13 DEF ClientNoticesLoss
<1>14. CASE ReapOrphan
  BY <1>14 DEF ReapOrphan
<1>15. ASSUME NEW w \in Workers, AskToStop(w) PROVE TypeOK'
  BY <1>15, FaultType DEF AskToStop
<1>16. ASSUME NEW w \in Workers, FinishStop(w) PROVE TypeOK'
  BY <1>16 DEF FinishStop, Exit
<1>17. ASSUME NEW w \in Workers, Crash(w) PROVE TypeOK'
  BY <1>17, FaultType DEF Crash, Exit
<1>18. ASSUME NEW w \in Workers, Restart(w) PROVE TypeOK'
  BY <1>18 DEF Restart
<1>19. CASE CloseLedger
  BY <1>19, ConstAssumption DEF CloseLedger
<1>20. CASE UNCHANGED vars
  BY <1>20 DEF vars
<1>21. QED
  BY <1>1, <1>2, <1>3, <1>4, <1>5, <1>6, <1>7, <1>8, <1>9, <1>10, <1>11, <1>12,
     <1>13, <1>14, <1>15, <1>16, <1>17, <1>18, <1>19, <1>20
     DEF Next, WorkerStep, PollOnce, Trouble

(* TypeOK is an invariant.                                                 *)
THEOREM TypeCorrect == Spec => []TypeOK
<1>1. Init => TypeOK
  BY ConstAssumption DEF Init, TypeOK, PollStates
<1>2. QED
  BY <1>1, TypeStep, PTL DEF Spec

----------------------------------------------------------------------------
(* What a position covers.                                                 *)
LEMMA UpToLedger ==
  ASSUME NEW n \in Nat
  PROVE  UpTo(AtLedger(n)) = {e \in Events : Chain[e] <= n}
BY DEF UpTo, AtLedger

LEMMA UpToEvent ==
  ASSUME NEW e \in Events
  PROVE  UpTo(AtEvent(e)) = {d \in Events : d <= e}
BY ConstAssumption DEF UpTo, AtEvent, Events

(* A set of events that has with an event all those before it.             *)
Closed(S) == \A e \in S, d \in Events : d < e => d \in S

(* Such is what a position covers.                                         *)
LEMMA UpToClosed == \A p \in Position : Closed(UpTo(p)) /\ UpTo(p) \subseteq Events
<1> SUFFICES ASSUME NEW p \in Position, NEW e \in UpTo(p), NEW d \in Events, d < e
             PROVE  d \in UpTo(p)
  BY DEF Closed, UpTo
<1>1. CASE p.cursor # 0
  BY <1>1, ConstAssumption DEF UpTo, Events, Position
<1>2. CASE p.cursor = 0
  <2>1. Chain[d] <= Chain[e] /\ Chain[e] <= p.ledger
    BY <1>2, ConstAssumption DEF UpTo
  <2>2. Chain[d] \in Nat /\ Chain[e] \in Nat /\ p.ledger \in Nat
    BY ConstAssumption DEF UpTo, Position
  <2>3. QED
    BY <1>2, <2>1, <2>2 DEF UpTo
<1>3. QED
  BY <1>1, <1>2

(* A page is the beginning of what comes after a position.                 *)
LEMMA PageIsPrefix ==
  ASSUME NEW p, NEW n, NEW e \in Page(p, n), NEW d \in After(p, n), d < e
  PROVE  d \in Page(p, n)
<1> DEFINE UpUntil(m) == {c \in After(p, n) : c <= m}
<1>1. After(p, n) \subseteq 1 .. NumEvents /\ e \in After(p, n)
  BY DEF After, Page, Events
<1>2. IsFiniteSet(UpUntil(e)) /\ Cardinality(UpUntil(e)) <= PageSize
  <2>1. IsFiniteSet(1 .. NumEvents)
    BY FS_Interval, ConstAssumption
  <2>2. UpUntil(e) \in SUBSET (1 .. NumEvents)
    BY <1>1
  <2>3. QED
    BY <2>1, <2>2, FS_Subset DEF Page
<1>3. UpUntil(d) \in SUBSET UpUntil(e)
  BY <1>1, ConstAssumption
<1>4. /\ IsFiniteSet(UpUntil(d))
      /\ Cardinality(UpUntil(d)) <= Cardinality(UpUntil(e))
  BY <1>2, <1>3, FS_Subset
<1>5. Cardinality(UpUntil(d)) \in Nat /\ Cardinality(UpUntil(e)) \in Nat
  BY <1>2, <1>4, FS_CardinalityType
<1>6. Cardinality(UpUntil(d)) <= PageSize
  BY <1>2, <1>4, <1>5, ConstAssumption
<1>7. QED
  BY <1>6 DEF Page

(* What is settled stays settled.                                          *)
LEMMA SettledStep ==
  ASSUME TypeOK, [Next]_vars, NEW e \in Events, Settled(e)
  PROVE  Settled(e)'
<1> USE DEF Settled, network, database, process, history
<1>1. ASSUME NEW w \in Workers, ReadRow(w) PROVE Settled(e)'
  BY <1>1 DEF ReadRow, StartAfter
<1>2. ASSUME NEW w \in Workers, FirstLatest(w) PROVE Settled(e)'
  BY <1>2 DEF FirstLatest, StartAfter
<1>3. ASSUME NEW w \in Workers, Fetch(w) PROVE Settled(e)'
  BY <1>3 DEF Fetch
<1>4. ASSUME NEW w \in Workers, HandleEvent(w) PROVE Settled(e)'
  <2>1. PICK d \in First(w) : applied' = [applied EXCEPT ![d] = @ + 1]
    BY <1>4 DEF HandleEvent
  <2>2. applied[e] > 0 => applied'[e] > 0
    BY <2>1 DEF TypeOK
  <2>3. QED
    BY <1>4, <2>2 DEF HandleEvent
<1>5. ASSUME NEW w \in Workers, DeadLetterEvent(w) PROVE Settled(e)'
  BY <1>5 DEF DeadLetterEvent
<1>6. CASE UNCHANGED history
  BY <1>6
<1>7. [Next]_vars => \/ UNCHANGED history
                     \/ \E w \in Workers : \/ ReadRow(w) \/ FirstLatest(w)
                                           \/ Fetch(w) \/ HandleEvent(w)
                                           \/ DeadLetterEvent(w)
  <2>1. ASSUME NEW w \in Workers, WorkerStep(w)
        PROVE  \/ UNCHANGED history
               \/ ReadRow(w) \/ FirstLatest(w) \/ Fetch(w) \/ HandleEvent(w)
               \/ DeadLetterEvent(w)
    BY <2>1 DEF WorkerStep, PollOnce, StartPoll, TryAcquire, ReadLatest,
       SaveCheckpoint, FinishStop, Restart
  <2>2. ASSUME NEW w \in Workers, Trouble(w) PROVE UNCHANGED history
    BY <2>2 DEF Trouble, PollFails, AskToStop, Crash, ServerDropsSession,
       ClientLosesSession, ClientNoticesLoss
  <2>3. QED
    BY <2>1, <2>2 DEF Next, vars, ReapOrphan, CloseLedger
<1>8. QED
  BY <1>1, <1>2, <1>3, <1>4, <1>5, <1>6, <1>7

(* NoSilentSkip survives a step that moves no position.                    *)
LEMMA SkipUnmoved ==
  ASSUME TypeOK, NoSilentSkip, [Next]_vars, UNCHANGED row,
         \A w \in Workers : mem'[w] \in {mem[w], Undef}
  PROVE  NoSilentSkip'
<1>1. \A e \in Covered(row)' : Settled(e)'
  BY SettledStep DEF NoSilentSkip, Covered, UpTo
<1>2. ASSUME NEW w \in Workers, NEW e \in Covered(mem[w])' PROVE Settled(e)'
  <2>1. e \in Covered(mem[w]) /\ e \in Events
    BY <1>2 DEF Covered, UpTo
  <2>2. QED
    BY <2>1, SettledStep DEF NoSilentSkip
<1>3. QED
  BY <1>1, <1>2 DEF NoSilentSkip

(* And a step that moves the cursor of one worker over settled events.     *)
LEMMA SkipMoved ==
  ASSUME TypeOK, NoSilentSkip, [Next]_vars, UNCHANGED row,
         NEW w \in Workers, NEW p \in Position,
         mem' = [mem EXCEPT ![w] = p], \A e \in UpTo(p) : Settled(e)'
  PROVE  NoSilentSkip'
<1>1. \A e \in Covered(row)' : Settled(e)'
  BY SettledStep DEF NoSilentSkip, Covered, UpTo
<1>2. ASSUME NEW v \in Workers, NEW e \in Covered(mem[v])' PROVE Settled(e)'
  <2>1. CASE v = w
    BY <1>2, <2>1, PositionType DEF Covered, TypeOK
  <2>2. CASE v # w
    <3>1. e \in Covered(mem[v]) /\ e \in Events
      BY <1>2, <2>2 DEF Covered, UpTo, TypeOK
    <3>2. QED
      BY <3>1, SettledStep DEF NoSilentSkip
  <2>3. QED
    BY <2>1, <2>2
<1>3. QED
  BY <1>1, <1>2 DEF NoSilentSkip

(* Advancing over the first event of the batch: everything up to it is     *)
(* settled, once it is itself.                                             *)
LEMMA AdvanceCovers ==
  ASSUME TypeOK, IInv, [Next]_vars, NEW w \in Workers, mem[w] # Undef,
         NEW e \in First(w), Settled(e)'
  PROVE  \A d \in UpTo(AtEvent(e)) : Settled(d)'
<1>1. e \in batch[w] /\ e \in Events
  BY DEF First, TypeOK
<1> SUFFICES ASSUME NEW d \in Events, d <= e PROVE Settled(d)'
  BY <1>1, UpToEvent
<1>2. CASE d = e
  BY <1>2
<1>3. CASE d # e
  <2>1. d < e
    BY <1>1, <1>3, ConstAssumption DEF Events
  <2>2. d \notin batch[w]
    BY <2>1, <1>1, ConstAssumption DEF First, Events
  <2>3. d \in Covered(mem[w])
    BY <1>1, <2>1, <2>2 DEF IInv, PollConsistent
  <2>4. QED
    BY <2>3, SettledStep DEF IInv, NoSilentSkip
<1>4. QED
  BY <1>2, <1>3

(* No step makes a position claim what is not settled.                     *)
(* An empty page is taken for a scan up to the ledger that was read        *)
(* before, so the node that serves it must have had that ledger.           *)
LEMMA SkipStep ==
  ASSUME "behind" \notin FaultKinds, IInv, [Next]_vars
  PROVE  NoSilentSkip'
<1>0. TypeOK /\ NoSilentSkip /\ PollConsistent
  BY DEF IInv
<1> USE DEF network, database, process, history
<1>1. ASSUME NEW w \in Workers, NEW n \in Nat, StartAfter(w, n), UNCHANGED row,
             UNCHANGED <<applied, deadLettered, skipped>>
      PROVE  NoSilentSkip'
  <2>1. \A e \in UpTo(AtLedger(n)) : Settled(e)'
    BY <1>1 DEF StartAfter, Settled
  <2>2. QED
    BY <1>0, <1>1, <2>1, PositionType, SkipMoved DEF StartAfter
<1>2. ASSUME NEW w \in Workers, ReadRow(w) PROVE NoSilentSkip'
  <2>1. CASE row # Undef
    <3>1. row \in Position /\ mem' = [mem EXCEPT ![w] = row] /\ UNCHANGED row
      BY <1>0, <1>2, <2>1 DEF ReadRow, TypeOK
    <3>2. \A e \in UpTo(row) : Settled(e)'
      BY <1>0, <2>1, SettledStep DEF NoSilentSkip, Covered, UpTo
    <3>3. QED
      BY <1>0, <3>1, <3>2, SkipMoved
  <2>2. CASE row = Undef /\ StartLedger # Undef
    BY <1>1, <1>2, <2>2, ConstAssumption DEF ReadRow
  <2>3. CASE row = Undef /\ StartLedger = Undef
    BY <1>0, <1>2, <2>3, SkipUnmoved DEF ReadRow
  <2>4. QED
    BY <2>1, <2>2, <2>3
<1>3. ASSUME NEW w \in Workers, FirstLatest(w) PROVE NoSilentSkip'
  BY <1>0, <1>1, <1>3, ConstAssumption DEF FirstLatest, TypeOK
<1>4. ASSUME NEW w \in Workers, Fetch(w) PROVE NoSilentSkip'
  <2>0. seen[w] \in Nat /\ mem[w] # Undef /\ seen[w] <= latest /\ latest \in Nat
    BY <1>0, <1>4, ConstAssumption DEF Fetch, TypeOK, PollConsistent
  <2>a. \A n \in 0 .. latest : (IF n = latest THEN NoFault ELSE Fault("behind")) => n = latest
    BY DEF Fault
  <2>1. CASE OutOfRange(mem[w], latest)
    <3>1. ASSUME NEW e \in UpTo(AtLedger(seen[w])) PROVE Settled(e)'
      <4>1. CASE e \in UpTo(mem[w])
        BY <1>0, <2>0, <4>1, SettledStep DEF NoSilentSkip, Covered, UpTo
      <4>2. CASE e \notin UpTo(mem[w])
        BY <1>4, <2>a, <2>1, <4>2, <3>1 DEF Fetch, Settled
      <4>3. QED
        BY <4>1, <4>2
    <3>2. QED
      BY <1>0, <1>4, <2>a, <2>0, <2>1, <3>1, PositionType, SkipMoved DEF Fetch, Scanned
  <2>2. CASE ~OutOfRange(mem[w], latest) /\ After(mem[w], latest) = {}
    <3>1. ASSUME NEW e \in UpTo(AtLedger(seen[w])) PROVE Settled(e)'
      <4>1. e \in Events /\ Chain[e] <= latest
        BY <2>0, <3>1, UpToLedger, ConstAssumption
      <4>2. e \in UpTo(mem[w])
        BY <2>2, <4>1 DEF After
      <4>3. QED
        BY <1>0, <2>0, <4>1, <4>2, SettledStep DEF NoSilentSkip, Covered
    <3>2. QED
      BY <1>0, <1>4, <2>a, <2>0, <2>2, <3>1, PositionType, SkipMoved DEF Fetch, Scanned
  <2>3. CASE ~OutOfRange(mem[w], latest) /\ After(mem[w], latest) # {}
    BY <1>0, <1>4, <2>a, <2>3, SkipUnmoved DEF Fetch
  <2>4. QED
    BY <2>1, <2>2, <2>3
<1>5. ASSUME NEW w \in Workers, HandleEvent(w) PROVE NoSilentSkip'
  <2>1. PICK e \in First(w), answered \in BOOLEAN :
          /\ applied' = [applied EXCEPT ![e] = @ + 1]
          /\ IF answered THEN Advance(w, e) ELSE EndPoll(w) /\ UNCHANGED mem
    BY <1>5 DEF HandleEvent
  <2>2. UNCHANGED row /\ mem[w] # Undef
    BY <1>0, <1>5 DEF HandleEvent, PollConsistent
  <2>3. CASE answered
    <3>1. e \in Events
      BY <1>0 DEF First, TypeOK
    <3>2. Settled(e)'
      BY <1>0, <2>1, <3>1 DEF Settled, TypeOK
    <3>3. QED
      BY <1>0, <2>1, <2>2, <2>3, <3>1, <3>2, AdvanceCovers, SkipMoved, PositionType
         DEF Advance
  <2>4. CASE ~answered
    BY <1>0, <2>1, <2>2, <2>4, SkipUnmoved
  <2>5. QED
    BY <2>3, <2>4
<1>6. ASSUME NEW w \in Workers, DeadLetterEvent(w) PROVE NoSilentSkip'
  <2>1. PICK e \in First(w), answered \in BOOLEAN :
          /\ deadLettered' = deadLettered \cup {e}
          /\ IF answered THEN Advance(w, e) ELSE EndPoll(w) /\ UNCHANGED mem
    BY <1>6 DEF DeadLetterEvent
  <2>2. UNCHANGED row /\ mem[w] # Undef
    BY <1>0, <1>6 DEF DeadLetterEvent, PollConsistent
  <2>3. CASE answered
    <3>1. e \in Events
      BY <1>0 DEF First, TypeOK
    <3>2. Settled(e)'
      BY <2>1 DEF Settled
    <3>3. QED
      BY <1>0, <2>1, <2>2, <2>3, <3>1, <3>2, AdvanceCovers, SkipMoved, PositionType
         DEF Advance
  <2>4. CASE ~answered
    BY <1>0, <2>1, <2>2, <2>4, SkipUnmoved
  <2>5. QED
    BY <2>3, <2>4
<1>7. ASSUME NEW w \in Workers, SaveCheckpoint(w) PROVE NoSilentSkip'
  <2>1. row' = mem[w] /\ UNCHANGED <<mem, history>>
    BY <1>7 DEF SaveCheckpoint
  <2>2. UNCHANGED <<applied, deadLettered, skipped, preStart>>
    BY <2>1
  <2>3. QED
    BY <1>0, <2>1, <2>2 DEF NoSilentSkip, Settled, Covered, UpTo
<1>8. ASSUME NEW w \in Workers, FinishStop(w) \/ Crash(w) PROVE NoSilentSkip'
  <2>1. UNCHANGED row /\ mem' = [mem EXCEPT ![w] = Undef]
    BY <1>8 DEF FinishStop, Crash, Exit
  <2>2. \A v \in Workers : mem'[v] \in {mem[v], Undef}
    BY <1>0, <2>1 DEF TypeOK
  <2>3. QED
    BY <1>0, <2>1, <2>2, SkipUnmoved
<1>9. CASE UNCHANGED <<row, mem>>
  BY <1>0, <1>9, SkipUnmoved
<1>10. [Next]_vars => \/ UNCHANGED <<row, mem>>
                      \/ \E w \in Workers :
                           \/ ReadRow(w) \/ FirstLatest(w) \/ Fetch(w)
                           \/ HandleEvent(w) \/ DeadLetterEvent(w)
                           \/ SaveCheckpoint(w) \/ FinishStop(w) \/ Crash(w)
  <2>1. ASSUME NEW w \in Workers, WorkerStep(w)
        PROVE  \/ UNCHANGED <<row, mem>>
               \/ ReadRow(w) \/ FirstLatest(w) \/ Fetch(w) \/ HandleEvent(w)
               \/ DeadLetterEvent(w) \/ SaveCheckpoint(w) \/ FinishStop(w)
    BY <2>1 DEF WorkerStep, PollOnce, StartPoll, TryAcquire, ReadLatest, Restart
  <2>2. ASSUME NEW w \in Workers, Trouble(w) PROVE UNCHANGED <<row, mem>> \/ Crash(w)
    BY <2>2 DEF Trouble, PollFails, AskToStop, ServerDropsSession,
       ClientLosesSession, ClientNoticesLoss
  <2>3. QED
    BY <2>1, <2>2 DEF Next, vars, ReapOrphan, CloseLedger
<1>11. QED
  BY <1>2, <1>3, <1>4, <1>5, <1>6, <1>7, <1>8, <1>9, <1>10

----------------------------------------------------------------------------
(* What PollConsistent says of one worker.                                 *)
Consistent(w) ==
  /\ pc[w] \in {"readLatest", "fetch", "handle", "save"} => mem[w] # Undef
  /\ seen[w] <= latest
  /\ batch[w] # {} =>
       /\ pc[w] \in {"handle", "save"}
       /\ \A e \in batch[w] : /\ e \notin Covered(mem[w])
                              /\ \A d \in Events : d < e =>
                                   d \in batch[w] \cup Covered(mem[w])

(* It is about that worker's variables, and a ledger that only grows.      *)
LEMMA ConsistentFrame ==
  ASSUME TypeOK, NEW w \in Workers, Consistent(w),
         pc'[w] = pc[w], mem'[w] = mem[w], batch'[w] = batch[w],
         seen'[w] = seen[w], latest' \in Nat, latest' >= latest
  PROVE  Consistent(w)'
<1>1. seen[w] \in Nat /\ latest \in Nat
  BY ConstAssumption DEF TypeOK
<1>2. seen'[w] <= latest'
  BY <1>1 DEF Consistent
<1>3. QED
  BY <1>2 DEF Consistent, Covered, UpTo

(* A worker whose batch is empty and which has the cursor its state needs. *)
LEMMA ConsistentIdle ==
  ASSUME TypeOK, NEW w \in Workers, batch'[w] = {},
         pc'[w] \in {"readLatest", "fetch", "handle", "save"} => mem'[w] # Undef,
         seen'[w] <= latest'
  PROVE  Consistent(w)'
BY DEF Consistent

(* Advancing over the first event of a batch keeps the rest of it the      *)
(* events that follow the cursor.                                          *)
LEMMA ConsistentAdvance ==
  ASSUME TypeOK, NEW w \in Workers, Consistent(w), pc[w] = "handle",
         NEW e \in First(w), Advance(w, e), UNCHANGED <<seen, latest>>
  PROVE  Consistent(w)'
<1>1. e \in batch[w] /\ e \in Events /\ batch[w] \subseteq Events
  BY DEF First, TypeOK
<1>2. /\ mem'[w] = AtEvent(e) /\ batch'[w] = batch[w] \ {e} /\ pc'[w] = "save"
      /\ mem'[w] # Undef
  BY <1>1, PositionType DEF Advance, Goto, TypeOK
<1>3. Covered(mem[w])' = {d \in Events : d <= e}
  BY <1>1, <1>2, UpToEvent DEF Covered, UpTo
<1>4. ASSUME NEW c \in batch'[w] PROVE c \notin Covered(mem[w])'
  BY <1>1, <1>2, <1>3, <1>4, ConstAssumption DEF First, Events
<1>5. ASSUME NEW c \in batch'[w], NEW d \in Events, d < c
      PROVE  d \in batch'[w] \cup Covered(mem[w])'
  <2>1. CASE d <= e
    BY <1>3, <2>1
  <2>2. CASE ~(d <= e)
    <3>1. e < d /\ c \in batch[w]
      BY <1>1, <1>2, <2>2, ConstAssumption DEF Events
    <3>2. e \notin Covered(mem[w]) /\ d \in batch[w] \cup Covered(mem[w])
      BY <1>1, <1>5, <3>1 DEF Consistent
    <3>3. d \in Covered(mem[w]) => e \in Covered(mem[w])
      BY <1>1, <3>1, UpToClosed DEF Covered, Closed, TypeOK
    <3>4. QED
      BY <1>2, <3>1, <3>2, <3>3, ConstAssumption DEF Events
  <2>3. QED
    BY <2>1, <2>2
<1>6. seen'[w] <= latest'
  BY DEF Consistent
<1>7. QED
  BY <1>2, <1>4, <1>5, <1>6 DEF Consistent

(* Every step leaves every worker consistent.                              *)
LEMMA ConsistentStep == TypeOK /\ PollConsistent /\ [Next]_vars => PollConsistent'
<1> SUFFICES ASSUME TypeOK, PollConsistent, [Next]_vars, NEW v \in Workers
             PROVE  Consistent(v)'
  BY DEF PollConsistent, Consistent
<1>0. TypeOK /\ Consistent(v)
  BY DEF PollConsistent, Consistent
<1> USE <1>0 DEF network, database, process, history
<1>a. latest \in Nat /\ seen[v] \in Nat /\ seen[v] <= latest
  BY ConstAssumption DEF TypeOK, Consistent
<1>b. ASSUME pc'[v] = pc[v], mem'[v] = mem[v], batch'[v] = batch[v],
             seen'[v] = seen[v], latest' = latest
      PROVE  Consistent(v)'
  BY <1>a, <1>b, ConsistentFrame
<1>c. ASSUME batch'[v] = {}, seen'[v] <= latest',
             pc'[v] \in {"readLatest", "fetch", "handle", "save"} => mem'[v] # Undef
      PROVE  Consistent(v)'
  BY <1>c, ConsistentIdle
<1>d. pc[v] \notin {"handle", "save"} => batch[v] = {}
  BY DEF Consistent
<1>e. ASSUME NEW w \in Workers, NEW s, Goto(w, s), v # w, UNCHANGED latest,
             mem'[v] = mem[v], batch'[v] = batch[v], seen'[v] = seen[v]
      PROVE  Consistent(v)'
  BY <1>b, <1>e DEF Goto, TypeOK
<1>1. ASSUME NEW w \in Workers, StartPoll(w) PROVE Consistent(v)'
  <2>1. CASE v = w
    BY <1>1, <1>a, <1>c, <1>d, <2>1 DEF StartPoll, Goto, PollEntry, TypeOK
  <2>2. CASE v # w
    BY <1>1, <1>e, <2>2 DEF StartPoll
  <2>3. QED
    BY <2>1, <2>2
<1>2. ASSUME NEW w \in Workers, TryAcquire(w) PROVE Consistent(v)'
  <2>1. CASE v = w
    BY <1>2, <1>a, <1>c, <1>d, <2>1 DEF TryAcquire, Goto, PollEntry, TypeOK
  <2>2. CASE v # w
    BY <1>2, <1>e, <2>2 DEF TryAcquire
  <2>3. QED
    BY <2>1, <2>2
<1>3. ASSUME NEW w \in Workers, ReadRow(w) PROVE Consistent(v)'
  <2>1. CASE v = w
    BY <1>3, <1>a, <1>c, <1>d, <2>1, PositionType, ConstAssumption
       DEF ReadRow, StartAfter, Goto, TypeOK
  <2>2. CASE v # w
    BY <1>3, <1>e, <2>2 DEF ReadRow, StartAfter, TypeOK
  <2>3. QED
    BY <2>1, <2>2
<1>4. ASSUME NEW w \in Workers, FirstLatest(w) PROVE Consistent(v)'
  <2>1. CASE v = w
    BY <1>4, <1>a, <1>c, <1>d, <2>1, PositionType
       DEF FirstLatest, StartAfter, Goto, TypeOK
  <2>2. CASE v # w
    BY <1>4, <1>e, <2>2 DEF FirstLatest, StartAfter, TypeOK
  <2>3. QED
    BY <2>1, <2>2
<1>5. ASSUME NEW w \in Workers, ReadLatest(w) PROVE Consistent(v)'
  <2>1. PICK lag \in {0, 1} :
          /\ seen' = [seen EXCEPT ![w] = latest - lag]
          /\ Goto(w, IF mem[w].ledger >= latest - lag /\ mem[w].cursor = 0
                       THEN "idle" ELSE "fetch")
    BY <1>5 DEF ReadLatest
  <2>2. CASE v = w
    <3>1. seen'[v] <= latest'
      BY <1>5, <1>a, <2>1, <2>2 DEF ReadLatest, TypeOK
    <3>2. mem[v] # Undef /\ batch[v] = {}
      BY <1>5, <1>d, <2>2 DEF ReadLatest, Consistent
    <3>3. QED
      BY <1>5, <1>c, <3>1, <3>2 DEF ReadLatest
  <2>3. CASE v # w
    BY <1>5, <1>e, <2>1, <2>3 DEF ReadLatest, TypeOK
  <2>4. QED
    BY <2>2, <2>3
<1>6. ASSUME NEW w \in Workers, Fetch(w) PROVE Consistent(v)'
  <2>1. CASE v # w
    BY <1>6, <1>e, <2>1 DEF Fetch, Scanned, TypeOK
  <2>2. CASE v = w /\ Scanned(w) /\ UNCHANGED batch
    <3>1. mem'[v] # Undef /\ batch'[v] = {}
      BY <1>6, <1>a, <1>d, <2>2, PositionType DEF Fetch, Scanned, TypeOK
    <3>2. QED
      BY <1>6, <1>a, <1>c, <3>1 DEF Fetch
  <2>3. ASSUME v = w, NEW n \in 0 .. latest, UNCHANGED mem, Goto(w, "handle"),
               batch' = [batch EXCEPT ![w] = Page(mem[w], n)]
        PROVE  Consistent(v)'
    <3>1. /\ pc'[v] = "handle" /\ UNCHANGED <<mem, seen, latest>>
          /\ batch'[v] = Page(mem[v], n) /\ mem[v] # Undef
      BY <1>6, <2>3 DEF Fetch, Goto, TypeOK, Consistent
    <3>2. ASSUME NEW e \in Page(mem[v], n)
          PROVE  /\ e \notin Covered(mem[v])
                 /\ \A d \in Events : d < e => d \in Page(mem[v], n) \cup Covered(mem[v])
      <4>1. e \in After(mem[v], n) /\ e \in Events
        BY DEF Page, After
      <4>2. e \notin Covered(mem[v])
        BY <3>1, <4>1 DEF After, Covered
      <4>3. ASSUME NEW d \in Events, d < e, d \notin Covered(mem[v])
            PROVE  d \in Page(mem[v], n)
        <5>1. Chain[d] <= n
          BY <1>a, <4>1, <4>3, ConstAssumption DEF After
        <5>2. d \in After(mem[v], n)
          BY <3>1, <4>3, <5>1 DEF After, Covered
        <5>3. QED
          BY <4>3, <5>2, PageIsPrefix
      <4>4. QED
        BY <4>2, <4>3
    <3>3. QED
      BY <1>a, <3>1, <3>2 DEF Consistent, Covered, UpTo
  <2>4. QED
    BY <1>6, <2>1, <2>2, <2>3 DEF Fetch
<1>7. ASSUME NEW w \in Workers, NEW e \in First(w), pc[w] = "handle",
             UNCHANGED <<seen, latest>>,
             Advance(w, e) \/ (EndPoll(w) /\ UNCHANGED mem)
      PROVE  Consistent(v)'
  <2>1. CASE v = w /\ Advance(w, e)
    BY <1>7, <2>1, ConsistentAdvance
  <2>2. CASE v = w /\ EndPoll(w)
    BY <1>7, <1>a, <1>c, <2>2 DEF EndPoll, Goto, TypeOK
  <2>3. CASE v # w
    BY <1>7, <1>e, <2>3 DEF Advance, EndPoll, TypeOK
  <2>4. QED
    BY <1>7, <2>1, <2>2, <2>3
<1>8. ASSUME NEW w \in Workers, HandleEvent(w) PROVE Consistent(v)'
  BY <1>7, <1>8 DEF HandleEvent
<1>9. ASSUME NEW w \in Workers, DeadLetterEvent(w) PROVE Consistent(v)'
  BY <1>7, <1>9 DEF DeadLetterEvent
<1>10. ASSUME NEW w \in Workers, SaveCheckpoint(w) PROVE Consistent(v)'
  <2>1. /\ pc[w] = "save" /\ UNCHANGED <<latest, mem, seen>>
        /\ \/ Goto(w, "handle") /\ UNCHANGED batch
           \/ EndPoll(w)
    BY <1>10 DEF SaveCheckpoint
  <2>2. CASE v = w /\ Goto(w, "handle") /\ UNCHANGED batch
    <3>1. pc'[v] = "handle" /\ mem[v] # Undef
      BY <2>1, <2>2 DEF Goto, TypeOK, Consistent
    <3>2. QED
      BY <1>a, <2>1, <2>2, <3>1 DEF Consistent, Covered, UpTo
  <2>3. CASE v = w /\ EndPoll(w)
    BY <1>a, <1>c, <2>1, <2>3 DEF EndPoll, Goto, TypeOK
  <2>4. CASE v # w
    BY <1>e, <2>1, <2>4 DEF EndPoll, TypeOK
  <2>5. QED
    BY <2>1, <2>2, <2>3, <2>4
<1>11. ASSUME NEW w \in Workers, PollFails(w) PROVE Consistent(v)'
  <2>1. CASE v = w
    BY <1>11, <1>a, <1>c, <2>1 DEF PollFails, EndPoll, Goto, TypeOK
  <2>2. CASE v # w
    BY <1>11, <1>e, <2>2 DEF PollFails, EndPoll, TypeOK
  <2>3. QED
    BY <2>1, <2>2
<1>12. ASSUME NEW w \in Workers, FinishStop(w) \/ Crash(w) PROVE Consistent(v)'
  <2>1. Exit(w) /\ UNCHANGED latest
    BY <1>12 DEF FinishStop, Crash
  <2>2. CASE v = w
    BY <1>a, <1>c, <2>1, <2>2 DEF Exit, Goto, TypeOK
  <2>3. CASE v # w
    BY <1>e, <2>1, <2>3 DEF Exit, TypeOK
  <2>4. QED
    BY <2>2, <2>3
<1>13. ASSUME NEW w \in Workers, Restart(w) PROVE Consistent(v)'
  <2>1. CASE v = w
    BY <1>13, <1>a, <1>c, <1>d, <2>1 DEF Restart, Goto, TypeOK
  <2>2. CASE v # w
    BY <1>13, <1>e, <2>2 DEF Restart
  <2>3. QED
    BY <2>1, <2>2
<1>14. CASE CloseLedger
  BY <1>14, <1>a, ConsistentFrame DEF CloseLedger
<1>15. CASE UNCHANGED <<latest, pc, mem, seen, batch>>
  BY <1>15, <1>b
<1>16. \/ UNCHANGED <<latest, pc, mem, seen, batch>>
       \/ CloseLedger
       \/ \E w \in Workers : \/ StartPoll(w) \/ TryAcquire(w) \/ PollOnce(w)
                             \/ PollFails(w) \/ FinishStop(w) \/ Crash(w)
                             \/ Restart(w)
  BY DEF Next, vars, WorkerStep, Trouble, ServerDropsSession, ClientLosesSession,
         ClientNoticesLoss, ReapOrphan, AskToStop
<1>17. QED
  BY <1>1, <1>2, <1>3, <1>4, <1>5, <1>6, <1>8, <1>9, <1>10, <1>11, <1>12, <1>13,
     <1>14, <1>15, <1>16 DEF PollOnce

(* Between two awaits, what is left of a page continues the cached cursor  *)
(* without a gap, and only a poll that is handling events holds a page:    *)
(* whatever the RPC answers and whatever fails.                            *)
THEOREM PollsConsistent == Spec => []PollConsistent
<1>1. Init => PollConsistent
  BY ConstAssumption DEF Init, PollConsistent
<1>2. TypeOK /\ PollConsistent /\ [Next]_vars => PollConsistent'
  BY ConsistentStep
<1>3. QED
  BY <1>1, <1>2, TypeCorrect, PTL DEF Spec

(* The inductive invariant, as long as the node that serves the events has *)
(* the ledgers that the one asked for the latest ledger has.               *)
THEOREM Invariance ==
  ASSUME "behind" \notin FaultKinds
  PROVE  Spec => []IInv
<1>1. Init => IInv
  <2>1. Init => TypeOK
    BY ConstAssumption DEF Init, TypeOK, PollStates
  <2>2. Init => NoSilentSkip /\ PollConsistent
    BY ConstAssumption DEF Init, NoSilentSkip, PollConsistent, Covered
  <2>3. QED
    BY <2>1, <2>2 DEF IInv
<1>2. IInv /\ [Next]_vars => IInv'
  BY TypeStep, SkipStep, ConsistentStep DEF IInv
<1>3. QED
  BY <1>1, <1>2, PTL DEF Spec

(* No saved checkpoint and no cached cursor ever claims an event that is   *)
(* not applied, dead-lettered, or openly passed over: for any number of    *)
(* workers, with or without the lock, whatever else fails.                 *)
THEOREM NothingSkipped ==
  ASSUME "behind" \notin FaultKinds
  PROVE  Spec => []NoSilentSkip
<1>1. IInv => NoSilentSkip
  BY DEF IInv
<1>2. Spec => []IInv
  BY Invariance
<1>3. QED
  BY <1>1, <1>2, PTL

----------------------------------------------------------------------------
(* Who polls holds its lock object, and a held lock object is the session  *)
(* that Postgres granted the lock.                                         *)
LockInv == \A w \in Workers : /\ Polling(w) => lock[w] = "held"
                              /\ lock[w] = "held" => lockHolder = w

LEMMA LockStep ==
  ASSUME "session" \notin FaultKinds, TypeOK, LockInv, [Next]_vars
  PROVE  LockInv'
<1> USE DEF TypeOK, LockInv, Polling, PollStates, Goto, network, database,
            process, history
<1>1. ASSUME NEW w \in Workers, StartPoll(w) PROVE LockInv'
  BY <1>1 DEF StartPoll, PollEntry
<1>2. ASSUME NEW w \in Workers, TryAcquire(w) PROVE LockInv'
  BY <1>2, ConstAssumption DEF TryAcquire, PollEntry
<1>3. ASSUME NEW w \in Workers, PollOnce(w) PROVE LockInv'
  <2>1. UNCHANGED <<lock, lockHolder>> /\ Polling(w)
    BY <1>3 DEF PollOnce, ReadRow, FirstLatest, ReadLatest, Fetch, HandleEvent,
                DeadLetterEvent, SaveCheckpoint
  <2>2. \A v \in Workers \ {w} : pc'[v] = pc[v]
    BY <1>3 DEF PollOnce, ReadRow, StartAfter, FirstLatest, ReadLatest, Fetch,
                Scanned, HandleEvent, DeadLetterEvent, SaveCheckpoint, Advance,
                EndPoll
  <2>3. QED
    BY <2>1, <2>2
<1>4. ASSUME NEW w \in Workers, PollFails(w) PROVE LockInv'
  BY <1>4 DEF PollFails, EndPoll
<1>5. ASSUME NEW w \in Workers, ServerDropsSession(w) \/ ClientLosesSession(w)
      PROVE  LockInv'
  BY <1>5 DEF ServerDropsSession, ClientLosesSession, Fault
<1>6. ASSUME NEW w \in Workers, ClientNoticesLoss(w) PROVE LockInv'
  BY <1>6 DEF ClientNoticesLoss
<1>7. CASE ReapOrphan
  BY <1>7, ConstAssumption DEF ReapOrphan
<1>8. ASSUME NEW w \in Workers, AskToStop(w) PROVE LockInv'
  BY <1>8 DEF AskToStop
<1>9. ASSUME NEW w \in Workers, FinishStop(w) PROVE LockInv'
  BY <1>9 DEF FinishStop, Exit
<1>10. ASSUME NEW w \in Workers, Crash(w) PROVE LockInv'
  BY <1>10 DEF Crash, Exit
<1>11. ASSUME NEW w \in Workers, Restart(w) PROVE LockInv'
  BY <1>11 DEF Restart
<1>12. CASE CloseLedger \/ UNCHANGED vars
  BY <1>12 DEF CloseLedger, vars
<1>13. QED
  BY <1>1, <1>2, <1>3, <1>4, <1>5, <1>6, <1>7, <1>8, <1>9, <1>10, <1>11, <1>12
     DEF Next, WorkerStep, Trouble

(* Unless a session is lost while its client goes on, only the worker that *)
(* Postgres granted the advisory lock polls, so two polls never overlap,   *)
(* through crashes, shutdowns and restarts of any number of workers.       *)
THEOREM MutualExclusion ==
  ASSUME "session" \notin FaultKinds
  PROVE  Spec => []OnePoller
<1>1. Init => LockInv
  BY DEF Init, LockInv, Polling, PollStates
<1>2. TypeOK /\ LockInv /\ [Next]_vars => LockInv'
  BY LockStep
<1>3. LockInv => OnePoller
  BY DEF LockInv, OnePoller
<1>4. QED
  BY <1>1, <1>2, <1>3, TypeCorrect, PTL DEF Spec

----------------------------------------------------------------------------
(* The inductive invariants.                                               *)

(* A cursor within a ledger is at an event of a ledger that has closed.    *)
AtClosed(pos, n) == pos.cursor # 0 =>
  pos.cursor \in Events /\ pos = AtEvent(pos.cursor) /\ Chain[pos.cursor] <= n
Places ==
  /\ row # Undef => AtClosed(row, latest)
  /\ \A w \in Workers : /\ mem[w] # Undef => AtClosed(mem[w], latest)
                        /\ \A e \in batch[w] : Chain[e] <= latest

(* The events are asked for beyond the cursor.                             *)
FetchesAhead == \A w \in Workers :
  pc[w] = "fetch" => UpTo(mem[w]) \subseteq UpTo(AtLedger(seen[w]))

(* Only the holder of the lock has a cursor, and it is never behind the    *)
(* row; and the row that the holder did not find is not there.             *)
CursorLeads == \A w \in Workers :
  /\ mem[w] # Undef => lock[w] = "held" /\ Covered(row) \subseteq Covered(mem[w])
  /\ pc[w] = "firstLatest" => row = Undef

(* Unless it is about to be saved, the cursor is the row.                  *)
CursorSaved == \A w \in Workers : mem[w] # Undef /\ pc[w] # "save" => row = mem[w]

(* Only the event after the row may have been applied.                     *)
NextAtRisk == \A e \in AtRisk : \A d \in Events : d < e => d \in Covered(row)

----------------------------------------------------------------------------
(* What a position covers is a beginning of the events.                    *)

LEMMA ClosedIsInterval ==
  ASSUME NEW S \in SUBSET Events, Closed(S)
  PROVE  \E n \in Nat : n <= NumEvents /\ S = 1 .. n
<1> DEFINE n == Cardinality(S)
<1>1. IsFiniteSet(Events) /\ Cardinality(Events) = NumEvents
  BY FS_Interval, ConstAssumption DEF Events
<1>2. IsFiniteSet(S) /\ n \in Nat /\ n <= NumEvents
  BY <1>1, FS_Subset, FS_CardinalityType
<1>3. IsFiniteSet(1 .. n) /\ Cardinality(1 .. n) = n
  BY <1>2, FS_Interval
<1>4. ASSUME NEW e \in S PROVE e \in 1 .. n
  <2>1. e \in Nat /\ e >= 1
    BY ConstAssumption DEF Events
  <2>2. (1 .. e) \in SUBSET S
    BY <1>4, <2>1, ConstAssumption DEF Closed, Events
  <2>3. Cardinality(1 .. e) = e
    BY <2>1, FS_Interval
  <2>4. e <= n
    <3>1. Cardinality(1 .. e) <= Cardinality(S)
      BY <1>2, <2>2, FS_Subset
    <3>2. QED
      BY <2>3, <3>1
  <2>5. QED
    BY <1>2, <2>1, <2>4
<1>5. S = 1 .. n
  BY <1>3, <1>4, FS_Subset
<1>6. QED
  BY <1>2, <1>5

(* A cursor at a closed event covers no later ledger.                      *)
LEMMA CoversClosed ==
  ASSUME NEW p \in Position, NEW n \in Nat, AtClosed(p, n), p.cursor = 0 => p.ledger <= n
  PROVE  UpTo(p) \subseteq UpTo(AtLedger(n))
<1> SUFFICES ASSUME NEW e \in UpTo(p) PROVE Chain[e] <= n
  BY UpToLedger DEF UpTo
<1>1. CASE p.cursor # 0
  <2>1. p.cursor \in Events /\ Chain[p.cursor] <= n
    BY <1>1 DEF AtClosed
  <2>2. e \in Events /\ e <= p.cursor
    BY <1>1 DEF UpTo
  <2>3. Chain[e] <= Chain[p.cursor]
    BY <2>1, <2>2, ConstAssumption DEF Events
  <2>4. Chain[e] \in Nat /\ Chain[p.cursor] \in Nat
    BY <2>1, <2>2, ConstAssumption
  <2>5. QED
    BY <2>1, <2>3, <2>4
<1>2. CASE p.cursor = 0
  BY <1>2, ConstAssumption DEF UpTo, Position
<1>3. QED
  BY <1>1, <1>2

(* Moving on to an event that was not covered loses nothing.               *)
LEMMA CoversAdvance ==
  ASSUME NEW p \in Position, NEW e \in Events, e \notin UpTo(p)
  PROVE  UpTo(p) \subseteq UpTo(AtEvent(e))
<1> SUFFICES ASSUME NEW d \in UpTo(p) PROVE d <= e
  BY UpToEvent DEF UpTo
<1>1. d \in Events /\ Closed(UpTo(p))
  BY UpToClosed
<1>2. ~(e < d)
  BY <1>1 DEF Closed
<1>3. QED
  BY <1>1, <1>2, ConstAssumption DEF Events

(* A position at a closed event stays one.                                 *)
LEMMA AtClosedLater ==
  ASSUME NEW p, NEW n \in Nat, NEW m \in Nat, n <= m, AtClosed(p, n)
  PROVE  AtClosed(p, m)
<1>1. CASE p.cursor # 0
  <2>1. Chain[p.cursor] \in Nat
    BY <1>1, ConstAssumption DEF AtClosed
  <2>2. QED
    BY <1>1, <2>1 DEF AtClosed
<1>2. CASE p.cursor = 0
  BY <1>2 DEF AtClosed
<1>3. QED
  BY <1>1, <1>2

(* The positions the code builds.                                          *)
LEMMA AtClosedBuilt ==
  /\ \A n, m \in Nat : AtClosed(AtLedger(n), m)
  /\ \A e \in Events, m \in Nat : Chain[e] <= m => AtClosed(AtEvent(e), m)
BY DEF AtClosed, AtLedger, AtEvent

----------------------------------------------------------------------------
(* Places: every step moves a cursor and the row to a closed event, if to  *)
(* an event at all.                                                        *)
LEMMA PlacesMove ==
  ASSUME TypeOK, Places, latest' \in Nat, latest <= latest',
         row' = row \/ \E w \in Workers : row' = mem[w],
         \A v \in Workers : \/ mem'[v] \in {mem[v], row, Undef}
                            \/ AtClosed(mem'[v], latest),
         \A v \in Workers : \A e \in batch'[v] : e \in Events /\ Chain[e] <= latest
  PROVE  Places'
<1>0. latest \in Nat
  BY ConstAssumption DEF TypeOK
<1>1. ASSUME NEW p, AtClosed(p, latest) PROVE AtClosed(p, latest')
  BY <1>0, <1>1, AtClosedLater
<1>2. row' # Undef => AtClosed(row', latest')
  BY <1>1 DEF Places
<1>3. ASSUME NEW v \in Workers, mem'[v] # Undef PROVE AtClosed(mem'[v], latest')
  BY <1>1, <1>3 DEF Places
<1>4. ASSUME NEW v \in Workers, NEW e \in batch'[v] PROVE Chain[e] <= latest'
  BY <1>0, <1>4, ConstAssumption
<1>5. QED
  BY <1>2, <1>3, <1>4 DEF Places

LEMMA PlacesStep == TypeOK /\ Places /\ [Next]_vars => Places'
<1> SUFFICES ASSUME TypeOK, Places, [Next]_vars PROVE Places'
  OBVIOUS
<1> USE DEF network, database, process, history
<1>0. latest \in Nat
  BY ConstAssumption DEF TypeOK
<1>a. \A v \in Workers : \A e \in batch[v] : e \in Events /\ Chain[e] <= latest
  BY DEF Places, TypeOK
<1>1. ASSUME NEW w \in Workers, ReadRow(w) PROVE Places'
  BY <1>0, <1>1, <1>a, PlacesMove, AtClosedBuilt, ConstAssumption
     DEF ReadRow, StartAfter, TypeOK
<1>2. ASSUME NEW w \in Workers, FirstLatest(w) PROVE Places'
  BY <1>0, <1>2, <1>a, PlacesMove, AtClosedBuilt DEF FirstLatest, StartAfter, TypeOK
<1>3. ASSUME NEW w \in Workers, Fetch(w) PROVE Places'
  <2>1. CASE Scanned(w) /\ UNCHANGED batch
    <3>1. \A v \in Workers : mem'[v] = mem[v] \/ AtClosed(mem'[v], latest)
      BY <1>0, <2>1, AtClosedBuilt DEF Scanned, TypeOK
    <3>2. QED
      BY <1>0, <1>3, <1>a, <2>1, <3>1, PlacesMove DEF Fetch
  <2>2. ASSUME NEW n \in 0 .. latest, batch' = [batch EXCEPT ![w] = Page(mem[w], n)],
               UNCHANGED mem
        PROVE  Places'
    <3>1. \A e \in Page(mem[w], n) : e \in Events /\ Chain[e] <= latest
      BY <1>0, ConstAssumption DEF Page, After
    <3>2. QED
      BY <1>0, <1>3, <1>a, <2>2, <3>1, PlacesMove DEF Fetch, TypeOK
  <2>3. QED
    BY <1>3, <2>1, <2>2 DEF Fetch
<1>4. ASSUME NEW w \in Workers, HandleEvent(w) \/ DeadLetterEvent(w) PROVE Places'
  <2>1. PICK e \in First(w) : Advance(w, e) \/ (EndPoll(w) /\ UNCHANGED mem)
    BY <1>4 DEF HandleEvent, DeadLetterEvent
  <2>2. e \in Events /\ Chain[e] <= latest
    BY <1>a DEF First
  <2>3. UNCHANGED <<row, latest>>
    BY <1>4 DEF HandleEvent, DeadLetterEvent
  <2>4. CASE Advance(w, e)
    BY <1>0, <1>a, <2>2, <2>3, <2>4, PlacesMove, AtClosedBuilt DEF Advance, TypeOK
  <2>5. CASE EndPoll(w) /\ UNCHANGED mem
    BY <1>0, <1>a, <2>3, <2>5, PlacesMove DEF EndPoll, TypeOK
  <2>6. QED
    BY <2>1, <2>4, <2>5
<1>5. ASSUME NEW w \in Workers, SaveCheckpoint(w) PROVE Places'
  <2>1. \A v \in Workers : batch'[v] \subseteq batch[v]
    BY <1>5 DEF SaveCheckpoint, EndPoll, TypeOK
  <2>2. QED
    BY <1>0, <1>5, <1>a, <2>1, PlacesMove DEF SaveCheckpoint
<1>6. ASSUME NEW w \in Workers, PollFails(w) PROVE Places'
  BY <1>0, <1>6, <1>a, PlacesMove DEF PollFails, EndPoll, TypeOK
<1>7. ASSUME NEW w \in Workers, FinishStop(w) \/ Crash(w) PROVE Places'
  <2>1. Exit(w) /\ UNCHANGED <<latest, row>>
    BY <1>7 DEF FinishStop, Crash
  <2>2. QED
    BY <1>0, <1>a, <2>1, PlacesMove DEF Exit, TypeOK
<1>8. CASE UNCHANGED <<row, mem, batch>> /\ (UNCHANGED latest \/ CloseLedger)
  BY <1>0, <1>8, <1>a, PlacesMove DEF CloseLedger
<1>9. \/ UNCHANGED <<row, mem, batch>> /\ (UNCHANGED latest \/ CloseLedger)
      \/ \E w \in Workers : \/ ReadRow(w) \/ FirstLatest(w) \/ Fetch(w)
                            \/ HandleEvent(w) \/ DeadLetterEvent(w)
                            \/ SaveCheckpoint(w) \/ PollFails(w)
                            \/ FinishStop(w) \/ Crash(w)
  BY DEF Next, vars, WorkerStep, PollOnce, Trouble, StartPoll, TryAcquire,
         ReadLatest, ServerDropsSession, ClientLosesSession, ClientNoticesLoss,
         ReapOrphan, AskToStop, Restart, CloseLedger
<1>10. QED
  BY <1>1, <1>2, <1>3, <1>4, <1>5, <1>6, <1>7, <1>8, <1>9

----------------------------------------------------------------------------
(* A worker's step is its own: the variables of the others stay.           *)
Same(v) == /\ pc'[v] = pc[v] /\ mem'[v] = mem[v] /\ lock'[v] = lock[v]
           /\ seen'[v] = seen[v] /\ batch'[v] = batch[v]

LEMMA OthersStay ==
  ASSUME TypeOK, NEW w \in Workers, NEW v \in Workers \ {w},
         WorkerStep(w) \/ Trouble(w)
  PROVE  Same(v)
<1> USE DEF Same, TypeOK, network, database, process, history, Goto
<1>1. CASE StartPoll(w)
  BY <1>1 DEF StartPoll
<1>2. CASE TryAcquire(w)
  BY <1>2 DEF TryAcquire
<1>3. CASE ReadRow(w) \/ FirstLatest(w)
  BY <1>3 DEF ReadRow, FirstLatest, StartAfter
<1>4. CASE ReadLatest(w)
  BY <1>4 DEF ReadLatest
<1>5. CASE Fetch(w)
  BY <1>5 DEF Fetch, Scanned
<1>6. CASE HandleEvent(w) \/ DeadLetterEvent(w)
  BY <1>6 DEF HandleEvent, DeadLetterEvent, Advance, EndPoll
<1>7. CASE SaveCheckpoint(w)
  BY <1>7 DEF SaveCheckpoint, EndPoll
<1>8. CASE FinishStop(w) \/ Crash(w)
  BY <1>8 DEF FinishStop, Crash, Exit
<1>9. CASE Restart(w) \/ AskToStop(w)
  BY <1>9 DEF Restart, AskToStop
<1>10. CASE PollFails(w)
  BY <1>10 DEF PollFails, EndPoll
<1>11. CASE ServerDropsSession(w) \/ ClientLosesSession(w) \/ ClientNoticesLoss(w)
  BY <1>11 DEF ServerDropsSession, ClientLosesSession, ClientNoticesLoss
<1>12. QED
  BY <1>1, <1>2, <1>3, <1>4, <1>5, <1>6, <1>7, <1>8, <1>9, <1>10, <1>11
     DEF WorkerStep, PollOnce, Trouble

(* A poll that asks the RPC for events read the latest ledger just before. *)
LEMMA BeforeFetch ==
  ASSUME TypeOK, NEW w \in Workers, WorkerStep(w) \/ Trouble(w), pc'[w] = "fetch"
  PROVE  ReadLatest(w) \/ (pc[w] = "fetch" /\ mem'[w] = mem[w] /\ seen'[w] = seen[w])
<1> USE DEF TypeOK, network, database, process, history, Goto
<1>1. CASE StartPoll(w) \/ TryAcquire(w)
  BY <1>1 DEF StartPoll, TryAcquire, PollEntry
<1>3. CASE ReadRow(w) \/ FirstLatest(w)
  BY <1>3 DEF ReadRow, FirstLatest, StartAfter
<1>5. CASE Fetch(w)
  BY <1>5 DEF Fetch, Scanned
<1>6. CASE HandleEvent(w) \/ DeadLetterEvent(w)
  BY <1>6 DEF HandleEvent, DeadLetterEvent, Advance, EndPoll
<1>7. CASE SaveCheckpoint(w)
  BY <1>7 DEF SaveCheckpoint, EndPoll
<1>8. CASE FinishStop(w) \/ Crash(w)
  BY <1>8 DEF FinishStop, Crash, Exit
<1>9. CASE Restart(w) \/ AskToStop(w)
  BY <1>9 DEF Restart, AskToStop
<1>10. CASE PollFails(w)
  BY <1>10 DEF PollFails, EndPoll
<1>11. CASE ServerDropsSession(w) \/ ClientLosesSession(w) \/ ClientNoticesLoss(w)
  BY <1>11 DEF ServerDropsSession, ClientLosesSession, ClientNoticesLoss
<1>12. QED
  BY <1>1, <1>3, <1>5, <1>6, <1>7, <1>8, <1>9, <1>10, <1>11
     DEF WorkerStep, PollOnce, Trouble

(* FetchesAhead: unless the RPC lags, a poll asks for events only when the *)
(* latest ledger is beyond what its cursor covers, or is the one in which  *)
(* the last page ended.                                                    *)
LEMMA FetchesAheadStep ==
  ASSUME "lag" \notin FaultKinds, TypeOK, PollConsistent, Places, FetchesAhead,
         [Next]_vars
  PROVE  FetchesAhead'
<1> SUFFICES ASSUME NEW v \in Workers, pc'[v] = "fetch"
             PROVE  UpTo(mem'[v]) \subseteq UpTo(AtLedger(seen'[v]))
  BY DEF FetchesAhead
<1> USE DEF network, database, process, history
<1>1. ASSUME pc[v] = "fetch", mem'[v] = mem[v], seen'[v] = seen[v]
      PROVE  UpTo(mem'[v]) \subseteq UpTo(AtLedger(seen'[v]))
  BY <1>1 DEF FetchesAhead
<1>2. CASE ReadLatest(v)
  <2>1. /\ pc[v] = "readLatest" /\ mem'[v] = mem[v] /\ seen'[v] = latest
        /\ ~(mem[v].ledger >= latest /\ mem[v].cursor = 0)
    BY <1>2, ConstAssumption DEF ReadLatest, Fault, Goto, TypeOK
  <2>2. mem[v] \in Position /\ AtClosed(mem[v], latest) /\ latest \in Nat
    BY <2>1, ConstAssumption DEF PollConsistent, Places, TypeOK
  <2>3. mem[v].cursor = 0 => mem[v].ledger <= latest
    BY <2>1, <2>2 DEF Position
  <2>4. QED
    BY <2>1, <2>2, <2>3, CoversClosed
<1>3. CASE UNCHANGED <<pc, mem, seen>>
  BY <1>1, <1>3
<1>4. ASSUME NEW w \in Workers, WorkerStep(w) \/ Trouble(w)
      PROVE  UpTo(mem'[v]) \subseteq UpTo(AtLedger(seen'[v]))
  <2>1. CASE w = v
    BY <1>1, <1>2, <1>4, <2>1, BeforeFetch
  <2>2. CASE w # v
    BY <1>1, <1>4, <2>2, OthersStay DEF Same
  <2>3. QED
    BY <2>1, <2>2
<1>5. QED
  BY <1>3, <1>4 DEF Next, vars, ReapOrphan, CloseLedger

----------------------------------------------------------------------------
(* The row is written by a save only, and only by the holder of the lock.  *)
LEMMA RowKept ==
  ASSUME NEW w \in Workers, WorkerStep(w) \/ Trouble(w)
  PROVE  row' = row \/ SaveCheckpoint(w)
BY DEF WorkerStep, PollOnce, Trouble, StartPoll, TryAcquire, ReadRow, StartAfter,
       FirstLatest, ReadLatest, Fetch, Scanned, HandleEvent, DeadLetterEvent,
       PollFails, FinishStop, Crash, Restart, AskToStop, ServerDropsSession,
       ClientLosesSession, ClientNoticesLoss, network, database, process, history

(* The first event of a batch is beyond the cursor.                        *)
LEMMA FirstIsNew ==
  ASSUME TypeOK, PollConsistent, NEW w \in Workers, NEW e \in First(w)
  PROVE  /\ e \in Events /\ e \in batch[w] /\ mem[w] \in Position
         /\ e \notin UpTo(mem[w])
         /\ \A d \in Events : d < e => d \in UpTo(mem[w])
<1>1. e \in batch[w] /\ e \in Events /\ \A d \in batch[w] : e <= d
  BY DEF First, TypeOK
<1>2. mem[w] \in Position /\ mem[w] # Undef
  BY <1>1 DEF PollConsistent, TypeOK
<1>3. e \notin UpTo(mem[w])
  BY <1>1, <1>2 DEF PollConsistent, Covered
<1>4. ASSUME NEW d \in Events, d < e PROVE d \in UpTo(mem[w])
  <2>1. d \notin batch[w]
    BY <1>1, <1>4, ConstAssumption DEF Events
  <2>2. QED
    BY <1>1, <1>2, <1>4, <2>1 DEF PollConsistent, Covered
<1>5. QED
  BY <1>1, <1>2, <1>3, <1>4

(* CursorLeads: the worker that moves its cursor or the row.               *)
LEMMA LeadsOwn ==
  ASSUME "session" \notin FaultKinds, TypeOK, PollConsistent, LockInv,
         FetchesAhead, CursorLeads,
         NEW w \in Workers, WorkerStep(w) \/ Trouble(w)
  PROVE  /\ mem'[w] # Undef => /\ lock'[w] = "held"
                               /\ Covered(row') \subseteq Covered(mem'[w])
         /\ pc'[w] = "firstLatest" => row' = Undef
<1> DEFINE Leads(c, l, r) == c # Undef => l = "held" /\ Covered(r) \subseteq Covered(c)
           Absent(p, r) == p = "firstLatest" => r = Undef
<1>0. Leads(mem[w], lock[w], row) /\ Absent(pc[w], row)
  BY DEF CursorLeads
<1>p. Polling(w) => lock[w] = "held"
  BY DEF LockInv
<1> SUFFICES Leads(mem'[w], lock'[w], row') /\ Absent(pc'[w], row')
  OBVIOUS
<1> USE DEF network, database, process, history, Goto
<1>1. CASE StartPoll(w) \/ TryAcquire(w)
  <2>1. pc'[w] # "firstLatest"
    BY <1>1 DEF StartPoll, TryAcquire, PollEntry, TypeOK
  <2>2. mem'[w] = mem[w] /\ row' = row /\ (lock'[w] = lock[w] \/ lock[w] # "held" \/ lock'[w] = "held")
    BY <1>1 DEF StartPoll, TryAcquire, TypeOK
  <2>3. QED
    BY <1>0, <2>1, <2>2
<1>2. CASE ReadRow(w)
  <2>1. lock'[w] = "held" /\ row' = row
    BY <1>2, <1>p DEF ReadRow, Polling, PollStates
  <2>2. CASE row # Undef
    BY <1>2, <2>1, <2>2 DEF ReadRow, TypeOK, Covered
  <2>3. CASE row = Undef
    BY <2>1, <2>3 DEF Covered
  <2>4. QED
    BY <2>2, <2>3
<1>3. CASE FirstLatest(w)
  <2>1. lock'[w] = "held" /\ row' = row /\ row = Undef
    BY <1>0, <1>3, <1>p DEF FirstLatest, Polling, PollStates
  <2>2. QED
    BY <2>1 DEF Covered
<1>4. CASE ReadLatest(w)
  <2>1. lock'[w] = lock[w] /\ row' = row /\ mem'[w] = mem[w] /\ pc'[w] # "firstLatest"
    BY <1>4 DEF ReadLatest, TypeOK
  <2>2. QED
    BY <1>0, <2>1
<1>5. CASE Fetch(w)
  <2>1. lock'[w] = "held" /\ row' = row /\ pc[w] = "fetch" /\ mem[w] # Undef
    BY <1>5, <1>p DEF Fetch, Polling, PollStates, PollConsistent
  <2>2. pc'[w] # "firstLatest" /\ (mem'[w] = mem[w] \/ mem'[w] = AtLedger(seen[w]))
    BY <1>5 DEF Fetch, Scanned, TypeOK
  <2>3. CASE mem'[w] = AtLedger(seen[w])
    <3>1. AtLedger(seen[w]) # Undef
      BY PositionType DEF TypeOK
    <3>2. QED
      BY <1>0, <2>1, <2>2, <2>3, <3>1 DEF FetchesAhead, Covered
  <2>4. QED
    BY <1>0, <2>1, <2>2, <2>3
<1>6. CASE HandleEvent(w) \/ DeadLetterEvent(w)
  <2>1. lock'[w] = "held" /\ row' = row /\ pc[w] = "handle" /\ mem[w] # Undef
    BY <1>6, <1>p DEF HandleEvent, DeadLetterEvent, Polling, PollStates, PollConsistent
  <2>2. PICK e \in First(w) : Advance(w, e) \/ (EndPoll(w) /\ UNCHANGED mem)
    BY <1>6 DEF HandleEvent, DeadLetterEvent
  <2>3. pc'[w] # "firstLatest" /\ (mem'[w] = mem[w] \/ mem'[w] = AtEvent(e))
    BY <2>2 DEF Advance, EndPoll, TypeOK
  <2>4. CASE mem'[w] = AtEvent(e)
    <3>1. AtEvent(e) # Undef /\ UpTo(mem[w]) \subseteq UpTo(AtEvent(e))
      BY FirstIsNew, PositionType, CoversAdvance
    <3>2. QED
      BY <1>0, <2>1, <2>3, <2>4, <3>1 DEF Covered
  <2>5. QED
    BY <1>0, <2>1, <2>3, <2>4
<1>7. CASE SaveCheckpoint(w)
  <2>1. row' = mem[w] /\ mem'[w] = mem[w] /\ lock'[w] = lock[w] /\ pc'[w] # "firstLatest"
    BY <1>7 DEF SaveCheckpoint, EndPoll, TypeOK
  <2>2. QED
    BY <1>0, <2>1
<1>8. CASE FinishStop(w) \/ Crash(w)
  BY <1>8 DEF FinishStop, Crash, Exit, TypeOK
<1>9. CASE Restart(w) \/ PollFails(w)
  <2>1. /\ lock'[w] = lock[w] /\ row' = row /\ mem'[w] = mem[w]
        /\ pc'[w] # "firstLatest"
    BY <1>9 DEF Restart, PollFails, EndPoll, TypeOK
  <2>2. QED
    BY <1>0, <2>1
<1>10. CASE AskToStop(w)
  BY <1>0, <1>10 DEF AskToStop
<1>11. CASE ServerDropsSession(w) \/ ClientLosesSession(w) \/ ClientNoticesLoss(w)
  <2>1. ClientNoticesLoss(w)
    BY <1>11 DEF ServerDropsSession, ClientLosesSession, Fault
  <2>2. FALSE
    BY <2>1 DEF ClientNoticesLoss, LockInv
  <2>3. QED
    BY <2>2
<1>12. QED
  BY <1>1, <1>2, <1>3, <1>4, <1>5, <1>6, <1>7, <1>8, <1>9, <1>10, <1>11
     DEF WorkerStep, PollOnce, Trouble

LEMMA CursorLeadsStep ==
  ASSUME "session" \notin FaultKinds, TypeOK, PollConsistent, LockInv,
         FetchesAhead, CursorLeads, [Next]_vars
  PROVE  CursorLeads'
<1> DEFINE Leads(c, l, r) == c # Undef => l = "held" /\ Covered(r) \subseteq Covered(c)
           Absent(p, r) == p = "firstLatest" => r = Undef
<1> SUFFICES ASSUME NEW v \in Workers
             PROVE  Leads(mem'[v], lock'[v], row') /\ Absent(pc'[v], row')
  BY DEF CursorLeads, Covered, UpTo
<1>0. Leads(mem[v], lock[v], row) /\ Absent(pc[v], row)
  BY DEF CursorLeads
<1>1. CASE UNCHANGED <<pc, mem, lock, row>>
  BY <1>0, <1>1
<1>2. ASSUME NEW w \in Workers, WorkerStep(w) \/ Trouble(w), w # v
      PROVE  Leads(mem'[v], lock'[v], row') /\ Absent(pc'[v], row')
  <2>1. pc'[v] = pc[v] /\ mem'[v] = mem[v] /\ lock'[v] = lock[v]
    BY <1>2, OthersStay DEF Same
  <2>2. CASE row' = row
    BY <1>0, <2>1, <2>2
  <2>3. CASE SaveCheckpoint(w)
    <3>1. lockHolder = w /\ lock[v] # "held"
      BY <1>2, <2>3 DEF SaveCheckpoint, LockInv, Polling, PollStates
    <3>2. mem[v] = Undef /\ pc[v] # "firstLatest"
      BY <1>0, <3>1 DEF LockInv, Polling, PollStates
    <3>3. QED
      BY <2>1, <3>2
  <2>4. QED
    BY <1>2, <2>2, <2>3, RowKept
<1>3. ASSUME WorkerStep(v) \/ Trouble(v)
      PROVE  Leads(mem'[v], lock'[v], row') /\ Absent(pc'[v], row')
  BY <1>3, LeadsOwn
<1>4. QED
  BY <1>1, <1>2, <1>3 DEF Next, vars, ReapOrphan, CloseLedger, database, process, network

----------------------------------------------------------------------------
(* The refinement.                                                         *)

CursorInv == /\ TypeOK /\ PollConsistent /\ LockInv
             /\ Places /\ FetchesAhead /\ CursorLeads
LogInv == CursorInv /\ NoSilentSkip

(* Events that no saved row covers are given up, or nothing happens.       *)
LEMMA GivesUp ==
  ASSUME NEW S \in SUBSET Events, S \cap Covered(row) = {},
         UNCHANGED <<applied, row>>,
         (deadLettered \cup skipped \cup preStart)' =
            (deadLettered \cup skipped \cup preStart) \cup S
  PROVE  [Log!LogNext]_(Log!logVars)
<1>0. Covered(row)' = Covered(row)
  BY DEF Covered, UpTo
<1>1. CASE S = {}
  BY <1>0, <1>1 DEF Log!logVars
<1>2. CASE S # {}
  <2>1. Log!GiveUp(S)
    BY <1>0, <1>2 DEF Log!GiveUp
  <2>2. S \in SUBSET Log!Numbers
    BY DEF Log!Numbers, Events
  <2>3. QED
    BY <2>1, <2>2 DEF Log!LogNext
<1>3. QED
  BY <1>1, <1>2

(* A saved row acknowledges the events up to one that is settled.          *)
LEMMA Acknowledges ==
  ASSUME NEW p \in Position, row' = p, UNCHANGED history,
         Covered(row) \subseteq UpTo(p), \A e \in UpTo(p) : Settled(e)
  PROVE  [Log!LogNext]_(Log!logVars)
<1> USE DEF history
<1>1. Covered(row)' = UpTo(p)
  BY PositionType DEF Covered, UpTo
<1>2. PICK n \in Nat : n <= NumEvents /\ UpTo(p) = 1 .. n
  BY UpToClosed, ClosedIsInterval
<1>3. CASE UpTo(p) = Covered(row)
  BY <1>1, <1>3 DEF Log!logVars
<1>4. CASE UpTo(p) # Covered(row)
  <2>0. n # 0
    <3>1. CASE n = 0
      <4>1. UpTo(p) = {}
        BY <1>2, <3>1
      <4>2. QED
        BY <1>4, <4>1
    <3>2. QED
      BY <3>1
  <2>1. n \in Log!Numbers
    BY <1>2, <2>0, ConstAssumption DEF Log!Numbers
  <2>2. \A e \in 1 .. n : Log!Done(e)
    BY <1>2 DEF Log!Done, Settled
  <2>3. Log!Acknowledge(n)
    BY <1>1, <1>2, <1>4, <2>2 DEF Log!Acknowledge
  <2>4. QED
    BY <2>1, <2>3 DEF Log!LogNext
<1>5. QED
  BY <1>3, <1>4

(* Every step of the indexer is a step of the log, or invisible to it.     *)
LEMMA LogStep ==
  ASSUME LogInv, [Next]_vars
  PROVE  [Log!LogNext]_(Log!logVars)
<1>0. /\ TypeOK /\ PollConsistent /\ NoSilentSkip /\ LockInv
      /\ \A w \in Workers : mem[w] # Undef => Covered(row) \subseteq UpTo(mem[w])
  BY DEF LogInv, CursorInv, CursorLeads, Covered
<1> USE DEF network, database, process, history
<1>1. ASSUME NEW w \in Workers, NEW n, StartAfter(w, n), row = Undef,
             UNCHANGED <<row, applied, deadLettered, skipped>>
      PROVE  [Log!LogNext]_(Log!logVars)
  <2>1. UpTo(AtLedger(n)) \in SUBSET Events /\ Covered(row) = {}
    BY <1>1 DEF UpTo, Covered
  <2>2. QED
    BY <1>1, <2>1, GivesUp DEF StartAfter
<1>2. ASSUME NEW w \in Workers, ReadRow(w) PROVE [Log!LogNext]_(Log!logVars)
  <2>1. CASE row = Undef /\ StartLedger # Undef
    BY <1>1, <1>2, <2>1 DEF ReadRow
  <2>2. CASE row # Undef \/ StartLedger = Undef
    <3>1. UNCHANGED <<row, applied, deadLettered, skipped, preStart>>
      BY <1>2, <2>2 DEF ReadRow
    <3>2. QED
      BY <3>1 DEF Log!logVars, Covered, UpTo
  <2>3. QED
    BY <2>1, <2>2
<1>3. ASSUME NEW w \in Workers, FirstLatest(w) PROVE [Log!LogNext]_(Log!logVars)
  <2>1. row = Undef
    BY <1>3 DEF FirstLatest, LogInv, CursorInv, CursorLeads
  <2>2. QED
    BY <1>1, <1>3, <2>1 DEF FirstLatest
<1>4. ASSUME NEW w \in Workers, Fetch(w) PROVE [Log!LogNext]_(Log!logVars)
  <2> DEFINE S == UpTo(AtLedger(seen[w])) \ UpTo(mem[w])
  <2>1. S \in SUBSET Events /\ S \cap Covered(row) = {}
    BY <1>0, <1>4 DEF Fetch, PollConsistent, UpTo
  <2>2. UNCHANGED <<applied, row, deadLettered, preStart>>
    BY <1>4 DEF Fetch
  <2>3. CASE skipped' = skipped \cup S
    BY <2>1, <2>2, <2>3, GivesUp
  <2>4. CASE skipped' = skipped
    BY <2>2, <2>4 DEF Log!logVars, Covered, UpTo
  <2>5. skipped' = skipped \cup S \/ skipped' = skipped
    BY <1>4 DEF Fetch
  <2>6. QED
    BY <2>3, <2>4, <2>5
<1>5. ASSUME NEW w \in Workers, HandleEvent(w) PROVE [Log!LogNext]_(Log!logVars)
  <2>1. PICK e \in First(w) : applied' = [applied EXCEPT ![e] = @ + 1]
    BY <1>5 DEF HandleEvent
  <2>2. e \in Events /\ e \notin Covered(row)
    BY <1>0, FirstIsNew, PositionType
  <2>3. UNCHANGED <<row, deadLettered, skipped, preStart>>
    BY <1>5 DEF HandleEvent
  <2>4. Log!Deliver(e)
    BY <2>1, <2>2, <2>3 DEF Log!Deliver, Covered, UpTo
  <2>5. QED
    BY <2>2, <2>4 DEF Log!LogNext, Log!Numbers, Events
<1>6. ASSUME NEW w \in Workers, DeadLetterEvent(w) PROVE [Log!LogNext]_(Log!logVars)
  <2>1. PICK e \in First(w) : deadLettered' = deadLettered \cup {e}
    BY <1>6 DEF DeadLetterEvent
  <2>2. e \in Events /\ e \notin Covered(row)
    BY <1>0, FirstIsNew, PositionType
  <2>3. UNCHANGED <<applied, row, skipped, preStart>>
    BY <1>6 DEF DeadLetterEvent
  <2>4. {e} \in SUBSET Events /\ {e} \cap Covered(row) = {}
    BY <2>2
  <2>5. (deadLettered \cup skipped \cup preStart)' =
           (deadLettered \cup skipped \cup preStart) \cup {e}
    BY <2>1, <2>3
  <2>6. QED
    BY <2>3, <2>4, <2>5, GivesUp
<1>7. ASSUME NEW w \in Workers, SaveCheckpoint(w) PROVE [Log!LogNext]_(Log!logVars)
  <2>1. row' = mem[w] /\ mem[w] # Undef /\ mem[w] \in Position /\ UNCHANGED history
    BY <1>0, <1>7 DEF SaveCheckpoint, PollConsistent, TypeOK
  <2>2. \A e \in UpTo(mem[w]) : Settled(e)
    BY <1>0, <2>1 DEF NoSilentSkip, Covered
  <2>3. QED
    BY <1>0, <2>1, <2>2, Acknowledges
<1>8. CASE UNCHANGED <<row, history>>
  BY <1>8 DEF Log!logVars, Covered, UpTo
<1>9. \/ UNCHANGED <<row, history>>
      \/ \E w \in Workers : \/ ReadRow(w) \/ FirstLatest(w) \/ Fetch(w)
                            \/ HandleEvent(w) \/ DeadLetterEvent(w)
                            \/ SaveCheckpoint(w)
  BY DEF Next, vars, WorkerStep, PollOnce, Trouble, StartPoll, TryAcquire,
         ReadLatest, PollFails, ServerDropsSession, ClientLosesSession,
         ClientNoticesLoss, ReapOrphan, AskToStop, Restart, CloseLedger,
         FinishStop, Crash
<1>10. QED
  BY <1>2, <1>3, <1>4, <1>5, <1>6, <1>7, <1>8, <1>9

(* The invariants are inductive together.                                  *)
LEMMA CursorInvStep ==
  ASSUME FaultKinds \cap {"session", "lag"} = {}, CursorInv, [Next]_vars
  PROVE  CursorInv'
<1>1. TypeOK /\ PollConsistent /\ LockInv /\ Places /\ FetchesAhead /\ CursorLeads
  BY DEF CursorInv
<1>2. TypeOK' /\ PollConsistent'
  BY <1>1, TypeStep, ConsistentStep
<1>3. LockInv' /\ Places' /\ FetchesAhead' /\ CursorLeads'
  BY <1>1, LockStep, PlacesStep, FetchesAheadStep, CursorLeadsStep
<1>4. QED
  BY <1>2, <1>3 DEF CursorInv

THEOREM CursorInvariance ==
  ASSUME FaultKinds \cap {"session", "lag"} = {}
  PROVE  Spec => []CursorInv
<1>1. Init => CursorInv
  <2>1. Init => TypeOK
    BY ConstAssumption DEF Init, TypeOK, PollStates
  <2>2. Init => PollConsistent
    BY ConstAssumption DEF Init, PollConsistent
  <2>3. Init => LockInv /\ Places /\ FetchesAhead /\ CursorLeads
    BY DEF Init, LockInv, Polling, PollStates, Places, FetchesAhead, CursorLeads
  <2>4. QED
    BY <2>1, <2>2, <2>3 DEF CursorInv
<1>2. CursorInv /\ [Next]_vars => CursorInv'
  BY CursorInvStep
<1>3. QED
  BY <1>1, <1>2, PTL DEF Spec

(* The indexer implements the log of events: what a saved row acknowledges *)
(* is settled, is a beginning of the events, is never taken back, and is   *)
(* never handled again.                                                    *)
THEOREM Implementation ==
  ASSUME FaultKinds \cap {"session", "behind", "lag"} = {}
  PROVE  Spec => ImplementsEventLog
<1>1. Init => Log!LogInit
  BY DEF Init, Log!LogInit, Log!Numbers, Events, Covered
<1>2. LogInv /\ [Next]_vars => [Log!LogNext]_(Log!logVars)
  BY LogStep
<1>3. Spec => []CursorInv
  BY CursorInvariance
<1>4. Spec => []NoSilentSkip
  BY NothingSkipped
<1>5. CursorInv /\ NoSilentSkip => LogInv
  BY DEF LogInv
<1>6. QED
  BY <1>1, <1>2, <1>3, <1>4, <1>5, PTL DEF Spec, ImplementsEventLog, Log!LogSpec

----------------------------------------------------------------------------
(* What a crash can repeat.                                                *)

(* Unless a save fails, a cursor that is not the row is about to be saved. *)
LEMMA SavedOwn ==
  ASSUME FaultKinds \cap {"session", "save"} = {}, CursorInv, CursorSaved,
         NEW w \in Workers, WorkerStep(w) \/ Trouble(w),
         mem'[w] # Undef, pc'[w] # "save"
  PROVE  row' = mem'[w]
<1> USE DEF network, database, process, history, Goto
<1>0. /\ TypeOK /\ PollConsistent
      /\ mem[w] # Undef /\ pc[w] # "save" => row = mem[w]
  BY DEF CursorInv, CursorSaved
<1>1. CASE StartPoll(w) \/ TryAcquire(w)
  BY <1>0, <1>1 DEF StartPoll, TryAcquire
<1>2. CASE ReadRow(w)
  BY <1>0, <1>2 DEF ReadRow, StartAfter, TypeOK
<1>3. CASE FirstLatest(w)
  BY <1>0, <1>3 DEF FirstLatest, StartAfter, TypeOK
<1>4. CASE ReadLatest(w)
  BY <1>0, <1>4 DEF ReadLatest
<1>5. CASE Fetch(w)
  BY <1>0, <1>5 DEF Fetch, Scanned, TypeOK
<1>6. CASE HandleEvent(w) \/ DeadLetterEvent(w)
  <2>1. PICK e \in First(w) : Advance(w, e) \/ (EndPoll(w) /\ UNCHANGED mem)
    BY <1>6 DEF HandleEvent, DeadLetterEvent
  <2>2. pc[w] = "handle" /\ UNCHANGED row
    BY <1>6 DEF HandleEvent, DeadLetterEvent
  <2>3. UNCHANGED mem
    BY <1>0, <2>1 DEF Advance, TypeOK
  <2>4. QED
    BY <1>0, <2>2, <2>3
<1>7. CASE SaveCheckpoint(w)
  BY <1>7 DEF SaveCheckpoint
<1>8. CASE FinishStop(w) \/ Crash(w)
  BY <1>0, <1>8 DEF FinishStop, Crash, Exit, TypeOK
<1>9. CASE Restart(w) \/ AskToStop(w)
  BY <1>0, <1>9 DEF Restart, AskToStop
<1>10. CASE PollFails(w)
  <2>1. pc[w] # "save" /\ UNCHANGED <<row, mem>>
    BY <1>10 DEF PollFails, AwaitKind, Fault
  <2>2. QED
    BY <1>0, <2>1
<1>11. CASE ServerDropsSession(w) \/ ClientLosesSession(w) \/ ClientNoticesLoss(w)
  BY <1>0, <1>11 DEF ServerDropsSession, ClientLosesSession, ClientNoticesLoss
<1>12. QED
  BY <1>1, <1>2, <1>3, <1>4, <1>5, <1>6, <1>7, <1>8, <1>9, <1>10, <1>11
     DEF WorkerStep, PollOnce, Trouble

LEMMA CursorSavedStep ==
  ASSUME FaultKinds \cap {"session", "save"} = {}, CursorInv, CursorSaved,
         [Next]_vars
  PROVE  CursorSaved'
<1> SUFFICES ASSUME NEW v \in Workers, mem'[v] # Undef, pc'[v] # "save"
             PROVE  row' = mem'[v]
  BY DEF CursorSaved
<1>1. ASSUME pc'[v] = pc[v], mem'[v] = mem[v], row' = row PROVE row' = mem'[v]
  BY <1>1 DEF CursorSaved
<1>2. ASSUME NEW w \in Workers, WorkerStep(w) \/ Trouble(w), w # v
      PROVE  row' = mem'[v]
  <2>1. pc'[v] = pc[v] /\ mem'[v] = mem[v]
    BY <1>2, OthersStay DEF Same, CursorInv
  <2>2. lock[v] = "held" /\ lockHolder = v
    BY <2>1 DEF CursorInv, CursorLeads, LockInv
  <2>3. ~SaveCheckpoint(w)
    BY <1>2, <2>2 DEF SaveCheckpoint, CursorInv, LockInv, Polling, PollStates
  <2>4. QED
    BY <1>1, <1>2, <2>1, <2>3, RowKept
<1>3. CASE WorkerStep(v) \/ Trouble(v)
  BY <1>3, SavedOwn
<1>4. CASE UNCHANGED <<pc, mem, row>>
  BY <1>1, <1>4
<1>5. QED
  BY <1>2, <1>3, <1>4 DEF Next, vars, ReapOrphan, CloseLedger, database, process, network

LEMMA NextAtRiskStep ==
  ASSUME CursorInv, CursorSaved, NextAtRisk, [Next]_vars
  PROVE  NextAtRisk'
<1> SUFFICES ASSUME NEW e \in Events, applied'[e] > 0, e \notin Covered(row'),
                    NEW d \in Events, d < e
             PROVE  d \in Covered(row')
  BY DEF NextAtRisk, AtRisk, Covered, UpTo
<1> USE DEF network, database, process, history
<1>1. ASSUME applied[e] > 0, Covered(row) \subseteq Covered(row')
      PROVE  d \in Covered(row')
  <2>1. e \in AtRisk
    BY <1>1 DEF AtRisk
  <2>2. QED
    BY <1>1, <2>1 DEF NextAtRisk
<1>2. ASSUME NEW w \in Workers, HandleEvent(w) PROVE d \in Covered(row')
  <2>1. PICK c \in First(w) : applied' = [applied EXCEPT ![c] = @ + 1]
    BY <1>2 DEF HandleEvent
  <2>2. row' = row /\ pc[w] = "handle" /\ mem[w] # Undef
    BY <1>2 DEF HandleEvent, CursorInv, PollConsistent
  <2>3. CASE e = c
    <3>1. d \in UpTo(mem[w])
      BY <2>3, FirstIsNew DEF CursorInv
    <3>2. QED
      BY <2>2, <3>1 DEF CursorSaved, Covered
  <2>4. CASE e # c
    BY <1>1, <2>1, <2>2, <2>4 DEF CursorInv, TypeOK
  <2>5. QED
    BY <2>3, <2>4
<1>3. ASSUME NEW w \in Workers, SaveCheckpoint(w) PROVE d \in Covered(row')
  <2>1. row' = mem[w] /\ mem[w] # Undef /\ UNCHANGED applied
    BY <1>3 DEF SaveCheckpoint, CursorInv, PollConsistent
  <2>2. QED
    BY <1>1, <2>1 DEF CursorInv, CursorLeads
<1>4. CASE UNCHANGED <<row, applied>>
  BY <1>1, <1>4
<1>5. \/ UNCHANGED <<row, applied>>
      \/ \E w \in Workers : HandleEvent(w) \/ SaveCheckpoint(w)
  BY DEF Next, vars, WorkerStep, PollOnce, Trouble, StartPoll, TryAcquire,
         ReadRow, FirstLatest, StartAfter, Fetch, Scanned, DeadLetterEvent,
         ReadLatest, PollFails, ServerDropsSession, ClientLosesSession,
         ClientNoticesLoss, ReapOrphan, AskToStop, Restart, CloseLedger,
         FinishStop, Crash
<1>6. QED
  BY <1>2, <1>3, <1>4, <1>5

(* As worker.ts says of its save after every event: a crash repeats at     *)
(* most the event in flight.  It needs that the save itself does not fail. *)
THEOREM InFlightAtRisk ==
  ASSUME FaultKinds \cap {"session", "lag", "save"} = {}
  PROVE  Spec => []OnlyInFlightAtRisk
<1>1. Init => CursorSaved /\ NextAtRisk
  BY DEF Init, CursorSaved, NextAtRisk, AtRisk
<1>2. CursorInv /\ CursorSaved /\ NextAtRisk /\ [Next]_vars
        => CursorSaved' /\ NextAtRisk'
  BY CursorSavedStep, NextAtRiskStep
<1>3. CursorInv /\ NextAtRisk => OnlyInFlightAtRisk
  <2> SUFFICES ASSUME CursorInv, NextAtRisk PROVE Cardinality(AtRisk) <= 1
    BY DEF OnlyInFlightAtRisk
  <2>1. CASE AtRisk = {}
    BY <2>1, FS_EmptySet
  <2>2. ASSUME NEW e \in AtRisk PROVE Cardinality(AtRisk) <= 1
    <3>1. ASSUME NEW d \in AtRisk PROVE d = e
      <4>1. d \in Events /\ e \in Events /\ d \notin Covered(row) /\ e \notin Covered(row)
        BY <2>2, <3>1 DEF AtRisk
      <4>2. ~(d < e) /\ ~(e < d)
        BY <2>2, <3>1, <4>1 DEF NextAtRisk
      <4>3. QED
        BY <4>1, <4>2, ConstAssumption DEF Events
    <3>2. AtRisk = {e}
      BY <2>2, <3>1
    <3>3. Cardinality({e}) = 1
      BY FS_Singleton
    <3>4. QED
      BY <3>2, <3>3
  <2>3. QED
    BY <2>1, <2>2
<1>4. Spec => []CursorInv
  BY CursorInvariance
<1>5. QED
  BY <1>1, <1>2, <1>3, <1>4, PTL DEF Spec
=============================================================================
