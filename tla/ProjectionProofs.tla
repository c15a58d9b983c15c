-------------------------- MODULE ProjectionProofs --------------------------
(***************************************************************************)
(* Theorems about what the handlers write, for every log, any number of    *)
(* streams and events, deliveries and runs of the replay script.           *)
(***************************************************************************)
EXTENDS Projection, Induction

----------------------------------------------------------------------------
(* What the definitions of the library come to.                            *)

LEMMA MinIsIn ==
  ASSUME NEW T \in SUBSET Events, T # {}
  PROVE  Min(T) \in T
<1>1. T \in SUBSET Nat
  BY ProjectionAssumption DEF Events
<1>2. \E x \in T : \A y \in T : x <= y
  BY <1>1, LeastNumber
<1>3. QED
  BY <1>2 DEF Min

LEMMA Clamped ==
  ASSUME NEW i \in Int
  PROVE  Max({0, i}) = IF i >= 0 THEN i ELSE 0
<1>1. \E x \in {0, i} : \A y \in {0, i} : x >= y
  OBVIOUS
<1>2. Max({0, i}) \in {0, i} /\ \A y \in {0, i} : Max({0, i}) >= y
  BY <1>1 DEF Max
<1>3. QED
  BY <1>2

----------------------------------------------------------------------------
(* Types.                                                                  *)

ReplayType == [at : {"idle", "dispatch", "read", "resolve", "catch"},
               rows : SUBSET Events, attempts : [Events -> Nat]]

(* The rows the script still has to do, but for the one in the catch       *)
(* block, are unresolved, and no attempt was taken from them since it      *)
(* listed them.                                                            *)
Todo == IF replay.at = "catch" THEN replay.rows \ {Min(replay.rows)}
                               ELSE replay.rows
ReplayInv ==
  /\ replay.at # "idle" => replay.rows # {}
  /\ Todo \subseteq Unresolved
  /\ \A e \in Todo : replay.attempts[e] <= deadLetter[e].attempts

(* An event is handled, by its handler or as a failure.                    *)
Fails(e) == RecordDeadLetter(e) /\ UNCHANGED <<stream, streamEvents>>
Handles(e) == Dispatch(e) \/ Fails(e)

LEMMA EventFields ==
  ASSUME TypeOK, NEW e \in Events
  PROVE  /\ log[e].stream \in StreamIds /\ log[e].amount \in Nat
         /\ log[e].type \in {"created", "withdraw", "cancel", "topup"}
         /\ log[e].type = "created" => log[e].amount = Deposit
BY ProjectionAssumption DEF TypeOK, EventKinds

LEMMA DeadLetterType ==
  ASSUME TypeOK, NEW e \in Events, RecordDeadLetter(e)
  PROVE  /\ deadLetter' \in [Events -> DeadLetterRow \cup {Absent}]
         /\ deadLetter'[e] \in DeadLetterRow
         /\ deadLetter'[e].attempts > 0
         /\ IF deadLetter[e] = Absent
              THEN deadLetter'[e] = [attempts |-> 1, resolved |-> FALSE]
              ELSE /\ deadLetter'[e].attempts = deadLetter[e].attempts + 1
                   /\ deadLetter'[e].resolved = deadLetter[e].resolved
         /\ \A d \in Events \ {e} : deadLetter'[d] = deadLetter[d]
<1>1. CASE deadLetter[e] = Absent
  BY <1>1 DEF TypeOK, RecordDeadLetter, DeadLetterRow
<1>2. CASE deadLetter[e] # Absent
  <2>1. deadLetter[e] \in DeadLetterRow
    BY <1>2 DEF TypeOK
  <2> DEFINE more == [attempts |-> deadLetter[e].attempts + 1,
                      resolved |-> deadLetter[e].resolved]
  <2>2. more \in DeadLetterRow
    BY <2>1 DEF DeadLetterRow
  <2>3. deadLetter' = [deadLetter EXCEPT ![e] = more]
    BY <1>2 DEF RecordDeadLetter
  <2>4. deadLetter'[e] = more /\ deadLetter[e].attempts \in Nat
    BY <2>1, <2>3 DEF TypeOK, DeadLetterRow
  <2>5. QED
    BY <1>2, <2>2, <2>3, <2>4 DEF TypeOK, more
<1>3. QED
  BY <1>1, <1>2

LEMMA WriteType ==
  ASSUME TypeOK, NEW e \in Events, NEW s \in StreamIds, NEW x \in StreamRow,
         Write(e, s, x)
  PROVE  /\ stream' \in [StreamIds -> StreamRow \cup {Absent}]
         /\ streamEvents' \in [Events -> Nat]
         /\ stream'[s] = x /\ streamEvents'[e] = streamEvents[e] + 1
         /\ \A t \in StreamIds \ {s} : stream'[t] = stream[t]
         /\ \A d \in Events \ {e} : streamEvents'[d] = streamEvents[d]
         /\ deadLetter' = deadLetter
BY DEF TypeOK, Write

(* The row a handler writes.                                               *)
Created == [status |-> "ACTIVE", balance |-> Deposit, withdrawn |-> 0,
            rate |-> 1, lastRate |-> 0]
Withdrawn(x, a) == [status |-> x.status,
                    balance |-> IF x.balance >= a THEN x.balance - a ELSE 0,
                    withdrawn |-> x.withdrawn + a,
                    rate |-> x.rate, lastRate |-> x.lastRate]
Cancelled(x, a) == [status |-> "CANCELLED", balance |-> 0,
                    withdrawn |-> x.withdrawn + a, rate |-> 0, lastRate |-> x.rate]

LEMMA RowTypes ==
  /\ Created \in StreamRow
  /\ \A x \in StreamRow, a \in Nat :
       Withdrawn(x, a) \in StreamRow /\ Cancelled(x, a) \in StreamRow
BY ProjectionAssumption DEF Created, Withdrawn, Cancelled, StreamRow

(* A row whose amounts are any numbers.                                    *)
ChainRow == [status : {"ACTIVE", "CANCELLED"}, balance : Int, withdrawn : Int,
             rate : {0, 1}, lastRate : {0, 1}]

LEMMA RowExcept ==
  ASSUME NEW x \in ChainRow, NEW b, NEW w
  PROVE  [x EXCEPT !.balance = b, !.withdrawn = w]
           = [status |-> x.status, balance |-> b, withdrawn |-> w,
              rate |-> x.rate, lastRate |-> x.lastRate]
<1>1. x = [status |-> x.status, balance |-> x.balance, withdrawn |-> x.withdrawn,
           rate |-> x.rate, lastRate |-> x.lastRate]
  BY DEF ChainRow
<1> DEFINE y == [x EXCEPT !.balance = b]
<1>2. y = [status |-> x.status, balance |-> b, withdrawn |-> x.withdrawn,
           rate |-> x.rate, lastRate |-> x.lastRate]
  BY <1>1
<1>3. [x EXCEPT !.balance = b, !.withdrawn = w] = [y EXCEPT !.withdrawn = w]
  OBVIOUS
<1> HIDE DEF y
<1>4. [y EXCEPT !.withdrawn = w]
        = [status |-> x.status, balance |-> b, withdrawn |-> w,
           rate |-> x.rate, lastRate |-> x.lastRate]
  BY <1>2
<1>5. QED
  BY <1>3, <1>4

(* What a handler may do: nothing, to an event that is ignored, record a   *)
(* failure, or write.                                                      *)
Outcome(e, s) ==
  \/ Ignored(e, s) /\ UNCHANGED tables
  \/ Fails(e)
  \/ /\ log[e].type = "created" /\ stream[s] # Absent
     /\ Write(e, s, stream[s])
  \/ /\ log[e].type = "created" /\ stream[s] = Absent
     /\ Write(e, s, Created)
  \/ /\ log[e].type = "withdraw" /\ Active(s)
     /\ Write(e, s, Withdrawn(stream[s], log[e].amount))
  \/ /\ log[e].type = "cancel" /\ Active(s)
     /\ Write(e, s, Cancelled(stream[s], log[e].amount))

LEMMA HandlerOutcome ==
  ASSUME TypeOK, NEW e \in Events, Handles(e)
  PROVE  Outcome(e, log[e].stream)
<1> DEFINE s == log[e].stream
           a == log[e].amount
<1>1. s \in StreamIds /\ a \in Nat /\ stream[s] \in StreamRow \cup {Absent}
  BY EventFields DEF TypeOK
<1>2. ASSUME Fails(e) PROVE Outcome(e, s)
  BY <1>2 DEF Outcome
<1>3. ASSUME HandleStreamCreated(e, s) PROVE Outcome(e, s)
  BY <1>3, EventFields DEF HandleStreamCreated, Outcome, Created
<1>4. ASSUME HandleUnknownStream(e, s) PROVE Outcome(e, s)
  BY <1>4 DEF HandleUnknownStream, Fails, Outcome
<1>5. ASSUME HandleIgnored(e, s) PROVE Outcome(e, s)
  BY <1>5 DEF HandleIgnored, Outcome
<1>6. ASSUME HandleWithdraw(e, s) PROVE Outcome(e, s)
  <2>1. stream[s] \in StreamRow
    BY <1>1, <1>6 DEF HandleWithdraw, Active
  <2>2. [stream[s] EXCEPT !.balance = Max({0, @ - a}), !.withdrawn = @ + a]
          = Withdrawn(stream[s], a)
    <3>1. Max({0, stream[s].balance - a})
            = IF stream[s].balance >= a THEN stream[s].balance - a ELSE 0
      <4>1. stream[s].balance \in Nat
        BY <2>1 DEF StreamRow
      <4>2. QED
        BY <1>1, <4>1, Clamped
    <3>2. stream[s] \in ChainRow
      BY <2>1 DEF StreamRow, ChainRow
    <3>3. QED
      BY <3>1, <3>2, RowExcept DEF Withdrawn
  <2>3. QED
    BY <1>6, <2>2 DEF HandleWithdraw, Outcome
<1>7. ASSUME HandleCancel(e, s) PROVE Outcome(e, s)
  BY <1>7 DEF HandleCancel, Outcome, Cancelled
<1>8. QED
  BY <1>2, <1>3, <1>4, <1>5, <1>6, <1>7 DEF Handles, Dispatch

LEMMA HandledType ==
  ASSUME TypeOK, NEW e \in Events, Handles(e)
  PROVE  /\ stream' \in [StreamIds -> StreamRow \cup {Absent}]
         /\ streamEvents' \in [Events -> Nat]
         /\ deadLetter' \in [Events -> DeadLetterRow \cup {Absent}]
         /\ \A d \in Unresolved :
              d \in Unresolved' /\ deadLetter'[d].attempts >= deadLetter[d].attempts
<1> DEFINE s == log[e].stream
           a == log[e].amount
<1>1. s \in StreamIds /\ a \in Nat
  BY EventFields
<1>2. Outcome(e, s)
  BY HandlerOutcome
<1> HIDE DEF s, a
<1>3. \A d \in Unresolved : d \in Events /\ deadLetter[d] \in DeadLetterRow
                            /\ deadLetter[d].attempts \in Nat
  BY DEF Unresolved, TypeOK, DeadLetterRow
<1>4. CASE UNCHANGED tables
  BY <1>3, <1>4 DEF tables, TypeOK, Unresolved
<1>5. CASE Fails(e)
  <2>1. \A d \in Unresolved : deadLetter'[d] \in DeadLetterRow /\ ~deadLetter'[d].resolved
                              /\ deadLetter'[d].attempts >= deadLetter[d].attempts
    <3>1. TAKE d \in Unresolved
    <3>2. CASE d = e
      BY <1>3, <1>5, <3>2, DeadLetterType DEF Fails, Unresolved
    <3>3. CASE d # e
      BY <1>3, <1>5, <3>3, DeadLetterType DEF Fails, Unresolved
    <3>4. QED
      BY <3>2, <3>3
  <2>2. QED
    BY <1>3, <1>5, <2>1, DeadLetterType, ProjectionAssumption
       DEF Fails, TypeOK, Unresolved
<1>6. ASSUME NEW x \in StreamRow, Write(e, s, x)
      PROVE  /\ stream' \in [StreamIds -> StreamRow \cup {Absent}]
             /\ streamEvents' \in [Events -> Nat]
             /\ deadLetter' = deadLetter
  BY <1>1, <1>6, WriteType
<1>7. CASE \E x \in StreamRow : Write(e, s, x)
  BY <1>3, <1>6, <1>7 DEF TypeOK, Unresolved
<1>8. stream[s] # Absent => stream[s] \in StreamRow
  BY <1>1 DEF TypeOK
<1>9. Active(s) => /\ Withdrawn(stream[s], a) \in StreamRow
                   /\ Cancelled(stream[s], a) \in StreamRow
  BY <1>1, <1>8, RowTypes DEF Active
<1>10. QED
  BY <1>2, <1>4, <1>5, <1>7, <1>8, <1>9, RowTypes DEF Outcome, a

(* What the script goes on with.                                           *)
LEMMA ReplayAtIs ==
  ASSUME TypeOK, NEW at \in {"read", "resolve", "catch"}, ReplayAt(at)
  PROVE  /\ replay' \in ReplayType
         /\ replay'.at = at /\ replay'.rows = replay.rows
         /\ replay'.attempts = replay.attempts
BY DEF TypeOK, ReplayAt, ReplayType

LEMMA ReplayOverIs ==
  ASSUME ReplayOver
  PROVE  /\ replay' \in ReplayType
         /\ replay'.at = "idle" /\ replay'.rows = {} /\ Todo' = {} /\ ReplayInv'
BY DEF ReplayOver, ReplayType, Todo, ReplayInv

(* The script goes on to its next row.                                     *)
LEMMA RowDoneIs ==
  ASSUME TypeOK, NEW e \in replay.rows, RowDone(e)
  PROVE  /\ replay' \in ReplayType
         /\ replay'.rows = replay.rows \ {e} /\ Todo' = replay.rows \ {e}
         /\ replay'.at \in {"idle", "dispatch"}
         /\ replay'.at # "idle" => replay'.rows # {}
         /\ \A d \in replay'.rows : replay'.attempts[d] = replay.attempts[d]
<1>1. CASE replay.rows = {e}
  BY <1>1, ReplayOverIs DEF RowDone
<1>2. CASE replay.rows # {e}
  <2>1. replay \in ReplayType
    BY DEF TypeOK, ReplayType
  <2>2. replay' = [replay EXCEPT !.at = "dispatch", !.rows = @ \ {e}]
    BY <1>2 DEF RowDone
  <2>3. /\ replay' \in ReplayType
        /\ replay'.at = "dispatch" /\ replay'.rows = replay.rows \ {e}
        /\ replay'.attempts = replay.attempts
    BY <2>1, <2>2 DEF ReplayType
  <2>4. replay.rows \ {e} # {}
    BY <1>2
  <2>5. QED
    BY <2>3, <2>4 DEF Todo
<1>3. QED
  BY <1>1, <1>2

(* What the end of a row's turn makes of it.                               *)
LEMMA SettledIs ==
  ASSUME TypeOK, NEW e \in Events, deadLetter[e] # Absent,
         \/ deadLetter' = [deadLetter EXCEPT ![e].attempts = @ + 1]
         \/ deadLetter' = [deadLetter EXCEPT
              ![e] = [attempts |-> @.attempts + 1, resolved |-> TRUE]]
  PROVE  /\ deadLetter' \in [Events -> DeadLetterRow \cup {Absent}]
         /\ \A d \in Events \ {e} : deadLetter'[d] = deadLetter[d]
         /\ \A d \in Unresolved \ {e} :
              d \in Unresolved' /\ deadLetter'[d] = deadLetter[d]
         /\ deadLetter[e].attempts \in Nat
         /\ deadLetter'[e] \in DeadLetterRow /\ deadLetter'[e] # Absent
         /\ deadLetter'[e].attempts = deadLetter[e].attempts + 1
         /\ deadLetter[e].resolved => deadLetter'[e].resolved
<1>1. deadLetter[e] \in DeadLetterRow
  BY DEF TypeOK
<1> DEFINE x == [attempts |-> deadLetter[e].attempts + 1, resolved |-> TRUE]
           y == [deadLetter[e] EXCEPT !.attempts = @ + 1]
<1>2. /\ x \in DeadLetterRow /\ y \in DeadLetterRow
      /\ x.attempts = deadLetter[e].attempts + 1 /\ x.resolved
      /\ y.attempts = deadLetter[e].attempts + 1 /\ y.resolved = deadLetter[e].resolved
      /\ deadLetter[e].attempts \in Nat
  BY <1>1 DEF DeadLetterRow
<1>3. \/ deadLetter' = [deadLetter EXCEPT ![e] = x]
      \/ deadLetter' = [deadLetter EXCEPT ![e] = y]
  OBVIOUS
<1> HIDE DEF x, y
<1>4. /\ deadLetter'[e] = x \/ deadLetter'[e] = y
      /\ \A d \in Events \ {e} : deadLetter'[d] = deadLetter[d]
      /\ deadLetter' \in [Events -> DeadLetterRow \cup {Absent}]
  BY <1>2, <1>3 DEF TypeOK
<1>5. \A d \in Unresolved \ {e} :
        d \in Unresolved' /\ deadLetter'[d] = deadLetter[d]
  BY <1>4 DEF Unresolved
<1>6. QED
  BY <1>2, <1>4, <1>5, ProjectionAssumption

(* A delivery handles the event after the cursor, a dispatch of the script *)
(* the first of its rows.                                                  *)
LEMMA DeliverHandles ==
  ASSUME TypeOK, Deliver
  PROVE  /\ cursor + 1 \in Events /\ Handles(cursor + 1)
         /\ cursor + 1 \in broken => Fails(cursor + 1)
<1>1. cursor + 1 \in Events
  BY ProjectionAssumption DEF Deliver, TypeOK, Events
<1>2. QED
  BY <1>1 DEF Deliver, Handles, Fails, Throws

LEMMA NextRow ==
  ASSUME TypeOK, ReplayInv
  PROVE  /\ replay.at # "idle" =>
              Min(replay.rows) \in replay.rows /\ Min(replay.rows) \in Events
         /\ replay.at \in {"dispatch", "read", "resolve"} => Min(replay.rows) \in Unresolved
         /\ \A e \in Events : ReplayNext(e) =>
              /\ e = Min(replay.rows) /\ e \in replay.rows /\ e \in Unresolved
              /\ replay.at = "dispatch"
<1>1. replay.rows \in SUBSET Events
  BY DEF TypeOK
<1>2. replay.at # "idle" => Min(replay.rows) \in replay.rows
  BY <1>1, MinIsIn DEF ReplayInv
<1>3. replay.at # "catch" => replay.rows \subseteq Unresolved
  BY DEF ReplayInv, Todo
<1>4. QED
  BY <1>1, <1>2, <1>3 DEF ReplayNext

(* What is still to be done stays unresolved and keeps its attempts.       *)
LEMMA ReplayInvKept ==
  ASSUME TypeOK, ReplayInv, Todo' \subseteq Todo,
         replay'.at # "idle" => replay'.rows # {},
         \A d \in Todo' : replay'.attempts[d] = replay.attempts[d],
         deadLetter' \in [Events -> DeadLetterRow \cup {Absent}],
         \A d \in Todo' :
           d \in Unresolved' /\ deadLetter'[d].attempts >= deadLetter[d].attempts
  PROVE  ReplayInv'
<1>1. \A d \in Todo' : /\ replay.attempts[d] \in Nat
                       /\ replay.attempts[d] <= deadLetter[d].attempts
                       /\ deadLetter[d].attempts \in Nat
                       /\ deadLetter'[d].attempts \in Nat
                       /\ deadLetter'[d].attempts >= deadLetter[d].attempts
  <2>1. TAKE d \in Todo'
  <2>2. d \in Unresolved /\ d \in Unresolved'
    BY DEF ReplayInv
  <2>3. d \in Events /\ deadLetter[d] \in DeadLetterRow /\ deadLetter'[d] \in DeadLetterRow
    BY <2>2 DEF TypeOK, Unresolved
  <2>4. QED
    BY <2>2, <2>3 DEF TypeOK, ReplayInv, DeadLetterRow
<1>2. QED
  BY <1>1 DEF ReplayInv

(* The same when the script does not move.                                 *)
LEMMA ReplayStays ==
  ASSUME TypeOK, ReplayInv, UNCHANGED replay,
         deadLetter' \in [Events -> DeadLetterRow \cup {Absent}],
         \A d \in Unresolved :
           d \in Unresolved' /\ deadLetter'[d].attempts >= deadLetter[d].attempts
  PROVE  ReplayInv'
<1>1. Todo' = Todo /\ Todo \subseteq Unresolved
  BY DEF Todo, ReplayInv
<1>2. replay'.at # "idle" => replay'.rows # {}
  BY DEF ReplayInv
<1>3. QED
  BY <1>1, <1>2, ReplayInvKept

(* The script stays at its row, which goes to the catch block, or to be    *)
(* read or resolved; it, or the end of the row, may touch the row itself.  *)
LEMMA ReplayMoves ==
  ASSUME TypeOK, ReplayInv, replay.at # "idle",
         \/ ReplayAt("catch")
         \/ RowDone(Min(replay.rows))
         \/ replay.at # "catch" /\ ReplayAt("read") /\ Min(replay.rows) \in Unresolved'
              /\ deadLetter'[Min(replay.rows)].attempts
                   >= deadLetter[Min(replay.rows)].attempts
         \/ replay.at # "catch" /\ ReplayAt("resolve") /\ UNCHANGED deadLetter,
         deadLetter' \in [Events -> DeadLetterRow \cup {Absent}],
         \A d \in Unresolved \ {Min(replay.rows)} :
           d \in Unresolved' /\ deadLetter'[d].attempts >= deadLetter[d].attempts
  PROVE  replay' \in ReplayType /\ ReplayInv'
<1> DEFINE e == Min(replay.rows)
<1>1. e \in replay.rows /\ replay.rows # {}
  BY NextRow
<1>2. Todo \subseteq Unresolved /\ replay.rows \ {e} \subseteq Todo
  BY DEF ReplayInv, Todo
<1>3. ASSUME replay' \in ReplayType, replay'.at # "idle" => replay'.rows # {},
             Todo' = replay.rows \ {e},
             \A d \in Todo' : replay'.attempts[d] = replay.attempts[d]
      PROVE  ReplayInv'
  BY <1>2, <1>3, ReplayInvKept
<1>4. CASE ReplayAt("catch")
  <2>1. /\ replay' \in ReplayType /\ replay'.at = "catch"
        /\ replay'.rows = replay.rows /\ replay'.attempts = replay.attempts
    BY <1>4, ReplayAtIs
  <2>2. Todo' = replay.rows \ {e}
    BY <2>1 DEF Todo
  <2>3. QED
    BY <1>1, <1>3, <2>1, <2>2
<1>5. CASE RowDone(e)
  BY <1>1, <1>3, <1>5, RowDoneIs
<1>6. CASE /\ replay.at # "catch" /\ (ReplayAt("read") \/ ReplayAt("resolve"))
           /\ e \in Unresolved' /\ deadLetter'[e].attempts >= deadLetter[e].attempts
  <2>1. /\ replay' \in ReplayType /\ replay'.at \in {"read", "resolve"}
        /\ replay'.rows = replay.rows /\ replay'.attempts = replay.attempts
    BY <1>6, ReplayAtIs
  <2>2. Todo' = replay.rows /\ Todo = replay.rows
    BY <1>6, <2>1 DEF Todo
  <2>3. \A d \in Todo' :
          d \in Unresolved' /\ deadLetter'[d].attempts >= deadLetter[d].attempts
    BY <1>2, <1>6, <2>2
  <2>4. QED
    BY <1>1, <2>1, <2>2, <2>3, ReplayInvKept
<1>7. ASSUME replay.at # "catch", UNCHANGED deadLetter
      PROVE  e \in Unresolved' /\ deadLetter'[e].attempts >= deadLetter[e].attempts
  <2>1. e \in Unresolved /\ deadLetter[e] \in DeadLetterRow
    BY <1>1, <1>7 DEF ReplayInv, Todo, Unresolved, TypeOK
  <2>2. QED
    BY <1>7, <2>1 DEF Unresolved, DeadLetterRow
<1>8. QED
  BY <1>4, <1>5, <1>6, <1>7

LEMMA TypeStep == TypeOK /\ ReplayInv /\ [Next]_vars => TypeOK' /\ ReplayInv'
<1> SUFFICES ASSUME TypeOK, ReplayInv, [Next]_vars PROVE TypeOK' /\ ReplayInv'
  OBVIOUS
<1> USE DEF tables, indexer
<1>1. CASE Deliver
  <2>1. cursor + 1 \in Events /\ Handles(cursor + 1)
    BY <1>1, DeliverHandles
  <2>2. /\ reached' \in 0 .. NumEvents /\ cursor' \in 0 .. reached' /\ saved' \in 0 .. cursor'
        /\ redelivered' \in 0 .. MaxRedeliveries
        /\ UNCHANGED <<log, broken, replay>>
    BY <1>1, ProjectionAssumption DEF Deliver, TypeOK
  <2>3. TypeOK'
    BY <2>1, <2>2, HandledType DEF TypeOK
  <2>4. ReplayInv'
    BY <2>1, <2>2, HandledType, ReplayStays
  <2>5. QED
    BY <2>3, <2>4
<1>2. CASE Save \/ Crash
  <2>1. cursor' \in 0 .. reached' /\ saved' \in 0 .. cursor'
    BY <1>2, ProjectionAssumption DEF Save, Crash, TypeOK
  <2>2. TypeOK'
    BY <1>2, <2>1 DEF Save, Crash, TypeOK
  <2>3. ReplayInv'
    BY <1>2 DEF Save, Crash, ReplayInv, Todo, Unresolved
  <2>4. QED
    BY <2>2, <2>3
<1>3. CASE Deploy
  BY <1>3 DEF Deploy, TypeOK, ReplayInv, Todo, Unresolved
<1>4. CASE ReplayList
  <2>1. \A e \in Unresolved : /\ e \in Events /\ deadLetter[e] \in DeadLetterRow
                              /\ deadLetter[e].attempts \in Nat
    BY DEF Unresolved, TypeOK, DeadLetterRow
  <2>2. [e \in Events |-> IF e \in Unresolved THEN deadLetter[e].attempts ELSE 0]
          \in [Events -> Nat]
    BY <2>1
  <2>3. TypeOK'
    BY <1>4, <2>1, <2>2 DEF ReplayList, TypeOK
  <2>4. ReplayInv'
    BY <1>4, <2>1 DEF ReplayList, ReplayInv, Todo, Unresolved
  <2>5. QED
    BY <2>3, <2>4
<1>5. ASSUME replay' \in ReplayType, UNCHANGED <<log, broken, stream, streamEvents, indexer>>,
             deadLetter' \in [Events -> DeadLetterRow \cup {Absent}]
      PROVE  TypeOK'
  BY <1>5 DEF TypeOK, ReplayType
<1>6. \A d \in Unresolved : deadLetter[d].attempts \in Nat /\ d \in Events
  BY DEF Unresolved, TypeOK, DeadLetterRow
<1>7. CASE ReplayThrows \/ ReplayQueryFails \/ ReplayRead
  <2>1. /\ replay.at # "idle" /\ UNCHANGED <<log, broken, tables, indexer>>
        /\ \/ ReplayAt("catch")
           \/ RowDone(Min(replay.rows))
           \/ replay.at # "catch" /\ ReplayAt("resolve")
    BY <1>7 DEF ReplayThrows, ReplayQueryFails, ReplayRead, ReplayNext
  <2>2. /\ deadLetter' \in [Events -> DeadLetterRow \cup {Absent}]
        /\ \A d \in Unresolved :
             d \in Unresolved' /\ deadLetter'[d].attempts >= deadLetter[d].attempts
    BY <1>6, <2>1 DEF TypeOK, Unresolved
  <2>3. replay' \in ReplayType /\ ReplayInv'
    BY <2>1, <2>2, ReplayMoves
  <2>4. QED
    BY <1>5, <2>1, <2>2, <2>3
<1>8. CASE ReplayDispatch
  <2>1. PICK e \in Events :
          /\ ReplayNext(e) /\ Dispatch(e)
          /\ ReplayAt("read")
          /\ UNCHANGED <<log, broken, indexer>>
    BY <1>8 DEF ReplayDispatch
  <2>2. Handles(e)
    BY <2>1 DEF Handles
  <2>3. e = Min(replay.rows) /\ e \in Unresolved /\ replay.at = "dispatch"
    BY <2>1, NextRow
  <2>4. replay' \in ReplayType /\ ReplayInv'
    BY <2>1, <2>2, <2>3, HandledType, ReplayMoves
  <2>5. TypeOK'
    BY <2>1, <2>2, <2>4, HandledType DEF TypeOK, ReplayType
  <2>6. QED
    BY <2>4, <2>5
<1>9. CASE \/ ReplayResolve
           \/ ReplayCatch /\ deadLetter[Min(replay.rows)] # Absent
  <2> DEFINE e == Min(replay.rows)
  <2>1. /\ replay.at \in {"resolve", "catch"}
        /\ \/ deadLetter' = [deadLetter EXCEPT ![e].attempts = @ + 1]
           \/ deadLetter' = [deadLetter EXCEPT
                ![e] = [attempts |-> @.attempts + 1, resolved |-> TRUE]]
        /\ RowDone(e) \/ ReplayAt("catch")
        /\ UNCHANGED <<log, broken, stream, streamEvents, indexer>>
    BY <1>9 DEF ReplayResolve, ReplayCatch
  <2>2. e \in Events /\ deadLetter[e] # Absent
    BY <1>9, NextRow DEF ReplayResolve, ReplayCatch, Unresolved
  <2> HIDE DEF e
  <2>3. /\ deadLetter' \in [Events -> DeadLetterRow \cup {Absent}]
        /\ \A d \in Unresolved \ {e} :
             d \in Unresolved' /\ deadLetter'[d] = deadLetter[d]
    BY <2>1, <2>2, SettledIs
  <2>4. \A d \in Unresolved \ {e} :
          d \in Unresolved' /\ deadLetter'[d].attempts >= deadLetter[d].attempts
    BY <1>6, <2>3
  <2>5. replay' \in ReplayType /\ ReplayInv'
    BY <2>1, <2>3, <2>4, ReplayMoves DEF e
  <2>6. QED
    BY <1>5, <2>1, <2>3, <2>5
<1>10. CASE \/ ReplayCrash
            \/ ReplayCatch /\ deadLetter[Min(replay.rows)] = Absent
  <2>1. ReplayOver /\ UNCHANGED <<log, broken, tables, indexer>>
    BY <1>10 DEF ReplayCrash, ReplayCatch
  <2>2. QED
    BY <1>5, <2>1, ReplayOverIs DEF TypeOK
<1>11. CASE PruneOldLogs
  <2>1. TypeOK'
    BY <1>11 DEF PruneOldLogs, TypeOK
  <2>2. \A d \in Unresolved :
          d \in Unresolved' /\ deadLetter'[d].attempts >= deadLetter[d].attempts
    BY <1>6, <1>11 DEF PruneOldLogs, Unresolved
  <2>3. UNCHANGED replay /\ deadLetter' \in [Events -> DeadLetterRow \cup {Absent}]
    BY <1>11, <2>1 DEF PruneOldLogs, TypeOK
  <2>4. QED
    BY <2>1, <2>2, <2>3, ReplayStays
<1>12. CASE UNCHANGED vars
  BY <1>12 DEF vars, TypeOK, ReplayInv, Todo, Unresolved
<1>13. QED
  BY <1>1, <1>2, <1>3, <1>4, <1>7, <1>8, <1>9, <1>10, <1>11, <1>12
     DEF Next, ReplayCatch

LEMMA TypeInit == Init => TypeOK /\ ReplayInv
<1> SUFFICES ASSUME Init PROVE TypeOK /\ ReplayInv
  OBVIOUS
<1>1. /\ reached \in 0 .. NumEvents /\ redelivered \in 0 .. MaxRedeliveries
      /\ cursor \in 0 .. reached /\ saved \in 0 .. cursor
  BY ProjectionAssumption DEF Init
<1>2. replay \in ReplayType
  BY DEF Init, ReplayType
<1>3. TypeOK
  BY <1>1, <1>2 DEF Init, TypeOK, ReplayType
<1>4. ReplayInv
  BY DEF Init, ReplayInv, Todo
<1>5. QED
  BY <1>3, <1>4

LEMMA Typed == Spec => [](TypeOK /\ ReplayInv)
<1>1. QED
  BY TypeInit, TypeStep, PTL DEF Spec

(* Every row of a table and every variable has its type in every state.    *)
THEOREM TypeCorrect == Spec => []TypeOK
BY Typed, PTL

----------------------------------------------------------------------------
(* What stays.                                                             *)

(* A handler leaves a cancelled stream alone and takes no row from         *)
(* stream_events.                                                          *)
IsCancelled(s) == stream[s] # Absent /\ stream[s].status = "CANCELLED"
Kept ==
  /\ UNCHANGED log
  /\ \A s \in StreamIds : IsCancelled(s) => stream'[s] = stream[s]
  /\ \A s \in StreamIds : stream[s] # Absent => stream'[s] # Absent
  /\ \A d \in Events : streamEvents'[d] >= streamEvents[d]

LEMMA HandlerKeeps ==
  ASSUME TypeOK, NEW e \in Events, Handles(e), UNCHANGED log
  PROVE  Kept
<1> DEFINE s == log[e].stream
           a == log[e].amount
<1>1. s \in StreamIds /\ a \in Nat
  BY EventFields
<1>2. Outcome(e, s)
  BY HandlerOutcome
<1>3. \A d \in Events : streamEvents[d] \in Nat
  BY DEF TypeOK
<1> HIDE DEF s, a
<1>4. CASE UNCHANGED tables
  BY <1>3, <1>4 DEF tables, Kept
<1>5. CASE Fails(e)
  BY <1>3, <1>5 DEF Fails, Kept
<1>6. ASSUME NEW x \in StreamRow, Write(e, s, x), IsCancelled(s) => x = stream[s]
      PROVE  Kept
  <2>1. \A d \in Events : streamEvents'[d] >= streamEvents[d]
    <3>1. /\ streamEvents'[e] = streamEvents[e] + 1
          /\ \A d \in Events \ {e} : streamEvents'[d] = streamEvents[d]
      BY <1>1, <1>6, WriteType
    <3>2. QED
      BY <1>3, <3>1
  <2>2. stream'[s] = x /\ \A t \in StreamIds \ {s} : stream'[t] = stream[t]
    BY <1>1, <1>6, WriteType
  <2>3. QED
    BY <1>6, <2>1, <2>2, ProjectionAssumption DEF Kept
<1>7. stream[s] # Absent => stream[s] \in StreamRow
  BY <1>1 DEF TypeOK
<1>8. Active(s) => /\ Withdrawn(stream[s], a) \in StreamRow
                   /\ Cancelled(stream[s], a) \in StreamRow
                   /\ ~IsCancelled(s)
  BY <1>1, <1>7, RowTypes DEF Active, IsCancelled
<1>9. QED
  BY <1>2, <1>4, <1>5, <1>6, <1>7, <1>8, RowTypes DEF Outcome, a, IsCancelled

(* Only a delivery and a dispatch of the script write the two tables.      *)
LEMMA WhoHandles ==
  ASSUME TypeOK, ReplayInv, [Next]_vars
  PROVE  /\ UNCHANGED log
         /\ \/ Deliver /\ Handles(cursor + 1) /\ cursor + 1 \in Events
            \/ ReplayDispatch /\ Handles(Min(replay.rows)) /\ Min(replay.rows) \in Events
                 /\ Min(replay.rows) \in Unresolved
            \/ UNCHANGED <<stream, streamEvents>>
<1> USE DEF tables, indexer
<1>1. CASE Deliver
  BY <1>1, DeliverHandles DEF Deliver
<1>2. CASE ReplayDispatch
  BY <1>2, NextRow DEF ReplayDispatch, Handles
<1>3. CASE Save \/ Crash \/ Deploy \/ ReplayList \/ ReplayThrows \/ ReplayRead
             \/ ReplayResolve \/ ReplayQueryFails \/ ReplayCatch \/ ReplayCrash
             \/ PruneOldLogs \/ UNCHANGED vars
  BY <1>3 DEF Save, Crash, Deploy, ReplayList, ReplayThrows, ReplayRead,
              ReplayResolve, ReplayQueryFails, ReplayCatch, ReplayCrash,
              PruneOldLogs, vars
<1>4. QED
  BY <1>1, <1>2, <1>3 DEF Next

LEMMA StepKeeps ==
  ASSUME TypeOK, ReplayInv, [Next]_vars
  PROVE  Kept
<1>1. CASE UNCHANGED <<stream, streamEvents>>
  BY <1>1, WhoHandles DEF TypeOK, Kept
<1>2. QED
  BY <1>1, WhoHandles, HandlerKeeps

(* A stream that was cancelled is never written again: not by an event     *)
(* that is delivered twice, nor by one that is replayed later.             *)
THEOREM CancelledStays == Spec => CancelledIsFinal
<1>1. TypeOK /\ ReplayInv /\ [Next]_vars =>
        [\A s \in StreamIds :
           stream[s] # Absent /\ stream[s].status = "CANCELLED"
             => stream'[s] = stream[s]]_vars
  BY StepKeeps DEF Kept, IsCancelled
<1>2. QED
  BY <1>1, Typed, PTL DEF Spec, CancelledIsFinal

----------------------------------------------------------------------------
(* Nothing is forgotten.                                                   *)

(* An event that needs no dead letter.                                     *)
Settled(e) == streamEvents[e] > 0 \/ Ignored(e, log[e].stream)

(* Nothing is known of an event that was not handled; what is handled is   *)
(* settled or has a dead letter; what the script has dispatched is settled, *)
(* or its failure has moved the attempts; and what it is about to resolve  *)
(* is settled.                                                             *)
Ahead ==
  \A e \in Events : e > reached => streamEvents[e] = 0 /\ deadLetter[e] = Absent
Remembered == \A e \in 1 .. reached : Settled(e) \/ e \in Unresolved
Dispatched(e) == Settled(e) \/ deadLetter[e].attempts > replay.attempts[e]
RecordedInv ==
  /\ Ahead
  /\ Remembered
  /\ replay.at = "read" => Dispatched(Min(replay.rows))
  /\ replay.at = "resolve" => Settled(Min(replay.rows))

LEMMA SettledStays ==
  ASSUME TypeOK, TypeOK', Kept, NEW e \in Events, Settled(e)
  PROVE  Settled(e)'
<1>1. log[e].stream \in StreamIds
  BY EventFields
<1>2. streamEvents[e] \in Nat /\ streamEvents'[e] \in Nat
  BY DEF TypeOK
<1>3. CASE streamEvents[e] > 0
  BY <1>2, <1>3 DEF Kept, Settled
<1>4. CASE Ignored(e, log[e].stream)
  BY <1>1, <1>4 DEF Kept, Settled, Ignored, IsCancelled
<1>5. QED
  BY <1>3, <1>4 DEF Settled

(* Where the indexer is.                                                   *)
LEMMA PositionIs ==
  /\ TypeOK => reached \in 0 .. NumEvents /\ 1 .. reached \subseteq Events
  /\ TypeOK' => reached' \in 0 .. NumEvents
BY ProjectionAssumption DEF TypeOK, Events

LEMMA PositionMoves ==
  ASSUME TypeOK, ReplayInv, [Next]_vars
  PROVE  \/ reached' = reached
         \/ Deliver /\ cursor = reached /\ reached' = reached + 1 /\ reached' = cursor + 1
<1>1. CASE Deliver
  <2>1. /\ reached' = reached \/ (~(cursor + 1 <= reached) /\ reached' = cursor + 1)
        /\ cursor \in Nat /\ reached \in Nat /\ cursor <= reached
    BY <1>1, ProjectionAssumption DEF Deliver, TypeOK
  <2>2. QED
    BY <1>1, <2>1
<1>2. CASE Save \/ Crash
  BY <1>2 DEF Save, Crash
<1>3. CASE Deploy \/ ReplayList \/ ReplayThrows \/ ReplayDispatch \/ ReplayRead
             \/ ReplayResolve \/ ReplayQueryFails \/ ReplayCatch \/ ReplayCrash
             \/ PruneOldLogs \/ UNCHANGED vars
  BY <1>3 DEF Deploy, ReplayList, ReplayThrows, ReplayDispatch, ReplayRead,
              ReplayResolve, ReplayQueryFails, ReplayCatch, ReplayCrash,
              PruneOldLogs, vars, indexer
<1>4. QED
  BY <1>1, <1>2, <1>3 DEF Next

(* When an event was handled it is settled or its dead letter has one more *)
(* attempt.                                                                *)
LEMMA HandledIs ==
  ASSUME TypeOK, NEW e \in Events, Handles(e), UNCHANGED log
  PROVE  \/ Settled(e)' /\ deadLetter' = deadLetter
         \/ Fails(e)
<1>1. log[e].stream \in StreamIds /\ log[e].amount \in Nat
  BY EventFields
<1>2. Outcome(e, log[e].stream)
  BY HandlerOutcome
<1>3. streamEvents[e] \in Nat
  BY DEF TypeOK
<1>4. ASSUME NEW x, Write(e, log[e].stream, x)
      PROVE  streamEvents'[e] > 0 /\ deadLetter' = deadLetter
  BY <1>3, <1>4 DEF Write, TypeOK
<1>5. CASE Ignored(e, log[e].stream) /\ UNCHANGED tables
  BY <1>5 DEF tables, Settled, Ignored
<1>6. QED
  BY <1>2, <1>4, <1>5 DEF Outcome, Settled

(* A step of the indexer or the script touches one event.                  *)
LEMMA OthersStay ==
  ASSUME TypeOK, NEW e \in Events, Handles(e), NEW d \in Events \ {e}
  PROVE  streamEvents'[d] = streamEvents[d] /\ deadLetter'[d] = deadLetter[d]
<1>1. log[e].stream \in StreamIds /\ log[e].amount \in Nat
  BY EventFields
<1>2. Outcome(e, log[e].stream)
  BY HandlerOutcome
<1>3. ASSUME NEW x, Write(e, log[e].stream, x)
      PROVE  streamEvents'[d] = streamEvents[d] /\ deadLetter'[d] = deadLetter[d]
  BY <1>3 DEF Write, TypeOK
<1>4. CASE Fails(e)
  BY <1>4, DeadLetterType DEF Fails
<1>5. CASE UNCHANGED tables
  BY <1>5 DEF tables
<1>6. QED
  BY <1>2, <1>3, <1>4, <1>5 DEF Outcome

(* What becomes of dead letters: a row that was not there comes from an    *)
(* event that is handled; an unresolved one stays and keeps its attempts,  *)
(* unless the script resolves it; a resolved one is never opened again.    *)
LEMMA DeadLetterStep ==
  ASSUME TypeOK, TypeOK', ReplayInv, [Next]_vars, NEW d \in Events
  PROVE  /\ deadLetter[d] = Absent /\ deadLetter'[d] # Absent =>
              Deliver /\ d = cursor + 1
         /\ d \in Unresolved =>
              \/ d \in Unresolved' /\ deadLetter'[d].attempts >= deadLetter[d].attempts
              \/ ReplayResolve /\ d = Min(replay.rows)
         /\ ~Deliver /\ ~ReplayDispatch /\ d \notin Unresolved => d \notin Unresolved'
<1> USE DEF tables, indexer
<1>1. d \in Unresolved => deadLetter[d] \in DeadLetterRow /\ deadLetter[d].attempts \in Nat
  BY DEF Unresolved, TypeOK, DeadLetterRow
<1>2. CASE Deliver
  BY <1>2, DeliverHandles, OthersStay, HandledType
<1>3. CASE ReplayDispatch
  <2>1. PICK e \in Unresolved : e \in Events /\ Handles(e)
    BY <1>3, NextRow DEF ReplayDispatch, Handles
  <2>2. deadLetter[e] # Absent
    BY <2>1 DEF Unresolved
  <2>3. QED
    BY <1>3, <2>1, <2>2, OthersStay, HandledType
<1>4. ASSUME NEW e \in Events, deadLetter[e] # Absent, UNCHANGED <<stream, streamEvents>>,
             \/ deadLetter' = [deadLetter EXCEPT ![e].attempts = @ + 1]
             \/ /\ ReplayResolve /\ e = Min(replay.rows)
                /\ deadLetter' = [deadLetter EXCEPT
                     ![e] = [attempts |-> @.attempts + 1, resolved |-> TRUE]]
      PROVE  /\ ~(deadLetter[d] = Absent /\ deadLetter'[d] # Absent)
             /\ d \in Unresolved =>
                  \/ d \in Unresolved' /\ deadLetter'[d].attempts >= deadLetter[d].attempts
                  \/ ReplayResolve /\ d = Min(replay.rows)
             /\ d \notin Unresolved => d \notin Unresolved'
  <2>1. /\ \A x \in Events \ {e} : deadLetter'[x] = deadLetter[x]
        /\ deadLetter[e].attempts \in Nat /\ deadLetter'[e] # Absent
        /\ deadLetter'[e].attempts = deadLetter[e].attempts + 1
        /\ deadLetter[e].resolved => deadLetter'[e].resolved
    BY <1>4, SettledIs
  <2>2. CASE d # e
    BY <1>1, <2>1, <2>2 DEF Unresolved
  <2>3. CASE d = e /\ ~(ReplayResolve /\ e = Min(replay.rows))
    <3>1. deadLetter' = [deadLetter EXCEPT ![e].attempts = @ + 1]
      BY <1>4, <2>3
    <3>2. deadLetter'[e] = [deadLetter[e] EXCEPT !.attempts = @ + 1]
          /\ deadLetter[e] \in DeadLetterRow
      BY <1>4, <3>1 DEF TypeOK
    <3>3. deadLetter'[e].resolved = deadLetter[e].resolved
      BY <3>2 DEF DeadLetterRow
    <3>4. QED
      BY <1>4, <2>1, <2>3, <3>3 DEF Unresolved
  <2>4. CASE d = e /\ ReplayResolve /\ e = Min(replay.rows)
    <3>1. d \in Unresolved
      BY <2>4, NextRow DEF ReplayResolve
    <3>2. QED
      BY <1>4, <2>4, <3>1
  <2>5. QED
    BY <2>2, <2>3, <2>4
<1>5. CASE ReplayResolve
  <2>1. Min(replay.rows) \in Events /\ deadLetter[Min(replay.rows)] # Absent
    BY <1>5, NextRow DEF ReplayResolve, Unresolved
  <2>2. QED
    BY <1>4, <1>5, <2>1 DEF ReplayResolve
<1>6. CASE ReplayCatch /\ deadLetter[Min(replay.rows)] # Absent
  <2>1. Min(replay.rows) \in Events
    BY <1>6, NextRow DEF ReplayCatch
  <2>2. QED
    BY <1>4, <1>6, <2>1 DEF ReplayCatch
<1>7. CASE PruneOldLogs
  BY <1>1, <1>7 DEF PruneOldLogs, Unresolved
<1>8. CASE \/ Save \/ Crash \/ Deploy \/ ReplayList \/ ReplayThrows \/ ReplayRead
           \/ ReplayQueryFails \/ ReplayCrash \/ UNCHANGED vars
           \/ ReplayCatch /\ deadLetter[Min(replay.rows)] = Absent
  <2>1. UNCHANGED deadLetter
    BY <1>8 DEF Save, Crash, Deploy, ReplayList, ReplayThrows, ReplayRead,
                ReplayQueryFails, ReplayCrash, ReplayCatch, vars
  <2>2. QED
    BY <1>1, <2>1 DEF Unresolved
<1>9. QED
  BY <1>2, <1>3, <1>5, <1>6, <1>7, <1>8 DEF Next

LEMMA AheadStep ==
  ASSUME TypeOK, TypeOK', ReplayInv, Ahead, [Next]_vars
  PROVE  Ahead'
<1> SUFFICES ASSUME NEW d \in Events, d > reached'
             PROVE  streamEvents'[d] = 0 /\ deadLetter'[d] = Absent
  BY DEF Ahead
<1>1. d > reached
  BY PositionIs, PositionMoves DEF Events
<1>2. streamEvents[d] = 0 /\ deadLetter[d] = Absent
  BY <1>1 DEF Ahead
<1>3. Deliver => d # cursor + 1
  <2>1. ASSUME Deliver PROVE cursor + 1 <= reached'
    BY <2>1 DEF Deliver, TypeOK
  <2>2. cursor + 1 \in Int /\ reached' \in Int
    BY DEF TypeOK
  <2>3. QED
    BY <2>1, <2>2 DEF Events
<1>4. deadLetter'[d] = Absent
  BY <1>2, <1>3, DeadLetterStep
<1>5. d \notin Unresolved
  BY <1>2 DEF Unresolved
<1>6. streamEvents'[d] = streamEvents[d]
  BY <1>3, <1>5, WhoHandles, OthersStay
<1>7. QED
  BY <1>2, <1>4, <1>6

(* The row the script is at, as long as the script does not move.          *)
LEMMA AtRowStays ==
  ASSUME TypeOK, TypeOK', ReplayInv, RecordedInv, [Next]_vars, UNCHANGED replay
  PROVE  /\ replay.at = "read" => Dispatched(Min(replay.rows))'
         /\ replay.at = "resolve" => Settled(Min(replay.rows))'
<1> DEFINE e == Min(replay.rows)
<1>1. Kept /\ e' = e
  BY StepKeeps
<1>2. SUFFICES ASSUME replay.at \in {"read", "resolve"}
      PROVE  (replay.at = "read" => Dispatched(e)') /\ (replay.at = "resolve" => Settled(e)')
  BY <1>1
<1>3. e \in Unresolved /\ e \in Events
  BY <1>2, NextRow
<1>4. (replay.at = "read" => Dispatched(e)) /\ (replay.at = "resolve" => Settled(e))
  BY DEF RecordedInv
<1> HIDE DEF e
<1>5. Settled(e) => Settled(e)'
  BY <1>1, <1>3, SettledStays
<1>6. ASSUME replay.at = "read" PROVE Dispatched(e)'
  <2>1. CASE Settled(e)
    BY <1>1, <1>5, <2>1 DEF Dispatched
  <2>2. CASE deadLetter[e].attempts > replay.attempts[e]
    <3>1. e \in Unresolved' /\ deadLetter'[e].attempts >= deadLetter[e].attempts
      BY <1>3, <1>6, DeadLetterStep DEF ReplayResolve
    <3>2. deadLetter[e] \in DeadLetterRow /\ deadLetter'[e] \in DeadLetterRow
      BY <1>3, <3>1 DEF Unresolved, TypeOK
    <3>3. /\ deadLetter[e].attempts \in Nat /\ deadLetter'[e].attempts \in Nat
          /\ replay.attempts[e] \in Nat /\ replay'.attempts[e] = replay.attempts[e]
      BY <1>3, <3>2 DEF TypeOK, DeadLetterRow
    <3>4. deadLetter'[e].attempts > replay'.attempts[e]
      BY <2>2, <3>1, <3>3
    <3>5. QED
      BY <1>1, <3>4 DEF Dispatched
  <2>3. QED
    BY <1>4, <1>6, <2>1, <2>2 DEF Dispatched
<1>7. QED
  BY <1>1, <1>4, <1>5, <1>6

LEMMA RecordedStep ==
  ASSUME TypeOK, TypeOK', ReplayInv, ReplayInv', RecordedInv, [Next]_vars
  PROVE  RecordedInv'
<1>1. Ahead'
  BY AheadStep DEF RecordedInv
<1>2. Kept
  BY StepKeeps
<1>3. ASSUME NEW e \in 1 .. reached' PROVE Settled(e)' \/ e \in Unresolved'
  <2>1. e \in Events
    <3>1. reached' \in 0 .. NumEvents
      BY PositionIs
    <3>2. QED
      BY <1>3, <3>1, ProjectionAssumption DEF Events
  <2>2. CASE e \in 1 .. reached /\ Settled(e)
    BY <1>2, <2>1, <2>2, SettledStays
  <2>3. CASE e \in 1 .. reached /\ e \in Unresolved /\ ~Settled(e)
    <3>1. CASE e \in Unresolved'
      BY <3>1
    <3>2. CASE e \notin Unresolved'
      <4>1. ReplayResolve /\ e = Min(replay.rows)
        BY <2>1, <2>3, <3>2, DeadLetterStep
      <4>2. QED
        BY <2>3, <4>1 DEF RecordedInv, ReplayResolve
    <3>3. QED
      BY <3>1, <3>2
  <2>4. CASE e \notin 1 .. reached
    <3>1. Deliver /\ e = cursor + 1 /\ e > reached
      BY <2>4, PositionIs, PositionMoves
    <3>2. Handles(e) /\ UNCHANGED log
      BY <3>1, DeliverHandles DEF Deliver
    <3>3. deadLetter[e] = Absent
      BY <2>1, <3>1 DEF RecordedInv, Ahead
    <3>4. CASE Fails(e)
      <4>1. deadLetter'[e] = [attempts |-> 1, resolved |-> FALSE]
        BY <2>1, <3>3, <3>4, DeadLetterType DEF Fails
      <4>2. deadLetter'[e] # Absent
        BY <2>1, <3>4, DeadLetterType, ProjectionAssumption DEF Fails
      <4>3. QED
        BY <2>1, <4>1, <4>2 DEF Unresolved
    <3>5. QED
      BY <2>1, <3>2, <3>4, HandledIs
  <2>5. QED
    BY <2>2, <2>3, <2>4 DEF RecordedInv, Remembered
<1>4. /\ replay'.at = "read" => Dispatched(Min(replay.rows))'
      /\ replay'.at = "resolve" => Settled(Min(replay.rows))'
  <2>1. CASE ReplayDispatch
    <3>1. PICK e \in Events : ReplayNext(e) /\ Handles(e) /\ UNCHANGED log /\ ReplayAt("read")
      BY <2>1 DEF ReplayDispatch, Handles
    <3>2. e = Min(replay.rows) /\ e \in replay.rows /\ e \in Unresolved
          /\ replay.at = "dispatch"
      BY <3>1, NextRow
    <3>3. /\ replay'.at = "read" /\ replay'.rows = replay.rows
          /\ replay'.attempts = replay.attempts
      BY <3>1, ReplayAtIs
    <3>4. CASE Settled(e)'
      BY <3>2, <3>3, <3>4 DEF Dispatched
    <3>5. CASE Fails(e)
      <4>1. /\ deadLetter[e] # Absent /\ deadLetter[e] \in DeadLetterRow
            /\ replay.attempts[e] <= deadLetter[e].attempts
        BY <3>2 DEF ReplayInv, Todo, Unresolved, TypeOK
      <4>2. deadLetter'[e].attempts = deadLetter[e].attempts + 1
        BY <3>5, <4>1, DeadLetterType DEF Fails
      <4>3. replay.attempts[e] \in Nat /\ deadLetter[e].attempts \in Nat
        BY <4>1 DEF TypeOK, DeadLetterRow
      <4>4. deadLetter'[e].attempts > replay.attempts[e]
        BY <4>1, <4>2, <4>3
      <4>5. QED
        BY <3>2, <3>3, <4>4 DEF Dispatched
    <3>6. QED
      BY <3>1, <3>4, <3>5, HandledIs
  <2>2. CASE ReplayRead
    <3> DEFINE e == Min(replay.rows)
    <3>1. replay.at = "read" /\ UNCHANGED <<log, stream, streamEvents>> /\ e \in replay.rows
      BY <2>2, NextRow DEF ReplayRead, tables
    <3> HIDE DEF e
    <3>2. CASE RowDone(e)
      BY <3>1, <3>2, RowDoneIs
    <3>3. CASE ReplayAt("resolve") /\ ~(deadLetter[e].attempts > replay.attempts[e])
      <4>1. replay'.at = "resolve" /\ replay'.rows = replay.rows
        BY <3>3, ReplayAtIs
      <4>2. Settled(e)
        BY <3>1, <3>3 DEF RecordedInv, Dispatched, e
      <4>3. e' = e /\ e \in Events
        BY <3>1, <4>1 DEF e, TypeOK
      <4>4. Settled(e)'
        BY <1>2, <4>2, <4>3, SettledStays
      <4>5. QED
        BY <4>1, <4>4 DEF e
    <3>4. QED
      BY <2>2, <3>2, <3>3 DEF ReplayRead, e
  <2>3. CASE ReplayThrows \/ ReplayResolve \/ ReplayQueryFails \/ ReplayCatch \/ ReplayList
               \/ ReplayCrash
    <3>1. \/ ReplayAt("catch") \/ ReplayOver
          \/ replay.at # "idle" /\ RowDone(Min(replay.rows))
          \/ replay'.at = "dispatch"
      <4>1. CASE ReplayThrows
        BY <4>1 DEF ReplayThrows
      <4>2. CASE ReplayResolve
        BY <4>2 DEF ReplayResolve
      <4>3. CASE ReplayCatch
        BY <4>3 DEF ReplayCatch
      <4>4. CASE ReplayQueryFails
        BY <4>4 DEF ReplayQueryFails
      <4>5. CASE ReplayList
        <5>1. replay'.at = "dispatch"
          BY <4>5 DEF ReplayList
        <5>2. QED
          BY <5>1
      <4>6. CASE ReplayCrash
        BY <4>6 DEF ReplayCrash
      <4>7. QED
        BY <2>3, <4>1, <4>2, <4>3, <4>4, <4>5, <4>6
    <3>2. replay'.at \notin {"read", "resolve"}
      BY <3>1, ReplayAtIs, ReplayOverIs, RowDoneIs, NextRow
    <3>3. QED
      BY <3>2
  <2>4. CASE Deliver \/ Save \/ Crash \/ Deploy \/ PruneOldLogs \/ UNCHANGED vars
    <3>1. UNCHANGED replay
      BY <2>4 DEF Deliver, Save, Crash, Deploy, PruneOldLogs, vars
    <3>2. QED
      BY <3>1, AtRowStays
  <2>5. QED
    BY <2>1, <2>2, <2>3, <2>4 DEF Next
<1>5. QED
  BY <1>1, <1>3, <1>4 DEF RecordedInv, Remembered

LEMMA RecordedInit == Init => RecordedInv
BY ProjectionAssumption
   DEF Init, RecordedInv, Ahead, Remembered, Events

LEMMA Recorded == Spec => []RecordedInv
<1>1. TypeOK /\ ReplayInv /\ RecordedInv /\ [Next]_vars => RecordedInv'
  BY TypeStep, RecordedStep
<1>2. QED
  BY <1>1, RecordedInit, Typed, PTL DEF Spec

(* docs/INDEXER.md: a failed event is recorded, not silently dropped.      *)
(* Whatever throws, is replayed, is pruned or crashes, an event that was   *)
(* handled is in stream_events, has an unresolved dead letter, or was to   *)
(* be ignored.                                                             *)
THEOREM NoEventForgotten == Spec => []NothingForgotten
<1>1. TypeOK /\ RecordedInv => NothingForgotten
  BY DEF RecordedInv, Remembered, NothingForgotten, Settled
<1>2. QED
  BY <1>1, Typed, Recorded, PTL

----------------------------------------------------------------------------
(* What was paid out is what the audit rows say.                           *)

Pays(s) == {e \in Events : log[e].stream = s /\ log[e].type \in {"withdraw", "cancel"}}
Paid(s) == IF stream[s] = Absent THEN 0 ELSE stream[s].withdrawn

(* Over all events of the log, the ones not yet handled included, which    *)
(* have no rows; and an unknown stream has paid nothing.                   *)
Audited == \A s \in StreamIds : Paid(s) = Sum(PaidOut, Pays(s))

LEMMA PaysFinite ==
  /\ IsFiniteSet(Events)
  /\ \A s : Pays(s) \in SUBSET Events /\ IsFiniteSet(Pays(s))
<1>1. IsFiniteSet(Events)
  BY FS_Interval, ProjectionAssumption DEF Events
<1>2. \A s : Pays(s) \in SUBSET Events
  BY DEF Pays
<1>3. QED
  BY <1>1, <1>2, FS_Subset

LEMMA PaidOutType ==
  ASSUME TypeOK
  PROVE  \A e \in Events : PaidOut[e] = log[e].amount * streamEvents[e]
                           /\ PaidOut[e] \in Int
<1>1. \A e \in Events : log[e].amount \in Nat /\ streamEvents[e] \in Nat
  BY EventFields DEF TypeOK
<1>2. QED
  BY <1>1 DEF PaidOut

(* An event that gets one row more moves the sum of its own stream.        *)
LEMMA AuditMoves ==
  ASSUME TypeOK, TypeOK', UNCHANGED log, NEW h \in Events,
         streamEvents'[h] = streamEvents[h] + 1,
         \A d \in Events \ {h} : streamEvents'[d] = streamEvents[d],
         NEW t \in StreamIds
  PROVE  Sum(PaidOut', Pays(t))
           = Sum(PaidOut, Pays(t)) + IF h \in Pays(t) THEN log[h].amount ELSE 0
<1>1. \A e \in Events : /\ log[e].amount \in Nat /\ streamEvents[e] \in Nat
                        /\ streamEvents'[e] \in Nat
                        /\ PaidOut[e] = log[e].amount * streamEvents[e]
                        /\ PaidOut'[e] = log[e].amount * streamEvents'[e]
  BY EventFields DEF TypeOK, PaidOut
<1>2. PaidOut'[h] = PaidOut[h] + log[h].amount
  <2>1. \A a, n \in Nat : a * (n + 1) = a * n + a
    OBVIOUS
  <2>2. log[h].amount * (streamEvents[h] + 1)
          = log[h].amount * streamEvents[h] + log[h].amount
    BY <1>1, <2>1
  <2>3. QED
    BY <1>1, <2>2
<1>3. \A e \in Events : PaidOut[e] \in Int /\ PaidOut'[e] \in Int
  <2>1. \A a, n \in Nat : a * n \in Int
    OBVIOUS
  <2>2. QED
    BY <1>1, <2>1
<1>4. \A e \in Events \ {h} : PaidOut[e] = PaidOut'[e]
  BY <1>1
<1> DEFINE f == PaidOut
           g == PaidOut'
           S == Pays(t)
<1>5. /\ IsFiniteSet(S) /\ S \in SUBSET Events
      /\ \A e \in S : f[e] \in Int /\ g[e] \in Int
      /\ \A e \in S \ {h} : f[e] = g[e]
      /\ g[h] = f[h] + log[h].amount /\ f[h] \in Int /\ log[h].amount \in Int
  BY <1>1, <1>2, <1>3, <1>4, PaysFinite
<1> HIDE DEF f, g, S
<1>6. CASE h \in S
  <2>1. Sum(g, S) = Sum(f, S) - f[h] + g[h]
    <3>1. IsFiniteSet(S)
      BY <1>5
    <3>2. \A e \in S : f[e] \in Int /\ g[e] \in Int
      BY <1>5
    <3>3. \A e \in S \ {h} : f[e] = g[e]
      BY <1>5
    <3>4. QED
      BY <1>6, <3>1, <3>2, <3>3, SumChange
  <2>2. Sum(f, S) \in Int
    BY <1>5, SumInt
  <2>3. Sum(g, S) = Sum(f, S) + log[h].amount
    BY <1>5, <2>1, <2>2
  <2>4. QED
    BY <1>6, <2>3 DEF f, g, S
<1>7. CASE h \notin S
  <2>1. Sum(f, S) = Sum(g, S)
    BY <1>5, <1>7, SumSame
  <2>2. Sum(f, S) \in Int
    BY <1>5, SumInt
  <2>3. QED
    BY <1>7, <2>1, <2>2 DEF f, g, S
<1>8. QED
  BY <1>6, <1>7

LEMMA AuditedStep ==
  ASSUME TypeOK, TypeOK', ReplayInv, Audited, [Next]_vars
  PROVE  Audited'
<1>1. UNCHANGED log
  BY WhoHandles
<1>2. \A t \in StreamIds : Pays(t)' = Pays(t)
  BY <1>1 DEF Pays
<1>3. CASE UNCHANGED <<stream, streamEvents>>
  <2>1. PaidOut' = PaidOut /\ \A t \in StreamIds : Paid(t)' = Paid(t)
    BY <1>1, <1>3 DEF PaidOut, Paid
  <2>2. QED
    BY <1>2, <2>1 DEF Audited
<1>4. ASSUME NEW h \in Events, Handles(h) PROVE Audited'
  <2> DEFINE s == log[h].stream
             a == log[h].amount
  <2>1. s \in StreamIds /\ a \in Nat /\ stream[s] \in StreamRow \cup {Absent}
    BY EventFields DEF TypeOK
  <2>2. Outcome(h, s)
    BY <1>4, HandlerOutcome
  <2>3. \A t \in StreamIds : h \in Pays(t) <=> t = s /\ log[h].type \in {"withdraw", "cancel"}
    BY DEF Pays
  <2>4. ASSUME UNCHANGED <<stream, streamEvents>> PROVE Audited'
    BY <1>3, <2>4
  <2>5. ASSUME NEW x \in StreamRow, Write(h, s, x),
               x.withdrawn = Paid(s) + IF h \in Pays(s) THEN a ELSE 0
        PROVE  Audited'
    <3>1. /\ stream'[s] = x /\ \A t \in StreamIds \ {s} : stream'[t] = stream[t]
          /\ streamEvents'[h] = streamEvents[h] + 1
          /\ \A d \in Events \ {h} : streamEvents'[d] = streamEvents[d]
      BY <2>1, <2>5, WriteType
    <3>2. \A t \in StreamIds : Sum(PaidOut', Pays(t))
            = Sum(PaidOut, Pays(t)) + IF h \in Pays(t) THEN a ELSE 0
      BY <1>1, <3>1, AuditMoves
    <3>3. ASSUME NEW t \in StreamIds PROVE Paid(t)' = Sum(PaidOut', Pays(t))
      <4>1. Paid(t) = Sum(PaidOut, Pays(t))
        BY DEF Audited
      <4>2. CASE t = s
        <5>1. Paid(t)' = x.withdrawn
          BY <3>1, <4>2, ProjectionAssumption DEF Paid
        <5>2. QED
          BY <2>5, <3>2, <4>1, <4>2, <5>1
      <4>3. CASE t # s
        <5>1. Paid(t)' = Paid(t) /\ h \notin Pays(t)
          BY <2>3, <3>1, <4>3 DEF Paid
        <5>2. Sum(PaidOut, Pays(t)) \in Int
          BY PaidOutType, PaysFinite, SumInt
        <5>3. Sum(PaidOut', Pays(t)) = Sum(PaidOut, Pays(t)) + 0
          BY <3>2, <5>1
        <5>4. QED
          BY <4>1, <5>1, <5>2, <5>3
      <4>4. QED
        BY <4>2, <4>3
    <3>4. QED
      BY <1>2, <3>3 DEF Audited
  <2>6. stream[s] # Absent => stream[s] \in StreamRow /\ Paid(s) = stream[s].withdrawn
                              /\ stream[s].withdrawn \in Nat
    BY <2>1 DEF Paid, StreamRow
  <2> HIDE DEF s, a
  <2>7. log[h].type = "created" => h \notin Pays(s)
    BY <2>1, <2>3
  <2>8. ASSUME log[h].type = "created", stream[s] # Absent, Write(h, s, stream[s])
        PROVE  Audited'
    BY <2>5, <2>6, <2>7, <2>8
  <2>9. ASSUME log[h].type = "created", stream[s] = Absent, Write(h, s, Created)
        PROVE  Audited'
    BY <2>5, <2>7, <2>9, RowTypes DEF Created, Paid
  <2>10. ASSUME log[h].type = "withdraw", Active(s), Write(h, s, Withdrawn(stream[s], a))
         PROVE  Audited'
    <3>1. h \in Pays(s) /\ Withdrawn(stream[s], a) \in StreamRow
      BY <2>1, <2>3, <2>6, <2>10, RowTypes DEF Active
    <3>2. Withdrawn(stream[s], a).withdrawn = Paid(s) + a
      BY <2>6, <2>10 DEF Active, Withdrawn
    <3>3. QED
      BY <2>5, <2>10, <3>1, <3>2
  <2>11. ASSUME log[h].type = "cancel", Active(s), Write(h, s, Cancelled(stream[s], a))
         PROVE  Audited'
    <3>1. h \in Pays(s) /\ Cancelled(stream[s], a) \in StreamRow
      BY <2>1, <2>3, <2>6, <2>11, RowTypes DEF Active
    <3>2. Cancelled(stream[s], a).withdrawn = Paid(s) + a
      BY <2>6, <2>11 DEF Active, Cancelled
    <3>3. QED
      BY <2>5, <2>11, <3>1, <3>2
  <2>12. QED
    BY <2>2, <2>4, <2>8, <2>9, <2>10, <2>11 DEF Outcome, Fails, tables, a
<1>5. QED
  BY <1>3, <1>4, WhoHandles

LEMMA AuditedInit == Init => Audited
<1> SUFFICES ASSUME Init, NEW s \in StreamIds PROVE Paid(s) = Sum(PaidOut, Pays(s))
  BY DEF Audited
<1>1. Paid(s) = 0
  BY DEF Init, Paid
<1>2. TypeOK /\ \A e \in Events : streamEvents[e] = 0
  BY TypeInit DEF Init
<1>3. \A e \in Pays(s) : PaidOut[e] = 0
  <2>1. \A n \in Nat : n * 0 = 0
    OBVIOUS
  <2>2. \A e \in Events : log[e].amount \in Nat
    BY <1>2, EventFields
  <2>3. QED
    BY <1>2, <2>1, <2>2, PaysFinite, PaidOutType
<1>4. QED
  BY <1>1, <1>3, PaysFinite, SumZero

LEMMA AuditedAlways == Spec => []Audited
<1>1. TypeOK /\ TypeOK' /\ ReplayInv /\ Audited /\ [Next]_vars => Audited'
  BY AuditedStep
<1>2. QED
  BY <1>1, AuditedInit, Typed, PTL DEF Spec

(* The events that are still ahead add nothing.                            *)
LEMMA AuditedPosition ==
  ASSUME TypeOK, Ahead, NEW s \in StreamIds
  PROVE  Sum(PaidOut, Pays(s)) = Sum(PaidOut, PaysOut(s))
<1>1. PaysOut(s) \in SUBSET Pays(s)
  BY PositionIs DEF PaysOut, OfStream, Pays
<1>2. \A e \in Pays(s) \ PaysOut(s) : PaidOut[e] = 0
  <2>1. TAKE e \in Pays(s) \ PaysOut(s)
  <2>2. e \in Events /\ e > reached
    BY PositionIs DEF Pays, PaysOut, OfStream, Events
  <2>3. streamEvents[e] = 0 /\ log[e].amount \in Nat
    BY <2>2, EventFields DEF Ahead
  <2>4. QED
    BY <2>2, <2>3, PaidOutType
<1> DEFINE S == Pays(s)
           T == PaysOut(s)
           f == PaidOut
<1>3. IsFiniteSet(S) /\ \A e \in S : f[e] \in Int
  BY PaysFinite, PaidOutType
<1>4. T \in SUBSET S /\ \A e \in S \ T : f[e] = 0
  BY <1>1, <1>2
<1> HIDE DEF S, T, f
<1>5. Sum(f, S) = Sum(f, T) + Sum(f, S \ T)
  BY <1>3, <1>4, SumSplit
<1>6. S \ T \in SUBSET S
  OBVIOUS
<1>7. IsFiniteSet(S \ T) /\ Sum(f, T) \in Int
  BY <1>3, <1>4, <1>6, SumInt
<1>8. Sum(f, S \ T) = 0
  BY <1>4, <1>7, SumZero
<1>9. Sum(f, S) = Sum(f, T)
  BY <1>5, <1>7, <1>8
<1>10. QED
  BY <1>9 DEF S, T, f

(* The two tables a handler writes agree on what a stream paid out,        *)
(* however often an event was delivered or replayed.                       *)
THEOREM AuditAgrees == Spec => []WithdrawnIsAudited
<1>1. TypeOK /\ RecordedInv /\ Audited => WithdrawnIsAudited
  <2> SUFFICES ASSUME TypeOK, RecordedInv, Audited, NEW s \in StreamIds, stream[s] # Absent
               PROVE  stream[s].withdrawn = Sum(PaidOut, PaysOut(s))
    BY DEF WithdrawnIsAudited, Sum
  <2>1. QED
    BY AuditedPosition DEF RecordedInv, Audited, Paid
<1>2. QED
  BY <1>1, Typed, Recorded, AuditedAlways, PTL

----------------------------------------------------------------------------
(* The contract.                                                           *)

LEMMA AppliedIs ==
  ASSUME NEW s, NEW e \in EventKinds, NEW x \in ChainRow \cup {Absent}
  PROVE  /\ e.stream # s => Applied(s, e, x) = x
         /\ e.stream = s /\ e.type = "created" => Applied(s, e, x) = Created
         /\ e.stream = s /\ e.type # "created" /\ x = Absent =>
              Applied(s, e, x) = Absent
         /\ e.stream = s /\ e.type = "topup" /\ x # Absent =>
              Applied(s, e, x) = [x EXCEPT !.balance = @ + e.amount]
         /\ e.stream = s /\ e.type = "withdraw" /\ x # Absent =>
              Applied(s, e, x) =
                [status |-> x.status, balance |-> x.balance - e.amount,
                 withdrawn |-> x.withdrawn + e.amount, rate |-> x.rate,
                 lastRate |-> x.lastRate]
         /\ e.stream = s /\ e.type = "cancel" /\ x # Absent =>
              Applied(s, e, x) =
                [status |-> "CANCELLED", balance |-> 0,
                 withdrawn |-> x.withdrawn + e.amount, rate |-> 0, lastRate |-> 1]
<1>1. e.type = "created" => e.amount = Deposit
  BY DEF EventKinds
<1>2. e.stream # s => Applied(s, e, x) = x
  BY DEF Applied
<1>3. e.stream = s /\ e.type = "created" => Applied(s, e, x) = Created
  BY <1>1 DEF Applied, Created
<1>4. e.stream = s /\ e.type # "created" /\ x = Absent => Applied(s, e, x) = Absent
  BY DEF Applied
<1>5. e.stream = s /\ e.type = "topup" /\ x # Absent =>
        Applied(s, e, x) = [x EXCEPT !.balance = @ + e.amount]
  BY DEF Applied
<1>6. e.stream = s /\ e.type = "withdraw" /\ x # Absent =>
        Applied(s, e, x) = [x EXCEPT !.balance = @ - e.amount,
                                     !.withdrawn = @ + e.amount]
  BY DEF Applied
<1>7. e.stream = s /\ e.type = "cancel" /\ x # Absent =>
        Applied(s, e, x) =
          [status |-> "CANCELLED", balance |-> 0,
           withdrawn |-> x.withdrawn + e.amount, rate |-> 0, lastRate |-> 1]
  BY DEF Applied
<1>8. QED
  BY <1>2, <1>3, <1>4, <1>5, <1>6, <1>7, RowExcept DEF ChainRow

(* The same, one event type at a time.                                     *)
LEMMA AppliedCreated ==
  \A s : \A e \in EventKinds : \A x \in ChainRow \cup {Absent} :
    e.stream = s /\ e.type = "created" => Applied(s, e, x) = Created
BY AppliedIs

LEMMA AppliedWithdraw ==
  \A s : \A e \in EventKinds : \A x \in ChainRow :
    e.stream = s /\ e.type = "withdraw" /\ x # Absent =>
      Applied(s, e, x) =
        [status |-> x.status, balance |-> x.balance - e.amount,
         withdrawn |-> x.withdrawn + e.amount, rate |-> x.rate,
         lastRate |-> x.lastRate]
BY AppliedIs

LEMMA AppliedCancel ==
  \A s : \A e \in EventKinds : \A x \in ChainRow :
    e.stream = s /\ e.type = "cancel" /\ x # Absent =>
      Applied(s, e, x) =
        [status |-> "CANCELLED", balance |-> 0,
         withdrawn |-> x.withdrawn + e.amount, rate |-> 0, lastRate |-> 1]
BY AppliedIs

LEMMA AppliedType ==
  ASSUME NEW s, NEW e \in EventKinds, NEW x \in ChainRow \cup {Absent}
  PROVE  Applied(s, e, x) \in ChainRow \cup {Absent}
<1>1. e.amount \in Nat /\ e.type \in {"created", "withdraw", "cancel", "topup"}
  BY ProjectionAssumption DEF EventKinds
<1>2. Created \in ChainRow
  BY ProjectionAssumption DEF Created, ChainRow
<1>3. CASE x = Absent
  BY <1>1, <1>2, <1>3, AppliedIs
<1>4. CASE x # Absent
  <2>1. x \in ChainRow
    BY <1>4
  <2>2. [x EXCEPT !.balance = @ + e.amount] \in ChainRow
    BY <1>1, <2>1 DEF ChainRow
  <2>3. [status |-> x.status, balance |-> x.balance - e.amount,
         withdrawn |-> x.withdrawn + e.amount, rate |-> x.rate,
         lastRate |-> x.lastRate] \in ChainRow
    BY <1>1, <2>1 DEF ChainRow
  <2>4. [status |-> "CANCELLED", balance |-> 0,
         withdrawn |-> x.withdrawn + e.amount, rate |-> 0, lastRate |-> 1] \in ChainRow
    BY <1>1, <2>1 DEF ChainRow
  <2>5. CASE e.stream # s
    BY <2>1, <2>5, AppliedIs
  <2>6. CASE e.stream = s /\ e.type = "created"
    BY <1>2, <2>6, AppliedIs
  <2>7. CASE e.stream = s /\ e.type = "topup"
    BY <1>4, <2>2, <2>7, AppliedIs
  <2>8. CASE e.stream = s /\ e.type = "withdraw"
    BY <1>4, <2>3, <2>8, AppliedIs
  <2>9. CASE e.stream = s /\ e.type = "cancel"
    BY <1>4, <2>4, <2>9, AppliedIs
  <2>10. QED
    BY <1>1, <2>5, <2>6, <2>7, <2>8, <2>9
<1>5. QED
  BY <1>3, <1>4

(* The history of a stream is what its definition says.                    *)
LEMMA ChainStep ==
  ASSUME log \in [Events -> EventKinds], NEW s
  PROVE  /\ OnChain(s) \in [0 .. NumEvents -> ChainRow \cup {Absent}]
         /\ OnChain(s)[0] = Absent
         /\ \A n \in Events :
              OnChain(s)[n] = Applied(s, log[n], OnChain(s)[n - 1])
<1> DEFINE V == ChainRow \cup {Absent}
           h == [n \in 1 .. NumEvents |-> [x \in V |-> Applied(s, log[n], x)]]
           F(f) == [n \in 0 .. NumEvents |->
                      IF n = 0 THEN Absent ELSE Applied(s, log[n], f[n - 1])]
<1>1. h \in [1 .. NumEvents -> [V -> V]]
  BY AppliedType DEF Events
<1>2. NumEvents \in Nat /\ Absent \in V
  BY ProjectionAssumption
<1> HIDE DEF h, V, F
<1>3. PICK f \in [0 .. NumEvents -> V] :
        f[0] = Absent /\ \A n \in 1 .. NumEvents : f[n] = h[n][f[n - 1]]
  <2>1. NumEvents \in Nat
    BY <1>2
  <2>2. Absent \in V
    BY <1>2
  <2>3. Recursive(NumEvents, V, Absent, h) # {}
    BY <1>1, <2>1, <2>2, Recursion
  <2>4. QED
    BY <2>3 DEF Recursive
<1> USE DEF F
<1>4. \A n \in 1 .. NumEvents : h[n][f[n - 1]] = Applied(s, log[n], f[n - 1])
  <2>1. TAKE n \in 1 .. NumEvents
  <2>2. n - 1 \in 0 .. NumEvents
    BY <1>2
  <2>3. f[n - 1] \in V
    BY <2>2
  <2>4. QED
    BY <2>3 DEF h
<1>5. f = F(f)
  <2>1. \A n \in 0 .. NumEvents : f[n] = F(f)[n]
    BY <1>2, <1>3, <1>4
  <2>2. QED
    BY <1>3, <2>1
<1>6. \E g : g = F(g)
  BY <1>5
<1> DEFINE c == CHOOSE g : g = F(g)
<1>7. OnChain(s) = c
  BY DEF OnChain
<1>8. c = F(c)
  BY <1>6
<1> HIDE DEF c
<1>9. c[0] = Absent /\ \A n \in Events : c[n] = Applied(s, log[n], c[n - 1])
  BY <1>2, <1>8 DEF Events
<1> DEFINE Good == {n \in 0 .. NumEvents : c[n] \in V}
<1>10. 0 \in Good
  BY <1>2, <1>9
<1>11. \A n \in 1 .. NumEvents : n - 1 \in Good => n \in Good
  BY <1>2, <1>9, AppliedType DEF Events, V
<1> HIDE DEF Good
<1>12. 0 .. NumEvents \subseteq Good
  BY <1>2, <1>10, <1>11, UpToInduction
<1>13. c \in [0 .. NumEvents -> V]
  BY <1>8, <1>12 DEF Good
<1>14. QED
  BY <1>7, <1>9, <1>13 DEF V

(* A legal log stays legal.                                                *)
LEMMA LegalLogStays ==
  ASSUME UNCHANGED log
  PROVE  LegalLog' <=> LegalLog
<1>1. \A s : OnChain(s)' = OnChain(s)
  BY DEF OnChain, Applied
<1>2. QED
  BY <1>1 DEF LegalLog

(* What the first n events of the log say of a stream: is there one of a   *)
(* type, and how much they pay out.                                        *)
Has(s, n, type) == \E e \in 1 .. n : log[e].stream = s /\ log[e].type = type
AmountOf == [e \in Events |-> log[e].amount]
Due(s, n) == {e \in Pays(s) : e <= n}
Total(s, n) == Sum(AmountOf, Due(s, n))
Final(s, n) ==
  IF Has(s, n, "cancel")
    THEN [status |-> "CANCELLED", balance |-> 0, withdrawn |-> Total(s, n),
          rate |-> 0, lastRate |-> 1]
    ELSE [status |-> "ACTIVE", balance |-> Deposit - Total(s, n),
          withdrawn |-> Total(s, n), rate |-> 1, lastRate |-> 0]

LEMMA HasMoves ==
  ASSUME NEW n \in Events, NEW s, NEW type
  PROVE  Has(s, n, type) <=> \/ Has(s, n - 1, type)
                             \/ log[n].stream = s /\ log[n].type = type
<1>1. n \in Nat /\ 1 .. n = 1 .. n - 1 \cup {n}
  BY ProjectionAssumption DEF Events
<1>2. QED
  BY <1>1 DEF Has

LEMMA AmountType ==
  ASSUME TypeOK
  PROVE  \A e \in Events : AmountOf[e] = log[e].amount /\ AmountOf[e] \in Nat
BY EventFields DEF AmountOf

LEMMA TotalMoves ==
  ASSUME TypeOK, NEW s
  PROVE  /\ Total(s, 0) = 0
         /\ \A n \in 0 .. NumEvents : Total(s, n) \in Nat
         /\ \A n \in Events :
              Total(s, n) = Total(s, n - 1)
                              + IF n \in Pays(s) THEN log[n].amount ELSE 0
<1>1. \A n : Due(s, n) \in SUBSET Pays(s)
  BY DEF Due
<1>2. \A n : IsFiniteSet(Due(s, n)) /\ Due(s, n) \in SUBSET Events
  BY <1>1, PaysFinite, FS_Subset
<1>3. Total(s, 0) = 0
  <2>1. Due(s, 0) = {}
    BY PaysFinite, ProjectionAssumption DEF Due, Events
  <2>2. QED
    BY <2>1, SumEmpty DEF Total
<1>4. ASSUME NEW n \in 0 .. NumEvents PROVE Total(s, n) \in Nat
  BY <1>2, AmountType, SumNat DEF Total
<1>5. ASSUME NEW n \in Events
      PROVE  Total(s, n) = Total(s, n - 1) + IF n \in Pays(s) THEN log[n].amount ELSE 0
  <2>1. /\ n \in Nat /\ n - 1 \in 0 .. NumEvents
        /\ \A e \in Pays(s) : e \in Nat
        /\ n \notin Due(s, n - 1)
    BY PaysFinite, ProjectionAssumption DEF Events, Due
  <2>2. CASE n \in Pays(s)
    <3>1. Due(s, n) = Due(s, n - 1) \cup {n}
      <4>1. \A e \in Pays(s) : e <= n <=> e <= n - 1 \/ e = n
        BY <2>1
      <4>2. QED
        BY <2>1, <2>2, <4>1 DEF Due
    <3> DEFINE S == Due(s, n - 1)
               f == AmountOf
    <3>2. /\ IsFiniteSet(S) /\ n \notin S /\ f[n] \in Int
          /\ \A e \in S : f[e] \in Int
      <4>1. IsFiniteSet(S) /\ n \notin S /\ S \in SUBSET Events
        BY <1>2, <2>1
      <4>2. f[n] \in Int /\ \A e \in Events : f[e] \in Int
        BY AmountType
      <4>3. QED
        BY <4>1, <4>2
    <3> HIDE DEF S, f
    <3>3. Sum(f, S \cup {n}) = Sum(f, S) + f[n]
      BY <3>2, SumAdd
    <3>4. QED
      BY <2>2, <3>1, <3>3, AmountType DEF Total, S, f
  <2>3. CASE n \notin Pays(s)
    <3>1. Due(s, n) = Due(s, n - 1)
      BY <2>1, <2>3 DEF Due
    <3>2. Total(s, n - 1) \in Nat
      BY <1>4, <2>1
    <3>3. QED
      BY <2>3, <3>1, <3>2 DEF Total
  <2>4. QED
    BY <2>2, <2>3
<1>6. QED
  BY <1>3, <1>4, <1>5

(* What the contract has of a stream: nothing before it was created; then, *)
(* without a topup, its deposit less what was paid out, and never less     *)
(* than nothing.                                                           *)
Form(s, n) ==
  /\ ~Has(s, n, "created") => OnChain(s)[n] = Absent
  /\ Has(s, n, "created") /\ ~Has(s, n, "topup") =>
       OnChain(s)[n] = Final(s, n) /\ Total(s, n) <= Deposit

LEMMA LegalIs ==
  ASSUME LegalLog, NEW n \in Events, NEW s, log[n].stream = s
  PROVE  /\ ~Has(s, n - 1, "cancel")
         /\ log[n].type = "created" => \A t : ~Has(s, n - 1, t)
         /\ log[n].type \in {"withdraw", "cancel"} /\ OnChain(s)[n - 1] # Absent =>
              log[n].amount <= OnChain(s)[n - 1].balance
BY DEF LegalLog, Has

LEMMA ChainForm ==
  ASSUME TypeOK, LegalLog, NEW s \in StreamIds
  PROVE  \A n \in 0 .. NumEvents : Form(s, n)
<1> DEFINE Good == {n \in 0 .. NumEvents : Form(s, n)}
<1>1. /\ OnChain(s) \in [0 .. NumEvents -> ChainRow \cup {Absent}]
      /\ OnChain(s)[0] = Absent
      /\ \A n \in Events : OnChain(s)[n] = Applied(s, log[n], OnChain(s)[n - 1])
  BY ChainStep DEF TypeOK
<1>2. 0 \in Good
  <2>1. ~Has(s, 0, "created")
    BY DEF Has
  <2>2. QED
    BY <1>1, <2>1, ProjectionAssumption DEF Form
<1>3. ASSUME NEW n \in 1 .. NumEvents, Form(s, n - 1) PROVE Form(s, n)
  <2> DEFINE e == log[n]
             x == OnChain(s)[n - 1]
             y == OnChain(s)[n]
             T == Total(s, n - 1)
             a == log[n].amount
  <2>1. n \in Events /\ n - 1 \in 0 .. NumEvents /\ e \in EventKinds
    BY ProjectionAssumption DEF Events, TypeOK
  <2>2. /\ e.stream \in StreamIds /\ a \in Nat
        /\ e.type \in {"created", "withdraw", "cancel", "topup"}
        /\ e.type = "created" => a = Deposit
    BY <2>1, EventFields
  <2>3. y = Applied(s, e, x) /\ x \in ChainRow \cup {Absent}
    BY <1>1, <2>1
  <2>4. /\ T \in Nat
        /\ Total(s, n) = T + IF n \in Pays(s) THEN a ELSE 0
        /\ n \in Pays(s) <=> e.stream = s /\ e.type \in {"withdraw", "cancel"}
    BY <2>1, TotalMoves DEF Pays
  <2>5. \A t : Has(s, n, t) <=> Has(s, n - 1, t) \/ (e.stream = s /\ e.type = t)
    BY <2>1, HasMoves
  <2>6. e.stream = s => /\ ~Has(s, n - 1, "cancel")
                        /\ e.type = "created" => \A t : ~Has(s, n - 1, t)
                        /\ e.type \in {"withdraw", "cancel"} /\ x # Absent => a <= x.balance
    BY <2>1, LegalIs
  <2> HIDE DEF e, x, y, T, a
  <2>7. CASE e.stream # s
    <3>1. y = x /\ Total(s, n) = T
      BY <2>1, <2>3, <2>4, <2>7, AppliedIs
    <3>2. \A t : Has(s, n, t) <=> Has(s, n - 1, t)
      BY <2>5, <2>7
    <3>3. QED
      BY <1>3, <3>1, <3>2 DEF Form, Final, x, y, T
  <2>8. CASE e.stream = s /\ e.type = "created"
    <3>0. Applied(s, e, x) = Created
      BY <2>1, <2>3, <2>8, AppliedCreated
    <3>1. y = Created
      BY <2>3, <3>0
    <3>2. Total(s, n) = 0
      <4>1. \A d \in 1 .. n - 1 : log[d].stream # s
        BY <2>6, <2>8 DEF Has
      <4>2. Due(s, n) = {}
        <5>1. ASSUME NEW d \in Due(s, n) PROVE FALSE
          <6>1. d \in Events /\ d <= n /\ log[d].stream = s
                /\ log[d].type \in {"withdraw", "cancel"}
            BY DEF Due, Pays
          <6>2. d \in 1 .. n - 1 \/ d = n
            BY <2>1, <6>1 DEF Events
          <6>3. QED
            BY <2>8, <4>1, <6>1, <6>2 DEF e
        <5>2. QED
          BY <5>1
      <4>3. QED
        BY <4>2, SumEmpty DEF Total
    <3>3. Has(s, n, "created") /\ ~Has(s, n, "cancel")
      BY <2>5, <2>6, <2>8
    <3>4. Final(s, n) = Created
      BY <3>2, <3>3, ProjectionAssumption DEF Final, Created
    <3>5. QED
      BY <3>1, <3>2, <3>3, <3>4, ProjectionAssumption DEF Form, y
  <2>9. CASE e.stream = s /\ e.type # "created" /\ ~Has(s, n - 1, "created")
    <3>1. x = Absent
      BY <1>3, <2>9 DEF Form, x
    <3>2. y = Absent /\ ~Has(s, n, "created")
      BY <2>1, <2>3, <2>5, <2>9, <3>1, AppliedIs
    <3>3. QED
      BY <3>2 DEF Form, y
  <2>10. CASE e.stream = s /\ e.type = "topup" /\ Has(s, n - 1, "created")
    <3>1. Has(s, n, "created") /\ Has(s, n, "topup")
      BY <2>5, <2>10
    <3>2. QED
      BY <3>1 DEF Form
  <2>11. CASE /\ e.stream = s /\ e.type \in {"withdraw", "cancel"}
              /\ Has(s, n - 1, "created")
    <3> SUFFICES ASSUME ~Has(s, n, "topup")
                 PROVE  y = Final(s, n) /\ Total(s, n) <= Deposit
      BY <2>5, <2>11 DEF Form, y
    <3>1. ~Has(s, n - 1, "topup") /\ ~Has(s, n - 1, "cancel")
      BY <2>5, <2>6, <2>11
    <3>2. x = [status |-> "ACTIVE", balance |-> Deposit - T, withdrawn |-> T,
               rate |-> 1, lastRate |-> 0]
      BY <1>3, <2>11, <3>1 DEF Form, Final, x, T
    <3>3. x \in ChainRow /\ x # Absent
      <4>1. x \in ChainRow
        BY <2>4, <3>2, ProjectionAssumption DEF ChainRow
      <4>2. T <= Deposit
        BY <1>3, <2>11, <3>1 DEF Form, T
      <4>3. x \in StreamRow
        BY <2>4, <3>2, <4>2, ProjectionAssumption DEF StreamRow
      <4>4. QED
        BY <4>1, <4>3, ProjectionAssumption
    <3>4. a <= Deposit - T
      BY <2>6, <2>11, <3>2, <3>3
    <3>5. Total(s, n) = T + a /\ Total(s, n) <= Deposit
      BY <2>2, <2>4, <2>11, <3>4, ProjectionAssumption
    <3>6. CASE e.type = "withdraw"
      <4>1. y = [status |-> "ACTIVE", balance |-> Deposit - T - a, withdrawn |-> T + a,
                 rate |-> 1, lastRate |-> 0]
        <5>1. e.amount = a
          BY DEF e, a
        <5>2. QED
          BY <2>1, <2>3, <2>11, <3>2, <3>3, <3>6, <5>1, AppliedWithdraw
      <4>2. ~Has(s, n, "cancel")
        BY <2>5, <3>1, <3>6
      <4>3. Deposit - T - a = Deposit - (T + a)
        BY <2>2, <2>4, ProjectionAssumption
      <4>4. QED
        BY <3>5, <4>1, <4>2, <4>3 DEF Final
    <3>7. CASE e.type = "cancel"
      <4>1. y = [status |-> "CANCELLED", balance |-> 0, withdrawn |-> T + a,
                 rate |-> 0, lastRate |-> 1]
        <5>1. e.amount = a
          BY DEF e, a
        <5>2. QED
          BY <2>1, <2>3, <2>11, <3>2, <3>3, <3>7, <5>1, AppliedCancel
      <4>2. Has(s, n, "cancel")
        BY <2>5, <2>11, <3>7
      <4>3. QED
        BY <3>5, <4>1, <4>2 DEF Final
    <3>8. QED
      BY <2>11, <3>5, <3>6, <3>7
  <2>12. QED
    BY <2>2, <2>7, <2>8, <2>9, <2>10, <2>11
<1>4. \A n \in 1 .. NumEvents : n - 1 \in Good => n \in Good
  BY <1>3, ProjectionAssumption
<1> HIDE DEF Good
<1>5. 0 .. NumEvents \subseteq Good
  BY <1>2, <1>4, UpToInduction, ProjectionAssumption
<1>6. QED
  BY <1>5 DEF Good

----------------------------------------------------------------------------
(* A stream that got each event once is what the contract has.             *)

(* An event of stream s and of a type has a row in stream_events.          *)
Written(s, type) ==
  \E e \in Events : log[e].stream = s /\ log[e].type = type /\ streamEvents[e] > 0

(* What the row of a stream says of the events that were written: it is    *)
(* there when one was, and a created event first; it is cancelled when a   *)
(* cancel event was written, which happened once.                          *)
RowInv(s) ==
  /\ stream[s] # Absent => Written(s, "created")
  /\ \A e \in Events : log[e].stream = s /\ streamEvents[e] > 0 => stream[s] # Absent
  /\ Active(s) => stream[s].rate = 1 /\ stream[s].lastRate = 0
  /\ IsCancelled(s) => /\ Written(s, "cancel") /\ stream[s].balance = 0
                       /\ stream[s].rate = 0 /\ stream[s].lastRate = 1
  /\ \A e \in Events :
       log[e].stream = s /\ log[e].type = "cancel" /\ streamEvents[e] > 0 =>
         streamEvents[e] = 1 /\ IsCancelled(s)
RowsInv == LegalLog /\ \A s \in StreamIds : RowInv(s)

(* A handler that writes leaves the other streams and their events alone.  *)
LEMMA RowSame ==
  ASSUME NEW s \in StreamIds, UNCHANGED log, stream'[s] = stream[s],
         \A e \in Events : log[e].stream = s => streamEvents'[e] = streamEvents[e],
         RowInv(s)
  PROVE  RowInv(s)'
<1>1. \A type : Written(s, type) => Written(s, type)'
  BY DEF Written
<1>2. (Active(s)' <=> Active(s)) /\ (IsCancelled(s)' <=> IsCancelled(s))
  BY DEF Active, IsCancelled
<1>3. QED
  BY <1>1, <1>2 DEF RowInv

LEMMA RowWritten ==
  ASSUME TypeOK, RowsInv, UNCHANGED log, NEW h \in Events, NEW x \in StreamRow,
         Write(h, log[h].stream, x),
         \/ log[h].type = "created" /\ stream[log[h].stream] # Absent
              /\ x = stream[log[h].stream]
         \/ log[h].type = "created" /\ stream[log[h].stream] = Absent /\ x = Created
         \/ log[h].type = "withdraw" /\ Active(log[h].stream)
              /\ x = Withdrawn(stream[log[h].stream], log[h].amount)
         \/ log[h].type = "cancel" /\ Active(log[h].stream)
              /\ x = Cancelled(stream[log[h].stream], log[h].amount)
  PROVE  RowInv(log[h].stream)'
<1> DEFINE s == log[h].stream
<1>1. s \in StreamIds /\ log[h].amount \in Nat
  BY EventFields
<1>2. /\ stream'[s] = x /\ streamEvents'[h] = streamEvents[h] + 1
      /\ \A d \in Events \ {h} : streamEvents'[d] = streamEvents[d]
      /\ \A d \in Events : streamEvents[d] \in Nat
  BY <1>1, WriteType DEF TypeOK
<1>3. RowInv(s) /\ x # Absent /\ stream'[s] # Absent
  BY <1>1, <1>2, ProjectionAssumption DEF RowsInv
<1>4. streamEvents'[h] > 0 /\ \A d \in Events : streamEvents[d] > 0 => streamEvents'[d] > 0
  BY <1>2
<1>5. /\ \A type : Written(s, type) => Written(s, type)'
      /\ Written(s, log[h].type)'
  BY <1>4 DEF Written
<1>6. log[h].type # "cancel" =>
        \A e \in Events : log[e].type = "cancel" => streamEvents'[e] = streamEvents[e]
  BY <1>2
<1>7. CASE log[h].type = "created" /\ stream[s] # Absent /\ x = stream[s]
  <2>1. (Active(s)' <=> Active(s)) /\ (IsCancelled(s)' <=> IsCancelled(s))
    BY <1>2, <1>7 DEF Active, IsCancelled
  <2>2. QED
    BY <1>2, <1>3, <1>5, <1>6, <1>7, <2>1 DEF RowInv
<1>8. CASE log[h].type = "created" /\ stream[s] = Absent /\ x = Created
  <2>1. \A e \in Events : log[e].stream = s => streamEvents[e] = 0
    BY <1>2, <1>3, <1>8 DEF RowInv
  <2>2. stream'[s].status = "ACTIVE" /\ stream'[s].rate = 1 /\ stream'[s].lastRate = 0
    BY <1>2, <1>8 DEF Created
  <2>3. ~IsCancelled(s)'
    BY <2>2 DEF IsCancelled
  <2>4. QED
    BY <1>3, <1>5, <1>6, <1>8, <2>1, <2>2, <2>3 DEF RowInv
<1>9. CASE /\ log[h].type = "withdraw" /\ Active(s)
           /\ x = Withdrawn(stream[s], log[h].amount)
  <2>1. stream'[s].status = "ACTIVE" /\ stream'[s].rate = 1 /\ stream'[s].lastRate = 0
    <3>1. stream[s].status = "ACTIVE" /\ stream[s].rate = 1 /\ stream[s].lastRate = 0
      BY <1>3, <1>9 DEF RowInv, Active
    <3>2. QED
      BY <1>2, <1>9, <3>1 DEF Withdrawn
  <2>2. ~IsCancelled(s)' /\ ~IsCancelled(s)
    BY <1>9, <2>1 DEF IsCancelled, Active
  <2>3. Written(s, "created")
    BY <1>3, <1>9 DEF RowInv, Active
  <2>4. QED
    BY <1>3, <1>5, <1>6, <1>9, <2>1, <2>2, <2>3 DEF RowInv
<1>10. CASE /\ log[h].type = "cancel" /\ Active(s)
            /\ x = Cancelled(stream[s], log[h].amount)
  <2>1. /\ stream'[s].status = "CANCELLED" /\ stream'[s].balance = 0
        /\ stream'[s].rate = 0 /\ stream'[s].lastRate = 1
    BY <1>2, <1>3, <1>10 DEF Cancelled, RowInv, Active
  <2>2. IsCancelled(s)' /\ ~Active(s)' /\ ~IsCancelled(s)
    BY <1>3, <1>10, <2>1 DEF IsCancelled, Active
  <2>3. Written(s, "created")
    BY <1>3, <1>10 DEF RowInv, Active
  <2>4. \A e \in Events : log[e].stream = s /\ log[e].type = "cancel" => streamEvents[e] = 0
    BY <1>2, <1>3, <2>2 DEF RowInv
  <2>5. \A e \in Events : log[e].stream = s /\ log[e].type = "cancel"
                          /\ streamEvents'[e] > 0 => streamEvents'[e] = 1
    BY <1>2, <2>4
  <2>6. QED
    BY <1>3, <1>5, <1>10, <2>1, <2>2, <2>3, <2>5 DEF RowInv
<1>11. QED
  BY <1>7, <1>8, <1>9, <1>10

LEMMA RowsStep ==
  ASSUME TypeOK, TypeOK', ReplayInv, RowsInv, [Next]_vars
  PROVE  RowsInv'
<1>1. UNCHANGED log /\ LegalLog'
  BY WhoHandles, LegalLogStays DEF RowsInv
<1>2. CASE UNCHANGED <<stream, streamEvents>>
  BY <1>1, <1>2, RowSame DEF RowsInv
<1>3. ASSUME NEW h \in Events, Handles(h) PROVE RowsInv'
  <2> DEFINE s == log[h].stream
  <2>1. s \in StreamIds /\ log[h].amount \in Nat /\ stream[s] \in StreamRow \cup {Absent}
    BY EventFields DEF TypeOK
  <2>2. Outcome(h, s)
    BY <1>3, HandlerOutcome
  <2>3. CASE UNCHANGED <<stream, streamEvents>>
    BY <1>2, <2>3
  <2>4. ASSUME NEW x \in StreamRow, Write(h, s, x), RowInv(s)' PROVE RowsInv'
    <3>1. /\ \A t \in StreamIds \ {s} : stream'[t] = stream[t]
          /\ \A d \in Events \ {h} : streamEvents'[d] = streamEvents[d]
      BY <2>1, <2>4, WriteType
    <3>2. ASSUME NEW t \in StreamIds \ {s} PROVE RowInv(t)'
      BY <1>1, <3>1, RowSame DEF RowsInv
    <3>3. QED
      BY <1>1, <2>4, <3>2 DEF RowsInv
  <2>5. CASE log[h].type = "created" /\ stream[s] # Absent /\ Write(h, s, stream[s])
    BY <1>1, <2>1, <2>4, <2>5, RowWritten
  <2>6. CASE log[h].type = "created" /\ stream[s] = Absent /\ Write(h, s, Created)
    BY <1>1, <2>1, <2>4, <2>6, RowTypes, RowWritten
  <2>7. CASE /\ log[h].type = "withdraw" /\ Active(s)
             /\ Write(h, s, Withdrawn(stream[s], log[h].amount))
    <3>1. Withdrawn(stream[s], log[h].amount) \in StreamRow
      BY <2>1, <2>7, RowTypes DEF Active
    <3>2. QED
      BY <1>1, <2>4, <2>7, <3>1, RowWritten
  <2>8. CASE /\ log[h].type = "cancel" /\ Active(s)
             /\ Write(h, s, Cancelled(stream[s], log[h].amount))
    <3>1. Cancelled(stream[s], log[h].amount) \in StreamRow
      BY <2>1, <2>8, RowTypes DEF Active
    <3>2. QED
      BY <1>1, <2>4, <2>8, <3>1, RowWritten
  <2>9. QED
    BY <2>2, <2>3, <2>5, <2>6, <2>7, <2>8 DEF Outcome, Fails, tables
<1>4. QED
  BY <1>2, <1>3, WhoHandles

LEMMA RowsInit == Init => RowsInv
BY DEF Init, RowsInv, RowInv, Written, Active, IsCancelled

LEMMA RowsAlways == Spec => []RowsInv
<1>1. TypeOK /\ TypeOK' /\ ReplayInv /\ RowsInv /\ [Next]_vars => RowsInv'
  BY RowsStep
<1>2. QED
  BY <1>1, RowsInit, Typed, PTL DEF Spec

(* What was applied once, without a topup, does not exceed the deposit.    *)
Once(s) ==
  /\ \A e \in Pays(s) : streamEvents[e] <= 1
  /\ ~Has(s, reached, "topup")
WithinDeposit == \A s \in StreamIds : Known(s) /\ Once(s) => stream[s].withdrawn <= Deposit

LEMMA DueIs ==
  ASSUME TypeOK, NEW s
  PROVE  PaysOut(s) = Due(s, reached)
<1>1. reached \in 0 .. NumEvents /\ 1 .. reached \subseteq Events
  BY PositionIs
<1>2. \A e \in Events : e <= reached <=> e \in 1 .. reached
  BY <1>1, ProjectionAssumption DEF Events
<1>3. QED
  BY <1>1, <1>2 DEF PaysOut, OfStream, Due, Pays

LEMMA CreatedIsSeen ==
  ASSUME TypeOK, Ahead, NEW s, Written(s, "created")
  PROVE  Has(s, reached, "created")
<1>1. PICK e \in Events : /\ log[e].stream = s /\ log[e].type = "created"
                          /\ streamEvents[e] > 0
  BY DEF Written
<1>2. reached \in Nat /\ e \in Nat /\ e >= 1 /\ ~(e > reached)
  BY <1>1, PositionIs, ProjectionAssumption DEF Ahead, Events
<1>3. QED
  BY <1>1, <1>2 DEF Has

LEMMA StaysWithin ==
  ASSUME TypeOK, Ahead, Audited, RowsInv
  PROVE  WithinDeposit
<1> SUFFICES ASSUME NEW s \in StreamIds, Known(s), Once(s)
             PROVE  stream[s].withdrawn <= Deposit
  BY DEF WithinDeposit
<1>1. reached \in 0 .. NumEvents
  BY PositionIs
<1>2. Has(s, reached, "created") /\ ~Has(s, reached, "topup")
  BY CreatedIsSeen DEF RowsInv, RowInv, Known, Once
<1>3. Total(s, reached) <= Deposit /\ Total(s, reached) \in Nat
  BY <1>1, <1>2, ChainForm, TotalMoves DEF RowsInv, Form
<1>4. stream[s].withdrawn = Sum(PaidOut, PaysOut(s))
  BY AuditedPosition DEF Audited, Paid, Known
<1> DEFINE S == PaysOut(s)
           f == PaidOut
           g == AmountOf
<1>5. S \in SUBSET Pays(s) /\ S \in SUBSET Events
  BY DueIs, PaysFinite DEF Due
<1>6. IsFiniteSet(S)
  BY <1>5, PaysFinite, FS_Subset
<1>7. ASSUME NEW e \in S PROVE f[e] \in Int /\ g[e] \in Int /\ f[e] <= g[e]
  <2>1. e \in Events /\ streamEvents[e] \in Nat /\ streamEvents[e] <= 1
    BY <1>5 DEF Once, TypeOK
  <2>2. log[e].amount \in Nat /\ g[e] = log[e].amount
    BY <2>1, AmountType
  <2>3. f[e] = log[e].amount * streamEvents[e]
    BY <2>1, PaidOutType
  <2>4. \A a \in Nat : a * 0 = 0 /\ a * 1 = a
    OBVIOUS
  <2>5. streamEvents[e] = 0 \/ streamEvents[e] = 1
    BY <2>1
  <2>6. f[e] = 0 \/ f[e] = log[e].amount
    BY <2>2, <2>3, <2>4, <2>5
  <2> HIDE DEF f, g
  <2>7. QED
    BY <2>2, <2>6
<1> HIDE DEF S, f, g
<1>8. Sum(f, S) <= Sum(g, S)
  BY <1>6, <1>7, SumMono
<1>9. Sum(f, S) \in Int
  BY <1>6, <1>7, SumInt
<1>10. stream[s].withdrawn = Sum(f, S)
  BY <1>4 DEF f, S
<1>11. Sum(g, S) = Total(s, reached)
  BY DueIs DEF S, g, Total
<1>12. QED
  BY <1>3, <1>8, <1>9, <1>10, <1>11, ProjectionAssumption

LEMMA AlwaysWithin == Spec => []WithinDeposit
<1>1. TypeOK /\ RecordedInv /\ Audited /\ RowsInv => WithinDeposit
  BY StaysWithin DEF RecordedInv
<1>2. QED
  BY <1>1, Typed, Recorded, AuditedAlways, RowsAlways, PTL

(* What is left of the deposit is the balance: the clamp at zero is never  *)
(* reached by a stream whose withdraws were applied once.                  *)
Balanced ==
  \A s \in StreamIds : Active(s) /\ Once(s) =>
    stream[s].balance + stream[s].withdrawn = Deposit

LEMMA OnceBefore ==
  ASSUME TypeOK, TypeOK', ReplayInv, [Next]_vars, NEW s \in StreamIds, Once(s)'
  PROVE  Once(s)
<1>1. Kept /\ UNCHANGED log
  BY StepKeeps, WhoHandles
<1>2. \A e \in Pays(s) : streamEvents[e] <= 1
  <2>1. TAKE e \in Pays(s)
  <2>2. e \in Events /\ e \in Pays(s)'
    BY <1>1 DEF Pays
  <2>3. streamEvents'[e] <= 1 /\ streamEvents'[e] >= streamEvents[e]
    BY <1>1, <2>2 DEF Once, Kept
  <2>4. streamEvents[e] \in Nat /\ streamEvents'[e] \in Nat
    BY <2>2 DEF TypeOK
  <2>5. QED
    BY <2>3, <2>4
<1>3. 1 .. reached \subseteq 1 .. reached'
  <2>1. reached' = reached \/ reached' = reached + 1
    BY PositionMoves
  <2>2. reached \in Nat
    BY PositionIs, ProjectionAssumption
  <2>3. QED
    BY <2>1, <2>2
<1>4. ~Has(s, reached, "topup")
  BY <1>1, <1>3 DEF Once, Has
<1>5. QED
  BY <1>2, <1>4 DEF Once

LEMMA BalancedStep ==
  ASSUME TypeOK, TypeOK', ReplayInv, Balanced, WithinDeposit', [Next]_vars
  PROVE  Balanced'
<1> SUFFICES ASSUME NEW s \in StreamIds, Active(s)', Once(s)'
             PROVE  stream'[s].balance + stream'[s].withdrawn = Deposit
  BY DEF Balanced
<1>1. UNCHANGED log /\ Once(s)
  BY OnceBefore, WhoHandles
<1>2. CASE stream'[s] = stream[s]
  BY <1>1, <1>2 DEF Balanced, Active
<1>3. ASSUME NEW h \in Events, Handles(h), stream'[s] # stream[s]
      PROVE  stream'[s].balance + stream'[s].withdrawn = Deposit
  <2> DEFINE a == log[h].amount
  <2>1. log[h].stream \in StreamIds /\ a \in Nat
    BY EventFields
  <2>2. Outcome(h, log[h].stream)
    BY <1>3, HandlerOutcome
  <2>3. ASSUME NEW x, Write(h, log[h].stream, x)
        PROVE  log[h].stream = s /\ stream'[s] = x
    BY <1>3, <2>1, <2>3 DEF Write, TypeOK
  <2>4. CASE /\ log[h].type = "created" /\ stream[log[h].stream] = Absent
             /\ Write(h, log[h].stream, Created)
    BY <2>3, <2>4, ProjectionAssumption DEF Created
  <2>5. CASE /\ log[h].type = "withdraw" /\ Active(log[h].stream)
             /\ Write(h, log[h].stream, Withdrawn(stream[log[h].stream], a))
    <3>1. log[h].stream = s /\ stream'[s] = Withdrawn(stream[s], a) /\ Active(s)
      BY <2>3, <2>5
    <3>2. /\ stream[s] \in StreamRow
          /\ stream[s].balance \in Nat /\ stream[s].withdrawn \in Nat
      BY <3>1 DEF Active, TypeOK, StreamRow
    <3>3. stream[s].balance + stream[s].withdrawn = Deposit
      BY <1>1, <3>1 DEF Balanced
    <3>4. stream'[s].withdrawn <= Deposit
      BY DEF WithinDeposit, Known, Active
    <3>5. stream'[s].withdrawn = stream[s].withdrawn + a
      BY <3>1 DEF Withdrawn
    <3>6. stream[s].balance >= a
      BY <2>1, <3>2, <3>3, <3>4, <3>5, ProjectionAssumption
    <3>7. stream'[s].balance = stream[s].balance - a
      BY <3>1, <3>6 DEF Withdrawn
    <3>8. QED
      BY <2>1, <3>2, <3>3, <3>5, <3>7
  <2>6. CASE /\ log[h].type = "cancel"
             /\ Write(h, log[h].stream, Cancelled(stream[log[h].stream], a))
    <3>1. stream'[s] = Cancelled(stream[s], a)
      BY <2>3, <2>6
    <3>2. stream'[s].status = "CANCELLED"
      BY <3>1 DEF Cancelled
    <3>3. QED
      BY <3>2 DEF Active
  <2>7. CASE /\ log[h].type = "created" /\ stream[log[h].stream] # Absent
             /\ Write(h, log[h].stream, stream[log[h].stream])
    BY <1>3, <2>3, <2>7
  <2>8. CASE UNCHANGED <<stream, streamEvents>>
    BY <1>3, <2>8
  <2>9. QED
    BY <2>2, <2>4, <2>5, <2>6, <2>7, <2>8 DEF Outcome, Fails, tables
<1>4. QED
  BY <1>2, <1>3, WhoHandles

LEMMA BalancedAlways == Spec => []Balanced
<1>1. Init => Balanced
  BY DEF Init, Balanced, Active
<1>2. TypeOK /\ TypeOK' /\ ReplayInv /\ Balanced /\ WithinDeposit' /\ [Next]_vars
        => Balanced'
  BY BalancedStep
<1>3. QED
  BY <1>1, <1>2, AlwaysWithin, Typed, PTL DEF Spec

(* What one stream has when each of its withdraws was applied once.        *)
LEMMA MatchesOne ==
  ASSUME TypeOK, Ahead, Audited, RowsInv, Balanced,
         NEW s \in StreamIds, OfStream(s) # {},
         \A e \in OfStream(s) :
           \/ log[e].type = "withdraw" /\ streamEvents[e] = 1
           \/ log[e].type \in {"created", "cancel"} /\ streamEvents[e] > 0
  PROVE  stream[s] = OnChain(s)[reached]
<1>1. /\ reached \in 0 .. NumEvents /\ 1 .. reached \subseteq Events
      /\ \A e \in OfStream(s) : e \in Events /\ log[e].stream = s
                                /\ streamEvents[e] \in Nat
  BY PositionIs DEF OfStream, TypeOK
<1>2. RowInv(s) /\ stream[s] \in StreamRow \cup {Absent}
  BY DEF RowsInv, TypeOK
<1>3. Known(s) /\ stream[s] \in StreamRow
  <2>1. PICK e \in OfStream(s) : TRUE
    OBVIOUS
  <2>2. streamEvents[e] > 0
    BY <1>1, <2>1
  <2>3. QED
    BY <1>1, <1>2, <2>1, <2>2 DEF RowInv, Known
<1>4. Has(s, reached, "created") /\ ~Has(s, reached, "topup")
  <2>1. ASSUME Has(s, reached, "topup") PROVE FALSE
    BY <2>1 DEF Has, OfStream
  <2>2. QED
    BY <1>2, <1>3, <2>1, CreatedIsSeen DEF RowInv, Known
<1>5. OnChain(s)[reached] = Final(s, reached)
  BY <1>1, <1>4, ChainForm DEF RowsInv, Form
<1>6. \A e \in PaysOut(s) : streamEvents[e] = 1
  BY <1>1, <1>2 DEF PaysOut, RowInv
<1>7. Once(s)
  <2>1. ASSUME NEW e \in Pays(s) PROVE streamEvents[e] <= 1
    <3>1. e \in Events
      BY DEF Pays
    <3>2. CASE e > reached
      BY <3>1, <3>2 DEF Ahead
    <3>3. CASE ~(e > reached)
      <4>1. e \in PaysOut(s)
        BY <1>1, <3>1, <3>3, DueIs, ProjectionAssumption DEF Due, Events
      <4>2. QED
        BY <1>6, <4>1
    <3>4. QED
      BY <3>2, <3>3
  <2>2. QED
    BY <1>4, <2>1 DEF Once
<1>8. stream[s].withdrawn = Total(s, reached)
  <2>1. stream[s].withdrawn = Sum(PaidOut, PaysOut(s))
    BY <1>3, AuditedPosition DEF Audited, Paid, Known
  <2> DEFINE S == PaysOut(s)
             f == PaidOut
             g == AmountOf
  <2>2. S \in SUBSET Pays(s) /\ S \in SUBSET Events
    BY DueIs, PaysFinite DEF Due
  <2>3. IsFiniteSet(S)
    BY <2>2, PaysFinite, FS_Subset
  <2>4. ASSUME NEW e \in S PROVE f[e] \in Int /\ f[e] = g[e]
    <3>1. e \in Events /\ streamEvents[e] = 1
      BY <1>6, <2>2
    <3>2. log[e].amount \in Nat /\ g[e] = log[e].amount
      BY <3>1, AmountType
    <3>3. f[e] = log[e].amount * streamEvents[e]
      BY <3>1, PaidOutType
    <3>4. \A a \in Nat : a * 1 = a
      OBVIOUS
    <3> HIDE DEF f, g
    <3>5. QED
      BY <3>1, <3>2, <3>3, <3>4
  <2> HIDE DEF S, f, g
  <2>5. Sum(f, S) = Sum(g, S)
    BY <2>3, <2>4, SumSame
  <2>6. QED
    BY <2>1, <2>5, DueIs DEF S, f, g, Total
<1>9. stream[s] = [status |-> stream[s].status, balance |-> stream[s].balance,
                   withdrawn |-> stream[s].withdrawn, rate |-> stream[s].rate,
                   lastRate |-> stream[s].lastRate]
  BY <1>3 DEF StreamRow
<1>10. CASE Has(s, reached, "cancel")
  <2>1. PICK e \in 1 .. reached : log[e].stream = s /\ log[e].type = "cancel"
    BY <1>10 DEF Has
  <2>2. e \in Events /\ streamEvents[e] > 0
    BY <1>1, <2>1 DEF OfStream
  <2>3. IsCancelled(s)
    BY <1>2, <2>1, <2>2 DEF RowInv
  <2>4. /\ stream[s].status = "CANCELLED" /\ stream[s].balance = 0
        /\ stream[s].rate = 0 /\ stream[s].lastRate = 1
    BY <1>2, <2>3 DEF RowInv, IsCancelled
  <2>5. QED
    BY <1>5, <1>8, <1>9, <1>10, <2>4 DEF Final
<1>11. CASE ~Has(s, reached, "cancel")
  <2>1. ~IsCancelled(s)
    <3>1. ASSUME IsCancelled(s) PROVE FALSE
      <4>1. PICK e \in Events : /\ log[e].stream = s /\ log[e].type = "cancel"
                                /\ streamEvents[e] > 0
        BY <1>2, <3>1 DEF RowInv, Written
      <4>2. ~(e > reached)
        BY <4>1 DEF Ahead
      <4>3. e \in 1 .. reached
        BY <1>1, <4>1, <4>2, ProjectionAssumption DEF Events
      <4>4. QED
        BY <1>11, <4>1, <4>3 DEF Has
    <3>2. QED
      BY <3>1
  <2>2. stream[s].status = "ACTIVE"
    BY <1>3, <2>1 DEF StreamRow, IsCancelled, Known
  <2>3. Active(s)
    BY <1>3, <2>2 DEF Active, Known
  <2>4. stream[s].rate = 1 /\ stream[s].lastRate = 0
    BY <1>2, <2>3 DEF RowInv
  <2>5. stream[s].balance = Deposit - Total(s, reached)
    <3>1. stream[s].balance + stream[s].withdrawn = Deposit
      BY <1>7, <2>3 DEF Balanced
    <3>2. stream[s].balance \in Nat /\ stream[s].withdrawn \in Nat
      BY <1>3 DEF StreamRow
    <3>3. QED
      BY <1>8, <3>1, <3>2, ProjectionAssumption
  <2>6. QED
    BY <1>5, <1>8, <1>9, <1>11, <2>2, <2>4, <2>5 DEF Final
<1>12. QED
  BY <1>10, <1>11

(* A stream whose withdraws were applied once each, and its other events   *)
(* at least once, is what the contract has: delivering created and cancel  *)
(* again changes nothing, and the clamp at zero hides nothing.             *)
THEOREM ChainIsMatched == Spec => []MatchesChain
<1>1. TypeOK /\ RecordedInv /\ Audited /\ RowsInv /\ Balanced => MatchesChain
  BY MatchesOne DEF MatchesChain, RecordedInv
<1>2. QED
  BY <1>1, Typed, Recorded, AuditedAlways, RowsAlways, BalancedAlways, PTL
----------------------------------------------------------------------------
(* The projection implements the ledger.                                   *)

AccountOf(x) == [state |-> IF x.status = "CANCELLED" THEN "closed" ELSE "open",
                 paid |-> x.withdrawn]

(* The account of a stream, and of an event's stream.                      *)
LEMMA AccountIs ==
  ASSUME NEW s \in StreamIds
  PROVE  Accounts[s] = IF stream[s] = Absent THEN [state |-> "none", paid |-> 0]
                       ELSE AccountOf(stream[s])
BY DEF Accounts, AccountOf

(* A write of a handler is booked on one account.                          *)
LEMMA BookedIs ==
  ASSUME TypeOK, NEW e \in Events, NEW s \in StreamIds, NEW x \in StreamRow,
         Write(e, s, x)
  PROVE  /\ Accounts' = [Accounts EXCEPT ![s] = AccountOf(x)]
         /\ streamEvents' = [streamEvents EXCEPT ![e] = @ + 1]
         /\ UNCHANGED Unresolved
<1>1. stream'[s] = x /\ x # Absent /\ \A t \in StreamIds \ {s} : stream'[t] = stream[t]
  BY WriteType, ProjectionAssumption
<1>2. \A t \in StreamIds :
        Accounts'[t] = IF t = s THEN AccountOf(x) ELSE Accounts[t]
  BY <1>1 DEF Accounts, AccountOf
<1>3. Accounts' = [t \in StreamIds |-> Accounts'[t]]
  BY DEF Accounts
<1>4. Accounts = [t \in StreamIds |-> Accounts[t]]
  BY DEF Accounts
<1>5. Accounts' = [Accounts EXCEPT ![s] = AccountOf(x)]
  BY <1>2, <1>3, <1>4
<1>6. QED
  BY <1>5 DEF Write, Unresolved

(* A settled event leaves nothing to book.                                 *)
LEMMA NothingIs ==
  ASSUME TypeOK, NEW e \in Events, Settled(e)
  PROVE  Ledger!Nothing(e)
<1>1. log[e].stream \in StreamIds
  BY EventFields
<1>2. CASE streamEvents[e] > 0
  BY <1>2 DEF Ledger!Nothing
<1>3. CASE Ignored(e, log[e].stream)
  <2>1. Ledger!Of(e) = Accounts[log[e].stream]
    BY DEF Ledger!Of
  <2>2. CASE log[e].type = "topup"
    BY <2>2 DEF Ledger!Nothing
  <2>3. CASE log[e].type # "topup"
    <3>1. /\ log[e].type # "created" /\ stream[log[e].stream] # Absent
          /\ stream[log[e].stream].status = "CANCELLED"
      BY <1>3, <2>3 DEF Ignored
    <3>2. Accounts[log[e].stream].state = "closed"
      <4>1. Accounts[log[e].stream] = AccountOf(stream[log[e].stream])
        BY <1>1, <3>1, AccountIs
      <4>2. AccountOf(stream[log[e].stream]).state = "closed"
        BY <3>1 DEF AccountOf
      <4>3. QED
        BY <4>1, <4>2
    <3>3. QED
      BY <2>1, <3>1, <3>2 DEF Ledger!Nothing
  <2>4. QED
    BY <2>2, <2>3
<1>4. QED
  BY <1>2, <1>3 DEF Settled

(* Handling an event in its turn books it, adds it to those that failed,   *)
(* or finds nothing to book.                                               *)
LEMMA HandlingBooks ==
  ASSUME TypeOK, NEW e \in Events, Handles(e), UNCHANGED <<log, saved>>,
         Ahead, Ledger!Begin(e),
         Ledger!Turn(e) \/ (e \in Unresolved /\ UNCHANGED reached)
  PROVE  [Ledger!LedgerNext]_(Ledger!ledgerVars)
<1> DEFINE s == log[e].stream
           a == log[e].amount
           Goal == [Ledger!LedgerNext]_(Ledger!ledgerVars)
<1>1. s \in StreamIds /\ a \in Nat /\ Ledger!Of(e) = Accounts[s] /\ e \in Ledger!Numbers
  BY EventFields DEF Ledger!Of, Ledger!Numbers, Events
<1>2. stream[s] # Absent => stream[s] \in StreamRow /\ Accounts[s] = AccountOf(stream[s])
  BY <1>1, AccountIs DEF TypeOK
<1>3. Active(s) => /\ stream[s] \in StreamRow /\ stream[s].status = "ACTIVE"
                   /\ Accounts[s].state = "open" /\ Accounts[s].paid = stream[s].withdrawn
                   /\ Withdrawn(stream[s], a) \in StreamRow
                   /\ Cancelled(stream[s], a) \in StreamRow
  <2>1. SUFFICES ASSUME Active(s)
                 PROVE  /\ Accounts[s].state = "open"
                        /\ Accounts[s].paid = stream[s].withdrawn
    BY <1>1, <1>2, RowTypes DEF Active
  <2>2. stream[s].status = "ACTIVE" /\ Accounts[s] = AccountOf(stream[s])
    BY <1>2, <2>1 DEF Active
  <2>3. AccountOf(stream[s]).state = "open" /\ AccountOf(stream[s]).paid = stream[s].withdrawn
    BY <2>2 DEF AccountOf
  <2>4. QED
    BY <2>2, <2>3
<1>4. ASSUME NEW x \in StreamRow, Write(e, s, x)
      PROVE  Ledger!Book(e, AccountOf(x).state, AccountOf(x).paid)
  <2>1. [state |-> AccountOf(x).state, paid |-> AccountOf(x).paid] = AccountOf(x)
    BY DEF AccountOf
  <2>2. QED
    BY <1>1, <1>4, <2>1, BookedIs DEF Ledger!Book
<1>5. CASE Ignored(e, s) /\ UNCHANGED tables
  <2>1. UNCHANGED <<stream, streamEvents, deadLetter>>
    BY <1>5 DEF tables
  <2>2. UNCHANGED <<Accounts, Unresolved>>
    BY <2>1 DEF Accounts, Unresolved
  <2>3. CASE UNCHANGED reached
    BY <2>1, <2>2, <2>3 DEF Ledger!ledgerVars
  <2>4. CASE Ledger!Turn(e)
    <3>1. Ledger!Nothing(e)
      BY <1>5, NothingIs DEF Settled
    <3>2. Ledger!Ignore(e)
      BY <2>1, <2>2, <2>4, <3>1 DEF Ledger!Ignore
    <3>3. QED
      BY <1>1, <3>2 DEF Ledger!LedgerNext
  <2>5. QED
    BY <2>3, <2>4
<1>6. CASE Fails(e)
  <2>1. UNCHANGED <<stream, streamEvents>> /\ UNCHANGED Accounts
    BY <1>6 DEF Fails, Accounts
  <2>2. Unresolved' = Unresolved \/ Unresolved' = Unresolved \cup {e}
    <3>1. \A d \in Events \ {e} : deadLetter'[d] = deadLetter[d]
      BY <1>6, DeadLetterType DEF Fails
    <3>2. e \in Unresolved => e \in Unresolved'
      BY <1>6, DeadLetterType, ProjectionAssumption DEF Fails, Unresolved
    <3>3. QED
      BY <3>1, <3>2 DEF Unresolved
  <2>3. CASE Unresolved' = Unresolved \cup {e}
    <3>1. Ledger!Fail(e)
      BY <2>1, <2>3 DEF Ledger!Fail
    <3>2. QED
      BY <1>1, <3>1 DEF Ledger!LedgerNext
  <2>4. CASE Unresolved' = Unresolved /\ e \notin Unresolved
    <3>1. deadLetter[e] # Absent
      <4>1. ASSUME deadLetter[e] = Absent PROVE FALSE
        <5>1. deadLetter'[e] = [attempts |-> 1, resolved |-> FALSE] /\ deadLetter'[e] # Absent
          BY <1>6, <4>1, DeadLetterType, ProjectionAssumption DEF Fails
        <5>2. e \in Unresolved'
          BY <5>1 DEF Unresolved
        <5>3. QED
          BY <2>4, <5>2
      <4>2. QED
        BY <4>1
    <3>2. ~(e > reached)
      BY <3>1 DEF Ahead
    <3>3. UNCHANGED reached
      BY <3>2 DEF Ledger!Begin
    <3>4. QED
      BY <2>1, <2>4, <3>3 DEF Ledger!ledgerVars
  <2>5. QED
    BY <2>2, <2>3, <2>4
<1>7. ASSUME log[e].type = "created", stream[s] # Absent, Write(e, s, stream[s])
      PROVE  Goal
  <2>1. Ledger!Book(e, Accounts[s].state, Accounts[s].paid) /\ Accounts[s].state # "none"
    BY <1>2, <1>4, <1>7 DEF AccountOf
  <2>2. Ledger!Open(e)
    BY <1>1, <1>7, <2>1 DEF Ledger!Open
  <2>3. QED
    BY <1>1, <2>2 DEF Ledger!LedgerNext
<1>8. ASSUME log[e].type = "created", stream[s] = Absent, Write(e, s, Created)
      PROVE  Goal
  <2>1. AccountOf(Created).state = "open" /\ AccountOf(Created).paid = 0
    BY DEF AccountOf, Created
  <2>2. Ledger!Book(e, "open", 0)
    BY <1>4, <1>8, <2>1, RowTypes
  <2>3. Accounts[s].state = "none"
    BY <1>1, <1>8, AccountIs
  <2>4. Ledger!Open(e)
    BY <1>1, <1>8, <2>2, <2>3 DEF Ledger!Open
  <2>5. QED
    BY <1>1, <2>4 DEF Ledger!LedgerNext
<1>9. ASSUME log[e].type = "withdraw", Active(s), Write(e, s, Withdrawn(stream[s], a))
      PROVE  Goal
  <2>1. /\ AccountOf(Withdrawn(stream[s], a)).state = "open"
        /\ AccountOf(Withdrawn(stream[s], a)).paid = Accounts[s].paid + a
    BY <1>3, <1>9 DEF AccountOf, Withdrawn
  <2>2. Ledger!Book(e, "open", Accounts[s].paid + a)
    BY <1>3, <1>4, <1>9, <2>1
  <2>3. Ledger!PayOut(e)
    BY <1>1, <1>3, <1>9, <2>2 DEF Ledger!PayOut
  <2>4. QED
    BY <1>1, <2>3 DEF Ledger!LedgerNext
<1>10. ASSUME log[e].type = "cancel", Active(s), Write(e, s, Cancelled(stream[s], a))
       PROVE  Goal
  <2>1. /\ AccountOf(Cancelled(stream[s], a)).state = "closed"
        /\ AccountOf(Cancelled(stream[s], a)).paid = Accounts[s].paid + a
    BY <1>3, <1>10 DEF AccountOf, Cancelled
  <2>2. Ledger!Book(e, "closed", Accounts[s].paid + a)
    BY <1>3, <1>4, <1>10, <2>1
  <2>3. Ledger!PayOut(e)
    BY <1>1, <1>3, <1>10, <2>2 DEF Ledger!PayOut
  <2>4. QED
    BY <1>1, <2>3 DEF Ledger!LedgerNext
<1>11. Outcome(e, s)
  BY HandlerOutcome
<1>12. QED
  BY <1>5, <1>6, <1>7, <1>8, <1>9, <1>10, <1>11 DEF Outcome

(* What the script and the pruning do to the list.                         *)
LEMMA ListMoves ==
  ASSUME TypeOK, TypeOK', ReplayInv, RecordedInv, [Next]_vars, ~Deliver, ~ReplayDispatch
  PROVE  \/ UNCHANGED Unresolved
         \/ \E e \in Events : Settled(e) /\ Unresolved' = Unresolved \ {e} /\ e \in Unresolved
<1> DEFINE e == Min(replay.rows)
<1>1. \A d \in Events : d \notin Unresolved => d \notin Unresolved'
  BY DeadLetterStep
<1>2. \A d \in Events : d \in Unresolved => d \in Unresolved' \/ (ReplayResolve /\ d = e)
  BY DeadLetterStep
<1>3. Unresolved \subseteq Events /\ Unresolved' \subseteq Events
  BY DEF Unresolved
<1>4. CASE \A d \in Unresolved : d \in Unresolved'
  BY <1>1, <1>3, <1>4
<1>5. CASE \E d \in Unresolved : d \notin Unresolved'
  <2>1. ReplayResolve /\ e \in Unresolved /\ e \notin Unresolved'
    BY <1>2, <1>3, <1>5
  <2>2. Settled(e)
    BY <2>1 DEF RecordedInv, ReplayResolve
  <2>3. Unresolved' = Unresolved \ {e} /\ e \in Events
    BY <1>1, <1>2, <1>3, <2>1
  <2>4. QED
    BY <2>1, <2>2, <2>3
<1>6. QED
  BY <1>4, <1>5

(* Every step of the handlers, the script and the pruning is a step of the *)
(* ledger or invisible.                                                    *)
LEMMA LedgerStep ==
  ASSUME TypeOK, TypeOK', ReplayInv, RecordedInv, [Next]_vars
  PROVE  [Ledger!LedgerNext]_(Ledger!ledgerVars)
<1>1. CASE Deliver
  <2>1. cursor + 1 \in Events /\ Handles(cursor + 1) /\ UNCHANGED <<log, saved>>
    BY <1>1, DeliverHandles DEF Deliver
  <2>2. Ledger!Turn(cursor + 1)
    BY <1>1, ProjectionAssumption DEF TypeOK, Ledger!Turn
  <2>3. Ledger!Begin(cursor + 1)
    BY <1>1 DEF Deliver, TypeOK, Ledger!Begin
  <2>4. QED
    BY <2>1, <2>2, <2>3, HandlingBooks DEF RecordedInv
<1>2. CASE ReplayDispatch
  <2>1. PICK e \in Events : /\ ReplayNext(e) /\ Handles(e)
                            /\ UNCHANGED <<log, saved, reached>>
    BY <1>2 DEF ReplayDispatch, Handles, indexer
  <2>2. e \in Unresolved
    BY <2>1, NextRow
  <2>3. ~(e > reached)
    BY <2>2 DEF RecordedInv, Ahead, Unresolved
  <2>4. Ledger!Begin(e)
    BY <2>1, <2>3 DEF Ledger!Begin
  <2>5. QED
    BY <2>1, <2>2, <2>4, HandlingBooks DEF RecordedInv
<1>3. ASSUME ~Deliver, ~ReplayDispatch PROVE [Ledger!LedgerNext]_(Ledger!ledgerVars)
  <2>1. UNCHANGED <<log, stream, streamEvents>>
    BY <1>3, WhoHandles
  <2>2. UNCHANGED Accounts
    BY <2>1 DEF Accounts
  <2>3. CASE Save
    <3>1. UNCHANGED <<Unresolved, reached>> /\ saved' = cursor /\ saved # cursor
      BY <2>3 DEF Save, Unresolved, tables
    <3>2. /\ cursor \in saved + 1 .. reached /\ cursor \in Ledger!Numbers
          /\ \A e \in saved + 1 .. cursor : e \in 1 .. reached /\ e \in Events
      BY <3>1, ProjectionAssumption DEF TypeOK, Ledger!Numbers, Events
    <3>3. \A e \in saved + 1 .. cursor : Ledger!Nothing(e) \/ e \in Unresolved
      BY <3>2, NothingIs DEF RecordedInv, Remembered
    <3>4. Ledger!Pass(cursor)
      BY <2>1, <2>2, <3>1, <3>2, <3>3 DEF Ledger!Pass
    <3>5. QED
      BY <3>2, <3>4 DEF Ledger!LedgerNext
  <2>4. CASE ~Save
    <3>1. UNCHANGED <<saved, reached>>
      BY <1>3, <2>4 DEF Next, Crash, Deploy, ReplayList, ReplayThrows, ReplayRead,
                        ReplayResolve, ReplayQueryFails, ReplayCatch, ReplayCrash,
                        PruneOldLogs, indexer, vars
    <3>2. CASE UNCHANGED Unresolved
      BY <2>1, <2>2, <3>1, <3>2 DEF Ledger!ledgerVars
    <3>3. ASSUME NEW e \in Events, Settled(e), Unresolved' = Unresolved \ {e},
                 e \in Unresolved
          PROVE  [Ledger!LedgerNext]_(Ledger!ledgerVars)
      <4>1. Ledger!Resolve(e)
        BY <2>1, <2>2, <3>1, <3>3, NothingIs DEF Ledger!Resolve
      <4>2. QED
        BY <4>1 DEF Ledger!LedgerNext, Ledger!Numbers, Events
    <3>4. QED
      BY <1>3, <3>2, <3>3, ListMoves
  <2>5. QED
    BY <2>3, <2>4
<1>4. QED
  BY <1>1, <1>2, <1>3

(* Whatever throws, crashes, is delivered twice, replayed or pruned, the   *)
(* tables go only through what the ledger allows: no attempts counter, no  *)
(* list of the script and no half-done event is needed to explain them.    *)
THEOREM Implementation == Spec => ImplementsLedger
<1>1. Init => Ledger!LedgerInit
  <2>1. SUFFICES ASSUME Init PROVE Ledger!LedgerInit
    OBVIOUS
  <2>2. Accounts = [s \in StreamIds |-> [state |-> "none", paid |-> 0]]
    BY <2>1 DEF Init, Accounts
  <2>3. Unresolved = {}
    BY <2>1 DEF Init, Unresolved
  <2>4. QED
    BY <2>1, <2>2, <2>3 DEF Init, Ledger!LedgerInit, Ledger!Numbers, Events
<1>2. TypeOK /\ TypeOK' /\ ReplayInv /\ RecordedInv /\ [Next]_vars
        => [Ledger!LedgerNext]_(Ledger!ledgerVars)
  BY LedgerStep
<1>3. QED
  BY <1>1, <1>2, Typed, Recorded, PTL DEF Spec, ImplementsLedger, Ledger!LedgerSpec
=============================================================================
