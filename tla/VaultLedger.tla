---------------------------- MODULE VaultLedger ----------------------------
(***************************************************************************)
(* What the projection of the donation vault promises, whatever throws,    *)
(* crashes or is replayed: the events are begun and passed in their order; *)
(* an event is booked, on the stream and in the audit log at once, when it *)
(* is its turn, again before it is passed, or while it is known to have    *)
(* failed; and it is passed, or taken off the list of those that failed,   *)
(* only when there is nothing left to book.  A closed account is never     *)
(* booked on again.                                                        *)
(***************************************************************************)
EXTENDS Integers

CONSTANTS StreamIds, NumEvents
Numbers == 1 .. NumEvents

VARIABLES
  events,   \* what is to be booked
  account,  \* what became of each stream, and what it has paid out
  entries,  \* how often an event was booked
  failed,   \* the events that failed and are not settled yet
  begun,    \* the last event whose turn has come
  passed    \* how many events need not come again
ledgerVars == <<events, account, entries, failed, begun, passed>>

LedgerInit ==
  /\ account = [s \in StreamIds |-> [state |-> "none", paid |-> 0]]
  /\ entries = [e \in Numbers |-> 0]
  /\ failed = {} /\ begun = 0 /\ passed = 0

Of(e) == account[events[e].stream]

(* Nothing is left to book: a topup never is.                              *)
Nothing(e) == \/ entries[e] > 0
              \/ events[e].type = "topup"
              \/ events[e].type # "created" /\ Of(e).state = "closed"

(* Its turn: the next event, or one that may come again.                   *)
Turn(e) == e \in passed + 1 .. begun + 1
Begin(e) == begun' = IF e > begun THEN e ELSE begun

Book(e, state, paid) ==
  /\ Turn(e) \/ e \in failed
  /\ Begin(e)
  /\ account' = [account EXCEPT ![events[e].stream] = [state |-> state, paid |-> paid]]
  /\ entries' = [entries EXCEPT ![e] = @ + 1]
  /\ UNCHANGED <<events, failed, passed>>

Open(e) ==
  /\ events[e].type = "created"
  /\ \/ Of(e).state = "none" /\ Book(e, "open", 0)
     \/ Of(e).state # "none" /\ Book(e, Of(e).state, Of(e).paid)

PayOut(e) ==
  /\ Of(e).state = "open"
  /\ \/ events[e].type = "withdraw" /\ Book(e, "open", Of(e).paid + events[e].amount)
     \/ events[e].type = "cancel" /\ Book(e, "closed", Of(e).paid + events[e].amount)

Ignore(e) ==
  /\ Turn(e) /\ Nothing(e)
  /\ Begin(e)
  /\ UNCHANGED <<events, account, entries, failed, passed>>

Fail(e) ==
  /\ Turn(e) \/ e \in failed
  /\ Begin(e)
  /\ failed' = failed \cup {e}
  /\ UNCHANGED <<events, account, entries, passed>>

Resolve(e) ==
  /\ e \in failed /\ Nothing(e)
  /\ failed' = failed \ {e}
  /\ UNCHANGED <<events, account, entries, begun, passed>>

Pass(n) ==
  /\ n \in passed + 1 .. begun
  /\ \A e \in passed + 1 .. n : Nothing(e) \/ e \in failed
  /\ passed' = n
  /\ UNCHANGED <<events, account, entries, failed, begun>>

LedgerNext ==
  \E e \in Numbers :
    Open(e) \/ PayOut(e) \/ Ignore(e) \/ Fail(e) \/ Resolve(e) \/ Pass(e)

LedgerSpec == LedgerInit /\ [][LedgerNext]_ledgerVars
=============================================================================
