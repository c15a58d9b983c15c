---------------------------- MODULE Verification ----------------------------
(***************************************************************************)
(* The verified flag of the ngos table and everything that writes it:      *)
(* src/indexer/handlers/ngoRegistry.ts, ensureNgo of donationVault.ts, the *)
(* replay of dead-lettered registry events, and the script                 *)
(* src/scripts/reconcileVerification.ts --fix, which runs beside the       *)
(* indexer and reads the contract itself.                                  *)
(*                                                                         *)
(* Each handler is one transaction, so one step.  The script reads the     *)
(* table once, then each NGO's flag on the chain, then writes: three steps *)
(* that anything may come between.                                         *)
(***************************************************************************)
EXTENDS Integers, Sequences, FiniteSetsExt

CONSTANTS
  Owners,       \* owner addresses
  Absent,       \* no such row
  Concurrency,  \* RPC_CONCURRENCY
  MaxEvents     \* bound: events the contract emits

Status == {"none", "registered", "verified"}
Types == {"register", "approved", "revoked"}
Event == [type : Types, owner : Owners]

(* A row of the ngos table, and what the script does about an owner.       *)
NgoRow == [verified : BOOLEAN, named : BOOLEAN]
Job == [at : {"none", "done", "failed"}] \cup [at : {"listed"}, seen : BOOLEAN]
  \cup [at : {"mismatch"}, verified : BOOLEAN, as : 0 .. MaxEvents]

ASSUME VerificationAssumption == MaxEvents \in Nat /\ Absent \notin NgoRow

VARIABLES
  before,       \* each owner's status on the chain before the log begins
  log,          \* the events of the registry contract
  saved,        \* how many of them the checkpoint has passed
  handled,      \* the next one was handled, the checkpoint is not saved
  ngo,          \* the ngos table
  streamEvents, \* the events that have a StreamEvent row
  deadLetters,  \* the events with an unresolved dead letter
  job,          \* what the script does about each owner
  \* History, read by no action's guard:
  stale,        \* the owners whose flag is known to have missed an event
  fixed,        \* the owners whose flag the script has written
  quiet         \* nothing else has happened since the script listed the NGOs

chain == <<before, log>>
script == <<job, fixed>>
vars == <<before, log, saved, handled, ngo, streamEvents, deadLetters, job,
          stale, fixed, quiet>>

Idle == [o \in Owners |-> [at |-> "none"]]

Init ==
  /\ before \in [Owners -> Status]
  /\ log = <<>>
  /\ saved = 0 /\ handled = FALSE
  /\ ngo = [o \in Owners |-> Absent]
  /\ streamEvents = {} /\ deadLetters = {}
  /\ job = Idle
  /\ stale = {} /\ fixed = {} /\ quiet = FALSE

----------------------------------------------------------------------------
(* The registry contract (external): an owner registers once, is approved  *)
(* and revoked in turn.                                                    *)
OnChain(o) ==
  LET mine == {i \in 1 .. Len(log) : log[i].owner = o}
  IN  IF mine = {} THEN before[o]
      ELSE IF log[Max(mine)].type = "approved" THEN "verified" ELSE "registered"

Emit(o, type) ==
  /\ Len(log) < MaxEvents
  /\ \/ OnChain(o) = "none" /\ type = "register"
     \/ OnChain(o) = "registered" /\ type = "approved"
     \/ OnChain(o) = "verified" /\ type = "revoked"
  /\ log' = Append(log, [type |-> type, owner |-> o])
  /\ quiet' = FALSE
  /\ UNCHANGED <<before, saved, handled, ngo, streamEvents, deadLetters, script,
                 stale>>

----------------------------------------------------------------------------
(* The handlers.                                                           *)

(* The last event whose handling is over.                                  *)
Position == IF handled THEN saved + 1 ELSE saved

(* What was known at position n is older than an approval or a revocation  *)
(* that the indexer has passed, whether it applied it or missed it.        *)
Overtaken(o, n) ==
  \E i \in n + 1 .. Position : log[i].owner = o /\ log[i].type # "register"

(* History: the flag of o now says what the chain did at position n.       *)
Said(o, n) == stale' = IF Overtaken(o, n) THEN stale \cup {o} ELSE stale \ {o}

Row(verified, name) == [verified |-> verified, named |-> name]

(* Mistaken: the flag is reset with the name.                              *)
RegisterResets(o, i) ==
  ngo' = [ngo EXCEPT ![o] = Row(FALSE, TRUE)] /\ UNCHANGED stale

(* upsert: an existing row gets the name and keeps its flag.               *)
Register(o, i) ==
  IF ngo[o] = Absent
    THEN ngo' = [ngo EXCEPT ![o] = Row(FALSE, TRUE)] /\ Said(o, i)
    ELSE ngo' = [ngo EXCEPT ![o].named = TRUE] /\ UNCHANGED stale

(* updateMany: no row, no effect.  A flag that was not set is missed.      *)
SetVerified(o, i, verified) ==
  IF ngo[o] = Absent
    THEN UNCHANGED <<ngo, stale>>
    ELSE ngo' = [ngo EXCEPT ![o].verified = verified] /\ Said(o, i)

(* Mistaken: the audit row is written on its own, and may be lost.         *)
HandleNgoRegistryEventTwice(i) ==
  LET o == log[i].owner
  IN  /\ \/ log[i].type = "register" /\ Register(o, i)
         \/ log[i].type = "approved" /\ SetVerified(o, i, TRUE)
         \/ log[i].type = "revoked" /\ SetVerified(o, i, FALSE)
      /\ streamEvents' \in {streamEvents, streamEvents \cup {i}}

HandleNgoRegistryEvent(i) ==
  LET o == log[i].owner
  IN  /\ \/ log[i].type = "register" /\ Register(o, i)
         \/ log[i].type = "approved" /\ SetVerified(o, i, TRUE)
         \/ log[i].type = "revoked" /\ SetVerified(o, i, FALSE)
      /\ streamEvents' = streamEvents \cup {i}

(* The next event, for the first time or again after a crash.              *)
Deliver ==
  /\ saved < Len(log)
  /\ HandleNgoRegistryEvent(saved + 1)
  /\ handled' = TRUE /\ quiet' = FALSE
  /\ UNCHANGED <<chain, saved, deadLetters, script>>

Missed(i) == stale' = stale \cup {log[i].owner}

(* The next event cannot be decoded.                                       *)
RecordDeadLetter ==
  /\ saved < Len(log)
  /\ deadLetters' = deadLetters \cup {saved + 1}
  /\ Missed(saved + 1)
  /\ handled' = TRUE /\ quiet' = FALSE
  /\ UNCHANGED <<chain, saved, ngo, streamEvents, script>>

(* Mistaken: the checkpoint moves on whether an event was handled or not.  *)
SaveUnhandled ==
  /\ saved' = saved + 1 /\ handled' = FALSE
  /\ UNCHANGED <<chain, ngo, streamEvents, deadLetters, script, stale, quiet>>

Save ==
  /\ handled
  /\ saved' = saved + 1 /\ handled' = FALSE
  /\ UNCHANGED <<chain, ngo, streamEvents, deadLetters, script, stale, quiet>>

(* The checkpoint has aged out of the RPC's window: the event is skipped.  *)
SkipForward ==
  /\ saved < Len(log) /\ ~handled
  /\ saved' = saved + 1
  /\ Missed(saved + 1)
  /\ quiet' = FALSE
  /\ UNCHANGED <<chain, handled, ngo, streamEvents, deadLetters, script>>

(* The replay script dispatches a dead letter that decodes by now, and     *)
(* resolves it, unless it is stopped in between.                           *)
ReplayDeadLetter ==
  \E i \in deadLetters :
    /\ HandleNgoRegistryEvent(i)
    /\ deadLetters' \in {deadLetters, deadLetters \ {i}}
    /\ quiet' = FALSE
    /\ UNCHANGED <<chain, saved, handled, script>>

(* ensureNgo: a created event of the donation vault names an owner that    *)
(* has no row yet.  It says nothing of the registry.                       *)
EnsureNgo(o) ==
  /\ ngo[o] = Absent
  /\ ngo' = [ngo EXCEPT ![o] = Row(FALSE, FALSE)]
  /\ stale' = stale \cup {o}
  /\ quiet' = FALSE
  /\ UNCHANGED <<chain, saved, handled, streamEvents, deadLetters, script>>

----------------------------------------------------------------------------
(* reconcileVerification --fix                                             *)

List ==
  /\ job = Idle
  /\ \E o \in Owners : ngo[o] # Absent
  /\ job' = [o \in Owners |-> IF ngo[o] = Absent THEN [at |-> "none"]
               ELSE [at |-> "listed", seen |-> ngo[o].verified]]
  /\ quiet' = TRUE
  /\ UNCHANGED <<chain, saved, handled, ngo, streamEvents, deadLetters, stale,
                 fixed>>

At(where) == {o \in Owners : job[o].at = where}

(* A worker that failed takes no other NGO; the others go on.              *)
WorkerFree == Cardinality(At("mismatch") \cup At("failed")) < Concurrency

Report(o) == [at |-> "mismatch", verified |-> OnChain(o) = "verified",
              as |-> Len(log)]

(* Mistaken: an NGO that lost its approval is not looked for.              *)
ReadOnChainApproved(o) ==
  /\ job[o].at = "listed" /\ WorkerFree
  /\ job' = [job EXCEPT ![o] =
       IF OnChain(o) = "verified" /\ ~@.seen THEN Report(o) ELSE [at |-> "done"]]
  /\ UNCHANGED <<chain, saved, handled, ngo, streamEvents, deadLetters, stale,
                 fixed, quiet>>

ReadOnChain(o) ==
  /\ job[o].at = "listed" /\ WorkerFree
  /\ job' = [job EXCEPT ![o] =
       IF OnChain(o) = "none" \/ (OnChain(o) = "verified") = @.seen
         THEN [at |-> "done"] ELSE Report(o)]
  /\ UNCHANGED <<chain, saved, handled, ngo, streamEvents, deadLetters, stale,
                 fixed, quiet>>

(* The simulation, or the update, throws.                                  *)
WorkerFails(o) ==
  /\ \/ job[o].at = "listed" /\ WorkerFree
     \/ job[o].at = "mismatch"
  /\ job' = [job EXCEPT ![o] = [at |-> "failed"]]
  /\ UNCHANGED <<chain, saved, handled, ngo, streamEvents, deadLetters, stale,
                 fixed, quiet>>

Fix(o) ==
  /\ job[o].at = "mismatch"
  /\ ngo' = [ngo EXCEPT ![o].verified = job[o].verified]
  /\ Said(o, job[o].as)
  /\ fixed' = fixed \cup {o}
  /\ job' = [job EXCEPT ![o] = [at |-> "done"]]
  /\ UNCHANGED <<chain, saved, handled, streamEvents, deadLetters, quiet>>

(* The script has ended, or it was killed.                                 *)
ScriptEnds ==
  /\ job # Idle
  /\ job' = Idle
  /\ UNCHANGED <<chain, saved, handled, ngo, streamEvents, deadLetters, stale,
                 fixed, quiet>>

Next ==
  \/ \E o \in Owners : \E type \in Types : Emit(o, type)
  \/ Deliver \/ RecordDeadLetter \/ Save \/ SkipForward \/ ReplayDeadLetter
  \/ \E o \in Owners : EnsureNgo(o) \/ ReadOnChain(o) \/ WorkerFails(o) \/ Fix(o)
  \/ List \/ ScriptEnds

Spec == Init /\ [][Next]_vars

----------------------------------------------------------------------------
(* Properties *)

TypeOK ==
  /\ before \in [Owners -> Status]
  /\ log \in Seq(Event) /\ Len(log) <= MaxEvents
  /\ saved \in 0 .. Len(log)
  /\ handled \in BOOLEAN /\ (handled => saved < Len(log))
  /\ ngo \in [Owners -> NgoRow \cup {Absent}]
  /\ streamEvents \subseteq 1 .. Len(log)
  /\ deadLetters \subseteq 1 .. Len(log)
  /\ job \in [Owners -> Job]
  /\ stale \subseteq Owners /\ fixed \subseteq Owners
  /\ quiet \in BOOLEAN

(* prisma/schema.prisma:85-90: Ngo.verified comes from an approved event.  *)
(* A verified NGO has an approved row in the audit log, or the script has  *)
(* written its flag.                                                       *)
VerifiedIsAudited ==
  \A o \in Owners :
    ngo[o] # Absent /\ ngo[o].verified =>
      \/ o \in fixed
      \/ \E i \in streamEvents : log[i] = [type |-> "approved", owner |-> o]

(* README.md: the ledger is the single source of truth for the verified    *)
(* status.  Once the indexer has caught up, a flag that missed no event    *)
(* and that no late replay or late fix has turned back is the contract's,  *)
(* whatever was delivered twice and however the script ran beside it.      *)
CaughtUpAgrees ==
  \A o \in Owners :
    saved = Len(log) /\ ngo[o] # Absent /\ o \notin stale
      => (ngo[o].verified <=> OnChain(o) = "verified")

(* docs/INDEXER.md, "Verification reconciliation": a run of the script     *)
(* that nothing came between and that did not fail repairs every flag of   *)
(* an NGO that is registered, whatever events were missed.                 *)
QuietFixAgrees ==
  \A o \in Owners :
    quiet /\ job[o].at = "done" /\ OnChain(o) # "none"
      => (ngo[o].verified <=> OnChain(o) = "verified")
=============================================================================
