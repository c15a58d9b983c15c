--------------------------- MODULE Notifications ---------------------------
(***************************************************************************)
(* The notification service: src/notifications/service.ts, with the table  *)
(* notification_logs and its pruning (maintenance/logRetention.ts).        *)
(*                                                                         *)
(* Handlers call dispatchNotification after their commit and do not wait;  *)
(* an event that is delivered or replayed again is notified again, by the  *)
(* same process or by another one.  A call runs through its awaits, each   *)
(* of its destinations on its own.  The e-mail stub is left out: its row   *)
(* has no event id and nothing reads it.                                   *)
(***************************************************************************)
EXTENDS Naturals, Sequences, SequencesExt, FiniteSets

CONSTANTS
  Processes,   \* processes that run the handlers, each with its own memory
  Calls,       \* calls of notify that may run at once
  Events,      \* what is notified
  NoId,        \* those without an event id: the events of applications
  Endpoints,   \* rows of notification_endpoints
  Subscribed,  \* the endpoints that list the type of an event
  Url,         \* the destination of NOTIFY_WEBHOOK_URL
  Idle,        \* no call
  Cap,         \* MAX_DELIVERED_EVENT_IDS
  Builds,      \* whether deliveryId is declared; {FALSE} is the source
  MaxCalls,    \* bound: calls over all
  MaxFaults,   \* bound: faults over all
  MaxChanges   \* bound: changes of an endpoint, prunings

Channels == Endpoints \cup {Url}

(* A running call: its await, and that of each of its destinations.        *)
Phases == {"none", "check", "post", "logSuccess", "logFailure", "yes", "no", "threw"}
Call == [event : Events, process : Processes, at : {"load", "deliver", "noop"},
         target : [Channels -> Phases]]

ASSUME NotificationAssumption ==
  /\ Idle \notin Call /\ Url \notin Endpoints
  /\ IsFiniteSet(Calls) /\ Builds \subseteq BOOLEAN
  /\ Cap \in Nat /\ MaxCalls \in Nat /\ MaxFaults \in Nat /\ MaxChanges \in Nat

VARIABLES
  declared,   \* the build: a member of Builds
  configured, \* the processes started with NOTIFY_WEBHOOK_URL
  enabled,    \* the endpoints that are enabled
  log,        \* notification_logs, by event id and channel
  delivered,  \* deliveredEventIds of a process, oldest first
  call,       \* the calls
  accepted,   \* history: how often a destination took an event with an id
  lapses,     \* history: what kept such a success from the log, or unseen
  started, faults, changes  \* what is bounded

config == <<declared, configured, enabled>>
history == <<accepted, lapses>>
bounds == <<started, faults, changes>>
vars == <<config, log, delivered, call, history, bounds>>

Init ==
  /\ declared \in Builds
  /\ configured \in SUBSET Processes
  /\ enabled \in SUBSET Endpoints
  /\ log = [e \in Events \ NoId |-> [ch \in Channels |-> "none"]]
  /\ delivered = [p \in Processes |-> <<>>]
  /\ call = [c \in Calls |-> Idle]
  /\ accepted = [e \in Events \ NoId |-> [ch \in Channels |-> 0]]
  /\ lapses = [e \in Events \ NoId |-> [ch \in Channels |-> 0]]
  /\ started = 0 /\ faults = 0 /\ changes = 0

Fault == faults < MaxFaults /\ faults' = faults + 1
NoFault == UNCHANGED faults
Change == changes < MaxChanges /\ changes' = changes + 1

----------------------------------------------------------------------------
(* The memory of a process.                                                *)

(* Mistaken: one id too many stays.                                        *)
RememberDeliveredOver(ids, e) ==
  LET all == IF Contains(ids, e) THEN ids ELSE Append(ids, e)
  IN  IF Len(all) > Cap + 1 THEN Tail(all) ELSE all

(* rememberDelivered: an id keeps its place, the oldest goes.              *)
RememberDelivered(ids, e) ==
  LET all == IF Contains(ids, e) THEN ids ELSE Append(ids, e)
  IN  IF Len(all) > Cap THEN Tail(all) ELSE all

Remember(p, e) ==
  delivered' = [delivered EXCEPT ![p] = RememberDelivered(@, e)]

----------------------------------------------------------------------------
(* notify: a call c, from its start to its end.                            *)

Running(c, at) == call[c] # Idle /\ call[c].at = at
Ends(c) == call' = [call EXCEPT ![c] = Idle]
Goes(c, at) == call' = [call EXCEPT ![c].at = at]

(* A destination of c goes from one await to the next.                     *)
Moves(c, ch, at) == call' = [call EXCEPT ![c].target[ch] = at]
Lapse(e, ch) == lapses' = IF e \in NoId THEN lapses
                            ELSE [lapses EXCEPT ![e][ch] = @ + 1]
Taken(e, ch) == accepted' = IF e \in NoId THEN accepted
                              ELSE [accepted EXCEPT ![e][ch] = @ + 1]

(* Calls of one event that run at once cannot see each other's result.     *)
Overlap(e) == e \notin NoId /\ \E d \in Calls : call[d] # Idle /\ call[d].event = e

Start(c) ==
  /\ call[c] = Idle /\ started < MaxCalls
  /\ \E p \in Processes, e \in Events :
       /\ e \in NoId \/ ~Contains(delivered[p], e)
       /\ call' = [call EXCEPT ![c] = [event |-> e, process |-> p, at |-> "load",
                     target |-> [ch \in Channels |-> "none"]]]
       /\ lapses' = IF Overlap(e)
                      THEN [lapses EXCEPT ![e] = [ch \in Channels |-> @[ch] + 1]]
                      ELSE lapses
  /\ started' = started + 1
  /\ UNCHANGED <<config, log, delivered, accepted, faults, changes>>

(* The endpoints that list the type, or the URL when no row is enabled.    *)
Targets(c) ==
  IF enabled = {} /\ call[c].process \in configured THEN {Url}
  ELSE {x \in enabled : x \in Subscribed[call[c].event]}

(* An event without a destination counts as delivered; that is recorded    *)
(* only when nothing is configured at all.                                 *)
LoadNothing(c) ==
  /\ Running(c, "load") /\ Targets(c) = {}
  /\ IF call[c].event \in NoId
       THEN Ends(c) /\ UNCHANGED delivered
       ELSE /\ Remember(call[c].process, call[c].event)
            /\ IF enabled = {} THEN Goes(c, "noop") ELSE Ends(c)
  /\ UNCHANGED <<config, log, history, bounds>>

LoadTargets(c) ==
  /\ Running(c, "load") /\ Targets(c) # {}
  /\ call' = [call EXCEPT ![c].at = "deliver",
                ![c].target = [ch \in Channels |->
                   IF ch \in Targets(c) THEN "check" ELSE "none"]]
  /\ UNCHANGED <<config, log, delivered, history, bounds>>

(* findMany fails: the call ends, and the event is not remembered.         *)
LoadFails(c) ==
  /\ Running(c, "load")
  /\ Fault
  /\ Ends(c)
  /\ UNCHANGED <<config, log, delivered, history, started, changes>>

(* The record of an event without destinations; one that is there stays.   *)
Noop(c) ==
  /\ Running(c, "noop")
  /\ Ends(c)
  /\ \/ NoFault /\ log' = [log EXCEPT ![call[c].event][Url] =
                             IF @ = "none" THEN "success" ELSE @]
     \/ Fault /\ UNCHANGED log
  /\ UNCHANGED <<config, delivered, history, started, changes>>

----------------------------------------------------------------------------
(* notifyWebhookTarget: a destination ch of the call c.                    *)

AtTarget(c, ch, at) == Running(c, "deliver") /\ call[c].target[ch] = at
Recorded(e, ch) == e \notin NoId /\ log[e][ch] = "success"
Prepare == IF declared THEN "post" ELSE "threw"

(* Mistaken: only the memory of the process is looked at.                  *)
CheckNothing(c, ch) ==
  /\ AtTarget(c, ch, "check")
  /\ Moves(c, ch, Prepare)
  /\ NoFault
  /\ UNCHANGED <<config, log, delivered, history, started, changes>>

(* A success on record is not sent again; when the query fails nothing is  *)
(* sent either.  Then the request is put together, which reads deliveryId. *)
Check(c, ch) ==
  /\ AtTarget(c, ch, "check")
  /\ LET e == call[c].event
     IN  \/ ~Recorded(e, ch) /\ Moves(c, ch, Prepare) /\ NoFault
         \/ Recorded(e, ch) /\ Moves(c, ch, "yes") /\ NoFault
         \/ e \notin NoId /\ Moves(c, ch, "no") /\ Fault
  /\ UNCHANGED <<config, log, delivered, history, started, changes>>

(* Mistaken: whatever is answered counts as a success.                     *)
PostAnyStatus(c, ch) ==
  /\ AtTarget(c, ch, "post")
  /\ \/ /\ NoFault /\ Moves(c, ch, "logSuccess")
        /\ Taken(call[c].event, ch)
     \/ Fault /\ Moves(c, ch, "logSuccess") /\ UNCHANGED accepted
  /\ UNCHANGED <<config, log, delivered, lapses, started, changes>>

(* The destination takes the event; or its answer comes too late; or it    *)
(* refuses, or cannot be reached.                                          *)
Post(c, ch) ==
  /\ AtTarget(c, ch, "post")
  /\ LET e == call[c].event
     IN  \/ NoFault /\ Taken(e, ch) /\ Moves(c, ch, "logSuccess") /\ UNCHANGED lapses
         \/ Fault /\ Taken(e, ch) /\ Moves(c, ch, "logFailure") /\ Lapse(e, ch)
         \/ Fault /\ UNCHANGED history /\ Moves(c, ch, "logFailure")
  /\ UNCHANGED <<config, log, delivered, started, changes>>

(* The row of the event and the channel, made or overwritten.  Rows of     *)
(* events without an id are never read.  A failed write is only logged.    *)
LogDelivery(c, ch) ==
  \E success \in BOOLEAN :
    /\ AtTarget(c, ch, IF success THEN "logSuccess" ELSE "logFailure")
    /\ Moves(c, ch, IF success THEN "yes" ELSE "no")
    /\ LET e == call[c].event
       IN  \/ /\ NoFault /\ UNCHANGED lapses
              /\ log' = IF e \in NoId THEN log ELSE
                   [log EXCEPT ![e][ch] = IF success THEN "success" ELSE "failure"]
           \/ /\ Fault /\ UNCHANGED log
              /\ IF success THEN Lapse(e, ch) ELSE UNCHANGED lapses
    /\ UNCHANGED <<config, delivered, accepted, started, changes>>

----------------------------------------------------------------------------
(* The end of notifyWebhook and notify.                                    *)

Answers(c) == {call[c].target[ch] : ch \in Channels} \ {"none"}

(* Mistaken: one destination that took the event is enough.                *)
JoinSome(c) ==
  /\ Running(c, "deliver") /\ Answers(c) \subseteq {"yes", "no"}
  /\ Ends(c)
  /\ IF "yes" \in Answers(c) /\ call[c].event \notin NoId
       THEN Remember(call[c].process, call[c].event) ELSE UNCHANGED delivered
  /\ UNCHANGED <<config, log, history, bounds>>

(* All destinations have settled; the event is remembered when each of     *)
(* them has taken it.                                                      *)
Join(c) ==
  /\ Running(c, "deliver") /\ Answers(c) \subseteq {"yes", "no"}
  /\ Ends(c)
  /\ IF Answers(c) = {"yes"} /\ call[c].event \notin NoId
       THEN Remember(call[c].process, call[c].event) ELSE UNCHANGED delivered
  /\ UNCHANGED <<config, log, history, bounds>>

(* A destination threw: the call rejects at once and dispatchNotification  *)
(* logs it.  The other destinations would throw in their turn.             *)
Reject(c) ==
  /\ Running(c, "deliver") /\ "threw" \in Answers(c)
  /\ Ends(c)
  /\ UNCHANGED <<config, log, delivered, history, bounds>>

CallStep(c) ==
  \/ LoadNothing(c) \/ LoadTargets(c) \/ LoadFails(c) \/ Noop(c)
  \/ \E ch \in Channels : Check(c, ch) \/ Post(c, ch) \/ LogDelivery(c, ch)
  \/ Join(c) \/ Reject(c)

----------------------------------------------------------------------------
(* What happens around the calls.                                          *)

(* An operator enables or disables an endpoint.                            *)
SetEndpoint ==
  /\ Change
  /\ \E x \in Endpoints :
       enabled' = IF x \in enabled THEN enabled \ {x} ELSE enabled \cup {x}
  /\ UNCHANGED <<declared, configured, log, delivered, call, history,
                 started, faults>>

(* pruneOldLogs: rows go by their age alone, successes too.                *)
PruneLog ==
  /\ Change
  /\ \E e \in Events \ NoId, ch \in Channels :
       /\ log[e][ch] # "none"
       /\ log' = [log EXCEPT ![e][ch] = "none"]
       /\ IF log[e][ch] = "success" THEN Lapse(e, ch) ELSE UNCHANGED lapses
  /\ UNCHANGED <<config, delivered, call, accepted, started, faults>>

(* The process dies with its calls and its memory, and is started again.   *)
Restart(p) ==
  /\ Fault
  /\ delivered' = [delivered EXCEPT ![p] = <<>>]
  /\ LET mine == {c \in Calls : call[c] # Idle /\ call[c].process = p}
         lost(e, ch) == \E c \in mine : call[c].event = e
                                        /\ call[c].target[ch] = "logSuccess"
     IN  /\ call' = [c \in Calls |-> IF c \in mine THEN Idle ELSE call[c]]
         /\ lapses' = [e \in Events \ NoId |-> [ch \in Channels |->
              IF lost(e, ch) THEN lapses[e][ch] + 1 ELSE lapses[e][ch]]]
  /\ UNCHANGED <<config, log, accepted, started, changes>>

Next == \/ \E c \in Calls : Start(c) \/ CallStep(c)
        \/ SetEndpoint \/ PruneLog
        \/ \E p \in Processes : Restart(p)

Spec == Init /\ [][Next]_vars

----------------------------------------------------------------------------
(* Properties *)

(* Every variable has its type, and the memory of a process keeps to its   *)
(* cap (MAX_DELIVERED_EVENT_IDS) without holding an id twice.              *)
TypeOK ==
  /\ declared \in BOOLEAN
  /\ configured \in SUBSET Processes
  /\ enabled \in SUBSET Endpoints
  /\ log \in [Events \ NoId -> [Channels -> {"none", "success", "failure"}]]
  /\ delivered \in [Processes -> Seq(Events \ NoId)]
  /\ \A p \in Processes : /\ Len(delivered[p]) <= Cap
                          /\ IsInjective(delivered[p])
  /\ call \in [Calls -> Call \cup {Idle}]
  /\ accepted \in [Events \ NoId -> [Channels -> Nat]]
  /\ lapses \in [Events \ NoId -> [Channels -> Nat]]
  /\ started \in 0 .. MaxCalls
  /\ faults \in 0 .. MaxFaults
  /\ changes \in 0 .. MaxChanges

(* docs/NOTIFICATIONS.md: on retry, a destination that already recorded    *)
(* success is skipped.  So a destination gets an event with an id once,    *)
(* and once more for each lapse at most: an answer that came too late, a   *)
(* row that was not written or is pruned, a crash before it is written,    *)
(* two calls of the event at once.  Restarts, evictions from the memory    *)
(* and changes of the endpoints cost nothing.                              *)
DuplicatesHaveCause ==
  \A e \in Events \ NoId, ch \in Channels : accepted[e][ch] <= 1 + lapses[e][ch]

(* A success on record is one: the endpoint has taken the event.  (For the *)
(* channel of the URL it may also say that nothing was configured.)        *)
RecordedSuccessIsReal ==
  \A e \in Events \ NoId, ch \in Endpoints :
    log[e][ch] = "success" => accepted[e][ch] > 0

(* service.ts:220: "Mark delivered only after successful delivery".  An    *)
(* event a process begins to remember was taken by every endpoint the call *)
(* was made for, whatever the rows say that other calls wrote.             *)
RememberedWasAccepted ==
  [][\A p \in Processes, e \in Events :
       Contains(delivered'[p], e) /\ ~Contains(delivered[p], e) =>
         \E c \in Calls :
           /\ call[c] # Idle /\ call[c].event = e /\ call[c].process = p
           /\ \A ch \in Endpoints : call[c].target[ch] # "none" => accepted[e][ch] > 0]_vars
=============================================================================
