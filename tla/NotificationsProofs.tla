------------------------- MODULE NotificationsProofs -------------------------
(***************************************************************************)
(* Theorems about the notification service, for any number of processes,   *)
(* calls, events and endpoints.                                            *)
(***************************************************************************)
EXTENDS Notifications, FiniteSetTheorems, SequenceTheorems, TLAPS

Ids == Events \ NoId

----------------------------------------------------------------------------
(* The memory of a process.                                                *)

(* What RememberDelivered returns: no more than the cap, no id twice, and  *)
(* nothing new but the id it was called with.                              *)
LEMMA RememberProperties ==
  ASSUME NEW S, NEW ids \in Seq(S), NEW e \in S,
         Len(ids) <= Cap, IsInjective(ids)
  PROVE  /\ RememberDelivered(ids, e) \in Seq(S)
         /\ Len(RememberDelivered(ids, e)) <= Cap
         /\ IsInjective(RememberDelivered(ids, e))
         /\ \A d : Contains(RememberDelivered(ids, e), d) => Contains(ids, d) \/ d = e
<1> DEFINE all == IF Contains(ids, e) THEN ids ELSE Append(ids, e)
<1>0. Len(ids) \in Nat /\ Cap \in Nat
  BY NotificationAssumption
<1>1. /\ all \in Seq(S) /\ Len(all) <= Cap + 1 /\ Len(all) \in Nat
      /\ IsInjective(all)
      /\ \A d : Contains(all, d) => Contains(ids, d) \/ d = e
  <2>1. CASE Contains(ids, e)
    BY <1>0, <2>1
  <2>2. CASE ~Contains(ids, e)
    <3>1. all = Append(ids, e) /\ all \in Seq(S) /\ Len(all) = Len(ids) + 1
      BY <2>2
    <3>2. \A i \in 1 .. Len(all) : all[i] = IF i <= Len(ids) THEN ids[i] ELSE e
      BY <1>0, <3>1
    <3>3. \A i \in 1 .. Len(ids) : ids[i] # e
      BY <2>2 DEF Contains
    <3>4. DOMAIN all = 1 .. Len(all) /\ DOMAIN ids = 1 .. Len(ids)
      BY <3>1
    <3>5. IsInjective(all)
      <4> SUFFICES ASSUME NEW i \in 1 .. Len(all), NEW j \in 1 .. Len(all),
                          all[i] = all[j]
                   PROVE  i = j
        BY <3>4 DEF IsInjective
      <4>1. CASE i <= Len(ids) /\ j <= Len(ids)
        <5>1. ids[i] = ids[j]
          BY <3>2, <4>1
        <5>2. i \in DOMAIN ids /\ j \in DOMAIN ids
          <6>1. i \in Nat /\ j \in Nat /\ 1 <= i /\ 1 <= j
            BY <1>0, <3>1
          <6>2. i \in 1 .. Len(ids) /\ j \in 1 .. Len(ids)
            BY <1>0, <4>1, <6>1
          <6>3. QED
            BY <3>4, <6>2
        <5>3. QED
          BY <5>1, <5>2 DEF IsInjective
      <4>2. CASE ~(i <= Len(ids) /\ j <= Len(ids))
        BY <1>0, <3>1, <3>2, <3>3, <4>2
      <4>3. QED
        BY <4>1, <4>2
    <3>6. \A d : Contains(all, d) => Contains(ids, d) \/ d = e
      BY <1>0, <3>1, <3>2 DEF Contains
    <3>7. QED
      BY <1>0, <3>1, <3>5, <3>6
  <2>3. QED
    BY <2>1, <2>2
<1> HIDE DEF all
<1>2. CASE Len(all) > Cap
  <2>1. RememberDelivered(ids, e) = Tail(all)
    BY <1>2 DEF RememberDelivered, all
  <2>2. all # << >>
    BY <1>0, <1>2
  <2>3. /\ Tail(all) \in Seq(S) /\ Len(Tail(all)) = Len(all) - 1
        /\ \A i \in 1 .. Len(Tail(all)) : Tail(all)[i] = all[i + 1] /\ i + 1 \in 1 .. Len(all)
    BY <1>1, <2>2
  <2>4. DOMAIN all = 1 .. Len(all) /\ DOMAIN Tail(all) = 1 .. Len(Tail(all))
    BY <1>1, <2>3
  <2>5. IsInjective(Tail(all))
    BY <1>1, <2>3, <2>4 DEF IsInjective
  <2>6. \A d : Contains(Tail(all), d) => Contains(all, d)
    BY <2>3 DEF Contains
  <2>7. QED
    BY <1>0, <1>1, <2>1, <2>3, <2>5, <2>6
<1>3. CASE ~(Len(all) > Cap)
  <2>1. RememberDelivered(ids, e) = all
    BY <1>3 DEF RememberDelivered, all
  <2>2. QED
    BY <1>0, <1>1, <1>3, <2>1
<1>4. QED
  BY <1>2, <1>3

----------------------------------------------------------------------------
(* The calls.                                                              *)

(* A destination of a running call that goes on leaves the rest of it.     *)
LEMMA CallMove ==
  ASSUME NEW q \in Call, NEW ch \in Channels, NEW at \in Phases
  PROVE  /\ [q EXCEPT !.target[ch] = at] \in Call
         /\ [q EXCEPT !.target[ch] = at].event = q.event
         /\ [q EXCEPT !.target[ch] = at].process = q.process
         /\ [q EXCEPT !.target[ch] = at].at = q.at
         /\ [q EXCEPT !.target[ch] = at].target = [q.target EXCEPT ![ch] = at]
BY DEF Call

LEMMA Moved ==
  ASSUME TypeOK, NEW c \in Calls, call[c] # Idle, NEW ch \in Channels,
         NEW at \in Phases, Moves(c, ch, at)
  PROVE  /\ call' \in [Calls -> Call \cup {Idle}]
         /\ \A d \in Calls \ {c} : call'[d] = call[d]
         /\ call[c] \in Call /\ call'[c] \in Call /\ call'[c] # Idle
         /\ call'[c].event = call[c].event
         /\ call'[c].process = call[c].process
         /\ call'[c].at = call[c].at
         /\ call'[c].target[ch] = at
         /\ \A h \in Channels \ {ch} : call'[c].target[h] = call[c].target[h]
<1>1. call[c] \in Call /\ call[c].target \in [Channels -> Phases]
  BY DEF TypeOK, Call
<1>2. call' = [call EXCEPT ![c] = [call[c] EXCEPT !.target[ch] = at]]
  BY DEF Moves, TypeOK
<1>3. [call[c] EXCEPT !.target[ch] = at] \in Call
  BY <1>1, CallMove
<1>4. call'[c] = [call[c] EXCEPT !.target[ch] = at] /\ call' \in [Calls -> Call \cup {Idle}]
  BY <1>2, <1>3 DEF TypeOK
<1>5. \A d \in Calls \ {c} : call'[d] = call[d]
  BY <1>2 DEF TypeOK
<1>6. call'[c] # Idle
  BY <1>3, <1>4, NotificationAssumption
<1>7. /\ call'[c].event = call[c].event /\ call'[c].process = call[c].process
      /\ call'[c].at = call[c].at
      /\ call'[c].target = [call[c].target EXCEPT ![ch] = at]
  BY <1>1, <1>4, CallMove
<1>8. QED
  BY <1>1, <1>3, <1>4, <1>5, <1>6, <1>7

(* A call that ends leaves the others.                                     *)
LEMMA Ended ==
  ASSUME TypeOK, NEW c \in Calls, Ends(c)
  PROVE  /\ call' \in [Calls -> Call \cup {Idle}]
         /\ call'[c] = Idle
         /\ \A d \in Calls \ {c} : call'[d] = call[d]
BY DEF TypeOK, Ends

(* A call that has no destinations goes on to record that.                 *)
LEMMA Gone ==
  ASSUME TypeOK, NEW c \in Calls, call[c] # Idle, Goes(c, "noop")
  PROVE  /\ call' \in [Calls -> Call \cup {Idle}]
         /\ call'[c] \in Call /\ call'[c] # Idle
         /\ call'[c].event = call[c].event /\ call'[c].at = "noop"
         /\ call'[c].target = call[c].target
         /\ \A d \in Calls \ {c} : call'[d] = call[d]
<1>1. call[c] \in Call
  BY DEF TypeOK
<1>2. [call[c] EXCEPT !.at = "noop"] \in Call
  BY <1>1 DEF Call
<1>3. call'[c] = [call[c] EXCEPT !.at = "noop"] /\ call' \in [Calls -> Call \cup {Idle}]
  BY <1>2 DEF Goes, TypeOK
<1>4. \A d \in Calls \ {c} : call'[d] = call[d]
  BY DEF Goes, TypeOK
<1>5. QED
  BY <1>1, <1>2, <1>3, <1>4, NotificationAssumption DEF Call

(* A call that has its destinations goes on with them.                     *)
LEMMA Loaded ==
  ASSUME TypeOK, NEW c \in Calls, LoadTargets(c)
  PROVE  /\ call' \in [Calls -> Call \cup {Idle}]
         /\ call'[c] \in Call /\ call'[c] # Idle
         /\ call'[c].event = call[c].event /\ call'[c].at = "deliver"
         /\ \A ch \in Channels : call'[c].target[ch] \in {"check", "none"}
         /\ \A d \in Calls \ {c} : call'[d] = call[d]
<1>1. call[c] \in Call
  BY DEF TypeOK, LoadTargets, Running
<1> DEFINE to == [ch \in Channels |-> IF ch \in Targets(c) THEN "check" ELSE "none"]
<1>2. to \in [Channels -> Phases] /\ \A ch \in Channels : to[ch] \in {"check", "none"}
  BY DEF Phases
<1>3. call' = [call EXCEPT ![c] = [call[c] EXCEPT !.at = "deliver", !.target = to]]
  BY DEF LoadTargets, TypeOK
<1> HIDE DEF to
<1>4. [call[c] EXCEPT !.at = "deliver", !.target = to] \in Call
  BY <1>1, <1>2 DEF Call
<1>5. call'[c] = [call[c] EXCEPT !.at = "deliver", !.target = to]
      /\ call' \in [Calls -> Call \cup {Idle}]
  BY <1>3, <1>4 DEF TypeOK
<1>6. \A d \in Calls \ {c} : call'[d] = call[d]
  BY <1>3 DEF TypeOK
<1>7. call'[c].event = call[c].event /\ call'[c].at = "deliver" /\ call'[c].target = to
  BY <1>1, <1>5 DEF Call
<1>8. QED
  BY <1>2, <1>4, <1>5, <1>6, <1>7, NotificationAssumption

(* A call that starts has no destinations yet.                             *)
NewCall(p, e) == [event |-> e, process |-> p, at |-> "load",
                  target |-> [ch \in Channels |-> "none"]]

(* When it starts the others stay what they are.                           *)
LEMMA Started ==
  ASSUME TypeOK, NEW c \in Calls, NEW p \in Processes, NEW e \in Events,
         call' = [call EXCEPT ![c] = NewCall(p, e)]
  PROVE  /\ call' \in [Calls -> Call \cup {Idle}]
         /\ call'[c] \in Call /\ call'[c] # Idle
         /\ call'[c].event = e /\ call'[c].process = p /\ call'[c].at = "load"
         /\ \A ch \in Channels : call'[c].target[ch] = "none"
         /\ \A d \in Calls \ {c} : call'[d] = call[d]
<1> DEFINE new == NewCall(p, e)
<1>1. /\ new \in Call /\ new # Idle
      /\ new.event = e /\ new.process = p /\ new.at = "load"
      /\ \A ch \in Channels : new.target[ch] = "none"
  BY NotificationAssumption DEF Call, Phases, NewCall
<1>2. call'[c] = new /\ call' \in [Calls -> Call \cup {Idle}]
  BY <1>1 DEF TypeOK
<1>3. QED
  BY <1>1, <1>2 DEF TypeOK

----------------------------------------------------------------------------
(* Types.                                                                  *)

Counts == [Ids -> [Channels -> Nat]]
Outcomes == {"none", "success", "failure"}

LEMMA BoundsType ==
  ASSUME TypeOK
  PROVE  /\ Fault \/ NoFault => faults' \in 0 .. MaxFaults
         /\ Change => changes' \in 0 .. MaxChanges
BY NotificationAssumption DEF TypeOK, Fault, NoFault, Change

(* An entry of a table is written.                                         *)
LEMMA NestedType ==
  ASSUME NEW V, NEW f \in [Ids -> [Channels -> V]], NEW e, NEW ch, NEW v \in V
  PROVE  [f EXCEPT ![e][ch] = v] \in [Ids -> [Channels -> V]]
<1>1. CASE e \in Ids
  <2>1. [f[e] EXCEPT ![ch] = v] \in [Channels -> V]
    BY <1>1
  <2>2. QED
    BY <1>1, <2>1
<1>2. CASE e \notin Ids
  BY <1>2
<1>3. QED
  BY <1>1, <1>2

LEMMA CountsType ==
  ASSUME TypeOK, NEW e \in Events, NEW ch \in Channels
  PROVE  /\ Taken(e, ch) => accepted' \in Counts
         /\ Lapse(e, ch) => lapses' \in Counts
<1>1. CASE e \in NoId
  BY <1>1 DEF TypeOK, Taken, Lapse, Counts, Ids
<1>2. CASE e \notin NoId
  <2>1. e \in Ids /\ accepted \in Counts /\ lapses \in Counts
    BY <1>2 DEF TypeOK, Counts, Ids
  <2>2. accepted[e][ch] + 1 \in Nat /\ lapses[e][ch] + 1 \in Nat
    BY <2>1 DEF Counts
  <2>3. /\ [accepted EXCEPT ![e][ch] = accepted[e][ch] + 1] \in Counts
        /\ [lapses EXCEPT ![e][ch] = lapses[e][ch] + 1] \in Counts
    BY <2>1, <2>2, NestedType DEF Counts
  <2>4. QED
    BY <1>2, <2>1, <2>3 DEF Taken, Lapse
<1>3. QED
  BY <1>1, <1>2

LEMMA RememberType ==
  ASSUME TypeOK, NEW p \in Processes, NEW e \in Ids, Remember(p, e)
  PROVE  /\ delivered' \in [Processes -> Seq(Ids)]
         /\ \A q \in Processes : Len(delivered'[q]) <= Cap /\ IsInjective(delivered'[q])
         /\ \A q \in Processes, d \in Events :
              Contains(delivered'[q], d) => Contains(delivered[q], d) \/ (q = p /\ d = e)
<1>1. delivered \in [Processes -> Seq(Ids)]
  BY DEF TypeOK, Ids
<1>2. Len(delivered[p]) <= Cap /\ IsInjective(delivered[p])
  BY DEF TypeOK
<1>3. /\ delivered'[p] = RememberDelivered(delivered[p], e)
      /\ \A q \in Processes \ {p} : delivered'[q] = delivered[q]
  BY <1>1 DEF Remember
<1>4. /\ delivered'[p] \in Seq(Ids)
      /\ Len(delivered'[p]) <= Cap /\ IsInjective(delivered'[p])
      /\ \A d : Contains(delivered'[p], d) => Contains(delivered[p], d) \/ d = e
  BY <1>1, <1>2, <1>3, RememberProperties
<1>5. delivered' \in [Processes -> Seq(Ids)]
  BY <1>1, <1>4 DEF Remember
<1>6. \A q \in Processes : Len(delivered'[q]) <= Cap /\ IsInjective(delivered'[q])
  BY <1>3, <1>4 DEF TypeOK
<1>7. QED
  BY <1>3, <1>4, <1>5, <1>6

(* The parts of TypeOK.                                                    *)
LEMMA TypeParts ==
  ASSUME declared' = declared, configured' = configured,
         enabled' \in SUBSET Endpoints,
         log' \in [Ids -> [Channels -> Outcomes]],
         delivered' \in [Processes -> Seq(Ids)],
         \A q \in Processes : Len(delivered'[q]) <= Cap /\ IsInjective(delivered'[q]),
         call' \in [Calls -> Call \cup {Idle}],
         accepted' \in Counts, lapses' \in Counts,
         started' \in 0 .. MaxCalls, faults' \in 0 .. MaxFaults,
         changes' \in 0 .. MaxChanges, TypeOK
  PROVE  TypeOK'
BY DEF TypeOK, Counts, Ids, Outcomes

LEMMA TypeStep == TypeOK /\ [Next]_vars => TypeOK'
<1> SUFFICES ASSUME TypeOK, [Next]_vars PROVE TypeOK'
  OBVIOUS
<1>0. /\ enabled \in SUBSET Endpoints
      /\ log \in [Ids -> [Channels -> Outcomes]]
      /\ delivered \in [Processes -> Seq(Ids)]
      /\ \A q \in Processes : Len(delivered[q]) <= Cap /\ IsInjective(delivered[q])
      /\ call \in [Calls -> Call \cup {Idle}]
      /\ accepted \in Counts /\ lapses \in Counts
      /\ started \in 0 .. MaxCalls /\ faults \in 0 .. MaxFaults
      /\ changes \in 0 .. MaxChanges
  BY DEF TypeOK, Counts, Ids, Outcomes
<1>o. "none" \in Outcomes /\ "success" \in Outcomes /\ "failure" \in Outcomes
  BY DEF Outcomes
<1>c. \A c \in Calls : call[c] # Idle =>
        call[c].event \in Events /\ call[c].process \in Processes
  BY <1>0 DEF Call
<1> USE DEF config, history, bounds, Running, AtTarget
<1>1. ASSUME NEW c \in Calls, Start(c) PROVE TypeOK'
  <2>1. PICK p \in Processes, e \in Events :
          /\ call' = [call EXCEPT ![c] = NewCall(p, e)]
          /\ lapses' = IF Overlap(e)
                         THEN [lapses EXCEPT ![e] = [ch \in Channels |-> @[ch] + 1]]
                         ELSE lapses
    BY <1>1 DEF Start, NewCall
  <2>2. call' \in [Calls -> Call \cup {Idle}]
    BY <2>1, Started
  <2>3. lapses' \in Counts
    <3>1. CASE Overlap(e)
      <4>1. e \in Ids
        BY <3>1 DEF Overlap, Ids
      <4>2. [ch \in Channels |-> lapses[e][ch] + 1] \in [Channels -> Nat]
        BY <1>0, <4>1 DEF Counts
      <4>3. QED
        BY <1>0, <2>1, <3>1, <4>1, <4>2 DEF Counts
    <3>2. CASE ~Overlap(e)
      BY <1>0, <2>1, <3>2
    <3>3. QED
      BY <3>1, <3>2
  <2>4. started' \in 0 .. MaxCalls
    BY <1>0, <1>1, NotificationAssumption DEF Start
  <2>5. QED
    BY <1>0, <1>1, <2>2, <2>3, <2>4, TypeParts DEF Start
<1>2. ASSUME NEW c \in Calls, LoadNothing(c) PROVE TypeOK'
  <2>1. /\ call' \in [Calls -> Call \cup {Idle}]
        /\ delivered' \in [Processes -> Seq(Ids)]
        /\ \A q \in Processes : Len(delivered'[q]) <= Cap /\ IsInjective(delivered'[q])
    <3>1. call[c] # Idle
      BY <1>2 DEF LoadNothing
    <3>2. CASE call[c].event \in NoId
      BY <1>0, <1>2, <3>2, Ended DEF LoadNothing
    <3>3. CASE call[c].event \notin NoId
      <4>1. call[c].event \in Ids /\ Remember(call[c].process, call[c].event)
        BY <1>2, <1>c, <3>1, <3>3 DEF LoadNothing, Ids
      <4>2. call' \in [Calls -> Call \cup {Idle}]
        BY <1>2, <3>1, <3>3, Ended, Gone DEF LoadNothing
      <4>3. QED
        BY <1>c, <3>1, <4>1, <4>2, RememberType
    <3>4. QED
      BY <3>2, <3>3
  <2>2. QED
    BY <1>0, <1>2, <2>1, TypeParts DEF LoadNothing
<1>3. ASSUME NEW c \in Calls, LoadTargets(c) PROVE TypeOK'
  <2>1. call' \in [Calls -> Call \cup {Idle}]
    BY <1>3, Loaded
  <2>2. QED
    BY <1>0, <1>3, <2>1, TypeParts DEF LoadTargets
<1>4. ASSUME NEW c \in Calls, LoadFails(c) PROVE TypeOK'
  BY <1>0, <1>4, Ended, BoundsType, TypeParts DEF LoadFails
<1>5. ASSUME NEW c \in Calls, Noop(c) PROVE TypeOK'
  <2>1. log' \in [Ids -> [Channels -> Outcomes]]
    <3>1. Url \in Channels
      BY DEF Channels
    <3> DEFINE e == call[c].event
               o == IF log[e][Url] = "none" THEN "success" ELSE log[e][Url]
    <3>2. log' = log \/ log' = [log EXCEPT ![e][Url] = o]
      BY <1>5 DEF Noop
    <3> HIDE DEF e
    <3>3. e \in Ids => o \in Outcomes
      BY <1>0, <1>o, <3>1
    <3> HIDE DEF o
    <3>4. CASE e \in Ids
      <4>1. [log EXCEPT ![e][Url] = o] \in [Ids -> [Channels -> Outcomes]]
        <5>1. o \in Outcomes
          BY <3>3, <3>4
        <5>2. QED
          BY <1>0, <5>1, NestedType
      <4>2. QED
        BY <1>0, <3>2, <4>1
    <3>5. CASE e \notin Ids
      <4>1. [log EXCEPT ![e][Url] = o] = log
        BY <1>0, <3>5
      <4>2. QED
        BY <1>0, <3>2, <4>1
    <3>6. QED
      BY <3>4, <3>5
  <2>2. faults' \in 0 .. MaxFaults
    BY <1>5, BoundsType DEF Noop
  <2>3. QED
    BY <1>0, <1>5, <2>1, <2>2, Ended, TypeParts DEF Noop
<1>6. ASSUME NEW c \in Calls, NEW ch \in Channels, Check(c, ch) PROVE TypeOK'
  <2>1. call[c] # Idle /\ \E at \in Phases : Moves(c, ch, at)
    BY <1>6 DEF Check, Prepare, Phases
  <2>2. call' \in [Calls -> Call \cup {Idle}] /\ faults' \in 0 .. MaxFaults
    BY <1>6, <2>1, Moved, BoundsType DEF Check
  <2>3. QED
    BY <1>0, <1>6, <2>2, TypeParts DEF Check
<1>7. ASSUME NEW c \in Calls, NEW ch \in Channels, Post(c, ch) PROVE TypeOK'
  <2>1. call[c] # Idle /\ \E at \in Phases : Moves(c, ch, at)
    BY <1>7 DEF Post, Phases
  <2>2. call' \in [Calls -> Call \cup {Idle}] /\ faults' \in 0 .. MaxFaults
    BY <1>7, <2>1, Moved, BoundsType DEF Post
  <2>3. accepted' \in Counts /\ lapses' \in Counts
    BY <1>0, <1>7, <1>c, <2>1, CountsType DEF Post
  <2>4. QED
    BY <1>0, <1>7, <2>2, <2>3, TypeParts DEF Post
<1>8. ASSUME NEW c \in Calls, NEW ch \in Channels, LogDelivery(c, ch) PROVE TypeOK'
  <2>1. PICK success \in BOOLEAN :
          /\ AtTarget(c, ch, IF success THEN "logSuccess" ELSE "logFailure")
          /\ Moves(c, ch, IF success THEN "yes" ELSE "no")
          /\ \/ /\ NoFault /\ UNCHANGED lapses
                /\ log' = IF call[c].event \in NoId THEN log ELSE
                     [log EXCEPT ![call[c].event][ch] =
                        IF success THEN "success" ELSE "failure"]
             \/ /\ Fault /\ UNCHANGED log
                /\ IF success THEN Lapse(call[c].event, ch) ELSE UNCHANGED lapses
          /\ UNCHANGED <<config, delivered, accepted, started, changes>>
    BY <1>8 DEF LogDelivery
  <2>2. call[c] # Idle /\ \E at \in Phases : Moves(c, ch, at)
    BY <2>1 DEF Phases
  <2>3. call' \in [Calls -> Call \cup {Idle}] /\ faults' \in 0 .. MaxFaults
    BY <2>1, <2>2, Moved, BoundsType
  <2>4. lapses' \in Counts
    BY <1>0, <1>c, <2>1, <2>2, CountsType
  <2>5. log' \in [Ids -> [Channels -> Outcomes]]
    <3>1. \A v \in {"success", "failure"} :
            [log EXCEPT ![call[c].event][ch] = v] \in [Ids -> [Channels -> Outcomes]]
      BY <1>0, <1>o, NestedType
    <3>2. CASE log' = log
      BY <1>0, <3>2
    <3>3. CASE log' # log
      <4>1. log' = [log EXCEPT ![call[c].event][ch] =
                      IF success THEN "success" ELSE "failure"]
        BY <2>1, <3>3
      <4>2. CASE success
        BY <3>1, <4>1, <4>2
      <4>3. CASE ~success
        BY <3>1, <4>1, <4>3
      <4>4. QED
        BY <4>2, <4>3
    <3>4. QED
      BY <3>2, <3>3
  <2>6. QED
    BY <1>0, <2>1, <2>3, <2>4, <2>5, TypeParts
<1>9. ASSUME NEW c \in Calls, Join(c) PROVE TypeOK'
  <2>1. CASE Answers(c) = {"yes"} /\ call[c].event \notin NoId
    <3>1. call[c].event \in Ids /\ call[c].process \in Processes
      BY <1>9, <1>c, <2>1 DEF Join, Ids
    <3>2. Remember(call[c].process, call[c].event)
      BY <1>9, <2>1 DEF Join
    <3>3. QED
      BY <1>0, <1>9, <3>1, <3>2, RememberType, Ended, TypeParts DEF Join
  <2>2. CASE ~(Answers(c) = {"yes"} /\ call[c].event \notin NoId)
    BY <1>0, <1>9, <2>2, Ended, TypeParts DEF Join
  <2>3. QED
    BY <2>1, <2>2
<1>10. ASSUME NEW c \in Calls, Reject(c) PROVE TypeOK'
  BY <1>0, <1>10, Ended, TypeParts DEF Reject
<1>11. CASE SetEndpoint
  BY <1>0, <1>11, BoundsType, TypeParts DEF SetEndpoint
<1>12. CASE PruneLog
  <2>1. PICK e \in Ids, ch \in Channels :
          /\ log' = [log EXCEPT ![e][ch] = "none"]
          /\ IF log[e][ch] = "success" THEN Lapse(e, ch) ELSE UNCHANGED lapses
    BY <1>12 DEF PruneLog, Ids
  <2>2. lapses' \in Counts
    BY <1>0, <2>1, CountsType DEF Ids
  <2>3. log' \in [Ids -> [Channels -> Outcomes]]
    <3>1. [log EXCEPT ![e][ch] = "none"] \in [Ids -> [Channels -> Outcomes]]
      BY <1>0, <1>o, NestedType
    <3>2. QED
      BY <2>1, <3>1
  <2>4. QED
    BY <1>0, <1>12, <2>2, <2>3, BoundsType, TypeParts DEF PruneLog
<1>13. ASSUME NEW p \in Processes, Restart(p) PROVE TypeOK'
  <2>1. /\ call' \in [Calls -> Call \cup {Idle}]
        /\ faults' \in 0 .. MaxFaults
    BY <1>0, <1>13, BoundsType DEF Restart
  <2>2. lapses' \in Counts
    <3> DEFINE lost(e, ch) == \E c \in Calls : /\ call[c] # Idle /\ call[c].process = p
                                             /\ call[c].event = e
                                             /\ call[c].target[ch] = "logSuccess"
    <3>1. lapses' = [e \in Ids |-> [ch \in Channels |->
                       IF lost(e, ch) THEN lapses[e][ch] + 1 ELSE lapses[e][ch]]]
      BY <1>13 DEF Restart, Ids
    <3> HIDE DEF lost
    <3>2. QED
      BY <1>0, <3>1 DEF Counts
  <2>3. /\ delivered' \in [Processes -> Seq(Ids)]
        /\ \A q \in Processes : Len(delivered'[q]) <= Cap /\ IsInjective(delivered'[q])
    <3>1. <<>> \in Seq(Ids) /\ Len(<<>>) = 0 /\ IsInjective(<<>>)
      BY EmptySeq DEF IsInjective
    <3>2. QED
      BY <1>0, <1>13, <3>1, NotificationAssumption DEF Restart
  <2>4. QED
    BY <1>0, <1>13, <2>1, <2>2, <2>3, TypeParts DEF Restart
<1>14. CASE UNCHANGED vars
  BY <1>0, <1>14, TypeParts DEF vars
<1>15. QED
  BY <1>1, <1>2, <1>3, <1>4, <1>5, <1>6, <1>7, <1>8, <1>9, <1>10, <1>11, <1>12,
     <1>13, <1>14 DEF Next, CallStep

LEMMA TypeInit == Init => TypeOK
<1> SUFFICES ASSUME Init PROVE TypeOK
  OBVIOUS
<1>1. <<>> \in Seq(Ids) /\ Len(<<>>) = 0 /\ IsInjective(<<>>)
  BY EmptySeq DEF IsInjective
<1>2. QED
  BY <1>1, NotificationAssumption DEF Init, TypeOK, Ids

(* TypeOK is an invariant: so a process never remembers more events than   *)
(* the cap, nor one of them twice.                                         *)
THEOREM TypeCorrect == Spec => []TypeOK
BY TypeInit, TypeStep, PTL DEF Spec

----------------------------------------------------------------------------
(* A success on record, and an answer that counts as one, is one.          *)

(* A call has its destinations once they are loaded, and each that took    *)
(* the event for it did.                                                   *)
CallTaken(q, taken) == q # Idle =>
  /\ q.at # "deliver" => \A ch \in Channels : q.target[ch] = "none"
  /\ \A ch \in Endpoints :
       q.event \notin NoId /\ q.target[ch] \in {"logSuccess", "yes"}
         => taken[q.event][ch] > 0
AnswersTaken == \A c \in Calls : CallTaken(call[c], accepted)
TakenInv == TypeOK /\ AnswersTaken /\ RecordedSuccessIsReal

(* What Taken and Lapse count.                                             *)
LEMMA TakenEffect ==
  ASSUME TypeOK, NEW e \in Events, NEW ch \in Channels, Taken(e, ch),
         NEW d \in Ids, NEW h \in Channels
  PROVE  accepted'[d][h] = IF d = e /\ h = ch THEN accepted[d][h] + 1
                                              ELSE accepted[d][h]
<1>1. accepted \in [Ids -> [Channels -> Nat]]
  BY DEF TypeOK, Ids
<1>2. CASE e \in NoId
  BY <1>2 DEF Taken, Ids
<1>3. CASE e \notin NoId
  BY <1>1, <1>3 DEF Taken, Ids
<1>4. QED
  BY <1>2, <1>3

LEMMA LapseEffect ==
  ASSUME TypeOK, NEW e \in Events, NEW ch \in Channels, Lapse(e, ch),
         NEW d \in Ids, NEW h \in Channels
  PROVE  lapses'[d][h] = IF d = e /\ h = ch THEN lapses[d][h] + 1
                                            ELSE lapses[d][h]
<1>1. lapses \in [Ids -> [Channels -> Nat]]
  BY DEF TypeOK, Ids
<1>2. CASE e \in NoId
  BY <1>2 DEF Lapse, Ids
<1>3. CASE e \notin NoId
  BY <1>1, <1>3 DEF Lapse, Ids
<1>4. QED
  BY <1>2, <1>3

(* Only a post changes what the destinations took, and it only adds.       *)
LEMMA AcceptedGrows ==
  ASSUME TypeOK, [Next]_vars
  PROVE  \A e \in Ids, ch \in Channels : accepted'[e][ch] >= accepted[e][ch]
<1>1. \A e \in Ids, ch \in Channels : accepted[e][ch] \in Nat
  BY DEF TypeOK, Ids
<1> USE DEF config, history, bounds
<1>2. CASE UNCHANGED accepted
  BY <1>1, <1>2
<1>3. ASSUME NEW c \in Calls, NEW h \in Channels, Post(c, h)
      PROVE  \A e \in Ids, ch \in Channels : accepted'[e][ch] >= accepted[e][ch]
  <2>1. call[c].event \in Events
    BY <1>3 DEF Post, AtTarget, Running, TypeOK, Call
  <2>2. UNCHANGED accepted \/ Taken(call[c].event, h)
    BY <1>3 DEF Post
  <2>3. QED
    BY <1>1, <1>2, <2>1, <2>2, TakenEffect
<1>4. ASSUME NEW c \in Calls, CallStep(c)
      PROVE  UNCHANGED accepted \/ \E h \in Channels : Post(c, h)
  BY <1>4 DEF CallStep, LoadNothing, LoadTargets, LoadFails, Noop, Check, LogDelivery,
     Join, Reject
<1>5. QED
  BY <1>2, <1>3, <1>4 DEF Next, vars, Start, SetEndpoint, PruneLog, Restart

(* What is said of a call stays true while it rests, or when it is gone.   *)
LEMMA CallTakenKept ==
  ASSUME NEW q \in Call \cup {Idle}, NEW old \in Counts, NEW new \in Counts,
         \A e \in Ids, ch \in Channels : new[e][ch] >= old[e][ch],
         CallTaken(q, old)
  PROVE  CallTaken(q, new)
<1> SUFFICES ASSUME q # Idle, NEW ch \in Endpoints, q.event \notin NoId,
                    q.target[ch] \in {"logSuccess", "yes"}
             PROVE  new[q.event][ch] > 0
  BY DEF CallTaken
<1>1. q.event \in Ids /\ ch \in Channels
  BY DEF Call, Ids, Channels
<1>2. old[q.event][ch] > 0
  BY DEF CallTaken
<1>3. old[q.event][ch] \in Nat /\ new[q.event][ch] \in Nat
  BY <1>1 DEF Counts
<1>4. QED
  BY <1>1, <1>2, <1>3

(* A step that leaves a call, ends it, or moves it as it should.           *)
LEMMA TakenMove ==
  ASSUME TakenInv, [Next]_vars,
         \A d \in Calls : call'[d] \in {call[d], Idle} \/ CallTaken(call'[d], accepted'),
         \A e \in Ids, ch \in Endpoints :
           log'[e][ch] = "success" => log[e][ch] = "success" \/ accepted'[e][ch] > 0
  PROVE  AnswersTaken' /\ RecordedSuccessIsReal'
<1>1. TypeOK /\ TypeOK' /\ call \in [Calls -> Call \cup {Idle}]
      /\ accepted \in Counts /\ accepted' \in Counts
  BY TypeStep DEF TakenInv, TypeOK, Counts, Ids
<1>2. \A e \in Ids, ch \in Channels : accepted'[e][ch] >= accepted[e][ch]
  BY <1>1, AcceptedGrows
<1>3. ASSUME NEW d \in Calls PROVE CallTaken(call'[d], accepted')
  <2>1. CASE CallTaken(call'[d], accepted')
    BY <2>1
  <2>2. CASE call'[d] = call[d]
    BY <1>1, <1>2, <2>2, CallTakenKept DEF TakenInv, AnswersTaken
  <2>3. CASE call'[d] = Idle
    BY <2>3 DEF CallTaken
  <2>4. QED
    BY <2>1, <2>2, <2>3
<1>4. ASSUME NEW e \in Ids, NEW ch \in Endpoints, log'[e][ch] = "success"
      PROVE  accepted'[e][ch] > 0
  <2>1. ch \in Channels /\ accepted[e][ch] \in Nat /\ accepted'[e][ch] \in Nat
    BY <1>1 DEF Channels, Counts
  <2>2. log[e][ch] = "success" => accepted[e][ch] > 0
    BY DEF TakenInv, RecordedSuccessIsReal, Ids
  <2>3. QED
    BY <1>2, <1>4, <2>1, <2>2
<1>5. AnswersTaken'
  BY <1>3 DEF AnswersTaken, CallTaken
<1>6. QED
  BY <1>4, <1>5 DEF RecordedSuccessIsReal, Ids

(* A destination of a call moves: all that is to show is about it.         *)
LEMMA TakenTarget ==
  ASSUME TakenInv, [Next]_vars, NEW c \in Calls, NEW ch \in Channels,
         AtTarget(c, ch, "check") \/ AtTarget(c, ch, "post")
           \/ AtTarget(c, ch, "logSuccess") \/ AtTarget(c, ch, "logFailure"),
         NEW at \in Phases, Moves(c, ch, at),
         at \in {"logSuccess", "yes"} /\ ch \in Endpoints /\ call[c].event \in Ids
           => accepted'[call[c].event][ch] > 0
  PROVE  \A d \in Calls : call'[d] \in {call[d], Idle} \/ CallTaken(call'[d], accepted')
<1>1. TypeOK /\ call[c] # Idle /\ call[c].at = "deliver" /\ call[c] \in Call
  BY DEF TakenInv, TypeOK, AtTarget, Running
<1>2. /\ \A d \in Calls \ {c} : call'[d] = call[d]
      /\ call'[c].event = call[c].event /\ call'[c].at = "deliver"
      /\ call'[c].target[ch] = at
      /\ \A h \in Channels \ {ch} : call'[c].target[h] = call[c].target[h]
  BY <1>1, Moved
<1>3. accepted \in Counts /\ accepted' \in Counts
  BY <1>1, TypeStep DEF TypeOK, Counts, Ids
<1>4. CallTaken(call[c], accepted')
  BY <1>1, <1>3, AcceptedGrows, CallTakenKept DEF TakenInv, AnswersTaken
<1>5. ASSUME NEW h \in Endpoints, call[c].event \notin NoId,
             call'[c].target[h] \in {"logSuccess", "yes"}
      PROVE  accepted'[call[c].event][h] > 0
  <2>1. call[c].event \in Ids /\ h \in Channels
    BY <1>1, <1>5 DEF Call, Ids, Channels
  <2>2. CASE h = ch
    BY <1>2, <1>5, <2>1, <2>2
  <2>3. CASE h # ch
    BY <1>1, <1>2, <1>4, <1>5, <2>1, <2>3 DEF CallTaken
  <2>4. QED
    BY <2>2, <2>3
<1>6. CallTaken(call'[c], accepted')
  BY <1>2, <1>5 DEF CallTaken
<1>7. QED
  BY <1>2, <1>6

LEMMA TakenStep == TakenInv /\ [Next]_vars => AnswersTaken' /\ RecordedSuccessIsReal'
<1> SUFFICES ASSUME TakenInv, [Next]_vars PROVE AnswersTaken' /\ RecordedSuccessIsReal'
  OBVIOUS
<1>0. /\ TypeOK
      /\ \A c \in Calls : call[c] # Idle => call[c] \in Call /\ call[c].event \in Events
      /\ \A e \in Ids, ch \in Channels : accepted[e][ch] \in Nat
      /\ \A e \in Ids : log[e] \in [Channels -> Outcomes]
      /\ log \in [Ids -> [Channels -> Outcomes]]
  BY DEF TakenInv, TypeOK, Call, Ids, Outcomes
<1> USE DEF config, history, bounds
<1>1. ASSUME NEW c \in Calls, Start(c) PROVE AnswersTaken' /\ RecordedSuccessIsReal'
  <2>1. PICK p \in Processes, e \in Events :
          call' = [call EXCEPT ![c] = NewCall(p, e)]
    BY <1>1 DEF Start, NewCall
  <2>2. /\ call'[c].at = "load"
        /\ \A ch \in Channels : call'[c].target[ch] = "none"
        /\ \A d \in Calls \ {c} : call'[d] = call[d]
    BY <1>0, <2>1, Started
  <2>3. CallTaken(call'[c], accepted')
    BY <2>2 DEF CallTaken, Channels
  <2>4. UNCHANGED log
    BY <1>1 DEF Start
  <2>5. QED
    BY <2>2, <2>3, <2>4, TakenMove
<1>2. ASSUME NEW c \in Calls, LoadNothing(c) PROVE AnswersTaken' /\ RecordedSuccessIsReal'
  <2>1. UNCHANGED log /\ call[c] # Idle /\ call[c].at = "load"
    BY <1>2 DEF LoadNothing, Running
  <2>2. CASE Ends(c)
    BY <1>0, <2>1, <2>2, Ended, TakenMove
  <2>3. CASE Goes(c, "noop")
    <3>1. /\ call'[c].target = call[c].target
          /\ \A d \in Calls \ {c} : call'[d] = call[d]
      BY <1>0, <2>1, <2>3, Gone
    <3>2. \A ch \in Channels : call'[c].target[ch] = "none"
      BY <2>1, <3>1 DEF TakenInv, AnswersTaken, CallTaken
    <3>3. CallTaken(call'[c], accepted')
      BY <3>2 DEF CallTaken, Channels
    <3>4. QED
      BY <2>1, <3>1, <3>3, TakenMove
  <2>4. QED
    BY <1>2, <2>2, <2>3 DEF LoadNothing
<1>3. ASSUME NEW c \in Calls, LoadTargets(c) PROVE AnswersTaken' /\ RecordedSuccessIsReal'
  <2>1. /\ call'[c].at = "deliver"
        /\ \A ch \in Channels : call'[c].target[ch] \in {"check", "none"}
        /\ \A d \in Calls \ {c} : call'[d] = call[d]
    BY <1>0, <1>3, Loaded
  <2>2. CallTaken(call'[c], accepted')
    BY <2>1 DEF CallTaken, Channels
  <2>3. QED
    BY <1>3, <2>1, <2>2, TakenMove DEF LoadTargets
<1>4. ASSUME NEW c \in Calls, LoadFails(c) \/ Join(c) \/ Reject(c)
      PROVE  AnswersTaken' /\ RecordedSuccessIsReal'
  <2>1. Ends(c) /\ UNCHANGED log
    BY <1>4 DEF LoadFails, Join, Reject
  <2>2. QED
    BY <1>0, <2>1, Ended, TakenMove
<1>5. ASSUME NEW c \in Calls, Noop(c) PROVE AnswersTaken' /\ RecordedSuccessIsReal'
  <2>1. \A e \in Ids, ch \in Endpoints : log'[e][ch] = log[e][ch]
    BY <1>0, <1>5, NotificationAssumption DEF Noop, Channels
  <2>2. Ends(c)
    BY <1>5 DEF Noop
  <2>3. QED
    BY <1>0, <2>1, <2>2, Ended, TakenMove
<1>6. ASSUME NEW c \in Calls, NEW ch \in Channels, Check(c, ch)
      PROVE  AnswersTaken' /\ RecordedSuccessIsReal'
  <2>1. PICK at \in Phases : Moves(c, ch, at) /\ at # "logSuccess"
                             /\ (at = "yes" => Recorded(call[c].event, ch))
    BY <1>6 DEF Check, Prepare, Phases
  <2>2. AtTarget(c, ch, "check") /\ UNCHANGED <<log, accepted>>
    BY <1>6 DEF Check
  <2>3. ASSUME at = "yes", ch \in Endpoints, call[c].event \in Ids
        PROVE  accepted'[call[c].event][ch] > 0
    BY <2>1, <2>2, <2>3 DEF Recorded, TakenInv, RecordedSuccessIsReal, Ids
  <2>4. \A d \in Calls : call'[d] \in {call[d], Idle} \/ CallTaken(call'[d], accepted')
    BY <2>1, <2>2, <2>3, TakenTarget
  <2>5. QED
    BY <2>2, <2>4, TakenMove
<1>7. ASSUME NEW c \in Calls, NEW ch \in Channels, Post(c, ch)
      PROVE  AnswersTaken' /\ RecordedSuccessIsReal'
  <2>1. AtTarget(c, ch, "post") /\ UNCHANGED log /\ call[c].event \in Events
    BY <1>0, <1>7 DEF Post, AtTarget, Running
  <2>2. PICK at \in Phases : Moves(c, ch, at) /\ at # "yes"
                             /\ (at = "logSuccess" => Taken(call[c].event, ch))
    BY <1>7 DEF Post, Phases
  <2>3. ASSUME at = "logSuccess", call[c].event \in Ids
        PROVE  accepted'[call[c].event][ch] > 0
    <3>1. accepted'[call[c].event][ch] = accepted[call[c].event][ch] + 1
      BY <1>0, <2>1, <2>2, <2>3, TakenEffect
    <3>2. QED
      BY <1>0, <2>3, <3>1
  <2>4. \A d \in Calls : call'[d] \in {call[d], Idle} \/ CallTaken(call'[d], accepted')
    BY <2>1, <2>2, <2>3, TakenTarget
  <2>5. QED
    BY <2>1, <2>4, TakenMove
<1>8. ASSUME NEW c \in Calls, NEW ch \in Channels, LogDelivery(c, ch)
      PROVE  AnswersTaken' /\ RecordedSuccessIsReal'
  <2>1. PICK success \in BOOLEAN :
          /\ AtTarget(c, ch, IF success THEN "logSuccess" ELSE "logFailure")
          /\ Moves(c, ch, IF success THEN "yes" ELSE "no")
          /\ \/ log' = IF call[c].event \in NoId THEN log ELSE
                  [log EXCEPT ![call[c].event][ch] =
                     IF success THEN "success" ELSE "failure"]
             \/ UNCHANGED log
          /\ UNCHANGED accepted
    BY <1>8 DEF LogDelivery
  <2>2. call[c] # Idle /\ call[c].event \in Events
    BY <1>0, <2>1 DEF AtTarget, Running
  <2>3. ASSUME success, ch \in Endpoints, call[c].event \in Ids
        PROVE  accepted'[call[c].event][ch] > 0
    BY <2>1, <2>2, <2>3 DEF AtTarget, Running, TakenInv, AnswersTaken, CallTaken, Ids
  <2>4. \A d \in Calls : call'[d] \in {call[d], Idle} \/ CallTaken(call'[d], accepted')
    <3>1. CASE success
      BY <2>1, <2>3, <3>1, TakenTarget DEF Phases
    <3>2. CASE ~success
      BY <2>1, <3>2, TakenTarget DEF Phases
    <3>3. QED
      BY <3>1, <3>2
  <2>5. ASSUME NEW e \in Ids, NEW h \in Endpoints, log'[e][h] = "success"
        PROVE  log[e][h] = "success" \/ accepted'[e][h] > 0
    <3>1. CASE e = call[c].event /\ h = ch
      <4>1. CASE success
        BY <2>3, <3>1, <4>1
      <4>2. CASE ~success
        <5>1. log' = log \/ log' = [log EXCEPT ![e][h] = "failure"]
          BY <2>1, <3>1, <4>2
        <5>2. h \in Channels
          BY DEF Channels
        <5>3. QED
          BY <1>0, <2>5, <5>1, <5>2
      <4>3. QED
        BY <4>1, <4>2
    <3>2. CASE ~(e = call[c].event /\ h = ch)
      <4>1. log'[e][h] = log[e][h]
        BY <1>0, <2>1, <3>2 DEF Channels
      <4>2. QED
        BY <2>5, <4>1
    <3>3. QED
      BY <3>1, <3>2
  <2>6. QED
    BY <2>4, <2>5, TakenMove
<1>9. CASE SetEndpoint
  BY <1>9, TakenMove DEF SetEndpoint
<1>10. CASE PruneLog
  <2>1. PICK e \in Ids, ch \in Channels : log' = [log EXCEPT ![e][ch] = "none"]
    BY <1>10 DEF PruneLog, Ids
  <2>2. \A d \in Ids, h \in Endpoints : log'[d][h] = "success" => log[d][h] = "success"
    BY <1>0, <2>1 DEF Channels
  <2>3. QED
    BY <1>10, <2>2, TakenMove DEF PruneLog
<1>11. ASSUME NEW p \in Processes, Restart(p) PROVE AnswersTaken' /\ RecordedSuccessIsReal'
  <2>1. UNCHANGED log /\ \A d \in Calls : call'[d] \in {call[d], Idle}
    BY <1>11 DEF Restart
  <2>2. QED
    BY <2>1, TakenMove
<1>12. CASE UNCHANGED vars
  BY <1>12, TakenMove DEF vars
<1>13. QED
  BY <1>1, <1>2, <1>3, <1>4, <1>5, <1>6, <1>7, <1>8, <1>9, <1>10, <1>11, <1>12
     DEF Next, CallStep

LEMMA TakenInvariance == Spec => []TakenInv
<1>1. Init => TakenInv
  BY TypeInit DEF Init, TakenInv, AnswersTaken, CallTaken, RecordedSuccessIsReal, Channels
<1>2. TakenInv /\ [Next]_vars => TakenInv'
  BY TypeStep, TakenStep DEF TakenInv
<1>3. QED
  BY <1>1, <1>2, PTL DEF Spec

(* A success on record is one: the endpoint has taken the event.           *)
THEOREM SuccessIsReal == Spec => []RecordedSuccessIsReal
<1>1. TakenInv => RecordedSuccessIsReal
  BY DEF TakenInv
<1>2. QED
  BY <1>1, TakenInvariance, PTL

(* An event that a process begins to remember was taken by every endpoint  *)
(* its call was made for.                                                  *)
LEMMA RememberedStep ==
  ASSUME TakenInv, [Next]_vars, NEW p \in Processes, NEW e \in Events,
         Contains(delivered'[p], e), ~Contains(delivered[p], e)
  PROVE  \E c \in Calls :
           /\ call[c] # Idle /\ call[c].event = e /\ call[c].process = p
           /\ \A ch \in Endpoints : call[c].target[ch] # "none" => accepted[e][ch] > 0
<1>0. TypeOK /\ \A c \in Calls : call[c] # Idle => call[c] \in Call
  BY DEF TakenInv, TypeOK
<1> USE DEF config, history, bounds
<1>1. ASSUME NEW c \in Calls, call[c] # Idle, call[c].event \notin NoId,
             Remember(call[c].process, call[c].event)
      PROVE  e = call[c].event /\ p = call[c].process
  <2>1. call[c].event \in Ids /\ call[c].process \in Processes
    BY <1>0, <1>1 DEF Call, Ids
  <2>2. QED
    BY <1>0, <1>1, <2>1, RememberType
<1>2. ASSUME NEW c \in Calls, LoadNothing(c)
      PROVE  /\ call[c] # Idle /\ call[c].event = e /\ call[c].process = p
             /\ \A ch \in Endpoints : call[c].target[ch] # "none" => accepted[e][ch] > 0
  <2>1. call[c] # Idle /\ call[c].at = "load"
    BY <1>2 DEF LoadNothing, Running
  <2>2. call[c].event \notin NoId
    BY <1>2 DEF LoadNothing
  <2>3. \A ch \in Endpoints : call[c].target[ch] = "none"
    BY <2>1 DEF TakenInv, AnswersTaken, CallTaken, Channels
  <2>4. QED
    BY <1>1, <1>2, <2>1, <2>2, <2>3 DEF LoadNothing
<1>3. ASSUME NEW c \in Calls, Join(c)
      PROVE  /\ call[c] # Idle /\ call[c].event = e /\ call[c].process = p
             /\ \A ch \in Endpoints : call[c].target[ch] # "none" => accepted[e][ch] > 0
  <2>1. call[c] # Idle /\ Answers(c) = {"yes"} /\ call[c].event \notin NoId
    BY <1>3 DEF Join, Running
  <2>2. \A ch \in Endpoints : call[c].target[ch] # "none" => call[c].target[ch] = "yes"
    BY <2>1 DEF Answers, Channels
  <2>3. e = call[c].event /\ p = call[c].process
    BY <1>1, <1>3, <2>1 DEF Join
  <2>4. QED
    BY <2>1, <2>2, <2>3 DEF TakenInv, AnswersTaken, CallTaken
<1>4. ASSUME NEW q \in Processes, Restart(q) PROVE FALSE
  <2>1. delivered'[p] = delivered[p] \/ delivered'[p] = <<>>
    BY <1>0, <1>4 DEF Restart, TypeOK
  <2>2. ~Contains(<<>>, e)
    BY DEF Contains
  <2>3. QED
    BY <2>1, <2>2
<1>5. UNCHANGED delivered \/ (\E c \in Calls : LoadNothing(c) \/ Join(c))
        \/ \E q \in Processes : Restart(q)
  <2>1. ASSUME NEW c \in Calls, CallStep(c) PROVE UNCHANGED delivered \/ LoadNothing(c) \/ Join(c)
    BY <2>1 DEF CallStep, LoadTargets, LoadFails, Noop, Check, Post, LogDelivery, Reject
  <2>2. QED
    BY <2>1 DEF Next, vars, Start, SetEndpoint, PruneLog
<1>6. QED
  BY <1>2, <1>3, <1>4, <1>5

THEOREM RememberedIsAccepted == Spec => RememberedWasAccepted
<1> DEFINE A == \A p \in Processes, e \in Events :
       Contains(delivered'[p], e) /\ ~Contains(delivered[p], e) =>
         \E c \in Calls :
           /\ call[c] # Idle /\ call[c].event = e /\ call[c].process = p
           /\ \A ch \in Endpoints : call[c].target[ch] # "none" => accepted[e][ch] > 0
<1>1. TakenInv /\ [Next]_vars => [A]_vars
  BY RememberedStep
<1>2. QED
  BY <1>1, TakenInvariance, PTL DEF Spec, RememberedWasAccepted

----------------------------------------------------------------------------
(* Duplicates.                                                             *)

(* The phase of a call for one event and channel: one that still loads its *)
(* destinations is as good as about to check.                              *)
Phase(q, e, ch) ==
  IF q = Idle THEN "none" ELSE
  IF q.event # e THEN "none" ELSE
  IF q.at = "load" THEN "check" ELSE
  IF q.at = "deliver" THEN q.target[ch] ELSE "none"

MayDeliver == {"check", "post", "logFailure"}
Shut == {"none", "yes", "no", "threw"}

(* The calls that may still deliver, or leave that to the next call; those *)
(* that no record stops any more; those whose success is to be recorded.   *)
Pending(e, ch) == {c \in Calls : Phase(call[c], e, ch) \in MayDeliver}
Unstoppable(e, ch) == \E c \in Calls : Phase(call[c], e, ch) \in {"post", "logFailure"}
Due(e, ch) == \E c \in Calls : Phase(call[c], e, ch) = "logSuccess"

(* What was delivered, and what may still be, is covered by the lapses.    *)
(* One more is only for a call that will find the success on record: it    *)
(* delivers again only after a lapse.                                      *)
Accounted(e, ch) ==
  LET n == Cardinality(Pending(e, ch)) IN
  /\ accepted[e][ch] <= lapses[e][ch] + 1
  /\ accepted[e][ch] + n <= lapses[e][ch] + 2
  /\ log[e][ch] # "success" \/ Unstoppable(e, ch)
       => accepted[e][ch] + n <= lapses[e][ch] + 1
  /\ log[e][ch] # "success" /\ ~Due(e, ch) => accepted[e][ch] <= lapses[e][ch]
AllAccounted == \A e \in Ids, ch \in Channels : Accounted(e, ch)

(* The build decides whether a destination is sent to or throws.           *)
OneBuild == \A c \in Calls : call[c] # Idle => \A ch \in Channels :
  /\ call[c].target[ch] = "threw" => ~declared
  /\ call[c].target[ch] \in {"post", "logSuccess", "logFailure"} => declared

DuplicatesInv == TakenInv /\ OneBuild /\ AllAccounted

LEMMA PendingFinite ==
  ASSUME NEW e, NEW ch
  PROVE  /\ IsFiniteSet(Pending(e, ch)) /\ Cardinality(Pending(e, ch)) \in Nat
         /\ IsFiniteSet(Pending(e, ch)') /\ Cardinality(Pending(e, ch)') \in Nat
<1>1. Pending(e, ch) \in SUBSET Calls /\ Pending(e, ch)' \in SUBSET Calls
  BY DEF Pending
<1>2. QED
  BY <1>1, FS_Subset, FS_CardinalityType, NotificationAssumption

(* What the change of one call does to the counts.                         *)
LEMMA OneCall ==
  ASSUME NEW c \in Calls, \A d \in Calls \ {c} : call'[d] = call[d],
         NEW e, NEW ch,
         NEW s, s = Phase(call[c], e, ch), NEW t, t = Phase(call'[c], e, ch)
  PROVE  LET n == Cardinality(Pending(e, ch))
             m == Cardinality(Pending(e, ch)')
         IN  /\ n \in Nat /\ m \in Nat
             /\ s \in MayDeliver => n >= 1
             /\ s \in MayDeliver /\ t \in MayDeliver => m = n
             /\ s \in MayDeliver /\ t \notin MayDeliver => m = n - 1
             /\ s \notin MayDeliver /\ t \in MayDeliver => m = n + 1
             /\ s \notin MayDeliver /\ t \notin MayDeliver => m = n
             /\ Unstoppable(e, ch)' => Unstoppable(e, ch) \/ t \in {"post", "logFailure"}
             /\ s \in {"post", "logFailure"} => Unstoppable(e, ch)
             /\ Due(e, ch) => Due(e, ch)' \/ s = "logSuccess"
             /\ t = "logSuccess" => Due(e, ch)'
<1> DEFINE P == Pending(e, ch)
           Q == Pending(e, ch)'
<1>1. /\ c \in P <=> s \in MayDeliver
      /\ c \in Q <=> t \in MayDeliver
      /\ \A d \in Calls \ {c} : d \in P <=> d \in Q
      /\ P \subseteq Calls /\ Q \subseteq Calls
  BY DEF Pending, Phase
<1>2. IsFiniteSet(P) /\ Cardinality(P) \in Nat /\ IsFiniteSet(Q) /\ Cardinality(Q) \in Nat
  BY PendingFinite
<1>3. /\ Unstoppable(e, ch)' => Unstoppable(e, ch) \/ t \in {"post", "logFailure"}
      /\ s \in {"post", "logFailure"} => Unstoppable(e, ch)
      /\ Due(e, ch) => Due(e, ch)' \/ s = "logSuccess"
      /\ t = "logSuccess" => Due(e, ch)'
  BY DEF Unstoppable, Due, Phase
<1> HIDE DEF P, Q
<1>4. c \in P => Cardinality(P) >= 1
  <2>1. c \in P => P # {}
    OBVIOUS
  <2>2. Cardinality(P) = 0 <=> P = {}
    BY <1>2, FS_EmptySet
  <2>3. QED
    BY <1>2, <2>1, <2>2
<1>5. c \in P /\ c \in Q => Q = P
  BY <1>1
<1>6. c \notin P /\ c \notin Q => Q = P
  BY <1>1
<1>7. ASSUME c \in P, c \notin Q PROVE Cardinality(Q) = Cardinality(P) - 1
  <2>1. Q = P \ {c}
    BY <1>1, <1>7
  <2>2. QED
    BY <1>2, <1>7, <2>1, FS_RemoveElement
<1>8. ASSUME c \notin P, c \in Q PROVE Cardinality(Q) = Cardinality(P) + 1
  <2>1. Q = P \cup {c}
    BY <1>1, <1>8
  <2>2. QED
    BY <1>2, <1>8, <2>1, FS_AddElement
<1>9. QED
  BY <1>1, <1>2, <1>3, <1>4, <1>5, <1>6, <1>7, <1>8 DEF P, Q

(* The transitions of one call, and what they do to the accounts.          *)
Transition(s, t, e, ch) ==
  LET Quiet == UNCHANGED <<accepted[e][ch], lapses[e][ch]>>
      Kept == log'[e][ch] = log[e][ch]
  IN  \/ Quiet /\ Kept /\ s = t
      \/ Quiet /\ Kept /\ s \in Shut \cup {"check"} /\ t \in Shut
      \/ Quiet /\ log'[e][ch] = "success" /\ s \in Shut /\ t \in Shut
      \/ Quiet /\ Kept /\ log[e][ch] # "success" /\ s = "check" /\ t = "post"
      \/ /\ accepted'[e][ch] = accepted[e][ch] + 1 /\ lapses'[e][ch] = lapses[e][ch]
         /\ Kept /\ s = "post" /\ t = "logSuccess"
      \/ /\ accepted'[e][ch] = accepted[e][ch] + 1 /\ lapses'[e][ch] = lapses[e][ch] + 1
         /\ Kept /\ s = "post" /\ t = "logFailure"
      \/ Quiet /\ Kept /\ s = "post" /\ t = "logFailure"
      \/ Quiet /\ log'[e][ch] = "success" /\ s = "logSuccess" /\ t = "yes"
      \/ /\ accepted'[e][ch] = accepted[e][ch] /\ lapses'[e][ch] = lapses[e][ch] + 1
         /\ Kept /\ s = "logSuccess" /\ t = "yes"
      \/ /\ Quiet /\ log'[e][ch] \in {log[e][ch], "failure"}
         /\ s = "logFailure" /\ t = "no"
      \/ /\ accepted'[e][ch] = accepted[e][ch] /\ lapses'[e][ch] = lapses[e][ch] + 1
         /\ Kept /\ s = "none" /\ t = "check"
      \/ /\ Quiet /\ Kept /\ s = "none" /\ t = "check"
         /\ \A c \in Calls : Phase(call[c], e, ch) = "none"

LEMMA TransitionAccounted ==
  ASSUME TypeOK, NEW e \in Ids, NEW ch \in Channels, Accounted(e, ch),
         NEW c \in Calls, \A d \in Calls \ {c} : call'[d] = call[d],
         Transition(Phase(call[c], e, ch), Phase(call'[c], e, ch), e, ch)
  PROVE  Accounted(e, ch)'
<1> DEFINE s == Phase(call[c], e, ch)
           t == Phase(call'[c], e, ch)
           n == Cardinality(Pending(e, ch))
           m == Cardinality(Pending(e, ch)')
           a == accepted[e][ch]
           b == accepted'[e][ch]
           l == lapses[e][ch]
           k == lapses'[e][ch]
           before == log[e][ch]
           after == log'[e][ch]
<1>1. a \in Nat /\ l \in Nat
  BY DEF TypeOK, Ids
<1>2. /\ n \in Nat /\ m \in Nat
      /\ s \in MayDeliver => n >= 1
      /\ s \in MayDeliver /\ t \in MayDeliver => m = n
      /\ s \in MayDeliver /\ t \notin MayDeliver => m = n - 1
      /\ s \notin MayDeliver /\ t \in MayDeliver => m = n + 1
      /\ s \notin MayDeliver /\ t \notin MayDeliver => m = n
  BY OneCall
<1>3. /\ Unstoppable(e, ch)' => Unstoppable(e, ch) \/ t \in {"post", "logFailure"}
      /\ s \in {"post", "logFailure"} => Unstoppable(e, ch)
      /\ Due(e, ch) => Due(e, ch)' \/ s = "logSuccess"
      /\ t = "logSuccess" => Due(e, ch)'
  BY OneCall
<1>4. /\ a <= l + 1
      /\ a + n <= l + 2
      /\ before # "success" \/ Unstoppable(e, ch) => a + n <= l + 1
      /\ before # "success" /\ ~Due(e, ch) => a <= l
  BY DEF Accounted
<1>5. Transition(s, t, e, ch)
  OBVIOUS
<1> SUFFICES /\ b <= k + 1
             /\ b + m <= k + 2
             /\ after # "success" \/ Unstoppable(e, ch)' => b + m <= k + 1
             /\ after # "success" /\ ~Due(e, ch)' => b <= k
  BY DEF Accounted
<1> HIDE DEF s, t, n, m, a, b, l, k, before, after
<1>6. CASE b = a /\ k = l /\ after = before /\ s = t
  BY <1>1, <1>2, <1>3, <1>4, <1>6
<1>7. CASE b = a /\ k = l /\ s \in Shut \cup {"check"} /\ t \in Shut /\ after = before
  BY <1>1, <1>2, <1>3, <1>4, <1>7 DEF Shut, MayDeliver
<1>8. CASE b = a /\ k = l /\ s \in Shut /\ t \in Shut /\ after = "success"
  BY <1>1, <1>2, <1>3, <1>4, <1>8 DEF Shut, MayDeliver
<1>9. CASE b = a /\ k = l /\ s = "check" /\ t = "post" /\ before # "success" /\ after = before
  BY <1>1, <1>2, <1>3, <1>4, <1>9 DEF MayDeliver
<1>10. CASE b = a + 1 /\ k = l /\ s = "post" /\ t = "logSuccess" /\ after = before
  BY <1>1, <1>2, <1>3, <1>4, <1>10 DEF MayDeliver
<1>11. CASE b = a + 1 /\ k = l + 1 /\ s = "post" /\ t = "logFailure" /\ after = before
  BY <1>1, <1>2, <1>3, <1>4, <1>11 DEF MayDeliver
<1>12. CASE b = a /\ k = l /\ s = "post" /\ t = "logFailure" /\ after = before
  BY <1>1, <1>2, <1>3, <1>4, <1>12 DEF MayDeliver
<1>13. CASE b = a /\ k = l /\ s = "logSuccess" /\ t = "yes" /\ after = "success"
  BY <1>1, <1>2, <1>3, <1>4, <1>13 DEF MayDeliver
<1>14. CASE b = a /\ k = l + 1 /\ s = "logSuccess" /\ t = "yes" /\ after = before
  BY <1>1, <1>2, <1>3, <1>4, <1>14 DEF MayDeliver
<1>15. CASE b = a /\ k = l /\ s = "logFailure" /\ t = "no" /\ after \in {before, "failure"}
  BY <1>1, <1>2, <1>3, <1>4, <1>15 DEF MayDeliver
<1>16. CASE b = a /\ k = l + 1 /\ s = "none" /\ t = "check" /\ after = before
  BY <1>1, <1>2, <1>3, <1>4, <1>16 DEF MayDeliver
<1>17. CASE /\ b = a /\ k = l /\ s = "none" /\ t = "check" /\ after = before
            /\ \A d \in Calls : Phase(call[d], e, ch) = "none"
  <2>1. ~Due(e, ch) /\ ~Unstoppable(e, ch)
    BY <1>17 DEF Due, Unstoppable
  <2>2. n = 0
    <3>1. Pending(e, ch) = {}
      BY <1>17 DEF Pending, MayDeliver
    <3>2. QED
      BY <3>1, FS_EmptySet DEF n
  <2>3. QED
    BY <1>1, <1>2, <1>3, <1>4, <1>17, <2>1, <2>2 DEF MayDeliver
<1>18. QED
  BY <1>5, <1>6, <1>7, <1>8, <1>9, <1>10, <1>11, <1>12, <1>13, <1>14, <1>15, <1>16, <1>17
     DEF Transition, s, t, n, m, a, b, l, k, before, after

(* Every step keeps to the build.                                          *)
BuildOf(q, d) == q # Idle => \A ch \in Channels :
  /\ q.target[ch] = "threw" => ~d
  /\ q.target[ch] \in {"post", "logSuccess", "logFailure"} => d

LEMMA OneBuildStep == TypeOK /\ AnswersTaken /\ OneBuild /\ [Next]_vars => OneBuild'
<1> SUFFICES ASSUME TypeOK, AnswersTaken, OneBuild, [Next]_vars,
                    NEW d \in Calls
             PROVE  BuildOf(call'[d], declared')
  BY DEF OneBuild, BuildOf
<1>0. BuildOf(call[d], declared)
  BY DEF OneBuild, BuildOf
<1> USE DEF config, history, bounds
<1>a. declared' = declared
  <2>1. ASSUME NEW c \in Calls, CallStep(c) PROVE declared' = declared
    BY <2>1 DEF CallStep, LoadNothing, LoadTargets, LoadFails, Noop, Check, Post,
       LogDelivery, Join, Reject
  <2>2. QED
    BY <2>1 DEF Next, vars, Start, SetEndpoint, PruneLog, Restart
<1>b. call'[d] \in {call[d], Idle} => BuildOf(call'[d], declared')
  BY <1>0, <1>a DEF BuildOf
<1>1. ASSUME NEW c \in Calls, Start(c) PROVE BuildOf(call'[d], declared')
  <2>1. PICK p \in Processes, e \in Events :
          call' = [call EXCEPT ![c] = NewCall(p, e)]
    BY <1>1 DEF Start, NewCall
  <2>2. /\ \A ch \in Channels : call'[c].target[ch] = "none"
        /\ \A f \in Calls \ {c} : call'[f] = call[f]
    BY <2>1, Started
  <2>3. QED
    BY <1>b, <2>2 DEF BuildOf
<1>2. ASSUME NEW c \in Calls, LoadNothing(c) PROVE BuildOf(call'[d], declared')
  <2>1. call[c] # Idle
    BY <1>2 DEF LoadNothing, Running
  <2>2. CASE Ends(c)
    BY <1>b, <2>2, Ended
  <2>3. CASE Goes(c, "noop")
    <3>1. /\ call'[c].target = call[c].target
          /\ \A f \in Calls \ {c} : call'[f] = call[f]
      BY <2>1, <2>3, Gone
    <3>2. QED
      BY <1>0, <1>a, <1>b, <2>1, <3>1 DEF BuildOf
  <2>4. QED
    BY <1>2, <2>2, <2>3 DEF LoadNothing
<1>3. ASSUME NEW c \in Calls, LoadTargets(c) PROVE BuildOf(call'[d], declared')
  <2>1. /\ \A ch \in Channels : call'[c].target[ch] \in {"check", "none"}
        /\ \A f \in Calls \ {c} : call'[f] = call[f]
    BY <1>3, Loaded
  <2>2. QED
    BY <1>b, <2>1 DEF BuildOf
<1>4. ASSUME NEW c \in Calls, Ends(c) PROVE BuildOf(call'[d], declared')
  BY <1>4, <1>b, Ended
<1>5. ASSUME NEW c \in Calls, NEW ch \in Channels, NEW from, NEW at \in Phases,
             AtTarget(c, ch, from), Moves(c, ch, at),
             at = "threw" => ~declared,
             at \in {"post", "logSuccess", "logFailure"} => declared
      PROVE  BuildOf(call'[d], declared')
  <2>1. call[c] # Idle
    BY <1>5 DEF AtTarget, Running
  <2>2. /\ \A f \in Calls \ {c} : call'[f] = call[f]
        /\ call'[c].target[ch] = at
        /\ \A h \in Channels \ {ch} : call'[c].target[h] = call[c].target[h]
    BY <1>5, <2>1, Moved
  <2>3. CASE d = c
    BY <1>0, <1>5, <1>a, <2>1, <2>2, <2>3 DEF BuildOf
  <2>4. CASE d # c
    BY <1>b, <2>2, <2>4
  <2>5. QED
    BY <2>3, <2>4
<1>6. ASSUME NEW c \in Calls, NEW ch \in Channels, Check(c, ch)
      PROVE  BuildOf(call'[d], declared')
  <2>1. AtTarget(c, ch, "check") /\ \E at \in {Prepare, "yes", "no"} : Moves(c, ch, at)
    BY <1>6 DEF Check
  <2>2. PICK at \in {Prepare, "yes", "no"} : Moves(c, ch, at)
    BY <2>1
  <2>3. /\ at \in Phases
        /\ at = "threw" => ~declared
        /\ at \in {"post", "logSuccess", "logFailure"} => declared
    BY <2>2 DEF Prepare, Phases
  <2>4. QED
    BY <1>5, <2>1, <2>2, <2>3
<1>7. ASSUME NEW c \in Calls, NEW ch \in Channels, Post(c, ch)
      PROVE  BuildOf(call'[d], declared')
  <2>1. AtTarget(c, ch, "post")
    BY <1>7 DEF Post
  <2>2. declared
    BY <2>1 DEF AtTarget, Running, OneBuild
  <2>3. PICK at \in {"logSuccess", "logFailure"} : Moves(c, ch, at)
    BY <1>7 DEF Post
  <2>4. QED
    BY <1>5, <2>1, <2>2, <2>3 DEF Phases
<1>8. ASSUME NEW c \in Calls, NEW ch \in Channels, LogDelivery(c, ch)
      PROVE  BuildOf(call'[d], declared')
  <2>1. PICK at \in {"yes", "no"}, from \in {"logSuccess", "logFailure"} :
          AtTarget(c, ch, from) /\ Moves(c, ch, at)
    BY <1>8 DEF LogDelivery
  <2>2. QED
    BY <1>5, <2>1 DEF Phases
<1>9. ASSUME NEW p \in Processes, Restart(p) PROVE BuildOf(call'[d], declared')
  BY <1>9, <1>b DEF Restart
<1>10. CASE UNCHANGED call
  BY <1>10, <1>b
<1>11. \/ UNCHANGED call
       \/ \E c \in Calls : \/ Start(c) \/ LoadNothing(c) \/ LoadTargets(c) \/ Ends(c)
                           \/ \E ch \in Channels : Check(c, ch) \/ Post(c, ch)
                                                     \/ LogDelivery(c, ch)
       \/ \E p \in Processes : Restart(p)
  BY DEF Next, vars, CallStep, LoadFails, Noop, Join, Reject, SetEndpoint, PruneLog
<1>12. QED
  BY <1>1, <1>2, <1>3, <1>4, <1>6, <1>7, <1>8, <1>9, <1>10, <1>11

(* What a step of a call is to an event and a channel.                     *)
LEMMA PhaseMoved ==
  ASSUME TypeOK, NEW c \in Calls, NEW ch \in Channels, NEW from, NEW at \in Phases,
         AtTarget(c, ch, from), Moves(c, ch, at), NEW e, NEW h \in Channels
  PROVE  /\ \A d \in Calls \ {c} : call'[d] = call[d]
         /\ call[c].event = e /\ h = ch =>
              Phase(call[c], e, h) = from /\ Phase(call'[c], e, h) = at
         /\ ~(call[c].event = e /\ h = ch) =>
              Phase(call'[c], e, h) = Phase(call[c], e, h)
<1>1. call[c] # Idle /\ call[c].at = "deliver" /\ call[c].target[ch] = from
  BY DEF AtTarget, Running
<1>2. /\ \A d \in Calls \ {c} : call'[d] = call[d]
      /\ call'[c] # Idle
      /\ call'[c].event = call[c].event /\ call'[c].at = call[c].at
      /\ call'[c].target[ch] = at
      /\ \A g \in Channels \ {ch} : call'[c].target[g] = call[c].target[g]
  BY <1>1, Moved
<1>3. QED
  BY <1>1, <1>2 DEF Phase

(* Every step keeps the accounts of an event and a channel.                *)
LEMMA AccountedStep ==
  ASSUME TakenInv, OneBuild, [Next]_vars,
         NEW e \in Ids, NEW h \in Channels, Accounted(e, h)
  PROVE  Accounted(e, h)'
<1>0. /\ TypeOK
      /\ \A c \in Calls : call[c] # Idle =>
           call[c] \in Call /\ call[c].event \in Events
      /\ log \in [Ids -> [Channels -> Outcomes]]
      /\ accepted \in Counts /\ lapses \in Counts
      /\ accepted[e][h] \in Nat /\ lapses[e][h] \in Nat
      /\ e \in Events /\ e \notin NoId
  BY DEF TakenInv, TypeOK, Call, Ids, Outcomes, Counts
<1> USE DEF config, history, bounds
<1>q. ASSUME UNCHANGED <<log, accepted, lapses>>
      PROVE  UNCHANGED <<accepted[e][h], lapses[e][h]>> /\ log'[e][h] = log[e][h]
  BY <1>q
<1>s. ASSUME NEW c \in Calls, \A d \in Calls \ {c} : call'[d] = call[d],
             Transition(Phase(call[c], e, h), Phase(call'[c], e, h), e, h)
      PROVE  Accounted(e, h)'
  BY <1>0, <1>s, TransitionAccounted
<1>1. ASSUME NEW c \in Calls, Start(c) PROVE Accounted(e, h)'
  <2>1. PICK p \in Processes, f \in Events :
          /\ call' = [call EXCEPT ![c] = NewCall(p, f)]
          /\ lapses' = IF Overlap(f)
                         THEN [lapses EXCEPT ![f] = [ch \in Channels |-> @[ch] + 1]]
                         ELSE lapses
    BY <1>1 DEF Start, NewCall
  <2>2. /\ call'[c] # Idle /\ call'[c].event = f /\ call'[c].at = "load"
        /\ \A d \in Calls \ {c} : call'[d] = call[d]
        /\ UNCHANGED <<log, accepted>> /\ call[c] = Idle
    <3>1. UNCHANGED <<log, accepted>> /\ call[c] = Idle
      BY <1>1 DEF Start
    <3>2. QED
      BY <1>0, <2>1, <3>1, Started
  <2>3. Phase(call[c], e, h) = "none"
    BY <2>2 DEF Phase
  <2>4. CASE f # e
    <3>1. Phase(call'[c], e, h) = "none" /\ lapses'[e][h] = lapses[e][h]
      BY <1>0, <2>1, <2>2, <2>4 DEF Phase, Counts
    <3>2. QED
      BY <1>s, <2>2, <2>3, <3>1 DEF Transition
  <2>5. CASE f = e
    <3>1. Phase(call'[c], e, h) = "check"
      BY <2>2, <2>5 DEF Phase
    <3>2. CASE Overlap(e)
      <4>1. lapses'[e][h] = lapses[e][h] + 1
        BY <1>0, <2>1, <2>5, <3>2 DEF Counts
      <4>2. QED
        BY <1>s, <2>2, <2>3, <3>1, <4>1 DEF Transition
    <3>3. CASE ~Overlap(e)
      <4>1. \A d \in Calls : Phase(call[d], e, h) = "none"
        BY <1>0, <3>3 DEF Overlap, Phase
      <4>2. lapses'[e][h] = lapses[e][h]
        BY <2>1, <2>5, <3>3
      <4>3. QED
        BY <1>s, <2>2, <2>3, <3>1, <4>1, <4>2 DEF Transition
    <3>4. QED
      BY <3>2, <3>3
  <2>6. QED
    BY <2>4, <2>5
<1>2. ASSUME NEW c \in Calls, LoadNothing(c) \/ LoadFails(c) PROVE Accounted(e, h)'
  <2>1. /\ call[c] # Idle /\ call[c].at = "load" /\ UNCHANGED <<log, accepted, lapses>>
        /\ Ends(c) \/ Goes(c, "noop")
    BY <1>2 DEF LoadNothing, LoadFails, Running
  <2>2. /\ \A d \in Calls \ {c} : call'[d] = call[d]
        /\ call'[c] = Idle \/ call'[c].at = "noop"
    BY <1>0, <2>1, Ended, Gone
  <2>3. Phase(call[c], e, h) \in {"none", "check"} /\ Phase(call'[c], e, h) = "none"
    BY <2>1, <2>2 DEF Phase
  <2>4. Transition(Phase(call[c], e, h), Phase(call'[c], e, h), e, h)
    BY <1>q, <2>1, <2>3 DEF Transition, Shut
  <2>5. QED
    BY <1>s, <2>2, <2>4
<1>3. ASSUME NEW c \in Calls, LoadTargets(c) PROVE Accounted(e, h)'
  <2>1. /\ call[c] # Idle /\ call[c].at = "load" /\ UNCHANGED <<log, accepted, lapses>>
    BY <1>3 DEF LoadTargets, Running
  <2>2. /\ \A d \in Calls \ {c} : call'[d] = call[d]
        /\ call'[c] # Idle /\ call'[c].at = "deliver"
        /\ call'[c].event = call[c].event
        /\ call'[c].target[h] \in {"check", "none"}
    BY <1>0, <1>3, Loaded
  <2>3. \/ Phase(call[c], e, h) = Phase(call'[c], e, h)
        \/ Phase(call[c], e, h) = "check" /\ Phase(call'[c], e, h) = "none"
    BY <2>1, <2>2 DEF Phase
  <2>4. Transition(Phase(call[c], e, h), Phase(call'[c], e, h), e, h)
    BY <1>q, <2>1, <2>3 DEF Transition, Shut
  <2>5. QED
    BY <1>s, <2>2, <2>4
<1>4. ASSUME NEW c \in Calls, Noop(c) PROVE Accounted(e, h)'
  <2>1. /\ call[c] # Idle /\ call[c].at = "noop" /\ UNCHANGED <<accepted, lapses>>
        /\ Ends(c)
    BY <1>4 DEF Noop, Running
  <2>2. Phase(call[c], e, h) = "none" /\ Phase(call'[c], e, h) = "none"
        /\ \A d \in Calls \ {c} : call'[d] = call[d]
    BY <1>0, <2>1, Ended DEF Phase
  <2>3. log'[e][h] = log[e][h] \/ log'[e][h] = "success"
    BY <1>0, <1>4 DEF Noop
  <2>4. Transition(Phase(call[c], e, h), Phase(call'[c], e, h), e, h)
    BY <2>1, <2>2, <2>3 DEF Transition, Shut
  <2>5. QED
    BY <1>s, <2>2, <2>4
<1>5. ASSUME NEW c \in Calls, NEW ch \in Channels, NEW from, NEW at \in Phases,
             AtTarget(c, ch, from), Moves(c, ch, at),
             ~(call[c].event = e /\ h = ch) =>
                UNCHANGED <<accepted[e][h], lapses[e][h], log[e][h]>>,
             call[c].event = e /\ h = ch => Transition(from, at, e, h)
      PROVE  Accounted(e, h)'
  <2>1. /\ \A d \in Calls \ {c} : call'[d] = call[d]
        /\ call[c].event = e /\ h = ch =>
             Phase(call[c], e, h) = from /\ Phase(call'[c], e, h) = at
        /\ ~(call[c].event = e /\ h = ch) =>
             Phase(call'[c], e, h) = Phase(call[c], e, h)
    BY <1>0, <1>5, PhaseMoved, SMTT(30)
  <2>2. CASE call[c].event = e /\ h = ch
    BY <1>5, <1>s, <2>1, <2>2
  <2>3. CASE ~(call[c].event = e /\ h = ch)
    <3>1. Transition(Phase(call[c], e, h), Phase(call'[c], e, h), e, h)
      BY <1>5, <2>1, <2>3 DEF Transition
    <3>2. QED
      BY <1>s, <2>1, <3>1
  <2>4. QED
    BY <2>2, <2>3
<1>6. ASSUME NEW c \in Calls, NEW ch \in Channels, Check(c, ch) PROVE Accounted(e, h)'
  <2>1. PICK at \in Phases :
          /\ Moves(c, ch, at)
          /\ at \in Shut \/ (at = "post" /\ ~Recorded(call[c].event, ch))
    BY <1>6 DEF Check, Prepare, Phases, Shut
  <2>2. AtTarget(c, ch, "check") /\ UNCHANGED <<log, accepted, lapses>>
    BY <1>6 DEF Check
  <2>3. call[c].event = e /\ h = ch => Transition("check", at, e, h)
    BY <1>0, <1>q, <2>1, <2>2 DEF Transition, Recorded
  <2>4. QED
    BY <1>5, <1>q, <2>1, <2>2, <2>3
<1>7. ASSUME NEW c \in Calls, NEW ch \in Channels, Post(c, ch) PROVE Accounted(e, h)'
  <2>1. AtTarget(c, ch, "post") /\ UNCHANGED log /\ call[c].event \in Events
    BY <1>0, <1>7 DEF Post, AtTarget, Running
  <2>2. PICK at \in {"logSuccess", "logFailure"} :
          /\ Moves(c, ch, at)
          /\ \/ at = "logSuccess" /\ Taken(call[c].event, ch) /\ UNCHANGED lapses
             \/ at = "logFailure" /\ Taken(call[c].event, ch) /\ Lapse(call[c].event, ch)
             \/ at = "logFailure" /\ UNCHANGED <<accepted, lapses>>
    BY <1>7 DEF Post
  <2>t. Taken(call[c].event, ch) =>
          accepted'[e][h] = IF e = call[c].event /\ h = ch THEN accepted[e][h] + 1
                                                         ELSE accepted[e][h]
    BY <1>0, <2>1, TakenEffect
  <2>l. Lapse(call[c].event, ch) =>
          lapses'[e][h] = IF e = call[c].event /\ h = ch THEN lapses[e][h] + 1
                                                       ELSE lapses[e][h]
    BY <1>0, <2>1, LapseEffect
  <2>3. ~(call[c].event = e /\ h = ch) =>
          UNCHANGED <<accepted[e][h], lapses[e][h], log[e][h]>>
    BY <2>1, <2>2, <2>t, <2>l
  <2>4. call[c].event = e /\ h = ch => Transition("post", at, e, h)
    BY <2>1, <2>2, <2>t, <2>l DEF Transition
  <2>5. QED
    BY <1>5, <2>1, <2>2, <2>3, <2>4 DEF Phases
<1>8. ASSUME NEW c \in Calls, NEW ch \in Channels, LogDelivery(c, ch)
      PROVE  Accounted(e, h)'
  <2>1. PICK success \in BOOLEAN :
          /\ AtTarget(c, ch, IF success THEN "logSuccess" ELSE "logFailure")
          /\ Moves(c, ch, IF success THEN "yes" ELSE "no")
          /\ \/ /\ UNCHANGED lapses
                /\ log' = IF call[c].event \in NoId THEN log ELSE
                     [log EXCEPT ![call[c].event][ch] =
                        IF success THEN "success" ELSE "failure"]
             \/ /\ UNCHANGED log
                /\ IF success THEN Lapse(call[c].event, ch) ELSE UNCHANGED lapses
          /\ UNCHANGED accepted
    BY <1>8 DEF LogDelivery
  <2>2. call[c].event \in Events
    BY <1>0, <2>1 DEF AtTarget, Running
  <2>l. Lapse(call[c].event, ch) =>
          lapses'[e][h] = IF e = call[c].event /\ h = ch THEN lapses[e][h] + 1
                                                       ELSE lapses[e][h]
    BY <1>0, <2>2, LapseEffect
  <2>3. ~(call[c].event = e /\ h = ch) =>
          UNCHANGED <<accepted[e][h], lapses[e][h], log[e][h]>>
    BY <1>0, <2>1, <2>l
  <2>4. CASE success
    <3>1. AtTarget(c, ch, "logSuccess") /\ Moves(c, ch, "yes")
      BY <2>1, <2>4
    <3>2. ASSUME call[c].event = e, h = ch PROVE Transition("logSuccess", "yes", e, h)
      <4>1. CASE UNCHANGED lapses /\ log' = [log EXCEPT ![e][h] = "success"]
        BY <1>0, <2>1, <4>1 DEF Transition
      <4>2. CASE UNCHANGED log /\ Lapse(call[c].event, ch)
        BY <2>1, <2>l, <3>2, <4>2 DEF Transition
      <4>3. QED
        BY <1>0, <2>1, <2>4, <3>2, <4>1, <4>2
    <3>3. QED
      BY <1>5, <2>3, <3>1, <3>2 DEF Phases
  <2>5. CASE ~success
    <3>1. AtTarget(c, ch, "logFailure") /\ Moves(c, ch, "no")
      BY <2>1, <2>5
    <3>2. ASSUME call[c].event = e, h = ch PROVE Transition("logFailure", "no", e, h)
      <4>1. CASE log' = [log EXCEPT ![e][h] = "failure"]
        BY <1>0, <2>1, <2>5, <4>1 DEF Transition
      <4>2. CASE UNCHANGED log
        BY <2>1, <2>5, <4>2 DEF Transition
      <4>3. QED
        BY <1>0, <2>1, <2>5, <3>2, <4>1, <4>2
    <3>3. QED
      BY <1>5, <2>3, <3>1, <3>2 DEF Phases
  <2>6. QED
    BY <2>4, <2>5
<1>9. ASSUME NEW c \in Calls, Join(c) \/ Reject(c) PROVE Accounted(e, h)'
  <2>1. /\ Ends(c) /\ UNCHANGED <<log, accepted, lapses>>
        /\ call[c] # Idle /\ call[c].at = "deliver"
    BY <1>9 DEF Join, Reject, Running
  <2>2. call[c].target[h] \in Shut \cup {"check"}
    <3>1. call[c].target[h] \in Phases
      BY <1>0, <2>1 DEF Call
    <3>2. CASE Join(c)
      BY <3>2 DEF Join, Answers, Shut
    <3>3. CASE Reject(c)
      <4>1. ~declared
        BY <2>1, <3>3 DEF Reject, Answers, OneBuild
      <4>2. QED
        BY <2>1, <3>1, <4>1 DEF OneBuild, Phases, Shut
    <3>4. QED
      BY <1>9, <3>2, <3>3
  <2>3. /\ \A d \in Calls \ {c} : call'[d] = call[d]
        /\ Phase(call[c], e, h) \in Shut \cup {"check"} /\ Phase(call'[c], e, h) = "none"
    BY <1>0, <2>1, <2>2, Ended DEF Phase, Shut
  <2>4. Transition(Phase(call[c], e, h), Phase(call'[c], e, h), e, h)
    BY <1>q, <2>1, <2>3 DEF Transition, Shut
  <2>5. QED
    BY <1>s, <2>3, <2>4
<1>10. CASE UNCHANGED <<call, log, accepted, lapses>>
  <2>1. Pending(e, h)' = Pending(e, h) /\ Unstoppable(e, h)' = Unstoppable(e, h)
        /\ Due(e, h)' = Due(e, h)
    BY <1>10 DEF Pending, Unstoppable, Due, Phase
  <2>2. QED
    BY <1>10, <2>1 DEF Accounted
<1>11. CASE PruneLog
  <2>1. PICK f \in Ids, ch \in Channels :
          /\ log' = [log EXCEPT ![f][ch] = "none"]
          /\ IF log[f][ch] = "success" THEN Lapse(f, ch) ELSE UNCHANGED lapses
    BY <1>11 DEF PruneLog, Ids
  <2>2. UNCHANGED <<call, accepted>>
    BY <1>11 DEF PruneLog
  <2>3. /\ Pending(e, h)' = Pending(e, h)
        /\ Unstoppable(e, h)' <=> Unstoppable(e, h)
        /\ Due(e, h)' <=> Due(e, h)
        /\ Cardinality(Pending(e, h)) \in Nat
    <3>1. \A d : Phase(call[d], e, h)' = Phase(call[d], e, h)
      BY <2>2 DEF Phase
    <3>2. QED
      BY <3>1, PendingFinite DEF Pending, Unstoppable, Due
  <2>4. \/ log'[e][h] = log[e][h] /\ lapses'[e][h] = lapses[e][h]
        \/ /\ log[e][h] # "success" /\ log'[e][h] # "success"
           /\ lapses'[e][h] = lapses[e][h]
        \/ /\ log[e][h] = "success" /\ log'[e][h] # "success"
           /\ lapses'[e][h] = lapses[e][h] + 1
    <3>1. CASE e = f /\ h = ch
      <4>1. log'[e][h] = "none"
        BY <1>0, <2>1, <3>1
      <4>2. CASE log[e][h] = "success"
        <5>1. Lapse(f, ch) /\ f \in Events
          BY <2>1, <3>1, <4>2 DEF Ids
        <5>2. QED
          BY <1>0, <3>1, <4>1, <4>2, <5>1, LapseEffect
      <4>3. CASE log[e][h] # "success"
        BY <2>1, <3>1, <4>1, <4>3
      <4>4. QED
        BY <4>2, <4>3
    <3>2. CASE ~(e = f /\ h = ch)
      <4>1. log'[e][h] = log[e][h]
        BY <1>0, <2>1, <3>2
      <4>2. f \in Events
        BY DEF Ids
      <4>3. lapses'[e][h] = lapses[e][h]
        BY <1>0, <2>1, <3>2, <4>2, LapseEffect
      <4>4. QED
        BY <4>1, <4>3
    <3>3. QED
      BY <3>1, <3>2
  <2>5. QED
    BY <1>0, <2>2, <2>3, <2>4 DEF Accounted
<1>12. ASSUME NEW p \in Processes, Restart(p) PROVE Accounted(e, h)'
  <2> DEFINE lost == \E c \in Calls : /\ call[c] # Idle /\ call[c].process = p
                                      /\ call[c].event = e
                                      /\ call[c].target[h] = "logSuccess"
  <2>1. /\ UNCHANGED <<log, accepted>>
        /\ call' = [c \in Calls |->
             IF call[c] # Idle /\ call[c].process = p THEN Idle ELSE call[c]]
    BY <1>12 DEF Restart
  <2>2. lapses'[e][h] = IF lost THEN lapses[e][h] + 1 ELSE lapses[e][h]
    BY <1>12 DEF Restart, Ids
  <2>3. Due(e, h) => Due(e, h)' \/ lost
    BY <2>1 DEF Due, Phase
  <2>4. Unstoppable(e, h)' => Unstoppable(e, h)
    BY <2>1 DEF Unstoppable, Phase
  <2>5. Pending(e, h)' \in SUBSET Pending(e, h)
    BY <2>1 DEF Pending, Phase, MayDeliver
  <2>6. /\ Cardinality(Pending(e, h)') <= Cardinality(Pending(e, h))
        /\ Cardinality(Pending(e, h)') \in Nat /\ Cardinality(Pending(e, h)) \in Nat
    BY <2>5, PendingFinite, FS_Subset
  <2> HIDE DEF lost
  <2>7. QED
    BY <1>0, <2>1, <2>2, <2>3, <2>4, <2>6 DEF Accounted
<1>13. QED
  BY <1>1, <1>2, <1>3, <1>4, <1>6, <1>7, <1>8, <1>9, <1>10, <1>11, <1>12
     DEF Next, vars, CallStep, SetEndpoint

LEMMA DuplicatesInvariance == Spec => []DuplicatesInv
<1>1. Init => DuplicatesInv
  <2> SUFFICES ASSUME Init PROVE DuplicatesInv
    OBVIOUS
  <2>1. TakenInv
    BY TypeInit DEF Init, TakenInv, AnswersTaken, CallTaken, RecordedSuccessIsReal, Channels
  <2>2. OneBuild
    BY DEF Init, OneBuild
  <2>3. ASSUME NEW e \in Ids, NEW ch \in Channels PROVE Accounted(e, ch)
    <3>1. Pending(e, ch) = {} /\ accepted[e][ch] = 0 /\ lapses[e][ch] = 0
      BY <2>3 DEF Init, Pending, Phase, MayDeliver, Ids
    <3>2. Cardinality(Pending(e, ch)) = 0
      BY <3>1, FS_EmptySet
    <3>3. QED
      BY <3>1, <3>2 DEF Accounted
  <2>4. QED
    BY <2>1, <2>2, <2>3 DEF DuplicatesInv, AllAccounted
<1>2. DuplicatesInv /\ [Next]_vars => DuplicatesInv'
  <2> SUFFICES ASSUME DuplicatesInv, [Next]_vars PROVE DuplicatesInv'
    OBVIOUS
  <2>1. TakenInv /\ OneBuild /\ TypeOK /\ AnswersTaken
    BY DEF DuplicatesInv, TakenInv
  <2>2. TakenInv' /\ OneBuild'
    BY <2>1, TypeStep, TakenStep, OneBuildStep DEF TakenInv
  <2>3. \A e \in Ids, ch \in Channels : Accounted(e, ch)'
    BY <2>1, AccountedStep DEF DuplicatesInv, AllAccounted
  <2>4. AllAccounted'
    BY <2>3 DEF AllAccounted
  <2>5. QED
    BY <2>2, <2>4 DEF DuplicatesInv
<1>3. QED
  BY <1>1, <1>2, PTL DEF Spec

(* A destination gets an event with an id once, and once more for each     *)
(* lapse at most: through calls that overlap, restarts, prunings, changes  *)
(* of the endpoints and any loss of a write or of an answer.               *)
THEOREM DuplicatesCaused == Spec => []DuplicatesHaveCause
<1>1. DuplicatesInv => DuplicatesHaveCause
  BY DEF DuplicatesInv, AllAccounted, Accounted, TakenInv, TypeOK, DuplicatesHaveCause, Ids
<1>2. QED
  BY <1>1, DuplicatesInvariance, PTL
=============================================================================
