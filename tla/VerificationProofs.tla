------------------------- MODULE VerificationProofs -------------------------
(***************************************************************************)
(* Theorems about the verified flag: for any number of owners and events,  *)
(* and however the indexer, the replay script and the reconciliation       *)
(* script come between each other.                                         *)
(***************************************************************************)
EXTENDS Verification, Induction, SequenceTheorems

----------------------------------------------------------------------------
(* What the invariant says.                                                *)

(* An owner registers first, and once.                                     *)
LegalLog ==
  \A i \in 1 .. Len(log) : log[i].type = "register" =>
    /\ before[log[i].owner] = "none"
    /\ \A j \in 1 .. i - 1 : log[j].owner # log[i].owner

(* Owner o is verified after n events of the log: an approval is the last  *)
(* of its events, or it has none and was verified before.                  *)
Touched(o, n) == \E i \in 1 .. n : log[i].owner = o
VerifiedAt(o, n) ==
  \/ \E i \in 1 .. n : /\ log[i].owner = o /\ log[i].type = "approved"
                       /\ \A j \in i + 1 .. n : log[j].owner # o
  \/ before[o] = "verified" /\ ~Touched(o, n)

(* The script has a row for what it listed, and reports what the contract  *)
(* said when it read it.                                                   *)
JobFine(o) ==
  /\ job[o].at \in {"listed", "mismatch"} => ngo[o] # Absent
  /\ job[o].at = "mismatch" =>
       \E n \in 0 .. Len(log) : n = job[o].as /\ (job[o].verified <=> VerifiedAt(o, n))
JobInv == \A o \in Owners : JobFine(o)

(* A flag that is not stale says what the contract did at some position,   *)
(* and no approval or revocation came to the indexer after that one.       *)
Current(o, n) ==
  /\ ngo[o].verified <=> VerifiedAt(o, n)
  /\ ~Overtaken(o, n)
FlagInv ==
  \A o \in Owners : ngo[o] # Absent /\ o \notin stale =>
    \E n \in 0 .. Len(log) : Current(o, n)

(* While nothing else happens, the script knows what the flag is, what it  *)
(* should be, and that it is.                                              *)
QuietInv ==
  quiet => \A o \in Owners :
    /\ job[o].at = "listed" => job[o].seen = ngo[o].verified
    /\ job[o].at = "mismatch" => (job[o].verified <=> OnChain(o) = "verified")
    /\ job[o].at = "done" /\ OnChain(o) # "none" =>
         (ngo[o].verified <=> OnChain(o) = "verified")

IInv == TypeOK /\ LegalLog /\ JobInv /\ FlagInv /\ QuietInv

----------------------------------------------------------------------------
(* The log and the contract.                                               *)

LEMMA LogIs ==
  ASSUME TypeOK
  PROVE  /\ Len(log) \in Nat /\ log \in [1 .. Len(log) -> Event]
         /\ \A i \in 1 .. Len(log) : /\ log[i] \in Event
                                     /\ log[i].owner \in Owners /\ log[i].type \in Types
         /\ Position \in 0 .. Len(log)
<1>1. Len(log) \in Nat /\ log \in [1 .. Len(log) -> Event]
  BY LenProperties DEF TypeOK
<1>2. \A i \in 1 .. Len(log) : /\ log[i] \in Event
                               /\ log[i].owner \in Owners /\ log[i].type \in Types
  BY <1>1 DEF Event
<1>3. saved \in 0 .. Len(log) /\ (handled => saved < Len(log)) /\ handled \in BOOLEAN
  BY DEF TypeOK
<1>4. Position \in 0 .. Len(log)
  BY <1>1, <1>3 DEF Position
<1>5. QED
  BY <1>1, <1>2, <1>4

(* The library's maximum of a set of positions.                            *)
LEMMA MaxIs ==
  ASSUME NEW n \in Nat, NEW T \in SUBSET (1 .. n), T # {}
  PROVE  Max(T) \in T /\ \A i \in T : i <= Max(T)
<1>1. T \in SUBSET (0 .. n)
  OBVIOUS
<1>2. \E x \in T : \A y \in T : y <= x
  BY <1>1, GreatestNumber
<1>3. \A x, y \in T : x >= y <=> y <= x
  OBVIOUS
<1>4. \E x \in T : \A y \in T : x >= y
  BY <1>2, <1>3
<1>5. Max(T) \in T /\ \A y \in T : Max(T) >= y
  BY <1>4 DEF Max
<1>6. QED
  BY <1>3, <1>5

LEMMA OnChainIs ==
  ASSUME TypeOK, NEW o \in Owners
  PROVE  /\ OnChain(o) = "verified" <=> VerifiedAt(o, Len(log))
         /\ OnChain(o) = "none" <=> before[o] = "none" /\ ~Touched(o, Len(log))
         /\ OnChain(o) \in Status
<1> DEFINE n == Len(log)
           mine == {i \in 1 .. n : log[i].owner = o}
<1>1. n \in Nat /\ \A i \in 1 .. n : log[i].type \in Types
  BY LogIs
<1>2. before[o] \in Status
  BY DEF TypeOK
<1>3. CASE mine = {}
  <2>1. OnChain(o) = before[o] /\ ~Touched(o, n)
    BY <1>3 DEF OnChain, Touched
  <2>2. VerifiedAt(o, n) <=> before[o] = "verified"
    BY <2>1 DEF VerifiedAt, Touched
  <2>3. QED
    BY <1>2, <2>1, <2>2
<1>4. CASE mine # {}
  <2> DEFINE m == Max(mine)
  <2>1. m \in mine /\ \A i \in mine : i <= m
    <3> HIDE DEF n
    <3>1. mine \in SUBSET (1 .. n)
      OBVIOUS
    <3> HIDE DEF mine
    <3>2. QED
      BY <1>1, <1>4, <3>1, MaxIs
  <2>2. OnChain(o) = IF log[m].type = "approved" THEN "verified" ELSE "registered"
    BY <1>4 DEF OnChain
  <2> HIDE DEF m
  <2>3. /\ m \in 1 .. n /\ log[m].owner = o
        /\ \A i \in 1 .. n : log[i].owner = o => i <= m
    BY <2>1
  <2> HIDE DEF n
  <2>4. Touched(o, n)
    BY <2>3 DEF Touched
  <2>5. VerifiedAt(o, n) <=> log[m].type = "approved"
    <3>1. ASSUME log[m].type = "approved" PROVE VerifiedAt(o, n)
      <4>1. \A j \in m + 1 .. n : log[j].owner # o
        BY <1>1, <2>3
      <4>2. QED
        BY <2>3, <3>1, <4>1 DEF VerifiedAt
    <3>2. ASSUME VerifiedAt(o, n) PROVE log[m].type = "approved"
      <4>1. PICK i \in 1 .. n : /\ log[i].owner = o /\ log[i].type = "approved"
                                /\ \A j \in i + 1 .. n : log[j].owner # o
        BY <2>4, <3>2 DEF VerifiedAt
      <4>2. i <= m /\ ~(m \in i + 1 .. n)
        BY <2>3, <4>1
      <4>3. i = m
        BY <1>1, <2>3, <4>2
      <4>4. QED
        BY <4>1, <4>3
    <3>3. QED
      BY <3>1, <3>2
  <2>6. QED
    BY <2>2, <2>4, <2>5 DEF n, Status
<1>5. QED
  BY <1>3, <1>4

(* After an event of o, it is verified when that was an approval.          *)
LEMMA AtEvent ==
  ASSUME TypeOK, NEW i \in 1 .. Len(log), NEW o, log[i].owner = o
  PROVE  VerifiedAt(o, i) <=> log[i].type = "approved"
<1>1. i \in Nat /\ i \in 1 .. i /\ i + 1 .. i = {}
  BY LogIs
<1>2. Touched(o, i)
  BY <1>1 DEF Touched
<1>3. ASSUME VerifiedAt(o, i) PROVE log[i].type = "approved"
  <2>1. PICK k \in 1 .. i : /\ log[k].owner = o /\ log[k].type = "approved"
                            /\ \A j \in k + 1 .. i : log[j].owner # o
    BY <1>2, <1>3 DEF VerifiedAt
  <2>2. ~(i \in k + 1 .. i)
    BY <2>1
  <2>3. k = i
    BY <1>1, <2>2
  <2>4. QED
    BY <2>1, <2>3
<1>4. ASSUME log[i].type = "approved" PROVE VerifiedAt(o, i)
  BY <1>1, <1>4 DEF VerifiedAt
<1>5. QED
  BY <1>3, <1>4

(* Between two positions with no approval or revocation in between the     *)
(* flag is the same: there is at most the registration of an owner that    *)
(* was not verified.                                                       *)
LEMMA SameBetween ==
  ASSUME TypeOK, LegalLog, NEW o, NEW m \in 0 .. Len(log), NEW n \in 0 .. m,
         \A i \in n + 1 .. m : log[i].owner = o => log[i].type = "register"
  PROVE  VerifiedAt(o, n) <=> VerifiedAt(o, m)
<1>1. /\ Len(log) \in Nat /\ m \in Nat /\ n \in Nat /\ n <= m /\ m <= Len(log)
      /\ 1 .. m = 1 .. n \cup n + 1 .. m
  BY LogIs
<1>2. CASE \E i \in n + 1 .. m : log[i].owner = o
  <2>1. PICK i \in n + 1 .. m : log[i].owner = o /\ log[i].type = "register"
    BY <1>2
  <2>2. i \in 1 .. Len(log) /\ \A j \in 1 .. n : j \in 1 .. i - 1
    BY <1>1
  <2>3. before[o] = "none" /\ \A j \in 1 .. i - 1 : log[j].owner # o
    BY <2>1, <2>2 DEF LegalLog
  <2>4. ~VerifiedAt(o, n)
    BY <2>2, <2>3 DEF VerifiedAt
  <2>5. \A j \in 1 .. m : log[j].owner = o => log[j].type = "register"
    BY <1>1, <2>2, <2>3
  <2>6. ~VerifiedAt(o, m)
    BY <2>3, <2>5 DEF VerifiedAt
  <2>7. QED
    BY <2>4, <2>6
<1>3. CASE \A i \in n + 1 .. m : log[i].owner # o
  <2>1. Touched(o, n) <=> Touched(o, m)
    BY <1>1, <1>3 DEF Touched
  <2>2. \A i \in 1 .. n : /\ i \in 1 .. m
                          /\ (\A j \in i + 1 .. n : log[j].owner # o)
                               <=> (\A j \in i + 1 .. m : log[j].owner # o)
    <3>1. TAKE i \in 1 .. n
    <3>2. i + 1 .. m = i + 1 .. n \cup n + 1 .. m
      BY <1>1
    <3>3. QED
      BY <1>1, <1>3, <3>2
  <2>3. QED
    BY <1>1, <1>3, <2>1, <2>2 DEF VerifiedAt
<1>4. QED
  BY <1>2, <1>3

(* The contract emits an event.                                            *)
LEMMA EmitIs ==
  ASSUME TypeOK, NEW p \in Owners, NEW type \in Types, Emit(p, type)
  PROVE  /\ log' \in Seq(Event) /\ Len(log') = Len(log) + 1 /\ Len(log') <= MaxEvents
         /\ \A i \in 1 .. Len(log) : log'[i] = log[i]
         /\ log'[Len(log) + 1] = [type |-> type, owner |-> p]
         /\ \A o : \A n \in 0 .. Len(log) : VerifiedAt(o, n)' <=> VerifiedAt(o, n)
<1> DEFINE e == [type |-> type, owner |-> p]
<1>1. e \in Event /\ log \in Seq(Event) /\ Len(log) \in Nat
  BY LogIs DEF TypeOK, Event
<1>2. log' = Append(log, e) /\ Len(log) < MaxEvents /\ before' = before
  BY DEF Emit, chain
<1> HIDE DEF e
<1>3. /\ log' \in Seq(Event) /\ Len(log') = Len(log) + 1
      /\ \A i \in 1 .. Len(log) : log'[i] = log[i]
      /\ log'[Len(log) + 1] = e
  BY <1>1, <1>2
<1>4. ASSUME NEW o, NEW n \in 0 .. Len(log)
      PROVE  VerifiedAt(o, n)' <=> VerifiedAt(o, n)
  <2>1. \A i \in 1 .. n : i \in 1 .. Len(log) /\ log'[i] = log[i]
    BY <1>1, <1>3
  <2>2. \A i \in 1 .. n : \A j \in i + 1 .. n : log'[j] = log[j]
    BY <1>1, <2>1
  <2>3. Touched(o, n)' <=> Touched(o, n)
    BY <2>1 DEF Touched
  <2>4. QED
    BY <1>2, <2>1, <2>2, <2>3 DEF VerifiedAt
<1>5. QED
  BY <1>1, <1>2, <1>3, <1>4, VerificationAssumption DEF e

----------------------------------------------------------------------------
(* Types.                                                                  *)

LEMMA RowType == \A v, b \in BOOLEAN : Row(v, b) \in NgoRow
BY DEF Row, NgoRow

LEMMA JobFields ==
  ASSUME TypeOK, NEW o \in Owners
  PROVE  /\ job[o].at \in {"none", "done", "failed", "listed", "mismatch"}
         /\ job[o].at = "listed" => job[o].seen \in BOOLEAN
         /\ job[o].at = "mismatch" => /\ job[o].verified \in BOOLEAN
                                      /\ job[o].as \in 0 .. MaxEvents
<1>1. job[o] \in Job
  BY DEF TypeOK
<1>2. QED
  BY <1>1 DEF Job

(* What the handler of event i does to the row of its owner: it makes one, *)
(* names it, finds none, or sets the flag.                                 *)
Outcome(i, o) ==
  \/ /\ log[i].type = "register" /\ ngo[o] = Absent
     /\ ngo' = [ngo EXCEPT ![o] = Row(FALSE, TRUE)] /\ Said(o, i)
  \/ /\ log[i].type = "register" /\ ngo[o] # Absent
     /\ ngo' = [ngo EXCEPT ![o] = Row(ngo[o].verified, TRUE)] /\ UNCHANGED stale
  \/ /\ log[i].type # "register" /\ ngo[o] = Absent /\ UNCHANGED <<ngo, stale>>
  \/ /\ log[i].type # "register" /\ ngo[o] # Absent
     /\ ngo' = [ngo EXCEPT ![o] = Row(log[i].type = "approved", ngo[o].named)]
     /\ Said(o, i)

LEMMA RowExcept ==
  ASSUME NEW x \in NgoRow, NEW v
  PROVE  /\ [x EXCEPT !.verified = v] = Row(v, x.named)
         /\ [x EXCEPT !.named = v] = Row(x.verified, v)
BY DEF NgoRow, Row

LEMMA HandlerOutcome ==
  ASSUME TypeOK, NEW i \in 1 .. Len(log), HandleNgoRegistryEvent(i)
  PROVE  Outcome(i, log[i].owner) /\ streamEvents' = streamEvents \cup {i}
<1> DEFINE o == log[i].owner
<1>1. o \in Owners /\ log[i].type \in Types
  BY LogIs
<1>2. ngo[o] # Absent => ngo[o] \in NgoRow
  BY <1>1 DEF TypeOK
<1>3. ASSUME log[i].type = "register", Register(o, i) PROVE Outcome(i, o)
  <2>1. CASE ngo[o] = Absent
    BY <1>3, <2>1 DEF Register, Outcome
  <2>2. CASE ngo[o] # Absent
    <3>1. [ngo EXCEPT ![o].named = TRUE] = [ngo EXCEPT ![o] = [ngo[o] EXCEPT !.named = TRUE]]
      BY DEF TypeOK
    <3>2. QED
      BY <1>2, <1>3, <2>2, <3>1, RowExcept DEF Register, Outcome
  <2>3. QED
    BY <2>1, <2>2
<1>4. ASSUME NEW v \in BOOLEAN, log[i].type # "register", SetVerified(o, i, v),
             v <=> log[i].type = "approved"
      PROVE  Outcome(i, o)
  <2>1. CASE ngo[o] = Absent
    BY <1>4, <2>1 DEF SetVerified, Outcome
  <2>2. CASE ngo[o] # Absent
    <3>1. [ngo EXCEPT ![o].verified = v] = [ngo EXCEPT ![o] = [ngo[o] EXCEPT !.verified = v]]
      BY DEF TypeOK
    <3>2. v = (log[i].type = "approved")
      BY <1>4
    <3>3. QED
      BY <1>2, <1>4, <2>2, <3>1, <3>2, RowExcept DEF SetVerified, Outcome
  <2>3. QED
    BY <2>1, <2>2
<1>5. QED
  BY <1>3, <1>4 DEF HandleNgoRegistryEvent

LEMMA SaidIs ==
  ASSUME TypeOK, NEW o \in Owners, NEW n, Said(o, n)
  PROVE  /\ stale' \subseteq Owners
         /\ o \in stale' <=> Overtaken(o, n)
         /\ \A t \in Owners \ {o} : t \in stale' <=> t \in stale
BY DEF Said, TypeOK

(* What a handler leaves.                                                  *)
LEMMA HandlerIs ==
  ASSUME TypeOK, NEW i \in 1 .. Len(log), HandleNgoRegistryEvent(i)
  PROVE  /\ ngo' \in [Owners -> NgoRow \cup {Absent}]
         /\ stale' \subseteq Owners
         /\ streamEvents' \subseteq 1 .. Len(log)
         /\ \A t \in Owners : ngo[t] # Absent => ngo'[t] # Absent
         /\ \A t \in Owners \ {log[i].owner} :
              ngo'[t] = ngo[t] /\ (t \in stale' <=> t \in stale)
<1> DEFINE o == log[i].owner
<1>1. o \in Owners
  BY LogIs
<1>2. Outcome(i, o) /\ streamEvents' = streamEvents \cup {i}
  BY HandlerOutcome
<1> HIDE DEF o
<1>3. ASSUME NEW r \in NgoRow, ngo' = [ngo EXCEPT ![o] = r]
      PROVE  /\ ngo' \in [Owners -> NgoRow \cup {Absent}]
             /\ \A t \in Owners : ngo[t] # Absent => ngo'[t] # Absent
             /\ \A t \in Owners \ {o} : ngo'[t] = ngo[t]
  BY <1>1, <1>3, VerificationAssumption DEF TypeOK
<1>4. ngo[o] # Absent => ngo[o].verified \in BOOLEAN /\ ngo[o].named \in BOOLEAN
  BY <1>1 DEF TypeOK, NgoRow
<1>5. (log[i].type = "approved") \in BOOLEAN
  OBVIOUS
<1>6. /\ \/ \E r \in NgoRow : ngo' = [ngo EXCEPT ![o] = r]
         \/ UNCHANGED ngo
      /\ Said(o, i) \/ UNCHANGED stale
  BY <1>2, <1>4, <1>5, RowType DEF Outcome
<1>7. /\ ngo' \in [Owners -> NgoRow \cup {Absent}]
      /\ \A t \in Owners : ngo[t] # Absent => ngo'[t] # Absent
      /\ \A t \in Owners \ {o} : ngo'[t] = ngo[t]
  BY <1>3, <1>6 DEF TypeOK
<1>8. stale' \subseteq Owners /\ \A t \in Owners \ {o} : t \in stale' <=> t \in stale
  BY <1>1, <1>6, SaidIs DEF TypeOK
<1>9. QED
  BY <1>2, <1>7, <1>8 DEF TypeOK, o

LEMMA TypeInit == Init => TypeOK
<1> SUFFICES ASSUME Init PROVE TypeOK
  OBVIOUS
<1>1. log \in Seq(Event) /\ Len(log) = 0
  BY DEF Init
<1>2. job \in [Owners -> Job]
  BY DEF Init, Idle, Job
<1>3. saved \in 0 .. Len(log) /\ handled = FALSE /\ Len(log) <= MaxEvents
  BY <1>1, VerificationAssumption DEF Init
<1>4. QED
  BY <1>1, <1>2, <1>3 DEF Init, TypeOK

LEMMA TypeStep == TypeOK /\ JobInv /\ [Next]_vars => TypeOK'
<1> SUFFICES ASSUME TypeOK, JobInv, [Next]_vars PROVE TypeOK'
  OBVIOUS
<1> USE DEF chain, script
<1>1. ASSUME NEW p \in Owners, NEW type \in Types, Emit(p, type) PROVE TypeOK'
  <2>1. log' \in Seq(Event) /\ Len(log') = Len(log) + 1 /\ Len(log') <= MaxEvents
    BY <1>1, EmitIs
  <2>2. Len(log) \in Nat /\ 1 .. Len(log) \subseteq 1 .. Len(log')
    BY <2>1, LogIs
  <2>3. saved' \in 0 .. Len(log') /\ (handled' => saved' < Len(log'))
    BY <1>1, <2>1, <2>2 DEF Emit, TypeOK
  <2>4. QED
    BY <1>1, <2>1, <2>2, <2>3 DEF Emit, TypeOK
<1>2. CASE Deliver
  <2>1. saved + 1 \in 1 .. Len(log) /\ HandleNgoRegistryEvent(saved + 1)
    BY <1>2, LogIs DEF Deliver, TypeOK
  <2>2. /\ ngo' \in [Owners -> NgoRow \cup {Absent}] /\ stale' \subseteq Owners
        /\ streamEvents' \subseteq 1 .. Len(log)
    BY <2>1, HandlerIs
  <2>3. QED
    BY <1>2, <2>2 DEF Deliver, TypeOK
<1>3. CASE RecordDeadLetter
  <2>1. saved + 1 \in 1 .. Len(log)
    BY <1>3, LogIs DEF RecordDeadLetter, TypeOK
  <2>2. log[saved + 1].owner \in Owners
    BY <2>1, LogIs
  <2>3. QED
    BY <1>3, <2>1, <2>2 DEF RecordDeadLetter, Missed, TypeOK
<1>4. CASE Save
  <2>1. /\ Len(log) \in Nat /\ saved \in 0 .. Len(log) /\ saved < Len(log)
        /\ saved' = saved + 1 /\ handled' = FALSE
    BY <1>4, LogIs DEF Save, TypeOK
  <2>2. saved' \in 0 .. Len(log)
    BY <2>1
  <2>3. QED
    BY <1>4, <2>1, <2>2 DEF Save, TypeOK
<1>5. CASE SkipForward
  <2>1. saved + 1 \in 1 .. Len(log) /\ saved + 1 \in 0 .. Len(log)
    BY <1>5, LogIs DEF SkipForward, TypeOK
  <2>2. log[saved + 1].owner \in Owners
    BY <2>1, LogIs
  <2>3. QED
    BY <1>5, <2>1, <2>2 DEF SkipForward, Missed, TypeOK
<1>6. CASE ReplayDeadLetter
  <2>1. PICK i \in deadLetters : /\ HandleNgoRegistryEvent(i)
                                 /\ deadLetters' \in {deadLetters, deadLetters \ {i}}
                                 /\ quiet' = FALSE
                                 /\ UNCHANGED <<chain, saved, handled, script>>
    BY <1>6 DEF ReplayDeadLetter
  <2>2. i \in 1 .. Len(log)
    BY DEF TypeOK
  <2>3. /\ ngo' \in [Owners -> NgoRow \cup {Absent}] /\ stale' \subseteq Owners
        /\ streamEvents' \subseteq 1 .. Len(log)
    BY <2>1, <2>2, HandlerIs
  <2>4. QED
    BY <2>1, <2>3 DEF TypeOK
<1>7. ASSUME NEW o \in Owners, EnsureNgo(o) PROVE TypeOK'
  BY <1>7, RowType DEF EnsureNgo, TypeOK
<1>8. ASSUME NEW o \in Owners, ReadOnChain(o) PROVE TypeOK'
  <2>1. Len(log) \in 0 .. MaxEvents /\ (OnChain(o) = "verified") \in BOOLEAN
    BY LogIs, VerificationAssumption DEF TypeOK
  <2>2. Report(o) \in Job /\ [at |-> "done"] \in Job
    BY <2>1 DEF Report, Job
  <2>3. PICK j \in Job : job' = [job EXCEPT ![o] = j]
    BY <1>8, <2>2 DEF ReadOnChain
  <2>4. job' \in [Owners -> Job]
    BY <2>3 DEF TypeOK
  <2>5. QED
    BY <1>8, <2>4 DEF ReadOnChain, TypeOK
<1>9. ASSUME NEW o \in Owners, WorkerFails(o) PROVE TypeOK'
  <2>1. [at |-> "failed"] \in Job
    BY DEF Job
  <2>2. QED
    BY <1>9, <2>1 DEF WorkerFails, TypeOK
<1>10. ASSUME NEW o \in Owners, Fix(o) PROVE TypeOK'
  <2>1. ngo[o] \in NgoRow /\ job[o].verified \in BOOLEAN
    BY <1>10, JobFields DEF Fix, JobInv, JobFine, TypeOK
  <2>2. [ngo[o] EXCEPT !.verified = job[o].verified] \in NgoRow
    BY <2>1 DEF NgoRow
  <2>3. ngo' \in [Owners -> NgoRow \cup {Absent}]
    BY <1>10, <2>2 DEF Fix, TypeOK
  <2>4. [at |-> "done"] \in Job
    BY DEF Job
  <2>5. job' \in [Owners -> Job]
    BY <1>10, <2>4 DEF Fix, TypeOK
  <2>6. stale' \subseteq Owners
    BY <1>10, SaidIs DEF Fix
  <2>7. QED
    BY <1>10, <2>3, <2>5, <2>6 DEF Fix, TypeOK
<1>11. CASE List
  <2>1. \A o \in Owners : ngo[o] # Absent => ngo[o].verified \in BOOLEAN
    BY DEF TypeOK, NgoRow
  <2>2. job' \in [Owners -> Job]
    BY <1>11, <2>1 DEF List, Job
  <2>3. QED
    BY <1>11, <2>2 DEF List, TypeOK
<1>12. CASE ScriptEnds
  <2>1. job' \in [Owners -> Job]
    BY <1>12 DEF ScriptEnds, Idle, Job
  <2>2. QED
    BY <1>12, <2>1 DEF ScriptEnds, TypeOK
<1>13. CASE UNCHANGED vars
  BY <1>13 DEF vars, TypeOK
<1>14. QED
  BY <1>1, <1>2, <1>3, <1>4, <1>5, <1>6, <1>7, <1>8, <1>9, <1>10, <1>11, <1>12,
     <1>13 DEF Next

----------------------------------------------------------------------------
(* The invariant, one part after the other.                                *)

LEMMA ChainStays ==
  ASSUME UNCHANGED <<before, log>>
  PROVE  /\ LegalLog' <=> LegalLog
         /\ \A o, n : VerifiedAt(o, n)' <=> VerifiedAt(o, n)
         /\ \A o : OnChain(o)' = OnChain(o)
BY DEF LegalLog, VerifiedAt, Touched, OnChain

LEMMA WhoEmits ==
  ASSUME [Next]_vars
  PROVE  \/ \E p \in Owners : \E type \in Types : Emit(p, type)
         \/ UNCHANGED <<before, log>>
BY DEF Next, vars, chain, script, Deliver, RecordDeadLetter, Save, SkipForward,
       ReplayDeadLetter, EnsureNgo, ReadOnChain, WorkerFails, Fix, List, ScriptEnds

LEMMA LegalStep ==
  ASSUME TypeOK, LegalLog, [Next]_vars
  PROVE  LegalLog'
<1>1. CASE UNCHANGED <<before, log>>
  BY <1>1, ChainStays
<1>2. ASSUME NEW p \in Owners, NEW type \in Types, Emit(p, type) PROVE LegalLog'
  <2> DEFINE n == Len(log)
  <2>1. /\ Len(log') = n + 1 /\ n \in Nat /\ before' = before
        /\ \A i \in 1 .. n : log'[i] = log[i]
        /\ log'[n + 1] = [type |-> type, owner |-> p]
    BY <1>2, EmitIs, LogIs DEF Emit, chain
  <2>2. type = "register" => before[p] = "none" /\ \A j \in 1 .. n : log[j].owner # p
    BY <1>2, OnChainIs DEF Emit, Touched
  <2> HIDE DEF n
  <2>3. ASSUME NEW i \in 1 .. n + 1, log'[i].type = "register"
        PROVE  /\ before'[log'[i].owner] = "none"
               /\ \A j \in 1 .. i - 1 : log'[j].owner # log'[i].owner
    <3>1. \A j \in 1 .. i - 1 : j \in 1 .. n /\ log'[j] = log[j]
      BY <2>1
    <3>2. CASE i = n + 1
      BY <2>1, <2>2, <2>3, <3>1, <3>2
    <3>3. CASE i # n + 1
      <4>1. i \in 1 .. n
        BY <2>1, <3>3
      <4>2. log'[i] = log[i]
        BY <2>1, <4>1
      <4>3. QED
        BY <2>1, <2>3, <3>1, <4>1, <4>2 DEF LegalLog, n
    <3>4. QED
      BY <3>2, <3>3
  <2>4. QED
    BY <2>1, <2>3 DEF LegalLog
<1>3. QED
  BY <1>1, <1>2, WhoEmits

(* The script's rows.                                                      *)
LEMMA JobStays ==
  ASSUME NEW o \in Owners, JobFine(o), job'[o] = job[o],
         ngo[o] # Absent => ngo'[o] # Absent,
         Len(log) \in Nat /\ Len(log') \in Nat /\ Len(log) <= Len(log'),
         \A n \in 0 .. Len(log) : VerifiedAt(o, n)' <=> VerifiedAt(o, n)
  PROVE  JobFine(o)'
<1>1. \A n \in 0 .. Len(log) : n \in 0 .. Len(log')
  OBVIOUS
<1>2. QED
  BY <1>1 DEF JobFine

LEMMA JobStep ==
  ASSUME TypeOK, JobInv, [Next]_vars
  PROVE  JobInv'
<1> USE DEF chain, script
<1>1. ASSUME NEW p \in Owners, NEW type \in Types, Emit(p, type) PROVE JobInv'
  <2>1. Len(log') = Len(log) + 1 /\ Len(log) \in Nat
    BY <1>1, EmitIs, LogIs
  <2>2. job' = job /\ ngo' = ngo
    BY <1>1 DEF Emit
  <2>3. \A o : \A n \in 0 .. Len(log) : VerifiedAt(o, n)' <=> VerifiedAt(o, n)
    BY <1>1, EmitIs
  <2>4. QED
    BY <2>1, <2>2, <2>3, JobStays DEF JobInv
<1>2. ASSUME UNCHANGED <<before, log>>, NEW o \in Owners,
             ngo[o] # Absent => ngo'[o] # Absent, job'[o] = job[o]
      PROVE  JobFine(o)'
  <2>1. Len(log) \in Nat /\ Len(log') \in Nat /\ Len(log) <= Len(log')
    BY <1>2, LogIs
  <2>2. \A n : VerifiedAt(o, n)' <=> VerifiedAt(o, n)
    BY <1>2, ChainStays
  <2>3. QED
    BY <1>2, <2>1, <2>2, JobStays DEF JobInv
<1>3. CASE Deliver
  <2>1. saved + 1 \in 1 .. Len(log) /\ HandleNgoRegistryEvent(saved + 1)
    BY <1>3, LogIs DEF Deliver, TypeOK
  <2>2. QED
    BY <1>2, <1>3, <2>1, HandlerIs DEF Deliver, JobInv
<1>4. CASE ReplayDeadLetter
  <2>1. PICK i \in 1 .. Len(log) : HandleNgoRegistryEvent(i)
    BY <1>4 DEF ReplayDeadLetter, TypeOK
  <2>2. QED
    BY <1>2, <1>4, <2>1, HandlerIs DEF ReplayDeadLetter, JobInv
<1>5. CASE RecordDeadLetter \/ Save \/ SkipForward \/ UNCHANGED vars
  BY <1>2, <1>5 DEF RecordDeadLetter, Save, SkipForward, vars, JobInv
<1>6. ASSUME NEW o \in Owners, EnsureNgo(o) PROVE JobInv'
  <2>1. Row(FALSE, FALSE) # Absent
    BY RowType, VerificationAssumption
  <2>2. \A t \in Owners : ngo[t] # Absent => ngo'[t] # Absent
    BY <1>6, <2>1 DEF EnsureNgo, TypeOK
  <2>3. QED
    BY <1>2, <1>6, <2>2 DEF EnsureNgo, JobInv
<1>7. ASSUME NEW o \in Owners, UNCHANGED <<before, log>>, JobFine(o)',
             \A t \in Owners : ngo[t] # Absent => ngo'[t] # Absent,
             \A t \in Owners \ {o} : job'[t] = job[t]
      PROVE  JobInv'
  BY <1>2, <1>7 DEF JobInv
<1>8. ASSUME NEW o \in Owners, ReadOnChain(o) PROVE JobInv'
  <2>1. ngo[o] # Absent /\ UNCHANGED <<before, log, ngo>>
    BY <1>8 DEF ReadOnChain, JobInv, JobFine
  <2>2. job'[o] = Report(o) \/ job'[o] = [at |-> "done"]
    BY <1>8 DEF ReadOnChain, TypeOK
  <2>3. \A t \in Owners \ {o} : job'[t] = job[t]
    BY <1>8 DEF ReadOnChain, TypeOK
  <2>4. ASSUME job'[o] = Report(o) PROVE JobFine(o)'
    <3>1. job'[o].as = Len(log) /\ (job'[o].verified <=> OnChain(o) = "verified")
      <4> DEFINE v == OnChain(o) = "verified"
                 n == Len(log)
      <4>1. job'[o] = [at |-> "mismatch", verified |-> v, as |-> n]
        BY <2>4 DEF Report
      <4> HIDE DEF v, n
      <4>2. job'[o].as = n /\ job'[o].verified = v
        BY <4>1
      <4>3. QED
        BY <4>2 DEF v, n
    <3>2. Len(log) \in 0 .. Len(log') /\ Len(log) \in Nat
      BY <2>1, LogIs
    <3> DEFINE n == Len(log)
    <3>3. \A k : VerifiedAt(o, k)' <=> VerifiedAt(o, k)
      BY <2>1, ChainStays
    <3>4. VerifiedAt(o, n) <=> OnChain(o) = "verified"
      BY OnChainIs
    <3>5. PICK k \in 0 .. Len(log') : k = n
      BY <3>2
    <3>6. k = job'[o].as /\ (job'[o].verified <=> VerifiedAt(o, k)')
      BY <3>1, <3>3, <3>4, <3>5
    <3>7. \E m \in 0 .. Len(log') :
            m = job'[o].as /\ (job'[o].verified <=> VerifiedAt(o, m)')
      BY <3>6, Zenon
    <3>8. ngo'[o] # Absent
      BY <2>1
    <3>9. QED
      BY <3>7, <3>8, Zenon DEF JobFine
  <2>5. ASSUME job'[o] = [at |-> "done"] PROVE JobFine(o)'
    <3>1. job'[o].at = "done"
      BY <2>5
    <3>2. QED
      BY <3>1 DEF JobFine
  <2>6. QED
    BY <1>7, <2>1, <2>2, <2>3, <2>4, <2>5
<1>9. ASSUME NEW o \in Owners, WorkerFails(o) PROVE JobInv'
  <2>1. job'[o].at = "failed" /\ \A t \in Owners \ {o} : job'[t] = job[t]
    BY <1>9 DEF WorkerFails, TypeOK
  <2>2. QED
    BY <1>7, <1>9, <2>1 DEF WorkerFails, JobFine
<1>10. ASSUME NEW o \in Owners, Fix(o) PROVE JobInv'
  <2>1. job'[o].at = "done" /\ \A t \in Owners \ {o} : job'[t] = job[t]
    BY <1>10 DEF Fix, TypeOK
  <2>2. ngo[o] \in NgoRow /\ job[o].verified \in BOOLEAN
    BY <1>10, JobFields DEF Fix, JobInv, JobFine, TypeOK
  <2>3. [ngo[o] EXCEPT !.verified = job[o].verified] \in NgoRow
    BY <2>2 DEF NgoRow
  <2>4. \A t \in Owners : ngo[t] # Absent => ngo'[t] # Absent
    BY <1>10, <2>3, VerificationAssumption DEF Fix, TypeOK
  <2>5. QED
    BY <1>7, <1>10, <2>1, <2>4 DEF Fix, JobFine
<1>11. CASE List
  BY <1>11 DEF List, JobInv, JobFine
<1>12. CASE ScriptEnds
  BY <1>12 DEF ScriptEnds, Idle, JobInv, JobFine
<1>13. QED
  BY <1>1, <1>3, <1>4, <1>5, <1>6, <1>8, <1>9, <1>10, <1>11, <1>12 DEF Next

(* The flags.  What the flag of one owner says is kept when nothing but    *)
(* registrations of that owner comes to the indexer.                       *)
FlagFine(o) ==
  ngo[o] # Absent /\ o \notin stale => \E n \in 0 .. Len(log) : Current(o, n)

LEMMA PositionMoves ==
  ASSUME TypeOK, [Next]_vars
  PROVE  \/ Position' = Position
         \/ /\ Position' = saved + 1 /\ Position' = Position + 1
            /\ Deliver \/ RecordDeadLetter \/ SkipForward
<1>1. saved \in Nat /\ handled \in BOOLEAN
  BY LogIs DEF TypeOK
<1>2. CASE Deliver \/ RecordDeadLetter
  BY <1>1, <1>2 DEF Deliver, RecordDeadLetter, Position, chain, script
<1>3. CASE SkipForward
  BY <1>1, <1>3 DEF SkipForward, Position
<1>4. CASE Save
  BY <1>1, <1>4 DEF Save, Position
<1>5. CASE UNCHANGED <<saved, handled>>
  BY <1>5 DEF Position
<1>6. QED
  BY <1>2, <1>3, <1>4, <1>5
     DEF Next, vars, Emit, ReplayDeadLetter, EnsureNgo, ReadOnChain, WorkerFails, Fix,
         List, ScriptEnds

LEMMA FlagStays ==
  ASSUME TypeOK, NEW o \in Owners, FlagFine(o),
         Len(log') \in Nat /\ Len(log) <= Len(log'),
         \A i \in 1 .. Len(log) : log'[i] = log[i],
         \A n \in 0 .. Len(log) : VerifiedAt(o, n)' <=> VerifiedAt(o, n),
         Position' \in 0 .. Len(log),
         \A i \in Position + 1 .. Position' :
           log[i].owner = o => log[i].type = "register",
         ngo'[o] # Absent /\ o \notin stale' =>
           ngo[o] # Absent /\ o \notin stale /\ ngo'[o].verified = ngo[o].verified
  PROVE  FlagFine(o)'
<1> SUFFICES ASSUME ngo'[o] # Absent, o \notin stale'
             PROVE  \E n \in 0 .. Len(log') : Current(o, n)'
  BY DEF FlagFine
<1>1. PICK n \in 0 .. Len(log) : Current(o, n)
  BY DEF FlagFine
<1>2. Len(log) \in Nat /\ Position \in 0 .. Len(log) /\ n \in 0 .. Len(log')
  BY LogIs
<1>3. ASSUME NEW i \in n + 1 .. Position', log'[i].owner = o, log'[i].type # "register"
      PROVE  FALSE
  <2>1. i \in 1 .. Len(log) /\ log'[i] = log[i]
    BY <1>2
  <2>2. i \in n + 1 .. Position \/ i \in Position + 1 .. Position'
    BY <1>2
  <2>3. ~Overtaken(o, n)
    BY <1>1 DEF Current
  <2>4. QED
    BY <1>3, <2>1, <2>2, <2>3 DEF Overtaken
<1>4. ~Overtaken(o, n)'
  BY <1>3 DEF Overtaken
<1>5. Current(o, n)'
  BY <1>1, <1>4 DEF Current
<1>6. QED
  BY <1>2, <1>5

(* A flag that was set to what the chain did at position n.                *)
LEMMA FlagSet ==
  ASSUME TypeOK, NEW o \in Owners, NEW n \in 0 .. Len(log), Said(o, n),
         UNCHANGED <<before, log>>,
         ngo'[o].verified <=> VerifiedAt(o, n),
         Position' = Position \/ Position' <= n,
         Position' \in 0 .. Len(log)
  PROVE  FlagFine(o)'
<1> SUFFICES ASSUME o \notin stale' PROVE Current(o, n)'
  BY DEF FlagFine
<1>1. ~Overtaken(o, n)
  BY SaidIs
<1>2. ~Overtaken(o, n)'
  <2>1. CASE Position' = Position
    BY <1>1, <2>1 DEF Overtaken
  <2>2. CASE Position' <= n
    <3>1. n + 1 .. Position' = {}
      BY <2>2, LogIs
    <3>2. QED
      BY <3>1 DEF Overtaken
  <2>3. QED
    BY <2>1, <2>2
<1>3. VerifiedAt(o, n)' <=> VerifiedAt(o, n)
  BY ChainStays
<1>4. QED
  BY <1>2, <1>3 DEF Current

(* A handler leaves every flag fine.                                       *)
LEMMA FlagHandled ==
  ASSUME TypeOK, FlagInv, NEW i \in 1 .. Len(log), HandleNgoRegistryEvent(i),
         UNCHANGED <<before, log>>,
         Position' = Position \/ (Position' = i /\ i = Position + 1)
  PROVE  FlagInv'
<1>0. PICK o \in Owners : o = log[i].owner
  BY LogIs
<1>1. /\ Len(log) \in Nat /\ i \in 0 .. Len(log)
      /\ Position \in 0 .. Len(log) /\ Position' \in 0 .. Len(log)
      /\ \A j \in Position + 1 .. Position' : j = i
  BY LogIs
<1>2. Outcome(i, o)
  BY <1>0, HandlerOutcome DEF Outcome
<1>3. /\ \A t \in Owners \ {o} : ngo'[t] = ngo[t] /\ (t \in stale' <=> t \in stale)
      /\ ngo' \in [Owners -> NgoRow \cup {Absent}]
  BY <1>0, HandlerIs
<1>4. \A t, n : VerifiedAt(t, n)' <=> VerifiedAt(t, n)
  BY ChainStays
<1>5. ASSUME NEW t \in Owners,
             \A j \in Position + 1 .. Position' :
               log[j].owner = t => log[j].type = "register",
             ngo'[t] # Absent /\ t \notin stale' =>
               ngo[t] # Absent /\ t \notin stale /\ ngo'[t].verified = ngo[t].verified
      PROVE  FlagFine(t)'
  <2>1. FlagFine(t)
    BY DEF FlagInv, FlagFine
  <2>2. Len(log') \in Nat /\ Len(log) <= Len(log')
        /\ \A j \in 1 .. Len(log) : log'[j] = log[j]
    BY <1>1
  <2>3. QED
    BY <1>1, <1>4, <1>5, <2>1, <2>2, FlagStays
<1>6. ASSUME NEW t \in Owners \ {o} PROVE FlagFine(t)'
  BY <1>0, <1>1, <1>3, <1>5
<1>7. VerifiedAt(o, i) <=> log[i].type = "approved"
  BY <1>0, AtEvent
<1>8. Position' = Position \/ Position' <= i
  BY <1>1
<1>9. FlagFine(o)'
  <2>1. CASE /\ log[i].type = "register" /\ ngo[o] = Absent
             /\ ngo' = [ngo EXCEPT ![o] = Row(FALSE, TRUE)] /\ Said(o, i)
    <3>1. ngo'[o].verified = FALSE
      BY <1>1, <2>1 DEF TypeOK, Row
    <3>2. QED
      BY <1>1, <1>7, <1>8, <2>1, <3>1, FlagSet
  <2>2. CASE /\ log[i].type = "register" /\ ngo[o] # Absent
             /\ ngo' = [ngo EXCEPT ![o] = Row(ngo[o].verified, TRUE)] /\ UNCHANGED stale
    <3>1. ngo'[o].verified = ngo[o].verified
      BY <1>1, <2>2 DEF TypeOK, Row
    <3>2. QED
      BY <1>1, <1>5, <2>2, <3>1
  <2>3. CASE log[i].type # "register" /\ ngo[o] = Absent /\ UNCHANGED <<ngo, stale>>
    BY <2>3 DEF FlagFine
  <2>4. CASE /\ log[i].type # "register" /\ ngo[o] # Absent
             /\ ngo' = [ngo EXCEPT ![o] = Row(log[i].type = "approved", ngo[o].named)]
             /\ Said(o, i)
    <3>1. ngo'[o].verified <=> log[i].type = "approved"
      <4> DEFINE v == log[i].type = "approved"
      <4> HIDE DEF v
      <4>1. ngo'[o] = Row(v, ngo[o].named)
        BY <1>1, <2>4 DEF TypeOK, v
      <4>2. ngo'[o].verified = v
        BY <4>1 DEF Row
      <4>3. QED
        BY <4>2 DEF v
    <3>2. QED
      BY <1>1, <1>7, <1>8, <2>4, <3>1, FlagSet
  <2>5. QED
    BY <1>2, <2>1, <2>2, <2>3, <2>4 DEF Outcome
<1>10. QED
  BY <1>6, <1>9 DEF FlagInv, FlagFine

LEMMA FlagStep ==
  ASSUME TypeOK, JobInv, FlagInv, [Next]_vars
  PROVE  FlagInv'
<1> USE DEF chain, script
<1>1. Len(log) \in Nat /\ Position \in 0 .. Len(log)
  BY LogIs
<1>2. ASSUME NEW p \in Owners, NEW type \in Types, Emit(p, type) PROVE FlagInv'
  <2>1. /\ Len(log') = Len(log) + 1
        /\ \A i \in 1 .. Len(log) : log'[i] = log[i]
        /\ \A o : \A n \in 0 .. Len(log) : VerifiedAt(o, n)' <=> VerifiedAt(o, n)
    BY <1>2, EmitIs
  <2>2. Position' = Position /\ UNCHANGED <<ngo, stale>>
    BY <1>2 DEF Emit, Position
  <2>3. Position + 1 .. Position' = {}
    BY <1>1, <2>2
  <2>4. ASSUME NEW o \in Owners PROVE FlagFine(o)'
    <3>1. FlagFine(o)
      BY DEF FlagInv, FlagFine
    <3>2. Len(log') \in Nat /\ Len(log) <= Len(log') /\ Position' \in 0 .. Len(log)
      BY <1>1, <2>1, <2>2
    <3>3. QED
      BY <2>1, <2>2, <2>3, <3>1, <3>2, FlagStays
  <2>5. QED
    BY <2>4 DEF FlagInv, FlagFine
<1>3. ASSUME UNCHANGED <<before, log>>, NEW o \in Owners, Position' \in 0 .. Len(log),
             \A i \in Position + 1 .. Position' :
               log[i].owner = o => log[i].type = "register",
             ngo'[o] # Absent /\ o \notin stale' =>
               ngo[o] # Absent /\ o \notin stale /\ ngo'[o].verified = ngo[o].verified
      PROVE  FlagFine(o)'
  <2>1. FlagFine(o)
    BY DEF FlagInv, FlagFine
  <2>2. Len(log') \in Nat /\ Len(log) <= Len(log')
        /\ \A j \in 1 .. Len(log) : log'[j] = log[j]
    BY <1>1, <1>3
  <2>3. \A n : VerifiedAt(o, n)' <=> VerifiedAt(o, n)
    BY <1>3, ChainStays
  <2>4. QED
    BY <1>3, <2>1, <2>2, <2>3, FlagStays
<1>4. ASSUME UNCHANGED <<before, log, ngo>>, Position' = Position, stale \subseteq stale'
      PROVE  FlagInv'
  <2>1. Position + 1 .. Position' = {} /\ Position' \in 0 .. Len(log)
    BY <1>1, <1>4
  <2>2. \A o \in Owners : FlagFine(o)'
    BY <1>3, <1>4, <2>1
  <2>3. QED
    BY <2>2 DEF FlagInv, FlagFine
<1>5. CASE Deliver
  <2>1. saved + 1 \in 1 .. Len(log) /\ HandleNgoRegistryEvent(saved + 1)
    BY <1>5, LogIs DEF Deliver, TypeOK
  <2>2. Position' = Position \/ (Position' = saved + 1 /\ saved + 1 = Position + 1)
    BY PositionMoves
  <2>3. QED
    BY <1>5, <2>1, <2>2, FlagHandled DEF Deliver
<1>6. CASE ReplayDeadLetter
  <2>1. PICK i \in 1 .. Len(log) : HandleNgoRegistryEvent(i)
    BY <1>6 DEF ReplayDeadLetter, TypeOK
  <2>2. Position' = Position
    BY <1>6 DEF ReplayDeadLetter, Position
  <2>3. QED
    BY <1>6, <2>1, <2>2, FlagHandled DEF ReplayDeadLetter
<1>7. ASSUME RecordDeadLetter \/ SkipForward PROVE FlagInv'
  <2>1. /\ Position' \in {Position, saved + 1}
        /\ Position' = saved + 1 => saved + 1 <= Position + 1
        /\ saved + 1 \in 0 .. Len(log) /\ saved + 1 \in 1 .. Len(log)
        /\ UNCHANGED <<before, log, ngo>>
        /\ stale' = stale \cup {log[saved + 1].owner}
    <3>1. saved + 1 \in 1 .. Len(log)
      BY <1>7, LogIs DEF RecordDeadLetter, SkipForward, TypeOK
    <3>2. saved <= Position
      BY LogIs DEF Position, TypeOK
    <3>3. Position' \in {Position, saved + 1}
      BY PositionMoves
    <3>4. saved \in Nat
      BY LogIs DEF TypeOK
    <3>5. saved + 1 <= Position + 1 /\ saved + 1 \in 0 .. Len(log)
      BY <1>1, <3>1, <3>2, <3>4
    <3>6. UNCHANGED <<before, log, ngo>> /\ stale' = stale \cup {log[saved + 1].owner}
      BY <1>7 DEF RecordDeadLetter, SkipForward, Missed
    <3>7. QED
      BY <3>1, <3>3, <3>5, <3>6
  <2>2. Position' \in 0 .. Len(log) /\ \A i \in Position + 1 .. Position' : i = saved + 1
    BY <1>1, <2>1
  <2>3. ASSUME NEW o \in Owners PROVE FlagFine(o)'
    <3>1. CASE o = log[saved + 1].owner
      BY <2>1, <3>1 DEF FlagFine
    <3>2. CASE o # log[saved + 1].owner
      BY <1>3, <2>1, <2>2, <3>2
    <3>3. QED
      BY <3>1, <3>2
  <2>4. QED
    BY <2>3 DEF FlagInv, FlagFine
<1>8. CASE Save
  <2>1. Position' = Position
    BY <1>8, PositionMoves DEF Save, Position, TypeOK
  <2>2. QED
    BY <1>4, <1>8, <2>1 DEF Save
<1>9. ASSUME NEW p \in Owners, EnsureNgo(p) PROVE FlagInv'
  <2>1. /\ Position' = Position /\ UNCHANGED <<before, log>>
        /\ \A o \in Owners \ {p} : ngo'[o] = ngo[o] /\ (o \in stale' <=> o \in stale)
        /\ p \in stale'
    BY <1>9 DEF EnsureNgo, Position, TypeOK
  <2>2. Position + 1 .. Position' = {} /\ Position' \in 0 .. Len(log)
    BY <1>1, <2>1
  <2>3. ASSUME NEW o \in Owners PROVE FlagFine(o)'
    <3>1. CASE o = p
      BY <2>1, <3>1 DEF FlagFine
    <3>2. CASE o # p
      BY <1>3, <2>1, <2>2, <3>2
    <3>3. QED
      BY <3>1, <3>2
  <2>4. QED
    BY <2>3 DEF FlagInv, FlagFine
<1>10. ASSUME NEW p \in Owners, Fix(p) PROVE FlagInv'
  <2>1. /\ job[p].at = "mismatch" /\ Said(p, job[p].as)
        /\ Position' = Position /\ UNCHANGED <<before, log>>
        /\ ngo' = [ngo EXCEPT ![p].verified = job[p].verified]
    BY <1>10 DEF Fix, Position
  <2>2. PICK n \in 0 .. Len(log) : n = job[p].as /\ (job[p].verified <=> VerifiedAt(p, n))
    BY <2>1 DEF JobInv, JobFine
  <2>3. ngo[p] \in NgoRow
    BY <2>1 DEF JobInv, JobFine, TypeOK
  <2>4. ngo'[p].verified = job[p].verified
    <3>1. ngo'[p] = [ngo[p] EXCEPT !.verified = job[p].verified]
      BY <2>1 DEF TypeOK
    <3>2. QED
      BY <2>3, <3>1 DEF NgoRow
  <2>5. FlagFine(p)'
    BY <1>1, <2>1, <2>2, <2>4, FlagSet
  <2>6. \A o \in Owners \ {p} : ngo'[o] = ngo[o] /\ (o \in stale' <=> o \in stale)
    BY <2>1, SaidIs DEF TypeOK
  <2>7. Position + 1 .. Position' = {} /\ Position' \in 0 .. Len(log)
    BY <1>1, <2>1
  <2>8. ASSUME NEW o \in Owners \ {p} PROVE FlagFine(o)'
    BY <1>3, <2>1, <2>6, <2>7
  <2>9. QED
    BY <2>5, <2>8 DEF FlagInv, FlagFine
<1>11. ASSUME \/ List \/ ScriptEnds \/ UNCHANGED vars
              \/ \E o \in Owners : ReadOnChain(o) \/ WorkerFails(o)
       PROVE  FlagInv'
  <2>1. UNCHANGED <<before, log, ngo, stale, saved, handled>>
    BY <1>11 DEF List, ScriptEnds, vars, ReadOnChain, WorkerFails
  <2>2. QED
    BY <1>4, <2>1 DEF Position
<1>12. QED
  BY <1>2, <1>5, <1>6, <1>7, <1>8, <1>9, <1>10, <1>11 DEF Next

(* A run of the script that nothing comes between.                         *)
QuietFine(o) ==
  /\ job[o].at = "listed" => job[o].seen = ngo[o].verified
  /\ job[o].at = "mismatch" => (job[o].verified <=> OnChain(o) = "verified")
  /\ job[o].at = "done" /\ OnChain(o) # "none" =>
       (ngo[o].verified <=> OnChain(o) = "verified")

LEMMA QuietStep ==
  ASSUME TypeOK, JobInv, QuietInv, [Next]_vars
  PROVE  QuietInv'
<1> USE DEF chain, script
<1> SUFFICES ASSUME quiet', NEW o \in Owners PROVE QuietFine(o)'
  BY DEF QuietInv, QuietFine
<1>1. ASSUME UNCHANGED <<before, log>>, QuietFine(o), job'[o] = job[o], ngo'[o] = ngo[o]
      PROVE  QuietFine(o)'
  <2>1. OnChain(o)' = OnChain(o)
    BY <1>1, ChainStays
  <2>2. QED
    BY <1>1, <2>1 DEF QuietFine
<1>2. CASE List
  <2>1. \/ job'[o] = [at |-> "none"]
        \/ job'[o] = [at |-> "listed", seen |-> ngo[o].verified]
    BY <1>2 DEF List
  <2>2. ngo' = ngo
    BY <1>2 DEF List
  <2>3. \/ job'[o].at = "none"
        \/ job'[o].at = "listed" /\ job'[o].seen = ngo[o].verified
    BY <2>1
  <2>4. QED
    BY <2>2, <2>3 DEF QuietFine
<1>3. CASE ScriptEnds
  BY <1>3 DEF ScriptEnds, Idle, QuietFine
<1>4. CASE quiet /\ ~List /\ ~ScriptEnds
  <2>1. QuietFine(o)
    BY <1>4 DEF QuietInv, QuietFine
  <2>2. CASE Save \/ UNCHANGED vars
    BY <1>1, <2>1, <2>2 DEF Save, vars
  <2>3. ASSUME NEW p \in Owners, ReadOnChain(p) PROVE QuietFine(o)'
    <3>1. UNCHANGED <<before, log, ngo>> /\ job[p].at = "listed"
      BY <2>3 DEF ReadOnChain
    <3>2. CASE o # p
      BY <1>1, <2>1, <2>3, <3>1, <3>2 DEF ReadOnChain, TypeOK
    <3>3. CASE o = p
      <4> DEFINE v == OnChain(o) = "verified"
                 n == Len(log)
      <4>1. OnChain(o)' = OnChain(o)
        BY <3>1, ChainStays
      <4>2. job[o].seen = ngo[o].verified /\ job[o].seen \in BOOLEAN
        BY <2>1, <3>1, <3>3, JobFields DEF QuietFine
      <4>3. CASE OnChain(o) = "none" \/ v = job[o].seen
        <5>1. job'[o] = [at |-> "done"]
          BY <2>3, <3>3, <4>3 DEF ReadOnChain, TypeOK
        <5>2. job'[o].at = "done"
          BY <5>1
        <5>3. OnChain(o) # "none" => (ngo'[o].verified <=> OnChain(o) = "verified")
          BY <3>1, <4>2, <4>3
        <5>4. QED
          BY <4>1, <5>2, <5>3 DEF QuietFine
      <4>4. CASE ~(OnChain(o) = "none" \/ v = job[o].seen)
        <5>1. job'[o] = Report(o)
          BY <2>3, <3>3, <4>4 DEF ReadOnChain, TypeOK
        <5>2. job'[o] = [at |-> "mismatch", verified |-> v, as |-> n]
          BY <5>1 DEF Report
        <5> HIDE DEF v, n
        <5>3. job'[o].at = "mismatch" /\ job'[o].verified = v
          BY <5>2
        <5>4. QED
          BY <4>1, <5>3 DEF QuietFine, v
      <4>5. QED
        BY <4>3, <4>4
    <3>4. QED
      BY <3>2, <3>3
  <2>4. ASSUME NEW p \in Owners, WorkerFails(p) PROVE QuietFine(o)'
    <3>1. CASE o # p
      BY <1>1, <2>1, <2>4, <3>1 DEF WorkerFails, TypeOK
    <3>2. CASE o = p
      BY <2>4, <3>2 DEF WorkerFails, TypeOK, QuietFine
    <3>3. QED
      BY <3>1, <3>2
  <2>5. ASSUME NEW p \in Owners, Fix(p) PROVE QuietFine(o)'
    <3>1. CASE o # p
      BY <1>1, <2>1, <2>5, <3>1 DEF Fix, TypeOK
    <3>2. CASE o = p
      <4>1. job'[o].at = "done" /\ job[o].at = "mismatch" /\ UNCHANGED <<before, log>>
        BY <2>5, <3>2 DEF Fix, TypeOK
      <4>2. ngo[o] \in NgoRow
        BY <4>1 DEF JobInv, JobFine, TypeOK
      <4>3. ngo'[o] = [ngo[o] EXCEPT !.verified = job[o].verified]
        BY <2>5, <3>2 DEF Fix, TypeOK
      <4>4. ngo'[o].verified = job[o].verified
        BY <4>2, <4>3 DEF NgoRow
      <4>5. OnChain(o)' = OnChain(o)
        BY <4>1, ChainStays
      <4>6. QED
        BY <2>1, <4>1, <4>4, <4>5 DEF QuietFine
    <3>3. QED
      BY <3>1, <3>2
  <2>6. ~Deliver /\ ~RecordDeadLetter /\ ~SkipForward /\ ~ReplayDeadLetter
        /\ \A p \in Owners : ~EnsureNgo(p) /\ \A type \in Types : ~Emit(p, type)
    BY DEF Deliver, RecordDeadLetter, SkipForward, ReplayDeadLetter, EnsureNgo, Emit
  <2>7. QED
    BY <1>4, <2>2, <2>3, <2>4, <2>5, <2>6 DEF Next
<1>5. CASE ~quiet /\ ~List /\ ~ScriptEnds
  <2>1. quiet' = FALSE \/ UNCHANGED quiet
    BY <1>5 DEF Next, vars, Deliver, RecordDeadLetter, Save, SkipForward,
               ReplayDeadLetter, EnsureNgo, Emit, ReadOnChain, WorkerFails, Fix
  <2>2. QED
    BY <1>5, <2>1
<1>6. QED
  BY <1>2, <1>3, <1>4, <1>5

(* The inductive invariant.                                                *)
THEOREM Invariance == Spec => []IInv
<1>1. Init => IInv
  <2> SUFFICES ASSUME Init PROVE IInv
    OBVIOUS
  <2>1. TypeOK
    BY TypeInit
  <2>2. Len(log) = 0 /\ quiet = FALSE /\ \A o \in Owners : ngo[o] = Absent
    BY DEF Init
  <2>3. LegalLog
    BY <2>2 DEF LegalLog
  <2>4. JobInv
    BY DEF Init, Idle, JobInv, JobFine
  <2>5. QED
    BY <2>1, <2>2, <2>3, <2>4 DEF IInv, FlagInv, QuietInv
<1>2. IInv /\ [Next]_vars => IInv'
  <2> SUFFICES ASSUME IInv, [Next]_vars PROVE IInv'
    OBVIOUS
  <2>1. TypeOK /\ LegalLog /\ JobInv /\ FlagInv /\ QuietInv
    BY DEF IInv
  <2>2. TypeOK' /\ LegalLog'
    BY <2>1, TypeStep, LegalStep
  <2>3. JobInv' /\ FlagInv'
    BY <2>1, JobStep, FlagStep
  <2>4. QuietInv'
    BY <2>1, QuietStep
  <2>5. QED
    BY <2>2, <2>3, <2>4 DEF IInv
<1>3. QED
  BY <1>1, <1>2, PTL DEF Spec

----------------------------------------------------------------------------
(* The properties.                                                         *)

(* Every row of a table and every variable has its type in every state.    *)
THEOREM TypeCorrect == Spec => []TypeOK
<1>1. IInv => TypeOK
  BY DEF IInv
<1>2. QED
  BY <1>1, Invariance, PTL

(* README.md: the ledger is the single source of truth for the verified    *)
(* status.  Once the indexer has caught up, a flag that is not stale is    *)
(* the contract's.                                                         *)
THEOREM CaughtUpIsRight == Spec => []CaughtUpAgrees
<1>1. IInv => CaughtUpAgrees
  <2> SUFFICES ASSUME IInv, NEW o \in Owners,
                      saved = Len(log), ngo[o] # Absent, o \notin stale
               PROVE  ngo[o].verified <=> OnChain(o) = "verified"
    BY DEF CaughtUpAgrees
  <2>1. TypeOK /\ LegalLog
    BY DEF IInv
  <2>2. Position = Len(log) /\ Len(log) \in Nat
    BY <2>1, LogIs DEF TypeOK, Position
  <2>3. PICK n \in 0 .. Len(log) : Current(o, n)
    BY DEF IInv, FlagInv
  <2>4. \A i \in n + 1 .. Len(log) : log[i].owner = o => log[i].type = "register"
    BY <2>2, <2>3 DEF Current, Overtaken
  <2>5. VerifiedAt(o, n) <=> VerifiedAt(o, Len(log))
    <3> DEFINE m == Len(log)
    <3>1. m \in 0 .. Len(log) /\ n \in 0 .. m
      BY <2>2
    <3>2. \A i \in n + 1 .. m : log[i].owner = o => log[i].type = "register"
      BY <2>4
    <3> HIDE DEF m
    <3>3. VerifiedAt(o, n) <=> VerifiedAt(o, m)
      BY <2>1, <3>1, <3>2, SameBetween
    <3>4. QED
      BY <3>3 DEF m
  <2>6. QED
    BY <2>1, <2>3, <2>5, OnChainIs DEF Current
<1>2. QED
  BY <1>1, Invariance, PTL

(* docs/INDEXER.md, "Verification reconciliation": a run of the script     *)
(* that nothing came between repairs every flag it has seen to.            *)
THEOREM QuietFixIsRight == Spec => []QuietFixAgrees
<1>1. IInv => QuietFixAgrees
  BY DEF IInv, QuietInv, QuietFixAgrees
<1>2. QED
  BY <1>1, Invariance, PTL

(* Who sets a flag, and what it leaves in the audit log.                   *)
LEMMA AuditedStep ==
  ASSUME TypeOK, TypeOK', JobInv, VerifiedIsAudited, [Next]_vars
  PROVE  VerifiedIsAudited'
<1> USE DEF chain, script
<1> SUFFICES ASSUME NEW o \in Owners, ngo'[o] # Absent, ngo'[o].verified
             PROVE  \/ o \in fixed'
                    \/ \E i \in streamEvents' : log'[i] = [type |-> "approved", owner |-> o]
  BY DEF VerifiedIsAudited
<1>1. /\ fixed \subseteq fixed' /\ streamEvents \subseteq streamEvents'
      /\ \A i \in streamEvents : log'[i] = log[i]
  <2>1. CASE UNCHANGED log
    <3>1. \A i \in 1 .. Len(log) : HandleNgoRegistryEvent(i) => streamEvents \subseteq streamEvents'
      BY HandlerOutcome
    <3>2. saved + 1 \in 1 .. Len(log) \/ ~Deliver
      BY LogIs DEF Deliver, TypeOK
    <3>3. deadLetters \subseteq 1 .. Len(log)
      BY DEF TypeOK
    <3>4. QED
      BY <2>1, <3>1, <3>2, <3>3
         DEF Next, vars, Emit, Deliver, RecordDeadLetter, Save, SkipForward,
             ReplayDeadLetter, EnsureNgo, ReadOnChain, WorkerFails, Fix, List, ScriptEnds
  <2>2. ASSUME NEW p \in Owners, NEW type \in Types, Emit(p, type)
        PROVE  /\ fixed \subseteq fixed' /\ streamEvents \subseteq streamEvents'
               /\ \A i \in streamEvents : log'[i] = log[i]
    BY <2>2, EmitIs DEF Emit, TypeOK
  <2>3. QED
    BY <2>1, <2>2, WhoEmits
<1>2. CASE ngo[o] # Absent /\ ngo[o].verified
  BY <1>1, <1>2 DEF VerifiedIsAudited
<1>3. ASSUME NEW i \in 1 .. Len(log), HandleNgoRegistryEvent(i), UNCHANGED log,
             ~(ngo[o] # Absent /\ ngo[o].verified)
      PROVE  \E k \in streamEvents' : log'[k] = [type |-> "approved", owner |-> o]
  <2>1. log[i] \in Event /\ log[i].owner \in Owners
    BY LogIs
  <2>2. log[i].owner = o
    BY <1>3, HandlerIs
  <2>3. Outcome(i, o) /\ i \in streamEvents'
    BY <1>3, <2>2, HandlerOutcome DEF Outcome
  <2>4. log[i].type = "approved"
    <3> DEFINE v == log[i].type = "approved"
    <3>1. CASE ngo' = [ngo EXCEPT ![o] = Row(FALSE, TRUE)]
      BY <3>1 DEF TypeOK, Row
    <3>2. CASE ngo[o] # Absent /\ ngo' = [ngo EXCEPT ![o] = Row(ngo[o].verified, TRUE)]
      BY <1>3, <3>2 DEF TypeOK, Row
    <3>3. CASE ngo' = [ngo EXCEPT ![o] = Row(v, ngo[o].named)]
      <4> HIDE DEF v
      <4>1. ngo'[o] = Row(v, ngo[o].named)
        BY <3>3 DEF TypeOK
      <4>2. ngo'[o].verified = v
        BY <4>1 DEF Row
      <4>3. QED
        BY <4>2 DEF v
    <3>4. CASE UNCHANGED ngo
      BY <1>3, <3>4
    <3>5. QED
      BY <2>3, <3>1, <3>2, <3>3, <3>4 DEF Outcome
  <2>5. log[i] = [type |-> "approved", owner |-> o]
    BY <2>1, <2>2, <2>4 DEF Event
  <2>6. QED
    BY <1>3, <2>3, <2>5
<1>4. ASSUME NEW p \in Owners, Fix(p), ~(ngo[o] # Absent /\ ngo[o].verified)
      PROVE  o \in fixed'
  BY <1>4 DEF Fix, TypeOK
<1>5. ASSUME NEW p \in Owners, EnsureNgo(p), ~(ngo[o] # Absent /\ ngo[o].verified)
      PROVE  FALSE
  BY <1>5 DEF EnsureNgo, TypeOK, Row
<1>6. CASE Deliver
  <2>1. saved + 1 \in 1 .. Len(log) /\ HandleNgoRegistryEvent(saved + 1) /\ UNCHANGED log
    BY <1>6, LogIs DEF Deliver, TypeOK
  <2>2. QED
    BY <1>2, <1>3, <2>1
<1>7. CASE ReplayDeadLetter
  <2>1. PICK i \in 1 .. Len(log) : HandleNgoRegistryEvent(i) /\ UNCHANGED log
    BY <1>7 DEF ReplayDeadLetter, TypeOK
  <2>2. QED
    BY <1>2, <1>3, <2>1
<1>8. CASE UNCHANGED ngo
  BY <1>2, <1>8
<1>9. QED
  BY <1>2, <1>4, <1>5, <1>6, <1>7, <1>8
     DEF Next, vars, Emit, RecordDeadLetter, Save, SkipForward, ReadOnChain,
         WorkerFails, List, ScriptEnds

(* prisma/schema.prisma:85-90: a verified NGO has an approved row in the   *)
(* audit log, or the script has written its flag.                          *)
THEOREM VerifiedHasAudit == Spec => []VerifiedIsAudited
<1>1. Init => VerifiedIsAudited
  BY DEF Init, VerifiedIsAudited
<1>2. IInv /\ IInv' /\ VerifiedIsAudited /\ [Next]_vars => VerifiedIsAudited'
  BY AuditedStep DEF IInv
<1>3. QED
  BY <1>1, <1>2, Invariance, PTL DEF Spec
=============================================================================
