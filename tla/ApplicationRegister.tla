------------------------ MODULE ApplicationRegister ------------------------
(***************************************************************************)
(* What the intake and review of applications promise, as if one request   *)
(* were served after the other and each at once: an owner opens a file     *)
(* only when none is in the way, with a challenge of its own that was not  *)
(* used before; a link confirms a contact address once, and only the       *)
(* newest link of a file; a confirmed file is decided once.                *)
(***************************************************************************)
EXTENDS Integers

CONSTANTS Owners, Challenges, Apps, Tokens, Absent

VARIABLES
  issued,   \* the challenges that were given out, with their owners
  file,     \* the applications
  mailed,   \* the links that were mailed, by application
  good      \* those that still confirm its address
registerVars == <<issued, file, mailed, good>>

RegisterInit ==
  /\ issued = {} /\ mailed = {} /\ good = {}
  /\ file = [a \in Apps |-> Absent]

Exists(a) == file[a] # Absent
InTheWay(a, o) == Exists(a) /\ file[a].owner = o /\ file[a].status # "REJECTED"
Used(c) == \E a \in Apps : Exists(a) /\ file[a].challenge = c
Without(a) == {link \in good : link[1] # a}

GiveChallenge(c, o) ==
  /\ \A pair \in issued : pair[1] # c
  /\ issued' = issued \cup {<<c, o>>}
  /\ UNCHANGED <<file, mailed, good>>

OpenFile(a, c, o) ==
  /\ <<c, o>> \in issued /\ ~Used(c)
  /\ \A b \in Apps : ~InTheWay(b, o)
  /\ ~Exists(a)
  /\ file' = [file EXCEPT ![a] = [owner |-> o, status |-> "PENDING",
                                  verified |-> FALSE, challenge |-> c]]
  /\ UNCHANGED <<issued, mailed, good>>

(* A link that comes late may be replaced or expired already.              *)
MailLink(a, t) ==
  /\ Exists(a) /\ <<a, t>> \notin mailed
  /\ mailed' = mailed \cup {<<a, t>>}
  /\ \/ UNCHANGED good
     \/ good = Without(a) /\ good' = good \cup {<<a, t>>}
  /\ UNCHANGED <<issued, file>>

VoidLinks(a) ==
  /\ good' = Without(a)
  /\ UNCHANGED <<issued, file, mailed>>

ConfirmAddress(a, t) ==
  /\ Exists(a) /\ <<a, t>> \in good
  /\ file' = [file EXCEPT ![a].verified = TRUE]
  /\ good' = Without(a)
  /\ UNCHANGED <<issued, mailed>>

DecideFile(a, decision) ==
  /\ Exists(a) /\ file[a].status = "PENDING" /\ file[a].verified
  /\ file' = [file EXCEPT ![a].status = decision]
  /\ UNCHANGED <<issued, mailed, good>>

RegisterNext ==
  \/ \E c \in Challenges, o \in Owners : GiveChallenge(c, o)
  \/ \E a \in Apps :
       \/ \E c \in Challenges, o \in Owners : OpenFile(a, c, o)
       \/ \E t \in Tokens : MailLink(a, t) \/ ConfirmAddress(a, t)
       \/ VoidLinks(a)
       \/ DecideFile(a, "APPROVED") \/ DecideFile(a, "REJECTED")

RegisterSpec == RegisterInit /\ [][RegisterNext]_registerVars
=============================================================================
