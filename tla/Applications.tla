---------------------------- MODULE Applications ----------------------------
(***************************************************************************)
(* The intake and review of NGO applications: src/routes/ngoApplications.ts *)
(* and src/notifications/contactVerification.ts.                           *)
(*                                                                         *)
(* Requests run concurrently; every await of a handler is a point where    *)
(* others may step in.  A request is a record: where it is, and what it    *)
(* holds.  A reply that changes nothing (invalid input, a bad signature,   *)
(* an unknown id) is left out: the request has no step then.               *)
(***************************************************************************)
EXTENDS Integers, FiniteSetsExt

CONSTANTS
  Owners,         \* owner addresses
  Requests,       \* HTTP requests the server works on at a time
  Absent,         \* no such row; no holder of a lock
  MaxChallenges,  \* bound: challenges issued
  MaxApps,        \* bound: applications inserted
  MaxTokens       \* bound: contact tokens stored

ASSUME BoundsAssumption ==
  /\ MaxChallenges \in Nat /\ MaxApps \in Nat /\ MaxTokens \in Nat
  /\ MaxChallenges <= MaxApps  \* an application uses a challenge up

Challenges == 1 .. MaxChallenges
Apps == 1 .. MaxApps
Tokens == 1 .. MaxTokens
Decisions == {"APPROVED", "REJECTED"}
Blocking == {"PENDING", "APPROVED"}

(* The rows of the three tables.                                           *)
Challenge == [owner : Owners, state : {"live", "expired", "gone"}]
App == [owner : Owners, status : Blocking \cup Decisions, verified : BOOLEAN,
        challenge : Challenges]
Token == [id : Tokens, expired : BOOLEAN]

ASSUME AbsentAssumption == Absent \notin Requests \cup Challenge \cup App \cup Token

VARIABLES
  challenge,  \* ngo_application_challenges: Absent before it is issued, and
              \* its owner and state after; "gone" is a deleted row
  app,        \* ngo_applications; its challenge is a history field
  token,      \* ngo_application_contact_challenges, by application
  stored,     \* how many tokens were ever stored
  mailbox,    \* the <<application, token>> links that were delivered
  lock,       \* the advisory lock on each owner
  req         \* the requests

tables == <<challenge, app, token, stored>>
vars == <<challenge, app, token, stored, mailbox, lock, req>>

Idle == [at |-> "idle"]
Reply(code, created) == [at |-> "reply", code |-> code, created |-> created]

Init ==
  /\ challenge = [c \in Challenges |-> Absent]
  /\ app = [a \in Apps |-> Absent]
  /\ token = [a \in Apps |-> Absent]
  /\ stored = 0 /\ mailbox = {}
  /\ lock = [o \in Owners |-> Absent]
  /\ req = [r \in Requests |-> Idle]

Goes(r, to) == req' = [req EXCEPT ![r] = to]

----------------------------------------------------------------------------
(* POST /ngo-applications/challenge: expired rows go, a new one comes.     *)
Issue(o) ==
  \E c \in Challenges :
    /\ challenge[c] = Absent
    /\ \A d \in Challenges : d < c => challenge[d] # Absent
    /\ challenge' = [d \in Challenges |->
         IF d = c THEN [owner |-> o, state |-> "live"]
         ELSE IF challenge[d] # Absent /\ challenge[d].state = "expired"
                THEN [challenge[d] EXCEPT !.state = "gone"]
                ELSE challenge[d]]
    /\ UNCHANGED <<app, token, stored, mailbox, lock, req>>

Live(c) == challenge[c] # Absent /\ challenge[c].state = "live"

(* Five minutes have passed.                                               *)
Expire(c) ==
  /\ Live(c)
  /\ challenge' = [challenge EXCEPT ![c].state = "expired"]
  /\ UNCHANGED <<app, token, stored, mailbox, lock, req>>

----------------------------------------------------------------------------
(* POST /ngo-applications                                                  *)

(* The challenge is found, it is of this owner, the signature is good.     *)
Submit(r, c) ==
  /\ req[r] = Idle /\ Live(c)
  /\ Goes(r, [at |-> "consume", challenge |-> c])
  /\ UNCHANGED <<tables, mailbox, lock>>

(* Mistaken: the count of the deleteMany is not looked at.                 *)
ConsumeUnchecked(r) ==
  /\ req[r].at = "consume"
  /\ challenge' = [challenge EXCEPT ![req[r].challenge].state = "gone"]
  /\ Goes(r, [req[r] EXCEPT !.at = "lock"])
  /\ UNCHANGED <<app, token, stored, mailbox, lock>>

(* deleteMany takes the row away, unless somebody did or it has expired.   *)
Consume(r) ==
  /\ req[r].at = "consume"
  /\ \/ /\ Live(req[r].challenge)
        /\ challenge' = [challenge EXCEPT ![req[r].challenge].state = "gone"]
        /\ Goes(r, [req[r] EXCEPT !.at = "lock"])
     \/ /\ ~Live(req[r].challenge)
        /\ Goes(r, Reply(400, FALSE))
        /\ UNCHANGED challenge
  /\ UNCHANGED <<app, token, stored, mailbox, lock>>

OwnerOf(r) == challenge[req[r].challenge].owner
Blocked(o) == \E a \in Apps : app[a] # Absent /\ app[a].owner = o
                                /\ app[a].status \in Blocking

(* Mistaken: the transaction takes no lock.                                *)
Unlocked(o) == TRUE
LockFree(o) == lock[o] = Absent

(* createApplicationUnlessBlocked: the transaction takes the owner's lock  *)
(* and looks for a row in the way; if there is one it ends at once.        *)
FindBlocking(r) ==
  /\ req[r].at = "lock" /\ LockFree(OwnerOf(r))
  /\ \/ /\ Blocked(OwnerOf(r))
        /\ Goes(r, Reply(409, FALSE))
        /\ UNCHANGED lock
     \/ /\ ~Blocked(OwnerOf(r))
        /\ Goes(r, [req[r] EXCEPT !.at = "insert"])
        /\ lock' = [lock EXCEPT ![OwnerOf(r)] = r]
  /\ UNCHANGED <<tables, mailbox>>

(* Mistaken: a lock of the session, that nobody releases.                  *)
KeepLock(r) == UNCHANGED lock
(* COMMIT or ROLLBACK releases the lock.                                   *)
Release(r) == lock' = [lock EXCEPT ![OwnerOf(r)] = Absent]

Insert(r) ==
  /\ req[r].at = "insert"
  /\ \E a \in Apps :
       /\ app[a] = Absent
       /\ \A b \in Apps : b < a => app[b] # Absent
       /\ app' = [app EXCEPT ![a] = [owner |-> OwnerOf(r), status |-> "PENDING",
                                     verified |-> FALSE,
                                     challenge |-> req[r].challenge]]
       /\ Goes(r, [at |-> "notify", app |-> a, created |-> TRUE])
  /\ Release(r)
  /\ UNCHANGED <<challenge, token, stored, mailbox>>

(* A query throws: the database is away, or the transaction has timed out  *)
(* while it waited for the lock.                                           *)
QueryFails(r) ==
  /\ req[r].at \in {"consume", "lock", "insert", "review"}
  /\ Goes(r, Reply(500, FALSE))
  /\ IF req[r].at = "insert" THEN Release(r) ELSE UNCHANGED lock
  /\ UNCHANGED <<tables, mailbox>>

(* notify: nothing to do, or a webhook destination takes the event; then   *)
(* service.ts:89 reads a deliveryId that nothing declares, the             *)
(* ReferenceError rejects the promise the handler awaits, and the server   *)
(* answers 500.  What the handler has committed stays.                     *)
Notify(r) ==
  /\ req[r].at = "notify"
  /\ \/ Goes(r, Reply(500, req[r].created))
     \/ /\ req[r].created
        /\ Goes(r, [req[r] EXCEPT !.at = "store"])
     \/ /\ ~req[r].created
        /\ Goes(r, Reply(200, FALSE))
  /\ UNCHANGED <<tables, mailbox, lock>>

----------------------------------------------------------------------------
(* sendContactVerification and verifyContactToken                          *)

Answered(r) == Reply(IF req[r].created THEN 201 ELSE 202, req[r].created)

(* upsert: a new token takes the place of the application's old one.       *)
StoreToken(r) ==
  /\ req[r].at = "store" /\ stored < MaxTokens
  /\ stored' = stored + 1
  /\ token' = [token EXCEPT ![req[r].app] = [id |-> stored + 1, expired |-> FALSE]]
  /\ Goes(r, [at |-> "mail", app |-> req[r].app, created |-> req[r].created,
              token |-> stored + 1])
  /\ UNCHANGED <<challenge, app, mailbox, lock>>

(* Mail is not configured, or the token cannot be stored: no mail.         *)
StoreFails(r) ==
  /\ req[r].at = "store"
  /\ Goes(r, Answered(r))
  /\ UNCHANGED <<tables, mailbox, lock>>

(* The mail service takes the mail or it does not; nobody retries.         *)
SendMail(r) ==
  /\ req[r].at = "mail"
  /\ mailbox' \in {mailbox, mailbox \cup {<<req[r].app, req[r].token>>}}
  /\ Goes(r, Answered(r))
  /\ UNCHANGED <<tables, lock>>

(* POST /ngo-applications/:id/contact-email-verification                   *)
Resend(r, a) ==
  /\ req[r] = Idle
  /\ app[a] # Absent /\ ~app[a].verified
  /\ Goes(r, [at |-> "store", app |-> a, created |-> FALSE])
  /\ UNCHANGED <<tables, mailbox, lock>>

ExpireToken(a) ==
  /\ token[a] # Absent /\ ~token[a].expired
  /\ token' = [token EXCEPT ![a].expired = TRUE]
  /\ UNCHANGED <<challenge, app, stored, mailbox, lock, req>>

(* Mistaken: the row stays after it has verified the address.              *)
VerifyKeepsToken(a, t) ==
  /\ <<a, t>> \in mailbox
  /\ token[a] # Absent /\ token[a].id = t /\ ~token[a].expired
  /\ app' = [app EXCEPT ![a].verified = TRUE]
  /\ UNCHANGED <<challenge, token, stored, mailbox, lock, req>>

(* GET /ngo-applications/verify-contact-email: the row is found by its     *)
(* hash and deleted; if it had not expired the address is verified.        *)
VerifyContactToken(a, t) ==
  /\ <<a, t>> \in mailbox
  /\ token[a] # Absent /\ token[a].id = t
  /\ token' = [token EXCEPT ![a] = Absent]
  /\ IF token[a].expired
       THEN UNCHANGED app
       ELSE app' = [app EXCEPT ![a].verified = TRUE]
  /\ UNCHANGED <<challenge, stored, mailbox, lock, req>>

----------------------------------------------------------------------------
(* POST /ngo-applications/:id/approve and /reject                          *)

(* Mistaken: the address is not looked at.                                 *)
ReviewUnverified(r, a, decision) ==
  /\ req[r] = Idle
  /\ app[a] # Absent /\ app[a].status = "PENDING"
  /\ Goes(r, [at |-> "review", app |-> a, decision |-> decision])
  /\ UNCHANGED <<tables, mailbox, lock>>

Review(r, a, decision) ==
  /\ req[r] = Idle
  /\ app[a] # Absent /\ app[a].status = "PENDING" /\ app[a].verified
  /\ Goes(r, [at |-> "review", app |-> a, decision |-> decision])
  /\ UNCHANGED <<tables, mailbox, lock>>

(* Mistaken: the status is written as the route's verb.                    *)
DecideByVerb(r) ==
  /\ app' = [app EXCEPT ![req[r].app].status =
               IF req[r].decision = "APPROVED" THEN "approve" ELSE "reject"]
  /\ Goes(r, [at |-> "notify", app |-> req[r].app, created |-> FALSE])

Decide(r) ==
  /\ app' = [app EXCEPT ![req[r].app].status = req[r].decision]
  /\ Goes(r, [at |-> "notify", app |-> req[r].app, created |-> FALSE])

(* Mistaken: an update by id alone.                                        *)
UpdateById(r) ==
  /\ req[r].at = "review"
  /\ Decide(r)
  /\ UNCHANGED <<challenge, token, stored, mailbox, lock>>

(* update where the status is PENDING; P2025 when no row is.               *)
Update(r) ==
  /\ req[r].at = "review"
  /\ \/ app[req[r].app].status = "PENDING" /\ Decide(r)
     \/ /\ app[req[r].app].status # "PENDING"
        /\ Goes(r, Reply(404, FALSE))
        /\ UNCHANGED app
  /\ UNCHANGED <<challenge, token, stored, mailbox, lock>>

----------------------------------------------------------------------------
Done(r) ==
  /\ req[r].at = "reply"
  /\ Goes(r, Idle)
  /\ UNCHANGED <<tables, mailbox, lock>>

(* The process dies: open transactions are rolled back.                    *)
Crash ==
  /\ \E r \in Requests : req[r] # Idle
  /\ req' = [r \in Requests |-> Idle]
  /\ lock' = [o \in Owners |-> Absent]
  /\ UNCHANGED <<tables, mailbox>>

(* What the server does on its own for a request it has begun.             *)
Step(r) ==
  \/ Consume(r) \/ FindBlocking(r) \/ Insert(r) \/ Notify(r)
  \/ StoreToken(r) \/ StoreFails(r) \/ SendMail(r) \/ Update(r) \/ Done(r)

Next ==
  \/ \E o \in Owners : Issue(o)
  \/ \E c \in Challenges : Expire(c)
  \/ \E a \in Apps : ExpireToken(a) \/ \E t \in Tokens : VerifyContactToken(a, t)
  \/ \E r \in Requests :
       \/ Step(r) \/ QueryFails(r)
       \/ \E c \in Challenges : Submit(r, c)
       \/ \E a \in Apps : Resend(r, a) \/ \E d \in Decisions : Review(r, a, d)
  \/ Crash

Spec == Init /\ [][Next]_vars

(* The event loop runs what can run.                                       *)
FairSpec == Spec /\ \A r \in Requests : WF_vars(Step(r))

----------------------------------------------------------------------------
(* Properties *)

Request ==
  {Idle} \cup [at : {"consume", "lock", "insert"}, challenge : Challenges]
  \cup [at : {"notify", "store"}, app : Apps, created : BOOLEAN]
  \cup [at : {"mail"}, app : Apps, created : BOOLEAN, token : Tokens]
  \cup [at : {"review"}, app : Apps, decision : Decisions]
  \cup [at : {"reply"}, code : {200, 201, 202, 400, 404, 409, 500},
        created : BOOLEAN]

TypeOK ==
  /\ challenge \in [Challenges -> Challenge \cup {Absent}]
  /\ app \in [Apps -> App \cup {Absent}]
  /\ token \in [Apps -> Token \cup {Absent}]
  /\ stored \in 0 .. MaxTokens
  /\ mailbox \subseteq Apps \X Tokens
  /\ lock \in [Owners -> Requests \cup {Absent}]
  /\ req \in [Requests -> Request]

(* ngoApplications.ts:109-117: two POSTs that arrive together must not     *)
(* leave one address with two open applications.                           *)
OneOpenApplication ==
  \A a, b \in Apps :
    /\ app[a] # Absent /\ app[b] # Absent /\ app[a].owner = app[b].owner
    /\ app[a].status \in Blocking /\ app[b].status \in Blocking
    => a = b

(* docs/API.md: "A challenge can be used only once", however the requests  *)
(* that hold it interleave with a rejection in between.                    *)
ChallengeUsedOnce ==
  \A a, b \in Apps :
    app[a] # Absent /\ app[b] # Absent /\ app[a].challenge = app[b].challenge
      => a = b

(* docs/API.md: review is available only after the contact email is        *)
(* verified.                                                               *)
ReviewedIsVerified ==
  \A a \in Apps : app[a] # Absent /\ app[a].status # "PENDING" => app[a].verified

(* Two admins who decide together do not overrule each other.              *)
ReviewIsFinal ==
  [][\A a \in Apps : app[a] # Absent /\ app[a].status # "PENDING"
       => app'[a].status = app[a].status]_vars

(* The challenges that were given out, with their owners, and the links    *)
(* that still verify the address of their application.                     *)
Issued == {<<c, challenge[c].owner>> : c \in {d \in Challenges : challenge[d] # Absent}}
GoodLinks == {link \in mailbox : LET row == token[link[1]]
                                 IN  row # Absent /\ ~row.expired /\ row.id = link[2]}

(* However the requests interleave, fail and are cut off, what clients and *)
(* admins see of the applications is what one request after the other      *)
(* would make: a file that an owner opens alone, whose address its newest  *)
(* link confirms once, and that is decided once after that.                *)
Register == INSTANCE ApplicationRegister WITH
  issued <- Issued, file <- app, mailed <- mailbox, good <- GoodLinks
ImplementsRegister == Register!RegisterSpec

(* ngoApplications.ts:118-126: the lock goes with the transaction, so no   *)
(* request waits for it forever; every request is answered or dies with    *)
(* the process.                                                            *)
EventuallyAnswered ==
  \A r \in Requests : req[r] # Idle ~> req[r] = Idle
=============================================================================
