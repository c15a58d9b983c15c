-------------------------- MODULE ApplicationsProofs --------------------------
(***************************************************************************)
(* Theorems about the intake and review of applications, for any number    *)
(* of owners, requests, challenges, applications and tokens.               *)
(***************************************************************************)
EXTENDS Applications, TLAPS

----------------------------------------------------------------------------
(* The inductive invariant.                                                *)

HoldsChallenge(r) == req[r].at \in {"consume", "lock", "insert"}
Consumed(r) == req[r].at \in {"lock", "insert"}
HoldsApp(r) == req[r].at \in {"notify", "store", "mail", "review"}

(* What a request, a token or a mail refers to exists, and a request that  *)
(* is about to write a decision has seen a verified address.               *)
Refers ==
  /\ \A r \in Requests : HoldsChallenge(r) => challenge[req[r].challenge] # Absent
  /\ \A r \in Requests : HoldsApp(r) => app[req[r].app] # Absent
  /\ \A r \in Requests : req[r].at = "review" => app[req[r].app].verified
  /\ \A a \in Apps : token[a] # Absent => app[a] # Absent

(* A challenge that was consumed is gone, and belongs to one request or to *)
(* one application.                                                        *)
UsedUp(c) == challenge[c] # Absent /\ challenge[c].state = "gone"
ConsumedByOne ==
  /\ \A r \in Requests : Consumed(r) => UsedUp(req[r].challenge)
  /\ \A a \in Apps : app[a] # Absent => UsedUp(app[a].challenge)
  /\ \A r, s \in Requests :
       Consumed(r) /\ Consumed(s) /\ req[r].challenge = req[s].challenge => r = s
  /\ \A r \in Requests, a \in Apps :
       Consumed(r) /\ app[a] # Absent => app[a].challenge # req[r].challenge
  /\ ChallengeUsedOnce

(* A request that is about to insert has the lock of its owner, and there  *)
(* is still no application in its way.                                     *)
InsertsAlone ==
  /\ \A r \in Requests : req[r].at = "insert" =>
       lock[OwnerOf(r)] = r /\ ~Blocked(OwnerOf(r))
  /\ OneOpenApplication

(* A token is in the hands of one request, which has not mailed it yet.    *)
Mailing(r) == req[r].at = "mail"
MailsOnce ==
  /\ \A link \in mailbox : link[2] <= stored
  /\ \A r \in Requests : Mailing(r) => req[r].token <= stored
  /\ \A r \in Requests : Mailing(r) => <<req[r].app, req[r].token>> \notin mailbox
  /\ \A r, s \in Requests :
       Mailing(r) /\ Mailing(s) /\ req[r].token = req[s].token => r = s

IInv == TypeOK /\ Refers /\ ConsumedByOne /\ InsertsAlone /\ ReviewedIsVerified
          /\ MailsOnce

----------------------------------------------------------------------------
(* Types.                                                                  *)

(* What a request holds follows from where it is.                          *)
LEMMA RequestShape ==
  ASSUME NEW q \in Request
  PROVE  /\ q.at \in {"consume", "lock", "insert"} =>
              q \in [at : {"consume", "lock", "insert"}, challenge : Challenges]
         /\ q.at \in {"notify", "store"} =>
              q \in [at : {"notify", "store"}, app : Apps, created : BOOLEAN]
         /\ q.at = "mail" =>
              q \in [at : {"mail"}, app : Apps, created : BOOLEAN, token : Tokens]
         /\ q.at = "review" => q \in [at : {"review"}, app : Apps, decision : Decisions]
         /\ q.at = "idle" => q = Idle
BY DEF Request, Idle

(* A reply is a request that is about to end.                              *)
LEMMA ReplyType ==
  \A code \in {200, 201, 202, 400, 404, 409, 500}, created \in BOOLEAN :
    Reply(code, created) \in Request /\ Reply(code, created).at = "reply"
BY DEF Reply, Request

(* The flags of a row stay what they are when a field of it is written.    *)
LEMMA RowType ==
  /\ \A x \in Challenge, state \in {"live", "expired", "gone"} :
       [x EXCEPT !.state = state] \in Challenge
  /\ \A x \in App : [x EXCEPT !.verified = TRUE] \in App
  /\ \A x \in App, d \in Decisions : [x EXCEPT !.status = d] \in App
BY DEF Challenge, App

(* Where a request goes, its state is a request.                           *)
LEMMA GoesType ==
  ASSUME TypeOK, NEW r \in Requests, NEW to \in Request, Goes(r, to)
  PROVE  /\ req' \in [Requests -> Request]
         /\ req'[r] = to
         /\ \A s \in Requests \ {r} : req'[s] = req[s]
BY DEF TypeOK, Goes

(* The row that is inserted is one.                                        *)
NewRow(r) == [owner |-> OwnerOf(r), status |-> "PENDING", verified |-> FALSE,
              challenge |-> req[r].challenge]

LEMMA NewRowType ==
  ASSUME TypeOK, Refers, NEW r \in Requests, Insert(r)
  PROVE  NewRow(r) \in App
<1>1. /\ req[r].challenge \in Challenges
      /\ OwnerOf(r) \in Owners
  BY RequestShape DEF Insert, TypeOK, Refers, HoldsChallenge, OwnerOf, Challenge
<1>2. QED
  BY <1>1 DEF NewRow, App, Blocking

(* Every step keeps every variable within its type.                        *)
LEMMA TypeStep == TypeOK /\ Refers /\ [Next]_vars => TypeOK'
<1> SUFFICES ASSUME TypeOK, Refers, [Next]_vars PROVE TypeOK'
  OBVIOUS
<1>g. ASSUME NEW r \in Requests, NEW to \in Request, Goes(r, to)
      PROVE  req' \in [Requests -> Request]
  BY <1>g, GoesType
<1> USE DEF tables
<1>1. ASSUME NEW o \in Owners, Issue(o) PROVE TypeOK'
  <2>1. PICK c \in Challenges :
          challenge' = [d \in Challenges |->
            IF d = c THEN [owner |-> o, state |-> "live"]
            ELSE IF challenge[d] # Absent /\ challenge[d].state = "expired"
                   THEN [challenge[d] EXCEPT !.state = "gone"]
                   ELSE challenge[d]]
    BY <1>1 DEF Issue
  <2>2. challenge' \in [Challenges -> Challenge \cup {Absent}]
    BY <2>1 DEF TypeOK, Challenge
  <2>3. QED
    BY <1>1, <2>2 DEF Issue, TypeOK
<1>2. ASSUME NEW c \in Challenges, Expire(c) PROVE TypeOK'
  BY <1>2 DEF Expire, Live, TypeOK, Challenge
<1>3. ASSUME NEW a \in Apps, ExpireToken(a) PROVE TypeOK'
  BY <1>3 DEF ExpireToken, TypeOK, Token
<1>4. ASSUME NEW a \in Apps, NEW t \in Tokens, VerifyContactToken(a, t) PROVE TypeOK'
  <2>1. app[a] \in App
    BY <1>4 DEF VerifyContactToken, TypeOK, Refers
  <2>2. app' \in [Apps -> App \cup {Absent}]
    BY <1>4, <2>1, RowType DEF VerifyContactToken, TypeOK
  <2>3. QED
    BY <1>4, <2>2 DEF VerifyContactToken, TypeOK
<1>5. ASSUME NEW r \in Requests, Consume(r) PROVE TypeOK'
  <2>1. req[r] \in [at : {"consume", "lock", "insert"}, challenge : Challenges]
    BY <1>5, RequestShape DEF Consume, TypeOK
  <2>2. [req[r] EXCEPT !.at = "lock"] \in Request
    BY <2>1 DEF Request
  <2>3. req' \in [Requests -> Request]
    <3>1. Reply(400, FALSE) \in Request
      BY DEF Reply, Request
    <3>2. \E to \in Request : Goes(r, to)
      BY <1>5, <2>2, <3>1 DEF Consume, Reply
    <3>3. QED
      BY <1>g, <3>2
  <2>4. challenge' \in [Challenges -> Challenge \cup {Absent}]
    <3>1. CASE Live(req[r].challenge)
      <4>1. challenge' = [challenge EXCEPT ![req[r].challenge].state = "gone"]
        BY <1>5, <3>1 DEF Consume
      <4>2. challenge[req[r].challenge] \in Challenge
        BY <2>1, <3>1 DEF Live, TypeOK
      <4>3. [challenge[req[r].challenge] EXCEPT !.state = "gone"] \in Challenge
        BY <4>2, RowType
      <4>4. QED
        BY <4>1, <4>3 DEF TypeOK
    <3>2. CASE ~Live(req[r].challenge)
      BY <1>5, <3>2 DEF Consume, TypeOK
    <3>3. QED
      BY <3>1, <3>2
  <2>5. QED
    BY <1>5, <2>3, <2>4 DEF Consume, TypeOK
<1>6. ASSUME NEW r \in Requests, FindBlocking(r) PROVE TypeOK'
  <2>1. req[r] \in [at : {"consume", "lock", "insert"}, challenge : Challenges]
    BY <1>6, RequestShape DEF FindBlocking, TypeOK
  <2>2. [req[r] EXCEPT !.at = "insert"] \in Request
    BY <2>1 DEF Request
  <2>3. req' \in [Requests -> Request]
    <3>1. Reply(409, FALSE) \in Request
      BY DEF Reply, Request
    <3>2. \E to \in Request : Goes(r, to)
      BY <1>6, <2>2, <3>1 DEF FindBlocking, Reply
    <3>3. QED
      BY <1>g, <3>2
  <2>4. QED
    BY <1>6, <2>3 DEF FindBlocking, TypeOK
<1>7. ASSUME NEW r \in Requests, Insert(r) PROVE TypeOK'
  <2>1. PICK a \in Apps :
          /\ app' = [app EXCEPT ![a] = NewRow(r)]
          /\ Goes(r, [at |-> "notify", app |-> a, created |-> TRUE])
    BY <1>7 DEF Insert, NewRow
  <2>2. NewRow(r) \in App
    BY <1>7, NewRowType
  <2>3. app' \in [Apps -> App \cup {Absent}]
    BY <2>1, <2>2 DEF TypeOK
  <2>4. [at |-> "notify", app |-> a, created |-> TRUE] \in Request
    BY DEF Request
  <2>5. req' \in [Requests -> Request]
    BY <1>g, <2>1, <2>4
  <2>6. QED
    BY <1>7, <2>3, <2>5 DEF Insert, Release, TypeOK
<1>8. ASSUME NEW r \in Requests, QueryFails(r) PROVE TypeOK'
  <2>1. req' \in [Requests -> Request]
    <3>1. Reply(500, FALSE) \in Request
      BY DEF Reply, Request
    <3>2. \E to \in Request : Goes(r, to)
      BY <1>8, <3>1 DEF QueryFails, Reply
    <3>3. QED
      BY <1>g, <3>2
  <2>2. QED
    BY <1>8, <2>1 DEF QueryFails, Release, TypeOK
<1>9. ASSUME NEW r \in Requests, Notify(r) PROVE TypeOK'
  <2>1. req[r] \in [at : {"notify", "store"}, app : Apps, created : BOOLEAN]
    BY <1>9, RequestShape DEF Notify, TypeOK
  <2>2. [req[r] EXCEPT !.at = "store"] \in Request
    BY <2>1 DEF Request
  <2>3. req' \in [Requests -> Request]
    <3>1. req[r].created \in BOOLEAN
      BY <2>1
    <3>2. Reply(500, req[r].created) \in Request
      BY <3>1, ReplyType
    <3>3. Reply(200, FALSE) \in Request
      BY DEF Reply, Request
    <3>4. \E to \in Request : Goes(r, to)
      BY <1>9, <2>2, <3>2, <3>3 DEF Notify, Reply
    <3>5. QED
      BY <1>g, <3>4
  <2>4. QED
    BY <1>9, <2>3 DEF Notify, TypeOK
<1>10. ASSUME NEW r \in Requests, StoreToken(r) PROVE TypeOK'
  <2>1. req[r] \in [at : {"notify", "store"}, app : Apps, created : BOOLEAN]
    BY <1>10, RequestShape DEF StoreToken, TypeOK
  <2>2. stored' \in 0 .. MaxTokens /\ stored + 1 \in Tokens
    BY <1>10, BoundsAssumption DEF StoreToken, TypeOK, Tokens
  <2>3. [at |-> "mail", app |-> req[r].app, created |-> req[r].created,
         token |-> stored + 1] \in Request
    BY <2>1, <2>2 DEF Request
  <2>4. req' \in [Requests -> Request]
    BY <1>g, <1>10, <2>3 DEF StoreToken
  <2>5. token' \in [Apps -> Token \cup {Absent}]
    BY <1>10, <2>2 DEF StoreToken, TypeOK, Token
  <2>6. QED
    BY <1>10, <2>2, <2>4, <2>5 DEF StoreToken, TypeOK
<1>11. ASSUME NEW r \in Requests, StoreFails(r) PROVE TypeOK'
  <2>1. req[r].created \in BOOLEAN
    BY <1>11, RequestShape DEF StoreFails, TypeOK
  <2>2. req' \in [Requests -> Request]
    <3>1. Answered(r) \in Request
      BY <2>1, ReplyType DEF Answered
    <3>2. QED
      BY <1>g, <1>11, <3>1 DEF StoreFails
  <2>3. QED
    BY <1>11, <2>2 DEF StoreFails, TypeOK
<1>12. ASSUME NEW r \in Requests, SendMail(r) PROVE TypeOK'
  <2>1. req[r] \in [at : {"mail"}, app : Apps, created : BOOLEAN, token : Tokens]
    BY <1>12, RequestShape DEF SendMail, TypeOK
  <2>2. req' \in [Requests -> Request]
    <3>1. Answered(r) \in Request
      BY <2>1, ReplyType DEF Answered
    <3>2. QED
      BY <1>g, <1>12, <3>1 DEF SendMail
  <2>3. mailbox' \subseteq Apps \X Tokens
    BY <1>12, <2>1 DEF SendMail, TypeOK
  <2>4. QED
    BY <1>12, <2>2, <2>3 DEF SendMail, TypeOK
<1>13. ASSUME NEW r \in Requests, Update(r) PROVE TypeOK'
  <2>1. req[r] \in [at : {"review"}, app : Apps, decision : Decisions]
    BY <1>13, RequestShape DEF Update, TypeOK
  <2>2. app[req[r].app] \in App
    BY <1>13, <2>1 DEF Update, TypeOK, Refers, HoldsApp
  <2>3. [at |-> "notify", app |-> req[r].app, created |-> FALSE] \in Request
    BY <2>1 DEF Request
  <2>4. req' \in [Requests -> Request]
    <3>1. Reply(404, FALSE) \in Request
      BY DEF Reply, Request
    <3>2. \E to \in Request : Goes(r, to)
      BY <1>13, <2>3, <3>1 DEF Update, Decide, Reply
    <3>3. QED
      BY <1>g, <3>2
  <2>5. app' \in [Apps -> App \cup {Absent}]
    <3>1. [app[req[r].app] EXCEPT !.status = req[r].decision] \in App
      BY <2>1, <2>2, RowType
    <3>2. QED
      BY <1>13, <2>1, <3>1 DEF Update, Decide, TypeOK
  <2>6. QED
    BY <1>13, <2>4, <2>5 DEF Update, TypeOK
<1>14. ASSUME NEW r \in Requests, Done(r) PROVE TypeOK'
  <2>1. req' \in [Requests -> Request]
    <3>1. Idle \in Request
      BY DEF Request
    <3>2. QED
      BY <1>g, <1>14, <3>1 DEF Done
  <2>2. QED
    BY <1>14, <2>1 DEF Done, TypeOK
<1>15. ASSUME NEW r \in Requests, NEW c \in Challenges, Submit(r, c) PROVE TypeOK'
  <2>1. [at |-> "consume", challenge |-> c] \in Request
    BY DEF Request
  <2>2. req' \in [Requests -> Request]
    BY <1>g, <1>15, <2>1 DEF Submit
  <2>3. QED
    BY <1>15, <2>2 DEF Submit, TypeOK
<1>16. ASSUME NEW r \in Requests, NEW a \in Apps, Resend(r, a) PROVE TypeOK'
  <2>1. [at |-> "store", app |-> a, created |-> FALSE] \in Request
    BY DEF Request
  <2>2. req' \in [Requests -> Request]
    BY <1>g, <1>16, <2>1 DEF Resend
  <2>3. QED
    BY <1>16, <2>2 DEF Resend, TypeOK
<1>17. ASSUME NEW r \in Requests, NEW a \in Apps, NEW d \in Decisions, Review(r, a, d)
       PROVE  TypeOK'
  <2>1. [at |-> "review", app |-> a, decision |-> d] \in Request
    BY DEF Request
  <2>2. req' \in [Requests -> Request]
    BY <1>g, <1>17, <2>1 DEF Review
  <2>3. QED
    BY <1>17, <2>2 DEF Review, TypeOK
<1>18. CASE Crash
  BY <1>18 DEF Crash, TypeOK, Request
<1>19. CASE UNCHANGED vars
  BY <1>19 DEF vars, TypeOK
<1>20. QED
  BY <1>1, <1>2, <1>3, <1>4, <1>5, <1>6, <1>7, <1>8, <1>9, <1>10, <1>11, <1>12,
     <1>13, <1>14, <1>15, <1>16, <1>17, <1>18, <1>19 DEF Next, Step

----------------------------------------------------------------------------
(* What a step keeps.                                                      *)

(* What an action leaves alone.                                            *)
LEMMA Frame ==
  /\ \A o \in Owners : Issue(o) => UNCHANGED <<app, token, stored, mailbox, lock, req>>
  /\ \A c \in Challenges : Expire(c) => UNCHANGED <<app, token, stored, mailbox, lock, req>>
  /\ \A a \in Apps : ExpireToken(a) => UNCHANGED <<challenge, app, stored, mailbox, lock, req>>
  /\ \A a \in Apps, t \in Tokens :
       VerifyContactToken(a, t) => UNCHANGED <<challenge, stored, mailbox, lock, req>>
  /\ \A r \in Requests, c \in Challenges :
       Submit(r, c) => UNCHANGED <<tables, mailbox, lock>>
  /\ \A r \in Requests, a \in Apps :
       Resend(r, a) => UNCHANGED <<tables, mailbox, lock>>
  /\ \A r \in Requests, a \in Apps, d \in Decisions :
       Review(r, a, d) => UNCHANGED <<tables, mailbox, lock>>
  /\ \A r \in Requests :
       /\ Consume(r) => UNCHANGED <<app, token, stored, mailbox, lock>>
       /\ FindBlocking(r) \/ QueryFails(r) => UNCHANGED <<tables, mailbox>>
       /\ Insert(r) => UNCHANGED <<challenge, token, stored, mailbox>>
       /\ Notify(r) \/ StoreFails(r) \/ Done(r) => UNCHANGED <<tables, mailbox, lock>>
       /\ SendMail(r) => UNCHANGED <<tables, lock>>
       /\ StoreToken(r) => UNCHANGED <<challenge, app, mailbox, lock>>
       /\ Update(r) => UNCHANGED <<challenge, token, stored, mailbox, lock>>
  /\ Crash => UNCHANGED <<tables, mailbox>>
<1> USE DEF tables
<1>1. ASSUME NEW o \in Owners, Issue(o) PROVE UNCHANGED <<app, token, stored, mailbox, lock, req>>
  BY <1>1 DEF Issue
<1>2. ASSUME NEW c \in Challenges, Expire(c) PROVE UNCHANGED <<app, token, stored, mailbox, lock, req>>
  BY <1>2 DEF Expire
<1>3. ASSUME NEW a \in Apps, ExpireToken(a)
      PROVE  UNCHANGED <<challenge, app, stored, mailbox, lock, req>>
  BY <1>3 DEF ExpireToken
<1>4. ASSUME NEW a \in Apps, NEW t \in Tokens, VerifyContactToken(a, t)
      PROVE  UNCHANGED <<challenge, stored, mailbox, lock, req>>
  BY <1>4 DEF VerifyContactToken
<1>5. ASSUME NEW r \in Requests, NEW c \in Challenges, Submit(r, c)
      PROVE  UNCHANGED <<tables, mailbox, lock>>
  BY <1>5 DEF Submit
<1>6. ASSUME NEW r \in Requests, NEW a \in Apps, Resend(r, a)
      PROVE  UNCHANGED <<tables, mailbox, lock>>
  BY <1>6 DEF Resend
<1>7. ASSUME NEW r \in Requests, NEW a \in Apps, NEW d \in Decisions, Review(r, a, d)
      PROVE  UNCHANGED <<tables, mailbox, lock>>
  BY <1>7 DEF Review
<1>8. ASSUME NEW r \in Requests
      PROVE  /\ Consume(r) => UNCHANGED <<app, token, stored, mailbox, lock>>
             /\ FindBlocking(r) \/ QueryFails(r) => UNCHANGED <<tables, mailbox>>
             /\ Insert(r) => UNCHANGED <<challenge, token, stored, mailbox>>
             /\ Notify(r) \/ StoreFails(r) \/ Done(r) => UNCHANGED <<tables, mailbox, lock>>
             /\ SendMail(r) => UNCHANGED <<tables, lock>>
             /\ StoreToken(r) => UNCHANGED <<challenge, app, mailbox, lock>>
             /\ Update(r) => UNCHANGED <<challenge, token, stored, mailbox, lock>>
  <2>1. Consume(r) => UNCHANGED <<app, token, stored, mailbox, lock>>
    BY DEF Consume
  <2>2. FindBlocking(r) => UNCHANGED <<tables, mailbox>>
    BY DEF FindBlocking
  <2>3. QueryFails(r) => UNCHANGED <<tables, mailbox>>
    BY DEF QueryFails
  <2>4. Insert(r) => UNCHANGED <<challenge, token, stored, mailbox>>
    BY DEF Insert
  <2>5. Notify(r) => UNCHANGED <<tables, mailbox, lock>>
    BY DEF Notify
  <2>6. StoreFails(r) \/ Done(r) => UNCHANGED <<tables, mailbox, lock>>
    BY DEF StoreFails, Done
  <2>a. SendMail(r) => UNCHANGED <<tables, lock>>
    BY DEF SendMail
  <2>7. StoreToken(r) => UNCHANGED <<challenge, app, mailbox, lock>>
    BY DEF StoreToken
  <2>8. Update(r) => UNCHANGED <<challenge, token, stored, mailbox, lock>>
    BY DEF Update
  <2>9. QED
    BY <2>1, <2>2, <2>3, <2>4, <2>5, <2>6, <2>a, <2>7, <2>8
<1>9. Crash => UNCHANGED <<tables, mailbox>>
  BY DEF Crash
<1>10. QED
  BY <1>1, <1>2, <1>3, <1>4, <1>5, <1>6, <1>7, <1>8, <1>9

(* A challenge keeps its owner, and one that is gone stays gone.           *)
LEMMA ChallengeKept ==
  ASSUME TypeOK, Refers, [Next]_vars, NEW c \in Challenges, challenge[c] # Absent
  PROVE  /\ challenge'[c] # Absent
         /\ challenge'[c].owner = challenge[c].owner
         /\ challenge[c].state = "gone" => challenge'[c].state = "gone"
<1> DEFINE Goal == /\ challenge'[c] # Absent
                   /\ challenge'[c].owner = challenge[c].owner
                   /\ challenge[c].state = "gone" => challenge'[c].state = "gone"
<1>0. challenge[c] \in Challenge
  BY DEF TypeOK
<1>1. ASSUME challenge'[c] = [challenge[c] EXCEPT !.state = "gone"] PROVE Goal
  <2>1. challenge'[c] \in Challenge
    BY <1>0, <1>1, RowType
  <2>2. QED
    BY <1>0, <1>1, <2>1, AbsentAssumption DEF Challenge
<1>2. ASSUME NEW o \in Owners, Issue(o) PROVE Goal
  BY <1>1, <1>2 DEF Issue
<1>3. ASSUME NEW d \in Challenges, Expire(d) PROVE Goal
  <2>1. [challenge[c] EXCEPT !.state = "expired"] \in Challenge
    BY <1>0, RowType
  <2>2. CASE c = d
    <3>1. challenge'[c] = [challenge[c] EXCEPT !.state = "expired"]
      BY <1>3, <2>2 DEF Expire, TypeOK
    <3>2. QED
      BY <1>0, <1>3, <2>1, <2>2, <3>1, AbsentAssumption DEF Expire, Live, Challenge
  <2>3. CASE c # d
    BY <1>3, <2>3 DEF Expire, TypeOK
  <2>4. QED
    BY <2>2, <2>3
<1>4. ASSUME NEW r \in Requests, Consume(r) PROVE Goal
  BY <1>1, <1>4 DEF Consume, TypeOK
<1>5. CASE UNCHANGED challenge
  BY <1>5
<1>6. \/ UNCHANGED challenge
      \/ \E o \in Owners : Issue(o)
      \/ \E d \in Challenges : Expire(d)
      \/ \E r \in Requests : Consume(r)
  BY Frame DEF Next, Step, vars, tables
<1>7. QED
  BY <1>2, <1>3, <1>4, <1>5, <1>6

(* An application keeps its owner, its challenge and its verified address, *)
(* and a decision is never taken back or replaced by another.              *)
LEMMA AppKept ==
  ASSUME TypeOK, Refers, [Next]_vars, NEW a \in Apps, app[a] # Absent
  PROVE  /\ app'[a] # Absent
         /\ app'[a].owner = app[a].owner
         /\ app'[a].challenge = app[a].challenge
         /\ app[a].verified => app'[a].verified
         /\ app[a].status # "PENDING" => app'[a].status = app[a].status
         /\ app'[a].status \in Blocking => app[a].status \in Blocking
<1> DEFINE Goal == /\ app'[a] # Absent
                   /\ app'[a].owner = app[a].owner
                   /\ app'[a].challenge = app[a].challenge
                   /\ app[a].verified => app'[a].verified
                   /\ app[a].status # "PENDING" => app'[a].status = app[a].status
                   /\ app'[a].status \in Blocking => app[a].status \in Blocking
<1>0. app[a] \in App
  BY DEF TypeOK
<1>1. ASSUME NEW b \in Apps, NEW t \in Tokens, VerifyContactToken(b, t) PROVE Goal
  <2>1. CASE app'[a] = app[a]
    BY <2>1
  <2>2. CASE app'[a] = [app[a] EXCEPT !.verified = TRUE]
    <3>1. app'[a] \in App
      BY <1>0, <2>2, RowType
    <3>2. QED
      BY <1>0, <2>2, <3>1, AbsentAssumption DEF App
  <2>3. QED
    <3>1. \/ UNCHANGED app
          \/ app' = [app EXCEPT ![b].verified = TRUE]
      BY <1>1 DEF VerifyContactToken
    <3>2. app'[a] = app[a] \/ app'[a] = [app[a] EXCEPT !.verified = TRUE]
      BY <3>1 DEF TypeOK
    <3>3. QED
      BY <2>1, <2>2, <3>2
<1>2. ASSUME NEW r \in Requests, Insert(r) PROVE Goal
  BY <1>2 DEF Insert
<1>3. ASSUME NEW r \in Requests, Update(r) PROVE Goal
  <2>1. CASE app'[a] = app[a]
    BY <2>1
  <2>2. CASE app'[a] # app[a]
    <3>1. req[r] \in [at : {"review"}, app : Apps, decision : Decisions]
      BY <1>3, RequestShape DEF Update, TypeOK
    <3>2. /\ app[a].status = "PENDING"
          /\ app'[a] = [app[a] EXCEPT !.status = req[r].decision]
      BY <1>3, <2>2, <3>1 DEF Update, Decide, TypeOK
    <3>3. app'[a] \in App
      BY <1>0, <3>1, <3>2, RowType
    <3>4. QED
      BY <1>0, <3>2, <3>3, AbsentAssumption DEF App, Blocking
  <2>3. QED
    BY <2>1, <2>2
<1>4. CASE UNCHANGED app
  BY <1>4
<1>5. \/ UNCHANGED app
      \/ \E b \in Apps, t \in Tokens : VerifyContactToken(b, t)
      \/ \E r \in Requests : Insert(r) \/ Update(r)
  BY Frame DEF Next, Step, vars, tables
<1>6. QED
  BY <1>1, <1>2, <1>3, <1>4, <1>5

(* An application that was not there was inserted.                         *)
LEMMA AppAppears ==
  ASSUME TypeOK, Refers, [Next]_vars,
         NEW a \in Apps, app[a] = Absent, app'[a] # Absent
  PROVE  \E r \in Requests :
           /\ Insert(r) /\ app'[a] = NewRow(r)
           /\ \A b \in Apps \ {a} : app'[b] = app[b]
<1>1. \A r \in Requests : ~Update(r)
  <2> SUFFICES ASSUME NEW r \in Requests, Update(r) PROVE FALSE
    OBVIOUS
  <2>1. req[r].app # a
    BY DEF Update, Refers, HoldsApp
  <2>2. QED
    BY <2>1 DEF Update, Decide, TypeOK
<1>2. \A b \in Apps, t \in Tokens : ~VerifyContactToken(b, t)
  <2> SUFFICES ASSUME NEW b \in Apps, NEW t \in Tokens, VerifyContactToken(b, t)
               PROVE  FALSE
    OBVIOUS
  <2>1. b # a
    BY DEF VerifyContactToken, Refers
  <2>2. QED
    BY <2>1 DEF VerifyContactToken, TypeOK
<1>3. PICK r \in Requests : Insert(r)
  <2>1. app' # app
    OBVIOUS
  <2>2. QED
    BY <1>1, <1>2, <2>1, Frame DEF Next, Step, vars, tables
<1>4. PICK b \in Apps : app' = [app EXCEPT ![b] = NewRow(r)]
  BY <1>3 DEF Insert, NewRow
<1>5. a = b
  BY <1>4 DEF TypeOK
<1>6. QED
  BY <1>3, <1>4, <1>5 DEF TypeOK

(* How a request gets where it is.                                         *)
Move(s) ==
  \/ req'[s] = req[s]
  \/ req'[s].at \in {"idle", "reply"}
  \/ req'[s].at = "consume" /\ challenge[req'[s].challenge] # Absent
  \/ /\ Consume(s) /\ Live(req[s].challenge)
     /\ req'[s].at = "lock" /\ req'[s].challenge = req[s].challenge
  \/ /\ FindBlocking(s) /\ ~Blocked(OwnerOf(s))
     /\ req'[s].at = "insert" /\ req'[s].challenge = req[s].challenge
  \/ req'[s].at = "notify" /\ app'[req'[s].app] # Absent
  \/ /\ HoldsApp(s) /\ req'[s].at \in {"notify", "store"}
     /\ req'[s].app = req[s].app
  \/ /\ HoldsApp(s) /\ StoreToken(s) /\ req'[s].at = "mail"
     /\ req'[s].app = req[s].app /\ req'[s].token = stored + 1
  \/ /\ req'[s].at \in {"store", "review"} /\ app[req'[s].app] # Absent
     /\ req'[s].at = "review" => app[req'[s].app].verified

LEMMA RequestMoves ==
  ASSUME TypeOK, Refers, [Next]_vars, NEW s \in Requests
  PROVE  Move(s)
<1> USE DEF tables
<1>1. ASSUME NEW r \in Requests, NEW to, Goes(r, to), s # r PROVE Move(s)
  BY <1>1 DEF Goes, TypeOK, Move
<1>2. ASSUME NEW to, Goes(s, to) PROVE req'[s] = to
  BY <1>2 DEF Goes, TypeOK
<1>3. ASSUME NEW to, to.at = "reply", Goes(s, to) PROVE Move(s)
  BY <1>2, <1>3 DEF Move
<1>4. ASSUME NEW r \in Requests, Consume(r) PROVE Move(s)
  <2>1. CASE s = r /\ Live(req[s].challenge)
    <3>1. req[s] \in [at : {"consume", "lock", "insert"}, challenge : Challenges]
      BY <1>4, <2>1, RequestShape DEF Consume, TypeOK
    <3>2. req'[s] = [req[s] EXCEPT !.at = "lock"]
      BY <1>2, <1>4, <2>1 DEF Consume
    <3>3. req'[s].at = "lock" /\ req'[s].challenge = req[s].challenge
      BY <3>1, <3>2
    <3>4. QED
      BY <1>4, <2>1, <3>3 DEF Move
  <2>2. CASE s # r
    <3>1. \E to : Goes(r, to)
      BY <1>4 DEF Consume
    <3>2. QED
      BY <1>1, <2>2, <3>1
  <2>3. CASE s = r /\ ~(Live(req[s].challenge))
    <3>1. \E to : to.at = "reply" /\ Goes(s, to)
      BY <1>4, <2>3 DEF Consume, Reply
    <3>2. QED
      BY <1>3, <3>1
  <2>4. QED
    BY <2>1, <2>2, <2>3
<1>5. ASSUME NEW r \in Requests, FindBlocking(r) PROVE Move(s)
  <2>1. CASE s = r /\ ~Blocked(OwnerOf(s))
    <3>1. req[s] \in [at : {"consume", "lock", "insert"}, challenge : Challenges]
      BY <1>5, <2>1, RequestShape DEF FindBlocking, TypeOK
    <3>2. req'[s] = [req[s] EXCEPT !.at = "insert"]
      BY <1>2, <1>5, <2>1 DEF FindBlocking
    <3>3. req'[s].at = "insert" /\ req'[s].challenge = req[s].challenge
      BY <3>1, <3>2
    <3>4. QED
      BY <1>5, <2>1, <3>3 DEF Move
  <2>2. CASE s # r
    <3>1. \E to : Goes(r, to)
      BY <1>5 DEF FindBlocking
    <3>2. QED
      BY <1>1, <2>2, <3>1
  <2>3. CASE s = r /\ ~(~Blocked(OwnerOf(s)))
    <3>1. \E to : to.at = "reply" /\ Goes(s, to)
      BY <1>5, <2>3 DEF FindBlocking, Reply
    <3>2. QED
      BY <1>3, <3>1
  <2>4. QED
    BY <2>1, <2>2, <2>3
<1>6. ASSUME NEW r \in Requests, Insert(r) PROVE Move(s)
  <2>1. PICK a \in Apps :
          /\ app' = [app EXCEPT ![a] = NewRow(r)]
          /\ Goes(r, [at |-> "notify", app |-> a, created |-> TRUE])
    BY <1>6 DEF Insert, NewRow
  <2>2. CASE s = r
    <3>1. req'[s] = [at |-> "notify", app |-> a, created |-> TRUE]
      BY <1>2, <2>1, <2>2
    <3>2. app'[a] # Absent
      BY <1>6, <2>1, NewRowType, AbsentAssumption DEF TypeOK
    <3>3. QED
      BY <3>1, <3>2 DEF Move
  <2>3. QED
    BY <1>1, <2>1, <2>2
<1>7. ASSUME NEW r \in Requests, Notify(r) PROVE Move(s)
  <2>1. CASE s = r /\ Goes(s, [req[s] EXCEPT !.at = "store"])
    <3>1. req[s] \in [at : {"notify", "store"}, app : Apps, created : BOOLEAN]
      BY <1>7, <2>1, RequestShape DEF Notify, TypeOK
    <3>2. req'[s].at = "store" /\ req'[s].app = req[s].app
      BY <1>2, <2>1, <3>1
    <3>3. QED
      BY <1>7, <2>1, <3>2 DEF Move, Notify, HoldsApp
  <2>2. CASE s # r
    <3>1. \E to : Goes(r, to)
      BY <1>7 DEF Notify, Reply
    <3>2. QED
      BY <1>1, <2>2, <3>1
  <2>3. CASE s = r /\ ~Goes(s, [req[s] EXCEPT !.at = "store"])
    <3>1. \E to : to.at = "reply" /\ Goes(s, to)
      BY <1>7, <2>3 DEF Notify, Reply
    <3>2. QED
      BY <1>3, <3>1
  <2>4. QED
    BY <2>1, <2>2, <2>3
<1>8. ASSUME NEW r \in Requests, StoreToken(r) PROVE Move(s)
  <2>1. CASE s = r
    <3>1. /\ req'[s].at = "mail" /\ req'[s].app = req[s].app
          /\ req'[s].token = stored + 1
      BY <1>2, <1>8, <2>1 DEF StoreToken
    <3>2. HoldsApp(s)
      BY <1>8, <2>1 DEF StoreToken, HoldsApp
    <3>3. QED
      BY <1>8, <2>1, <3>1, <3>2 DEF Move
  <2>2. CASE s # r
    <3>1. \E to : Goes(r, to)
      BY <1>8 DEF StoreToken
    <3>2. QED
      BY <1>1, <2>2, <3>1
  <2>3. QED
    BY <2>1, <2>2
<1>9. ASSUME NEW r \in Requests,
             StoreFails(r) \/ SendMail(r) \/ QueryFails(r)
      PROVE  Move(s)
  <2>1. \E to : to.at = "reply" /\ Goes(r, to)
    BY <1>9 DEF StoreFails, SendMail, QueryFails, Answered, Reply
  <2>2. CASE s = r
    BY <1>3, <2>1, <2>2
  <2>3. CASE s # r
    BY <1>1, <2>1, <2>3
  <2>4. QED
    BY <2>2, <2>3
<1>10. ASSUME NEW r \in Requests, Update(r) PROVE Move(s)
  <2>1. CASE s = r /\ Decide(s)
    <3>1. req'[s].at = "notify" /\ req'[s].app = req[s].app
      BY <1>2, <2>1 DEF Decide
    <3>2. QED
      BY <1>10, <2>1, <3>1 DEF Move, Update, HoldsApp
  <2>2. CASE s # r
    <3>1. \E to : Goes(r, to)
      BY <1>10 DEF Update, Decide
    <3>2. QED
      BY <1>1, <2>2, <3>1
  <2>3. CASE s = r /\ ~Decide(s)
    <3>1. \E to : to.at = "reply" /\ Goes(s, to)
      BY <1>10, <2>3 DEF Update, Reply
    <3>2. QED
      BY <1>3, <3>1
  <2>4. QED
    BY <2>1, <2>2, <2>3
<1>11. ASSUME NEW r \in Requests, Done(r) PROVE Move(s)
  BY <1>1, <1>2, <1>11 DEF Done, Idle, Move
<1>12. ASSUME NEW r \in Requests, NEW c \in Challenges, Submit(r, c) PROVE Move(s)
  <2>1. CASE s = r
    <3>1. req'[s].at = "consume" /\ req'[s].challenge = c
      BY <1>2, <1>12, <2>1 DEF Submit
    <3>2. QED
      BY <1>12, <3>1 DEF Move, Submit, Live
  <2>2. CASE s # r
    <3>1. \E to : Goes(r, to)
      BY <1>12 DEF Submit
    <3>2. QED
      BY <1>1, <2>2, <3>1
  <2>3. QED
    BY <2>1, <2>2
<1>13. ASSUME NEW r \in Requests, NEW a \in Apps, Resend(r, a) PROVE Move(s)
  <2>1. CASE s = r
    <3>1. req'[s].at = "store" /\ req'[s].app = a
      BY <1>2, <1>13, <2>1 DEF Resend
    <3>2. QED
      BY <1>13, <3>1 DEF Move, Resend
  <2>2. CASE s # r
    <3>1. \E to : Goes(r, to)
      BY <1>13 DEF Resend
    <3>2. QED
      BY <1>1, <2>2, <3>1
  <2>3. QED
    BY <2>1, <2>2
<1>14. ASSUME NEW r \in Requests, NEW a \in Apps, NEW d \in Decisions, Review(r, a, d)
       PROVE  Move(s)
  <2>1. CASE s = r
    <3>1. req'[s].at = "review" /\ req'[s].app = a
      BY <1>2, <1>14, <2>1 DEF Review
    <3>2. QED
      BY <1>14, <3>1 DEF Move, Review
  <2>2. CASE s # r
    <3>1. \E to : Goes(r, to)
      BY <1>14 DEF Review
    <3>2. QED
      BY <1>1, <2>2, <3>1
  <2>3. QED
    BY <2>1, <2>2
<1>15. CASE Crash
  BY <1>15 DEF Crash, Idle, Move
<1>16. CASE UNCHANGED req
  BY <1>16 DEF Move
<1>17. QED
  BY <1>4, <1>5, <1>6, <1>7, <1>8, <1>9, <1>10, <1>11, <1>12, <1>13, <1>14, <1>15,
     <1>16, Frame DEF Next, Step, vars, tables

----------------------------------------------------------------------------
(* The parts of the invariant, one by one.                                 *)

LEMMA RefersStep ==
  ASSUME TypeOK, Refers, [Next]_vars
  PROVE  Refers'
<1>1. TypeOK'
  BY TypeStep
<1>2. ASSUME NEW r \in Requests, HoldsChallenge(r)'
      PROVE  challenge'[req'[r].challenge] # Absent
  <2>1. req'[r].challenge \in Challenges
    BY <1>1, <1>2, RequestShape DEF TypeOK, HoldsChallenge
  <2>2. challenge[req'[r].challenge] # Absent
    BY <1>2, RequestMoves DEF Move, Refers, HoldsChallenge, Consume, FindBlocking
  <2>3. QED
    BY <2>1, <2>2, ChallengeKept
<1>3. ASSUME NEW r \in Requests, HoldsApp(r)'
      PROVE  /\ app'[req'[r].app] # Absent
             /\ req'[r].at = "review" => app'[req'[r].app].verified
  <2>1. req'[r].app \in Apps
    BY <1>1, <1>3, RequestShape DEF TypeOK, HoldsApp
  <2>2. CASE app[req'[r].app] # Absent
    <3>1. req'[r].at = "review" => app[req'[r].app].verified
      BY <1>3, RequestMoves DEF Move, Refers, HoldsApp
    <3>2. QED
      BY <2>1, <2>2, <3>1, AppKept
  <2>3. CASE app[req'[r].app] = Absent
    BY <1>3, <2>3, RequestMoves DEF Move, Refers, HoldsApp
  <2>4. QED
    BY <2>2, <2>3
<1>4. ASSUME NEW a \in Apps, token'[a] # Absent
      PROVE  app'[a] # Absent
  <2>1. CASE token[a] # Absent
    BY <2>1, AppKept DEF Refers
  <2>2. CASE token[a] = Absent
    <3>1. PICK r \in Requests : StoreToken(r)
      <4>1. ASSUME NEW b \in Apps, ExpireToken(b) PROVE FALSE
        BY <1>4, <2>2, <4>1 DEF ExpireToken, TypeOK
      <4>2. ASSUME NEW b \in Apps, NEW t \in Tokens, VerifyContactToken(b, t)
            PROVE  FALSE
        BY <1>4, <2>2, <4>2 DEF VerifyContactToken, TypeOK
      <4>3. token' # token
        BY <1>4, <2>2
      <4>4. QED
        BY <4>1, <4>2, <4>3, Frame DEF Next, Step, vars, tables
    <3>2. req[r].app = a
      BY <1>4, <2>2, <3>1 DEF StoreToken, TypeOK
    <3>3. app[a] # Absent
      BY <3>1, <3>2 DEF StoreToken, Refers, HoldsApp
    <3>4. QED
      BY <3>3, AppKept
  <2>3. QED
    BY <2>1, <2>2
<1>5. QED
  BY <1>2, <1>3, <1>4 DEF Refers, HoldsApp

(* A decision is written only for an application whose address a request   *)
(* has seen verified, and an application begins undecided.                 *)
LEMMA ReviewedStep ==
  ASSUME TypeOK, Refers, ReviewedIsVerified, [Next]_vars
  PROVE  ReviewedIsVerified'
<1> SUFFICES ASSUME NEW a \in Apps, app'[a] # Absent, app'[a].status # "PENDING"
             PROVE  app'[a].verified
  BY DEF ReviewedIsVerified
<1>1. CASE app[a] # Absent /\ app[a].verified
  BY <1>1, AppKept
<1>2. CASE app[a] # Absent /\ ~app[a].verified
  <2>1. app[a].status = "PENDING"
    BY <1>2 DEF ReviewedIsVerified
  <2>2. CASE \E r \in Requests : Update(r)
    <3>1. PICK r \in Requests : Update(r)
      BY <2>2
    <3>2. app'[a] = app[a]
      BY <1>2, <3>1 DEF Update, Decide, Refers, TypeOK
    <3>3. QED
      BY <2>1, <3>2
  <2>3. CASE \E b \in Apps, t \in Tokens : VerifyContactToken(b, t)
    <3>1. PICK b \in Apps : \/ UNCHANGED app
                            \/ app' = [app EXCEPT ![b].verified = TRUE]
      BY <2>3 DEF VerifyContactToken
    <3>2. app[a] \in App
      BY <1>2 DEF TypeOK
    <3>3. \/ app'[a] = app[a]
          \/ app'[a] = [app[a] EXCEPT !.verified = TRUE]
      BY <3>1 DEF TypeOK
    <3>4. QED
      BY <2>1, <3>2, <3>3 DEF App
  <2>4. CASE \E r \in Requests : Insert(r)
    BY <1>2, <2>1, <2>4 DEF Insert, TypeOK
  <2>5. QED
    <3>1. CASE UNCHANGED app
      BY <2>1, <3>1
    <3>2. QED
      BY <2>2, <2>3, <2>4, <3>1, Frame DEF Next, Step, vars, tables
<1>3. CASE app[a] = Absent
  <2>1. PICK r \in Requests : app'[a] = NewRow(r)
    BY <1>3, AppAppears
  <2>2. QED
    BY <2>1 DEF NewRow
<1>4. QED
  BY <1>1, <1>2, <1>3

(* A request that consumes takes a live challenge, which nobody has used,  *)
(* and an application takes the challenge of the request that inserts it.  *)
LEMMA ConsumedStep ==
  ASSUME TypeOK, Refers, ConsumedByOne, [Next]_vars
  PROVE  ConsumedByOne'
<1>1. TypeOK'
  BY TypeStep
<1>2. ASSUME NEW c \in Challenges, UsedUp(c) PROVE UsedUp(c)'
  BY <1>2, ChallengeKept DEF UsedUp
<1>3. ASSUME NEW r \in Requests, Consumed(r)'
      PROVE  /\ req'[r].challenge \in Challenges
             /\ req'[r].challenge = req[r].challenge
             /\ Consumed(r) \/ (Consume(r) /\ Live(req[r].challenge))
  <2>1. req'[r].challenge \in Challenges
    BY <1>1, <1>3, RequestShape DEF TypeOK, Consumed
  <2>2. Move(r)
    BY RequestMoves
  <2>3. CASE req'[r] = req[r]
    BY <1>3, <2>1, <2>3 DEF Consumed
  <2>4. CASE req'[r] # req[r]
    <3>1. \/ Consume(r) /\ Live(req[r].challenge) /\ req'[r].challenge = req[r].challenge
          \/ FindBlocking(r) /\ req'[r].challenge = req[r].challenge
      BY <1>3, <2>2, <2>4 DEF Move, Consumed
    <3>2. QED
      BY <2>1, <3>1 DEF FindBlocking, Consumed
  <2>5. QED
    BY <2>3, <2>4
<1>4. ASSUME NEW r \in Requests, Consumed(r)',
             NEW c \in Challenges, c = req[r].challenge
      PROVE  UsedUp(c)'
  <2>1. CASE Consumed(r)
    BY <1>2, <1>4, <2>1 DEF ConsumedByOne
  <2>2. CASE Consume(r) /\ Live(req[r].challenge)
    <3>1. challenge' = [challenge EXCEPT ![c].state = "gone"]
      BY <1>4, <2>2 DEF Consume
    <3>2. challenge[c] \in Challenge /\ challenge[c] # Absent
      BY <1>4, <2>2 DEF Live, TypeOK
    <3>3. challenge'[c].state = "gone"
      BY <3>1, <3>2 DEF TypeOK, Challenge
    <3>4. QED
      BY <3>2, <3>3, ChallengeKept DEF UsedUp
  <2>3. QED
    BY <1>3, <1>4, <2>1, <2>2
<1>5. ASSUME NEW a \in Apps, app'[a] # Absent,
             NEW c \in Challenges, c = app'[a].challenge
      PROVE  UsedUp(c)' /\ (app[a] # Absent => app[a].challenge = c)
  <2>1. CASE app[a] # Absent
    <3>1. app[a].challenge = c
      BY <1>5, <2>1, AppKept
    <3>2. QED
      BY <1>2, <2>1, <3>1 DEF ConsumedByOne
  <2>2. CASE app[a] = Absent
    <3>1. PICK r \in Requests : Insert(r) /\ app'[a] = NewRow(r)
      BY <1>5, <2>2, AppAppears
    <3>2. Consumed(r) /\ c = req[r].challenge
      BY <1>5, <3>1 DEF Insert, NewRow, Consumed
    <3>3. QED
      BY <1>2, <2>2, <3>2 DEF ConsumedByOne
  <2>3. QED
    BY <2>1, <2>2
<1>a. \A a \in Apps : app'[a] # Absent => app'[a].challenge \in Challenges
  BY <1>1 DEF TypeOK, App
<1>6. ASSUME NEW r \in Requests, NEW s \in Requests, Consumed(r)', Consumed(s)',
             req'[r].challenge = req'[s].challenge
      PROVE  r = s
  <2>1. req[r].challenge = req[s].challenge
    BY <1>3, <1>6
  <2>2. CASE Consumed(r) /\ Consumed(s)
    BY <2>1, <2>2 DEF ConsumedByOne
  <2>3. CASE Live(req[r].challenge)
    <3>1. ~Consumed(r) /\ ~Consumed(s)
      BY <2>1, <2>3 DEF ConsumedByOne, UsedUp, Live
    <3>2. Consume(r) /\ Consume(s)
      BY <1>3, <1>6, <3>1
    <3>3. CASE r # s
      <4>1. req'[s] = req[s]
        <5>1. \E to : Goes(r, to)
          BY <3>2 DEF Consume, Reply
        <5>2. QED
          BY <3>3, <5>1 DEF Goes, TypeOK
      <4>2. QED
        BY <3>1, <4>1, <1>6 DEF Consumed
    <3>4. QED
      BY <3>3
  <2>4. QED
    BY <1>3, <1>6, <2>1, <2>2, <2>3
<1>7. ASSUME NEW r \in Requests, NEW a \in Apps, Consumed(r)', app'[a] # Absent,
             app'[a].challenge = req'[r].challenge
      PROVE  FALSE
  <2>1. CASE app[a] # Absent
    <3>1. app[a].challenge = req[r].challenge
      BY <1>a, <1>3, <1>5, <1>7, <2>1
    <3>2. ~Live(req[r].challenge)
      BY <2>1, <3>1 DEF ConsumedByOne, UsedUp, Live
    <3>3. QED
      BY <1>3, <1>7, <2>1, <3>1, <3>2 DEF ConsumedByOne
  <2>2. CASE app[a] = Absent
    <3>1. PICK s \in Requests : Insert(s) /\ app'[a] = NewRow(s)
      BY <1>7, <2>2, AppAppears
    <3>2. Consumed(s) /\ app'[a].challenge = req[s].challenge
      BY <3>1 DEF Insert, NewRow, Consumed
    <3>3. ~Live(req[r].challenge)
      BY <1>3, <1>7, <3>2 DEF ConsumedByOne, UsedUp, Live
    <3>4. r = s
      BY <1>3, <1>7, <3>2, <3>3 DEF ConsumedByOne
    <3>5. req'[s].at = "notify"
      BY <3>1 DEF Insert, Goes, TypeOK
    <3>6. QED
      BY <1>7, <3>4, <3>5 DEF Consumed
  <2>3. QED
    BY <2>1, <2>2
<1>8. ASSUME NEW a \in Apps, NEW b \in Apps, app'[a] # Absent, app'[b] # Absent,
             app'[a].challenge = app'[b].challenge, app[a] = Absent
      PROVE  a = b
  <2>1. PICK r \in Requests : /\ Insert(r) /\ app'[a] = NewRow(r)
                              /\ \A d \in Apps \ {a} : app'[d] = app[d]
    BY <1>8, AppAppears
  <2>2. Consumed(r) /\ app'[a].challenge = req[r].challenge
    BY <2>1 DEF Insert, NewRow, Consumed
  <2>3. CASE a # b
    BY <1>8, <2>1, <2>2, <2>3 DEF ConsumedByOne
  <2>4. QED
    BY <2>3
<1>9. ChallengeUsedOnce'
  <2> SUFFICES ASSUME NEW a \in Apps, NEW b \in Apps, app'[a] # Absent,
                      app'[b] # Absent, app'[a].challenge = app'[b].challenge
               PROVE  a = b
    BY DEF ChallengeUsedOnce
  <2>1. CASE app[a] # Absent /\ app[b] # Absent
    BY <1>a, <1>5, <2>1 DEF ConsumedByOne, ChallengeUsedOnce
  <2>2. QED
    BY <1>8, <2>1
<1>10. ASSUME NEW r \in Requests, Consumed(r)' PROVE UsedUp(req[r].challenge)'
  BY <1>3, <1>4, <1>10 DEF UsedUp
<1>11. ASSUME NEW a \in Apps, app'[a] # Absent PROVE UsedUp(app[a].challenge)'
  BY <1>a, <1>5, <1>11 DEF UsedUp
<1>12. QED
  BY <1>6, <1>7, <1>9, <1>10, <1>11 DEF ConsumedByOne, Consumed

(* A request inserts while it holds the lock that nobody else can take,    *)
(* and gives it back with the row that is in the next one's way.           *)
LEMMA InsertsStep ==
  ASSUME TypeOK, Refers, InsertsAlone, [Next]_vars
  PROVE  InsertsAlone'
<1> USE DEF tables
<1>1. TypeOK'
  BY TypeStep
<1>2. ASSUME NEW r \in Requests, req[r].at = "insert", NEW o, o = OwnerOf(r)
      PROVE  o \in Owners /\ lock[o] = r /\ ~Blocked(o)
  <2>1. req[r].challenge \in Challenges
    BY <1>2, RequestShape DEF TypeOK
  <2>2. challenge[req[r].challenge] \in Challenge
    BY <1>2, <2>1 DEF TypeOK, Refers, HoldsChallenge
  <2>3. QED
    BY <1>2, <2>2 DEF OwnerOf, InsertsAlone, Challenge
<1>3. ASSUME NEW b \in Apps, app'[b] # Absent, app'[b].status \in Blocking,
             app[b] # Absent
      PROVE  Blocked(app'[b].owner)
  BY <1>3, AppKept DEF Blocked
<1>4. ASSUME NEW r \in Requests, req[r].at = "insert", req'[r] = req[r]
      PROVE  lock'[OwnerOf(r)] = r /\ ~Blocked(OwnerOf(r))'
  <2> DEFINE o == OwnerOf(r)
  <2>1. o \in Owners /\ lock[o] = r /\ r # Absent /\ ~Blocked(o)
    BY <1>2, <1>4, AbsentAssumption
  <2>2. OwnerOf(r)' = o
    <3>1. req[r].challenge \in Challenges
      BY <1>4, RequestShape DEF TypeOK
    <3>2. challenge[req[r].challenge] # Absent
      BY <1>4 DEF Refers, HoldsChallenge
    <3>3. QED
      BY <1>4, <3>1, <3>2, ChallengeKept DEF OwnerOf
  <2>3. ASSUME NEW s \in Requests, Insert(s) \/ QueryFails(s), req[s].at = "insert"
        PROVE  OwnerOf(s) # o
    <3>1. s # r
      BY <1>4, <2>3 DEF Insert, QueryFails, Goes, TypeOK, Reply
    <3>2. lock[OwnerOf(s)] = s
      BY <1>2, <2>3
    <3>3. QED
      BY <2>1, <3>1, <3>2
  <2>4. lock'[o] = r
    <3>1. ASSUME NEW s \in Requests, FindBlocking(s) PROVE lock'[o] = r
      BY <2>1, <3>1 DEF FindBlocking, LockFree, TypeOK
    <3>2. ASSUME NEW s \in Requests, Insert(s) PROVE lock'[o] = r
      BY <2>1, <2>3, <3>2 DEF Insert, Release, TypeOK
    <3>3. ASSUME NEW s \in Requests, QueryFails(s) PROVE lock'[o] = r
      BY <2>1, <2>3, <3>3 DEF QueryFails, Release, TypeOK
    <3>4. ~Crash
      BY <1>4 DEF Crash, Idle
    <3>5. QED
      BY <2>1, <3>1, <3>2, <3>3, <3>4, Frame DEF Next, Step, vars, tables
  <2>5. ASSUME NEW b \in Apps, app'[b] # Absent, app'[b].owner = o,
               app'[b].status \in Blocking
        PROVE  FALSE
    <3>1. app[b] = Absent
      BY <1>3, <2>1, <2>5
    <3>2. PICK s \in Requests : Insert(s) /\ app'[b] = NewRow(s)
      BY <2>5, <3>1, AppAppears
    <3>3. OwnerOf(s) # o
      BY <2>3, <3>2 DEF Insert
    <3>4. QED
      BY <2>5, <3>2, <3>3 DEF NewRow
  <2>6. ~Blocked(OwnerOf(r))'
    BY <2>2, <2>5 DEF Blocked
  <2>7. QED
    BY <2>4, <2>6
<1>5. ASSUME NEW r \in Requests, req[r].at # "insert", req'[r].at = "insert"
      PROVE  lock'[OwnerOf(r)'] = r /\ ~Blocked(OwnerOf(r))'
  <2>1. FindBlocking(r) /\ ~Blocked(OwnerOf(r)) /\ req'[r].challenge = req[r].challenge
    BY <1>5, RequestMoves DEF Move
  <2>2. OwnerOf(r)' = OwnerOf(r) /\ UNCHANGED app
    BY <2>1 DEF FindBlocking, OwnerOf
  <2>3. req[r].challenge \in Challenges /\ challenge[req[r].challenge] \in Challenge
    BY <2>1, RequestShape DEF FindBlocking, TypeOK, Refers, HoldsChallenge
  <2>4. OwnerOf(r) \in Owners
    BY <2>3 DEF OwnerOf, Challenge
  <2>5. lock'[OwnerOf(r)] = r
    BY <2>1, <2>4 DEF FindBlocking, TypeOK
  <2>6. QED
    BY <2>1, <2>2, <2>5 DEF Blocked
<1>6. ASSUME NEW r \in Requests, req'[r].at = "insert"
      PROVE  lock'[OwnerOf(r)'] = r /\ ~Blocked(OwnerOf(r))'
  <2>1. CASE req[r].at = "insert"
    <3>1. req'[r] = req[r]
      BY <1>6, <2>1, RequestMoves DEF Move, FindBlocking
    <3>2. OwnerOf(r)' = OwnerOf(r)
      <4>1. req[r].challenge \in Challenges
        BY <2>1, RequestShape DEF TypeOK
      <4>2. challenge[req[r].challenge] # Absent
        BY <2>1 DEF Refers, HoldsChallenge
      <4>3. QED
        BY <3>1, <4>1, <4>2, ChallengeKept DEF OwnerOf
    <3>3. QED
      BY <1>4, <2>1, <3>1, <3>2
  <2>2. QED
    BY <1>5, <1>6, <2>1
<1>7. ASSUME NEW a \in Apps, NEW b \in Apps, app'[a] # Absent, app'[b] # Absent,
             app'[a].owner = app'[b].owner, app'[a].status \in Blocking,
             app'[b].status \in Blocking, app[a] = Absent
      PROVE  a = b
  <2>1. PICK r \in Requests : /\ Insert(r) /\ app'[a] = NewRow(r)
                              /\ \A d \in Apps \ {a} : app'[d] = app[d]
    BY <1>7, AppAppears
  <2>2. ~Blocked(app'[a].owner)
    BY <1>2, <2>1 DEF Insert, NewRow
  <2>3. CASE a # b
    BY <1>3, <1>7, <2>1, <2>2, <2>3
  <2>4. QED
    BY <2>3
<1>8. OneOpenApplication'
  <2> SUFFICES ASSUME NEW a \in Apps, NEW b \in Apps, app'[a] # Absent,
                      app'[b] # Absent, app'[a].owner = app'[b].owner,
                      app'[a].status \in Blocking, app'[b].status \in Blocking
               PROVE  a = b
    BY DEF OneOpenApplication
  <2>1. CASE app[a] # Absent /\ app[b] # Absent
    BY <2>1, AppKept DEF InsertsAlone, OneOpenApplication
  <2>2. QED
    BY <1>7, <2>1
<1>9. QED
  BY <1>6, <1>8 DEF InsertsAlone

(* Every token is new, so nobody else has it and no link was made of it.   *)
LEMMA MailsStep ==
  ASSUME TypeOK, Refers, MailsOnce, [Next]_vars
  PROVE  MailsOnce'
<1> USE DEF tables
<1>1. stored \in Nat /\ \A link \in mailbox : link[2] \in Nat
  BY BoundsAssumption DEF TypeOK, Tokens
<1>2. \A r \in Requests : Mailing(r) => req[r].token \in Nat
  BY RequestShape DEF TypeOK, Tokens, Mailing
<1>3. ASSUME NEW s \in Requests, Mailing(s)'
      PROVE  \/ Mailing(s) /\ req'[s] = req[s]
             \/ StoreToken(s) /\ req'[s].token = stored + 1
  BY <1>3, RequestMoves DEF Move, Mailing
<1>4. ASSUME NEW r \in Requests, StoreToken(r) PROVE MailsOnce'
  <2>1. stored' = stored + 1 /\ mailbox' = mailbox
    BY <1>4, Frame DEF StoreToken
  <2>2. \A s \in Requests \ {r} : req'[s] = req[s]
    BY <1>4 DEF StoreToken, Goes, TypeOK
  <2>3. ASSUME NEW s \in Requests, Mailing(s)'
        PROVE  IF s = r THEN req'[s].token = stored + 1
                        ELSE Mailing(s) /\ req'[s] = req[s]
    <3>1. CASE s = r
      BY <1>4, <3>1 DEF StoreToken, Goes, TypeOK
    <3>2. CASE s # r
      BY <2>2, <2>3, <3>2 DEF Mailing
    <3>3. QED
      BY <3>1, <3>2
  <2>4. \A link \in mailbox' : link[2] <= stored'
    BY <1>1, <2>1 DEF MailsOnce
  <2>5. \A s \in Requests : Mailing(s)' => req'[s].token <= stored'
    BY <1>1, <1>2, <2>1, <2>3 DEF MailsOnce
  <2>6. ASSUME NEW s \in Requests, Mailing(s)', <<req'[s].app, req'[s].token>> \in mailbox'
        PROVE  FALSE
    <3>1. CASE s = r
      <4>1. req'[s].token <= stored
        BY <2>1, <2>6 DEF MailsOnce
      <4>2. QED
        BY <1>1, <2>3, <2>6, <3>1, <4>1
    <3>2. CASE s # r
      BY <2>1, <2>3, <2>6, <3>2 DEF MailsOnce
    <3>3. QED
      BY <3>1, <3>2
  <2>7. ASSUME NEW s \in Requests, NEW t \in Requests, Mailing(s)', Mailing(t)',
               req'[s].token = req'[t].token
        PROVE  s = t
    <3>1. CASE s # r /\ t # r
      BY <2>3, <2>7, <3>1 DEF MailsOnce
    <3>2. CASE s = r \/ t = r
      BY <1>1, <1>2, <2>3, <2>7, <3>2 DEF MailsOnce
    <3>3. QED
      BY <3>1, <3>2
  <2>8. QED
    BY <2>4, <2>5, <2>6, <2>7 DEF MailsOnce, Mailing
<1>5. ASSUME UNCHANGED stored,
             \A s \in Requests : Mailing(s)' => Mailing(s) /\ req'[s] = req[s],
             \A link \in mailbox' :
               \/ link \in mailbox
               \/ \E r \in Requests : /\ Mailing(r) /\ ~Mailing(r)'
                                     /\ link = <<req[r].app, req[r].token>>
      PROVE  MailsOnce'
  <2>1. \A link \in mailbox' : link[2] <= stored'
    BY <1>5 DEF MailsOnce
  <2>2. ASSUME NEW s \in Requests, Mailing(s)', <<req'[s].app, req'[s].token>> \in mailbox'
        PROVE  FALSE
    <3>1. Mailing(s) /\ req'[s] = req[s]
      BY <1>5, <2>2
    <3>2. PICK r \in Requests : /\ Mailing(r) /\ ~Mailing(r)'
                                /\ <<req[s].app, req[s].token>> = <<req[r].app, req[r].token>>
      BY <1>5, <2>2, <3>1 DEF MailsOnce
    <3>3. r = s
      BY <3>1, <3>2 DEF MailsOnce
    <3>4. QED
      BY <2>2, <3>2, <3>3
  <2>3. QED
    BY <1>5, <2>1, <2>2 DEF MailsOnce, Mailing
<1>6. ASSUME NEW r \in Requests, SendMail(r) PROVE MailsOnce'
  <2>1. /\ Mailing(r) /\ UNCHANGED stored
        /\ mailbox' \subseteq mailbox \cup {<<req[r].app, req[r].token>>}
    BY <1>6 DEF SendMail, Mailing
  <2>2. ~Mailing(r)'
    BY <1>6 DEF SendMail, Answered, Reply, Goes, TypeOK, Mailing
  <2>3. ASSUME NEW s \in Requests, StoreToken(s) PROVE FALSE
    BY <1>1, <2>1, <2>3 DEF StoreToken
  <2>4. QED
    BY <1>3, <1>5, <2>1, <2>2, <2>3
<1>7. CASE UNCHANGED <<stored, mailbox>>
  <2>1. ASSUME NEW s \in Requests, StoreToken(s) PROVE FALSE
    BY <1>1, <1>7, <2>1 DEF StoreToken
  <2>2. QED
    BY <1>3, <1>5, <1>7, <2>1
<1>8. QED
  BY <1>4, <1>6, <1>7, Frame DEF Next, Step, vars

----------------------------------------------------------------------------
(* The theorems.                                                           *)

(* The invariant is inductive: whatever the requests are, however they     *)
(* interleave, and wherever queries fail or the process dies.              *)
THEOREM Invariance == Spec => []IInv
<1>1. Init => IInv
  <2> SUFFICES ASSUME Init PROVE IInv
    OBVIOUS
  <2>1. TypeOK
    BY BoundsAssumption DEF Init, TypeOK, Request
  <2>2. Refers /\ ConsumedByOne /\ InsertsAlone /\ ReviewedIsVerified
    BY DEF Init, Idle, Refers, HoldsChallenge, HoldsApp, ConsumedByOne, Consumed,
           ChallengeUsedOnce, InsertsAlone, OneOpenApplication, ReviewedIsVerified
  <2>3. MailsOnce
    BY DEF Init, Idle, MailsOnce, Mailing
  <2>4. QED
    BY <2>1, <2>2, <2>3 DEF IInv
<1>2. IInv /\ [Next]_vars => IInv'
  BY TypeStep, RefersStep, ConsumedStep, InsertsStep, ReviewedStep, MailsStep DEF IInv
<1>3. QED
  BY <1>1, <1>2, PTL DEF Spec

(* Every variable keeps its type.                                          *)
THEOREM TypeCorrect == Spec => []TypeOK
<1>1. IInv => TypeOK
  BY DEF IInv
<1>2. QED
  BY <1>1, Invariance, PTL

(* However many requests of one owner arrive together, at most one of its  *)
(* applications is open: the advisory lock of createApplicationUnlessBlocked *)
(* is enough, though the table has no such unique index.                   *)
THEOREM OneOpen == Spec => []OneOpenApplication
<1>1. IInv => OneOpenApplication
  BY DEF IInv, InsertsAlone
<1>2. QED
  BY <1>1, Invariance, PTL

(* No two applications were ever made with one challenge.                  *)
THEOREM UsedOnce == Spec => []ChallengeUsedOnce
<1>1. IInv => ChallengeUsedOnce
  BY DEF IInv, ConsumedByOne
<1>2. QED
  BY <1>1, Invariance, PTL

(* Every decided application has a verified contact address.               *)
THEOREM DecidedIsVerified == Spec => []ReviewedIsVerified
<1>1. IInv => ReviewedIsVerified
  BY DEF IInv
<1>2. QED
  BY <1>1, Invariance, PTL

(* A decision is never overruled, by whichever of the admins' requests.    *)
THEOREM DecisionIsFinal == Spec => ReviewIsFinal
<1>1. IInv /\ [Next]_vars =>
        [\A a \in Apps : app[a] # Absent /\ app[a].status # "PENDING"
           => app'[a].status = app[a].status]_vars
  BY AppKept DEF IInv
<1>2. QED
  BY <1>1, Invariance, PTL DEF Spec, ReviewIsFinal
----------------------------------------------------------------------------
(* The intake implements the register.                                     *)

(* Only Issue gives a challenge out, and nobody takes one back.            *)
LEMMA IssuedKept ==
  ASSUME TypeOK, Refers, [Next]_vars, \A o \in Owners : ~Issue(o)
  PROVE  UNCHANGED Issued
<1>1. \A c \in Challenges : challenge[c] # Absent =>
        challenge'[c] # Absent /\ challenge'[c].owner = challenge[c].owner
  BY ChallengeKept
<1>2. ASSUME NEW c \in Challenges, challenge[c] = Absent PROVE challenge'[c] = Absent
  <2>1. ASSUME NEW d \in Challenges, Expire(d) PROVE challenge'[c] = Absent
    BY <1>2, <2>1 DEF Expire, Live, TypeOK
  <2>2. ASSUME NEW r \in Requests, Consume(r) PROVE challenge'[c] = Absent
    BY <1>2, <2>2 DEF Consume, Live, TypeOK
  <2>3. CASE UNCHANGED challenge
    BY <1>2, <2>3
  <2>4. QED
    BY <2>1, <2>2, <2>3, Frame DEF Next, Step, vars, tables
<1>3. QED
  BY <1>1, <1>2 DEF Issued

(* A link stays good while the row of its token stays.                     *)
LEMMA LinksKept ==
  ASSUME UNCHANGED <<token, mailbox>>
  PROVE  UNCHANGED GoodLinks
BY DEF GoodLinks

(* Every link has an application and a token.                              *)
LEMMA LinkIs ==
  ASSUME TypeOK, NEW link \in mailbox
  PROVE  link = <<link[1], link[2]>> /\ link[1] \in Apps /\ link[2] \in Tokens
BY DEF TypeOK

(* The other links stay good when the row of one application is written.   *)
LEMMA LinksVoided ==
  ASSUME TypeOK, UNCHANGED mailbox, NEW a \in Apps, NEW row,
         token' = [token EXCEPT ![a] = row],
         \A link \in mailbox : link[1] = a =>
           row = Absent \/ row.expired \/ row.id # link[2]
  PROVE  GoodLinks' = {link \in GoodLinks : link[1] # a}
<1>1. ASSUME NEW link \in mailbox
      PROVE  link \in GoodLinks' <=> link \in GoodLinks /\ link[1] # a
  <2>1. link[1] \in Apps
    BY LinkIs
  <2>2. token'[link[1]] = IF link[1] = a THEN row ELSE token[link[1]]
    BY <2>1 DEF TypeOK
  <2>3. QED
    BY <2>2 DEF GoodLinks
<1>2. GoodLinks \subseteq mailbox /\ GoodLinks' \subseteq mailbox
  BY DEF GoodLinks
<1>3. QED
  BY <1>1, <1>2

RegisterInv == TypeOK /\ Refers /\ ConsumedByOne /\ InsertsAlone /\ MailsOnce

(* Every step of the requests is a step of the register or invisible.      *)
LEMMA RegisterStep ==
  ASSUME RegisterInv, [Next]_vars
  PROVE  [Register!RegisterNext]_(Register!registerVars)
<1> DEFINE Goal == [Register!RegisterNext]_(Register!registerVars)
<1>0. TypeOK /\ Refers /\ ConsumedByOne /\ InsertsAlone /\ MailsOnce
  BY DEF RegisterInv
<1>1. ASSUME NEW o \in Owners, Issue(o) PROVE Goal
  <2>1. PICK c \in Challenges :
          /\ challenge[c] = Absent
          /\ challenge' = [d \in Challenges |->
               IF d = c THEN [owner |-> o, state |-> "live"]
               ELSE IF challenge[d] # Absent /\ challenge[d].state = "expired"
                      THEN [challenge[d] EXCEPT !.state = "gone"]
                      ELSE challenge[d]]
    BY <1>1 DEF Issue
  <2>2. challenge'[c] # Absent /\ challenge'[c].owner = o
    <3>1. challenge'[c] = [owner |-> o, state |-> "live"]
      BY <2>1
    <3>2. challenge'[c] \in Challenge
      BY <3>1 DEF Challenge
    <3>3. QED
      BY <3>1, <3>2, AbsentAssumption
  <2>3. \A d \in Challenges \ {c} :
          /\ challenge[d] = Absent => challenge'[d] = Absent
          /\ challenge[d] # Absent =>
               challenge'[d] # Absent /\ challenge'[d].owner = challenge[d].owner
    BY <1>0, <2>1, ChallengeKept
  <2>4. Issued' = Issued \cup {<<c, o>>}
    BY <2>1, <2>2, <2>3 DEF Issued
  <2>5. \A pair \in Issued : pair[1] # c
    BY <2>1 DEF Issued
  <2>6. UNCHANGED <<app, mailbox, GoodLinks>>
    BY <1>1, Frame, LinksKept
  <2>7. Register!GiveChallenge(c, o)
    BY <2>4, <2>5, <2>6 DEF Register!GiveChallenge
  <2>8. QED
    BY <2>7 DEF Register!RegisterNext
<1>2. ASSUME \A o \in Owners : ~Issue(o), UNCHANGED <<app, token, mailbox>> PROVE Goal
  <2>1. UNCHANGED <<Issued, app, mailbox, GoodLinks>>
    BY <1>0, <1>2, IssuedKept, LinksKept
  <2>2. QED
    BY <2>1 DEF Register!registerVars
<1>a. CASE \A o \in Owners : ~Issue(o)
  <2>0. UNCHANGED Issued
    BY <1>0, <1>a, IssuedKept
  <2>1. ASSUME NEW a \in Apps, ExpireToken(a) PROVE Goal
    <3>1. token' = [token EXCEPT ![a] = [token[a] EXCEPT !.expired = TRUE]]
      BY <1>0, <2>1 DEF ExpireToken, TypeOK
    <3>2. [token[a] EXCEPT !.expired = TRUE].expired
      BY <1>0, <2>1 DEF ExpireToken, TypeOK, Token
    <3>3. UNCHANGED <<app, mailbox>>
      BY <2>1, Frame
    <3>4. GoodLinks' = {link \in GoodLinks : link[1] # a}
      BY <1>0, <3>1, <3>2, <3>3, LinksVoided
    <3>5. Register!VoidLinks(a)
      BY <2>0, <3>3, <3>4 DEF Register!VoidLinks, Register!Without
    <3>6. QED
      BY <3>5 DEF Register!RegisterNext
  <2>2. ASSUME NEW a \in Apps, NEW t \in Tokens, VerifyContactToken(a, t) PROVE Goal
    <3>1. token' = [token EXCEPT ![a] = Absent] /\ UNCHANGED mailbox
      BY <2>2 DEF VerifyContactToken
    <3>2. GoodLinks' = {link \in GoodLinks : link[1] # a}
      BY <1>0, <3>1, LinksVoided
    <3>3. CASE token[a].expired
      <4>1. UNCHANGED app
        BY <2>2, <3>3 DEF VerifyContactToken
      <4>2. Register!VoidLinks(a)
        BY <2>0, <3>1, <3>2, <4>1 DEF Register!VoidLinks, Register!Without
      <4>3. QED
        BY <4>2 DEF Register!RegisterNext
    <3>4. CASE ~token[a].expired
      <4>1. app' = [app EXCEPT ![a].verified = TRUE]
        BY <2>2, <3>4 DEF VerifyContactToken
      <4>2. app[a] # Absent
        BY <1>0, <2>2 DEF VerifyContactToken, Refers
      <4>3. <<a, t>> \in GoodLinks
        BY <2>2, <3>4 DEF VerifyContactToken, GoodLinks
      <4>4. Register!ConfirmAddress(a, t)
        BY <2>0, <3>1, <3>2, <4>1, <4>2, <4>3
           DEF Register!ConfirmAddress, Register!Exists, Register!Without
      <4>5. QED
        BY <4>4 DEF Register!RegisterNext
    <3>5. QED
      BY <3>3, <3>4
  <2>3. ASSUME NEW r \in Requests, StoreToken(r) PROVE Goal
    <3> DEFINE a == req[r].app
               row == [id |-> stored + 1, expired |-> FALSE]
    <3>1. a \in Apps
      BY <1>0, <2>3, RequestShape DEF StoreToken, TypeOK
    <3>2. token' = [token EXCEPT ![a] = row] /\ UNCHANGED <<app, mailbox>>
      BY <2>3, Frame DEF StoreToken
    <3>3. \A link \in mailbox : row.id # link[2]
      <4>1. stored \in Nat /\ \A link \in mailbox : link[2] \in Nat /\ link[2] <= stored
        BY <1>0, BoundsAssumption DEF MailsOnce, TypeOK, Tokens
      <4>2. QED
        BY <4>1
    <3> HIDE DEF a, row
    <3>4. GoodLinks' = {link \in GoodLinks : link[1] # a}
      BY <1>0, <3>1, <3>2, <3>3, LinksVoided
    <3>5. Register!VoidLinks(a)
      BY <2>0, <3>2, <3>4 DEF Register!VoidLinks, Register!Without
    <3>6. QED
      BY <3>1, <3>5 DEF Register!RegisterNext
  <2>4. ASSUME NEW r \in Requests, SendMail(r) PROVE Goal
    <3> DEFINE a == req[r].app
               t == req[r].token
    <3>1. a \in Apps /\ t \in Tokens
      BY <1>0, <2>4, RequestShape DEF SendMail, TypeOK
    <3>2. app[a] # Absent /\ <<a, t>> \notin mailbox
      BY <1>0, <2>4 DEF SendMail, Refers, HoldsApp, MailsOnce, Mailing
    <3>3. UNCHANGED <<app, token>> /\ mailbox' \in {mailbox, mailbox \cup {<<a, t>>}}
      BY <2>4, Frame DEF SendMail, tables
    <3> HIDE DEF a, t
    <3>4. CASE mailbox' = mailbox
      BY <1>2, <1>a, <3>3, <3>4
    <3>5. CASE mailbox' = mailbox \cup {<<a, t>>}
      <4>1. <<a, t>>[1] = a /\ <<a, t>>[2] = t
        OBVIOUS
      <4>2. GoodLinks' \in {GoodLinks, GoodLinks \cup {<<a, t>>}}
        BY <3>3, <3>5 DEF GoodLinks
      <4>3. <<a, t>> \in GoodLinks' => {link \in GoodLinks : link[1] # a} = GoodLinks
        <5>1. ASSUME <<a, t>> \in GoodLinks', NEW link \in GoodLinks, link[1] = a
              PROVE  FALSE
          <6>1. link \in mailbox /\ token[a].id = link[2]
            BY <5>1 DEF GoodLinks
          <6>2. token[a].id = t
            BY <3>3, <4>1, <5>1 DEF GoodLinks
          <6>3. link = <<a, t>>
            BY <1>0, <5>1, <6>1, <6>2, LinkIs
          <6>4. QED
            BY <3>2, <6>1, <6>3
        <5>2. QED
          BY <5>1
      <4>4. UNCHANGED GoodLinks \/ (GoodLinks = {link \in GoodLinks : link[1] # a}
                                     /\ GoodLinks' = GoodLinks \cup {<<a, t>>})
        BY <4>2, <4>3
      <4>5. Register!MailLink(a, t)
        BY <2>0, <3>2, <3>3, <3>5, <4>4
           DEF Register!MailLink, Register!Exists, Register!Without
      <4>6. QED
        BY <3>1, <4>5 DEF Register!RegisterNext
    <3>6. QED
      BY <3>3, <3>4, <3>5
  <2>5. ASSUME NEW r \in Requests, Insert(r) PROVE Goal
    <3> DEFINE c == req[r].challenge
               o == OwnerOf(r)
    <3>1. c \in Challenges /\ challenge[c] # Absent
      BY <1>0, <2>5, RequestShape DEF Insert, TypeOK, Refers, HoldsChallenge
    <3>2. o \in Owners /\ <<c, o>> \in Issued
      BY <1>0, <3>1 DEF OwnerOf, Issued, TypeOK, Challenge
    <3>3. \A b \in Apps : app[b] # Absent => app[b].challenge # c
      BY <1>0, <2>5 DEF Insert, ConsumedByOne, Consumed
    <3>4. \A b \in Apps : app[b] # Absent /\ app[b].owner = o => app[b].status = "REJECTED"
      <4>1. ~Blocked(o)
        BY <1>0, <2>5 DEF Insert, InsertsAlone
      <4>2. \A b \in Apps : app[b] # Absent => app[b].status \in Blocking \cup {"REJECTED"}
        BY <1>0 DEF TypeOK, App, Decisions, Blocking
      <4>3. QED
        BY <4>1, <4>2 DEF Blocked
    <3>5. UNCHANGED <<token, mailbox>>
      BY <2>5, Frame
    <3>6. PICK a \in Apps :
            /\ app[a] = Absent
            /\ app' = [app EXCEPT ![a] = [owner |-> o, status |-> "PENDING",
                                          verified |-> FALSE, challenge |-> c]]
      BY <2>5 DEF Insert
    <3> HIDE DEF c, o
    <3>7. UNCHANGED GoodLinks
      BY <3>5, LinksKept
    <3>8. Register!OpenFile(a, c, o)
      BY <2>0, <3>2, <3>3, <3>4, <3>5, <3>6, <3>7
         DEF Register!OpenFile, Register!Exists, Register!InTheWay, Register!Used
    <3>9. QED
      BY <3>1, <3>2, <3>8 DEF Register!RegisterNext
  <2>6. ASSUME NEW r \in Requests, Update(r) PROVE Goal
    <3> DEFINE a == req[r].app
    <3>1. UNCHANGED <<token, mailbox>>
      BY <2>6, Frame
    <3>2. CASE UNCHANGED app
      BY <1>2, <1>a, <3>1, <3>2
    <3>3. CASE ~UNCHANGED app
      <4>1. /\ a \in Apps /\ app[a].status = "PENDING"
            /\ app' = [app EXCEPT ![a].status = req[r].decision]
        <5>1. req[r] \in Request /\ req[r].at = "review"
          BY <1>0, <2>6 DEF Update, TypeOK
        <5>2. a \in Apps
          BY <5>1, RequestShape
        <5>3. app[a].status = "PENDING" /\ Decide(r)
          BY <2>6, <3>3 DEF Update
        <5>4. QED
          BY <5>2, <5>3 DEF Decide
      <4>2. req[r].decision \in Decisions
        BY <1>0, <2>6, RequestShape DEF Update, TypeOK
      <4>3. app[a] # Absent /\ app[a].verified
        BY <1>0, <2>6 DEF Update, Refers, HoldsApp
      <4>4. UNCHANGED GoodLinks
        BY <3>1, LinksKept
      <4> HIDE DEF a
      <4>5. Register!DecideFile(a, req[r].decision)
        BY <2>0, <3>1, <4>1, <4>3, <4>4 DEF Register!DecideFile, Register!Exists
      <4>6. QED
        BY <4>1, <4>2, <4>5 DEF Register!RegisterNext, Decisions
    <3>4. QED
      BY <3>2, <3>3
  <2>7. \/ UNCHANGED <<app, token, mailbox>>
        \/ \E a \in Apps : ExpireToken(a) \/ \E t \in Tokens : VerifyContactToken(a, t)
        \/ \E r \in Requests : StoreToken(r) \/ SendMail(r) \/ Insert(r) \/ Update(r)
    BY <1>a, Frame DEF Next, Step, vars, tables
  <2>8. QED
    BY <1>2, <1>a, <2>1, <2>2, <2>3, <2>4, <2>5, <2>6, <2>7
<1>3. QED
  BY <1>1, <1>a

(* What clients and admins see of any number of concurrent requests, with  *)
(* failing queries and crashes between any two steps, is what a register   *)
(* shows that serves one after the other: no lock, token row or half-done  *)
(* request is needed to explain it.                                        *)
THEOREM Implementation == Spec => ImplementsRegister
<1>1. Init => Register!RegisterInit
  BY DEF Init, Issued, GoodLinks, Register!RegisterInit
<1>2. RegisterInv /\ [Next]_vars => [Register!RegisterNext]_(Register!registerVars)
  BY RegisterStep
<1>3. IInv => RegisterInv
  BY DEF IInv, RegisterInv
<1>4. QED
  BY <1>1, <1>2, <1>3, Invariance, PTL
     DEF Spec, ImplementsRegister, Register!RegisterSpec
=============================================================================
