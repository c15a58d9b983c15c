----------------------------- MODULE Statistics -----------------------------
(***************************************************************************)
(* The totals the read routes compute from the streams: routes/impact.ts,  *)
(* ngos.ts, donors.ts, tokenTotals.ts and services/impactService.ts, while *)
(* the handlers of donationVault.ts write (the module Projection has their *)
(* events; here a write is what a handler leaves in the streams table).    *)
(*                                                                         *)
(* One poller is assumed: what handleWithdraw and handleCancel read of a   *)
(* row and what they write to it is one step.  The cancelled stream with a *)
(* balance and the overwritten amounts that two pollers may leave (the     *)
(* module ProjectionRace) do not occur here.                               *)
(***************************************************************************)
EXTENDS Integers, FiniteSets, FiniteSetsExt, Functions

CONSTANTS
  Streams,    \* streams that may come to exist
  NgoOf, DonorOf, TokenOf, \* what a stream is created with
  Deposits,   \* deposits of a created event
  Amounts,    \* amounts of a withdraw or cancel event
  Absent,     \* no such row
  Scale,      \* percentScale
  MaxWrites   \* bound: events handled

StreamRow == [status : {"ACTIVE", "CANCELLED"}, balance : Nat, withdrawn : Nat]

ASSUME StatisticsAssumption ==
  /\ IsFiniteSet(Streams)
  /\ Deposits \subseteq Nat /\ Amounts \subseteq Nat
  /\ Scale \in Nat /\ MaxWrites \in Nat
  /\ Absent \notin StreamRow

Ngos == {NgoOf[s] : s \in Streams}
Donors == {DonorOf[s] : s \in Streams}
Tokens == {TokenOf[s] : s \in Streams}

VARIABLES
  stream,   \* the streams table
  reader,   \* a request GET /impact/:ngoId: its await, and what it has read
  refunded, \* history: a cancel refunded something since the first read
  writes

vars == <<stream, reader, refunded, writes>>

Idle == [at |-> "idle", ngo |-> Absent, committed |-> 0, platform |-> 0]

Init ==
  /\ stream = [s \in Streams |-> Absent]
  /\ reader = Idle
  /\ refunded = FALSE
  /\ writes = 0

----------------------------------------------------------------------------
(* Totals.                                                                 *)

Rows == {s \in Streams : stream[s] # Absent}
OfNgo(g) == {s \in Rows : NgoOf[s] = g}
OfDonor(d) == {s \in Rows : DonorOf[s] = d}

(* What counts as committed: the balance of a cancelled stream went back.  *)
Committed ==
  [s \in Rows |-> IF stream[s].status = "CANCELLED" THEN stream[s].withdrawn
                  ELSE stream[s].balance + stream[s].withdrawn]
Withdrawn == [s \in Rows |-> stream[s].withdrawn]

TotalCommitted(S) == SumFunctionOnSet(Committed, S)
TotalWithdrawn(S) == SumFunctionOnSet(Withdrawn, S)

(* committedTotalsByToken: one entry for each token that occurs.           *)
CommittedByToken(S) ==
  [t \in {TokenOf[s] : s \in S} |-> TotalCommitted({s \in S : TokenOf[s] = t})]

ActiveStreams(S) == Cardinality({s \in S : stream[s].status = "ACTIVE"})

(* GET /impact; GET /ngos/:id (the committed sum is SQL's there); and      *)
(* GET /donors/:address.                                                   *)
Impact == [committed |-> TotalCommitted(Rows), withdrawn |-> TotalWithdrawn(Rows),
           active |-> ActiveStreams(Rows)]
NgoDetail(g) ==
  LET S == OfNgo(g)
  IN  [committed |-> TotalCommitted(S), withdrawn |-> TotalWithdrawn(S),
       active |-> ActiveStreams(S), donors |-> Cardinality({DonorOf[s] : s \in S})]
DonorSummary(d) ==
  LET S == OfDonor(d)
  IN  [committed |-> TotalCommitted(S), withdrawn |-> TotalWithdrawn(S),
       active |-> ActiveStreams(S), ngos |-> Cardinality({NgoOf[s] : s \in S})]

(* getPlatformTotalSum looks at no status.                                 *)
PlatformTotalSum ==
  SumFunction([s \in Rows |-> stream[s].balance + stream[s].withdrawn])

(* Mistaken: the share is rounded up.                                      *)
ShareRoundedUp(ngo, platform) ==
  IF platform = 0 THEN 0 ELSE (ngo * 100 * Scale + platform - 1) \div platform

(* platformSharePercent, in units of 1/Scale.                              *)
Share(ngo, platform) ==
  IF platform = 0 THEN 0 ELSE (ngo * 100 * Scale) \div platform

----------------------------------------------------------------------------
(* GET /impact/:ngoId.                                                     *)

ReadNgo ==
  /\ reader.at = "idle"
  /\ \E g \in Ngos : reader' = [at |-> "platform", ngo |-> g,
                                committed |-> TotalCommitted(OfNgo(g)), platform |-> 0]
  /\ refunded' = FALSE
  /\ UNCHANGED <<stream, writes>>

(* Mistaken: only the active streams of the platform are read.             *)
ReadActivePlatform ==
  /\ reader.at = "platform"
  /\ reader' = [reader EXCEPT !.at = "done", !.platform =
                  TotalCommitted({s \in Rows : stream[s].status = "ACTIVE"})]
  /\ UNCHANGED <<stream, refunded, writes>>

ReadPlatform ==
  /\ reader.at = "platform"
  /\ reader' = [reader EXCEPT !.at = "done", !.platform = TotalCommitted(Rows)]
  /\ UNCHANGED <<stream, refunded, writes>>

Answered ==
  /\ reader.at = "done"
  /\ reader' = Idle
  /\ UNCHANGED <<stream, refunded, writes>>

----------------------------------------------------------------------------
(* The handlers.                                                           *)

Write(s, row) ==
  /\ writes < MaxWrites
  /\ stream' = [stream EXCEPT ![s] = row]
  /\ writes' = writes + 1
  /\ UNCHANGED reader

(* Mistaken: a created event that comes again puts the row back.           *)
CreatedAgain ==
  \E s \in Streams, d \in Deposits :
    /\ Write(s, [status |-> "ACTIVE", balance |-> d, withdrawn |-> 0])
    /\ UNCHANGED refunded

(* A created event that comes again changes nothing.                       *)
Created ==
  \E s \in Streams, d \in Deposits :
    /\ Write(s, IF stream[s] # Absent THEN stream[s]
                ELSE [status |-> "ACTIVE", balance |-> d, withdrawn |-> 0])
    /\ UNCHANGED refunded

(* Mistaken: the balance may go below zero.                                *)
WithdrawUnclamped ==
  \E s \in Rows, a \in Amounts :
    /\ stream[s].status = "ACTIVE"
    /\ Write(s, [stream[s] EXCEPT !.balance = @ - a, !.withdrawn = @ + a])
    /\ UNCHANGED refunded

(* After a topup, which the indexer ignores, more may be withdrawn than    *)
(* the balance holds.                                                      *)
Withdraw ==
  \E s \in Rows, a \in Amounts :
    /\ stream[s].status = "ACTIVE"
    /\ Write(s, [stream[s] EXCEPT !.balance = Max({0, @ - a}), !.withdrawn = @ + a])
    /\ UNCHANGED refunded

(* Mistaken: the refunded balance stays in the row.                        *)
CancelKeepsBalance ==
  \E s \in Rows, a \in Amounts :
    /\ stream[s].status = "ACTIVE"
    /\ Write(s, [stream[s] EXCEPT !.status = "CANCELLED", !.withdrawn = @ + a])
    /\ refunded' = (refunded \/ a < stream[s].balance)

Cancel ==
  \E s \in Rows, a \in Amounts :
    /\ stream[s].status = "ACTIVE"
    /\ Write(s, [status |-> "CANCELLED", balance |-> 0,
                 withdrawn |-> stream[s].withdrawn + a])
    /\ refunded' = (refunded \/ a < stream[s].balance)

Next == ReadNgo \/ ReadPlatform \/ Answered \/ Created \/ Withdraw \/ Cancel

Spec == Init /\ [][Next]_vars

----------------------------------------------------------------------------
(* Properties *)

(* Every variable has its type; no amount is negative.                     *)
TypeOK ==
  /\ stream \in [Streams -> StreamRow \cup {Absent}]
  /\ reader \in [at : {"idle", "platform", "done"}, ngo : Ngos \cup {Absent},
                 committed : Nat, platform : Nat]
  /\ refunded \in BOOLEAN
  /\ writes \in 0 .. MaxWrites

(* impact.ts reads the NGO's streams first and the platform's afterwards,  *)
(* in two queries.  Whatever is created and withdrawn in between, the      *)
(* share it answers is at most 100 %; only a refund in between may lift it *)
(* above.                                                                  *)
ShareBounded ==
  reader.at = "done" /\ ~refunded =>
    Share(reader.committed, reader.platform) <= 100 * Scale

(* However the streams are grouped, by NGO, by donor or by token, the      *)
(* groups add up to what GET /impact says of the platform, and the pairs   *)
(* of donor and NGO are counted alike from both sides.  The sum of         *)
(* impactService.ts agrees, which leaves the status aside and relies on a  *)
(* cancel to empty the balance, as one poller's does.                      *)
TotalsAgree ==
  LET byToken == CommittedByToken(Rows)
      ngo(f) == SumFunction([g \in Ngos |-> NgoDetail(g)[f]])
      donor(f) == SumFunction([d \in Donors |-> DonorSummary(d)[f]])
  IN  /\ \A f \in DOMAIN Impact : ngo(f) = Impact[f] /\ donor(f) = Impact[f]
      /\ ngo("donors") = donor("ngos")
      /\ SumFunction(byToken) = Impact.committed
      /\ PlatformTotalSum = Impact.committed

(* The shares of all NGOs at one moment make 100 %, less what truncation   *)
(* takes of each.                                                          *)
SharesAddUp ==
  LET total == TotalCommitted(Rows)
      sum == SumFunction([g \in Ngos |-> Share(TotalCommitted(OfNgo(g)), total)])
  IN  total > 0 => sum <= 100 * Scale /\ sum > 100 * Scale - Cardinality(Ngos)

(* What an NGO was paid never falls, and what was committed to it falls    *)
(* only when one of its streams is cancelled, whatever event comes again   *)
(* from the one poller.                                                    *)
FallsOnlyByCancel ==
  [][\A g \in Ngos :
       /\ TotalWithdrawn(OfNgo(g))' >= TotalWithdrawn(OfNgo(g))
       /\ TotalCommitted(OfNgo(g))' < TotalCommitted(OfNgo(g)) =>
            \E s \in OfNgo(g) : stream[s].status = "ACTIVE"
                                /\ stream'[s].status = "CANCELLED"]_vars
=============================================================================
