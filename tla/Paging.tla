------------------------------- MODULE Paging -------------------------------
(***************************************************************************)
(* A client walks through a listing, page by page, while its table         *)
(* changes.  The listings: GET /ngos by newest, oldest and name, all NGOs  *)
(* for an admin, the donors of an NGO (routes/ngos.ts), the ranking of     *)
(* donors (routes/donors.ts), the dead letters (routes/deadLetters.ts) and *)
(* the applications (routes/ngoApplications.ts).                           *)
(*                                                                         *)
(* A row is an id, a key and a flag: the time of creation, the public name *)
(* or the total a listing is ordered by, and the verified flag, the status *)
(* or the donor's having a stream that it is filtered by.  Ids are random  *)
(* (UUIDs), so their order has nothing to do with the time of creation.    *)
(* Rows with the same key are told apart by their ids, except in           *)
(* GET /ngos/all: its ORDER BY names the time of creation only, and the    *)
(* database may give rows that tie in another order for each page.         *)
(***************************************************************************)
EXTENDS Integers, FiniteSets, Functions

CONSTANTS
  Rows,       \* ids, compared as numbers
  Keys,       \* what a listing is ordered by, compared as numbers
  Listings,   \* the listings looked at
  Limits,     \* the limits a client may ask for
  Unborn,     \* no row yet
  Gone,       \* a row that was pruned
  NoCursor,   \* the first page
  MaxOffset,  \* MAX_APPLICATION_LIST_OFFSET
  MaxChanges  \* bound: changes of the table during a walk

NgoListings == {"newest", "oldest", "name"}
AdminListings == {"all", "allVerified", "allUnverified"}
DeadLetterListings == {"unresolved", "resolved", "deadLetters"}
ApplicationListings == {"pending", "applications"}
Rankings == {"rankedDown", "rankedUp"}
AllListings == NgoListings \cup AdminListings \cup DeadLetterListings
                 \cup ApplicationListings \cup Rankings \cup {"ngoDonors"}

Row == [key : Keys, flag : BOOLEAN]

ASSUME PagingAssumption ==
  /\ Rows \subseteq Nat /\ IsFiniteSet(Rows) /\ Keys \subseteq Nat
  /\ Listings \subseteq AllListings
  /\ Limits \subseteq Nat \ {0}
  /\ NoCursor \notin Rows /\ {Unborn, Gone} \cap Row = {} /\ Unborn # Gone
  /\ MaxOffset \in Nat /\ MaxChanges \in Nat

VARIABLES
  listing, limit, \* what the client asks for
  table,          \* the table behind the listing
  tie,            \* the places of the rows among those with the same key
  walk,           \* the client: the await of the request, the cursor or
                  \* offset it sent, the mark the route read, the last page
  returned,       \* history: how often a row was returned, 2 for more
  early,          \* history: the rows listed when the walk began
  touched,        \* history: the rows written, or moved in a tie, since
  lost,           \* history: what the walk hangs on was written since
  changes

request == <<listing, limit>>
history == <<returned, early, touched, lost>>
vars == <<request, table, tie, walk, history, changes>>

Exists(r) == table[r] \notin {Unborn, Gone}

(* The filter of the query.  A search by name is part of the flag.         *)
Listed(r) ==
  /\ Exists(r)
  /\ listing \in NgoListings \cup {"allVerified", "resolved", "ngoDonors"} => table[r].flag
  /\ listing \in {"allUnverified", "unresolved", "pending"} => ~table[r].flag

(* ORDER BY: the key, and the id (or the tie) among equal keys.            *)
Precedes(p, q) ==
  LET keyDown == listing \in {"newest", "rankedDown"} \cup AdminListings
                               \cup DeadLetterListings \cup ApplicationListings
      idDown == listing \in DeadLetterListings \cup ApplicationListings
  IN  \/ listing # "ngoDonors" /\ keyDown /\ p.key > q.key
      \/ listing # "ngoDonors" /\ ~keyDown /\ p.key < q.key
      \/ /\ listing = "ngoDonors" \/ p.key = q.key
         /\ IF idDown THEN p.id > q.id ELSE p.id < q.id

Orders == Injection(Rows, Rows)
Place(r) == [key |-> table[r].key, id |-> tie[r]]
Before(r, s) == Precedes(Place(r), Place(s))

Init ==
  /\ listing \in Listings /\ limit \in Limits
  /\ table \in [Rows -> Row \cup {Unborn}]
  /\ tie = [r \in Rows |-> r]
  /\ walk = [at |-> "page", cursor |-> NoCursor, offset |-> 0, mark |-> {},
             page |-> {}]
  /\ returned = [r \in Rows |-> 0]
  /\ early = {r \in Rows : Listed(r)}
  /\ touched = {} /\ lost = FALSE /\ changes = 0

----------------------------------------------------------------------------
(* The pages.                                                              *)

(* Mistaken: the row that is one too many is returned as well.             *)
PageUncut(rows) == {r \in rows : Cardinality({s \in rows : Before(s, r)}) <= limit}

(* take: limit + 1, of which limit rows are returned.                      *)
Page(rows) == {r \in rows : Cardinality({s \in rows : Before(s, r)}) < limit}
HasMore(rows) == Cardinality(rows) > limit
LastOf(page) == CHOOSE r \in page : \A s \in page \ {r} : Before(s, r)

(* A row that was returned twice is not counted further.                   *)
Return(page) ==
  returned' = [r \in Rows |-> IF r \in page /\ returned[r] < 2
                                THEN returned[r] + 1 ELSE returned[r]]

(* The answer to a request with a cursor: nextCursor is the last row of    *)
(* the page, when there are more.                                          *)
Answer(rows) ==
  /\ Return(Page(rows))
  /\ walk' = [walk EXCEPT
       !.at = IF HasMore(rows) THEN "page" ELSE "done",
       !.cursor = IF HasMore(rows) THEN LastOf(Page(rows)) ELSE NoCursor,
       !.mark = {}, !.page = Page(rows)]

(* The row of the cursor, looked for in the listing itself.                *)
MarkListed(r) == IF r # NoCursor /\ Listed(r) THEN {Place(r)} ELSE {}

(* Where the row of the cursor is now, if there is one; it need not be in  *)
(* the listing any more.                                                   *)
Mark(r) == IF r # NoCursor /\ Exists(r) THEN {Place(r)} ELSE {}

(* Mistaken: the page begins with the row of the cursor.                   *)
RemainingWithCursor(mark) ==
  {r \in Rows : /\ Listed(r)
                /\ walk.cursor = NoCursor \/ \E m \in mark :
                     Precedes(m, Place(r)) \/ m = Place(r)}

(* Mistaken: of the rows with the cursor's key only its own is passed over. *)
RemainingTied(mark) ==
  {r \in Rows : /\ Listed(r)
                /\ walk.cursor = NoCursor \/ \E m \in mark :
                     Precedes(m, Place(r)) \/ (m.key = table[r].key /\ m.id # tie[r])}

(* The rows after the mark; without its row a cursor has none.             *)
Remaining(mark) ==
  {r \in Rows : /\ Listed(r)
                /\ walk.cursor = NoCursor \/ \E m \in mark : Precedes(m, Place(r))}

(* GET /ngos: one query finds the cursor's row and the rows after it.      *)
ListNgos ==
  /\ walk.at = "page" /\ listing \in NgoListings
  /\ Answer(Remaining(Mark(walk.cursor)))
  /\ UNCHANGED <<request, table, tie, early, touched, lost, changes>>

(* GET /ngos/all.  Without a unique order Prisma fetches the whole listing *)
(* and looks for the cursor's row in it: there are no rows after one that  *)
(* has left the listing, and the walk ends.                                *)
ListAllNgos ==
  /\ walk.at = "page" /\ listing \in AdminListings
  /\ Answer(Remaining(MarkListed(walk.cursor)))
  /\ lost' = (lost \/ (walk.cursor # NoCursor /\ ~Listed(walk.cursor)))
  /\ UNCHANGED <<request, table, tie, early, touched, changes>>

(* GET /ngos/:id/donors.  Prisma's own cursor takes the rows from the      *)
(* cursor's on and skips one: that is the cursor's row, for a donor of an  *)
(* NGO stays one.                                                          *)
ListNgoDonors ==
  /\ walk.at = "page" /\ listing = "ngoDonors"
  /\ Answer(Remaining(Mark(walk.cursor)))
  /\ UNCHANGED <<request, table, tie, early, touched, lost, changes>>

(* GET /donors ranks all donors anew for each page and looks for the place *)
(* the cursor has by now.                                                  *)
RankDonors ==
  /\ walk.at = "page" /\ listing \in Rankings
  /\ Answer(Remaining(Mark(walk.cursor)))
  /\ UNCHANGED <<request, table, tie, early, touched, lost, changes>>

(* GET /admin/dead-letters looks the cursor up first; one that is gone     *)
(* ends the walk with an empty page.                                       *)
FindCursor ==
  /\ walk.at = "page" /\ listing \in DeadLetterListings
  /\ LET gone == walk.cursor # NoCursor /\ Mark(walk.cursor) = {}
     IN  /\ walk' = IF gone
                      THEN [walk EXCEPT !.at = "done", !.cursor = NoCursor, !.page = {}]
                      ELSE [walk EXCEPT !.at = "rows", !.mark = Mark(walk.cursor)]
         /\ lost' = (lost \/ gone)
  /\ UNCHANGED <<request, table, tie, returned, early, touched, changes>>

ReadRows ==
  /\ walk.at = "rows"
  /\ Answer(Remaining(walk.mark))
  /\ UNCHANGED <<request, table, tie, early, touched, lost, changes>>

(* GET /ngo-applications: the rows after the first ones, whichever those   *)
(* are.  A client goes on until a page is not full.                        *)
ListApplications ==
  /\ walk.at = "page" /\ listing \in ApplicationListings
  /\ walk.offset <= MaxOffset
  /\ LET rows == {r \in Rows : Listed(r)}
         rank(r) == Cardinality({s \in rows : Before(s, r)})
         page == {r \in rows : rank(r) >= walk.offset /\ rank(r) < walk.offset + limit}
     IN  /\ Return(page)
         /\ walk' = [walk EXCEPT
              !.at = IF Cardinality(page) = limit THEN "page" ELSE "done",
              !.offset = @ + limit, !.page = page]
  /\ UNCHANGED <<request, table, tie, early, touched, lost, changes>>

(* An offset beyond the largest one is answered with 400.                  *)
RefuseOffset ==
  /\ walk.at = "page" /\ listing \in ApplicationListings
  /\ walk.offset > MaxOffset
  /\ walk' = [walk EXCEPT !.at = "refused", !.page = {}]
  /\ UNCHANGED <<request, table, tie, history, changes>>

Step == \/ ListNgos \/ ListAllNgos \/ ListNgoDonors \/ RankDonors
        \/ FindCursor \/ ReadRows \/ ListApplications \/ RefuseOffset

----------------------------------------------------------------------------
(* The table changes.  An offset counts rows, so it is lost with any row   *)
(* that comes or goes; a cursor is lost when its row moves.                *)
Walking == walk.at \in {"page", "rows"}
Write(r, row) ==
  /\ Walking /\ changes < MaxChanges
  /\ UNCHANGED <<request, tie, walk, returned, early>>
  /\ table' = [table EXCEPT ![r] = row]
  /\ touched' = touched \cup {r}
  /\ lost' = (lost \/ (listing \in ApplicationListings /\ walk.offset > 0)
                   \/ (walk.cursor = r /\ Exists(r) /\ row # Gone
                       /\ row.key # table[r].key))
  /\ changes' = changes + 1

(* ensureNgo and approved, ensureDonor, recordDeadLetter, a submission.    *)
Insert ==
  \E r \in Rows, row \in Row :
    /\ table[r] = Unborn
    /\ listing \in DeadLetterListings \cup ApplicationListings => ~row.flag
    /\ Write(r, row)

(* approved and revoked, a donor's first stream for the NGO, a resolved    *)
(* dead letter, a decided application.                                     *)
Flip ==
  \E r \in Rows :
    /\ Exists(r) /\ listing \notin Rankings
    /\ table[r].flag => listing \in NgoListings \cup AdminListings
    /\ Write(r, [table[r] EXCEPT !.flag = ~@])

(* PATCH /admin/ngos/:id and register rename, withdraw, cancel and created *)
(* move a donor's totals.  Times of creation stay.                         *)
Rekey ==
  \E r \in Rows, k \in Keys :
    /\ Exists(r) /\ listing \in Rankings \cup {"name"}
    /\ k # table[r].key
    /\ Write(r, [table[r] EXCEPT !.key = k])

(* pruneOldLogs: resolved dead letters.                                    *)
Prune ==
  \E r \in Rows :
    /\ Exists(r) /\ listing \in DeadLetterListings /\ table[r].flag
    /\ Write(r, Gone)

(* Rows that GET /ngos/all has no order for come in another one: an update *)
(* has put a row elsewhere, or the query is planned anew.                  *)
Swapped(r, s) == Exists(r) /\ Exists(s) /\ Before(r, s) # Before(r, s)'
Reorder ==
  /\ Walking /\ listing \in AdminListings /\ changes < MaxChanges
  /\ UNCHANGED <<request, table, walk, returned, early, lost>>
  /\ tie' \in Orders
  /\ touched' = touched \cup {r \in Rows : \E s \in Rows :
                                Swapped(r, s) \/ Swapped(s, r)}
  /\ touched' # touched
  /\ changes' = changes + 1

Next == Step \/ Insert \/ Flip \/ Rekey \/ Prune \/ Reorder

Spec == Init /\ [][Next]_vars

(* Each request is answered and the client asks for the next page.         *)
FairSpec == Spec /\ WF_vars(Step)

----------------------------------------------------------------------------
(* Properties *)

WalkStates == {"page", "rows", "done", "refused"}
(* Every variable has its type, and a page has limit rows at most.         *)
TypeOK ==
  /\ listing \in Listings /\ limit \in Limits
  /\ table \in [Rows -> Row \cup {Unborn, Gone}]
  /\ tie \in Orders
  /\ walk \in [at : WalkStates, cursor : Rows \cup {NoCursor}, offset : Nat,
               mark : SUBSET [key : Keys, id : Rows], page : SUBSET Rows]
  /\ Cardinality(walk.page) <= limit /\ Cardinality(walk.mark) <= 1
  /\ returned \in [Rows -> 0 .. 2]
  /\ early \in SUBSET Rows /\ touched \in SUBSET Rows
  /\ lost \in BOOLEAN
  /\ changes \in 0 .. MaxChanges

(* The rows that were there from the start and were neither written nor,   *)
(* in GET /ngos/all, moved among the rows they tie with.                   *)
Steady == early \ touched
Passed(r) ==
  IF listing \in ApplicationListings
    THEN Cardinality({s \in Rows : Listed(s) /\ Before(s, r)}) < walk.offset
    ELSE walk.cursor # NoCursor /\ (r = walk.cursor \/ Before(r, walk.cursor))

(* In the middle of a walk the steady rows up to the cursor have been      *)
(* returned, each once and in order, and none after it, whatever is        *)
(* inserted, renamed, revoked or pruned meanwhile: the row of the cursor   *)
(* itself may leave the listing.                                           *)
PrefixReturned ==
  /\ ~lost /\ walk.at # "done"
  /\ walk.cursor = NoCursor \/ Exists(walk.cursor)
  => \A r \in Steady : returned[r] = IF Passed(r) THEN 1 ELSE 0

(* A walk that came to its end has returned every steady row, once; unless *)
(* the row of its cursor moved, was pruned or (GET /ngos/all) had left the *)
(* listing when the next page was asked for, or, with an offset, a row     *)
(* came or went.                                                           *)
NothingMissed ==
  ~lost /\ walk.at = "done" => \A r \in Steady : returned[r] = 1

(* A walk ends, if need be with a refusal: a client that follows           *)
(* nextCursor does not go in circles.                                      *)
EventuallyDone == <>(~Walking)

(* ngoApplications.ts:416-417: "offset pages never repeat or skip a row".  *)
(* So a walk returns a row that nobody touched once.                       *)
OffsetPagesWhole ==
  walk.at = "done" => \A r \in Steady : returned[r] = 1
=============================================================================
