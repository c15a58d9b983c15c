---------------------------- MODULE PagingProofs ----------------------------
(***************************************************************************)
(* Proofs about the walks of the module Paging: whatever is written        *)
(* between two pages, a walk returns the rows that nobody touched once,    *)
(* for every listing, any number of rows and any limit.                    *)
(***************************************************************************)
EXTENDS Paging, Induction

----------------------------------------------------------------------------
(* Ranks.  An order is the set of its pairs.                               *)

StrictOrder(S, B) ==
  /\ \A r \in S : <<r, r>> \notin B
  /\ \A r, s, t \in S : <<r, s>> \in B /\ <<s, t>> \in B => <<r, t>> \in B
  /\ \A r, s \in S : r = s \/ <<r, s>> \in B \/ <<s, r>> \in B
Below(S, B, r) == {s \in S : <<s, r>> \in B}
Rank(S, B) == [r \in S |-> Cardinality(Below(S, B, r))]
Ranked(S, B, a, n) == {r \in S : a <= Rank(S, B)[r] /\ Rank(S, B)[r] < a + n}

LEMMA RankOrder ==
  ASSUME NEW S, IsFiniteSet(S), NEW B, StrictOrder(S, B)
  PROVE  /\ Rank(S, B) \in [S -> 0 .. Cardinality(S) - 1]
         /\ \A r, s \in S : <<r, s>> \in B => Rank(S, B)[r] < Rank(S, B)[s]
<1>1. \A r \in S : /\ Below(S, B, r) \in SUBSET (S \ {r})
                   /\ Below(S, B, r) \in SUBSET S
  BY DEF Below, StrictOrder
<1>2. Cardinality(S) \in Nat
  BY FS_CardinalityType
<1>3. \A r \in S : /\ IsFiniteSet(S \ {r})
                   /\ Cardinality(S \ {r}) = Cardinality(S) - 1
  BY FS_RemoveElement
<1>4. ASSUME NEW r \in S
      PROVE  /\ IsFiniteSet(Below(S, B, r)) /\ Cardinality(Below(S, B, r)) \in Nat
             /\ Cardinality(Below(S, B, r)) <= Cardinality(S) - 1
  BY <1>1, <1>3, FS_Subset, FS_CardinalityType
<1>5. Rank(S, B) \in [S -> 0 .. Cardinality(S) - 1]
  <2>1. \A r \in S : Cardinality(Below(S, B, r)) \in 0 .. Cardinality(S) - 1
    BY <1>2, <1>4
  <2>2. QED
    BY <2>1 DEF Rank
<1>6. ASSUME NEW r \in S, NEW s \in S, <<r, s>> \in B
      PROVE  Rank(S, B)[r] < Rank(S, B)[s]
  <2>1. /\ Below(S, B, r) \in SUBSET Below(S, B, s)
        /\ r \in Below(S, B, s) /\ r \notin Below(S, B, r)
    BY <1>6 DEF Below, StrictOrder
  <2>2. Below(S, B, r) \in SUBSET (Below(S, B, s) \ {r})
    BY <2>1
  <2>3. /\ IsFiniteSet(Below(S, B, s) \ {r})
        /\ Cardinality(Below(S, B, s) \ {r}) = Cardinality(Below(S, B, s)) - 1
    BY <1>4, <2>1, FS_RemoveElement
  <2>4. Cardinality(Below(S, B, r)) <= Cardinality(Below(S, B, s)) - 1
    BY <2>2, <2>3, FS_Subset
  <2>5. QED
    BY <1>4, <2>4 DEF Rank
<1>7. QED
  BY <1>5, <1>6

(* The ranks are the numbers below the number of rows, each taken once.    *)
LEMMA RankBijection ==
  ASSUME NEW S, IsFiniteSet(S), NEW B, StrictOrder(S, B)
  PROVE  /\ \A r, s \in S : Rank(S, B)[r] = Rank(S, B)[s] => r = s
         /\ \A i \in 0 .. Cardinality(S) - 1 : \E r \in S : Rank(S, B)[r] = i
<1> DEFINE f == Rank(S, B)
           T == 0 .. Cardinality(S) - 1
<1>1. /\ f \in [S -> T]
      /\ \A r, s \in S : <<r, s>> \in B => f[r] < f[s]
  BY RankOrder
<1>2. Cardinality(S) \in Nat
  BY FS_CardinalityType
<1>3. IsFiniteSet(T) /\ Cardinality(T) = Cardinality(S)
  <2> DEFINE n == Cardinality(S)
  <2>1. 0 \in Int /\ n - 1 \in Int /\ (n - 1) - 0 + 1 = n /\ (0 > n - 1 => n = 0)
    BY <1>2
  <2> HIDE DEF n
  <2>2. IsFiniteSet(0 .. n - 1) /\ Cardinality(0 .. n - 1) = n
    BY <2>1, FS_Interval
  <2>3. QED
    BY <2>2 DEF n
<1>4. \A r \in S : f[r] \in Int
  BY <1>1, <1>2
<1> HIDE DEF f, T
<1>5. \A r, s \in S : f[r] = f[s] => r = s
  <2> SUFFICES ASSUME NEW r \in S, NEW s \in S, f[r] = f[s], r # s PROVE FALSE
    OBVIOUS
  <2>1. <<r, s>> \in B \/ <<s, r>> \in B
    BY DEF StrictOrder
  <2>2. f[r] < f[s] \/ f[s] < f[r]
    BY <1>1, <2>1
  <2>3. QED
    BY <1>4, <2>2
<1>6. f \in Injection(S, T)
  BY <1>1, <1>5 DEF Injection, IsInjective
<1>7. f \in Surjection(S, T)
  BY <1>3, <1>6, FS_Injection
<1>8. \A i \in T : \E r \in S : f[r] = i
  BY <1>7 DEF Surjection
<1>9. QED
  BY <1>5, <1>8 DEF f, T

(* How many rows have a rank in a stretch of n.                            *)
LEMMA RankedCount ==
  ASSUME NEW S, IsFiniteSet(S), NEW B, StrictOrder(S, B),
         NEW a \in Nat, NEW n \in Nat
  PROVE  /\ IsFiniteSet(Ranked(S, B, a, n))
         /\ Cardinality(Ranked(S, B, a, n)) <= n
         /\ Cardinality(S) >= a + n => Cardinality(Ranked(S, B, a, n)) = n
<1> DEFINE P == Ranked(S, B, a, n)
           T == a .. a + n - 1
           f == [r \in P |-> Rank(S, B)[r]]
<1>1. P \in SUBSET S /\ IsFiniteSet(P)
  <2>1. P \in SUBSET S
    BY DEF Ranked
  <2>2. QED
    BY <2>1, FS_Subset
<1>2. Cardinality(S) \in Nat
  BY FS_CardinalityType
<1>3. \A r \in S : Rank(S, B)[r] \in 0 .. Cardinality(S) - 1
  BY RankOrder
<1>4. f \in [P -> T]
  BY <1>2, <1>3 DEF Ranked
<1>5. f \in Injection(P, T)
  BY <1>1, <1>4, RankBijection DEF Injection, IsInjective
<1>6. IsFiniteSet(T) /\ Cardinality(T) = n
  <2>1. a \in Int /\ a + n - 1 \in Int /\ a + n - 1 - a + 1 = n
    OBVIOUS
  <2>2. QED
    BY <2>1, FS_Interval
<1>7. ASSUME Cardinality(S) >= a + n PROVE f \in Surjection(P, T)
  <2>1. ASSUME NEW i \in T PROVE \E r \in P : f[r] = i
    <3>1. i \in 0 .. Cardinality(S) - 1
      BY <1>2, <1>7
    <3>2. PICK r \in S : Rank(S, B)[r] = i
      BY <3>1, RankBijection
    <3>3. r \in P
      BY <3>2 DEF Ranked
    <3>4. QED
      BY <3>2, <3>3
  <2> HIDE DEF f, P, T
  <2>2. QED
    BY <1>4, <2>1 DEF Surjection
<1> HIDE DEF f, P, T
<1>8. Cardinality(P) <= n
  BY <1>5, <1>6, FS_Injection
<1>9. Cardinality(S) >= a + n => Cardinality(P) = n
  BY <1>1, <1>5, <1>6, <1>7, FS_Surjection
<1>10. QED
  BY <1>1, <1>8, <1>9 DEF P

(* A part of the rows that is not empty has a last one.                    *)
LEMMA LastExists ==
  ASSUME NEW S, IsFiniteSet(S), NEW B, StrictOrder(S, B),
         NEW P \in SUBSET S, P # {}
  PROVE  \E r \in P : \A s \in P \ {r} : <<s, r>> \in B
<1> DEFINE f == Rank(S, B)
           T == {f[r] : r \in P}
<1>1. /\ \A r \in S : f[r] \in 0 .. Cardinality(S) - 1
      /\ \A r, s \in S : <<r, s>> \in B => f[r] < f[s]
  BY RankOrder
<1>2. Cardinality(S) - 1 \in Nat
  <2>1. Cardinality(S) \in Nat /\ Cardinality(S) # 0
    BY FS_CardinalityType, FS_EmptySet
  <2>2. QED
    BY <2>1
<1> HIDE DEF f
<1>3. T \in SUBSET (0 .. Cardinality(S) - 1) /\ T # {}
  BY <1>1
<1>4. PICK x \in T : \A y \in T : y <= x
  BY <1>2, <1>3, GreatestNumber
<1>5. PICK r \in P : f[r] = x
  BY <1>4
<1>6. ASSUME NEW s \in P \ {r} PROVE <<s, r>> \in B
  <2>1. f[s] <= f[r] /\ f[s] \in Int /\ f[r] \in Int
    BY <1>1, <1>2, <1>4, <1>5
  <2>2. ~ (<<r, s>> \in B)
    BY <1>1, <2>1
  <2>3. QED
    BY <2>2 DEF StrictOrder
<1>7. QED
  BY <1>6

----------------------------------------------------------------------------
(* The order of a listing.                                                 *)

Places == [key : Keys, id : Rows]
Order == {p \in Rows \X Rows : Before(p[1], p[2])}
ListedRows == {r \in Rows : Listed(r)}

LEMMA PrecedesOrder ==
  ASSUME NEW p \in Places, NEW q \in Places
  PROVE  /\ ~ Precedes(p, p)
         /\ ~ (Precedes(p, q) /\ Precedes(q, p))
         /\ \A t \in Places : Precedes(p, q) /\ Precedes(q, t) => Precedes(p, t)
         /\ p = q \/ Precedes(p, q) \/ Precedes(q, p)
              \/ (listing = "ngoDonors" /\ p.id = q.id)
<1> DEFINE keyDown == listing \in {"newest", "rankedDown"} \cup AdminListings
                                    \cup DeadLetterListings \cup ApplicationListings
           idDown == listing \in DeadLetterListings \cup ApplicationListings
           donors == listing = "ngoDonors"
           Prec(a, b) ==
             \/ ~donors /\ keyDown /\ a.key > b.key
             \/ ~donors /\ ~keyDown /\ a.key < b.key
             \/ /\ donors \/ a.key = b.key
                /\ IF idDown THEN a.id > b.id ELSE a.id < b.id
<1>1. \A a, b \in Places : Precedes(a, b) <=> Prec(a, b)
  BY DEF Precedes
<1>2. \A a \in Places : a.key \in Nat /\ a.id \in Nat
  BY PagingAssumption DEF Places
<1>3. \A a, b \in Places : a.key = b.key /\ a.id = b.id => a = b
  BY DEF Places
<1> HIDE DEF keyDown, idDown, donors
<1>4. ~ Prec(p, p) /\ ~ (Prec(p, q) /\ Prec(q, p))
  BY <1>2
<1>5. \A t \in Places : Prec(p, q) /\ Prec(q, t) => Prec(p, t)
  BY <1>2
<1>6. p = q \/ Prec(p, q) \/ Prec(q, p) \/ (donors /\ p.id = q.id)
  BY <1>2, <1>3
<1> HIDE DEF Prec
<1>7. QED
  BY <1>1, <1>4, <1>5, <1>6 DEF donors

(* No two rows have the same place.                                        *)
LEMMA TieIs ==
  ASSUME TypeOK
  PROVE  /\ tie \in [Rows -> Rows]
         /\ \A r, s \in Rows : tie[r] = tie[s] => r = s
         /\ \A r, s \in Rows : Place(r) = Place(s) <=> r = s
<1>1. tie \in [Rows -> Rows] /\ \A r, s \in Rows : tie[r] = tie[s] => r = s
  BY DEF TypeOK, Orders, Injection, IsInjective
<1>2. ASSUME NEW r \in Rows, NEW s \in Rows, Place(r) = Place(s) PROVE r = s
  <2>1. tie[r] = tie[s]
    BY <1>2 DEF Place
  <2>2. QED
    BY <1>1, <2>1
<1>3. QED
  BY <1>1, <1>2

LEMMA RowPlace ==
  ASSUME TypeOK, NEW r \in Rows, Exists(r)
  PROVE  /\ table[r] \in Row /\ table[r].key \in Keys
         /\ Place(r) \in Places /\ Place(r).id = tie[r]
<1>1. table[r] \in Row
  BY DEF TypeOK, Exists
<1>2. tie[r] \in Rows
  BY TieIs
<1>3. QED
  BY <1>1, <1>2 DEF Row, Place, Places

LEMMA ListedOrder ==
  ASSUME TypeOK, NEW rows \in SUBSET ListedRows
  PROVE  IsFiniteSet(rows) /\ StrictOrder(rows, Order)
<1>1. rows \in SUBSET Rows
  BY DEF ListedRows
<1>2. IsFiniteSet(rows)
  BY <1>1, PagingAssumption, FS_Subset
<1>3. \A r \in rows : r \in Rows /\ Place(r) \in Places /\ Place(r).id = tie[r]
  BY RowPlace DEF ListedRows, Listed
<1>4. \A r, s \in rows : <<r, s>> \in Order <=> Precedes(Place(r), Place(s))
  BY <1>1 DEF Order, Before
<1>5. ASSUME NEW r \in rows PROVE <<r, r>> \notin Order
  BY <1>3, <1>4, PrecedesOrder
<1>6. ASSUME NEW r \in rows, NEW s \in rows, NEW t \in rows,
             <<r, s>> \in Order, <<s, t>> \in Order
      PROVE  <<r, t>> \in Order
  BY <1>3, <1>4, <1>6, PrecedesOrder
<1>7. ASSUME NEW r \in rows, NEW s \in rows
      PROVE  r = s \/ <<r, s>> \in Order \/ <<s, r>> \in Order
  <2>1. \/ Place(r) = Place(s) \/ tie[r] = tie[s]
        \/ <<r, s>> \in Order \/ <<s, r>> \in Order
    BY <1>3, <1>4, PrecedesOrder
  <2>2. QED
    BY <1>3, <2>1, TieIs
<1>8. QED
  BY <1>2, <1>5, <1>6, <1>7 DEF StrictOrder

(* What a page is: the first rows, limit of them if there are as many.     *)
LEMMA PageIs ==
  ASSUME TypeOK, NEW rows \in SUBSET ListedRows
  PROVE  /\ Page(rows) \in SUBSET rows /\ Cardinality(Page(rows)) <= limit
         /\ ~ HasMore(rows) => Page(rows) = rows
         /\ HasMore(rows) =>
              /\ LastOf(Page(rows)) \in Page(rows)
              /\ \A s \in Page(rows) \ {LastOf(Page(rows))} :
                   Before(s, LastOf(Page(rows)))
         /\ \A r \in rows, s \in Page(rows) : Before(r, s) => r \in Page(rows)
<1> DEFINE P == Ranked(rows, Order, 0, limit)
           R == Rank(rows, Order)
<1>1. limit \in Nat /\ limit > 0 /\ rows \in SUBSET Rows
  BY PagingAssumption DEF TypeOK, ListedRows
<1>2. IsFiniteSet(rows) /\ StrictOrder(rows, Order)
  BY ListedOrder
<1>3. \A r \in rows : Below(rows, Order, r) = {s \in rows : Before(s, r)}
  BY <1>1 DEF Below, Order
<1>4. /\ \A r \in rows : R[r] \in 0 .. Cardinality(rows) - 1
      /\ \A r, s \in rows : <<r, s>> \in Order => R[r] < R[s]
      /\ Cardinality(rows) \in Nat
  BY <1>2, RankOrder, FS_CardinalityType
<1>5. P = Page(rows)
  <2>1. \A r \in rows : R[r] = Cardinality({s \in rows : Before(s, r)})
    BY <1>3 DEF Rank
  <2>2. \A r \in rows : 0 <= R[r] /\ R[r] < 0 + limit <=> R[r] < limit
    BY <1>1, <1>4
  <2>3. QED
    BY <2>1, <2>2 DEF Ranked, Page
<1>6. P \in SUBSET rows /\ \A r \in rows : r \in P <=> R[r] < limit
  BY <1>1, <1>4 DEF Ranked
<1>7. /\ Cardinality(P) <= limit
      /\ Cardinality(rows) >= limit => Cardinality(P) = limit
  <2>1. 0 \in Nat /\ 0 + limit = limit
    BY <1>1
  <2>2. QED
    BY <1>1, <1>2, <2>1, RankedCount
<1> HIDE DEF P, R
<1>8. ASSUME ~ HasMore(rows) PROVE P = rows
  <2>1. Cardinality(rows) <= limit
    BY <1>1, <1>4, <1>8 DEF HasMore
  <2>2. \A r \in rows : R[r] < limit
    BY <1>1, <1>4, <2>1
  <2>3. QED
    BY <1>6, <2>2
<1>9. ASSUME HasMore(rows)
      PROVE  \E r \in P : \A s \in P \ {r} : Before(s, r)
  <2>1. Cardinality(P) = limit
    BY <1>1, <1>4, <1>7, <1>9 DEF HasMore
  <2>2. P # {}
    BY <1>1, <2>1, FS_EmptySet
  <2>3. PICK r \in P : \A s \in P \ {r} : <<s, r>> \in Order
    BY <1>2, <1>6, <2>2, LastExists
  <2>4. QED
    BY <2>3 DEF Order
<1>10. ASSUME NEW r \in rows, NEW s \in P, Before(r, s) PROVE r \in P
  <2>1. s \in rows /\ R[s] < limit /\ <<r, s>> \in Order
    BY <1>1, <1>6, <1>10 DEF Order
  <2>2. R[r] < R[s]
    BY <1>4, <2>1
  <2>3. R[r] < limit
    BY <1>1, <1>4, <2>1, <2>2
  <2>4. QED
    BY <1>6, <2>3
<1>11. HasMore(rows) =>
         /\ LastOf(P) \in P
         /\ \A s \in P \ {LastOf(P)} : Before(s, LastOf(P))
  BY <1>9 DEF LastOf
<1>12. QED
  BY <1>5, <1>6, <1>7, <1>8, <1>10, <1>11

----------------------------------------------------------------------------
(* What holds in every state.                                              *)

(* A steady row is in the listing.                                         *)
SteadyListed == \A r \in Steady : Listed(r)

(* The row of the cursor was in the listing once.  It stays in the table   *)
(* except among the dead letters, and in the listing of an NGO's donors.   *)
CursorInv == walk.cursor # NoCursor =>
  /\ table[walk.cursor] # Unborn
  /\ listing \notin DeadLetterListings => table[walk.cursor] # Gone
  /\ listing = "ngoDonors" => Listed(walk.cursor)

(* The place that was read of the cursor's row is where it still is, if it *)
(* is not pruned.                                                          *)
MarkInv == walk.at = "rows" =>
  /\ listing \in DeadLetterListings
  /\ walk.cursor # NoCursor => \E m \in Places :
       walk.mark = {m} /\ (Exists(walk.cursor) => m = Place(walk.cursor))

(* The rows up to a mark.                                                  *)
UpToMark(r, mark) ==
  walk.cursor # NoCursor /\ \E m \in mark : Place(r) = m \/ Precedes(Place(r), m)
ReturnedUpTo(mark) ==
  \A r \in Steady : returned[r] = IF UpToMark(r, mark) THEN 1 ELSE 0

(* Between the two reads of the dead letters.                              *)
MarkReturned == ~lost /\ walk.at = "rows" => ReturnedUpTo(walk.mark)

IInv ==
  /\ TypeOK /\ SteadyListed /\ CursorInv /\ MarkInv
  /\ PrefixReturned /\ MarkReturned /\ NothingMissed

(* What Return leaves.                                                     *)
LEMMA ReturnStep ==
  ASSUME TypeOK, NEW page, Return(page)
  PROVE  /\ returned' \in [Rows -> 0 .. 2]
         /\ \A r \in Rows :
              /\ r \notin page => returned'[r] = returned[r]
              /\ r \in page /\ returned[r] = 0 => returned'[r] = 1
<1>1. \A r \in Rows : returned[r] \in 0 .. 2
  BY DEF TypeOK
<1>2. returned' = [r \in Rows |-> IF r \in page /\ returned[r] < 2
                                   THEN returned[r] + 1 ELSE returned[r]]
  BY DEF Return
<1>3. \A r \in Rows : (IF r \in page /\ returned[r] < 2
                         THEN returned[r] + 1 ELSE returned[r]) \in 0 .. 2
  BY <1>1
<1>4. returned' \in [Rows -> 0 .. 2]
  BY <1>2, <1>3
<1>5. \A r \in Rows : /\ r \notin page => returned'[r] = returned[r]
                      /\ r \in page /\ returned[r] = 0 => returned'[r] = 1
  BY <1>2
<1>6. QED
  BY <1>4, <1>5

(* What an answer with a cursor leaves.                                    *)
LEMMA AnswerStep ==
  ASSUME TypeOK, NEW rows \in SUBSET ListedRows, Answer(rows)
  PROVE  /\ walk' \in [at : WalkStates, cursor : Rows \cup {NoCursor},
                       offset : Nat, mark : SUBSET [key : Keys, id : Rows],
                       page : SUBSET Rows]
         /\ Cardinality(walk'.page) <= limit /\ Cardinality(walk'.mark) <= 1
         /\ walk'.mark = {}
         /\ returned' \in [Rows -> 0 .. 2]
         /\ HasMore(rows) => walk'.at = "page" /\ walk'.cursor \in rows
         /\ ~ HasMore(rows) => walk'.at = "done" /\ walk'.cursor = NoCursor
         /\ \A r \in rows : returned[r] = 0 =>
              returned'[r] = IF ~ HasMore(rows) \/ r = walk'.cursor \/ Before(r, walk'.cursor)
                               THEN 1 ELSE 0
         /\ \A r \in Rows \ rows : returned'[r] = returned[r]
<1> DEFINE P == Page(rows)
           c == LastOf(P)
<1>1. /\ P \in SUBSET rows /\ Cardinality(P) <= limit
      /\ ~ HasMore(rows) => P = rows
      /\ HasMore(rows) => c \in P /\ \A s \in P \ {c} : Before(s, c)
      /\ \A r \in rows, s \in P : Before(r, s) => r \in P
  BY PageIs
<1>2. rows \in SUBSET Rows
  BY DEF ListedRows
<1> HIDE DEF P, c
<1>3. /\ Return(P)
      /\ walk' = [walk EXCEPT !.at = IF HasMore(rows) THEN "page" ELSE "done",
                              !.cursor = IF HasMore(rows) THEN c ELSE NoCursor,
                              !.mark = {}, !.page = P]
  BY DEF Answer, P, c
<1>4. walk \in [at : WalkStates, cursor : Rows \cup {NoCursor},
                offset : Nat, mark : SUBSET [key : Keys, id : Rows], page : SUBSET Rows]
  BY DEF TypeOK
<1>5. /\ walk'.at = IF HasMore(rows) THEN "page" ELSE "done"
      /\ walk'.cursor = IF HasMore(rows) THEN c ELSE NoCursor
      /\ walk'.mark = {} /\ walk'.page = P /\ walk'.offset = walk.offset
  BY <1>3, <1>4
<1>6. (IF HasMore(rows) THEN c ELSE NoCursor) \in Rows \cup {NoCursor}
  BY <1>1, <1>2
<1>7. P \in SUBSET Rows
  BY <1>1, <1>2
<1>8. walk' \in [at : WalkStates, cursor : Rows \cup {NoCursor},
                 offset : Nat, mark : SUBSET [key : Keys, id : Rows],
                 page : SUBSET Rows]
  BY <1>3, <1>4, <1>6, <1>7 DEF WalkStates
<1>9. /\ returned' \in [Rows -> 0 .. 2]
      /\ \A r \in Rows : /\ r \notin P => returned'[r] = returned[r]
                         /\ r \in P /\ returned[r] = 0 => returned'[r] = 1
  BY <1>3, ReturnStep
<1>10. \A r \in Rows \ rows : returned'[r] = returned[r]
  BY <1>1, <1>9
<1>11. ASSUME NEW r \in rows, returned[r] = 0
       PROVE  returned'[r] = IF ~ HasMore(rows) \/ r = walk'.cursor \/ Before(r, walk'.cursor)
                               THEN 1 ELSE 0
  <2>1. r \in P => returned'[r] = 1
    BY <1>2, <1>9, <1>11
  <2>2. r \notin P => returned'[r] = 0
    BY <1>2, <1>9, <1>11
  <2>3. CASE ~ HasMore(rows)
    BY <1>1, <2>1, <2>3
  <2>4. CASE HasMore(rows)
    <3>1. walk'.cursor = c
      BY <1>5, <2>4
    <3>2. r \in P <=> r = c \/ Before(r, c)
      BY <1>1, <2>4
    <3>3. QED
      BY <2>1, <2>2, <2>4, <3>1, <3>2
  <2>5. QED
    BY <2>3, <2>4
<1>12. Cardinality(walk'.page) <= limit /\ Cardinality(walk'.mark) <= 1
  <2>1. Cardinality({}) = 0
    BY FS_EmptySet
  <2>2. QED
    BY <1>1, <1>5, <2>1
<1>13. HasMore(rows) => walk'.cursor \in rows
  BY <1>1, <1>5
<1>14. QED
  BY <1>5, <1>8, <1>9, <1>10, <1>11, <1>12, <1>13

(* The mark of a walk: where the row of the cursor is or was.              *)
MarkOf(mark) ==
  walk.cursor # NoCursor => \E m \in Places :
    /\ mark = {m}
    /\ listing = "ngoDonors" => Exists(walk.cursor) /\ m = Place(walk.cursor)

(* A steady row is up to the mark, or it remains.                          *)
LEMMA RemainingIs ==
  ASSUME TypeOK, SteadyListed, NEW mark, MarkOf(mark), NEW r \in Steady
  PROVE  r \in Remaining(mark) <=> ~ UpToMark(r, mark)
<1>1. r \in Rows /\ Listed(r) /\ Exists(r)
  BY DEF SteadyListed, Steady, TypeOK, Listed
<1>2. Place(r) \in Places /\ Place(r).id = tie[r]
  BY <1>1, RowPlace
<1>3. CASE walk.cursor = NoCursor
  BY <1>1, <1>3 DEF Remaining, UpToMark
<1>4. CASE walk.cursor # NoCursor
  <2>1. PICK m \in Places :
          /\ mark = {m}
          /\ listing = "ngoDonors" => Exists(walk.cursor) /\ m = Place(walk.cursor)
    BY <1>4 DEF MarkOf
  <2>2. r \in Remaining(mark) <=> Precedes(m, Place(r))
    BY <1>1, <1>4, <2>1 DEF Remaining
  <2>3. UpToMark(r, mark) <=> Place(r) = m \/ Precedes(Place(r), m)
    BY <1>4, <2>1 DEF UpToMark
  <2>4. ASSUME listing = "ngoDonors", Place(r).id = m.id PROVE Place(r) = m
    <3>1. walk.cursor \in Rows
      BY <1>4 DEF TypeOK
    <3>2. m = Place(walk.cursor) /\ m.id = tie[walk.cursor]
      BY <2>1, <2>4, <3>1, RowPlace
    <3>3. r = walk.cursor
      BY <1>1, <1>2, <2>4, <3>1, <3>2, TieIs
    <3>4. QED
      BY <3>2, <3>3
  <2>5. /\ ~ Precedes(m, m)
        /\ ~ (Precedes(Place(r), m) /\ Precedes(m, Place(r)))
        /\ \/ Place(r) = m \/ Precedes(Place(r), m) \/ Precedes(m, Place(r))
           \/ (listing = "ngoDonors" /\ Place(r).id = m.id)
    BY <1>2, <2>1, PrecedesOrder
  <2>6. QED
    BY <2>2, <2>3, <2>4, <2>5
<1>5. QED
  BY <1>3, <1>4

(* A row up to the mark comes before the rows that remain.                 *)
LEMMA UpToMarkBefore ==
  ASSUME TypeOK, NEW mark, MarkOf(mark),
         NEW r \in ListedRows, UpToMark(r, mark), NEW s \in Remaining(mark)
  PROVE  Before(r, s)
<1>1. /\ r \in Rows /\ s \in Rows /\ Exists(r) /\ Exists(s)
  BY DEF ListedRows, Remaining, Listed
<1>2. Place(r) \in Places /\ Place(s) \in Places
  BY <1>1, RowPlace
<1>3. PICK m \in Places : mark = {m}
  BY DEF MarkOf, UpToMark
<1>4. Place(r) = m \/ Precedes(Place(r), m)
  BY <1>3 DEF UpToMark
<1>5. Precedes(m, Place(s))
  BY <1>3 DEF Remaining, UpToMark
<1>6. QED
  BY <1>2, <1>4, <1>5, PrecedesOrder DEF Before

----------------------------------------------------------------------------
(* The requests.                                                           *)

Rest == <<request, table, tie, early, touched, changes>>

(* What does not change when the table does not.                           *)
LEMMA SameTable ==
  ASSUME UNCHANGED Rest
  PROVE  /\ listing' = listing /\ limit' = limit /\ table' = table /\ tie' = tie
         /\ early' = early /\ touched' = touched /\ changes' = changes
         /\ Steady' = Steady
         /\ \A r : (Listed(r)' <=> Listed(r)) /\ (Exists(r)' <=> Exists(r))
                   /\ Place(r)' = Place(r)
         /\ \A r, s : Before(r, s)' <=> Before(r, s)
BY DEF Rest, request, Steady, Listed, Exists, Place, Before, Precedes

(* A request with a cursor keeps the invariant: what it answers from are   *)
(* rows of the listing, and all that remain if nothing was lost.           *)
LEMMA CursorStep ==
  ASSUME IInv, listing \notin ApplicationListings, UNCHANGED Rest,
         NEW mark, NEW rows \in SUBSET ListedRows, Answer(rows),
         lost' \in BOOLEAN, lost => lost',
         ~ lost' => rows = Remaining(mark) /\ MarkOf(mark) /\ ReturnedUpTo(mark)
  PROVE  IInv'
<1>1. TypeOK /\ SteadyListed
  BY DEF IInv
<1>2. /\ walk' \in [at : WalkStates, cursor : Rows \cup {NoCursor},
                    offset : Nat, mark : SUBSET [key : Keys, id : Rows],
                    page : SUBSET Rows]
      /\ Cardinality(walk'.page) <= limit /\ Cardinality(walk'.mark) <= 1
      /\ returned' \in [Rows -> 0 .. 2]
      /\ HasMore(rows) => walk'.at = "page" /\ walk'.cursor \in rows
      /\ ~ HasMore(rows) => walk'.at = "done" /\ walk'.cursor = NoCursor
  BY <1>1, AnswerStep
<1>3. /\ \A r \in rows : returned[r] = 0 =>
           returned'[r] = IF ~ HasMore(rows) \/ r = walk'.cursor \/ Before(r, walk'.cursor)
                            THEN 1 ELSE 0
      /\ \A r \in Rows \ rows : returned'[r] = returned[r]
  BY <1>1, AnswerStep
<1>4. /\ listing' = listing /\ limit' = limit /\ table' = table /\ tie' = tie
      /\ early' = early /\ touched' = touched /\ changes' = changes
      /\ Steady' = Steady
      /\ \A r : (Listed(r)' <=> Listed(r)) /\ (Exists(r)' <=> Exists(r))
                /\ Place(r)' = Place(r)
      /\ \A r, s : Before(r, s)' <=> Before(r, s)
  BY SameTable
<1>5. TypeOK'
  BY <1>1, <1>2, <1>4 DEF TypeOK
<1>6. SteadyListed'
  BY <1>1, <1>4 DEF SteadyListed
<1>7. CursorInv'
  <2> SUFFICES ASSUME walk'.cursor # NoCursor
               PROVE  /\ table'[walk'.cursor] \notin {Unborn, Gone}
                      /\ Listed(walk.cursor)'
    BY DEF CursorInv
  <2>1. PICK c \in rows : walk'.cursor = c
    BY <1>2
  <2>2. Listed(c) /\ table[c] \notin {Unborn, Gone}
    BY <2>1 DEF ListedRows, Listed, Exists
  <2>3. table'[walk'.cursor] \notin {Unborn, Gone}
    BY <1>4, <2>1, <2>2
  <2>4. Listed(walk.cursor)'
    BY <1>4, <2>1, <2>2 DEF Listed, Exists
  <2>5. QED
    BY <2>3, <2>4
<1>8. MarkInv' /\ MarkReturned'
  BY <1>2 DEF MarkInv, MarkReturned
<1>9. ASSUME ~ lost', NEW r \in Steady
      PROVE  returned'[r] = IF ~ HasMore(rows) \/ r = walk'.cursor \/ Before(r, walk'.cursor)
                              THEN 1 ELSE 0
  <2>1. rows = Remaining(mark) /\ MarkOf(mark) /\ ReturnedUpTo(mark)
    BY <1>9
  <2>2. r \in Rows /\ r \in ListedRows
    BY <1>1 DEF Steady, TypeOK, SteadyListed, ListedRows
  <2>3. r \in rows <=> ~ UpToMark(r, mark)
    BY <1>1, <2>1, RemainingIs
  <2>4. returned[r] = IF UpToMark(r, mark) THEN 1 ELSE 0
    BY <2>1 DEF ReturnedUpTo
  <2>5. CASE r \in rows
    BY <1>3, <2>3, <2>4, <2>5
  <2>6. CASE r \notin rows
    <3>1. returned'[r] = 1 /\ UpToMark(r, mark)
      BY <1>3, <2>2, <2>3, <2>4, <2>6
    <3>2. HasMore(rows) => Before(r, walk'.cursor)
      <4>1. \A s \in Remaining(mark) : Before(r, s)
        BY <1>1, <2>1, <2>2, <3>1, UpToMarkBefore
      <4>2. QED
        BY <1>2, <2>1, <4>1
    <3>3. QED
      BY <3>1, <3>2
  <2>7. QED
    BY <2>5, <2>6
<1>10. PrefixReturned'
  <2> SUFFICES ASSUME ~ lost', walk'.at # "done", NEW r \in Steady'
               PROVE  returned'[r] = IF Passed(r)' THEN 1 ELSE 0
    BY DEF PrefixReturned
  <2>1. HasMore(rows) /\ r \in Steady
    BY <1>2, <1>4
  <2>2. walk'.cursor # NoCursor
    BY <1>2, <2>1, PagingAssumption DEF ListedRows
  <2>3. Before(r, walk.cursor)' <=> Before(r, walk'.cursor)
    BY <1>4 DEF Before, Place, Precedes
  <2>4. Passed(r)' <=> r = walk'.cursor \/ Before(r, walk'.cursor)
    BY <1>4, <2>2, <2>3 DEF Passed
  <2>5. QED
    BY <1>9, <2>1, <2>4
<1>11. NothingMissed'
  <2> SUFFICES ASSUME ~ lost', walk'.at = "done", NEW r \in Steady'
               PROVE  returned'[r] = 1
    BY DEF NothingMissed
  <2>1. ~ HasMore(rows) /\ r \in Steady
    BY <1>2, <1>4
  <2>2. QED
    BY <1>9, <2>1
<1>12. QED
  BY <1>5, <1>6, <1>7, <1>8, <1>10, <1>11 DEF IInv

(* The mark of a cursor whose row is there.                                *)
LEMMA PassedIs ==
  ASSUME TypeOK, listing \notin ApplicationListings,
         walk.cursor = NoCursor \/ Exists(walk.cursor), NEW r \in Rows
  PROVE  Passed(r) <=> UpToMark(r, Mark(walk.cursor))
<1>1. CASE walk.cursor = NoCursor
  BY <1>1 DEF Passed, UpToMark
<1>2. CASE walk.cursor # NoCursor
  <2>1. Mark(walk.cursor) = {Place(walk.cursor)}
    BY <1>2 DEF Mark
  <2>2. Place(r) = Place(walk.cursor) <=> r = walk.cursor
    <3>1. walk.cursor \in Rows
      BY <1>2 DEF TypeOK
    <3>2. QED
      BY <3>1, TieIs
  <2>3. QED
    BY <1>2, <2>1, <2>2 DEF Passed, UpToMark, Before
<1>3. QED
  BY <1>1, <1>2

LEMMA PageMark ==
  ASSUME IInv, listing \notin ApplicationListings, walk.at = "page",
         walk.cursor = NoCursor \/ Exists(walk.cursor)
  PROVE  /\ MarkOf(Mark(walk.cursor))
         /\ ~ lost => ReturnedUpTo(Mark(walk.cursor))
<1>1. TypeOK /\ PrefixReturned
  BY DEF IInv
<1>2. MarkOf(Mark(walk.cursor))
  <2> SUFFICES ASSUME walk.cursor # NoCursor
               PROVE  \E m \in Places :
                        /\ Mark(walk.cursor) = {m}
                        /\ listing = "ngoDonors" =>
                             Exists(walk.cursor) /\ m = Place(walk.cursor)
    BY DEF MarkOf
  <2>1. walk.cursor \in Rows /\ Exists(walk.cursor)
    BY <1>1 DEF TypeOK
  <2>2. Place(walk.cursor) \in Places
    BY <1>1, <2>1, RowPlace
  <2>3. Mark(walk.cursor) = {Place(walk.cursor)}
    BY <2>1 DEF Mark
  <2>4. QED
    BY <2>1, <2>2, <2>3
<1>3. ~ lost => ReturnedUpTo(Mark(walk.cursor))
  <2>1. Steady \in SUBSET Rows
    BY <1>1 DEF TypeOK, Steady
  <2>2. QED
    BY <1>1, <2>1, PassedIs DEF PrefixReturned, ReturnedUpTo
<1>4. QED
  BY <1>2, <1>3

LEMMA RemainingListed == \A mark : Remaining(mark) \in SUBSET ListedRows
BY DEF Remaining, ListedRows

(* The row of a cursor is there, except among the dead letters.            *)
LEMMA CursorExists ==
  ASSUME IInv, listing \notin DeadLetterListings
  PROVE  walk.cursor = NoCursor \/ Exists(walk.cursor)
BY DEF IInv, CursorInv, Exists

LEMMA ListNgosStep ==
  ASSUME IInv, ListNgos \/ ListNgoDonors \/ RankDonors
  PROVE  IInv'
<1>1. /\ walk.at = "page" /\ Answer(Remaining(Mark(walk.cursor))) /\ UNCHANGED Rest
      /\ lost' = lost /\ listing \in NgoListings \cup Rankings \cup {"ngoDonors"}
  BY DEF ListNgos, ListNgoDonors, RankDonors, Rest
<1>2. listing \notin DeadLetterListings /\ listing \notin ApplicationListings
  BY <1>1 DEF NgoListings, Rankings, DeadLetterListings, ApplicationListings
<1>3. /\ MarkOf(Mark(walk.cursor))
      /\ ~ lost => ReturnedUpTo(Mark(walk.cursor))
  BY <1>1, <1>2, CursorExists, PageMark
<1>4. Remaining(Mark(walk.cursor)) \in SUBSET ListedRows
  BY RemainingListed
<1>5. lost' \in BOOLEAN
  BY <1>1 DEF IInv, TypeOK
<1>6. QED
  BY <1>1, <1>2, <1>3, <1>4, <1>5, CursorStep

(* A cursor that is still in the listing is found there.                   *)
LEMMA ListAllNgosStep ==
  ASSUME IInv, ListAllNgos
  PROVE  IInv'
<1> DEFINE gone == walk.cursor # NoCursor /\ ~Listed(walk.cursor)
           found == MarkListed(walk.cursor)
<1>1. /\ walk.at = "page" /\ Answer(Remaining(found)) /\ UNCHANGED Rest
      /\ lost' = (lost \/ gone) /\ listing \in AdminListings
  BY DEF ListAllNgos, Rest
<1>2. listing \notin DeadLetterListings /\ listing \notin ApplicationListings
  BY <1>1 DEF AdminListings, DeadLetterListings, ApplicationListings
<1>3. /\ MarkOf(Mark(walk.cursor))
      /\ ~ lost => ReturnedUpTo(Mark(walk.cursor))
  BY <1>1, <1>2, CursorExists, PageMark
<1>4. Remaining(found) \in SUBSET ListedRows
  BY RemainingListed
<1>5. ~ gone => found = Mark(walk.cursor)
  BY DEF MarkListed, Mark, Listed
<1> HIDE DEF gone, found
<1>6. lost' \in BOOLEAN /\ (lost => lost') /\ (~ lost' => ~ lost /\ ~ gone)
  BY <1>1, Zenon
<1>7. ~ lost' => MarkOf(found) /\ ReturnedUpTo(found)
  BY <1>3, <1>5, <1>6
<1>8. QED
  BY <1>1, <1>2, <1>4, <1>6, <1>7, CursorStep

LEMMA ReadRowsStep ==
  ASSUME IInv, ReadRows
  PROVE  IInv'
<1>1. /\ walk.at = "rows" /\ Answer(Remaining(walk.mark)) /\ UNCHANGED Rest
      /\ lost' = lost
  BY DEF ReadRows, Rest
<1>2. MarkInv /\ MarkReturned
  BY DEF IInv
<1>3. listing \in DeadLetterListings
  BY <1>1, <1>2 DEF MarkInv
<1>4. listing \notin ApplicationListings /\ listing # "ngoDonors"
  BY <1>3 DEF DeadLetterListings, ApplicationListings
<1>5. MarkOf(walk.mark)
  BY <1>1, <1>2, <1>4 DEF MarkInv, MarkOf
<1>6. ~ lost => ReturnedUpTo(walk.mark)
  BY <1>1, <1>2 DEF MarkReturned
<1>7. Remaining(walk.mark) \in SUBSET ListedRows
  BY RemainingListed
<1>8. lost' \in BOOLEAN
  BY <1>1 DEF IInv, TypeOK
<1>9. QED
  BY <1>1, <1>4, <1>5, <1>6, <1>7, <1>8, CursorStep

(* The dead letters look the cursor up first.                              *)
LEMMA FindCursorStep ==
  ASSUME IInv, FindCursor
  PROVE  IInv'
<1> DEFINE gone == walk.cursor # NoCursor /\ Mark(walk.cursor) = {}
           found == Mark(walk.cursor)
<1>1. /\ walk.at = "page" /\ listing \in DeadLetterListings
      /\ walk' = IF gone
                   THEN [walk EXCEPT !.at = "done", !.cursor = NoCursor, !.page = {}]
                   ELSE [walk EXCEPT !.at = "rows", !.mark = found]
      /\ lost' = (lost \/ gone)
      /\ UNCHANGED <<request, table, tie, returned, early, touched, changes>>
  BY DEF FindCursor
<1>2. TypeOK /\ SteadyListed
  BY DEF IInv
<1>3. listing \notin ApplicationListings /\ listing # "ngoDonors"
      /\ listing \notin AdminListings
  BY <1>1 DEF DeadLetterListings, ApplicationListings, AdminListings
<1>4. walk \in [at : WalkStates, cursor : Rows \cup {NoCursor},
                offset : Nat, mark : SUBSET [key : Keys, id : Rows], page : SUBSET Rows]
      /\ Cardinality(walk.page) <= limit /\ Cardinality(walk.mark) <= 1
      /\ limit \in Nat /\ lost \in BOOLEAN
  BY <1>2, PagingAssumption DEF TypeOK
<1>5. gone <=> walk.cursor # NoCursor /\ ~ Exists(walk.cursor)
  BY DEF Mark
<1>6. \/ found = {}
      \/ /\ walk.cursor # NoCursor /\ Exists(walk.cursor)
         /\ found = {Place(walk.cursor)} /\ Place(walk.cursor) \in Places
  <2>1. CASE found = {}
    BY <2>1
  <2>2. CASE found # {}
    <3>1. walk.cursor # NoCursor /\ Exists(walk.cursor) /\ found = {Place(walk.cursor)}
      BY <2>2 DEF Mark
    <3>2. walk.cursor \in Rows
      BY <1>4, <3>1
    <3>3. QED
      BY <1>2, <3>1, <3>2, RowPlace
  <2>3. QED
    BY <2>1, <2>2
<1>7. found \in SUBSET [key : Keys, id : Rows] /\ Cardinality(found) <= 1
  <2> HIDE DEF found
  <2>1. CASE found = {}
    BY <2>1, FS_EmptySet
  <2>2. CASE found # {}
    <3>1. found = {Place(walk.cursor)} /\ Place(walk.cursor) \in Places
      BY <1>6, <2>2
    <3>2. Cardinality(found) = 1
      BY <3>1, FS_Singleton
    <3>3. QED
      BY <3>1, <3>2 DEF Places
  <2>3. QED
    BY <2>1, <2>2
<1>8. ~ lost /\ ~ gone => ReturnedUpTo(found)
  BY <1>1, <1>3, <1>5, PageMark
<1>9. /\ listing' = listing /\ limit' = limit /\ table' = table /\ tie' = tie
      /\ returned' = returned /\ early' = early /\ touched' = touched /\ changes' = changes
      /\ Steady' = Steady
      /\ \A r : (Listed(r)' <=> Listed(r)) /\ (Exists(r)' <=> Exists(r))
                /\ Place(r)' = Place(r)
      /\ \A r, s : Before(r, s)' <=> Before(r, s)
  BY <1>1 DEF request, Steady, Listed, Exists, Place, Before, Precedes
<1> HIDE DEF gone, found
<1>10. lost' \in BOOLEAN /\ (lost' <=> lost \/ gone)
  BY <1>1, Zenon
<1>11. Cardinality({}) <= limit
  BY <1>4, FS_EmptySet
<1>12. SteadyListed'
  BY <1>2, <1>9 DEF SteadyListed
<1>13. CASE gone
  <2>1. walk' = [walk EXCEPT !.at = "done", !.cursor = NoCursor, !.page = {}]
    BY <1>1, <1>13
  <2>2. walk' \in [at : WalkStates, cursor : Rows \cup {NoCursor},
                   offset : Nat, mark : SUBSET [key : Keys, id : Rows],
                   page : SUBSET Rows]
        /\ walk'.at = "done" /\ walk'.cursor = NoCursor /\ walk'.page = {}
        /\ walk'.mark = walk.mark
    BY <1>4, <2>1 DEF WalkStates
  <2>3. TypeOK'
    BY <1>2, <1>4, <1>9, <1>10, <1>11, <2>2 DEF TypeOK
  <2>4. CursorInv' /\ MarkInv' /\ MarkReturned' /\ PrefixReturned'
    BY <2>2 DEF CursorInv, MarkInv, MarkReturned, PrefixReturned
  <2>5. NothingMissed'
    BY <1>10, <1>13 DEF NothingMissed
  <2>6. QED
    BY <1>12, <2>3, <2>4, <2>5 DEF IInv
<1>14. CASE ~ gone
  <2>1. walk' = [walk EXCEPT !.at = "rows", !.mark = found]
    BY <1>1, <1>14
  <2>2. walk' \in [at : WalkStates, cursor : Rows \cup {NoCursor},
                   offset : Nat, mark : SUBSET [key : Keys, id : Rows],
                   page : SUBSET Rows]
        /\ walk'.at = "rows" /\ walk'.cursor = walk.cursor /\ walk'.page = walk.page
        /\ walk'.mark = found
    BY <1>4, <1>7, <2>1 DEF WalkStates
  <2>3. TypeOK'
    BY <1>2, <1>4, <1>7, <1>9, <1>10, <2>2 DEF TypeOK
  <2>4. CursorInv'
    BY <1>1, <1>3, <1>9, <2>2 DEF IInv, CursorInv
  <2>5. MarkInv'
    <3> SUFFICES ASSUME walk.cursor # NoCursor
                 PROVE  \E m \in Places :
                          /\ walk'.mark = {m}
                          /\ Exists(walk.cursor)' => m = Place(walk.cursor)'
      BY <1>1, <1>9, <2>2 DEF MarkInv
    <3>1. found = {Place(walk.cursor)} /\ Place(walk.cursor) \in Places
      BY <1>5, <1>6, <1>14 DEF found, Mark
    <3>2. Place(walk.cursor)' = Place(walk.cursor)
      BY <1>9, <2>2 DEF Place
    <3>3. QED
      BY <2>2, <3>1, <3>2
  <2>6. MarkReturned'
    <3> SUFFICES ASSUME ~ lost', NEW r \in Steady'
                 PROVE  returned'[r] = IF UpToMark(r, walk.mark)' THEN 1 ELSE 0
      BY DEF MarkReturned, ReturnedUpTo
    <3>1. ReturnedUpTo(found) /\ r \in Steady
      BY <1>8, <1>9, <1>10
    <3>2. UpToMark(r, walk.mark)' <=> UpToMark(r, found)
      BY <1>9, <2>2 DEF UpToMark, Precedes
    <3>3. QED
      BY <1>9, <3>1, <3>2 DEF ReturnedUpTo
  <2>7. PrefixReturned'
    <3> SUFFICES ASSUME ~ lost', walk'.cursor = NoCursor \/ Exists(walk.cursor)',
                        NEW r \in Steady'
                 PROVE  returned'[r] = IF Passed(r)' THEN 1 ELSE 0
      BY DEF PrefixReturned
    <3>1. PrefixReturned /\ ~ lost /\ r \in Steady
      BY <1>9, <1>10 DEF IInv
    <3>2. walk.cursor = NoCursor \/ Exists(walk.cursor)
      BY <1>9, <2>2 DEF Exists
    <3>3. Passed(r)' <=> Passed(r)
      BY <1>3, <1>9, <2>2 DEF Passed, Before, Place, Precedes
    <3>4. QED
      BY <1>1, <1>9, <3>1, <3>2, <3>3 DEF PrefixReturned
  <2>8. NothingMissed'
    BY <2>2 DEF NothingMissed
  <2>9. QED
    BY <1>12, <2>3, <2>4, <2>5, <2>6, <2>7, <2>8 DEF IInv
<1>15. QED
  BY <1>13, <1>14

(* The applications, by offset.                                            *)
OfRank(r) == Cardinality({s \in ListedRows : Before(s, r)})

LEMMA OffsetPage ==
  ASSUME TypeOK, NEW a \in Nat
  PROVE  LET page == {r \in ListedRows : OfRank(r) >= a /\ OfRank(r) < a + limit}
         IN  /\ page \in SUBSET ListedRows /\ Cardinality(page) <= limit
             /\ \A r \in ListedRows : OfRank(r) \in Nat
             /\ Cardinality(page) # limit => \A r \in ListedRows : OfRank(r) < a + limit
<1> DEFINE L == ListedRows
           page == {r \in L : OfRank(r) >= a /\ OfRank(r) < a + limit}
<1>1. limit \in Nat /\ L \in SUBSET Rows
  BY PagingAssumption DEF TypeOK, ListedRows
<1>2. IsFiniteSet(L) /\ StrictOrder(L, Order)
  BY ListedOrder
<1>3. \A r \in L : Rank(L, Order)[r] = OfRank(r)
  <2>1. \A r \in L : Below(L, Order, r) = {s \in L : Before(s, r)}
    BY <1>1 DEF Below, Order
  <2>2. QED
    BY <2>1 DEF Rank, OfRank
<1>4. page = Ranked(L, Order, a, limit)
  BY <1>3 DEF Ranked
<1>5. \A r \in L : Rank(L, Order)[r] \in 0 .. Cardinality(L) - 1
  BY <1>2, RankOrder
<1>6. Cardinality(L) \in Nat
  BY <1>2, FS_CardinalityType
<1> HIDE DEF L
<1>7. /\ Cardinality(page) <= limit
      /\ Cardinality(L) >= a + limit => Cardinality(page) = limit
  BY <1>1, <1>2, <1>4, RankedCount
<1>8. page \in SUBSET L /\ \A r \in L : OfRank(r) \in Nat
  BY <1>3, <1>5, <1>6
<1>9. Cardinality(page) # limit => \A r \in L : OfRank(r) < a + limit
  BY <1>1, <1>3, <1>5, <1>6, <1>7
<1>10. QED
  BY <1>7, <1>8, <1>9 DEF L

LEMMA OffsetStep ==
  ASSUME IInv, ListApplications
  PROVE  IInv'
<1> DEFINE page == {r \in ListedRows : /\ OfRank(r) >= walk.offset
                                       /\ OfRank(r) < walk.offset + limit}
<1>1. /\ walk.at = "page" /\ listing \in ApplicationListings /\ UNCHANGED Rest
      /\ lost' = lost
      /\ Return(page)
      /\ walk' = [walk EXCEPT !.at = IF Cardinality(page) = limit THEN "page" ELSE "done",
                              !.offset = @ + limit, !.page = page]
  BY DEF ListApplications, ListedRows, OfRank, Rest
<1>2. TypeOK /\ SteadyListed
  BY DEF IInv
<1>3. listing \notin DeadLetterListings
  BY <1>1 DEF DeadLetterListings, ApplicationListings
<1>4. walk \in [at : WalkStates, cursor : Rows \cup {NoCursor},
                offset : Nat, mark : SUBSET [key : Keys, id : Rows], page : SUBSET Rows]
      /\ Cardinality(walk.mark) <= 1 /\ limit \in Nat /\ walk.offset \in Nat
      /\ ListedRows \in SUBSET Rows
  BY <1>2, PagingAssumption DEF TypeOK, ListedRows
<1>5. /\ page \in SUBSET ListedRows /\ Cardinality(page) <= limit
      /\ \A r \in ListedRows : OfRank(r) \in Nat
      /\ Cardinality(page) # limit =>
           \A r \in ListedRows : OfRank(r) < walk.offset + limit
  BY <1>2, <1>4, OffsetPage
<1>6. \A r \in ListedRows :
        r \in page <=> OfRank(r) >= walk.offset /\ OfRank(r) < walk.offset + limit
  OBVIOUS
<1> HIDE DEF page
<1>7. /\ listing' = listing /\ limit' = limit /\ table' = table /\ tie' = tie
      /\ lost' = lost /\ early' = early /\ touched' = touched /\ changes' = changes
      /\ Steady' = Steady
      /\ \A r : (Listed(r)' <=> Listed(r)) /\ (Exists(r)' <=> Exists(r))
                /\ Place(r)' = Place(r)
      /\ \A r, s : Before(r, s)' <=> Before(r, s)
  BY <1>1, SameTable
<1>8. /\ walk' \in [at : WalkStates, cursor : Rows \cup {NoCursor},
                    offset : Nat, mark : SUBSET [key : Keys, id : Rows],
                    page : SUBSET Rows]
      /\ walk'.at = (IF Cardinality(page) = limit THEN "page" ELSE "done")
      /\ walk'.cursor = walk.cursor /\ walk'.mark = walk.mark
      /\ walk'.page = page /\ walk'.offset = walk.offset + limit
  <2>1. page \in SUBSET Rows
    BY <1>4, <1>5
  <2>2. walk.offset + limit \in Nat
    BY <1>4
  <2>3. QED
    BY <1>1, <1>4, <2>1, <2>2 DEF WalkStates
<1>9. /\ returned' \in [Rows -> 0 .. 2]
      /\ \A r \in Rows : /\ r \notin page => returned'[r] = returned[r]
                         /\ r \in page /\ returned[r] = 0 => returned'[r] = 1
  BY <1>1, <1>2, ReturnStep
<1>10. TypeOK'
  BY <1>2, <1>4, <1>5, <1>7, <1>8, <1>9 DEF TypeOK
<1>11. SteadyListed'
  BY <1>2, <1>7 DEF SteadyListed
<1>12. CursorInv'
  BY <1>1, <1>3, <1>7, <1>8 DEF IInv, CursorInv, ApplicationListings
<1>13. MarkInv' /\ MarkReturned'
  BY <1>8 DEF MarkInv, MarkReturned
<1>14. ASSUME ~ lost, NEW r \in Steady
       PROVE  /\ r \in ListedRows
              /\ returned'[r] = IF OfRank(r) < walk.offset + limit THEN 1 ELSE 0
  <2>1. r \in Rows /\ r \in ListedRows
    BY <1>2 DEF Steady, TypeOK, SteadyListed, ListedRows
  <2>2. Passed(r) <=> OfRank(r) < walk.offset
    <3>1. {s \in Rows : Listed(s) /\ Before(s, r)} = {s \in ListedRows : Before(s, r)}
      BY DEF ListedRows
    <3>2. QED
      BY <1>1, <3>1 DEF Passed, OfRank
  <2>3. returned[r] = IF OfRank(r) < walk.offset THEN 1 ELSE 0
    <3>1. walk.cursor = NoCursor \/ Exists(walk.cursor)
      BY <1>3, CursorExists
    <3>2. returned[r] = IF Passed(r) THEN 1 ELSE 0
      BY <1>1, <1>14, <3>1 DEF IInv, PrefixReturned
    <3>3. QED
      BY <2>2, <3>2
  <2>4. OfRank(r) \in Nat
    BY <1>5, <2>1
  <2>5. QED
    BY <1>4, <1>6, <1>9, <2>1, <2>3, <2>4
<1>15. PrefixReturned'
  <2> SUFFICES ASSUME ~ lost', NEW r \in Steady'
               PROVE  returned'[r] = IF Passed(r)' THEN 1 ELSE 0
    BY DEF PrefixReturned
  <2>1. returned'[r] = IF OfRank(r) < walk.offset + limit THEN 1 ELSE 0
    BY <1>7, <1>14
  <2>2. {s \in Rows : Listed(s) /\ Before(s, r)}' = {s \in ListedRows : Before(s, r)}
    BY <1>7 DEF ListedRows
  <2>3. Passed(r)' <=> OfRank(r) < walk.offset + limit
    BY <1>1, <1>7, <1>8, <2>2 DEF Passed, OfRank
  <2>4. QED
    BY <2>1, <2>3
<1>16. NothingMissed'
  <2> SUFFICES ASSUME ~ lost', walk'.at = "done", NEW r \in Steady'
               PROVE  returned'[r] = 1
    BY DEF NothingMissed
  <2>1. Cardinality(page) # limit
    BY <1>8
  <2>2. r \in ListedRows
        /\ returned'[r] = IF OfRank(r) < walk.offset + limit THEN 1 ELSE 0
    BY <1>7, <1>14
  <2>3. QED
    BY <1>5, <2>1, <2>2
<1>17. QED
  BY <1>10, <1>11, <1>12, <1>13, <1>15, <1>16 DEF IInv

(* A refusal leaves what was returned as it is.                            *)
LEMMA RefuseStep ==
  ASSUME IInv, RefuseOffset
  PROVE  IInv'
<1>1. /\ walk.at = "page" /\ walk' = [walk EXCEPT !.at = "refused", !.page = {}]
      /\ UNCHANGED Rest /\ UNCHANGED <<returned, lost>>
  BY DEF RefuseOffset, Rest, history
<1>2. /\ TypeOK /\ SteadyListed /\ CursorInv /\ PrefixReturned
  BY DEF IInv
<1>3. /\ listing' = listing /\ limit' = limit /\ table' = table /\ tie' = tie
      /\ early' = early /\ touched' = touched /\ changes' = changes
      /\ Steady' = Steady
      /\ \A r : (Listed(r)' <=> Listed(r)) /\ (Exists(r)' <=> Exists(r))
                /\ Place(r)' = Place(r)
      /\ \A r, s : Before(r, s)' <=> Before(r, s)
  BY <1>1, SameTable
<1>4. walk \in [at : WalkStates, cursor : Rows \cup {NoCursor},
                offset : Nat, mark : SUBSET [key : Keys, id : Rows], page : SUBSET Rows]
      /\ Cardinality(walk.mark) <= 1 /\ limit \in Nat
  BY <1>2, PagingAssumption DEF TypeOK, WalkStates
<1>5. /\ walk' \in [at : WalkStates, cursor : Rows \cup {NoCursor},
                    offset : Nat, mark : SUBSET [key : Keys, id : Rows],
                    page : SUBSET Rows]
      /\ walk'.at = "refused" /\ walk'.page = {} /\ walk'.cursor = walk.cursor
      /\ walk'.mark = walk.mark /\ walk'.offset = walk.offset
  BY <1>1, <1>4 DEF WalkStates
<1>6. Cardinality({}) <= limit
  BY <1>4, FS_EmptySet
<1>7. TypeOK'
  BY <1>1, <1>2, <1>3, <1>4, <1>5, <1>6 DEF TypeOK, WalkStates
<1>8. SteadyListed' /\ CursorInv'
  BY <1>2, <1>3, <1>5 DEF SteadyListed, CursorInv
<1>9. MarkInv' /\ MarkReturned' /\ NothingMissed'
  BY <1>5 DEF MarkInv, MarkReturned, NothingMissed
<1>10. PrefixReturned'
  <2> SUFFICES ASSUME ~ lost', walk'.cursor = NoCursor \/ Exists(walk.cursor)',
                      NEW r \in Steady'
               PROVE  returned'[r] = IF Passed(r)' THEN 1 ELSE 0
    BY DEF PrefixReturned
  <2>1. ~ lost /\ r \in Steady /\ (walk.cursor = NoCursor \/ Exists(walk.cursor))
    BY <1>1, <1>3, <1>5 DEF Exists
  <2>2. {s \in Rows : Listed(s) /\ Before(s, r)}'
          = {s \in Rows : Listed(s) /\ Before(s, r)}
    BY <1>3
  <2>3. Before(r, walk.cursor)' <=> Before(r, walk.cursor)
    BY <1>3, <1>5 DEF Before, Place, Precedes
  <2>4. Passed(r)' <=> Passed(r)
    BY <1>3, <1>5, <2>2, <2>3 DEF Passed
  <2>5. QED
    BY <1>1, <1>2, <2>1, <2>4 DEF PrefixReturned
<1>11. QED
  BY <1>7, <1>8, <1>9, <1>10 DEF IInv

----------------------------------------------------------------------------
(* The writes.                                                             *)

(* What the writers have in common: a row x is inserted or changed, and    *)
(* only a dead letter is pruned; times of creation stay.                   *)
LEMMA WriteCases ==
  ASSUME TypeOK, Insert \/ Flip \/ Rekey \/ Prune
  PROVE  \E x \in Rows : \E row \in Row \cup {Gone} :
           /\ Write(x, row)
           /\ (table[x] = Unborn /\ row \in Row) \/ Exists(x)
           /\ row = Gone => listing \in DeadLetterListings
           /\ Exists(x) /\ row # Gone /\ listing \in DeadLetterListings =>
                row.key = table[x].key
           /\ Exists(x) /\ listing = "ngoDonors" /\ table[x].flag => row # Gone /\ row.flag
<1>1. \A x \in Rows : Exists(x) => table[x] \in Row /\ table[x].key \in Keys
  BY RowPlace
<1>2. Gone \notin Row
  BY PagingAssumption
<1>3. CASE Insert
  <2>1. PICK x \in Rows, row \in Row : table[x] = Unborn /\ Write(x, row)
    BY <1>3 DEF Insert
  <2>2. ~ Exists(x) /\ row # Gone
    BY <1>2, <2>1 DEF Exists
  <2>3. QED
    BY <2>1, <2>2
<1>4. CASE Flip
  <2>1. PICK x \in Rows :
          /\ Exists(x)
          /\ table[x].flag => listing \in NgoListings \cup AdminListings
          /\ Write(x, [table[x] EXCEPT !.flag = ~@])
    BY <1>4 DEF Flip
  <2> DEFINE row == [table[x] EXCEPT !.flag = ~@]
  <2>2. row \in Row /\ row.key = table[x].key
    BY <1>1, <2>1 DEF Row
  <2>3. row # Gone
    BY <1>2, <2>2
  <2>4. ~ (listing = "ngoDonors" /\ table[x].flag)
    BY <2>1 DEF NgoListings, AdminListings
  <2>5. QED
    BY <2>1, <2>2, <2>3, <2>4
<1>5. CASE Rekey
  <2>1. PICK x \in Rows, k \in Keys :
          /\ Exists(x) /\ listing \in Rankings \cup {"name"}
          /\ Write(x, [table[x] EXCEPT !.key = k])
    BY <1>5 DEF Rekey
  <2> DEFINE row == [table[x] EXCEPT !.key = k]
  <2>2. row \in Row
    BY <1>1, <2>1 DEF Row
  <2>3. row # Gone /\ listing # "ngoDonors" /\ listing \notin DeadLetterListings
    BY <1>2, <2>1, <2>2 DEF Rankings, DeadLetterListings
  <2>4. QED
    BY <2>1, <2>2, <2>3
<1>6. CASE Prune
  <2>1. PICK x \in Rows : Exists(x) /\ listing \in DeadLetterListings /\ Write(x, Gone)
    BY <1>6 DEF Prune
  <2>2. listing # "ngoDonors"
    BY <2>1 DEF DeadLetterListings
  <2>3. QED
    BY <2>1, <2>2
<1>7. QED
  BY <1>3, <1>4, <1>5, <1>6

LEMMA WriteStep ==
  ASSUME IInv, Insert \/ Flip \/ Rekey \/ Prune
  PROVE  IInv'
<1>1. /\ TypeOK /\ SteadyListed /\ CursorInv /\ MarkInv
      /\ PrefixReturned /\ MarkReturned /\ NothingMissed
  BY DEF IInv
<1>2. PICK x \in Rows, row \in Row \cup {Gone} :
        /\ Write(x, row)
        /\ (table[x] = Unborn /\ row \in Row) \/ Exists(x)
        /\ row = Gone => listing \in DeadLetterListings
        /\ Exists(x) /\ row # Gone /\ listing \in DeadLetterListings =>
             row.key = table[x].key
        /\ Exists(x) /\ listing = "ngoDonors" /\ table[x].flag => row # Gone /\ row.flag
  BY <1>1, WriteCases
<1>3. /\ walk.at # "done" /\ changes < MaxChanges
      /\ listing' = listing /\ limit' = limit /\ walk' = walk /\ tie' = tie
      /\ returned' = returned /\ early' = early
      /\ table' = [table EXCEPT ![x] = row]
      /\ touched' = touched \cup {x} /\ changes' = changes + 1
  BY <1>2 DEF Write, Walking, request
<1>4. /\ lost' \in BOOLEAN /\ (lost => lost')
      /\ listing \in ApplicationListings /\ walk.offset > 0 => lost'
      /\ walk.cursor = x /\ Exists(x) /\ row # Gone /\ row.key # table[x].key => lost'
  BY <1>2, Zenon DEF Write
<1>5. table \in [Rows -> Row \cup {Unborn, Gone}]
  BY <1>1 DEF TypeOK
<1>6. /\ table' \in [Rows -> Row \cup {Unborn, Gone}]
      /\ table'[x] = row /\ row # Unborn
      /\ \A r : r # x => table'[r] = table[r]
  BY <1>2, <1>3, <1>5, PagingAssumption
<1>7. \A r : r # x => /\ (Listed(r)' <=> Listed(r)) /\ (Exists(r)' <=> Exists(r))
                      /\ Place(r)' = Place(r)
  BY <1>3, <1>6 DEF Listed, Exists, Place
<1>8. Steady' \in SUBSET Steady /\ x \notin Steady'
  BY <1>3 DEF Steady
<1>9. changes + 1 \in 0 .. MaxChanges
  BY <1>1, <1>3, PagingAssumption DEF TypeOK
<1>10. TypeOK'
  BY <1>1, <1>2, <1>3, <1>4, <1>6, <1>9 DEF TypeOK
<1>11. SteadyListed'
  <2>1. \A r \in Steady' : r # x /\ Listed(r)
    BY <1>1, <1>8 DEF SteadyListed
  <2>2. \A r \in Steady' : Listed(r)'
    BY <1>7, <2>1
  <2>3. QED
    BY <2>2 DEF SteadyListed
<1>12. Exists(x)' <=> row # Gone
  BY <1>6 DEF Exists
<1>13. walk.cursor = x => Exists(x) \/ table[x] = Gone
  BY <1>1, PagingAssumption DEF CursorInv, Exists
<1>14. table[x] = Gone => ~ Exists(x) /\ table[x] # Unborn
  BY PagingAssumption DEF Exists
<1>15. walk.cursor = x => Exists(x)
  BY <1>2, <1>13, <1>14
<1>16. CursorInv'
  <2> SUFFICES ASSUME walk.cursor # NoCursor
               PROVE  /\ table'[walk.cursor] # Unborn
                      /\ listing \notin DeadLetterListings => table'[walk.cursor] # Gone
                      /\ listing = "ngoDonors" => Listed(walk.cursor)'
    BY <1>3 DEF CursorInv
  <2>1. CASE walk.cursor # x
    <3>1. table'[walk.cursor] = table[walk.cursor]
      BY <1>6, <2>1
    <3>2. Listed(walk.cursor)' <=> Listed(walk.cursor)
      BY <1>3, <3>1 DEF Listed, Exists
    <3>3. QED
      BY <1>1, <1>4, <3>1, <3>2 DEF CursorInv
  <2>2. CASE walk.cursor = x
    <3>1. table'[walk.cursor] = row /\ Exists(x)
      BY <1>6, <1>15, <2>2
    <3>2. Listed(walk.cursor)' <=> Listed(x)'
      BY <1>3, <2>2 DEF Listed, Exists
    <3>3. listing = "ngoDonors" => Listed(x)'
      <4> SUFFICES ASSUME listing = "ngoDonors" PROVE Listed(x)'
        OBVIOUS
      <4>1. table[x].flag
        BY <1>1, <2>2 DEF CursorInv, Listed
      <4>2. row # Gone /\ row.flag
        BY <1>2, <3>1, <4>1
      <4>3. QED
        BY <1>3, <1>6, <1>12, <4>2 DEF Listed
    <3>4. QED
      BY <1>2, <1>4, <1>6, <2>2, <3>1, <3>2, <3>3
  <2>3. QED
    BY <2>1, <2>2
(* Where the row of the cursor is, if it is still there.                   *)
<1>17. ASSUME walk.cursor # NoCursor, Exists(walk.cursor)',
              ~ lost' \/ listing \in DeadLetterListings
       PROVE  Exists(walk.cursor) /\ Place(walk.cursor)' = Place(walk.cursor)
  <2>1. CASE walk.cursor # x
    <3>1. table'[walk.cursor] = table[walk.cursor]
      BY <1>6, <2>1
    <3>2. QED
      BY <1>3, <1>17, <3>1 DEF Exists, Place
  <2>2. CASE walk.cursor = x
    <3>1. Exists(x) /\ table'[x] = row
      BY <1>6, <1>15, <2>2
    <3>2. row # Gone
      BY <1>3, <1>17, <2>2, <3>1 DEF Exists
    <3>3. row.key = table[x].key
      BY <1>2, <1>4, <1>17, <2>2, <3>1, <3>2
    <3>4. QED
      BY <1>3, <2>2, <3>1, <3>3 DEF Place
  <2>3. QED
    BY <2>1, <2>2
<1>18. MarkInv'
  <2> SUFFICES ASSUME walk.at = "rows"
               PROVE  /\ listing \in DeadLetterListings
                      /\ walk.cursor # NoCursor => \E m \in Places :
                           walk.mark = {m} /\ (Exists(walk.cursor)' => m = Place(walk.cursor)')
    BY <1>3 DEF MarkInv
  <2>1. listing \in DeadLetterListings
    BY <1>1 DEF MarkInv
  <2>2. ASSUME walk.cursor # NoCursor
        PROVE  \E m \in Places :
                 walk.mark = {m} /\ (Exists(walk.cursor)' => m = Place(walk.cursor)')
    <3>1. PICK m \in Places :
            walk.mark = {m} /\ (Exists(walk.cursor) => m = Place(walk.cursor))
      BY <1>1, <2>2 DEF MarkInv
    <3>2. Exists(walk.cursor)' => m = Place(walk.cursor)'
      BY <1>17, <2>1, <2>2, <3>1
    <3>3. QED
      BY <3>1, <3>2
  <2>3. QED
    BY <2>1, <2>2
<1>19. ASSUME NEW r \in Steady'
       PROVE  r \in Steady /\ r # x /\ Place(r)' = Place(r)
  BY <1>7, <1>8
<1>20. \A p, q : Precedes(p, q)' <=> Precedes(p, q)
  BY <1>3 DEF Precedes
<1>21. MarkReturned'
  <2> SUFFICES ASSUME ~ lost', walk.at = "rows", NEW r \in Steady'
               PROVE  returned'[r] = IF UpToMark(r, walk.mark)' THEN 1 ELSE 0
    BY <1>3 DEF MarkReturned, ReturnedUpTo
  <2>1. ~ lost /\ r \in Steady /\ Place(r)' = Place(r)
    BY <1>4, <1>19
  <2>2. UpToMark(r, walk.mark)' <=> UpToMark(r, walk.mark)
    BY <1>3, <1>20, <2>1 DEF UpToMark
  <2>3. QED
    BY <1>1, <1>3, <2>1, <2>2 DEF MarkReturned, ReturnedUpTo
<1>22. PrefixReturned'
  <2> SUFFICES ASSUME ~ lost', walk.cursor = NoCursor \/ Exists(walk.cursor)',
                      NEW r \in Steady'
               PROVE  returned'[r] = IF Passed(r)' THEN 1 ELSE 0
    BY <1>3 DEF PrefixReturned
  <2>1. ~ lost /\ r \in Steady /\ Place(r)' = Place(r)
    BY <1>4, <1>19
  <2>2. \/ walk.cursor = NoCursor
        \/ Exists(walk.cursor) /\ Place(walk.cursor)' = Place(walk.cursor)
    <3>1. CASE walk.cursor = NoCursor
      BY <3>1
    <3>2. CASE walk.cursor # NoCursor
      <4>1. walk.cursor # NoCursor /\ Exists(walk.cursor)' /\ ~ lost'
        BY <1>3, <3>2
      <4>2. QED
        BY <1>17, <4>1
    <3>3. QED
      BY <3>1, <3>2
  <2>3. returned[r] = IF Passed(r) THEN 1 ELSE 0
    BY <1>1, <1>3, <2>1, <2>2 DEF PrefixReturned
  <2>4. CASE listing \in ApplicationListings
    <3>1. walk.offset \in Nat /\ ~ (walk.offset > 0)
      BY <1>1, <1>4, <2>4 DEF TypeOK
    <3>2. walk.offset = 0
      BY <3>1
    <3>3. \A S \in SUBSET Rows : Cardinality(S) \in Nat
      BY PagingAssumption, FS_Subset, FS_CardinalityType
    <3>4. /\ {s \in Rows : Listed(s) /\ Before(s, r)} \in SUBSET Rows
          /\ {s \in Rows : Listed(s) /\ Before(s, r)}' \in SUBSET Rows
      OBVIOUS
    <3>5. ~ Passed(r)
      BY <2>4, <3>2, <3>3, <3>4 DEF Passed
    <3>6. ~ Passed(r)'
      BY <1>3, <2>4, <3>2, <3>3, <3>4 DEF Passed
    <3>7. QED
      BY <1>3, <2>3, <3>5, <3>6
  <2>5. CASE listing \notin ApplicationListings
    <3>1. Passed(r)' <=> Passed(r)
      <4>1. Before(r, walk.cursor)' <=> Precedes(Place(r)', Place(walk.cursor)')
        BY <1>20 DEF Before
      <4>2. CASE walk.cursor = NoCursor
        BY <1>3, <2>5, <4>2 DEF Passed
      <4>3. CASE Place(walk.cursor)' = Place(walk.cursor)
        BY <1>3, <2>1, <2>5, <4>1, <4>3 DEF Passed, Before
      <4>4. QED
        BY <2>2, <4>2, <4>3
    <3>2. QED
      BY <1>3, <2>3, <3>1
  <2>6. QED
    BY <2>4, <2>5
<1>23. NothingMissed'
  BY <1>3 DEF NothingMissed
<1>24. QED
  BY <1>10, <1>11, <1>16, <1>18, <1>21, <1>22, <1>23 DEF IInv

(* Rows that tie change places: those that do are not steady any more.     *)
LEMMA ReorderStep ==
  ASSUME IInv, Reorder
  PROVE  IInv'
<1> DEFINE moved == {r \in Rows : \E s \in Rows : Swapped(r, s) \/ Swapped(s, r)}
<1>1. /\ TypeOK /\ SteadyListed /\ CursorInv /\ MarkInv
      /\ PrefixReturned /\ MarkReturned /\ NothingMissed
  BY DEF IInv
<1>2. /\ walk.at # "done" /\ listing \in AdminListings /\ changes < MaxChanges
      /\ listing' = listing /\ limit' = limit /\ table' = table /\ walk' = walk
      /\ returned' = returned /\ early' = early /\ lost' = lost
      /\ tie' \in Orders /\ touched' = touched \cup moved /\ changes' = changes + 1
  BY DEF Reorder, Walking, request
<1>3. listing \notin DeadLetterListings /\ listing \notin ApplicationListings
  BY <1>2 DEF AdminListings, DeadLetterListings, ApplicationListings
<1>4. changes + 1 \in 0 .. MaxChanges
  BY <1>1, <1>2, PagingAssumption DEF TypeOK
<1>5. moved \in SUBSET Rows
  OBVIOUS
<1>6. \A r, s \in Rows :
        Exists(r) /\ Exists(s) /\ r \notin moved => Before(r, s)' = Before(r, s)
  BY DEF Swapped
<1> HIDE DEF moved
<1>7. TypeOK'
  BY <1>1, <1>2, <1>4, <1>5 DEF TypeOK
<1>8. Steady' \in SUBSET Steady /\ \A r \in Steady' : r \notin moved
  BY <1>2 DEF Steady
<1>9. \A r : (Listed(r)' <=> Listed(r)) /\ (Exists(r)' <=> Exists(r))
  BY <1>2 DEF Listed, Exists
<1>10. SteadyListed'
  BY <1>1, <1>8, <1>9 DEF SteadyListed
<1>11. CursorInv'
  BY <1>1, <1>2, <1>9 DEF CursorInv, Listed, Exists
<1>12. walk.at # "rows"
  BY <1>1, <1>3 DEF MarkInv
<1>13. MarkInv' /\ MarkReturned' /\ NothingMissed'
  BY <1>2, <1>12 DEF MarkInv, MarkReturned, NothingMissed
<1>14. PrefixReturned'
  <2> SUFFICES ASSUME ~ lost', walk.cursor = NoCursor \/ Exists(walk.cursor),
                      NEW r \in Steady'
               PROVE  returned'[r] = IF Passed(r)' THEN 1 ELSE 0
    BY <1>2, <1>9 DEF PrefixReturned, Exists
  <2>1. ~ lost /\ r \in Steady /\ r \in Rows /\ Exists(r) /\ r \notin moved
    BY <1>1, <1>2, <1>8 DEF Steady, TypeOK, SteadyListed, Listed
  <2>2. returned[r] = IF Passed(r) THEN 1 ELSE 0
    BY <1>1, <1>2, <2>1 DEF PrefixReturned
  <2>3. Passed(r)' <=> Passed(r)
    <3>1. CASE walk.cursor = NoCursor
      BY <1>2, <1>3, <3>1 DEF Passed
    <3>2. CASE walk.cursor # NoCursor
      <4>1. walk.cursor \in Rows /\ Exists(walk.cursor)
        BY <1>1, <3>2 DEF TypeOK
      <4>2. Before(r, walk.cursor)' <=> Before(r, walk.cursor)
        <5>1. \A s \in Rows : Exists(s) => Before(r, s)' = Before(r, s)
          BY <1>6, <2>1
        <5>2. QED
          BY <1>2, <4>1, <5>1 DEF Before, Place
      <4>3. QED
        BY <1>2, <1>3, <3>2, <4>2 DEF Passed
    <3>3. QED
      BY <3>1, <3>2
  <2>4. QED
    BY <1>2, <2>2, <2>3
<1>15. QED
  BY <1>7, <1>10, <1>11, <1>13, <1>14 DEF IInv

----------------------------------------------------------------------------
(* Theorems.                                                               *)

LEMMA InitInv == Init => IInv
<1> SUFFICES ASSUME Init PROVE IInv
  OBVIOUS
<1>1. /\ listing \in Listings /\ limit \in Limits
      /\ table \in [Rows -> Row \cup {Unborn}]
      /\ tie = [r \in Rows |-> r]
      /\ walk = [at |-> "page", cursor |-> NoCursor, offset |-> 0, mark |-> {},
                 page |-> {}]
      /\ returned = [r \in Rows |-> 0]
      /\ early = {r \in Rows : Listed(r)}
      /\ touched = {} /\ lost = FALSE /\ changes = 0
  BY DEF Init
<1>2. /\ walk \in [at : WalkStates, cursor : Rows \cup {NoCursor},
                   offset : Nat, mark : SUBSET [key : Keys, id : Rows],
                   page : SUBSET Rows]
      /\ walk.at = "page" /\ walk.cursor = NoCursor /\ walk.offset = 0
      /\ walk.page = {} /\ walk.mark = {}
  BY <1>1 DEF WalkStates
<1>3. limit \in Nat \ {0} /\ Cardinality({}) = 0
  BY <1>1, PagingAssumption, FS_EmptySet
<1>4. TypeOK
  <2>1. lost \in BOOLEAN
    BY <1>1
  <2>2. changes \in 0 .. MaxChanges
    BY <1>1, PagingAssumption
  <2>3. returned \in [Rows -> 0 .. 2] /\ table \in [Rows -> Row \cup {Unborn, Gone}]
    BY <1>1
  <2>4. Cardinality(walk.page) <= limit /\ Cardinality(walk.mark) <= 1
    BY <1>2, <1>3
  <2>5. early \in SUBSET Rows /\ touched \in SUBSET Rows
    BY <1>1
  <2>6. tie \in Orders
    BY <1>1 DEF Orders, Injection, IsInjective
  <2>7. QED
    BY <1>1, <1>2, <2>1, <2>2, <2>3, <2>4, <2>5, <2>6 DEF TypeOK, WalkStates
<1>5. SteadyListed
  BY <1>1 DEF SteadyListed, Steady
<1>6. CursorInv /\ MarkInv /\ MarkReturned /\ NothingMissed
  BY <1>2 DEF CursorInv, MarkInv, MarkReturned, NothingMissed
<1>7. PrefixReturned
  <2> SUFFICES ASSUME NEW r \in Steady PROVE returned[r] = IF Passed(r) THEN 1 ELSE 0
    BY DEF PrefixReturned
  <2>1. r \in Rows /\ returned[r] = 0
    BY <1>1 DEF Steady
  <2>2. Cardinality({s \in Rows : Listed(s) /\ Before(s, r)}) \in Nat
    <3>1. {s \in Rows : Listed(s) /\ Before(s, r)} \in SUBSET Rows
      OBVIOUS
    <3>2. QED
      BY <3>1, PagingAssumption, FS_Subset, FS_CardinalityType
  <2>3. ~ Passed(r)
    BY <1>2, <2>2 DEF Passed
  <2>4. QED
    BY <2>1, <2>3
<1>8. QED
  BY <1>4, <1>5, <1>6, <1>7 DEF IInv

LEMMA NextInv == IInv /\ [Next]_vars => IInv'
<1> SUFFICES ASSUME IInv, [Next]_vars PROVE IInv'
  OBVIOUS
<1>1. CASE UNCHANGED vars
  <2>1. UNCHANGED <<listing, limit, table, tie, walk, returned, early, touched, lost, changes>>
    BY <1>1 DEF vars, request, history
  <2>2. /\ TypeOK' /\ SteadyListed' /\ CursorInv' /\ MarkInv'
    BY <2>1 DEF IInv, TypeOK, SteadyListed, CursorInv, MarkInv, Steady, Listed, Exists, Place
  <2>3. /\ Steady' = Steady
        /\ \A r : (Exists(r)' <=> Exists(r)) /\ Place(r)' = Place(r)
        /\ \A p, q : Precedes(p, q)' <=> Precedes(p, q)
        /\ \A r : {s \in Rows : Listed(s) /\ Before(s, r)}'
                  = {s \in Rows : Listed(s) /\ Before(s, r)}
    BY <2>1 DEF Steady, Listed, Exists, Place, Before, Precedes
  <2>4. \A r : Passed(r)' <=> Passed(r)
    BY <2>1, <2>3 DEF Passed, Before, Place
  <2>5. PrefixReturned'
    BY <2>1, <2>3, <2>4 DEF IInv, PrefixReturned, Exists
  <2>6. \A r : UpToMark(r, walk.mark)' <=> UpToMark(r, walk.mark)
    BY <2>1, <2>3 DEF UpToMark
  <2>7. MarkReturned' /\ NothingMissed'
    BY <2>1, <2>3, <2>6 DEF IInv, MarkReturned, NothingMissed, ReturnedUpTo
  <2>8. QED
    BY <2>2, <2>5, <2>7 DEF IInv
<1>2. CASE Step
  BY <1>2, ListNgosStep, ListAllNgosStep, FindCursorStep, ReadRowsStep,
     OffsetStep, RefuseStep DEF Step
<1>3. CASE Insert \/ Flip \/ Rekey \/ Prune
  BY <1>3, WriteStep
<1>4. CASE Reorder
  BY <1>4, ReorderStep
<1>5. QED
  BY <1>1, <1>2, <1>3, <1>4 DEF Next

(* The invariant of a walk.                                                *)
THEOREM Invariance == Spec => []IInv
BY InitInv, NextInv, PTL DEF Spec

(* Every variable has its type, and a page has limit rows at most: the     *)
(* rows a route takes, limit + 1, are cut to limit.                        *)
THEOREM TypeCorrect == Spec => []TypeOK
<1>1. IInv => TypeOK
  BY DEF IInv
<1>2. QED
  BY Invariance, <1>1, PTL

(* In the middle of a walk the steady rows up to the cursor have been      *)
(* returned once, and none after it.                                       *)
THEOREM PrefixOnce == Spec => []PrefixReturned
<1>1. IInv => PrefixReturned
  BY DEF IInv
<1>2. QED
  BY Invariance, <1>1, PTL

(* A walk that came to its end has returned every steady row once, unless  *)
(* what it hangs on was written between two pages.                         *)
THEOREM WalkComplete == Spec => []NothingMissed
<1>1. IInv => NothingMissed
  BY DEF IInv
<1>2. QED
  BY Invariance, <1>1, PTL
=============================================================================
