-------------------------- MODULE StatisticsProofs --------------------------
(***************************************************************************)
(* Proofs about the totals of the module Statistics: the groups add up,    *)
(* the shares are bounded, and what falls falls by a cancel, for every set *)
(* of streams and however they are grouped.                                *)
(***************************************************************************)
EXTENDS Statistics, Induction

----------------------------------------------------------------------------
(* Arithmetic.                                                             *)

LEMMA Quotient ==
  ASSUME NEW n \in Nat, NEW b \in Nat, b > 0
  PROVE  n \div b \in Nat /\ (n \div b) * b <= n /\ n < (n \div b) * b + b
OBVIOUS

LEMMA ProductMono ==
  ASSUME NEW a \in Nat, NEW b \in Nat, NEW k \in Nat, a <= b
  PROVE  a * k \in Nat /\ b * k \in Nat /\ a * k <= b * k
OBVIOUS

(* A number is at most another when so are their products with a third.    *)
LEMMA ProductCancel ==
  ASSUME NEW a \in Int, NEW b \in Int, NEW k \in Nat, k > 0, a * k < b * k + k
  PROVE  a <= b
<1> SUFFICES ASSUME a >= b + 1 PROVE FALSE
  OBVIOUS
<1>1. a * k = (b + 1) * k + (a - b - 1) * k
  OBVIOUS
<1>2. (a - b - 1) * k >= 0
  OBVIOUS
<1>3. (b + 1) * k = b * k + k
  OBVIOUS
<1>4. QED
  BY <1>1, <1>2, <1>3

LEMMA MaxWithZero ==
  ASSUME NEW i \in Int
  PROVE  Max({0, i}) = IF i >= 0 THEN i ELSE 0
<1>1. \E x \in {0, i} : \A y \in {0, i} : x >= y
  OBVIOUS
<1>2. Max({0, i}) \in {0, i} /\ \A y \in {0, i} : Max({0, i}) >= y
  BY <1>1 DEF Max
<1>3. QED
  BY <1>2

(* What a share is, and that a part has at most 100 %.                     *)
LEMMA ShareIs ==
  ASSUME NEW a \in Nat, NEW b \in Nat, b > 0
  PROVE  /\ Share(a, b) \in Nat
         /\ Share(a, b) * b <= a * (100 * Scale)
         /\ a * (100 * Scale) < Share(a, b) * b + b
<1>1. a * 100 * Scale \in Nat /\ a * 100 * Scale = a * (100 * Scale)
  BY StatisticsAssumption
<1>2. Share(a, b) = (a * 100 * Scale) \div b
  BY DEF Share
<1>3. QED
  BY <1>1, <1>2, Quotient

LEMMA ShareOfPart ==
  ASSUME NEW a \in Nat, NEW b \in Nat, a <= b
  PROVE  Share(a, b) <= 100 * Scale
<1> DEFINE K == 100 * Scale
<1>1. K \in Nat
  BY StatisticsAssumption
<1>2. CASE b = 0
  BY <1>1, <1>2 DEF Share
<1>3. CASE b > 0
  <2>1. Share(a, b) \in Nat /\ Share(a, b) * b <= a * K
    BY <1>3, ShareIs
  <2> HIDE DEF K
  <2>2. a * K <= b * K /\ b * K = K * b
    BY <1>1, ProductMono
  <2>3. Share(a, b) * b \in Nat /\ a * K \in Nat /\ K * b \in Nat
    BY <1>1, <2>1
  <2>4. Share(a, b) * b < K * b + b
    BY <1>3, <2>1, <2>2, <2>3
  <2>5. Share(a, b) <= K
    BY <1>1, <1>3, <2>1, <2>4, ProductCancel
  <2>6. QED
    BY <2>5 DEF K
<1>4. QED
  BY <1>2, <1>3

----------------------------------------------------------------------------
(* More about sums.                                                        *)

LEMMA SumScale ==
  ASSUME NEW S, IsFiniteSet(S), NEW f, \A x \in S : f[x] \in Int,
         NEW k \in Int, NEW h, \A x \in S : h[x] = f[x] * k
  PROVE  Sum(h, S) = Sum(f, S) * k
<1> DEFINE Good == {T \in SUBSET S : Sum(h, T) = Sum(f, T) * k}
<1>1. {} \in Good
  BY SumEmpty
<1>2. ASSUME NEW T \in SUBSET S, NEW x \in S \ T, T \in Good
      PROVE  T \cup {x} \in Good
  <2>1. IsFiniteSet(T)
    BY FS_Subset
  <2>2. h[x] \in Int /\ \A y \in T : h[y] \in Int
    OBVIOUS
  <2>3. /\ Sum(f, T \cup {x}) = Sum(f, T) + f[x]
        /\ Sum(h, T \cup {x}) = Sum(h, T) + h[x]
    BY <2>1, <2>2, SumAdd
  <2>4. Sum(f, T) \in Int /\ Sum(h, T) = Sum(f, T) * k
    BY <1>2, SumInt
  <2>5. \A i, j \in Int : (i + j) * k = i * k + j * k
    OBVIOUS
  <2>6. (Sum(f, T) + f[x]) * k = Sum(f, T) * k + f[x] * k
    BY <2>4, <2>5
  <2>7. QED
    BY <2>3, <2>4, <2>6
<1> HIDE DEF Good
<1>3. S \in Good
  BY <1>1, <1>2, SubsetInduction
<1>4. QED
  BY <1>3 DEF Good

(* To count is to add ones.                                                *)
LEMMA CountIsSum ==
  ASSUME NEW S, IsFiniteSet(S), NEW f, \A x \in S : f[x] \in {0, 1}
  PROVE  Sum(f, S) = Cardinality({x \in S : f[x] = 1})
<1> DEFINE Ones(T) == {x \in T : f[x] = 1}
           Good == {T \in SUBSET S : Sum(f, T) = Cardinality(Ones(T))}
<1>1. {} \in Good
  <2>1. Ones({}) = {}
    OBVIOUS
  <2>2. QED
    BY <2>1, SumEmpty, FS_EmptySet
<1>2. ASSUME NEW T \in SUBSET S, NEW x \in S \ T, T \in Good
      PROVE  T \cup {x} \in Good
  <2>1. IsFiniteSet(T) /\ Ones(T) \in SUBSET S /\ f[x] \in Int
    BY FS_Subset
  <2>2. IsFiniteSet(Ones(T)) /\ Cardinality(Ones(T)) \in Nat
    BY <2>1, FS_Subset, FS_CardinalityType
  <2>3. \A y \in T : f[y] \in Int
    OBVIOUS
  <2>4. Sum(f, T \cup {x}) = Sum(f, T) + f[x]
    BY <2>1, <2>3, SumAdd
  <2>5. CASE f[x] = 1
    <3>1. Ones(T \cup {x}) = Ones(T) \cup {x} /\ x \notin Ones(T)
      BY <2>5
    <3> HIDE DEF Ones
    <3>2. Cardinality(Ones(T \cup {x})) = Cardinality(Ones(T)) + 1
      BY <2>2, <3>1, FS_AddElement
    <3>3. QED
      BY <1>2, <2>4, <2>5, <3>2
  <2>6. CASE f[x] = 0
    <3>1. Ones(T \cup {x}) = Ones(T)
      BY <2>6
    <3> HIDE DEF Ones
    <3>2. QED
      BY <1>2, <2>2, <2>4, <2>6, <3>1
  <2>7. QED
    BY <2>5, <2>6
<1> HIDE DEF Good
<1>3. S \in Good
  BY <1>1, <1>2, SubsetInduction
<1>4. QED
  BY <1>3 DEF Good

(* A sum of equal terms.                                                   *)
LEMMA SumConstant ==
  ASSUME NEW S, IsFiniteSet(S), NEW k \in Int
  PROVE  Cardinality(S) \in Nat /\ Sum([x \in S |-> k], S) = Cardinality(S) * k
<1> DEFINE one == [x \in S |-> 1]
           all == [x \in S |-> k]
<1>1. \A x \in S : one[x] \in {0, 1} /\ one[x] \in Int /\ all[x] = one[x] * k
  OBVIOUS
<1>2. {x \in S : one[x] = 1} = S
  OBVIOUS
<1> HIDE DEF one, all
<1>3. Sum(one, S) = Cardinality(S)
  BY <1>1, <1>2, CountIsSum
<1>4. Sum(all, S) = Sum(one, S) * k
  BY <1>1, SumScale
<1>5. QED
  BY <1>3, <1>4, FS_CardinalityType DEF all

(* The image of a finite set under a function is finite.                   *)
LEMMA ImageFinite ==
  ASSUME NEW S, IsFiniteSet(S), NEW f
  PROVE  IsFiniteSet({f[x] : x \in S})
<1> DEFINE T == {f[x] : x \in S}
           F == [x \in S |-> f[x]]
<1>1. F \in Surjection(S, T)
  BY DEF Surjection
<1>2. QED
  BY <1>1, FS_Surjection

(* Two sets that a one-to-one function relates have as many members.       *)
LEMMA SameCount ==
  ASSUME NEW S, IsFiniteSet(S), NEW f,
         \A x, y \in S : f[x] = f[y] => x = y
  PROVE  Cardinality({f[x] : x \in S}) = Cardinality(S)
<1> DEFINE T == {f[x] : x \in S}
           F == [x \in S |-> f[x]]
<1>1. F \in Surjection(S, T)
  BY DEF Surjection
<1>2. F \in Injection(S, T)
  BY DEF Injection, IsInjective
<1>3. QED
  BY <1>1, <1>2, FS_Surjection

----------------------------------------------------------------------------
(* Totals as sums over all streams: no row counts as nothing.              *)

Tables == [Streams -> StreamRow \cup {Absent}]
RowsIn(st) == {s \in Streams : st[s] # Absent}
Worth(st, s) ==
  IF st[s].status = "CANCELLED" THEN st[s].withdrawn
  ELSE st[s].balance + st[s].withdrawn
WorthIn(st) == [s \in Streams |-> IF st[s] = Absent THEN 0 ELSE Worth(st, s)]
PaidIn(st) == [s \in Streams |-> IF st[s] = Absent THEN 0 ELSE st[s].withdrawn]
WorthOf(st, S) == Sum([s \in RowsIn(st) |-> Worth(st, s)], S)
PaidOf(st, S) == Sum([s \in RowsIn(st) |-> st[s].withdrawn], S)

LEMMA RowFields ==
  ASSUME NEW st \in Tables, NEW s \in Streams, st[s] # Absent
  PROVE  /\ st[s] \in StreamRow
         /\ st[s].status \in {"ACTIVE", "CANCELLED"}
         /\ st[s].balance \in Nat /\ st[s].withdrawn \in Nat
         /\ Worth(st, s) \in Nat
<1>1. st[s] \in StreamRow
  BY DEF Tables
<1>2. /\ st[s].status \in {"ACTIVE", "CANCELLED"}
      /\ st[s].balance \in Nat /\ st[s].withdrawn \in Nat
  BY <1>1 DEF StreamRow
<1>3. QED
  BY <1>1, <1>2 DEF Worth

LEMMA WorthIsNat ==
  ASSUME NEW st \in Tables
  PROVE  \A s \in Streams : WorthIn(st)[s] \in Nat /\ PaidIn(st)[s] \in Nat
BY RowFields DEF WorthIn, PaidIn

(* A function that is nothing outside a set sums to what it does there.    *)
LEMMA SumWithin ==
  ASSUME NEW T \in SUBSET Streams, NEW R \in SUBSET Streams,
         NEW g \in [Streams -> Int], NEW f \in [R -> Int],
         g = [s \in Streams |-> IF s \in R THEN f[s] ELSE 0]
  PROVE  Sum(f, R \cap T) = Sum(g, T)
<1>a. /\ \A s \in Streams : g[s] \in Int
      /\ \A s \in R : f[s] = g[s]
      /\ \A s \in Streams \ R : g[s] = 0
  OBVIOUS
<1>1. IsFiniteSet(T) /\ R \cap T \in SUBSET T
  BY StatisticsAssumption, FS_Subset
<1>2. IsFiniteSet(R \cap T) /\ IsFiniteSet(T \ (R \cap T))
  BY <1>1, FS_Subset, T \ (R \cap T) \in SUBSET T
<1>3. Sum(g, T) = Sum(g, R \cap T) + Sum(g, T \ (R \cap T))
  BY <1>a, <1>1, SumSplit
<1>4. Sum(g, T \ (R \cap T)) = 0
  BY <1>a, <1>2, SumZero
<1>5. Sum(g, R \cap T) = Sum(f, R \cap T)
  BY <1>a, <1>2, SumSame
<1>6. Sum(g, R \cap T) \in Int
  BY <1>a, <1>2, SumUnfold
<1>7. QED
  BY <1>3, <1>4, <1>5, <1>6

LEMMA TotalsWithin ==
  ASSUME NEW st \in Tables, NEW T \in SUBSET Streams
  PROVE  /\ WorthOf(st, RowsIn(st) \cap T) = Sum(WorthIn(st), T)
         /\ PaidOf(st, RowsIn(st) \cap T) = Sum(PaidIn(st), T)
         /\ Sum(WorthIn(st), T) \in Nat /\ Sum(PaidIn(st), T) \in Nat
<1> DEFINE R == RowsIn(st)
           w == [s \in R |-> Worth(st, s)]
           p == [s \in R |-> st[s].withdrawn]
<1>1. IsFiniteSet(T)
  BY StatisticsAssumption, FS_Subset
<1>2. \A s \in Streams : /\ WorthIn(st)[s] \in Nat /\ PaidIn(st)[s] \in Nat
                         /\ WorthIn(st)[s] \in Int /\ PaidIn(st)[s] \in Int
  BY WorthIsNat
<1>3. R \in SUBSET Streams
  BY DEF RowsIn
<1>4. /\ \A s \in R : w[s] = WorthIn(st)[s] /\ p[s] = PaidIn(st)[s]
      /\ \A s \in Streams \ R : WorthIn(st)[s] = 0 /\ PaidIn(st)[s] = 0
  BY DEF RowsIn, WorthIn, PaidIn
<1>5. WorthOf(st, R \cap T) = Sum(w, R \cap T) /\ PaidOf(st, R \cap T) = Sum(p, R \cap T)
  BY DEF WorthOf, PaidOf
<1> HIDE DEF R, w, p
<1>6. Sum(w, R \cap T) = Sum(WorthIn(st), T)
  <2>1. WorthIn(st) \in [Streams -> Int] /\ w \in [R -> Int]
    BY <1>2, <1>3, <1>4 DEF WorthIn, w
  <2>2. WorthIn(st) = [s \in Streams |-> IF s \in R THEN w[s] ELSE 0]
    BY <1>4 DEF WorthIn
  <2>3. QED
    BY <1>3, <2>1, <2>2, SumWithin
<1>7. Sum(p, R \cap T) = Sum(PaidIn(st), T)
  <2>1. PaidIn(st) \in [Streams -> Int] /\ p \in [R -> Int]
    BY <1>2, <1>3, <1>4 DEF PaidIn, p
  <2>2. PaidIn(st) = [s \in Streams |-> IF s \in R THEN p[s] ELSE 0]
    BY <1>4 DEF PaidIn
  <2>3. QED
    BY <1>3, <2>1, <2>2, SumWithin
<1>8. Sum(WorthIn(st), T) \in Nat /\ Sum(PaidIn(st), T) \in Nat
  BY <1>1, <1>2, SumNat
<1>9. QED
  BY <1>5, <1>6, <1>7, <1>8 DEF R

(* The streams of an NGO and of a donor, and what the totals sum.          *)
StreamsOf(g) == {s \in Streams : NgoOf[s] = g}

LEMMA Reading ==
  /\ \A S : TotalCommitted(S) = WorthOf(stream, S) /\ TotalWithdrawn(S) = PaidOf(stream, S)
  /\ Rows = RowsIn(stream) \cap Streams
  /\ \A g : OfNgo(g) = RowsIn(stream) \cap StreamsOf(g) /\ OfNgo(g) \in SUBSET Rows
<1>1. Rows = RowsIn(stream)
  BY DEF Rows, RowsIn
<1>2. Committed = [s \in RowsIn(stream) |-> Worth(stream, s)]
      /\ Withdrawn = [s \in RowsIn(stream) |-> stream[s].withdrawn]
  BY <1>1 DEF Committed, Withdrawn, Worth
<1>3. \A S : TotalCommitted(S) = WorthOf(stream, S) /\ TotalWithdrawn(S) = PaidOf(stream, S)
  BY <1>2 DEF TotalCommitted, TotalWithdrawn, WorthOf, PaidOf, Sum
<1>4. \A g : OfNgo(g) = RowsIn(stream) \cap StreamsOf(g) /\ OfNgo(g) \in SUBSET Rows
  BY <1>1 DEF OfNgo, StreamsOf, RowsIn
<1>5. QED
  BY <1>1, <1>3, <1>4 DEF RowsIn

(* The same after a step.                                                  *)
LEMMA ReadingNext ==
  /\ \A S : /\ TotalCommitted(S)' = WorthOf(stream', S)
            /\ TotalWithdrawn(S)' = PaidOf(stream', S)
  /\ Rows' = RowsIn(stream') \cap Streams
  /\ \A g : OfNgo(g)' = RowsIn(stream') \cap StreamsOf(g)
<1>1. Rows' = RowsIn(stream')
  BY DEF Rows, RowsIn
<1>2. /\ Committed' = [s \in RowsIn(stream') |-> Worth(stream', s)]
      /\ Withdrawn' = [s \in RowsIn(stream') |-> stream'[s].withdrawn]
  BY <1>1 DEF Committed, Withdrawn, Worth
<1>3. \A S : /\ TotalCommitted(S)' = WorthOf(stream', S)
             /\ TotalWithdrawn(S)' = PaidOf(stream', S)
  BY <1>2 DEF TotalCommitted, TotalWithdrawn, WorthOf, PaidOf, Sum
<1>4. \A g : OfNgo(g)' = RowsIn(stream') \cap StreamsOf(g)
  BY <1>1 DEF OfNgo, StreamsOf, RowsIn
<1>5. QED
  BY <1>1, <1>3, <1>4 DEF RowsIn

LEMMA Totals ==
  ASSUME stream \in Tables
  PROVE  /\ TotalCommitted(Rows) = Sum(WorthIn(stream), Streams)
         /\ TotalWithdrawn(Rows) = Sum(PaidIn(stream), Streams)
         /\ TotalCommitted(Rows) \in Nat
         /\ \A g : /\ TotalCommitted(OfNgo(g)) = Sum(WorthIn(stream), StreamsOf(g))
                   /\ TotalWithdrawn(OfNgo(g)) = Sum(PaidIn(stream), StreamsOf(g))
                   /\ TotalCommitted(OfNgo(g)) \in Nat
<1>1. \A T \in SUBSET Streams :
        /\ WorthOf(stream, RowsIn(stream) \cap T) = Sum(WorthIn(stream), T)
        /\ PaidOf(stream, RowsIn(stream) \cap T) = Sum(PaidIn(stream), T)
        /\ Sum(WorthIn(stream), T) \in Nat
  BY TotalsWithin
<1>2. Streams \in SUBSET Streams /\ \A g : StreamsOf(g) \in SUBSET Streams
  BY DEF StreamsOf
<1>3. QED
  BY <1>1, <1>2, Reading

LEMMA TotalsNext ==
  ASSUME stream' \in Tables
  PROVE  /\ TotalCommitted(Rows)' = Sum(WorthIn(stream'), Streams)
         /\ \A g : /\ TotalCommitted(OfNgo(g))' = Sum(WorthIn(stream'), StreamsOf(g))
                   /\ TotalWithdrawn(OfNgo(g))' = Sum(PaidIn(stream'), StreamsOf(g))
<1>1. \A T \in SUBSET Streams :
        /\ WorthOf(stream', RowsIn(stream') \cap T) = Sum(WorthIn(stream'), T)
        /\ PaidOf(stream', RowsIn(stream') \cap T) = Sum(PaidIn(stream'), T)
  BY TotalsWithin
<1>2. Streams \in SUBSET Streams /\ \A g : StreamsOf(g) \in SUBSET Streams
  BY DEF StreamsOf
<1>3. TotalCommitted(Rows)' = WorthOf(stream', Rows')
  BY ReadingNext DEF TotalCommitted, WorthOf, Committed, Sum
<1>4. \A g : /\ TotalCommitted(OfNgo(g))' = WorthOf(stream', OfNgo(g)')
             /\ TotalWithdrawn(OfNgo(g))' = PaidOf(stream', OfNgo(g)')
  BY ReadingNext DEF TotalCommitted, WorthOf, Committed, TotalWithdrawn, PaidOf, Withdrawn, Sum
<1>5. QED
  BY <1>1, <1>2, <1>3, <1>4, ReadingNext

----------------------------------------------------------------------------
(* What holds in every state.                                              *)

(* A cancelled stream has no balance, the reason why impactService.ts may  *)
(* leave the status aside.                                                 *)
EmptyWhenCancelled ==
  \A s \in Rows : stream[s].status = "CANCELLED" => stream[s].balance = 0

(* While nothing was refunded, what was read of the NGO is covered by the  *)
(* platform.                                                               *)
ReadCovered ==
  ~refunded => /\ reader.at = "platform" => reader.committed <= TotalCommitted(Rows)
               /\ reader.at = "done" => reader.committed <= reader.platform

IInv == TypeOK /\ EmptyWhenCancelled /\ ReadCovered

(* What a write makes of a stream: its row x becomes y.                    *)
Pays(x, y) == (IF x = Absent THEN 0 ELSE x.withdrawn) <= y.withdrawn
WorthRow(x) ==
  IF x = Absent THEN 0
  ELSE IF x.status = "CANCELLED" THEN x.withdrawn ELSE x.balance + x.withdrawn
Cancels(x, y) == x # Absent /\ x.status = "ACTIVE" /\ y.status = "CANCELLED"
Writes(x, y, refunds) ==
  /\ y \in StreamRow
  /\ Pays(x, y)
  /\ WorthRow(x) <= WorthRow(y) \/ (Cancels(x, y) /\ refunds)
  /\ y.status = "CANCELLED" => y.balance = 0 \/ x = y

LEMMA RowExcept ==
  ASSUME NEW x \in StreamRow, NEW b, NEW a
  PROVE  [x EXCEPT !.balance = b, !.withdrawn = @ + a]
           = [status |-> x.status, balance |-> b, withdrawn |-> x.withdrawn + a]
<1> DEFINE w == x.withdrawn + a
           y == [x EXCEPT !.balance = b]
<1>1. x = [status |-> x.status, balance |-> x.balance, withdrawn |-> x.withdrawn]
  BY DEF StreamRow
<1>2. y = [status |-> x.status, balance |-> b, withdrawn |-> x.withdrawn]
  BY <1>1
<1>3. [x EXCEPT !.balance = b, !.withdrawn = @ + a] = [y EXCEPT !.withdrawn = w]
  OBVIOUS
<1> HIDE DEF y, w
<1>4. [y EXCEPT !.withdrawn = w] = [status |-> x.status, balance |-> b, withdrawn |-> w]
  BY <1>2
<1>5. QED
  BY <1>3, <1>4 DEF w

LEMMA CreatedWrites ==
  ASSUME TypeOK, Created
  PROVE  \E s \in Streams : \E row \in StreamRow :
           /\ stream' = [stream EXCEPT ![s] = row] /\ Writes(stream[s], row, refunded')
           /\ reader' = reader /\ refunded' = refunded /\ writes' \in 0 .. MaxWrites
<1>1. PICK s \in Streams, d \in Deposits :
        /\ Write(s, IF stream[s] # Absent THEN stream[s]
                    ELSE [status |-> "ACTIVE", balance |-> d, withdrawn |-> 0])
        /\ UNCHANGED refunded
  BY DEF Created
<1>2. /\ stream \in Tables /\ d \in Nat /\ Absent \notin StreamRow
      /\ writes \in 0 .. MaxWrites /\ MaxWrites \in Nat
  BY StatisticsAssumption DEF TypeOK, Tables
<1>3. reader' = reader /\ refunded' = refunded /\ writes' \in 0 .. MaxWrites
  BY <1>1, <1>2 DEF Write
<1>4. CASE stream[s] # Absent
  <2>1. stream' = [stream EXCEPT ![s] = stream[s]]
    BY <1>1, <1>4 DEF Write
  <2>2. /\ stream[s] \in StreamRow
        /\ stream[s].balance \in Nat /\ stream[s].withdrawn \in Nat
    BY <1>2, <1>4, RowFields
  <2>3. Writes(stream[s], stream[s], refunded')
    BY <1>4, <2>2 DEF Writes, Pays, WorthRow
  <2>4. QED
    BY <1>3, <2>1, <2>2, <2>3
<1>5. CASE stream[s] = Absent
  <2> DEFINE new == [status |-> "ACTIVE", balance |-> d, withdrawn |-> 0]
  <2>1. stream' = [stream EXCEPT ![s] = new]
    BY <1>1, <1>5 DEF Write
  <2>2. /\ new \in StreamRow /\ new.status = "ACTIVE"
        /\ new.balance = d /\ new.withdrawn = 0
    BY <1>2 DEF StreamRow
  <2> HIDE DEF new
  <2>3. new # Absent
    BY <1>2, <2>2
  <2>4. Writes(stream[s], new, refunded')
    BY <1>2, <1>5, <2>2, <2>3 DEF Writes, Pays, WorthRow
  <2>5. QED
    BY <1>3, <2>1, <2>2, <2>4
<1>6. QED
  BY <1>4, <1>5

LEMMA WithdrawWrites ==
  ASSUME TypeOK, Withdraw
  PROVE  \E s \in Streams : \E row \in StreamRow :
           /\ stream' = [stream EXCEPT ![s] = row] /\ Writes(stream[s], row, refunded')
           /\ reader' = reader /\ refunded' = refunded /\ writes' \in 0 .. MaxWrites
<1>1. PICK s \in Rows, a \in Amounts :
        /\ stream[s].status = "ACTIVE"
        /\ Write(s, [stream[s] EXCEPT !.balance = Max({0, @ - a}), !.withdrawn = @ + a])
        /\ UNCHANGED refunded
  BY DEF Withdraw
<1>2. /\ stream \in Tables /\ a \in Nat /\ Absent \notin StreamRow
      /\ writes \in 0 .. MaxWrites /\ MaxWrites \in Nat
      /\ s \in Streams /\ stream[s] # Absent
  BY StatisticsAssumption DEF TypeOK, Tables, Rows
<1>3. reader' = reader /\ refunded' = refunded /\ writes' \in 0 .. MaxWrites
  BY <1>1, <1>2 DEF Write
<1>4. /\ stream[s] \in StreamRow
      /\ stream[s].balance \in Nat /\ stream[s].withdrawn \in Nat
  BY <1>2, RowFields
<1> DEFINE b == Max({0, stream[s].balance - a})
           row == [status |-> "ACTIVE", balance |-> b, withdrawn |-> stream[s].withdrawn + a]
<1>5. b \in Nat /\ b + a >= stream[s].balance
  <2>1. stream[s].balance - a \in Int
    BY <1>2, <1>4
  <2>2. b = IF stream[s].balance - a >= 0 THEN stream[s].balance - a ELSE 0
    BY <2>1, MaxWithZero
  <2>3. QED
    BY <1>2, <1>4, <2>2
<1> HIDE DEF b
<1>6. [stream[s] EXCEPT !.balance = b, !.withdrawn = @ + a] = row
  BY <1>1, <1>4, RowExcept
<1>7. stream' = [stream EXCEPT ![s] = row]
  <2>1. stream' = [stream EXCEPT ![s] =
          [stream[s] EXCEPT !.balance = Max({0, @ - a}), !.withdrawn = @ + a]]
    BY <1>1 DEF Write
  <2>2. [stream[s] EXCEPT !.balance = Max({0, @ - a}), !.withdrawn = @ + a]
          = [stream[s] EXCEPT !.balance = b, !.withdrawn = @ + a]
    BY DEF b
  <2>3. QED
    BY <1>6, <2>1, <2>2
<1>8. /\ row \in StreamRow /\ row.status = "ACTIVE"
      /\ row.balance = b /\ row.withdrawn = stream[s].withdrawn + a
  BY <1>2, <1>4, <1>5 DEF StreamRow
<1> HIDE DEF row
<1>9. row # Absent
  BY <1>2, <1>8
<1>10. Writes(stream[s], row, refunded')
  BY <1>1, <1>2, <1>4, <1>5, <1>8, <1>9 DEF Writes, Pays, WorthRow
<1>11. QED
  BY <1>2, <1>3, <1>7, <1>8, <1>10

LEMMA CancelWrites ==
  ASSUME TypeOK, Cancel
  PROVE  \E s \in Streams : \E row \in StreamRow :
           /\ stream' = [stream EXCEPT ![s] = row] /\ Writes(stream[s], row, refunded')
           /\ reader' = reader /\ refunded' \in BOOLEAN /\ (refunded => refunded')
           /\ writes' \in 0 .. MaxWrites
<1>1. PICK s \in Rows, a \in Amounts :
        /\ stream[s].status = "ACTIVE"
        /\ Write(s, [status |-> "CANCELLED", balance |-> 0,
                     withdrawn |-> stream[s].withdrawn + a])
        /\ refunded' = (refunded \/ a < stream[s].balance)
  BY DEF Cancel
<1>2. /\ stream \in Tables /\ a \in Nat /\ Absent \notin StreamRow
      /\ writes \in 0 .. MaxWrites /\ MaxWrites \in Nat
      /\ s \in Streams /\ stream[s] # Absent /\ refunded \in BOOLEAN
  BY StatisticsAssumption DEF TypeOK, Tables, Rows
<1>3. /\ reader' = reader /\ writes' \in 0 .. MaxWrites
      /\ refunded' \in BOOLEAN /\ (refunded => refunded')
      /\ a < stream[s].balance => refunded'
  <2>1. reader' = reader /\ writes' \in 0 .. MaxWrites
    BY <1>1, <1>2 DEF Write
  <2>2. refunded' \in BOOLEAN /\ (refunded => refunded')
        /\ (a < stream[s].balance => refunded')
    BY <1>1, Zenon
  <2>3. QED
    BY <2>1, <2>2
<1>4. /\ stream[s] \in StreamRow
      /\ stream[s].balance \in Nat /\ stream[s].withdrawn \in Nat
  BY <1>2, RowFields
<1> DEFINE row == [status |-> "CANCELLED", balance |-> 0,
                   withdrawn |-> stream[s].withdrawn + a]
<1>5. stream' = [stream EXCEPT ![s] = row]
  BY <1>1 DEF Write
<1>6. /\ row \in StreamRow /\ row.status = "CANCELLED"
      /\ row.balance = 0 /\ row.withdrawn = stream[s].withdrawn + a
  BY <1>2, <1>4 DEF StreamRow
<1> HIDE DEF row
<1>7. row # Absent
  BY <1>2, <1>6
<1>8. a >= stream[s].balance \/ refunded'
  BY <1>2, <1>3, <1>4
<1>9. Pays(stream[s], row)
  BY <1>2, <1>4, <1>6 DEF Pays
<1>10. Cancels(stream[s], row)
  BY <1>1, <1>2, <1>6 DEF Cancels
<1>11. WorthRow(row) = stream[s].withdrawn + a
       /\ WorthRow(stream[s]) = stream[s].balance + stream[s].withdrawn
  BY <1>1, <1>2, <1>6, <1>7 DEF WorthRow
<1>12. WorthRow(stream[s]) <= WorthRow(row) \/ (Cancels(stream[s], row) /\ refunded')
  <2>1. CASE a >= stream[s].balance
    BY <1>2, <1>4, <1>11, <2>1
  <2>2. CASE refunded'
    BY <1>10, <2>2
  <2>3. QED
    BY <1>8, <2>1, <2>2
<1>13. Writes(stream[s], row, refunded')
  BY <1>6, <1>9, <1>12 DEF Writes
<1>14. QED
  BY <1>2, <1>3, <1>5, <1>6, <1>13

(* What the handlers have in common: paid amounts do not fall; what counts *)
(* as committed to a stream falls only when it is cancelled with a refund. *)
LEMMA HandlerStep ==
  ASSUME TypeOK, Created \/ Withdraw \/ Cancel
  PROVE  /\ stream' \in Tables /\ reader' = reader /\ writes' \in 0 .. MaxWrites
         /\ refunded' \in BOOLEAN /\ (refunded => refunded')
         /\ \A x \in Streams :
              /\ PaidIn(stream)[x] <= PaidIn(stream')[x]
              /\ \/ WorthIn(stream)[x] <= WorthIn(stream')[x]
                 \/ /\ stream[x] # Absent /\ stream[x].status = "ACTIVE"
                    /\ stream'[x].status = "CANCELLED" /\ refunded'
              /\ \/ stream'[x] = stream[x]
                 \/ stream'[x].status = "CANCELLED" => stream'[x].balance = 0
<1>1. PICK s \in Streams, row \in StreamRow :
        /\ stream' = [stream EXCEPT ![s] = row] /\ Writes(stream[s], row, refunded')
        /\ reader' = reader /\ refunded' \in BOOLEAN /\ (refunded => refunded')
        /\ writes' \in 0 .. MaxWrites
  <2>1. refunded \in BOOLEAN
    BY DEF TypeOK
  <2>2. CASE Created
    BY <2>1, <2>2, CreatedWrites
  <2>3. CASE Withdraw
    BY <2>1, <2>3, WithdrawWrites
  <2>4. CASE Cancel
    BY <2>4, CancelWrites
  <2>5. QED
    BY <2>2, <2>3, <2>4
<1>2. stream \in Tables /\ Absent \notin StreamRow
  BY StatisticsAssumption DEF TypeOK, Tables
<1>3. /\ stream' \in Tables /\ stream'[s] = row /\ row # Absent
      /\ \A x \in Streams \ {s} : stream'[x] = stream[x]
  BY <1>1, <1>2 DEF Tables
<1>4. \A x \in Streams : /\ PaidIn(stream)[x] \in Nat /\ WorthIn(stream)[x] \in Nat
                         /\ PaidIn(stream')[x] \in Nat /\ WorthIn(stream')[x] \in Nat
  BY <1>2, <1>3, WorthIsNat
<1>5. \A x \in Streams \ {s} :
        /\ PaidIn(stream')[x] = PaidIn(stream)[x]
        /\ WorthIn(stream')[x] = WorthIn(stream)[x]
  BY <1>3 DEF PaidIn, WorthIn, Worth
<1>6. /\ PaidIn(stream')[s] = row.withdrawn
      /\ PaidIn(stream)[s] = IF stream[s] = Absent THEN 0 ELSE stream[s].withdrawn
      /\ WorthIn(stream')[s] = WorthRow(row)
      /\ WorthIn(stream)[s] = WorthRow(stream[s])
  BY <1>3 DEF PaidIn, WorthIn, Worth, WorthRow
<1>7. PaidIn(stream)[s] <= PaidIn(stream')[s]
  BY <1>1, <1>6 DEF Writes, Pays
<1>8. \/ WorthIn(stream)[s] <= WorthIn(stream')[s]
      \/ /\ stream[s] # Absent /\ stream[s].status = "ACTIVE"
         /\ stream'[s].status = "CANCELLED" /\ refunded'
  BY <1>1, <1>3, <1>6 DEF Writes, Cancels
<1>9. \/ stream'[s] = stream[s]
      \/ stream'[s].status = "CANCELLED" => stream'[s].balance = 0
  BY <1>1, <1>3 DEF Writes
<1>10. ASSUME NEW x \in Streams \ {s}
       PROVE  /\ PaidIn(stream)[x] <= PaidIn(stream')[x]
              /\ WorthIn(stream)[x] <= WorthIn(stream')[x]
              /\ stream'[x] = stream[x]
  BY <1>3, <1>4, <1>5
<1>11. QED
  BY <1>1, <1>3, <1>7, <1>8, <1>9, <1>10

LEMMA ReaderStep ==
  ASSUME TypeOK, ReadNgo \/ ReadPlatform \/ Answered
  PROVE  /\ stream' = stream /\ writes' = writes /\ refunded' \in BOOLEAN
         /\ reader' \in [at : {"idle", "platform", "done"}, ngo : Ngos \cup {Absent},
                         committed : Nat, platform : Nat]
<1>1. stream \in Tables /\ refunded \in BOOLEAN
  BY DEF TypeOK, Tables
<1>2. TotalCommitted(Rows) \in Nat /\ \A g : TotalCommitted(OfNgo(g)) \in Nat
  BY <1>1, Totals
<1>3. CASE ReadNgo
  <2>1. PICK g \in Ngos : reader' = [at |-> "platform", ngo |-> g,
                             committed |-> TotalCommitted(OfNgo(g)), platform |-> 0]
    BY <1>3 DEF ReadNgo
  <2>2. TotalCommitted(OfNgo(g)) \in Nat
    BY <1>2
  <2>3. stream' = stream /\ writes' = writes /\ refunded' = FALSE
    BY <1>3 DEF ReadNgo
  <2>4. QED
    BY <2>1, <2>2, <2>3
<1>4. CASE ReadPlatform
  <2>1. reader' = [reader EXCEPT !.at = "done", !.platform = TotalCommitted(Rows)]
    BY <1>4 DEF ReadPlatform
  <2>2. stream' = stream /\ writes' = writes /\ refunded' = refunded
    BY <1>4 DEF ReadPlatform
  <2>3. QED
    BY <1>1, <1>2, <2>1, <2>2 DEF TypeOK
<1>5. CASE Answered
  BY <1>1, <1>5 DEF Answered, Idle
<1>6. QED
  BY <1>3, <1>4, <1>5

LEMMA InitInv == Init => IInv
<1> SUFFICES ASSUME Init PROVE IInv
  OBVIOUS
<1>1. TypeOK
  <2>1. stream \in [Streams -> StreamRow \cup {Absent}]
    BY DEF Init
  <2>2. /\ reader = [at |-> "idle", ngo |-> Absent, committed |-> 0, platform |-> 0]
        /\ refunded = FALSE /\ writes = 0
    BY DEF Init, Idle
  <2>3. reader \in [at : {"idle", "platform", "done"}, ngo : Ngos \cup {Absent},
                    committed : Nat, platform : Nat]
    BY <2>2
  <2>4. refunded \in BOOLEAN
    BY DEF Init
  <2>5. writes \in 0 .. MaxWrites
    BY <2>2, StatisticsAssumption
  <2>6. QED
    BY <2>1, <2>3, <2>4, <2>5 DEF TypeOK
<1>2. EmptyWhenCancelled
  BY DEF Init, EmptyWhenCancelled, Rows
<1>3. ReadCovered
  BY DEF Init, ReadCovered, Idle
<1>4. QED
  BY <1>1, <1>2, <1>3 DEF IInv

(* The sum over a part of the streams is at most that over all.            *)
LEMMA PartOfPlatform ==
  ASSUME TypeOK
  PROVE  \A g : TotalCommitted(OfNgo(g)) <= TotalCommitted(Rows)
<1> TAKE g
<1>1. stream \in Tables
  BY DEF TypeOK, Tables
<1> DEFINE w == WorthIn(stream)
<1>2. /\ \A s \in Streams : w[s] \in Int
      /\ \A T \in SUBSET Streams : Sum(w, T) \in Nat
  <2>1. \A s \in Streams : w[s] \in Nat
    BY <1>1, WorthIsNat
  <2>2. \A T \in SUBSET Streams : Sum(w, T) \in Nat
    BY <1>1, TotalsWithin
  <2>3. QED
    BY <2>1, <2>2
<1>3. StreamsOf(g) \in SUBSET Streams /\ Streams \ StreamsOf(g) \in SUBSET Streams
  BY DEF StreamsOf
<1> HIDE DEF w
<1>4. Sum(w, Streams) = Sum(w, StreamsOf(g)) + Sum(w, Streams \ StreamsOf(g))
  BY <1>2, <1>3, SumSplit, StatisticsAssumption
<1>5. Sum(w, StreamsOf(g)) \in Nat /\ Sum(w, Streams \ StreamsOf(g)) \in Nat
  BY <1>2, <1>3
<1>6. Sum(w, StreamsOf(g)) <= Sum(w, Streams)
  BY <1>4, <1>5
<1>7. QED
  BY <1>1, <1>6, Totals DEF w

LEMMA NextInv == IInv /\ [Next]_vars => IInv'
<1> SUFFICES ASSUME IInv, [Next]_vars PROVE IInv'
  OBVIOUS
<1>1. TypeOK /\ EmptyWhenCancelled /\ ReadCovered /\ stream \in Tables
  BY DEF IInv, TypeOK, Tables
<1>2. TotalCommitted(Rows) \in Nat /\ \A g : TotalCommitted(OfNgo(g)) \in Nat
  BY <1>1, Totals
<1>3. CASE UNCHANGED vars
  <2>1. UNCHANGED <<stream, reader, refunded, writes>>
    BY <1>3 DEF vars
  <2>2. TypeOK' /\ EmptyWhenCancelled'
    BY <1>1, <2>1 DEF TypeOK, EmptyWhenCancelled, Rows
  <2>3. ReadCovered'
    BY <1>1, <2>1 DEF ReadCovered, TotalCommitted, Committed, Rows
  <2>4. QED
    BY <2>2, <2>3 DEF IInv
<1>4. CASE ReadNgo \/ ReadPlatform \/ Answered
  <2>1. stream' = stream /\ TypeOK'
    BY <1>1, <1>4, ReaderStep DEF TypeOK
  <2>2. EmptyWhenCancelled'
    BY <1>1, <2>1 DEF EmptyWhenCancelled, Rows
  <2>3. TotalCommitted(Rows)' = TotalCommitted(Rows)
    BY <2>1 DEF TotalCommitted, Committed, Rows
  <2>4. CASE ReadNgo
    <3>1. PICK g \in Ngos : reader' = [at |-> "platform", ngo |-> g,
                               committed |-> TotalCommitted(OfNgo(g)), platform |-> 0]
      BY <2>4 DEF ReadNgo
    <3>2. reader'.at = "platform" /\ reader'.committed = TotalCommitted(OfNgo(g))
      BY <3>1
    <3>3. TotalCommitted(OfNgo(g)) <= TotalCommitted(Rows)
      BY <1>1, PartOfPlatform
    <3>4. ReadCovered'
      BY <2>3, <3>2, <3>3 DEF ReadCovered
    <3>5. QED
      BY <2>1, <2>2, <3>4 DEF IInv
  <2>5. CASE ReadPlatform
    <3>1. /\ reader.at = "platform" /\ refunded' = refunded
          /\ reader'.at = "done" /\ reader'.committed = reader.committed
          /\ reader'.platform = TotalCommitted(Rows)
      BY <1>1, <2>5 DEF ReadPlatform, TypeOK
    <3>2. ReadCovered'
      BY <1>1, <3>1 DEF ReadCovered
    <3>3. QED
      BY <2>1, <2>2, <3>2 DEF IInv
  <2>6. CASE Answered
    <3>1. reader'.at = "idle"
      BY <2>6 DEF Answered, Idle
    <3>2. ReadCovered'
      BY <3>1 DEF ReadCovered
    <3>3. QED
      BY <2>1, <2>2, <3>2 DEF IInv
  <2>7. QED
    BY <1>4, <2>4, <2>5, <2>6
<1>5. CASE Created \/ Withdraw \/ Cancel
  <2>1. /\ stream' \in Tables /\ reader' = reader /\ writes' \in 0 .. MaxWrites
        /\ refunded' \in BOOLEAN /\ (refunded => refunded')
        /\ \A x \in Streams :
             /\ \/ WorthIn(stream)[x] <= WorthIn(stream')[x]
                \/ refunded'
             /\ \/ stream'[x] = stream[x]
                \/ stream'[x].status = "CANCELLED" => stream'[x].balance = 0
    BY <1>1, <1>5, HandlerStep
  <2>2. TypeOK'
    BY <1>1, <2>1 DEF TypeOK, Tables
  <2>3. EmptyWhenCancelled'
    BY <1>1, <2>1 DEF EmptyWhenCancelled, Rows
  <2>4. ASSUME ~ refunded' PROVE TotalCommitted(Rows) <= TotalCommitted(Rows)'
    <3> DEFINE u == WorthIn(stream)
               v == WorthIn(stream')
    <3>1. \A x \in Streams : u[x] \in Int /\ v[x] \in Int
      BY <1>1, <2>1, WorthIsNat
    <3>2. \A x \in Streams : u[x] <= v[x]
      BY <2>1, <2>4
    <3>3. TotalCommitted(Rows) = Sum(u, Streams) /\ TotalCommitted(Rows)' = Sum(v, Streams)
      BY <1>1, <2>1, Totals, TotalsNext
    <3> HIDE DEF u, v
    <3>4. Sum(u, Streams) <= Sum(v, Streams)
      BY <3>1, <3>2, SumMono, StatisticsAssumption
    <3>5. QED
      BY <3>3, <3>4
  <2>5. ASSUME ~ refunded'
        PROVE  /\ reader.at = "platform" => reader.committed <= TotalCommitted(Rows)'
               /\ reader.at = "done" => reader.committed <= reader.platform
    <3>1. ~ refunded
      BY <2>1, <2>5
    <3>2. TotalCommitted(Rows)' \in Int
      <4>1. \A s \in Streams : WorthIn(stream')[s] \in Int
        BY <2>1, WorthIsNat
      <4>2. Sum(WorthIn(stream'), Streams) \in Int
        BY <4>1, SumUnfold, StatisticsAssumption
      <4>3. QED
        BY <2>1, <4>2, TotalsNext
    <3>3. reader.committed \in Nat
      BY <1>1 DEF TypeOK
    <3>4. \A i, j, k \in Int : i <= j /\ j <= k => i <= k
      OBVIOUS
    <3>5. QED
      BY <1>1, <1>2, <2>4, <2>5, <3>1, <3>2, <3>3, <3>4 DEF ReadCovered
  <2>6. ReadCovered'
    BY <2>1, <2>5 DEF ReadCovered
  <2>7. QED
    BY <2>2, <2>3, <2>6 DEF IInv
<1>6. QED
  BY <1>3, <1>4, <1>5 DEF Next

(* The invariant, and what follows of it step by step.                     *)
THEOREM Invariance == Spec => []IInv
BY InitInv, NextInv, PTL DEF Spec

(* Every variable has its type, and no amount that a route answers is      *)
(* negative (routes/impact.ts reads them with BigInt).                     *)
THEOREM TypeCorrect == Spec => []TypeOK
<1>1. IInv => TypeOK
  BY DEF IInv
<1>2. QED
  BY Invariance, <1>1, PTL

(* The share that GET /impact/:ngoId answers is at most 100 % unless a     *)
(* refund came between its two queries.                                    *)
THEOREM ShareWithinPlatform == Spec => []ShareBounded
<1>1. IInv => ShareBounded
  <2> SUFFICES ASSUME IInv, reader.at = "done", ~refunded
               PROVE  Share(reader.committed, reader.platform) <= 100 * Scale
    BY DEF ShareBounded
  <2>1. reader.committed \in Nat /\ reader.platform \in Nat
    BY DEF IInv, TypeOK
  <2>2. reader.committed <= reader.platform
    BY DEF IInv, ReadCovered
  <2>3. QED
    BY <2>1, <2>2, ShareOfPart
<1>2. QED
  BY Invariance, <1>1, PTL

(* What an NGO was paid never falls, what is committed to it only by a     *)
(* cancel.                                                                 *)
LEMMA FallsStep ==
  ASSUME IInv, [Next]_vars, NEW g \in Ngos
  PROVE  /\ TotalWithdrawn(OfNgo(g))' >= TotalWithdrawn(OfNgo(g))
         /\ TotalCommitted(OfNgo(g))' < TotalCommitted(OfNgo(g)) =>
              \E s \in OfNgo(g) : stream[s].status = "ACTIVE"
                                  /\ stream'[s].status = "CANCELLED"
<1> DEFINE u == WorthIn(stream)
           v == WorthIn(stream')
           p == PaidIn(stream)
           q == PaidIn(stream')
           S == StreamsOf(g)
<1>1. TypeOK /\ TypeOK' /\ stream \in Tables /\ stream' \in Tables
  BY NextInv DEF IInv, TypeOK, Tables
<1>2. IsFiniteSet(S) /\ S \in SUBSET Streams
  <2>1. S \in SUBSET Streams
    BY DEF StreamsOf
  <2>2. QED
    BY <2>1, FS_Subset, StatisticsAssumption
<1>3. \A x \in S : u[x] \in Int /\ v[x] \in Int /\ p[x] \in Int /\ q[x] \in Int
  <2>1. \A x \in Streams : u[x] \in Nat /\ p[x] \in Nat
    BY <1>1, WorthIsNat
  <2>2. \A x \in Streams : v[x] \in Nat /\ q[x] \in Nat
    BY <1>1, WorthIsNat
  <2>3. QED
    BY <1>2, <2>1, <2>2
<1>4. /\ TotalCommitted(OfNgo(g)) = Sum(u, S) /\ TotalWithdrawn(OfNgo(g)) = Sum(p, S)
  BY <1>1, Totals
<1>5. TotalCommitted(OfNgo(g))' = Sum(v, S) /\ TotalWithdrawn(OfNgo(g))' = Sum(q, S)
  BY <1>1, TotalsNext
<1>6. \A x \in S :
        /\ p[x] <= q[x]
        /\ \/ u[x] <= v[x]
           \/ /\ stream[x] # Absent /\ stream[x].status = "ACTIVE"
              /\ stream'[x].status = "CANCELLED"
  <2>1. CASE Created \/ Withdraw \/ Cancel
    BY <1>1, <1>2, <2>1, HandlerStep
  <2>2. CASE stream' = stream
    BY <1>3, <2>2
  <2>3. QED
    BY <2>1, <2>2 DEF Next, vars, ReadNgo, ReadPlatform, Answered
<1>7. OfNgo(g) = {s \in S : stream[s] # Absent}
  BY DEF OfNgo, Rows, StreamsOf
<1>8. /\ Sum(u, S) \in Int /\ Sum(v, S) \in Int /\ Sum(p, S) \in Int /\ Sum(q, S) \in Int
  <2> HIDE DEF u, v, p, q, S
  <2>1. QED
    BY <1>2, <1>3, SumUnfold
<1> HIDE DEF u, v, p, q, S
<1>9. Sum(p, S) <= Sum(q, S)
  BY <1>2, <1>3, <1>6, SumMono
<1>10. ASSUME Sum(v, S) < Sum(u, S)
       PROVE  \E s \in OfNgo(g) : stream[s].status = "ACTIVE"
                                  /\ stream'[s].status = "CANCELLED"
  <2> SUFFICES ASSUME \A s \in OfNgo(g) : ~ (stream[s].status = "ACTIVE"
                                             /\ stream'[s].status = "CANCELLED")
               PROVE  FALSE
    OBVIOUS
  <2>1. \A x \in S : u[x] <= v[x]
    BY <1>6, <1>7
  <2>2. Sum(u, S) <= Sum(v, S)
    BY <1>2, <1>3, <2>1, SumMono
  <2>3. QED
    BY <1>8, <1>10, <2>2
<1>11. QED
  BY <1>4, <1>5, <1>8, <1>9, <1>10

THEOREM FallsByCancel == Spec => FallsOnlyByCancel
<1>1. IInv /\ [Next]_vars =>
        [\A g \in Ngos :
           /\ TotalWithdrawn(OfNgo(g))' >= TotalWithdrawn(OfNgo(g))
           /\ TotalCommitted(OfNgo(g))' < TotalCommitted(OfNgo(g)) =>
                \E s \in OfNgo(g) : stream[s].status = "ACTIVE"
                                    /\ stream'[s].status = "CANCELLED"]_vars
  BY FallsStep
<1>2. QED
  BY Invariance, <1>1, PTL DEF Spec, FallsOnlyByCancel

----------------------------------------------------------------------------
(* Grouped totals.                                                         *)

(* Sums over groups of a set of rows, for every key.                       *)
LEMMA Grouped ==
  ASSUME NEW S \in SUBSET Streams, NEW f, \A x \in S : f[x] \in Int,
         NEW key, NEW K, IsFiniteSet(K), \A x \in S : key[x] \in K
  PROVE  SumFunction([k \in K |-> Sum(f, {x \in S : key[x] = k})]) = Sum(f, S)
<1> DEFINE h == [k \in K |-> Sum(f, {x \in S : key[x] = k})]
<1>1. IsFiniteSet(S)
  BY StatisticsAssumption, FS_Subset
<1>2. DOMAIN h = K /\ \A k \in K : h[k] = Sum(f, {x \in S : key[x] = k})
  OBVIOUS
<1> HIDE DEF h
<1>3. Sum(h, K) = Sum(f, S)
  BY <1>1, <1>2, SumGroups
<1>4. SumFunction(h) = Sum(h, K)
  BY <1>2 DEF SumFunction, Sum
<1>5. QED
  BY <1>3, <1>4 DEF h

LEMMA GroupsFinite == IsFiniteSet(Ngos) /\ IsFiniteSet(Donors) /\ IsFiniteSet(Tokens)
BY ImageFinite, StatisticsAssumption DEF Ngos, Donors, Tokens

(* The rows and what is summed over them.                                  *)
Active == [s \in Rows |-> IF stream[s].status = "ACTIVE" THEN 1 ELSE 0]

LEMMA RowTerms ==
  ASSUME TypeOK
  PROVE  /\ Rows \in SUBSET Streams
         /\ \A s \in Rows : /\ Committed[s] \in Nat /\ Withdrawn[s] \in Nat
                            /\ Active[s] \in {0, 1}
         /\ \A S \in SUBSET Rows :
              /\ TotalCommitted(S) = Sum(Committed, S)
              /\ TotalWithdrawn(S) = Sum(Withdrawn, S)
              /\ ActiveStreams(S) = Sum(Active, S)
<1>1. stream \in Tables
  BY DEF TypeOK, Tables
<1>2. Rows \in SUBSET Streams /\ \A s \in Rows : s \in Streams /\ stream[s] # Absent
  BY DEF Rows
<1>3. \A s \in Rows : Committed[s] = Worth(stream, s) /\ Withdrawn[s] = stream[s].withdrawn
  BY DEF Committed, Withdrawn, Worth
<1>4. \A s \in Rows : Committed[s] \in Nat /\ Withdrawn[s] \in Nat
  BY <1>1, <1>2, <1>3, RowFields
<1>5. \A s \in Rows : Active[s] \in {0, 1}
  BY DEF Active
<1>6. ASSUME NEW S \in SUBSET Rows PROVE ActiveStreams(S) = Sum(Active, S)
  <2>1. IsFiniteSet(S)
    BY <1>2, StatisticsAssumption, FS_Subset
  <2>2. \A s \in S : Active[s] \in {0, 1}
    BY <1>5
  <2>3. Sum(Active, S) = Cardinality({s \in S : Active[s] = 1})
    BY <2>1, <2>2, CountIsSum
  <2>4. {s \in S : Active[s] = 1} = {s \in S : stream[s].status = "ACTIVE"}
    BY DEF Active
  <2>5. QED
    BY <2>3, <2>4 DEF ActiveStreams
<1>7. QED
  BY <1>2, <1>4, <1>5, <1>6 DEF TotalCommitted, TotalWithdrawn, Sum

(* By NGO and by donor.                                                    *)
LEMMA ByNgo ==
  ASSUME TypeOK, NEW f \in DOMAIN Impact
  PROVE  SumFunction([g \in Ngos |-> NgoDetail(g)[f]]) = Impact[f]
<1>1. /\ Rows \in SUBSET Streams
      /\ \A s \in Rows : /\ Committed[s] \in Int /\ Withdrawn[s] \in Int
                         /\ Active[s] \in Int /\ NgoOf[s] \in Ngos
      /\ \A g : OfNgo(g) = {s \in Rows : NgoOf[s] = g} /\ OfNgo(g) \in SUBSET Rows
  BY RowTerms DEF OfNgo, Ngos
<1>2. \A S \in SUBSET Rows : /\ TotalCommitted(S) = Sum(Committed, S)
                             /\ TotalWithdrawn(S) = Sum(Withdrawn, S)
                             /\ ActiveStreams(S) = Sum(Active, S)
  BY RowTerms
<1>3. IsFiniteSet(Ngos)
  BY GroupsFinite
<1>4. /\ Impact.committed = Sum(Committed, Rows) /\ Impact.withdrawn = Sum(Withdrawn, Rows)
      /\ Impact.active = Sum(Active, Rows)
  BY <1>2, Rows \in SUBSET Rows DEF Impact
<1>5. \A g \in Ngos : /\ NgoDetail(g)["committed"] = Sum(Committed, {s \in Rows : NgoOf[s] = g})
                      /\ NgoDetail(g)["withdrawn"] = Sum(Withdrawn, {s \in Rows : NgoOf[s] = g})
                      /\ NgoDetail(g)["active"] = Sum(Active, {s \in Rows : NgoOf[s] = g})
  BY <1>1, <1>2 DEF NgoDetail
<1>6. CASE f = "committed"
  <2>1. SumFunction([g \in Ngos |-> Sum(Committed, {s \in Rows : NgoOf[s] = g})])
          = Sum(Committed, Rows)
    BY <1>1, <1>3, Grouped
  <2>2. [g \in Ngos |-> NgoDetail(g)[f]]
          = [g \in Ngos |-> Sum(Committed, {s \in Rows : NgoOf[s] = g})]
    BY <1>5, <1>6
  <2>3. QED
    BY <1>4, <1>6, <2>1, <2>2
<1>7. CASE f = "withdrawn"
  <2>1. SumFunction([g \in Ngos |-> Sum(Withdrawn, {s \in Rows : NgoOf[s] = g})])
          = Sum(Withdrawn, Rows)
    BY <1>1, <1>3, Grouped
  <2>2. [g \in Ngos |-> NgoDetail(g)[f]]
          = [g \in Ngos |-> Sum(Withdrawn, {s \in Rows : NgoOf[s] = g})]
    BY <1>5, <1>7
  <2>3. QED
    BY <1>4, <1>7, <2>1, <2>2
<1>8. CASE f = "active"
  <2>1. SumFunction([g \in Ngos |-> Sum(Active, {s \in Rows : NgoOf[s] = g})])
          = Sum(Active, Rows)
    BY <1>1, <1>3, Grouped
  <2>2. [g \in Ngos |-> NgoDetail(g)[f]]
          = [g \in Ngos |-> Sum(Active, {s \in Rows : NgoOf[s] = g})]
    BY <1>5, <1>8
  <2>3. QED
    BY <1>4, <1>8, <2>1, <2>2
<1>9. QED
  BY <1>6, <1>7, <1>8 DEF Impact

LEMMA ByDonor ==
  ASSUME TypeOK, NEW f \in DOMAIN Impact
  PROVE  SumFunction([d \in Donors |-> DonorSummary(d)[f]]) = Impact[f]
<1>1. /\ Rows \in SUBSET Streams
      /\ \A s \in Rows : /\ Committed[s] \in Int /\ Withdrawn[s] \in Int
                         /\ Active[s] \in Int /\ DonorOf[s] \in Donors
      /\ \A d : OfDonor(d) = {s \in Rows : DonorOf[s] = d} /\ OfDonor(d) \in SUBSET Rows
  BY RowTerms DEF OfDonor, Donors
<1>2. \A S \in SUBSET Rows : /\ TotalCommitted(S) = Sum(Committed, S)
                             /\ TotalWithdrawn(S) = Sum(Withdrawn, S)
                             /\ ActiveStreams(S) = Sum(Active, S)
  BY RowTerms
<1>3. IsFiniteSet(Donors)
  BY GroupsFinite
<1>4. /\ Impact.committed = Sum(Committed, Rows) /\ Impact.withdrawn = Sum(Withdrawn, Rows)
      /\ Impact.active = Sum(Active, Rows)
  BY <1>2, Rows \in SUBSET Rows DEF Impact
<1>5. \A d \in Donors : /\ DonorSummary(d)["committed"] = Sum(Committed, {s \in Rows : DonorOf[s] = d})
                      /\ DonorSummary(d)["withdrawn"] = Sum(Withdrawn, {s \in Rows : DonorOf[s] = d})
                      /\ DonorSummary(d)["active"] = Sum(Active, {s \in Rows : DonorOf[s] = d})
  BY <1>1, <1>2 DEF DonorSummary
<1>6. CASE f = "committed"
  <2>1. SumFunction([d \in Donors |-> Sum(Committed, {s \in Rows : DonorOf[s] = d})])
          = Sum(Committed, Rows)
    BY <1>1, <1>3, Grouped
  <2>2. [d \in Donors |-> DonorSummary(d)[f]]
          = [d \in Donors |-> Sum(Committed, {s \in Rows : DonorOf[s] = d})]
    BY <1>5, <1>6
  <2>3. QED
    BY <1>4, <1>6, <2>1, <2>2
<1>7. CASE f = "withdrawn"
  <2>1. SumFunction([d \in Donors |-> Sum(Withdrawn, {s \in Rows : DonorOf[s] = d})])
          = Sum(Withdrawn, Rows)
    BY <1>1, <1>3, Grouped
  <2>2. [d \in Donors |-> DonorSummary(d)[f]]
          = [d \in Donors |-> Sum(Withdrawn, {s \in Rows : DonorOf[s] = d})]
    BY <1>5, <1>7
  <2>3. QED
    BY <1>4, <1>7, <2>1, <2>2
<1>8. CASE f = "active"
  <2>1. SumFunction([d \in Donors |-> Sum(Active, {s \in Rows : DonorOf[s] = d})])
          = Sum(Active, Rows)
    BY <1>1, <1>3, Grouped
  <2>2. [d \in Donors |-> DonorSummary(d)[f]]
          = [d \in Donors |-> Sum(Active, {s \in Rows : DonorOf[s] = d})]
    BY <1>5, <1>8
  <2>3. QED
    BY <1>4, <1>8, <2>1, <2>2
<1>9. QED
  BY <1>6, <1>7, <1>8 DEF Impact

(* By token.                                                               *)
LEMMA ByToken ==
  ASSUME TypeOK
  PROVE  SumFunction(CommittedByToken(Rows)) = Impact.committed
<1> DEFINE K == {TokenOf[s] : s \in Rows}
<1>1. /\ Rows \in SUBSET Streams
      /\ \A s \in Rows : Committed[s] \in Int /\ TokenOf[s] \in K
      /\ \A S \in SUBSET Rows : TotalCommitted(S) = Sum(Committed, S)
  BY RowTerms
<1>2. IsFiniteSet(K)
  BY <1>1, StatisticsAssumption, FS_Subset, ImageFinite
<1>3. CommittedByToken(Rows) = [t \in K |-> Sum(Committed, {s \in Rows : TokenOf[s] = t})]
  <2>1. \A t \in K : {s \in Rows : TokenOf[s] = t} \in SUBSET Rows
    OBVIOUS
  <2>2. QED
    BY <1>1, <2>1 DEF CommittedByToken
<1> HIDE DEF K
<1>4. SumFunction([t \in K |-> Sum(Committed, {s \in Rows : TokenOf[s] = t})])
        = Sum(Committed, Rows)
  <2>1. /\ Rows \in SUBSET Streams
        /\ \A s \in Rows : Committed[s] \in Int
        /\ \A s \in Rows : TokenOf[s] \in K
    BY <1>1
  <2>2. QED
    BY <1>2, <2>1, Grouped
<1>5. QED
  BY <1>1, <1>3, <1>4, Rows \in SUBSET Rows DEF Impact

(* The pairs of a donor and an NGO that have a stream, counted by NGO and  *)
(* by donor.                                                               *)
Pairs == {<<DonorOf[s], NgoOf[s]>> : s \in Rows}
One == [p \in Pairs |-> 1]
DonorIn == [p \in Pairs |-> p[1]]
NgoIn == [p \in Pairs |-> p[2]]

LEMMA PairsFinite ==
  ASSUME TypeOK
  PROVE  IsFiniteSet(Pairs)
<1> DEFINE f == [s \in Rows |-> <<DonorOf[s], NgoOf[s]>>]
<1>1. IsFiniteSet(Rows)
  BY RowTerms, StatisticsAssumption, FS_Subset
<1>2. Pairs = {f[s] : s \in Rows}
  BY DEF Pairs
<1> HIDE DEF f
<1>3. QED
  BY <1>1, <1>2, ImageFinite

LEMMA DonorsOfNgo ==
  ASSUME TypeOK, NEW g
  PROVE  NgoDetail(g)["donors"] = Sum(One, {p \in Pairs : NgoIn[p] = g})
<1> DEFINE P == {p \in Pairs : NgoIn[p] = g}
           D == {DonorOf[s] : s \in OfNgo(g)}
<1>1. IsFiniteSet(P)
  <2>1. P \in SUBSET Pairs
    OBVIOUS
  <2>2. QED
    BY <2>1, PairsFinite, FS_Subset
<1>2. D = {DonorIn[p] : p \in P}
  <2>1. ASSUME NEW s \in OfNgo(g)
        PROVE  \E p \in P : DonorOf[s] = DonorIn[p]
    <3>1. s \in Rows /\ NgoOf[s] = g
      BY DEF OfNgo
    <3>2. <<DonorOf[s], NgoOf[s]>> \in P
      BY <3>1 DEF Pairs, NgoIn
    <3>3. DonorIn[<<DonorOf[s], NgoOf[s]>>] = DonorOf[s]
      BY <3>2 DEF DonorIn
    <3>4. QED
      BY <3>2, <3>3
  <2>2. ASSUME NEW p \in P
        PROVE  \E s \in OfNgo(g) : DonorIn[p] = DonorOf[s]
    <3>1. PICK s \in Rows : p = <<DonorOf[s], NgoOf[s]>>
      BY DEF Pairs
    <3>2. DonorIn[p] = DonorOf[s] /\ NgoOf[s] = g
      BY <3>1 DEF DonorIn, NgoIn
    <3>3. QED
      BY <3>2 DEF OfNgo
  <2> HIDE DEF P
  <2>3. QED
    BY <2>1, <2>2
<1>3. \A p, q \in P : DonorIn[p] = DonorIn[q] => p = q
  <2> SUFFICES ASSUME NEW p \in P, NEW q \in P, DonorIn[p] = DonorIn[q] PROVE p = q
    OBVIOUS
  <2>1. p \in Pairs /\ q \in Pairs /\ p[2] = g /\ q[2] = g /\ p[1] = q[1]
    BY DEF NgoIn, DonorIn
  <2>2. QED
    BY <2>1 DEF Pairs
<1>4. \A p \in P : One[p] \in {0, 1} /\ One[p] = 1
  BY DEF One
<1>5. {p \in P : One[p] = 1} = P
  BY <1>4
<1>6. NgoDetail(g)["donors"] = Cardinality(D)
  BY DEF NgoDetail
<1> HIDE DEF P, D
<1>7. Sum(One, P) = Cardinality(P)
  BY <1>1, <1>4, <1>5, CountIsSum
<1>8. Cardinality(D) = Cardinality(P)
  BY <1>1, <1>2, <1>3, SameCount
<1>9. QED
  BY <1>6, <1>7, <1>8 DEF P

LEMMA NgosOfDonor ==
  ASSUME TypeOK, NEW d
  PROVE  DonorSummary(d)["ngos"] = Sum(One, {p \in Pairs : DonorIn[p] = d})
<1> DEFINE P == {p \in Pairs : DonorIn[p] = d}
           D == {NgoOf[s] : s \in OfDonor(d)}
<1>1. IsFiniteSet(P)
  <2>1. P \in SUBSET Pairs
    OBVIOUS
  <2>2. QED
    BY <2>1, PairsFinite, FS_Subset
<1>2. D = {NgoIn[p] : p \in P}
  <2>1. ASSUME NEW s \in OfDonor(d)
        PROVE  \E p \in P : NgoOf[s] = NgoIn[p]
    <3>1. s \in Rows /\ DonorOf[s] = d
      BY DEF OfDonor
    <3>2. <<DonorOf[s], NgoOf[s]>> \in P
      BY <3>1 DEF Pairs, DonorIn
    <3>3. NgoIn[<<DonorOf[s], NgoOf[s]>>] = NgoOf[s]
      BY <3>2 DEF NgoIn
    <3>4. QED
      BY <3>2, <3>3
  <2>2. ASSUME NEW p \in P
        PROVE  \E s \in OfDonor(d) : NgoIn[p] = NgoOf[s]
    <3>1. PICK s \in Rows : p = <<DonorOf[s], NgoOf[s]>>
      BY DEF Pairs
    <3>2. NgoIn[p] = NgoOf[s] /\ DonorOf[s] = d
      BY <3>1 DEF NgoIn, DonorIn
    <3>3. QED
      BY <3>2 DEF OfDonor
  <2> HIDE DEF P
  <2>3. QED
    BY <2>1, <2>2
<1>3. \A p, q \in P : NgoIn[p] = NgoIn[q] => p = q
  <2> SUFFICES ASSUME NEW p \in P, NEW q \in P, NgoIn[p] = NgoIn[q] PROVE p = q
    OBVIOUS
  <2>1. p \in Pairs /\ q \in Pairs /\ p[1] = d /\ q[1] = d /\ p[2] = q[2]
    BY DEF DonorIn, NgoIn
  <2>2. QED
    BY <2>1 DEF Pairs
<1>4. \A p \in P : One[p] \in {0, 1} /\ One[p] = 1
  BY DEF One
<1>5. {p \in P : One[p] = 1} = P
  BY <1>4
<1>6. DonorSummary(d)["ngos"] = Cardinality(D)
  BY DEF DonorSummary
<1> HIDE DEF P, D
<1>7. Sum(One, P) = Cardinality(P)
  BY <1>1, <1>4, <1>5, CountIsSum
<1>8. Cardinality(D) = Cardinality(P)
  BY <1>1, <1>2, <1>3, SameCount
<1>9. QED
  BY <1>6, <1>7, <1>8 DEF P

LEMMA PairsCountedAlike ==
  ASSUME TypeOK
  PROVE  SumFunction([g \in Ngos |-> NgoDetail(g)["donors"]])
           = SumFunction([d \in Donors |-> DonorSummary(d)["ngos"]])
<1>1. /\ \A p \in Pairs : /\ One[p] \in Int
                          /\ NgoIn[p] \in Ngos /\ DonorIn[p] \in Donors
  <2>1. ASSUME NEW p \in Pairs PROVE p[1] \in Donors /\ p[2] \in Ngos
    <3>1. PICK s \in Rows : p = <<DonorOf[s], NgoOf[s]>>
      BY DEF Pairs
    <3>2. s \in Streams
      BY DEF Rows
    <3>3. QED
      BY <3>1, <3>2 DEF Donors, Ngos
  <2>2. QED
    BY <2>1 DEF One, NgoIn, DonorIn
<1> DEFINE h == [g \in Ngos |-> NgoDetail(g)["donors"]]
           k == [d \in Donors |-> DonorSummary(d)["ngos"]]
<1>2. DOMAIN h = Ngos /\ \A g \in Ngos : h[g] = Sum(One, {p \in Pairs : NgoIn[p] = g})
  BY DonorsOfNgo
<1>3. DOMAIN k = Donors /\ \A d \in Donors : k[d] = Sum(One, {p \in Pairs : DonorIn[p] = d})
  BY NgosOfDonor
<1> HIDE DEF h, k
<1>4. Sum(h, Ngos) = Sum(One, Pairs)
  BY <1>1, <1>2, PairsFinite, GroupsFinite, SumGroups
<1>5. Sum(k, Donors) = Sum(One, Pairs)
  BY <1>1, <1>3, PairsFinite, GroupsFinite, SumGroups
<1>6. SumFunction(h) = Sum(h, Ngos) /\ SumFunction(k) = Sum(k, Donors)
  BY <1>2, <1>3 DEF SumFunction, Sum
<1>7. QED
  BY <1>4, <1>5, <1>6 DEF h, k

(* getPlatformTotalSum, which looks at no status.                          *)
LEMMA WithoutStatus ==
  ASSUME TypeOK, EmptyWhenCancelled
  PROVE  PlatformTotalSum = Impact.committed
<1> DEFINE f == [s \in Rows |-> stream[s].balance + stream[s].withdrawn]
<1>1. /\ Rows \in SUBSET Streams /\ \A s \in Rows : Committed[s] \in Nat
      /\ \A S \in SUBSET Rows : TotalCommitted(S) = Sum(Committed, S)
  BY RowTerms
<1>2. \A s \in Rows : f[s] = Committed[s]
  <2> SUFFICES ASSUME NEW s \in Rows PROVE f[s] = Committed[s]
    OBVIOUS
  <2>1. stream[s].balance \in Nat /\ stream[s].withdrawn \in Nat
    BY RowFields DEF TypeOK, Tables, Rows
  <2>2. QED
    BY <2>1 DEF Committed, EmptyWhenCancelled
<1>3. DOMAIN f = Rows /\ PlatformTotalSum = SumFunction(f)
  BY DEF PlatformTotalSum
<1> HIDE DEF f
<1>4. IsFiniteSet(Rows)
  BY <1>1, StatisticsAssumption, FS_Subset
<1>5. Sum(Committed, Rows) = Sum(f, Rows)
  BY <1>1, <1>2, <1>4, SumSame
<1>6. PlatformTotalSum = Sum(f, Rows)
  BY <1>3 DEF SumFunction, Sum
<1>7. QED
  BY <1>1, <1>5, <1>6, Rows \in SUBSET Rows DEF Impact

(* The routes of the NGO, of the donor, of the tokens and of the platform  *)
(* agree on what was committed and paid, on the active streams, and on the *)
(* pairs of a donor and an NGO.                                            *)
THEOREM RoutesAgree == Spec => []TotalsAgree
<1>1. IInv => TotalsAgree
  <2> SUFFICES ASSUME TypeOK, EmptyWhenCancelled PROVE TotalsAgree
    BY DEF IInv
  <2>1. \A f \in DOMAIN Impact :
          /\ SumFunction([g \in Ngos |-> NgoDetail(g)[f]]) = Impact[f]
          /\ SumFunction([d \in Donors |-> DonorSummary(d)[f]]) = Impact[f]
    BY ByNgo, ByDonor
  <2>2. QED
    BY <2>1, ByToken, PairsCountedAlike, WithoutStatus DEF TotalsAgree
<1>2. QED
  BY Invariance, <1>1, PTL

(* The shares of all NGOs make 100 % less what truncation takes of each.   *)
LEMMA SharesOfWhole ==
  ASSUME NEW S, IsFiniteSet(S), NEW c, \A g \in S : c[g] \in Nat,
         NEW T \in Nat, T > 0, T = Sum(c, S),
         NEW q, \A g \in S : q[g] = Share(c[g], T)
  PROVE  /\ Sum(q, S) <= 100 * Scale
         /\ Sum(q, S) > 100 * Scale - Cardinality(S)
<1> DEFINE K == 100 * Scale
           N == Cardinality(S)
           qT == [g \in S |-> q[g] * T]
           cK == [g \in S |-> c[g] * K]
           less == [g \in S |-> T - 1]
           most == [g \in S |-> qT[g] + less[g]]
<1>1. K \in Nat /\ N \in Nat
  BY StatisticsAssumption, FS_CardinalityType
<1>2. \A g \in S : /\ q[g] \in Nat /\ q[g] * T <= c[g] * K
                   /\ c[g] * K < q[g] * T + T
  <2>1. TAKE g \in S
  <2>2. c[g] \in Nat /\ q[g] = Share(c[g], T)
    OBVIOUS
  <2>3. /\ Share(c[g], T) \in Nat /\ Share(c[g], T) * T <= c[g] * K
        /\ c[g] * K < Share(c[g], T) * T + T
    BY <2>2, ShareIs
  <2>4. QED
    BY <2>2, <2>3
<1> HIDE DEF K, N
<1>3. \A g \in S : q[g] * T \in Int /\ c[g] * K \in Int
  BY <1>1, <1>2
<1>4. /\ \A g \in S : /\ q[g] \in Int /\ c[g] \in Int
                      /\ qT[g] \in Int /\ qT[g] = q[g] * T
                      /\ cK[g] \in Int /\ cK[g] = c[g] * K
                      /\ qT[g] <= cK[g]
      /\ \A g \in S : less[g] \in Int /\ most[g] \in Int /\ most[g] = qT[g] + less[g]
      /\ \A g \in S : cK[g] <= most[g]
  BY <1>2, <1>3
<1>5. Sum(less, S) = N * (T - 1)
  <2>1. T - 1 \in Int
    OBVIOUS
  <2>2. QED
    BY <2>1, SumConstant DEF N
<1> HIDE DEF qT, cK, less, most
<1>6. Sum(qT, S) = Sum(q, S) * T /\ Sum(cK, S) = T * K
  <2>1. Sum(qT, S) = Sum(q, S) * T
    BY <1>4, SumScale
  <2>2. Sum(cK, S) = Sum(c, S) * K
    BY <1>1, <1>4, SumScale
  <2>3. QED
    BY <2>1, <2>2
<1>7. Sum(qT, S) <= Sum(cK, S) /\ Sum(cK, S) <= Sum(most, S)
  <2>1. Sum(qT, S) <= Sum(cK, S)
    BY <1>4, SumMono
  <2>2. Sum(cK, S) <= Sum(most, S)
    BY <1>4, SumMono
  <2>3. QED
    BY <2>1, <2>2
<1>8. Sum(most, S) = Sum(qT, S) + Sum(less, S)
  BY <1>4, SumPlus
<1> DEFINE Q == Sum(q, S)
<1>9. Q \in Int
  BY <1>4, SumUnfold
<1> HIDE DEF Q
<1>10. Q * T <= T * K /\ T * K <= Q * T + N * (T - 1)
  BY <1>5, <1>6, <1>7, <1>8 DEF Q
<1>11. /\ T * K = K * T /\ K * T \in Int /\ Q * T \in Int /\ N * T \in Int
       /\ N * (T - 1) = N * T - N
       /\ (Q + N) * T = Q * T + N * T /\ (K + 1) * T = K * T + T
  <2>1. T * K = K * T /\ K * T \in Int /\ Q * T \in Int /\ N * T \in Int
    BY <1>1, <1>9
  <2>2. \A i, j, k \in Int : (i + j) * k = i * k + j * k /\ i * (k - 1) = i * k - i
    OBVIOUS
  <2>3. QED
    BY <1>1, <1>9, <2>1, <2>2
<1>12. Q <= K
  <2>1. Q * T < K * T + T
    BY <1>10, <1>11
  <2>2. QED
    BY <1>1, <1>9, <2>1, ProductCancel
<1>13. N > 0
  <2>1. S # {}
    BY SumEmpty
  <2>2. QED
    BY <1>1, <2>1, FS_EmptySet DEF N
<1>14. K + 1 <= Q + N
  <2>1. K * T <= Q * T + N * T - N
    BY <1>10, <1>11
  <2>2. (K + 1) * T < (Q + N) * T + T
    BY <1>1, <1>11, <1>13, <2>1
  <2>3. K + 1 \in Int /\ Q + N \in Int
    BY <1>1, <1>9
  <2>4. QED
    BY <2>2, <2>3, ProductCancel
<1>15. QED
  BY <1>1, <1>9, <1>12, <1>14 DEF Q, K, N

(* The shares that GET /impact/:ngoId would answer for every NGO at one    *)
(* moment.                                                                 *)
THEOREM SharesMakeWhole == Spec => []SharesAddUp
<1>1. IInv => SharesAddUp
  <2> DEFINE T == TotalCommitted(Rows)
             c == [g \in Ngos |-> TotalCommitted(OfNgo(g))]
             q == [g \in Ngos |-> Share(TotalCommitted(OfNgo(g)), T)]
  <2> SUFFICES ASSUME IInv, T > 0
               PROVE  /\ SumFunction(q) <= 100 * Scale
                      /\ SumFunction(q) > 100 * Scale - Cardinality(Ngos)
    BY DEF SharesAddUp
  <2>1. TypeOK /\ stream \in Tables
    BY DEF IInv, TypeOK, Tables
  <2>2. T \in Nat /\ \A g \in Ngos : c[g] \in Nat
    BY <2>1, Totals
  <2>3. T = SumFunction(c)
    <3>1. /\ "committed" \in DOMAIN Impact /\ Impact["committed"] = T
          /\ \A g : NgoDetail(g)["committed"] = TotalCommitted(OfNgo(g))
      BY DEF Impact, NgoDetail
    <3>2. SumFunction([g \in Ngos |-> NgoDetail(g)["committed"]]) = Impact["committed"]
      BY <2>1, <3>1, ByNgo
    <3>3. QED
      BY <3>1, <3>2
  <2>4. DOMAIN c = Ngos /\ DOMAIN q = Ngos /\ \A g \in Ngos : q[g] = Share(c[g], T)
    OBVIOUS
  <2> HIDE DEF T, c, q
  <2>5. SumFunction(c) = Sum(c, Ngos) /\ SumFunction(q) = Sum(q, Ngos)
    BY <2>4 DEF SumFunction, Sum
  <2>6. QED
    BY <2>2, <2>3, <2>4, <2>5, GroupsFinite, SharesOfWhole
<1>2. QED
  BY Invariance, <1>1, PTL
=============================================================================
