-------------------------- MODULE PortfolioProofs --------------------------
(***************************************************************************)
(* Theorems about the market data a portfolio is valued with and about     *)
(* what is computed from it, for any series, days, values and trades.      *)
(*                                                                         *)
(* After the invariant of the market data, the calculations are taken one  *)
(* by one: the loop that nets trades (its rounds keep a book, BookOf), the *)
(* valuation and the allocations (sums taken part by part), the loading of *)
(* trades (LoadedFrom: every recorded trade at exactly one place of the    *)
(* list), and the dates of the earlier valuations.                         *)
(***************************************************************************)
EXTENDS Portfolio, SumProofs, WellFoundedInduction, FiniteSetTheorems, SequenceTheorems, TLAPS

(* A set of integers that lies in a range has a least and a greatest member. *)
LEMMA BoundedSet ==
  ASSUME NEW lo \in Int, NEW hi \in Int, NEW S \in SUBSET (lo .. hi), S # {}
  PROVE  /\ Min(S) \in S /\ \A x \in S : Min(S) <= x
         /\ Max(S) \in S /\ \A x \in S : x <= Max(S)
<1>. DEFINE R == {p \in Nat \X Nat : p[1] < p[2]}
<1>0. IsWellFoundedOn(R, Nat)
  BY NatLessThanWellFounded DEF OpToRel
<1>1. \A T \in SUBSET Nat : T # {} => \E x \in T : \A y \in T : x <= y
  <2>. SUFFICES ASSUME NEW T \in SUBSET Nat, T # {} PROVE \E x \in T : \A y \in T : x <= y
    OBVIOUS
  <2>1. PICK x \in T : \A y \in T : ~ (<<y, x>> \in R)
    <3>. HIDE DEF R
    <3>. QED
      BY <1>0, WFMin
  <2>2. \A y \in T : x <= y
    <3>. TAKE y \in T
    <3>1. x \in Nat /\ y \in Nat /\ <<y, x>> \in Nat \X Nat
      OBVIOUS
    <3>2. ~ (y < x)
      BY <2>1, <3>1
    <3>. QED
      BY <3>1, <3>2
  <2>. QED
    BY <2>2
<1>2. \E x \in S : \A y \in S : x <= y
  <2>. DEFINE T == {x - lo : x \in S}
  <2>1. \A x \in S : x \in Int /\ x - lo \in Nat
    OBVIOUS
  <2>2. T \in SUBSET Nat /\ T # {}
    BY <2>1
  <2>3. PICK t \in T : \A u \in T : t <= u
    BY <1>1, <2>2
  <2>4. PICK x \in S : t = x - lo
    OBVIOUS
  <2>5. \A y \in S : x - lo <= y - lo
    BY <2>3, <2>4
  <2>. QED
    BY <2>1, <2>5
<1>3. \E x \in S : \A y \in S : x >= y
  <2>. DEFINE T == {hi - x : x \in S}
  <2>1. \A x \in S : x \in Int /\ hi - x \in Nat
    OBVIOUS
  <2>2. T \in SUBSET Nat /\ T # {}
    BY <2>1
  <2>3. PICK t \in T : \A u \in T : t <= u
    BY <1>1, <2>2
  <2>4. PICK x \in S : t = hi - x
    OBVIOUS
  <2>5. \A y \in S : hi - x <= hi - y
    BY <2>3, <2>4
  <2>. QED
    BY <2>1, <2>5
<1>. QED
  BY <1>2, <1>3 DEF Min, Max

-----------------------------------------------------------------------------
(* While the builder collects, the row of a day is its last point, and the   *)
(* axis is empty.                                                           *)
PointsOf(points, d) == {n \in DOMAIN points : points[n].day = d}

BuilderKeepsRows ==
  ~ serving =>
    /\ num_days = 0
    /\ \A s \in Series, d \in Day :
         row[s][d] = IF PointsOf(pending[s], d) = {}
                     THEN Missing
                     ELSE pending[s][Max(PointsOf(pending[s], d))].value

(* What the arrays hold are days that were written, at least one in each.    *)
ArraysHoldDays ==
  \A s \in DOMAIN history :
    /\ DOMAIN history[s] # {}
    /\ \A i \in DOMAIN history[s] : base_day + i \in Day

MarketInv == MarketTypeOK /\ BuilderKeepsRows /\ LookupIsLastWrite /\ ArraysHoldDays

LEMMA DaysAreIntegers == \A d \in Day : d \in Int
<1>1. \A d \in FirstDay .. LastDay : d \in Int
  BY DayAssumption
<1>. QED
  BY <1>1, DayAssumption

LEMMA PointFields == \A p \in Point : p.day \in Day /\ p.day \in Int /\ p.value \in Value
<1>1. \A p \in Point : p.day \in Day /\ p.value \in Value
  BY DEF Point
<1>. QED
  BY <1>1, DaysAreIntegers

LEMMA LastPoint ==
  ASSUME NEW points \in Seq(Point), NEW d \in Int, PointsOf(points, d) # {}
  PROVE  /\ Max(PointsOf(points, d)) \in DOMAIN points
         /\ points[Max(PointsOf(points, d))].day = d
         /\ points[Max(PointsOf(points, d))].value \in Value
         /\ \A n \in PointsOf(points, d) : n <= Max(PointsOf(points, d))
<1>. DEFINE ns == PointsOf(points, d)
<1>1. ns \in SUBSET (1 .. Len(points))
  BY DEF PointsOf
<1>2. Max(ns) \in ns /\ \A n \in ns : n <= Max(ns)
  BY <1>1, BoundedSet, 1 \in Int, Len(points) \in Int
<1>3. \A n \in DOMAIN points : points[n] \in Point
  OBVIOUS
<1>. QED
  BY <1>1, <1>2, <1>3 DEF PointsOf, Point

(* The dense array of a series holds its last point of every day. *)
LEMMA DenseArray ==
  ASSUME NEW points \in Seq(Point), NEW base \in Int
  PROVE  /\ DOMAIN Dense(points, base) = {points[n].day - base : n \in DOMAIN points}
         /\ \A d \in Int :
              /\ d - base \in DOMAIN Dense(points, base) <=> PointsOf(points, d) # {}
              /\ PointsOf(points, d) # {} =>
                   Dense(points, base)[d - base] = points[Max(PointsOf(points, d))].value
<1>1. DOMAIN Dense(points, base) = {points[n].day - base : n \in DOMAIN points}
  BY DEF Dense
<1>2. \A n \in DOMAIN points : points[n].day \in Int
  <2>1. \A n \in DOMAIN points : points[n] \in Point
    OBVIOUS
  <2>. QED
    BY <2>1, PointFields
<1>3. ASSUME NEW d \in Int
      PROVE  /\ d - base \in DOMAIN Dense(points, base) <=> PointsOf(points, d) # {}
             /\ PointsOf(points, d) # {} =>
                  Dense(points, base)[d - base] = points[Max(PointsOf(points, d))].value
  <2>1. \A n \in DOMAIN points : points[n].day - base = d - base <=> points[n].day = d
    BY <1>2
  <2>2. {n \in DOMAIN points : points[n].day - base = d - base} = PointsOf(points, d)
    BY <2>1 DEF PointsOf
  <2>3. d - base \in DOMAIN Dense(points, base) <=> PointsOf(points, d) # {}
    BY <1>1, <2>2
  <2>4. d - base \in DOMAIN Dense(points, base) =>
          Dense(points, base)[d - base] =
            points[Max({n \in DOMAIN points : points[n].day - base = d - base})].value
    BY DEF Dense
  <2>. QED
    BY <2>2, <2>3, <2>4
<1>. QED
  BY <1>1, <1>3

-----------------------------------------------------------------------------
LEMMA InitEstablishesMarket == MarketInit => MarketInv
<1>. SUFFICES ASSUME MarketInit PROVE MarketInv
  OBVIOUS
<1>1. MarketTypeOK
  <2>1. history = <<>> /\ DOMAIN history = {}
    BY DEF MarketInit
  <2>2. /\ pending \in [Series -> Seq(Point)]
        /\ row \in [Series -> [Day -> Value \cup {Missing}]]
        /\ serving \in BOOLEAN /\ base_day \in Int /\ num_days \in Nat
        /\ writes \in 0 .. MaxWrites
    <3>1. <<>> \in Seq(Point)
      OBVIOUS
    <3>2. pending \in [Series -> Seq(Point)]
      BY <3>1 DEF MarketInit
    <3>3. row \in [Series -> [Day -> Value \cup {Missing}]]
      BY DEF MarketInit
    <3>4. serving \in BOOLEAN /\ base_day \in Int /\ num_days \in Nat /\ writes \in 0 .. MaxWrites
      <4>1. 0 \in 0 .. MaxWrites
        BY MaxWritesAssumption
      <4>2. base_day = 0 /\ num_days = 0 /\ writes = 0
        BY DEF MarketInit
      <4>3. serving \in BOOLEAN
        BY DEF MarketInit
      <4>. QED
        BY <4>1, <4>2, <4>3
    <3>. QED
      BY <3>2, <3>3, <3>4
  <2>. QED
    BY <2>1, <2>2 DEF MarketTypeOK
<1>2. BuilderKeepsRows
  BY DEF MarketInit, BuilderKeepsRows, PointsOf
<1>3. LookupIsLastWrite
  BY DEF MarketInit, LookupIsLastWrite
<1>4. ArraysHoldDays
  BY DEF MarketInit, ArraysHoldDays
<1>. QED
  BY <1>1, <1>2, <1>3, <1>4 DEF MarketInv

LEMMA AddPointKeepsMarket ==
  ASSUME MarketInv, NEW s \in Series, NEW p \in Point, AddPoint(s, p)
  PROVE  MarketInv'
<1>. USE DEF MarketInv
<1>1. p.day \in Day /\ p.value \in Value /\ pending[s] \in Seq(Point)
  BY DEF Point, MarketTypeOK
<1>2. MarketTypeOK'
  BY <1>1, MaxWritesAssumption DEF MarketTypeOK, AddPoint, store
<1>3. BuilderKeepsRows'
  <2>. SUFFICES ASSUME NEW t \in Series, NEW d \in Day
                PROVE  row'[t][d] = IF PointsOf(pending'[t], d) = {}
                                    THEN Missing
                                    ELSE pending'[t][Max(PointsOf(pending'[t], d))].value
    BY DEF BuilderKeepsRows, AddPoint, store
  <2>0. row[t][d] = IF PointsOf(pending[t], d) = {}
                    THEN Missing
                    ELSE pending[t][Max(PointsOf(pending[t], d))].value
    BY DEF BuilderKeepsRows, AddPoint
  <2>1. CASE t # s
    BY <2>0, <2>1 DEF AddPoint, MarketTypeOK
  <2>2. CASE t = s
    <3>. DEFINE new == Len(pending[s]) + 1
    <3>1. /\ pending'[s] = Append(pending[s], p)
          /\ pending'[s] \in Seq(Point)
          /\ DOMAIN pending'[s] = 1 .. new
          /\ pending'[s][new] = p
          /\ \A n \in 1 .. Len(pending[s]) : pending'[s][n] = pending[s][n]
      BY <1>1 DEF AddPoint, MarketTypeOK
    <3>2. d \in Int /\ new \in Nat
      BY <1>1, DaysAreIntegers
    <3>3. CASE d = p.day
      <4>1. new \in PointsOf(pending'[s], d)
        BY <1>1, <3>1, <3>2, <3>3 DEF PointsOf
      <4>2. Max(PointsOf(pending'[s], d)) = new
        <5>1. /\ Max(PointsOf(pending'[s], d)) \in DOMAIN pending'[s]
              /\ \A n \in PointsOf(pending'[s], d) : n <= Max(PointsOf(pending'[s], d))
          BY <3>1, <3>2, <4>1, LastPoint
        <5>. QED
          BY <3>1, <3>2, <4>1, <5>1
      <4>. QED
        BY <1>1, <2>2, <3>1, <3>3, <4>1, <4>2 DEF AddPoint, MarketTypeOK
    <3>4. CASE d # p.day
      <4>1. PointsOf(pending'[s], d) = PointsOf(pending[s], d)
        BY <1>1, <3>1, <3>2, <3>4 DEF PointsOf
      <4>2. PointsOf(pending[s], d) # {} =>
              Max(PointsOf(pending[s], d)) \in 1 .. Len(pending[s])
        BY <1>1, <3>2, LastPoint
      <4>. QED
        BY <2>0, <2>2, <3>1, <3>4, <4>1, <4>2 DEF AddPoint, MarketTypeOK
    <3>. QED
      BY <3>3, <3>4
  <2>. QED
    BY <2>1, <2>2
<1>4. LookupIsLastWrite' /\ ArraysHoldDays'
  BY DEF LookupIsLastWrite, ArraysHoldDays, AddPoint, store
<1>. QED
  BY <1>2, <1>3, <1>4

LEMMA FromBuilderKeepsMarket ==
  ASSUME MarketInv, FromBuilder
  PROVE  MarketInv'
<1>. USE DEF MarketInv
<1>. DEFINE built == {s \in Series : pending[s] # <<>>}
            days == {p.day : p \in UNION {ToSet(pending[s]) : s \in built}}
<1>1. \A s \in Series : \A n \in DOMAIN pending[s] :
        pending[s][n] \in Point /\ pending[s][n].day \in days /\ s \in built
  <2>. TAKE s \in Series
  <2>. TAKE n \in DOMAIN pending[s]
  <2>1. pending[s] \in Seq(Point) /\ pending[s][n] \in Point
    BY DEF MarketTypeOK
  <2>2. s \in built
    BY <2>1
  <2>3. pending[s][n] \in ToSet(pending[s])
    BY DEF ToSet
  <2>. QED
    BY <2>1, <2>2, <2>3
<1>2. days \in SUBSET Day
  <2>. SUFFICES ASSUME NEW s \in built, NEW p \in ToSet(pending[s]) PROVE p.day \in Day
    OBVIOUS
  <2>. QED
    BY <1>1 DEF ToSet, Point
<1>3. ~ serving /\ serving' = TRUE /\ row' = row /\ writes' = writes
      /\ pending' = [s \in Series |-> <<>>]
  BY DEF FromBuilder
<1>4. BuilderKeepsRows'
  BY <1>3 DEF BuilderKeepsRows
<1>5. CASE days = {}
  <2>1. UNCHANGED <<base_day, num_days, history>>
    BY <1>5 DEF FromBuilder
  <2>2. MarketTypeOK'
    BY <1>3, <2>1 DEF MarketTypeOK
  <2>3. \A s \in Series, d \in Day : PointsOf(pending[s], d) = {}
    BY <1>1, <1>5 DEF PointsOf
  <2>4. \A s \in Series, d \in Day : row[s][d] = Missing
    BY <1>3, <2>3 DEF BuilderKeepsRows
  <2>5. num_days' = 0 /\ base_day' \in Int
    BY <1>3, <2>1 DEF BuilderKeepsRows, MarketTypeOK
  <2>6. \A s \in Series, d \in Day : Get(s, d)' = Missing
    BY <2>5, DaysAreIntegers DEF Get, InAxis
  <2>7. ArraysHoldDays'
    BY <2>1 DEF ArraysHoldDays
  <2>. QED
    BY <1>3, <1>4, <2>2, <2>4, <2>6, <2>7 DEF LookupIsLastWrite
<1>6. CASE days # {}
  <2>1. /\ base_day' = Min(days)
        /\ num_days' = Max(days) - Min(days) + 1
        /\ history' = [s \in built |-> Dense(pending[s], base_day')]
    BY <1>6 DEF FromBuilder
  <2>2. /\ Min(days) \in days /\ \A d \in days : Min(days) <= d
        /\ Max(days) \in days /\ \A d \in days : d <= Max(days)
    <3>. HIDE DEF days
    <3>1. days \in SUBSET (FirstDay .. LastDay) /\ FirstDay \in Int /\ LastDay \in Int
      BY <1>2, DayAssumption
    <3>. QED
      BY <1>6, <3>1, BoundedSet
  <2>3. base_day' \in Int /\ num_days' \in Nat
    <3>. HIDE DEF days
    <3>1. Min(days) \in Int /\ Max(days) \in Int /\ Min(days) <= Max(days)
      BY <1>2, <2>2, DaysAreIntegers
    <3>. QED
      BY <2>1, <3>1
  <2>4. \A d \in days : d - base_day' \in 0 .. num_days' - 1
    <3>. HIDE DEF days
    <3>1. \A d \in days \cup {Min(days), Max(days)} : d \in Int
      BY <1>2, <2>2, DaysAreIntegers
    <3>. QED
      BY <2>1, <2>2, <3>1
  <2>5. ASSUME NEW s \in built
        PROVE  /\ history'[s] = Dense(pending[s], base_day')
               /\ pending[s] \in Seq(Point)
               /\ DOMAIN history'[s] \subseteq 0 .. num_days' - 1
               /\ \A i \in DOMAIN history'[s] : history'[s][i] \in Value
    <3>1. history'[s] = Dense(pending[s], base_day') /\ pending[s] \in Seq(Point)
      BY <2>1 DEF MarketTypeOK
    <3>2. DOMAIN history'[s] = {pending[s][n].day - base_day' : n \in DOMAIN pending[s]}
      BY <2>3, <3>1, DenseArray
    <3>3. DOMAIN history'[s] \subseteq 0 .. num_days' - 1
      BY <1>1, <2>4, <3>2
    <3>4. ASSUME NEW i \in DOMAIN history'[s] PROVE history'[s][i] \in Value
      <4>1. PICK n \in DOMAIN pending[s] : i = pending[s][n].day - base_day'
        BY <3>2
      <4>2. pending[s][n].day \in Int
        BY <1>1, PointFields
      <4>3. n \in PointsOf(pending[s], pending[s][n].day)
        BY DEF PointsOf
      <4>4. history'[s][i] = pending[s][Max(PointsOf(pending[s], pending[s][n].day))].value
        BY <2>3, <3>1, <4>1, <4>2, <4>3, DenseArray
      <4>. QED
        BY <3>1, <4>2, <4>3, <4>4, LastPoint
    <3>. QED
      BY <3>1, <3>3, <3>4
  <2>6. MarketTypeOK'
    <3>1. DOMAIN history' = built /\ built \subseteq Series
      BY <2>1
    <3>2. pending' \in [Series -> Seq(Point)]
      <4>1. <<>> \in Seq(Point)
        OBVIOUS
      <4>. QED
        BY <1>3, <4>1
    <3>3. /\ serving' \in BOOLEAN
          /\ row' \in [Series -> [Day -> Value \cup {Missing}]]
          /\ writes' \in 0 .. MaxWrites
      BY <1>3 DEF MarketTypeOK
    <3>. HIDE DEF built
    <3>. QED
      BY <2>3, <2>5, <3>1, <3>2, <3>3 DEF MarketTypeOK
  <2>7. ASSUME NEW s \in Series, NEW d \in Day PROVE Get(s, d)' = row'[s][d]
    <3>0. d \in Int /\ pending[s] \in Seq(Point)
      BY DaysAreIntegers DEF MarketTypeOK
    <3>1. row'[s][d] = IF PointsOf(pending[s], d) = {}
                       THEN Missing
                       ELSE pending[s][Max(PointsOf(pending[s], d))].value
      BY <1>3 DEF BuilderKeepsRows
    <3>2. CASE PointsOf(pending[s], d) = {}
      <4>1. ~ (s \in DOMAIN history' /\ d - base_day' \in DOMAIN history'[s])
        BY <2>1, <2>3, <2>5, <3>0, <3>2, DenseArray
      <4>. QED
        BY <3>1, <3>2, <4>1 DEF Get
    <3>3. CASE PointsOf(pending[s], d) # {}
      <4>1. PICK n \in DOMAIN pending[s] : pending[s][n].day = d
        BY <3>3 DEF PointsOf
      <4>2. s \in built /\ d \in days
        BY <1>1, <4>1
      <4>3. InAxis(d)'
        BY <2>4, <4>2 DEF InAxis
      <4>4. /\ s \in DOMAIN history'
            /\ d - base_day' \in DOMAIN history'[s]
            /\ history'[s][d - base_day'] = pending[s][Max(PointsOf(pending[s], d))].value
        BY <2>1, <2>3, <2>5, <3>0, <3>3, <4>2, DenseArray
      <4>. QED
        BY <3>1, <3>3, <4>3, <4>4 DEF Get
    <3>. QED
      BY <3>2, <3>3
  <2>8. ArraysHoldDays'
    <3>. SUFFICES ASSUME NEW s \in built
                  PROVE  DOMAIN history'[s] # {} /\ \A i \in DOMAIN history'[s] : base_day' + i \in Day
      BY <2>1 DEF ArraysHoldDays
    <3>0. DOMAIN history'[s] = {pending[s][n].day - base_day' : n \in DOMAIN pending[s]}
      <4>1. history'[s] = Dense(pending[s], base_day') /\ pending[s] \in Seq(Point)
        BY <2>5
      <4>. QED
        BY <2>3, <4>1, DenseArray
    <3>1. DOMAIN pending[s] # {}
      <4>1. pending[s] \in Seq(Point) /\ pending[s] # <<>>
        BY <2>5
      <4>. HIDE DEF built, days
      <4>2. Len(pending[s]) \in Nat \ {0}
        BY <4>1, EmptySeq
      <4>3. DOMAIN pending[s] = 1 .. Len(pending[s])
        BY <4>1
      <4>4. 1 \in 1 .. Len(pending[s])
        BY <4>2
      <4>. QED
        BY <4>3, <4>4
    <3>2. ASSUME NEW i \in DOMAIN history'[s] PROVE base_day' + i \in Day
      <4>1. PICK n \in DOMAIN pending[s] : i = pending[s][n].day - base_day'
        BY <3>0
      <4>2. pending[s][n].day \in Day /\ pending[s][n].day \in Int
        BY <1>1, PointFields
      <4>. QED
        BY <2>3, <4>1, <4>2
    <3>. QED
      BY <3>0, <3>1, <3>2
  <2>. QED
    BY <1>4, <2>6, <2>7, <2>8 DEF LookupIsLastWrite
<1>. QED
  BY <1>5, <1>6

LEMMA UpdateKeepsMarket ==
  ASSUME MarketInv, NEW s \in Series, NEW p \in Point, Update(s, p)
  PROVE  MarketInv'
<1>. USE DEF MarketInv
<1>1. p.day \in Day /\ p.day \in Int /\ p.value \in Value
  BY PointFields
<1>2. /\ serving /\ serving' = serving /\ pending' = pending
      /\ base_day' = base_day /\ num_days' = num_days
      /\ writes' \in 0 .. MaxWrites
  BY MaxWritesAssumption DEF Update, MarketTypeOK
<1>3. BuilderKeepsRows'
  BY <1>2 DEF BuilderKeepsRows
<1>4. CASE ~ (InAxis(p.day) /\ s \in DOMAIN history)
  <2>1. history' = history /\ row' = row
    BY <1>4 DEF Update
  <2>2. MarketTypeOK'
    BY <1>2, <2>1 DEF MarketTypeOK
  <2>. QED
    BY <1>2, <1>3, <2>1, <2>2 DEF LookupIsLastWrite, ArraysHoldDays, Get, InAxis
<1>5. CASE InAxis(p.day) /\ s \in DOMAIN history
  <2>. DEFINE i == p.day - base_day
  <2>1. /\ DOMAIN history' = DOMAIN history
        /\ \A t \in DOMAIN history : t # s => history'[t] = history[t]
        /\ DOMAIN history'[s] = DOMAIN history[s] \cup {i}
        /\ \A j \in DOMAIN history'[s] :
             history'[s][j] = IF j = i THEN p.value ELSE history[s][j]
    BY <1>5 DEF Update
  <2>2. /\ row' \in [Series -> [Day -> Value \cup {Missing}]]
        /\ \A t \in Series, d \in Day :
             row'[t][d] = IF t = s /\ d = p.day THEN p.value ELSE row[t][d]
    <3>1. row' = [row EXCEPT ![s][p.day] = p.value]
      BY <1>5 DEF Update
    <3>2. row \in [Series -> [Day -> Value \cup {Missing}]]
      BY DEF MarketTypeOK
    <3>3. row[s] \in [Day -> Value \cup {Missing}]
      BY <3>2
    <3>4. row' = [row EXCEPT ![s] = [row[s] EXCEPT ![p.day] = p.value]]
      BY <3>1
    <3>5. [row[s] EXCEPT ![p.day] = p.value] \in [Day -> Value \cup {Missing}]
      BY <1>1, <3>3
    <3>. QED
      BY <1>1, <3>2, <3>4, <3>5
  <2>3. i \in 0 .. num_days - 1 /\ base_day \in Int
    BY <1>5 DEF InAxis, MarketTypeOK
  <2>4. MarketTypeOK'
    <3>1. ASSUME NEW t \in DOMAIN history'
          PROVE  /\ DOMAIN history'[t] \subseteq 0 .. num_days - 1
                 /\ \A j \in DOMAIN history'[t] : history'[t][j] \in Value
      <4>1. CASE t = s
        BY <1>1, <1>5, <2>1, <2>3, <4>1 DEF MarketTypeOK
      <4>2. CASE t # s
        BY <2>1, <4>2 DEF MarketTypeOK
      <4>. QED
        BY <4>1, <4>2
    <3>2. DOMAIN history' \subseteq Series
      BY <2>1 DEF MarketTypeOK
    <3>3. /\ pending \in [Series -> Seq(Point)] /\ serving \in BOOLEAN
          /\ base_day \in Int /\ num_days \in Nat
      BY DEF MarketTypeOK
    <3>. QED
      BY <1>2, <2>2, <3>1, <3>2, <3>3 DEF MarketTypeOK
  <2>5. ASSUME NEW t \in Series, NEW d \in Day PROVE Get(t, d)' = row'[t][d]
    <3>0. d \in Int /\ (d - base_day = i <=> d = p.day)
      BY <1>1, <2>3, DaysAreIntegers
    <3>1. Get(t, d) = row[t][d]
      BY <1>2 DEF LookupIsLastWrite
    <3>2. InAxis(d)' <=> InAxis(d)
      BY <1>2 DEF InAxis
    <3>3. CASE t # s
      BY <1>2, <2>1, <2>2, <3>1, <3>2, <3>3 DEF Get
    <3>4. CASE t = s /\ d = p.day
      BY <1>2, <1>5, <2>1, <2>2, <3>0, <3>2, <3>4 DEF Get
    <3>5. CASE t = s /\ d # p.day
      BY <1>2, <1>5, <2>1, <2>2, <3>0, <3>1, <3>2, <3>5 DEF Get
    <3>. QED
      BY <3>3, <3>4, <3>5
  <2>6. ArraysHoldDays'
    <3>0. \A t \in DOMAIN history : DOMAIN history'[t] # {}
      BY <2>1 DEF ArraysHoldDays
    <3>. SUFFICES ASSUME NEW t \in DOMAIN history, NEW j \in DOMAIN history'[t]
                  PROVE  base_day + j \in Day
      BY <1>2, <2>1, <3>0 DEF ArraysHoldDays
    <3>1. CASE j \in DOMAIN history[t]
      BY <3>1 DEF ArraysHoldDays
    <3>2. CASE j \notin DOMAIN history[t]
      <4>1. t = s /\ j = i
        BY <2>1, <3>2
      <4>. QED
        BY <1>1, <2>3, <4>1
    <3>. QED
      BY <3>1, <3>2
  <2>. QED
    BY <1>3, <2>4, <2>5, <2>6 DEF LookupIsLastWrite
<1>. QED
  BY <1>4, <1>5

-----------------------------------------------------------------------------
(* Trades are kept with the owner of their account. *)
OwnersMatch == \A u \in User : \A n \in DOMAIN trades[u] : Owner[trades[u][n].account] = u

(* The types of the store, and of the trades beside it. *)
Inv == MarketInv /\ trades \in [User -> Seq(Trade)] /\ OwnersMatch

LEMMA StepKeepsInv == ASSUME Inv, [Next]_vars PROVE Inv'
<1>. USE DEF Inv
<1>0. ASSUME UNCHANGED trades PROVE OwnersMatch'
  BY <1>0 DEF OwnersMatch
<1>1. ASSUME NEW s \in Series, NEW p \in Point, AddPoint(s, p), UNCHANGED trades PROVE Inv'
  BY <1>0, <1>1, AddPointKeepsMarket
<1>2. ASSUME NEW s \in Series, NEW p \in Point, Update(s, p), UNCHANGED trades PROVE Inv'
  BY <1>0, <1>2, UpdateKeepsMarket
<1>3. ASSUME FromBuilder, UNCHANGED trades PROVE Inv'
  BY <1>0, <1>3, FromBuilderKeepsMarket
<1>4. ASSUME UNCHANGED market PROVE MarketInv'
  BY <1>4 DEF market, store, MarketInv, MarketTypeOK, BuilderKeepsRows, LookupIsLastWrite,
                  ArraysHoldDays, Get, InAxis
<1>5. ASSUME NEW t \in Trade, AddTrade(t) PROVE Inv'
  <2>1. t.user \in User /\ Owner[t.account] = t.user
    BY TradeAssumption, TradeOwnerAssumption
  <2>2. trades' \in [User -> Seq(Trade)]
    BY <1>5, <2>1 DEF AddTrade
  <2>3. OwnersMatch'
    <3>. SUFFICES ASSUME NEW u \in User, NEW n \in DOMAIN trades'[u]
                  PROVE  Owner[trades'[u][n].account] = u
      BY DEF OwnersMatch
    <3>1. CASE u = t.user
      <4>1. trades'[u] = Append(trades[u], t) /\ trades[u] \in Seq(Trade)
        BY <1>5, <3>1 DEF AddTrade
      <4>2. /\ DOMAIN trades[u] = 1 .. Len(trades[u]) /\ Len(trades[u]) \in Nat
            /\ DOMAIN trades'[u] = 1 .. Len(trades[u]) + 1
            /\ \A m \in 1 .. Len(trades[u]) : trades'[u][m] = trades[u][m]
            /\ trades'[u][Len(trades[u]) + 1] = t
        BY <4>1
      <4>3. n \in DOMAIN trades[u] \/ n = Len(trades[u]) + 1
        BY <4>2
      <4>. QED
        BY <2>1, <3>1, <4>2, <4>3 DEF OwnersMatch
    <3>2. CASE u # t.user
      BY <1>5, <3>2 DEF AddTrade, OwnersMatch
    <3>. QED
      BY <3>1, <3>2
  <2>. QED
    BY <1>4, <1>5, <2>2, <2>3 DEF AddTrade
<1>6. CASE UNCHANGED vars
  BY <1>0, <1>4, <1>6 DEF vars
<1>. QED
  BY <1>1, <1>2, <1>3, <1>5, <1>6 DEF Next

THEOREM PortfolioInvariant == Spec => []Inv
<1>1. Init => Inv
  <2>. SUFFICES ASSUME Init PROVE Inv
    OBVIOUS
  <2>1. \A u \in User : trades[u] = <<>> /\ DOMAIN trades[u] = {}
    BY DEF Init
  <2>. QED
    BY <2>1, InitEstablishesMarket DEF Init, Inv, OwnersMatch
<1>2. Inv /\ [Next]_vars => Inv'
  BY StepKeepsInv
<1>. QED
  BY <1>1, <1>2, PTL DEF Spec

(* The store, the rows and the trades stay in their types; an index that is  *)
(* used lies within the arrays from_builder allocated.                      *)
THEOREM TypeCorrect == Spec => []TypeOK
<1>1. Inv => TypeOK
  BY DEF Inv, MarketInv, TypeOK
<1>. QED
  BY <1>1, PortfolioInvariant, PTL

(* get_price and get_fx_rate answer with the last value accepted for the     *)
(* very day, for any days, series and order of points and updates.          *)
THEOREM LookupsAreExact == Spec => []LookupIsLastWrite
<1>1. Inv => LookupIsLastWrite
  BY DEF Inv, MarketInv
<1>. QED
  BY <1>1, PortfolioInvariant, PTL

LEMMA RangeClamped ==
  ASSUME NEW a \in Int, NEW b \in Int
  PROVE  /\ Max({a, b}) = IF a >= b THEN a ELSE b
         /\ Min({a, b}) = IF a <= b THEN a ELSE b
<1>1. /\ Max({a, b}) \in {a, b} /\ Max({a, b}) >= a /\ Max({a, b}) >= b
      /\ Min({a, b}) \in {a, b} /\ Min({a, b}) <= a /\ Min({a, b}) <= b
  <2>1. \E x \in {a, b} : \A y \in {a, b} : x >= y
    OBVIOUS
  <2>2. \E x \in {a, b} : \A y \in {a, b} : x =< y
    OBVIOUS
  <2>. QED
    BY <2>1, <2>2 DEF Max, Min
<1>. QED
  BY <1>1

(* A range is exactly the days in it that have a value, wherever it lies.    *)
LEMMA RangesFollow == MarketInv => RangeAgreesWithLookups
<1>. SUFFICES ASSUME MarketInv, serving, NEW s \in Series,
                     NEW from \in Day \cup {FirstDay, LastDay}, NEW to \in Day \cup {FirstDay, LastDay}
              PROVE  GetRange(s, from, to) =
                       {[day |-> d, value |-> row[s][d]] :
                          d \in {e \in Day \cap (from .. to) : row[s][e] # Missing}}
  BY DEF RangeAgreesWithLookups
<1>. USE DEF MarketInv
<1>1. from \in Int /\ to \in Int /\ base_day \in Int /\ num_days \in Nat
  BY DaysAreIntegers, DayAssumption DEF MarketTypeOK
<1>2. \A d \in Day : d \in Int /\ Get(s, d) = row[s][d]
  BY DaysAreIntegers DEF LookupIsLastWrite
<1>3. CASE s \notin DOMAIN history
  <2>1. \A d \in Day : row[s][d] = Missing
    BY <1>2, <1>3 DEF Get
  <2>. QED
    BY <1>3, <2>1 DEF GetRange
<1>4. CASE s \in DOMAIN history
  <2>. DEFINE start == Max({from - base_day, 0})
              found == DOMAIN history[s] \cap (start .. RangeEnd(to) - 1)
              days == {e \in Day \cap (from .. to) : row[s][e] # Missing}
  <2>1. \A i \in DOMAIN history[s] :
          /\ i \in 0 .. num_days - 1
          /\ base_day + i \in Day
          /\ history[s][i] \in Value
    BY <1>4 DEF MarketTypeOK, ArraysHoldDays
  <2>2. \A i \in DOMAIN history[s] :
          /\ row[s][base_day + i] = history[s][i]
          /\ row[s][base_day + i] # Missing
    <3>. TAKE i \in DOMAIN history[s]
    <3>. DEFINE d == base_day + i
    <3>1. i \in Int /\ i \in 0 .. num_days - 1 /\ d \in Day /\ history[s][i] \in Value
      BY <1>1, <2>1
    <3>2. d - base_day = i
      BY <1>1, <3>1
    <3>. HIDE DEF d
    <3>3. Get(s, d) = history[s][i]
      BY <1>4, <3>1, <3>2 DEF Get, InAxis
    <3>4. row[s][d] = history[s][i] /\ row[s][d] # Missing
      BY <1>2, <3>1, <3>3, MissingAssumption
    <3>. QED
      BY <3>4 DEF d
  <2>3. \A i \in DOMAIN history[s] :
          i \in start .. RangeEnd(to) - 1 <=> base_day + i \in from .. to
    <3>. TAKE i \in DOMAIN history[s]
    <3>1. start = IF from - base_day >= 0 THEN from - base_day ELSE 0
      BY <1>1, RangeClamped, from - base_day \in Int, 0 \in Int
    <3>2. Max({to - base_day + 1, 0}) = IF to - base_day + 1 >= 0 THEN to - base_day + 1 ELSE 0
      BY <1>1, RangeClamped, to - base_day + 1 \in Int, 0 \in Int
    <3>. DEFINE upto == Max({to - base_day + 1, 0})
    <3>3. upto \in Int /\ num_days \in Int
      BY <1>1, <3>2
    <3>4. RangeEnd(to) = IF upto <= num_days THEN upto ELSE num_days
      <4>. HIDE DEF upto
      <4>1. Min({upto, num_days}) = IF upto <= num_days THEN upto ELSE num_days
        BY <3>3, RangeClamped
      <4>. QED
        BY <4>1 DEF RangeEnd, upto
    <3>. QED
      BY <1>1, <2>1, <3>1, <3>2, <3>4
  <2>4. \A d \in days : d - base_day \in found /\ d = base_day + (d - base_day)
    <3>. TAKE d \in days
    <3>1. d \in Day /\ d \in Int /\ d \in from .. to /\ row[s][d] # Missing
      BY <1>2
    <3>2. d - base_day \in DOMAIN history[s]
      <4>1. Get(s, d) # Missing
        BY <1>2, <3>1
      <4>. QED
        BY <4>1 DEF Get
    <3>3. d = base_day + (d - base_day)
      BY <1>1, <3>1
    <3>4. d - base_day \in start .. RangeEnd(to) - 1
      <4>. HIDE DEF start
      <4>. QED
        BY <2>3, <3>1, <3>2, <3>3
    <3>. HIDE DEF start
    <3>. QED
      BY <3>2, <3>3, <3>4
  <2>5. \A i \in found : base_day + i \in days /\ row[s][base_day + i] = history[s][i]
    BY <2>1, <2>2, <2>3
  <2>6. GetRange(s, from, to) = {[day |-> base_day + i, value |-> history[s][i]] : i \in found}
    BY <1>4 DEF GetRange
  <2>7. \A d \in days : history[s][d - base_day] = row[s][d]
    BY <2>4, <2>5
  <2>. HIDE DEF found, days
  <2>8. {[day |-> base_day + i, value |-> history[s][i]] : i \in found}
          = {[day |-> d, value |-> row[s][d]] : d \in days}
    <3>. DEFINE at(i) == [day |-> base_day + i, value |-> history[s][i]]
                on(d) == [day |-> d, value |-> row[s][d]]
    <3>1. \A i \in found : on(base_day + i) = at(i)
      BY <2>5
    <3>2. \A d \in days : at(d - base_day) = on(d)
      BY <2>4, <2>7
    <3>. HIDE DEF at, on
    <3>3. {at(i) : i \in found} = {on(d) : d \in days}
      BY <2>4, <2>5, <3>1, <3>2
    <3>. QED
      BY <3>3 DEF at, on
  <2>. QED
    BY <2>6, <2>8 DEF days
<1>. QED
  BY <1>3, <1>4

(* get_price_history and get_fx_rate_history_range answer with exactly the   *)
(* days of the range that have a value, wherever the range lies.            *)
THEOREM RangesAreExact == Spec => []RangeAgreesWithLookups
<1>1. Inv => RangeAgreesWithLookups
  BY RangesFollow DEF Inv
<1>. QED
  BY <1>1, PortfolioInvariant, PTL

-----------------------------------------------------------------------------
LEMMA SameSize ==
  ASSUME NEW S, NEW T, IsFiniteSet(S), NEW f \in [S -> T],
         \A x, y \in S : f[x] = f[y] => x = y,
         \A t \in T : \E x \in S : f[x] = t
  PROVE  IsFiniteSet(T) /\ Cardinality(T) = Cardinality(S)
<1>1. f \in Bijection(S, T)
  BY DEF Bijection, Injection, Surjection, IsInjective
<1>. QED
  BY <1>1, FS_Bijection DEF ExistsBijection

(* The array of a series and the days that are known of it are the same,     *)
(* shifted by the start of the axis.                                        *)
LEMMA ArrayIsKnown ==
  ASSUME MarketInv, serving, NEW s \in Series
  PROVE  /\ s \notin DOMAIN history => Known(s) = {}
         /\ s \in DOMAIN history =>
              /\ Known(s) # {}
              /\ \A i \in DOMAIN history[s] :
                   i \in Int /\ base_day + i \in Known(s) /\ row[s][base_day + i] = history[s][i]
              /\ \A d \in Known(s) :
                   d \in Int /\ d - base_day \in DOMAIN history[s] /\ history[s][d - base_day] = row[s][d]
<1>. USE DEF MarketInv
<1>1. base_day \in Int /\ num_days \in Nat
  BY DEF MarketTypeOK
<1>2. \A d \in Day : d \in Int /\ Get(s, d) = row[s][d]
  BY DaysAreIntegers DEF LookupIsLastWrite
<1>3. \A d \in Known(s) :
        /\ d \in Day /\ d \in Int
        /\ s \in DOMAIN history /\ d - base_day \in DOMAIN history[s] /\ history[s][d - base_day] = row[s][d]
  BY <1>2 DEF Known, Get
<1>4. ASSUME s \in DOMAIN history, NEW i \in DOMAIN history[s]
      PROVE  i \in Int /\ base_day + i \in Known(s) /\ row[s][base_day + i] = history[s][i]
  <2>. DEFINE d == base_day + i
  <2>1. i \in Int /\ i \in 0 .. num_days - 1 /\ d \in Day /\ history[s][i] \in Value
    BY <1>1, <1>4 DEF MarketTypeOK, ArraysHoldDays
  <2>2. d - base_day = i
    BY <1>1, <2>1
  <2>. HIDE DEF d
  <2>3. Get(s, d) = history[s][i]
    BY <1>4, <2>1, <2>2 DEF Get, InAxis
  <2>4. row[s][d] = history[s][i] /\ d \in Known(s)
    BY <1>2, <2>1, <2>3, MissingAssumption DEF Known
  <2>. QED
    BY <2>1, <2>4 DEF d
<1>5. s \in DOMAIN history => Known(s) # {}
  BY <1>4 DEF ArraysHoldDays
<1>. QED
  BY <1>3, <1>4, <1>5

LEMMA PointsCounted ==
  ASSUME MarketInv, serving, NEW s \in Series, s \in DOMAIN history
  PROVE  IsFiniteSet(Known(s)) /\ Cardinality(Known(s)) = data_points(s) /\ data_points(s) # 0
<1>. DEFINE f == [i \in DOMAIN history[s] |-> base_day + i]
<1>1. base_day \in Int /\ num_days \in Int /\ DOMAIN history[s] \subseteq 0 .. num_days - 1
  BY DEF MarketInv, MarketTypeOK
<1>2. IsFiniteSet(DOMAIN history[s])
  <2>1. IsFiniteSet(0 .. num_days - 1)
    BY <1>1, FS_Interval, 0 \in Int, num_days - 1 \in Int
  <2>. QED
    BY <1>1, <2>1, FS_Subset
<1>3. f \in [DOMAIN history[s] -> Known(s)]
  BY ArrayIsKnown
<1>4. \A x, y \in DOMAIN history[s] : f[x] = f[y] => x = y
  BY <1>1, ArrayIsKnown
<1>5. \A d \in Known(s) : \E i \in DOMAIN history[s] : f[i] = d
  <2>. TAKE d \in Known(s)
  <2>1. d \in Int /\ d - base_day \in DOMAIN history[s]
    BY ArrayIsKnown
  <2>2. f[d - base_day] = d
    BY <1>1, <2>1
  <2>. QED
    BY <2>1, <2>2
<1>. HIDE DEF f
<1>6. IsFiniteSet(Known(s)) /\ Cardinality(Known(s)) = Cardinality(DOMAIN history[s])
  BY <1>2, <1>3, <1>4, <1>5, SameSize
<1>7. Cardinality(Known(s)) # 0
  BY <1>6, ArrayIsKnown, FS_EmptySet
<1>. QED
  BY <1>6, <1>7 DEF data_points

LEMMA LatestKnown ==
  ASSUME MarketInv, serving, NEW s \in Series, s \in DOMAIN history
  PROVE  Latest(s) = {row[s][d] : d \in {e \in Known(s) : \A f \in Known(s) : f <= e}}
<1>. DEFINE last == {j \in DOMAIN history[s] : \A k \in DOMAIN history[s] : k <= j}
            latest == {e \in Known(s) : \A f \in Known(s) : f <= e}
<1>1. base_day \in Int
  BY DEF MarketInv, MarketTypeOK
<1>2. \A i \in last : base_day + i \in latest /\ row[s][base_day + i] = history[s][i]
  <2>. TAKE i \in last
  <2>1. i \in Int /\ base_day + i \in Known(s) /\ row[s][base_day + i] = history[s][i]
    BY ArrayIsKnown
  <2>2. ASSUME NEW f \in Known(s) PROVE f <= base_day + i
    <3>1. f \in Int /\ f - base_day \in DOMAIN history[s]
      BY ArrayIsKnown
    <3>2. f - base_day <= i
      BY <3>1
    <3>. QED
      BY <1>1, <2>1, <3>1, <3>2
  <2>. QED
    BY <2>1, <2>2
<1>3. \A d \in latest : d - base_day \in last /\ history[s][d - base_day] = row[s][d]
  <2>. TAKE d \in latest
  <2>1. d \in Int /\ d - base_day \in DOMAIN history[s] /\ history[s][d - base_day] = row[s][d]
    BY ArrayIsKnown
  <2>2. ASSUME NEW k \in DOMAIN history[s] PROVE k <= d - base_day
    <3>1. k \in Int /\ base_day + k \in Known(s)
      BY ArrayIsKnown
    <3>2. base_day + k <= d
      BY <3>1
    <3>. QED
      BY <1>1, <2>1, <3>1, <3>2
  <2>. QED
    BY <2>1, <2>2
<1>. HIDE DEF last, latest
<1>4. {history[s][i] : i \in last} = {row[s][d] : d \in latest}
  BY <1>2, <1>3
<1>. QED
  BY <1>4 DEF Latest, last, latest

(* The chart over all dates there are has a point for every known day.       *)
LEMMA ChartCounted ==
  ASSUME MarketInv, serving, NEW s \in Series, IsFiniteSet(Known(s))
  PROVE  Cardinality(GetRange(s, FirstDay, LastDay)) = Cardinality(Known(s))
<1>. DEFINE f == [d \in Known(s) |-> [day |-> d, value |-> row[s][d]]]
            chart == {[day |-> d, value |-> row[s][d]] : d \in Known(s)}
<1>1. {e \in Day \cap (FirstDay .. LastDay) : row[s][e] # Missing} = Known(s)
  BY DayAssumption DEF Known
<1>2. GetRange(s, FirstDay, LastDay) =
        {[day |-> d, value |-> row[s][d]] :
           d \in {e \in Day \cap (FirstDay .. LastDay) : row[s][e] # Missing}}
  BY RangesFollow DEF RangeAgreesWithLookups
<1>3. GetRange(s, FirstDay, LastDay) = chart
  BY <1>1, <1>2
<1>4. f \in [Known(s) -> chart]
  OBVIOUS
<1>5. \A x, y \in Known(s) : f[x] = f[y] => x = y
  <2>. TAKE x, y \in Known(s)
  <2>1. f[x].day = x /\ f[y].day = y
    OBVIOUS
  <2>. QED
    BY <2>1
<1>6. \A p \in chart : \E d \in Known(s) : f[d] = p
  OBVIOUS
<1>. HIDE DEF f, chart
<1>7. Cardinality(chart) = Cardinality(Known(s))
  BY <1>4, <1>5, <1>6, SameSize
<1>. QED
  BY <1>3, <1>7

LEMMA ListingsFollow == MarketInv => ListingsAgree
<1>. SUFFICES ASSUME MarketInv, serving
              PROVE  /\ list_fx_rates =
                          {[pair |-> s, data_points |-> Cardinality(Known(s)),
                            latest_rate |-> {row[s][d] : d \in {e \in Known(s) : \A f \in Known(s) : f <= e}}] :
                           s \in {t \in Pair : Known(t) # {}}}
                     /\ \A s \in Pair :
                          {r.data_points : r \in data_fx_rates(s[1], s[2])} =
                            {Cardinality(fx_rate_history(s[1], s[2], FirstDay, LastDay))} \ {0}
  BY DEF ListingsAgree
<1>. DEFINE listed(s) == [pair |-> s, data_points |-> data_points(s), latest_rate |-> Latest(s)]
            known(s) == [pair |-> s, data_points |-> Cardinality(Known(s)),
                         latest_rate |-> {row[s][d] : d \in {e \in Known(s) : \A f \in Known(s) : f <= e}}]
<1>1. DOMAIN history \cap Pair = {t \in Pair : Known(t) # {}}
  BY ArrayIsKnown DEF Series
<1>2. \A s \in DOMAIN history \cap Pair : listed(s) = known(s)
  BY PointsCounted, LatestKnown DEF Series
<1>3. list_fx_rates = {listed(s) : s \in DOMAIN history \cap Pair}
  BY DEF list_fx_rates
<1>4. \A s : listed(s).pair = s /\ listed(s).data_points = data_points(s)
  OBVIOUS
<1>. HIDE DEF listed, known
<1>5. list_fx_rates = {known(s) : s \in {t \in Pair : Known(t) # {}}}
  BY <1>1, <1>2, <1>3
<1>6. ASSUME NEW s \in Pair
      PROVE  {r.data_points : r \in data_fx_rates(s[1], s[2])} =
               {Cardinality(fx_rate_history(s[1], s[2], FirstDay, LastDay))} \ {0}
  <2>1. s \in Series /\ s[1] \in Currency /\ s[2] \in Currency /\ s = <<s[1], s[2]>>
    BY PairAssumption DEF Series
  <2>2. \A t \in Pair : s[1] = t[1] /\ s[2] = t[2] => t = s
    <3>1. \A t \in Pair : t = <<t[1], t[2]>>
      BY PairAssumption
    <3>. QED
      BY <2>1, <3>1
  <2>3. data_fx_rates(s[1], s[2]) = {r \in list_fx_rates : r.pair = s}
    <3>1. \A r \in list_fx_rates : r.pair \in Pair
      BY <1>3, <1>4
    <3>. QED
      BY <2>1, <2>2, <3>1, MissingAssumption DEF data_fx_rates
  <2>4. data_fx_rates(s[1], s[2]) = {listed(t) : t \in DOMAIN history \cap {s}}
    BY <1>3, <1>4, <2>3
  <2>5. {r.data_points : r \in data_fx_rates(s[1], s[2])} = {data_points(t) : t \in DOMAIN history \cap {s}}
    BY <1>4, <2>4
  <2>6. fx_rate_history(s[1], s[2], FirstDay, LastDay) = GetRange(s, FirstDay, LastDay)
    BY <2>1 DEF fx_rate_history
  <2>7. CASE s \in DOMAIN history
    <3>1. Cardinality(GetRange(s, FirstDay, LastDay)) = data_points(s) /\ data_points(s) # 0
      BY <2>1, <2>7, PointsCounted, ChartCounted
    <3>. QED
      BY <2>5, <2>6, <2>7, <3>1
  <2>8. CASE s \notin DOMAIN history
    <3>1. GetRange(s, FirstDay, LastDay) = {}
      BY <2>8 DEF GetRange
    <3>. QED
      BY <2>5, <2>6, <2>8, <3>1, FS_EmptySet
  <2>. QED
    BY <2>7, <2>8
<1>. QED
  BY <1>5, <1>6 DEF known

(* Whatever was added and updated before, look-ups, charts and the list of   *)
(* rates all show exactly what was accepted.                                *)
THEOREM ReadsAreExact == Spec => []ReadsAgree
<1>1. Inv => ReadsAgree
  BY RangesFollow, ListingsFollow DEF Inv, MarketInv, ReadsAgree
<1>. QED
  BY <1>1, PortfolioInvariant, PTL

-----------------------------------------------------------------------------
(* Aggregation.  A book is what the loop has of the trades it has seen.      *)

Book ==
  [net : UNION {[D -> [quantity : Int, currency : Currency]] : D \in SUBSET Instrument},
   conflict : BOOLEAN]

(* The places of the trades of the first k that are not later than date.    *)
Until(ts, date, k) == {m \in 1 .. k : ts[m].day <= date}

(* An instrument was traded in two currencies.                              *)
Clash(ts, places) ==
  \E m, l \in places : ts[m].instrument = ts[l].instrument /\ ts[m].currency # ts[l].currency

Quantities(ts) == [m \in DOMAIN ts |-> ts[m].quantity]

(* The places of the trades of one instrument, and what they net to.        *)
Dealt(ts, places, i) == {m \in places : ts[m].instrument = i}

NetQuantity(ts, places, i) == SumFunctionOnSet(Quantities(ts), Dealt(ts, places, i))

(* What the loop holds of the trades at some places: an instrument for each *)
(* one traded, in a currency it was traded in; the net quantities are right *)
(* while no conflict was met.                                               *)
BookOf(ts, places, b) ==
  /\ b \in Book
  /\ DOMAIN b.net = {ts[m].instrument : m \in places}
  /\ \A i \in DOMAIN b.net :
       \E m \in places : ts[m].instrument = i /\ ts[m].currency = b.net[i].currency
  /\ b.conflict <=> Clash(ts, places)
  /\ ~ b.conflict => \A i \in DOMAIN b.net : b.net[i].quantity = NetQuantity(ts, places, i)

LEMMA TradeFields ==
  ASSUME NEW t \in Trade
  PROVE  /\ t.account \in Account /\ t.instrument \in Instrument
         /\ t.quantity \in Int /\ t.currency \in Currency /\ t.day \in Int
BY TradeAssumption

(* The parts of a book.                                                     *)
LEMMA BookFields ==
  ASSUME NEW b \in Book
  PROVE  /\ b = [net |-> b.net, conflict |-> b.conflict]
         /\ b.conflict \in BOOLEAN
         /\ DOMAIN b.net \in SUBSET Instrument
         /\ b.net \in [DOMAIN b.net -> [quantity : Int, currency : Currency]]
<1>1. PICK D \in SUBSET Instrument : b.net \in [D -> [quantity : Int, currency : Currency]]
  BY DEF Book
<1>2. b = [net |-> b.net, conflict |-> b.conflict] /\ b.conflict \in BOOLEAN
  BY DEF Book
<1>3. DOMAIN b.net = D
  BY <1>1
<1> QED BY <1>1, <1>2, <1>3

LEMMA MakeBook ==
  ASSUME NEW D \in SUBSET Instrument, NEW f \in [D -> [quantity : Int, currency : Currency]],
         NEW c \in BOOLEAN
  PROVE  [net |-> f, conflict |-> c] \in Book
BY DEF Book

(* A trade leaves a book a book.                                            *)
LEMMA NetType ==
  ASSUME NEW b \in Book, NEW t \in Trade
  PROVE  Net(b, t) \in Book
<1> DEFINE i == t.instrument
<1>1. i \in Instrument /\ t.quantity \in Int /\ t.currency \in Currency
  BY TradeFields
<1>2. /\ b = [net |-> b.net, conflict |-> b.conflict] /\ b.conflict \in BOOLEAN
      /\ DOMAIN b.net \in SUBSET Instrument
      /\ b.net \in [DOMAIN b.net -> [quantity : Int, currency : Currency]]
  BY BookFields
<1>3. CASE i \notin DOMAIN b.net
  <2> DEFINE f == [j \in DOMAIN b.net \cup {i} |->
                     IF j = i THEN [quantity |-> t.quantity, currency |-> t.currency] ELSE b.net[j]]
  <2>1. f \in [DOMAIN b.net \cup {i} -> [quantity : Int, currency : Currency]]
    BY <1>1, <1>2
  <2>2. DOMAIN b.net \cup {i} \in SUBSET Instrument
    BY <1>1, <1>2
  <2>3. Net(b, t) = [net |-> f, conflict |-> b.conflict]
    BY <1>3 DEF Net
  <2> HIDE DEF f
  <2> QED BY <1>2, <2>1, <2>2, <2>3, MakeBook
<1>4. CASE i \in DOMAIN b.net /\ b.net[i].currency = t.currency
  <2> DEFINE f == [b.net EXCEPT ![i].quantity = @ + t.quantity]
  <2>1. b.net[i] \in [quantity : Int, currency : Currency]
    BY <1>2, <1>4
  <2> DEFINE e == [b.net[i] EXCEPT !.quantity = @ + t.quantity]
  <2>2. f \in [DOMAIN b.net -> [quantity : Int, currency : Currency]]
    <3>1. e \in [quantity : Int, currency : Currency]
      BY <1>1, <2>1
    <3>2. f = [b.net EXCEPT ![i] = e]
      BY <1>2
    <3> HIDE DEF e, f
    <3> QED BY <1>2, <1>4, <3>1, <3>2
  <2>3. Net(b, t) = [net |-> f, conflict |-> b.conflict]
    BY <1>2, <1>4 DEF Net
  <2> HIDE DEF f
  <2> QED BY <1>2, <2>2, <2>3, MakeBook
<1>5. CASE i \in DOMAIN b.net /\ b.net[i].currency # t.currency
  <2>1. Net(b, t) = [net |-> b.net, conflict |-> TRUE]
    BY <1>2, <1>5 DEF Net
  <2> QED BY <1>2, <2>1, MakeBook
<1> QED BY <1>3, <1>4, <1>5

(* One more trade. *)
LEMMA NetBooks ==
  ASSUME NEW ts \in Seq(Trade), NEW places \in SUBSET DOMAIN ts, IsFiniteSet(places),
         NEW n \in DOMAIN ts, n \notin places, NEW b, BookOf(ts, places, b)
  PROVE  BookOf(ts, places \cup {n}, Net(b, ts[n]))
<1> DEFINE t == ts[n]
           i == t.instrument
           more == places \cup {n}
           c == Net(b, t)
<1>1. \A m \in DOMAIN ts : /\ ts[m] \in Trade /\ ts[m].instrument \in Instrument
                           /\ ts[m].quantity \in Int /\ ts[m].currency \in Currency
  BY TradeFields
<1>2. /\ b = [net |-> b.net, conflict |-> b.conflict] /\ b.conflict \in BOOLEAN
      /\ DOMAIN b.net \in SUBSET Instrument
      /\ b.net \in [DOMAIN b.net -> [quantity : Int, currency : Currency]]
  BY BookFields DEF BookOf
<1>3. c \in Book
  BY <1>1, NetType DEF BookOf
<1>4. /\ DOMAIN b.net = {ts[m].instrument : m \in places}
      /\ \A j \in DOMAIN b.net :
           \E m \in places : ts[m].instrument = j /\ ts[m].currency = b.net[j].currency
      /\ b.conflict <=> Clash(ts, places)
      /\ ~ b.conflict => \A j \in DOMAIN b.net : b.net[j].quantity = NetQuantity(ts, places, j)
  BY DEF BookOf
<1>5. /\ \A j : j # i => Dealt(ts, more, j) = Dealt(ts, places, j)
      /\ Dealt(ts, more, i) = Dealt(ts, places, i) \cup {n} /\ n \notin Dealt(ts, places, i)
  BY DEF Dealt
<1>6. /\ \A j : j # i => NetQuantity(ts, more, j) = NetQuantity(ts, places, j)
      /\ NetQuantity(ts, more, i) = t.quantity + NetQuantity(ts, places, i)
  <2>1. IsFiniteSet(Dealt(ts, places, i)) /\ Dealt(ts, places, i) \in SUBSET DOMAIN ts
    BY FS_Subset DEF Dealt
  <2>2. \A m \in DOMAIN ts : Quantities(ts)[m] = ts[m].quantity /\ Quantities(ts)[m] \in Int
    BY <1>1 DEF Quantities
  <2>3. \A m \in Dealt(ts, places, i) \cup {n} : Quantities(ts)[m] \in Int
    BY <2>1, <2>2
  <2>4. SumFunctionOnSet(Quantities(ts), Dealt(ts, places, i) \cup {n}) =
          Quantities(ts)[n] + SumFunctionOnSet(Quantities(ts), Dealt(ts, places, i))
    BY <1>5, <2>1, <2>3, SumAdd
  <2> QED BY <1>5, <2>2, <2>4 DEF NetQuantity
<1>7. CASE i \notin DOMAIN b.net
  <2>1. /\ c.conflict = b.conflict
        /\ DOMAIN c.net = DOMAIN b.net \cup {i}
        /\ c.net[i] = [quantity |-> t.quantity, currency |-> t.currency]
        /\ \A j \in DOMAIN b.net : c.net[j] = b.net[j]
    BY <1>7 DEF Net
  <2> HIDE DEF c
  <2>2. DOMAIN c.net = {ts[m].instrument : m \in more}
    BY <1>4, <2>1
  <2>3. \A j \in DOMAIN c.net :
          \E m \in more : ts[m].instrument = j /\ ts[m].currency = c.net[j].currency
    BY <1>4, <2>1
  <2>4. \A m \in places : ts[m].instrument # i
    BY <1>4, <1>7
  <2>5. Clash(ts, more) <=> Clash(ts, places)
    BY <2>4 DEF Clash
  <2>6. NetQuantity(ts, places, i) = 0
    <3>1. Dealt(ts, places, i) = {}
      BY <2>4 DEF Dealt
    <3> QED BY <3>1, SumEmpty DEF NetQuantity
  <2>7. NetQuantity(ts, more, i) = t.quantity
    BY <1>1, <1>6, <2>6
  <2>8. ~ c.conflict => \A j \in DOMAIN c.net : c.net[j].quantity = NetQuantity(ts, more, j)
    <3>1. c.net[i].quantity = NetQuantity(ts, more, i)
      BY <2>1, <2>7
    <3>2. ~ c.conflict => \A j \in DOMAIN b.net : c.net[j].quantity = NetQuantity(ts, more, j)
      BY <1>4, <1>6, <1>7, <2>1
    <3> QED BY <2>1, <3>1, <3>2
  <2> QED BY <1>3, <1>4, <2>1, <2>2, <2>3, <2>5, <2>8 DEF BookOf, c
<1>8. CASE i \in DOMAIN b.net /\ b.net[i].currency = t.currency
  <2>0. b.net[i] \in [quantity : Int, currency : Currency]
    BY <1>2, <1>8
  <2>1. /\ c.conflict = b.conflict
        /\ DOMAIN c.net = DOMAIN b.net
        /\ c.net[i].quantity = b.net[i].quantity + t.quantity
        /\ c.net[i].currency = b.net[i].currency
        /\ \A j \in DOMAIN b.net : j # i => c.net[j] = b.net[j]
    BY <1>2, <1>8, <2>0 DEF Net
  <2> HIDE DEF c
  <2>2. DOMAIN c.net = {ts[m].instrument : m \in more}
    BY <1>4, <1>8, <2>1
  <2>3. \A j \in DOMAIN c.net :
          \E m \in more : ts[m].instrument = j /\ ts[m].currency = c.net[j].currency
    BY <1>4, <2>1
  <2>4. PICK first \in places : ts[first].instrument = i /\ ts[first].currency = t.currency
    BY <1>4, <1>8
  <2>5. Clash(ts, more) <=> Clash(ts, places)
    BY <2>4 DEF Clash
  <2>6. ~ c.conflict => \A j \in DOMAIN c.net : c.net[j].quantity = NetQuantity(ts, more, j)
    <3>1. ~ b.conflict => c.net[i].quantity = NetQuantity(ts, more, i)
      <4>1. b.net[i].quantity \in Int /\ t.quantity \in Int
        BY <2>0, <1>1
      <4> QED BY <1>4, <1>6, <1>8, <2>1, <4>1
    <3>2. ~ b.conflict => \A j \in DOMAIN b.net : j # i => c.net[j].quantity = NetQuantity(ts, more, j)
      BY <1>4, <1>6, <2>1
    <3> QED BY <2>1, <3>1, <3>2
  <2> QED BY <1>3, <1>4, <2>1, <2>2, <2>3, <2>5, <2>6 DEF BookOf, c
<1>9. CASE i \in DOMAIN b.net /\ b.net[i].currency # t.currency
  <2>1. c.conflict = TRUE /\ c.net = b.net
    BY <1>2, <1>9 DEF Net
  <2> HIDE DEF c
  <2>2. DOMAIN c.net = {ts[m].instrument : m \in more}
    BY <1>4, <1>9, <2>1
  <2>3. \A j \in DOMAIN c.net :
          \E m \in more : ts[m].instrument = j /\ ts[m].currency = c.net[j].currency
    BY <1>4, <2>1
  <2>4. PICK first \in places : ts[first].instrument = i /\ ts[first].currency # t.currency
    BY <1>4, <1>9
  <2>5. Clash(ts, more)
    BY <2>4 DEF Clash
  <2> QED BY <1>3, <2>1, <2>2, <2>3, <2>5 DEF BookOf, c
<1> QED BY <1>7, <1>8, <1>9

(* A list of trades has finitely many places.                               *)
LEMMA PlacesFinite ==
  ASSUME NEW ts \in Seq(Trade)
  PROVE  IsFiniteSet(DOMAIN ts) /\ \A T \in SUBSET DOMAIN ts : IsFiniteSet(T)
<1>1. DOMAIN ts = 1 .. Len(ts) /\ Len(ts) \in Nat
  OBVIOUS
<1>2. IsFiniteSet(1 .. Len(ts))
  BY <1>1, FS_Interval
<1> QED BY <1>1, <1>2, FS_Subset

(* The state after each round. *)
NettedUp(ts, date, f) ==
  f = [n \in 0 .. Len(ts) |->
         IF n = 0 THEN [net |-> <<>>, conflict |-> FALSE]
         ELSE IF ts[n].day <= date THEN Net(f[n - 1], ts[n]) ELSE f[n - 1]]

(* The recursive function of the loop has the values its rounds give it.    *)
LEMMA NettedUpExists ==
  ASSUME NEW ts \in Seq(Trade), NEW date
  PROVE  \E f : NettedUp(ts, date, f)
<1> DEFINE n == Len(ts)
           first == [net |-> <<>>, conflict |-> FALSE]
           round == [x \in (1 .. n) \X Book |->
                       IF ts[x[1]].day <= date THEN Net(x[2], ts[x[1]]) ELSE x[2]]
<1>1. n \in Nat /\ \A k \in 1 .. n : ts[k] \in Trade
  OBVIOUS
<1>2. first \in Book
  <2>1. <<>> \in [{} -> [quantity : Int, currency : Currency]] /\ {} \in SUBSET Instrument
    OBVIOUS
  <2> QED BY <2>1, MakeBook
<1>3. \A k \in 1 .. n, b \in Book :
        /\ round[<<k, b>>] = IF ts[k].day <= date THEN Net(b, ts[k]) ELSE b
        /\ round[<<k, b>>] \in Book
  BY <1>1, NetType
<1> HIDE DEF first, n
<1> HIDE DEF round
<1>4. PICK f : IsLoop(f, n, Book, first, round)
  BY <1>1, <1>2, <1>3, LoopExists
<1>5. /\ f \in [0 .. n -> Book] /\ f[0] = first
      /\ \A k \in 1 .. n : f[k] = IF ts[k].day <= date THEN Net(f[k - 1], ts[k]) ELSE f[k - 1]
  <2>1. \A k \in 1 .. n : k - 1 \in 0 .. n
    BY <1>1
  <2> QED BY <1>3, <1>4, <2>1 DEF IsLoop
<1>6. \A k \in 0 .. n : k = 0 \/ k \in 1 .. n
  BY <1>1
<1>7. f = [k \in 0 .. n |-> IF k = 0 THEN first
                            ELSE IF ts[k].day <= date THEN Net(f[k - 1], ts[k]) ELSE f[k - 1]]
  BY <1>5, <1>6
<1> QED BY <1>7 DEF NettedUp, n, first

(* The loop of aggregate_positions ends with the book of the trades that are *)
(* not later than the date.                                                 *)
LEMMA NettedBooks ==
  ASSUME NEW ts \in Seq(Trade), NEW date
  PROVE  BookOf(ts, Until(ts, date, Len(ts)), Netted(ts, date))
<1> DEFINE n == Len(ts)
           f == CHOOSE g : NettedUp(ts, date, g)
           Good == {k \in 0 .. n : BookOf(ts, Until(ts, date, k), f[k])}
<1>1. Netted(ts, date) = f[n]
  BY Zenon DEF Netted, NettedUp
<1>2. NettedUp(ts, date, f)
  BY NettedUpExists
<1> HIDE DEF f
<1>3. n \in Nat /\ n \in 0 .. n /\ DOMAIN ts = 1 .. n
  OBVIOUS
<1>4. /\ f[0] = [net |-> <<>>, conflict |-> FALSE]
      /\ \A k \in 1 .. n : f[k] = IF ts[k].day <= date THEN Net(f[k - 1], ts[k]) ELSE f[k - 1]
  <2>1. 0 \in 0 .. n /\ \A k \in 1 .. n : k \in 0 .. n /\ k # 0
    BY <1>3
  <2> HIDE DEF n
  <2> QED BY <1>2, <2>1 DEF NettedUp, n
<1>5. 0 \in Good
  <2>1. Until(ts, date, 0) = {}
    BY DEF Until
  <2>2. f[0].net = <<>> /\ f[0].conflict = FALSE /\ DOMAIN f[0].net = {}
    BY <1>4
  <2>3. f[0] \in Book
    <3>1. <<>> \in [{} -> [quantity : Int, currency : Currency]] /\ {} \in SUBSET Instrument
      OBVIOUS
    <3> QED BY <1>4, <3>1, MakeBook
  <2>4. ~ Clash(ts, {})
    BY DEF Clash
  <2>5. DOMAIN f[0].net = {ts[m].instrument : m \in {}}
    BY <2>2
  <2>6. BookOf(ts, {}, f[0])
    BY <2>2, <2>3, <2>4, <2>5 DEF BookOf
  <2>7. BookOf(ts, Until(ts, date, 0), f[0])
    BY <2>1, <2>6
  <2>8. 0 \in 0 .. n
    BY <1>3
  <2> QED BY <2>7, <2>8
<1>6. ASSUME NEW k \in 0 .. n - 1, k \in Good
      PROVE  k + 1 \in Good
  <2> DEFINE places == Until(ts, date, k)
  <2>1. k + 1 \in 1 .. n /\ k + 1 - 1 = k /\ k \in Int /\ k + 1 \in 0 .. n
    BY <1>3
  <2>2. places \in SUBSET DOMAIN ts /\ k + 1 \notin places
    BY <1>3, <2>1 DEF Until
  <2>3. /\ ts[k + 1].day <= date => Until(ts, date, k + 1) = places \cup {k + 1}
        /\ ~ (ts[k + 1].day <= date) => Until(ts, date, k + 1) = places
    <3>1. \A m : m \in 1 .. k + 1 <=> m \in 1 .. k \/ m = k + 1
      BY <2>1
    <3> QED BY <3>1 DEF Until
  <2>4. BookOf(ts, places, f[k])
    BY <1>6
  <2>5. f[k + 1] = IF ts[k + 1].day <= date THEN Net(f[k], ts[k + 1]) ELSE f[k]
    BY <1>4, <2>1
  <2>6. BookOf(ts, Until(ts, date, k + 1), f[k + 1])
    <3> HIDE DEF places
    <3>1. CASE ts[k + 1].day <= date
      <4>1. IsFiniteSet(places)
        BY <2>2, PlacesFinite
      <4>2. BookOf(ts, places \cup {k + 1}, Net(f[k], ts[k + 1]))
        BY <1>3, <2>1, <2>2, <2>4, <4>1, NetBooks
      <4> QED BY <2>3, <2>5, <3>1, <4>2
    <3>2. CASE ~ (ts[k + 1].day <= date)
      BY <2>3, <2>4, <2>5, <3>2
    <3> QED BY <3>1, <3>2
  <2> QED BY <2>1, <2>6
<1>7. n \in Good
  <2> HIDE DEF Good
  <2> QED BY <1>3, <1>5, <1>6, CountInduction
<1> QED BY <1>1, <1>7

(* aggregate_positions refuses what was traded in two currencies, and else   *)
(* has a position for whatever does not net to zero.                        *)
Position(ts, places, m) ==
  [instrument |-> ts[m].instrument, quantity |-> NetQuantity(ts, places, ts[m].instrument),
   currency |-> ts[m].currency]

(* The places of the trades whose instrument does not net to zero.          *)
Open(ts, places) == {m \in places : NetQuantity(ts, places, ts[m].instrument) # 0}

(* aggregate_positions refuses two currencies of one instrument, and answers *)
(* with what does not net to zero otherwise.                                *)
LEMMA Aggregated ==
  ASSUME NEW ts \in Seq(Trade), NEW date
  PROVE  LET places == Until(ts, date, Len(ts)) IN
           /\ Clash(ts, places) => aggregate_positions(ts, date) = CurrencyConflict
           /\ ~ Clash(ts, places) =>
                aggregate_positions(ts, date) = Ok({Position(ts, places, m) : m \in Open(ts, places)})
<1> DEFINE places == Until(ts, date, Len(ts))
           all == Netted(ts, date)
           held == {i \in DOMAIN all.net : all.net[i].quantity # 0}
           position(i) == [instrument |-> i, quantity |-> all.net[i].quantity,
                           currency |-> all.net[i].currency]
<1>1. BookOf(ts, places, all)
  BY NettedBooks
<1>2. /\ all.conflict => aggregate_positions(ts, date) = CurrencyConflict
      /\ ~ all.conflict => aggregate_positions(ts, date) = Ok({position(i) : i \in held})
  BY DEF aggregate_positions
<1> HIDE DEF all, places
<1>3. ASSUME ~ Clash(ts, places)
      PROVE  {position(i) : i \in held} = {Position(ts, places, m) : m \in Open(ts, places)}
  <2>1. /\ DOMAIN all.net = {ts[m].instrument : m \in places}
        /\ \A i \in DOMAIN all.net :
             \E m \in places : ts[m].instrument = i /\ ts[m].currency = all.net[i].currency
        /\ \A i \in DOMAIN all.net : all.net[i].quantity = NetQuantity(ts, places, i)
    BY <1>1, <1>3 DEF BookOf
  <2>2. \A m \in places : ts[m].instrument \in DOMAIN all.net
                          /\ all.net[ts[m].instrument].currency = ts[m].currency
    BY <1>3, <2>1 DEF Clash
  <2>3. ASSUME NEW m \in Open(ts, places)
        PROVE  Position(ts, places, m) \in {position(i) : i \in held}
    <3>1. m \in places /\ NetQuantity(ts, places, ts[m].instrument) # 0
      BY DEF Open
    <3>2. ts[m].instrument \in held /\ Position(ts, places, m) = position(ts[m].instrument)
      BY <2>1, <2>2, <3>1 DEF Position
    <3> QED BY <3>2
  <2>4. ASSUME NEW i \in held
        PROVE  position(i) \in {Position(ts, places, m) : m \in Open(ts, places)}
    <3>1. PICK m \in places : ts[m].instrument = i /\ ts[m].currency = all.net[i].currency
      BY <2>1
    <3>2. m \in Open(ts, places) /\ Position(ts, places, m) = position(i)
      BY <2>1, <3>1 DEF Open, Position
    <3> QED BY <3>2
  <2> QED BY <2>3, <2>4
<1>4. all.conflict <=> Clash(ts, places)
  BY <1>1 DEF BookOf
<1> QED BY <1>2, <1>3, <1>4 DEF places

-----------------------------------------------------------------------------
(* Valuation and allocation.                                                *)

LEMMA AnswersAreNumbers ==
  ASSUME MarketInv
  PROVE  /\ \A s, d : Get(s, d) # Missing => Get(s, d) \in Int
         /\ \A i, d : get_price(i, d) # Missing => get_price(i, d) \in Int
         /\ \A from, to, d : get_fx_rate(from, to, d) # Missing => get_fx_rate(from, to, d) \in Int
<1>1. ASSUME NEW s, NEW d, Get(s, d) # Missing
      PROVE  Get(s, d) \in Int
  <2>1. s \in DOMAIN history /\ d - base_day \in DOMAIN history[s] /\ Get(s, d) = history[s][d - base_day]
    BY <1>1 DEF Get
  <2>2. history[s][d - base_day] \in Value
    BY <2>1 DEF MarketInv, MarketTypeOK
  <2> QED BY <2>1, <2>2, ValueAssumption
<1> QED BY <1>1 DEF get_price, get_fx_rate

(* What positions are: of an instrument each, in numbers. *)
Positions(ps) ==
  /\ IsFiniteSet(ps)
  /\ \A p \in ps : p.quantity \in Int /\ p.instrument \in Instrument
  /\ \A p, q \in ps : p.instrument = q.instrument => p = q

(* Aggregated positions are one per instrument, and finitely many.          *)
LEMMA AggregatedPositions ==
  ASSUME NEW ts \in Seq(Trade), NEW date, NEW places, places = Until(ts, date, Len(ts)),
         ~ Clash(ts, places)
  PROVE  Positions({Position(ts, places, m) : m \in Open(ts, places)})
<1>1. places \in SUBSET DOMAIN ts
  BY DEF Until
<1>2. IsFiniteSet(Open(ts, places)) /\ Open(ts, places) \in SUBSET places
  BY <1>1, PlacesFinite DEF Open
<1>3. IsFiniteSet({Position(ts, places, m) : m \in Open(ts, places)})
  <2> DEFINE h == [m \in Open(ts, places) |-> Position(ts, places, m)]
  <2>1. {Position(ts, places, m) : m \in Open(ts, places)} = {h[m] : m \in Open(ts, places)}
    OBVIOUS
  <2> HIDE DEF h
  <2> QED BY <1>2, <2>1, ImageFinite
<1>4. \A m \in DOMAIN ts : ts[m].instrument \in Instrument /\ ts[m].quantity \in Int
  BY TradeFields
<1>5. \A i : NetQuantity(ts, places, i) \in Int
  <2> TAKE i
  <2>1. Dealt(ts, places, i) \in SUBSET DOMAIN ts
    BY <1>1 DEF Dealt
  <2>2. IsFiniteSet(Dealt(ts, places, i))
    BY <2>1, PlacesFinite
  <2>3. \A m \in Dealt(ts, places, i) : Quantities(ts)[m] \in Int
    BY <1>4, <2>1 DEF Quantities
  <2> QED BY <2>2, <2>3, SumType DEF NetQuantity
<1>6. \A m, l \in Open(ts, places) :
        ts[m].instrument = ts[l].instrument => Position(ts, places, m) = Position(ts, places, l)
  BY <1>2 DEF Clash, Position
<1>7. \A m \in Open(ts, places) :
        /\ Position(ts, places, m).instrument = ts[m].instrument
        /\ Position(ts, places, m).quantity \in Int
        /\ ts[m].instrument \in Instrument
  BY <1>1, <1>2, <1>4, <1>5 DEF Position
<1> QED BY <1>3, <1>6, <1>7 DEF Positions

(* The valued positions add up to the total. *)
LEMMA ValuedAddUp ==
  ASSUME MarketInv, NEW ps, Positions(ps), NEW base, NEW date, NEW v, v = value_positions(ps, base, date)
  PROVE  /\ IsFiniteSet(v.positions)
         /\ \A r \in v.positions : r.amount \in Int /\ r.instrument \in Instrument
         /\ v.total = SumFunctionOnSet([r \in v.positions |-> r.amount], v.positions)
         /\ v.total \in Int
<1> DEFINE price(p) == get_price(p.instrument, date)
           rate(p) == get_fx_rate(p.currency, base, date)
           priced == {p \in ps : price(p) # Missing}
           valued == {p \in priced : rate(p) # Missing}
           amount(p) == p.quantity * price(p) * rate(p)
           h == [p \in valued |-> [instrument |-> p.instrument, amount |-> amount(p)]]
           f == [p \in valued |-> amount(p)]
           image == {h[p] : p \in valued}
           g == [r \in image |-> r.amount]
<1>1. v.positions = image /\ v.total = SumFunctionOnSet(f, valued)
  BY DEF value_positions
<1>2. valued \in SUBSET ps /\ IsFiniteSet(valued)
  <2>1. valued \in SUBSET ps
    OBVIOUS
  <2> HIDE DEF valued
  <2> QED BY <2>1, FS_Subset DEF Positions
<1>3. \A p \in valued : amount(p) \in Int
  <2> TAKE p \in valued
  <2>1. price(p) \in Int /\ rate(p) \in Int /\ p.quantity \in Int
    BY <1>2, AnswersAreNumbers DEF Positions
  <2> HIDE DEF price, rate
  <2> QED BY <2>1
<1>4. \A p, q \in valued : h[p] = h[q] => p = q
  <2>1. \A p \in valued : h[p].instrument = p.instrument
    OBVIOUS
  <2> HIDE DEF h, valued
  <2> QED BY <1>2, <2>1 DEF Positions
<1> HIDE DEF amount, valued
<1>5. \A p \in valued : h[p] \in image /\ h[p].amount = amount(p) /\ h[p].instrument = p.instrument
  OBVIOUS
<1> HIDE DEF h
<1>6. \A p \in valued : g[h[p]] = amount(p) /\ f[p] = g[h[p]]
  BY <1>5
<1>7. IsFiniteSet(image) /\ SumFunctionOnSet(g, image) = SumFunctionOnSet(f, valued)
  <2>1. OneToOne(h, valued, image)
    BY <1>4 DEF OneToOne
  <2>2. \A z \in image : g[z] \in Int
    BY <1>3, <1>5
  <2>3. \A p \in valued : f[p] = g[h[p]]
    BY <1>6
  <2> HIDE DEF g, f, image
  <2> QED BY <1>2, <2>1, <2>2, <2>3, SumOfImage
<1>8. \A r \in image : r.amount \in Int /\ r.instrument \in Instrument
  <2>1. \A p \in valued : p.instrument \in Instrument
    BY <1>2 DEF Positions
  <2> QED BY <1>3, <1>5, <2>1
<1>9. SumFunctionOnSet(f, valued) \in Int
  <2>1. \A p \in valued : f[p] \in Int
    BY <1>3
  <2> HIDE DEF f
  <2> QED BY <1>2, <2>1, SumType
<1> QED BY <1>1, <1>7, <1>8, <1>9

(* A type has the amounts of its instruments. *)
LEMMA TypeHas ==
  ASSUME NEW valued, IsFiniteSet(valued), \A r \in valued : r.amount \in Int /\ r.instrument \in Instrument,
         NEW t
  PROVE  AmountIn(type_allocation(valued), t) =
           SumFunctionOnSet([r \in valued |-> r.amount * OfType(t)[r.instrument]], valued)
<1> DEFINE f == [r \in valued |-> r.amount * OfType(t)[r.instrument]]
           of == {r \in valued : TypeOf[r.instrument] = t}
           g == [r \in of |-> r.amount]
<1>1. AmountIn(type_allocation(valued), t) = IF of = {} THEN 0 ELSE SumFunctionOnSet(g, of)
  <2>1. DOMAIN type_allocation(valued) = {TypeOf[r.instrument] : r \in valued}
    BY DEF type_allocation
  <2>2. t \in DOMAIN type_allocation(valued) <=> of # {}
    BY <2>1
  <2>3. t \in DOMAIN type_allocation(valued) => type_allocation(valued)[t] = SumFunctionOnSet(g, of)
    BY <2>1 DEF type_allocation
  <2> HIDE DEF g, of
  <2> QED BY <2>2, <2>3 DEF AmountIn
<1>2. \A r \in valued : f[r] = r.amount * (IF TypeOf[r.instrument] = t THEN 1 ELSE 0) /\ f[r] \in Int
  BY DEF OfType
<1>3. /\ \A r \in of : g[r] \in Int /\ g[r] = f[r]
      /\ \A r \in valued \ of : f[r] = 0
  BY <1>2
<1>4. of \in SUBSET valued /\ IsFiniteSet(of)
  BY FS_Subset
<1> HIDE DEF f, g, of
<1>5. SumFunctionOnSet(f, valued) = SumFunctionOnSet(f, of)
  BY <1>2, <1>3, <1>4, SumOfSupport
<1>6. SumFunctionOnSet(g, of) = SumFunctionOnSet(f, of)
  BY <1>3, <1>4, SumSame
<1> QED BY <1>1, <1>5, <1>6, SumEmpty DEF f

(* The shares of an instrument in one sector. *)
LEMMA SharesOfSector ==
  ASSUME NEW i \in Instrument, NEW k
  PROVE  LET S == {s \in Shares(i) : s[1] = k} IN
           /\ IsFiniteSet(Shares(i)) /\ IsFiniteSet(S)
           /\ \A s \in Shares(i) : s = <<s[1], s[2]>> /\ s[2] \in Int
           /\ SumFunctionOnSet([s \in S |-> s[2]], S) = OfSector(k)[i]
           /\ OfSector(k)[i] \in Int
<1> DEFINE S == {s \in Shares(i) : s[1] = k}
           q == [s \in S |-> s[2]]
           u == <<Uncategorized, 100>>
<1>1. IsFiniteSet(Shares(i)) /\ \A s \in Shares(i) : s = <<s[1], s[2]>> /\ s[2] \in Int
  <2>1. CASE Sectors[i] # {}
    BY <2>1, SectorsAssumption DEF Shares
  <2>2. CASE Sectors[i] = {}
    <3>1. Shares(i) = {u}
      BY <2>2 DEF Shares
    <3>2. IsFiniteSet({u})
      BY FS_Singleton
    <3> QED BY <3>1, <3>2
  <2> QED BY <2>1, <2>2
<1>2. IsFiniteSet(S) /\ \A s \in S : q[s] \in Int
  BY <1>1, FS_Subset
<1>3. SumFunctionOnSet(q, S) = OfSector(k)[i]
  <2>1. CASE Sectors[i] # {}
    BY <2>1 DEF Shares, OfSector
  <2>2. CASE Sectors[i] = {} /\ k = Uncategorized
    <3>1. S = {u} /\ q[u] = 100 /\ OfSector(k)[i] = 100
      BY <2>2 DEF Shares, OfSector
    <3>2. S \ {u} = {} /\ u \in S
      BY <3>1
    <3> HIDE DEF q, S, u
    <3>3. SumFunctionOnSet(q, S) = q[u] + SumFunctionOnSet(q, S \ {u})
      BY <1>2, <3>2, SumOne
    <3> QED BY <3>1, <3>2, <3>3, SumEmpty
  <2>3. CASE Sectors[i] = {} /\ k # Uncategorized
    <3>1. S = {} /\ OfSector(k)[i] = 0
      BY <2>3 DEF Shares, OfSector
    <3> HIDE DEF q, S
    <3> QED BY <3>1, SumEmpty
  <2> QED BY <2>1, <2>2, <2>3
<1>4. SumFunctionOnSet(q, S) \in Int
  <2> HIDE DEF q, S
  <2> QED BY <1>2, SumType
<1> QED BY <1>1, <1>2, <1>3, <1>4

(* The pairs of I are of one holder, who has a of each of the shares q. *)
HeldBy(I, r, S, f, a, q) ==
  /\ \A x \in I : \E s \in S : x = <<r, s>>
  /\ \A s \in S : <<r, s>> \in I /\ f[<<r, s>>] = a * q[s]

(* What is shared out comes to the shares that are given of it.             *)
LEMMA SharedOut ==
  ASSUME NEW S, IsFiniteSet(S), NEW q, \A s \in S : q[s] \in Int,
         NEW r, NEW a, a \in Int, NEW I, NEW f, HeldBy(I, r, S, f, a, q)
  PROVE  SumFunctionOnSet(f, I) = a * SumFunctionOnSet(q, S)
<1>0. /\ \A x \in I : \E s \in S : x = <<r, s>>
      /\ \A s \in S : <<r, s>> \in I /\ f[<<r, s>>] = a * q[s]
  BY DEF HeldBy
<1> DEFINE h == [s \in S |-> <<r, s>>]
           e == [s \in S |-> f[h[s]]]
<1>1. \A s \in S : h[s] = <<r, s>> /\ h[s] \in I
  BY <1>0
<1>2. \A s, t \in S : h[s] = h[t] => s = t
  BY <1>1
<1>3. \A x \in I : \E s \in S : h[s] = x
  BY <1>0, <1>1
<1>4. \A s \in S : e[s] = f[h[s]] /\ e[s] = a * q[s]
  BY <1>0, <1>1
<1> HIDE DEF h, e
<1>5. \A x \in I : f[x] \in Int
  <2> TAKE x \in I
  <2>1. PICK s \in S : x = <<r, s>>
    BY <1>0
  <2>2. f[x] = a * q[s] /\ q[s] \in Int
    BY <1>0, <2>1
  <2> QED BY <2>2
<1>6. SumFunctionOnSet(f, I) = SumFunctionOnSet(e, S)
  <2>1. OneToOne(h, S, I)
    BY <1>1, <1>2, <1>3 DEF OneToOne
  <2>2. \A s \in S : e[s] = f[h[s]]
    BY <1>4
  <2> QED BY <1>5, <2>1, <2>2, SumOfImage
<1>7. SumFunctionOnSet(e, S) = a * SumFunctionOnSet(q, S)
  <2>1. \A s \in S : q[s] \in Int /\ e[s] = a * q[s]
    BY <1>4
  <2> QED BY <2>1, SumTimes
<1> QED BY <1>6, <1>7

(* A sector has its share of every amount. *)
LEMMA SectorHas ==
  ASSUME NEW valued, IsFiniteSet(valued), \A r \in valued : r.amount \in Int /\ r.instrument \in Instrument,
         NEW k
  PROVE  AmountIn(sector_allocation(valued), k) =
           SumFunctionOnSet([r \in valued |-> r.amount * OfSector(k)[r.instrument]], valued)
<1> DEFINE share(r) == {<<r, s>> : s \in Shares(r.instrument)}
           parts == UNION {share(r) : r \in valued}
           of == {x \in parts : x[2][1] = k}
           f == [x \in of |-> x[1].amount * x[2][2]]
           d == [r \in valued |-> r.amount * OfSector(k)[r.instrument]]
<1>1. AmountIn(sector_allocation(valued), k) = IF of = {} THEN 0 ELSE SumFunctionOnSet(f, of)
  <2>1. DOMAIN sector_allocation(valued) = {x[2][1] : x \in parts}
    BY DEF sector_allocation
  <2>2. k \in DOMAIN sector_allocation(valued) =>
          sector_allocation(valued)[k] = SumFunctionOnSet(f, of)
    BY DEF sector_allocation
  <2> HIDE DEF parts
  <2>3. k \in DOMAIN sector_allocation(valued) <=> of # {}
    BY <2>1
  <2> HIDE DEF f, of
  <2> QED BY <2>2, <2>3 DEF AmountIn
<1>2. \A r \in valued : IsFiniteSet(share(r))
  <2> TAKE r \in valued
  <2> DEFINE S == Shares(r.instrument)
             h == [s \in S |-> <<r, s>>]
  <2>1. IsFiniteSet(S)
    <3>1. r.instrument \in Instrument
      OBVIOUS
    <3> QED BY <3>1, SharesOfSector
  <2>2. share(r) = {h[s] : s \in S}
    OBVIOUS
  <2> HIDE DEF h, S
  <2> QED BY <2>1, <2>2, ImageFinite
<1>3. IsFiniteSet(of)
  <2>1. IsFiniteSet({share(r) : r \in valued})
    <3> HIDE DEF share
    <3> DEFINE h == [r \in valued |-> share(r)]
    <3>1. {share(r) : r \in valued} = {h[r] : r \in valued}
      OBVIOUS
    <3> HIDE DEF h
    <3> QED BY <3>1, ImageFinite
  <2> HIDE DEF share
  <2>2. \A X \in {share(r) : r \in valued} : IsFiniteSet(X)
    BY <1>2
  <2>3. IsFiniteSet(parts)
    BY <2>1, <2>2, FS_UNION
  <2> HIDE DEF parts
  <2> QED BY <2>3, FS_Subset
<1>4. \A x \in of : /\ x[1] \in valued /\ x[2] \in Shares(x[1].instrument) /\ x[2][1] = k
                    /\ x = <<x[1], x[2]>>
  <2> TAKE x \in of
  <2>1. PICK r \in valued : x \in share(r)
    OBVIOUS
  <2>2. PICK s \in Shares(r.instrument) : x = <<r, s>>
    BY <2>1
  <2>3. x[1] = r /\ x[2] = s /\ x[2][1] = k
    BY <2>2
  <2> HIDE DEF of, parts, share
  <2> QED BY <2>2, <2>3
<1>5. \A r \in valued : \A s \in Shares(r.instrument) : s[1] = k => <<r, s>> \in of
  OBVIOUS
<1>6. \A x \in of : f[x] = x[1].amount * x[2][2] /\ f[x] \in Int
  <2> TAKE x \in of
  <2>1. x[1] \in valued /\ x[2] \in Shares(x[1].instrument)
    BY <1>4
  <2>2. x[1].amount \in Int /\ x[1].instrument \in Instrument
    BY <2>1
  <2>3. x[2][2] \in Int
    BY <2>1, <2>2, SharesOfSector
  <2>4. f[x] = x[1].amount * x[2][2]
    OBVIOUS
  <2> HIDE DEF of, f
  <2> QED BY <2>2, <2>3, <2>4
<1> HIDE DEF of
<1> DEFINE holder == [x \in of |-> x[1]]
           of2(r) == {x \in of : holder[x] = r}
           c == [r \in valued |-> SumFunctionOnSet(f, of2(r))]
<1>7. SumFunctionOnSet(f, of) = SumFunctionOnSet(c, valued)
  <2>1. \A x \in of : holder[x] \in valued
    BY <1>4
  <2> HIDE DEF holder, f
  <2> QED BY <1>3, <1>6, <2>1, SumOfParts
<1>8. ASSUME NEW r \in valued
      PROVE  c[r] = d[r] /\ c[r] \in Int
  <2> DEFINE i == r.instrument
             S == {s \in Shares(i) : s[1] = k}
             q == [s \in S |-> s[2]]
             I == of2(r)
  <2>1. \A x \in I : \E s \in S : x = <<r, s>>
    BY <1>4
  <2>2. /\ IsFiniteSet(S) /\ (\A s \in S : q[s] \in Int) /\ SumFunctionOnSet(q, S) = OfSector(k)[i]
        /\ OfSector(k)[i] \in Int
    <3>1. i \in Instrument
      OBVIOUS
    <3> HIDE DEF i
    <3> QED BY <3>1, SharesOfSector
  <2>3. \A s \in S : <<r, s>> \in I /\ f[<<r, s>>] = r.amount * q[s]
    <3> TAKE s \in S
    <3>1. <<r, s>> \in of
      BY <1>5
    <3>2. f[<<r, s>>] = r.amount * s[2]
      BY <1>6, <3>1
    <3> QED BY <3>1, <3>2
  <2>4. r.amount \in Int /\ c[r] = SumFunctionOnSet(f, I) /\ d[r] = r.amount * OfSector(k)[i]
    OBVIOUS
  <2> HIDE DEF S, q, I, f, c, d
  <2> DEFINE a0 == r.amount
  <2> HIDE DEF a0
  <2>5. a0 \in Int /\ HeldBy(I, r, S, f, a0, q)
    BY <2>1, <2>3, <2>4 DEF HeldBy, a0
  <2>6. SumFunctionOnSet(f, I) = a0 * SumFunctionOnSet(q, S)
    BY <2>2, <2>5, SharedOut
  <2> QED BY <2>2, <2>4, <2>5, <2>6 DEF a0
<1> HIDE DEF c, d, f
<1>9. SumFunctionOnSet(c, valued) = SumFunctionOnSet(d, valued)
  BY <1>8, SumSame
<1> QED BY <1>1, <1>7, <1>9, SumEmpty DEF d

-----------------------------------------------------------------------------
(* The trades that are loaded.                                              *)

(* Every place of flat is a place of one of the first k sequences. *)
SpreadOver(flat, seqs, k, place) ==
  /\ \A m \in DOMAIN flat :
       /\ place[m][1] \in 1 .. k /\ place[m][2] \in DOMAIN seqs[place[m][1]]
       /\ place[m] = <<place[m][1], place[m][2]>>
       /\ flat[m] = seqs[place[m][1]][place[m][2]]
  /\ \A m, l \in DOMAIN flat : place[m] = place[l] => m = l
  /\ \A j \in 1 .. k : \A n \in DOMAIN seqs[j] : \E m \in DOMAIN flat : place[m] = <<j, n>>

(* Appending the next sequence extends the places.                          *)
LEMMA OneMoreSequence ==
  ASSUME NEW X, NEW seqs \in Seq(Seq(X)), NEW k \in Nat, k + 1 \in DOMAIN seqs,
         NEW flat \in Seq(X), NEW place, SpreadOver(flat, seqs, k, place)
  PROVE  \E more : SpreadOver(flat \o seqs[k + 1], seqs, k + 1, more)
<1> DEFINE n == Len(flat)
           last == seqs[k + 1]
           both == flat \o last
           more == [m \in DOMAIN both |-> IF m <= n THEN place[m] ELSE <<k + 1, m - n>>]
<1>1. last \in Seq(X) /\ n \in Nat /\ Len(last) \in Nat
  OBVIOUS
<1>2. /\ DOMAIN both = 1 .. n + Len(last) /\ DOMAIN flat = 1 .. n /\ DOMAIN last = 1 .. Len(last)
      /\ \A m \in 1 .. n : both[m] = flat[m]
      /\ \A m \in 1 .. n + Len(last) : m > n => both[m] = last[m - n]
  BY <1>1
<1> HIDE DEF last, both, n
<1>3. \A m \in DOMAIN both :
        \/ m \in DOMAIN flat /\ more[m] = place[m] /\ both[m] = flat[m]
        \/ /\ m \notin DOMAIN flat /\ m - n \in DOMAIN last /\ more[m] = <<k + 1, m - n>>
           /\ both[m] = last[m - n]
  BY <1>1, <1>2
<1>4. \A m \in DOMAIN flat : m \in DOMAIN both
  BY <1>1, <1>2
<1> HIDE DEF more
<1>5. \A l \in DOMAIN last : n + l \in DOMAIN both /\ more[n + l] = <<k + 1, l>>
  <2> TAKE l \in DOMAIN last
  <2>0. l \in 1 .. Len(last)
    BY <1>2
  <2>1. l \in Nat /\ l >= 1 /\ l <= Len(last)
    BY <1>1, <2>0
  <2>2. n + l \in 1 .. n + Len(last)
    BY <1>1, <2>1
  <2>3. n + l \notin DOMAIN flat /\ (n + l) - n = l
    BY <1>1, <1>2, <2>1
  <2>4. n + l \in DOMAIN both
    BY <1>2, <2>2
  <2> DEFINE p == n + l
  <2>5. p - n = l /\ p \in DOMAIN both /\ p \notin DOMAIN flat
    BY <2>3, <2>4
  <2> HIDE DEF p
  <2>6. more[p] = <<k + 1, p - n>>
    BY <1>3, <2>5
  <2> QED BY <2>5, <2>6 DEF p
<1>6. \A m \in DOMAIN both :
        /\ more[m][1] \in 1 .. k + 1 /\ more[m][2] \in DOMAIN seqs[more[m][1]]
        /\ more[m] = <<more[m][1], more[m][2]>>
        /\ both[m] = seqs[more[m][1]][more[m][2]]
  <2> TAKE m \in DOMAIN both
  <2>1. CASE m \in DOMAIN flat /\ more[m] = place[m] /\ both[m] = flat[m]
    <3>1. 1 .. k \in SUBSET (1 .. k + 1)
      OBVIOUS
    <3> QED BY <2>1, <3>1 DEF SpreadOver
  <2>2. CASE m - n \in DOMAIN last /\ more[m] = <<k + 1, m - n>> /\ both[m] = last[m - n]
    <3>1. more[m][1] = k + 1 /\ more[m][2] = m - n /\ k + 1 \in 1 .. k + 1
      BY <2>2
    <3> QED BY <2>2, <3>1 DEF last
  <2> QED BY <1>3, <2>1, <2>2
<1>7. ASSUME NEW m \in DOMAIN both, NEW l \in DOMAIN both, more[m] = more[l]
      PROVE  m = l
  <2>1. \A i \in DOMAIN flat : place[i][1] # k + 1
    <3>1. \A j \in 1 .. k : j # k + 1
      OBVIOUS
    <3> QED BY <3>1 DEF SpreadOver
  <2>2. CASE m \in DOMAIN flat /\ more[m] = place[m]
    <3>1. l \in DOMAIN flat /\ more[l] = place[l]
      <4>1. more[m][1] # k + 1
        BY <2>1, <2>2
      <4>2. more[l][1] # k + 1
        BY <1>7, <4>1
      <4>3. l \notin DOMAIN flat => more[l][1] = k + 1
        BY <1>3
      <4> QED BY <1>3, <4>2, <4>3
    <3> QED BY <1>7, <2>2, <3>1 DEF SpreadOver
  <2>3. CASE m \notin DOMAIN flat /\ more[m] = <<k + 1, m - n>>
    <3>1. l \notin DOMAIN flat /\ more[l] = <<k + 1, l - n>>
      <4>1. more[m][1] = k + 1
        BY <2>3
      <4>2. more[l][1] = k + 1
        BY <1>7, <4>1
      <4>3. l \in DOMAIN flat => more[l] = place[l]
        BY <1>3
      <4>4. l \notin DOMAIN flat
        BY <2>1, <4>2, <4>3
      <4> QED BY <1>3, <4>4
    <3>2. more[m][2] = m - n /\ more[l][2] = l - n
      BY <2>3, <3>1
    <3>3. m - n = l - n
      BY <1>7, <3>2
    <3>4. m \in Int /\ l \in Int
      BY <1>1, <1>2
    <3> QED BY <1>1, <3>3, <3>4
  <2> QED BY <1>3, <2>2, <2>3
<1>8. ASSUME NEW j \in 1 .. k + 1, NEW i \in DOMAIN seqs[j]
      PROVE  \E m \in DOMAIN both : more[m] = <<j, i>>
  <2>1. CASE j = k + 1
    BY <1>5, <2>1 DEF last
  <2>2. CASE j # k + 1
    <3>1. j \in 1 .. k
      BY <2>2
    <3>2. PICK m \in DOMAIN flat : place[m] = <<j, i>>
      BY <3>1 DEF SpreadOver
    <3>3. m \in DOMAIN both /\ more[m] = place[m]
      BY <1>3, <1>4
    <3> QED BY <3>2, <3>3
  <2> QED BY <2>1, <2>2
<1>9. SpreadOver(both, seqs, k + 1, more)
  BY <1>6, <1>7, <1>8 DEF SpreadOver
<1> QED BY <1>9 DEF both, last

FlattenedUp(seqs, f) ==
  f = [i \in 1 .. Len(seqs) |-> IF i = 1 THEN seqs[i] ELSE f[i - 1] \o seqs[i]]

(* FlattenSeq has the values its steps give it.                             *)
LEMMA FlattenedUpExists ==
  ASSUME NEW X, NEW seqs \in Seq(Seq(X))
  PROVE  \E f : FlattenedUp(seqs, f)
<1> DEFINE n == Len(seqs)
           round == [x \in (1 .. n) \X Seq(X) |-> x[2] \o seqs[x[1]]]
<1>1. n \in Nat /\ \A k \in 1 .. n : seqs[k] \in Seq(X)
  OBVIOUS
<1>2. <<>> \in Seq(X)
  OBVIOUS
<1>3. ASSUME NEW k \in 1 .. n, NEW s \in Seq(X)
      PROVE  round[<<k, s>>] = s \o seqs[k] /\ round[<<k, s>>] \in Seq(X)
  <2>1. round[<<k, s>>] = s \o seqs[k]
    OBVIOUS
  <2>2. seqs[k] \in Seq(X)
    BY <1>1
  <2>3. s \o seqs[k] \in Seq(X)
    BY <2>2
  <2> QED BY <2>1, <2>3
<1> HIDE DEF round, n
<1>4. PICK g : IsLoop(g, n, Seq(X), <<>>, round)
  BY <1>1, <1>2, <1>3, LoopExists
<1>5. /\ g \in [0 .. n -> Seq(X)] /\ g[0] = <<>>
      /\ \A k \in 1 .. n : g[k] = g[k - 1] \o seqs[k]
  <2>1. \A k \in 1 .. n : k - 1 \in 0 .. n
    BY <1>1
  <2> QED BY <1>3, <1>4, <2>1 DEF IsLoop
<1> DEFINE f == [k \in 1 .. n |-> g[k]]
<1>6. \A k \in 1 .. n : f[k] = IF k = 1 THEN seqs[k] ELSE f[k - 1] \o seqs[k]
  <2> TAKE k \in 1 .. n
  <2>1. CASE k = 1
    <3>1. g[1] = <<>> \o seqs[1] /\ seqs[1] \in Seq(X)
      <4>1. 1 \in 1 .. n /\ 1 - 1 = 0
        BY <2>1
      <4> QED BY <1>1, <1>5, <4>1
    <3>2. <<>> \o seqs[1] = seqs[1]
      BY <3>1
    <3> QED BY <2>1, <3>1, <3>2
  <2>2. CASE k # 1
    <3>1. k - 1 \in 1 .. n
      BY <1>1, <2>2
    <3> QED BY <1>5, <2>2, <3>1
  <2> QED BY <2>1, <2>2
<1>7. f = [k \in 1 .. n |-> IF k = 1 THEN seqs[k] ELSE f[k - 1] \o seqs[k]]
  <2>1. f = [k \in 1 .. n |-> f[k]]
    OBVIOUS
  <2> HIDE DEF f
  <2> QED BY <1>6, <2>1
<1> QED BY <1>7 DEF FlattenedUp, n

(* Flattening keeps every element of every sequence, once. *)
LEMMA Flattened ==
  ASSUME NEW X, NEW seqs \in Seq(Seq(X))
  PROVE  /\ FlattenSeq(seqs) \in Seq(X)
         /\ \E place : SpreadOver(FlattenSeq(seqs), seqs, Len(seqs), place)
<1> DEFINE n == Len(seqs)
<1>1. n \in Nat /\ DOMAIN seqs = 1 .. n /\ \A k \in 1 .. n : seqs[k] \in Seq(X)
  OBVIOUS
<1>2. CASE n = 0
  <2>1. FlattenSeq(seqs) = seqs
    BY <1>2 DEF FlattenSeq
  <2>2. seqs = <<>>
    BY <1>2
  <2>3. DOMAIN seqs = {}
    BY <2>2
  <2>4. SpreadOver(seqs, seqs, n, [m \in {} |-> m])
    <3>1. \A j \in 1 .. n : FALSE
      BY <1>2
    <3> QED BY <2>3, <3>1 DEF SpreadOver
  <2>5. seqs \in Seq(X)
    BY <2>2
  <2> QED BY <2>1, <2>4, <2>5
<1>3. CASE n # 0
  <2> DEFINE f == CHOOSE g : FlattenedUp(seqs, g)
  <2>1. FlattenSeq(seqs) = f[n]
    BY <1>3, Zenon DEF FlattenSeq, FlattenedUp
  <2>2. FlattenedUp(seqs, f)
    BY FlattenedUpExists
  <2> HIDE DEF f
  <2>3. \A k \in 1 .. n : f[k] = IF k = 1 THEN seqs[k] ELSE f[k - 1] \o seqs[k]
    BY <2>2 DEF FlattenedUp
  <2> DEFINE Good == {k \in 0 .. n : k # 0 => f[k] \in Seq(X) /\ \E place : SpreadOver(f[k], seqs, k, place)}
  <2>4. 0 \in Good
    BY <1>1
  <2>5. ASSUME NEW k \in 0 .. n - 1, k \in Good
        PROVE  k + 1 \in Good
    <3>1. k \in Nat /\ k + 1 \in 1 .. n /\ k + 1 \in DOMAIN seqs /\ k + 1 - 1 = k /\ k + 1 \in 0 .. n
      BY <1>1
    <3>2. CASE k = 0
      <4>1. f[1] = seqs[1] /\ seqs[1] \in Seq(X) /\ 1 \in DOMAIN seqs
        BY <1>1, <2>3, <3>1, <3>2
      <4> DEFINE no == [m \in {} |-> m]
      <4>2. SpreadOver(<<>>, seqs, 0, no)
        <5>1. DOMAIN <<>> = {} /\ \A j \in 1 .. 0 : FALSE
          OBVIOUS
        <5> QED BY <5>1 DEF SpreadOver
      <4> HIDE DEF no
      <4>3. \E more : SpreadOver(<<>> \o seqs[0 + 1], seqs, 0 + 1, more)
        <5>1. <<>> \in Seq(X) /\ 0 \in Nat /\ 0 + 1 \in DOMAIN seqs
          BY <4>1
        <5> QED BY <4>2, <5>1, OneMoreSequence
      <4>4. 0 + 1 = 1 /\ <<>> \o seqs[1] = seqs[1]
        BY <4>1
      <4>5. f[1] \in Seq(X) /\ \E place : SpreadOver(f[1], seqs, 1, place)
        BY <4>1, <4>3, <4>4
      <4>6. k + 1 = 1
        BY <3>2
      <4> QED BY <3>1, <4>5, <4>6
    <3>3. CASE k # 0
      <4>1. f[k] \in Seq(X) /\ f[k + 1] = f[k] \o seqs[k + 1]
        <5>1. k + 1 # 1
          BY <3>1, <3>3
        <5>2. f[k] \in Seq(X)
          BY <2>5, <3>3
        <5>3. f[k + 1] = IF k + 1 = 1 THEN seqs[k + 1] ELSE f[k + 1 - 1] \o seqs[k + 1]
          BY <2>3, <3>1
        <5> QED BY <3>1, <5>1, <5>2, <5>3
      <4>2. PICK place : SpreadOver(f[k], seqs, k, place)
        BY <2>5, <3>3
      <4>3. \E more : SpreadOver(f[k] \o seqs[k + 1], seqs, k + 1, more)
        BY <3>1, <4>1, <4>2, OneMoreSequence
      <4>4. seqs[k + 1] \in Seq(X)
        BY <1>1, <3>1
      <4>5. f[k + 1] \in Seq(X)
        BY <4>1, <4>4
      <4> QED BY <3>1, <4>1, <4>3, <4>5
    <3> QED BY <3>2, <3>3
  <2>6. n \in Good
    <3>1. n \in 0 .. n
      BY <1>1
    <3> HIDE DEF Good, n
    <3> QED BY <1>1, <2>4, <2>5, <3>1, CountInduction
  <2> QED BY <1>3, <2>1, <2>6
<1> QED BY <1>2, <1>3, Zenon

(* Numbers from the smallest: every one has its place. *)
LEMMA AscendingIsOrder ==
  ASSUME NEW S \in SUBSET Int, IsFiniteSet(S)
  PROVE  /\ Cardinality(S) \in Nat
         /\ Ascending(S) \in [1 .. Cardinality(S) -> S]
         /\ \A n, m \in 1 .. Cardinality(S) : Ascending(S)[n] = Ascending(S)[m] => n = m
         /\ \A i \in S : \E n \in 1 .. Cardinality(S) : Ascending(S)[n] = i
BY RanksInOrder DEF Ascending

(* dedup_subjects keeps the first of each. *)
LEMMA Deduplicated ==
  ASSUME NEW subjects \in Seq(User)
  PROVE  /\ Dedup(subjects) \in Seq(User)
         /\ ToSet(Dedup(subjects)) = ToSet(subjects)
         /\ \A m, n \in DOMAIN Dedup(subjects) : Dedup(subjects)[m] = Dedup(subjects)[n] => m = n
<1> DEFINE first == {n \in DOMAIN subjects : \A m \in 1 .. n - 1 : subjects[m] # subjects[n]}
           places == Ascending(first)
           size == Cardinality(first)
           seen == Dedup(subjects)
<1>1. DOMAIN subjects = 1 .. Len(subjects) /\ Len(subjects) \in Nat
  OBVIOUS
<1>2. first \in SUBSET Int /\ IsFiniteSet(first) /\ first \in SUBSET DOMAIN subjects
  <2>1. first \in SUBSET (1 .. Len(subjects))
    BY <1>1
  <2> HIDE DEF first
  <2>2. IsFiniteSet(1 .. Len(subjects))
    BY <1>1, FS_Interval
  <2>3. IsFiniteSet(first)
    BY <2>1, <2>2, FS_Subset
  <2>4. 1 .. Len(subjects) \in SUBSET Int
    BY <1>1
  <2> QED BY <1>1, <2>1, <2>3, <2>4
<1>3. /\ size \in Nat /\ places \in [1 .. size -> first]
      /\ \A n, m \in 1 .. size : places[n] = places[m] => n = m
      /\ \A i \in first : \E n \in 1 .. size : places[n] = i
  <2> HIDE DEF first
  <2> QED BY <1>2, AscendingIsOrder
<1>4. seen = [k \in DOMAIN places |-> subjects[places[k]]]
  BY DEF Dedup
<1>5. \A m, n \in first : subjects[m] = subjects[n] => m = n
  <2>1. \A m, n \in first : m < n => subjects[m] # subjects[n]
    BY <1>1
  <2> HIDE DEF first
  <2>2. \A m, n \in first : m < n \/ n < m \/ m = n
    BY <1>2
  <2> QED BY <2>1, <2>2
<1>6. \A n \in DOMAIN subjects : \E m \in first : subjects[m] = subjects[n]
  <2> TAKE n \in DOMAIN subjects
  <2> DEFINE same == {m \in DOMAIN subjects : subjects[m] = subjects[n]}
             m == Min(same)
  <2>1. same \in SUBSET (1 .. Len(subjects)) /\ same # {}
    BY <1>1
  <2>2. m \in same /\ \A x \in same : m <= x
    <3>1. 1 \in Int /\ Len(subjects) \in Int
      BY <1>1
    <3> HIDE DEF same
    <3> QED BY <2>1, <3>1, BoundedSet
  <2> HIDE DEF m
  <2>3. m \in DOMAIN subjects /\ subjects[m] = subjects[n]
    BY <2>2
  <2>4. \A l \in 1 .. m - 1 : subjects[l] # subjects[m]
    <3> TAKE l \in 1 .. m - 1
    <3>1. l \in DOMAIN subjects /\ ~ (m <= l)
      BY <1>1, <2>3
    <3> QED BY <2>2, <2>3, <3>1
  <2> QED BY <2>3, <2>4
<1> HIDE DEF first, size, places
<1>7. seen \in [1 .. size -> User] /\ DOMAIN seen = 1 .. size /\ \A k \in 1 .. size : seen[k] = subjects[places[k]]
  <2>1. \A n \in DOMAIN subjects : subjects[n] \in User
    OBVIOUS
  <2>2. \A k \in 1 .. size : places[k] \in DOMAIN subjects
    BY <1>2, <1>3
  <2>3. DOMAIN places = 1 .. size
    BY <1>3
  <2> QED BY <1>4, <2>1, <2>2, <2>3
<1>8. seen \in Seq(User)
  BY <1>3, <1>7
<1>9. ToSet(seen) = ToSet(subjects)
  <2>1. \A k \in 1 .. size : \E n \in DOMAIN subjects : subjects[n] = seen[k]
    BY <1>2, <1>3, <1>7
  <2>2. \A n \in DOMAIN subjects : \E k \in 1 .. size : seen[k] = subjects[n]
    BY <1>3, <1>6, <1>7
  <2>3. ToSet(seen) = {seen[k] : k \in 1 .. size} /\ ToSet(subjects) = {subjects[n] : n \in DOMAIN subjects}
    BY <1>7 DEF ToSet
  <2> HIDE DEF seen
  <2> QED BY <2>1, <2>2, <2>3
<1>10. \A m, n \in DOMAIN seen : seen[m] = seen[n] => m = n
  BY <1>3, <1>5, <1>7
<1> QED BY <1>8, <1>9, <1>10

(* What is asked of the market is what was accepted for the day. *)
LEMMA GetIsRow ==
  ASSUME MarketInv, serving, NEW d \in Int
  PROVE  /\ \A s : Get(s, d) = RowOf(s, d)
         /\ \A i : get_price(i, d) = RowOf(i, d)
         /\ \A from, to : get_fx_rate(from, to, d) = IF from = to THEN 1 ELSE RowOf(<<from, to>>, d)
<1>1. ASSUME NEW s
      PROVE  Get(s, d) = RowOf(s, d)
  <2>1. CASE s \in Series /\ d \in Day
    BY <2>1 DEF RowOf, MarketInv, LookupIsLastWrite
  <2>2. CASE s \notin Series
    <3>1. s \notin DOMAIN history
      BY <2>2 DEF MarketInv, MarketTypeOK
    <3> QED BY <2>2, <3>1 DEF Get, RowOf
  <2>3. CASE d \notin Day
    <3>1. base_day \in Int /\ base_day + (d - base_day) = d
      BY DEF MarketInv, MarketTypeOK
    <3>2. ~ (s \in DOMAIN history /\ d - base_day \in DOMAIN history[s])
      BY <2>3, <3>1 DEF MarketInv, ArraysHoldDays
    <3> QED BY <2>3, <3>2 DEF Get, RowOf
  <2> QED BY <2>1, <2>2, <2>3
<1> QED BY <1>1 DEF get_price, get_fx_rate

(* ts holds the trades of us: every one is at one place. *)
LoadedFrom(ts, us, place) ==
  /\ \A m \in DOMAIN ts : /\ place[m] \in Recorded /\ place[m][1] \in us
                          /\ ts[m] = trades[place[m][1]][place[m][2]]
  /\ \A m, l \in DOMAIN ts : place[m] = place[l] => m = l
  /\ \A x \in Recorded : x[1] \in us => \E m \in DOMAIN ts : place[m] = x

(* A recorded trade is a user and a place.                                  *)
LEMMA RecordedPairs ==
  ASSUME NEW x
  PROVE  x \in Recorded <=> x = <<x[1], x[2]>> /\ x[1] \in User /\ x[2] \in DOMAIN trades[x[1]]
<1>1. ASSUME x \in Recorded
      PROVE  x = <<x[1], x[2]>> /\ x[1] \in User /\ x[2] \in DOMAIN trades[x[1]]
  <2>1. PICK u \in User : x \in {<<u, n>> : n \in DOMAIN trades[u]}
    BY <1>1 DEF Recorded
  <2>2. PICK n \in DOMAIN trades[u] : x = <<u, n>>
    BY <2>1
  <2> QED BY <2>2
<1>2. ASSUME NEW u \in User, NEW n \in DOMAIN trades[u]
      PROVE  <<u, n>> \in Recorded
  BY DEF Recorded
<1> QED BY <1>1, <1>2

(* load_trades gives every trade of its subjects, each exactly once.        *)
LEMMA TradesLoaded ==
  ASSUME Inv, NEW subjects \in Seq(User), load_trades(subjects) # NoTradesFound,
         NEW ts, ts = load_trades(subjects).ok
  PROVE  ts \in Seq(Trade) /\ \E place : LoadedFrom(ts, ToSet(subjects), place)
<1> DEFINE seen == Dedup(subjects)
           us == ToSet(subjects)
           seqs == [n \in DOMAIN seen |-> trades[seen[n]]]
<1>1. /\ seen \in Seq(User) /\ ToSet(seen) = us
      /\ \A m, n \in DOMAIN seen : seen[m] = seen[n] => m = n
  BY Deduplicated
<1>2. load_trades(subjects) = Ok(FlattenSeq(seqs))
  BY DEF load_trades
<1>3. ts = FlattenSeq(seqs)
  BY <1>2 DEF Ok
<1> HIDE DEF seen
<1>4. trades \in [User -> Seq(Trade)]
  BY DEF Inv
<1>5. \A n \in DOMAIN seen : seen[n] \in User
  BY <1>1
<1>6. seqs \in Seq(Seq(Trade)) /\ Len(seqs) = Len(seen) /\ DOMAIN seqs = DOMAIN seen /\ DOMAIN seen = 1 .. Len(seen)
  <2>1. DOMAIN seen = 1 .. Len(seen) /\ Len(seen) \in Nat
    BY <1>1
  <2>2. \A n \in 1 .. Len(seen) : trades[seen[n]] \in Seq(Trade)
    BY <1>4, <1>5, <2>1
  <2> QED BY <2>1, <2>2
<1>7. \A n \in DOMAIN seen : seqs[n] = trades[seen[n]]
  OBVIOUS
<1> HIDE DEF seqs
<1>8. ts \in Seq(Trade)
  BY <1>3, <1>6, Flattened
<1>9. PICK at : SpreadOver(ts, seqs, Len(seqs), at)
  BY <1>3, <1>6, Flattened
<1> DEFINE place == [m \in DOMAIN ts |-> <<seen[at[m][1]], at[m][2]>>]
<1>10. \A m \in DOMAIN ts :
         /\ at[m][1] \in DOMAIN seen /\ at[m][2] \in DOMAIN trades[seen[at[m][1]]]
         /\ at[m] = <<at[m][1], at[m][2]>>
         /\ ts[m] = trades[seen[at[m][1]]][at[m][2]]
  BY <1>6, <1>7, <1>9 DEF SpreadOver
<1>11. \A m \in DOMAIN ts : place[m][1] = seen[at[m][1]] /\ place[m][2] = at[m][2]
                            /\ place[m] = <<place[m][1], place[m][2]>>
  OBVIOUS
<1> HIDE DEF place
<1>12. \A n \in DOMAIN seen : seen[n] \in us
  BY <1>1 DEF ToSet
<1> HIDE DEF us
<1>13. \A m \in DOMAIN ts : /\ place[m] \in Recorded /\ place[m][1] \in us
                            /\ ts[m] = trades[place[m][1]][place[m][2]]
  BY <1>5, <1>10, <1>11, <1>12, RecordedPairs
<1>14. ASSUME NEW m \in DOMAIN ts, NEW l \in DOMAIN ts, place[m] = place[l]
       PROVE  m = l
  <2>1. seen[at[m][1]] = seen[at[l][1]] /\ at[m][2] = at[l][2]
    BY <1>11, <1>14
  <2>2. at[m][1] = at[l][1]
    BY <1>1, <1>10, <2>1
  <2>3. at[m] = at[l]
    BY <1>10, <2>1, <2>2
  <2> QED BY <1>9, <2>3 DEF SpreadOver
<1>15. ASSUME NEW x \in Recorded, x[1] \in us
       PROVE  \E m \in DOMAIN ts : place[m] = x
  <2>1. x = <<x[1], x[2]>> /\ x[2] \in DOMAIN trades[x[1]]
    BY RecordedPairs
  <2>2. PICK j \in DOMAIN seen : seen[j] = x[1]
    BY <1>1, <1>15 DEF ToSet, us
  <2>3. j \in 1 .. Len(seqs) /\ x[2] \in DOMAIN seqs[j]
    BY <1>6, <1>7, <2>1, <2>2
  <2>4. PICK m \in DOMAIN ts : at[m] = <<j, x[2]>>
    BY <1>9, <2>3 DEF SpreadOver
  <2>5. at[m][1] = j /\ at[m][2] = x[2]
    BY <2>4
  <2>6. place[m] = <<x[1], x[2]>>
    BY <1>11, <2>2, <2>5
  <2> QED BY <2>1, <2>6
<1>16. LoadedFrom(ts, us, place)
  BY <1>13, <1>14, <1>15 DEF LoadedFrom
<1> QED BY <1>8, <1>16 DEF us

-----------------------------------------------------------------------------
(* The loaded trades of the days until a date, and the recorded ones. *)

LEMMA UntilIsRecorded ==
  ASSUME NEW ts \in Seq(Trade), NEW us, NEW place, LoadedFrom(ts, us, place),
         NEW date, NEW places, places = Until(ts, date, Len(ts))
  PROVE  OneToOne(place, places, RecordedBy(us, date))
<1>1. DOMAIN ts = 1 .. Len(ts)
  OBVIOUS
<1>2. \A m : m \in places <=> m \in DOMAIN ts /\ ts[m].day <= date
  BY <1>1 DEF Until
<1>3. \A x : x \in RecordedBy(us, date) <=>
              x \in Recorded /\ x[1] \in us /\ trades[x[1]][x[2]].day <= date
  BY DEF RecordedBy
<1>4. \A m \in places : place[m] \in RecordedBy(us, date)
  BY <1>2, <1>3 DEF LoadedFrom
<1>5. \A m, l \in places : place[m] = place[l] => m = l
  BY <1>2 DEF LoadedFrom
<1>6. \A x \in RecordedBy(us, date) : \E m \in places : place[m] = x
  BY <1>2, <1>3 DEF LoadedFrom
<1> QED BY <1>4, <1>5, <1>6 DEF OneToOne

(* Loaded trades clash when recorded ones do.                               *)
LEMMA ClashIsRecorded ==
  ASSUME NEW ts \in Seq(Trade), NEW us, NEW place, LoadedFrom(ts, us, place),
         NEW date, NEW places, places = Until(ts, date, Len(ts))
  PROVE  Clash(ts, places) <=> InTwoCurrencies(RecordedBy(us, date))
<1>1. OneToOne(place, places, RecordedBy(us, date))
  BY UntilIsRecorded
<1>2. \A m \in places : place[m] \in RecordedBy(us, date) /\ ts[m] = trades[place[m][1]][place[m][2]]
  <2>1. places \in SUBSET DOMAIN ts
    BY DEF Until
  <2> QED BY <1>1, <2>1 DEF OneToOne, LoadedFrom
<1>3. \A x \in RecordedBy(us, date) : \E m \in places : place[m] = x
  BY <1>1 DEF OneToOne
<1>4. ASSUME Clash(ts, places)
      PROVE  InTwoCurrencies(RecordedBy(us, date))
  <2>1. PICK m \in places, l \in places :
          ts[m].instrument = ts[l].instrument /\ ts[m].currency # ts[l].currency
    BY <1>4 DEF Clash
  <2> QED BY <1>2, <2>1 DEF InTwoCurrencies
<1>5. ASSUME InTwoCurrencies(RecordedBy(us, date))
      PROVE  Clash(ts, places)
  <2>1. PICK x \in RecordedBy(us, date), y \in RecordedBy(us, date) :
          /\ trades[x[1]][x[2]].instrument = trades[y[1]][y[2]].instrument
          /\ trades[x[1]][x[2]].currency # trades[y[1]][y[2]].currency
    BY <1>5 DEF InTwoCurrencies
  <2>2. PICK m \in places : place[m] = x
    BY <1>3
  <2>3. PICK l \in places : place[l] = y
    BY <1>3
  <2> QED BY <1>2, <2>1, <2>2, <2>3 DEF Clash
<1> QED BY <1>4, <1>5

(* Loaded trades net to what the recorded ones do.                          *)
LEMMA NetIsRecorded ==
  ASSUME NEW ts \in Seq(Trade), NEW us, NEW place, LoadedFrom(ts, us, place),
         NEW date, NEW places, places = Until(ts, date, Len(ts)), NEW i
  PROVE  NetQuantity(ts, places, i) = NetOf(us, i, date)
<1> DEFINE of == {x \in RecordedBy(us, date) : trades[x[1]][x[2]].instrument = i}
           g == [x \in of |-> trades[x[1]][x[2]].quantity]
           S == Dealt(ts, places, i)
           f == Quantities(ts)
<1>1. NetQuantity(ts, places, i) = SumFunctionOnSet(f, S) /\ NetOf(us, i, date) = SumFunctionOnSet(g, of)
  BY DEF NetQuantity, NetOf
<1>2. OneToOne(place, places, RecordedBy(us, date)) /\ places \in SUBSET DOMAIN ts
  BY UntilIsRecorded DEF Until
<1>3. \A m \in places : ts[m] = trades[place[m][1]][place[m][2]]
  BY <1>2 DEF LoadedFrom
<1>4. S \in SUBSET places /\ \A m \in places : m \in S <=> ts[m].instrument = i
  BY DEF Dealt
<1>5. OneToOne(place, S, of)
  BY <1>2, <1>3, <1>4 DEF OneToOne
<1>6. IsFiniteSet(S)
  BY <1>2, <1>4, PlacesFinite
<1>7. \A m \in S : f[m] = g[place[m]] /\ f[m] \in Int
  <2> TAKE m \in S
  <2>1. m \in DOMAIN ts /\ place[m] \in of
    BY <1>2, <1>4, <1>5 DEF OneToOne
  <2>2. f[m] = ts[m].quantity /\ ts[m].quantity \in Int
    BY <2>1, TradeFields DEF Quantities
  <2>3. g[place[m]] = trades[place[m][1]][place[m][2]].quantity
    BY <2>1
  <2> QED BY <1>3, <1>4, <2>2, <2>3
<1> HIDE DEF S, f, g, of
<1>8. \A x \in of : g[x] \in Int
  BY <1>5, <1>7 DEF OneToOne
<1>9. SumFunctionOnSet(g, of) = SumFunctionOnSet(f, S)
  BY <1>5, <1>6, <1>7, <1>8, SumOfImage
<1> QED BY <1>1, <1>9

(* What aggregation hands to valuation.                                     *)
Valuable(ts, places) == {Position(ts, places, m) : m \in Open(ts, places)}

(* A value is no error.                                                     *)
LEMMA ConflictApart ==
  /\ \A x : Ok(x) # CurrencyConflict /\ Ok(x).ok = x
  /\ \A ps, base, date : value_positions(ps, base, date) # CurrencyConflict
<1>1. ASSUME NEW x
      PROVE  Ok(x) # CurrencyConflict /\ Ok(x).ok = x
  <2>1. DOMAIN Ok(x) = {"ok"} /\ DOMAIN CurrencyConflict = {"error"}
    BY DEF Ok, CurrencyConflict
  <2>2. Ok(x).ok = x
    BY DEF Ok
  <2> QED BY <2>1, <2>2
<1>2. ASSUME NEW ps, NEW base, NEW date
      PROVE  value_positions(ps, base, date) # CurrencyConflict
  <2>1. "total" \in DOMAIN value_positions(ps, base, date) /\ DOMAIN CurrencyConflict = {"error"}
    BY DEF value_positions, CurrencyConflict
  <2> QED BY <2>1
<1> QED BY <1>1, <1>2

(* market_value_at refuses exactly a clash.                                 *)
LEMMA MarketValued ==
  ASSUME NEW ts \in Seq(Trade), NEW base, NEW date, NEW places, places = Until(ts, date, Len(ts))
  PROVE  /\ Clash(ts, places) => market_value_at(ts, base, date) = CurrencyConflict
         /\ ~ Clash(ts, places) =>
              /\ market_value_at(ts, base, date) = value_positions(Valuable(ts, places), base, date)
              /\ market_value_at(ts, base, date) # CurrencyConflict
<1>1. /\ Clash(ts, places) => aggregate_positions(ts, date) = CurrencyConflict
      /\ ~ Clash(ts, places) => aggregate_positions(ts, date) = Ok(Valuable(ts, places))
  BY Aggregated DEF Valuable
<1>2. market_value_at(ts, base, date) =
        IF aggregate_positions(ts, date) = CurrencyConflict
        THEN CurrencyConflict
        ELSE value_positions(aggregate_positions(ts, date).ok, base, date)
  BY DEF market_value_at
<1> QED BY <1>1, <1>2, ConflictApart

(* What one trade is worth by the look-ups. *)
TradeWorth(t, base, date) ==
  IF get_price(t.instrument, date) = Missing \/ get_fx_rate(t.currency, base, date) = Missing
  THEN 0
  ELSE t.quantity * get_price(t.instrument, date) * get_fx_rate(t.currency, base, date)

(* What one of it is worth. *)
UnitWorth(t, base, date) ==
  IF get_price(t.instrument, date) = Missing \/ get_fx_rate(t.currency, base, date) = Missing
  THEN 0
  ELSE get_price(t.instrument, date) * get_fx_rate(t.currency, base, date)

(* A product may be taken in another order.                                 *)
LEMMA Reordered ==
  ASSUME NEW q \in Int, NEW p \in Int, NEW r \in Int
  PROVE  q * p * r = (p * r) * q
OBVIOUS

(* worth holds what the single trades are worth. *)
Worths(ts, places, base, date, worth) == \A l \in places : worth[l] = TradeWorth(ts[l], base, date)

(* The trades of one instrument are worth what they net to. *)
LEMMA WorthOfInstrument ==
  ASSUME MarketInv, NEW ts \in Seq(Trade), NEW places \in SUBSET DOMAIN ts, ~ Clash(ts, places),
         NEW base, NEW date,
         NEW worth, Worths(ts, places, base, date, worth)
  PROVE  \A m \in places :
           /\ UnitWorth(ts[m], base, date) \in Int
           /\ \A l \in Dealt(ts, places, ts[m].instrument) : worth[l] \in Int
           /\ SumFunctionOnSet(worth, Dealt(ts, places, ts[m].instrument)) =
                UnitWorth(ts[m], base, date) * NetQuantity(ts, places, ts[m].instrument)
<1> TAKE m \in places
<1> DEFINE i == ts[m].instrument
           factor == UnitWorth(ts[m], base, date)
           price == get_price(i, date)
           rate == get_fx_rate(ts[m].currency, base, date)
           S == Dealt(ts, places, i)
           q == Quantities(ts)
<1>1. (price # Missing => price \in Int) /\ (rate # Missing => rate \in Int)
  BY AnswersAreNumbers
<1>2. factor = IF price = Missing \/ rate = Missing THEN 0 ELSE price * rate
  BY DEF UnitWorth
<1>3. \A l \in S : /\ l \in places /\ ts[l].instrument = i /\ ts[l].currency = ts[m].currency
                   /\ q[l] = ts[l].quantity /\ q[l] \in Int
  <2> TAKE l \in S
  <2>1. l \in places /\ l \in DOMAIN ts /\ ts[l].instrument = i
    BY DEF Dealt
  <2>2. ts[l].currency = ts[m].currency
    BY <2>1 DEF Clash
  <2>3. ts[l] \in Trade
    BY <2>1
  <2> QED BY <2>1, <2>2, <2>3, TradeFields DEF Quantities
<1>4. \A l \in S : worth[l] = IF price = Missing \/ rate = Missing THEN 0 ELSE q[l] * price * rate
  BY <1>3 DEF TradeWorth, Worths
<1> HIDE DEF price, rate, S, q, factor
<1>5. factor \in Int
  BY <1>1, <1>2
<1>6. \A l \in S : worth[l] = factor * q[l] /\ q[l] \in Int
  <2> TAKE l \in S
  <2>1. q[l] \in Int
    BY <1>3
  <2>2. CASE price = Missing \/ rate = Missing
    <3>1. worth[l] = 0 /\ factor = 0
      BY <1>2, <1>4, <2>2
    <3> QED BY <2>1, <3>1
  <2>3. CASE ~ (price = Missing \/ rate = Missing)
    <3>1. worth[l] = q[l] * price * rate /\ factor = price * rate
      BY <1>2, <1>4, <2>3
    <3> QED BY <1>1, <2>1, <2>3, <3>1, Reordered
  <2> QED BY <2>2, <2>3
<1>7. IsFiniteSet(S)
  <2>1. S \in SUBSET DOMAIN ts
    BY DEF S, Dealt
  <2> QED BY <2>1, PlacesFinite
<1>8. SumFunctionOnSet(worth, S) = factor * SumFunctionOnSet(q, S)
  BY <1>5, <1>6, <1>7, SumTimes
<1>9. \A l \in S : worth[l] \in Int
  BY <1>5, <1>6
<1> QED BY <1>5, <1>8, <1>9 DEF S, q, factor, NetQuantity

(* The amounts of the valued positions, weighed by instrument, are what the  *)
(* single trades are worth, weighed so.                                     *)
LEMMA WeighedIsWorth ==
  ASSUME MarketInv, NEW ts \in Seq(Trade), NEW base, NEW date,
         NEW places, places = Until(ts, date, Len(ts)), ~ Clash(ts, places),
         NEW worth, Worths(ts, places, base, date, worth),
         NEW part, \A i \in Instrument : part[i] \in Int,
         NEW v, v = value_positions(Valuable(ts, places), base, date)
  PROVE  /\ \A l \in places : worth[l] \in Int
         /\ SumFunctionOnSet([r \in v.positions |-> r.amount * part[r.instrument]], v.positions) =
              SumFunctionOnSet([l \in places |-> worth[l] * part[ts[l].instrument]], places)
<1> DEFINE ps == Valuable(ts, places)
           Is == {ts[m].instrument : m \in places}
           one(i) == CHOOSE m \in places : ts[m].instrument = i
           price(i) == get_price(i, date)
           rate(i) == get_fx_rate(ts[one(i)].currency, base, date)
           factor(i) == IF price(i) = Missing \/ rate(i) = Missing THEN 0 ELSE price(i) * rate(i)
           net(i) == NetQuantity(ts, places, i)
           inst == [m \in places |-> ts[m].instrument]
           e == [l \in places |-> worth[l] * part[ts[l].instrument]]
           sums == [i \in Is |-> SumFunctionOnSet(e, {m \in places : inst[m] = i})]
           g == [i \in Is |-> part[i] * (factor(i) * net(i))]
           T == {i \in Is : net(i) # 0 /\ price(i) # Missing /\ rate(i) # Missing}
<1>1. places \in SUBSET DOMAIN ts /\ IsFiniteSet(places)
  <2>1. places \in SUBSET DOMAIN ts
    BY DEF Until
  <2> QED BY <2>1, PlacesFinite
<1>2. \A i \in Is : one(i) \in places /\ ts[one(i)].instrument = i
  OBVIOUS
<1>3. \A m \in places : ts[m].instrument \in Is /\ ts[m].currency = ts[one(ts[m].instrument)].currency
  BY <1>2 DEF Clash
<1> HIDE DEF one
<1>4. \A i \in Is : /\ factor(i) \in Int
                    /\ \A l \in Dealt(ts, places, i) : worth[l] \in Int
                    /\ SumFunctionOnSet(worth, Dealt(ts, places, i)) = factor(i) * net(i)
  <2> TAKE i \in Is
  <2>1. one(i) \in places /\ ts[one(i)].instrument = i
    BY <1>2
  <2>2. factor(i) = UnitWorth(ts[one(i)], base, date)
    BY <2>1 DEF UnitWorth
  <2> HIDE DEF factor, net
  <2>3. \A m \in places :
          /\ UnitWorth(ts[m], base, date) \in Int
          /\ \A l \in Dealt(ts, places, ts[m].instrument) : worth[l] \in Int
          /\ SumFunctionOnSet(worth, Dealt(ts, places, ts[m].instrument)) =
               UnitWorth(ts[m], base, date) * NetQuantity(ts, places, ts[m].instrument)
    BY <1>1, WorthOfInstrument
  <2> QED BY <2>1, <2>2, <2>3 DEF net
<1>5. \A l \in places : worth[l] \in Int
  <2> TAKE l \in places
  <2>1. l \in Dealt(ts, places, ts[l].instrument) /\ ts[l].instrument \in Is
    BY DEF Dealt
  <2> QED BY <1>4, <2>1
<1>6. IsFiniteSet(Is)
  <2>1. Is = {inst[m] : m \in places}
    OBVIOUS
  <2> HIDE DEF Is, inst
  <2> QED BY <1>1, <2>1, ImageFinite
<1>7. \A i \in Is : net(i) \in Int /\ part[i] \in Int
  <2> TAKE i \in Is
  <2> DEFINE S == Dealt(ts, places, i)
  <2>1. S \in SUBSET DOMAIN ts
    BY <1>1 DEF Dealt
  <2>2. IsFiniteSet(S) /\ \A m \in S : Quantities(ts)[m] \in Int
    BY <2>1, PlacesFinite, TradeFields DEF Quantities
  <2>3. i \in Instrument
    BY <1>1, TradeFields
  <2> HIDE DEF S
  <2>4. SumFunctionOnSet(Quantities(ts), S) \in Int
    BY <2>2, SumType
  <2> QED BY <2>3, <2>4 DEF NetQuantity, S
<1>8. \A l \in places : e[l] = worth[l] * part[ts[l].instrument] /\ e[l] \in Int
  <2> TAKE l \in places
  <2>1. worth[l] \in Int /\ part[ts[l].instrument] \in Int
    BY <1>3, <1>5, <1>7
  <2> QED BY <2>1
<1> HIDE DEF factor, net
<1>9. \A i \in Is : g[i] = part[i] * (factor(i) * net(i)) /\ g[i] \in Int
  <2> TAKE i \in Is
  <2>1. factor(i) \in Int /\ net(i) \in Int /\ part[i] \in Int
    BY <1>4, <1>7
  <2> QED BY <2>1
<1> HIDE DEF e
<1>10. \A i \in Is : sums[i] = g[i]
  <2> TAKE i \in Is
  <2> DEFINE S == Dealt(ts, places, i)
  <2>1. {m \in places : inst[m] = i} = S /\ S \in SUBSET places
    BY DEF Dealt
  <2>2. IsFiniteSet(S)
    BY <1>1, <2>1, FS_Subset
  <2>3. \A l \in S : worth[l] \in Int /\ e[l] = part[i] * worth[l]
    <3> TAKE l \in S
    <3>1. l \in places /\ ts[l].instrument = i
      BY DEF Dealt
    <3>2. worth[l] \in Int /\ part[i] \in Int /\ e[l] = worth[l] * part[i]
      BY <1>5, <1>7, <1>8, <3>1
    <3> QED BY <3>2
  <2>4. sums[i] = SumFunctionOnSet(e, S)
    BY <2>1
  <2> HIDE DEF S, sums
  <2>5. SumFunctionOnSet(e, S) = part[i] * SumFunctionOnSet(worth, S)
    BY <1>7, <2>2, <2>3, SumTimes
  <2>6. SumFunctionOnSet(worth, S) = factor(i) * net(i)
    BY <1>4 DEF S
  <2> QED BY <1>9, <2>4, <2>5, <2>6
<1>11. SumFunctionOnSet(e, places) = SumFunctionOnSet(g, Is)
  <2>1. SumFunctionOnSet(e, places) = SumFunctionOnSet(sums, Is)
    <3>1. \A m \in places : inst[m] \in Is
      OBVIOUS
    <3> HIDE DEF inst, Is
    <3> QED BY <1>1, <1>6, <1>8, <3>1, SumOfParts
  <2>2. \A i \in Is : sums[i] \in Int /\ sums[i] = g[i]
    BY <1>9, <1>10
  <2> HIDE DEF sums, g, Is
  <2>3. SumFunctionOnSet(sums, Is) = SumFunctionOnSet(g, Is)
    BY <1>6, <2>2, SumSame
  <2> QED BY <2>1, <2>3
<1>12. \A i \in Is \ T : g[i] = 0
  <2> TAKE i \in Is \ T
  <2>1. factor(i) \in Int /\ net(i) \in Int /\ part[i] \in Int
    BY <1>4, <1>7
  <2>2. factor(i) = 0 \/ net(i) = 0
    BY DEF factor
  <2>3. factor(i) * net(i) = 0
    BY <2>1, <2>2
  <2> QED BY <1>9, <2>1, <2>3
<1>13. SumFunctionOnSet(g, Is) = SumFunctionOnSet(g, T) /\ IsFiniteSet(T)
  <2>1. T \in SUBSET Is
    OBVIOUS
  <2>2. \A i \in Is : g[i] \in Int
    BY <1>9
  <2> HIDE DEF T, g, Is
  <2> QED BY <1>6, <1>12, <2>1, <2>2, SumOfSupport, FS_Subset
<1>14. \A p \in ps : /\ p.instrument \in Is /\ p.quantity = net(p.instrument)
                     /\ net(p.instrument) # 0
                     /\ get_fx_rate(p.currency, base, date) = rate(p.instrument)
  <2> TAKE p \in ps
  <2>1. PICK m \in Open(ts, places) : p = Position(ts, places, m)
    BY DEF Valuable
  <2>2. m \in places /\ net(ts[m].instrument) # 0
    BY <2>1 DEF Open, net
  <2>3. p.instrument = ts[m].instrument /\ p.quantity = net(ts[m].instrument) /\ p.currency = ts[m].currency
    BY <2>1 DEF Position, net
  <2> QED BY <1>3, <2>2, <2>3
<1>15. \A i \in Is : net(i) # 0 => \E p \in ps : p.instrument = i
  <2> TAKE i \in Is
  <2> HAVE net(i) # 0
  <2>1. PICK m \in places : ts[m].instrument = i
    OBVIOUS
  <2>2. m \in Open(ts, places)
    BY <2>1 DEF Open, net
  <2>3. Position(ts, places, m) \in ps /\ Position(ts, places, m).instrument = i
    BY <2>1, <2>2 DEF Valuable, Position
  <2> QED BY <2>3
<1> DEFINE valued == {p \in {q \in ps : get_price(q.instrument, date) # Missing} :
                        get_fx_rate(p.currency, base, date) # Missing}
           amount(p) == p.quantity * get_price(p.instrument, date) * get_fx_rate(p.currency, base, date)
           f == [r \in v.positions |-> r.amount * part[r.instrument]]
           h == [r \in v.positions |-> r.instrument]
<1>16. v.positions = {[instrument |-> p.instrument, amount |-> amount(p)] : p \in valued}
  BY DEF value_positions
<1>17. \A p \in valued : p \in ps /\ p.instrument \in T /\ amount(p) = net(p.instrument) * price(p.instrument) * rate(p.instrument)
  BY <1>14
<1> HIDE DEF ps
<1>18. \A i \in T : \E p \in valued : p.instrument = i
  BY <1>14, <1>15
<1> HIDE DEF amount, valued
<1>19. \A r \in v.positions : /\ r.instrument \in T
                              /\ r.amount = net(r.instrument) * price(r.instrument) * rate(r.instrument)
                              /\ r = [instrument |-> r.instrument, amount |-> r.amount]
  <2> TAKE r \in v.positions
  <2>1. PICK p \in valued : r = [instrument |-> p.instrument, amount |-> amount(p)]
    BY <1>16
  <2>2. r.instrument = p.instrument /\ r.amount = amount(p)
    BY <2>1
  <2> DEFINE i == p.instrument
             product == net(i) * price(i) * rate(i)
  <2>3. i \in T /\ amount(p) = product
    BY <1>17, <2>1
  <2>4. r.instrument = i /\ r.amount = product /\ r = [instrument |-> i, amount |-> product]
    BY <2>1, <2>2, <2>3
  <2> HIDE DEF T
  <2>5. net(r.instrument) * price(r.instrument) * rate(r.instrument) = product
    BY <2>4
  <2> HIDE DEF product, i
  <2>6. r.instrument \in T
    BY <2>3, <2>4
  <2>7. r.amount = net(r.instrument) * price(r.instrument) * rate(r.instrument)
    BY <2>4, <2>5, Zenon
  <2>8. r = [instrument |-> r.instrument, amount |-> r.amount]
    BY <2>4, Zenon
  <2> QED BY <2>6, <2>7, <2>8, Zenon
<1>20. \A i \in T : \E r \in v.positions : r.instrument = i
  <2> HIDE DEF T
  <2> TAKE i \in T
  <2>1. PICK p \in valued : p.instrument = i
    BY <1>18
  <2> DEFINE r == [instrument |-> p.instrument, amount |-> amount(p)]
  <2>2. r \in v.positions
    BY <1>16
  <2>3. r.instrument = i
    BY <2>1
  <2> QED BY <2>2, <2>3
<1> HIDE DEF price, rate, T
<1>21. OneToOne(h, v.positions, T)
  BY <1>19, <1>20 DEF OneToOne
<1>22. \A r \in v.positions : f[r] = g[h[r]]
  <2> TAKE r \in v.positions
  <2> DEFINE i == r.instrument
  <2>1. i \in T /\ i \in Is /\ price(i) # Missing /\ rate(i) # Missing
    BY <1>19 DEF T
  <2>2. price(i) \in Int /\ rate(i) \in Int /\ net(i) \in Int /\ part[i] \in Int
    BY <1>7, <2>1, AnswersAreNumbers DEF price, rate
  <2>3. r.amount = net(i) * price(i) * rate(i)
    BY <1>19
  <2>4. g[i] = part[i] * (factor(i) * net(i)) /\ factor(i) = price(i) * rate(i)
    BY <1>9, <2>1 DEF factor
  <2>5. f[r] = r.amount * part[i] /\ h[r] = i
    OBVIOUS
  <2> HIDE DEF i, f, g, h
  <2>6. r.amount = factor(i) * net(i) /\ r.amount \in Int
    BY <2>2, <2>3, <2>4, Reordered
  <2> QED BY <2>2, <2>4, <2>5, <2>6
<1>23. SumFunctionOnSet(g, T) = SumFunctionOnSet(f, v.positions)
  <2>1. IsFiniteSet(v.positions)
    <3>1. Positions(ps)
      BY AggregatedPositions DEF Valuable, ps
    <3> QED BY <3>1, ValuedAddUp DEF ps
  <2>2. \A i \in T : g[i] \in Int
    BY <1>9 DEF T
  <2> HIDE DEF f, g, h
  <2> QED BY <1>21, <1>22, <2>1, <2>2, SumOfImage
<1> HIDE DEF f
<1> QED BY <1>5, <1>11, <1>13, <1>23 DEF e, f

(* The weighed sum over the recorded trades is the one over the loaded ones. *)
LEMMA WeighedIsRecorded ==
  ASSUME Inv, serving, NEW ts \in Seq(Trade), NEW us, NEW place, LoadedFrom(ts, us, place),
         NEW base, NEW date \in Int, NEW places, places = Until(ts, date, Len(ts)), ~ Clash(ts, places),
         NEW part, \A i \in Instrument : part[i] \in Int,
         NEW v, v = value_positions(Valuable(ts, places), base, date)
  PROVE  /\ IsFiniteSet(RecordedBy(us, date))
         /\ \A x \in RecordedBy(us, date) :
              Worth(x, base, date) \in Int /\ trades[x[1]][x[2]].instrument \in Instrument
         /\ SumFunctionOnSet([r \in v.positions |-> r.amount * part[r.instrument]], v.positions) =
              WorthOf(us, base, date, part)
<1> DEFINE worth == [m \in places |-> TradeWorth(ts[m], base, date)]
           rows == RecordedBy(us, date)
           of(x) == trades[x[1]][x[2]].instrument
           e == [m \in places |-> worth[m] * part[ts[m].instrument]]
           g == [x \in rows |-> Worth(x, base, date) * part[of(x)]]
<1>1. Worths(ts, places, base, date, worth)
  BY DEF Worths
<1>2. OneToOne(place, places, rows)
  BY UntilIsRecorded
<1>3. places \in SUBSET DOMAIN ts /\ IsFiniteSet(places)
  <2>1. places \in SUBSET DOMAIN ts
    BY DEF Until
  <2> QED BY <2>1, PlacesFinite
<1>4. \A m \in places : /\ place[m] \in rows /\ worth[m] = Worth(place[m], base, date)
                        /\ of(place[m]) = ts[m].instrument /\ ts[m].instrument \in Instrument
  <2> TAKE m \in places
  <2>1. place[m] \in rows /\ ts[m] = trades[place[m][1]][place[m][2]]
    BY <1>2, <1>3 DEF OneToOne, LoadedFrom
  <2> DEFINE t == ts[m]
  <2>2. /\ get_price(t.instrument, date) = RowOf(t.instrument, date)
        /\ get_fx_rate(t.currency, base, date) =
             IF t.currency = base THEN 1 ELSE RowOf(<<t.currency, base>>, date)
    BY GetIsRow DEF Inv
  <2>3. worth[m] = TradeWorth(t, base, date) /\ t.instrument \in Instrument
    BY <1>3, TradeFields
  <2> HIDE DEF worth, t
  <2>4. Worth(place[m], base, date) = TradeWorth(t, base, date)
    BY <2>1, <2>2 DEF Worth, TradeWorth, t
  <2> QED BY <2>1, <2>3, <2>4 DEF t
<1> HIDE DEF worth
<1>5. /\ \A m \in places : worth[m] \in Int
      /\ SumFunctionOnSet([r \in v.positions |-> r.amount * part[r.instrument]], v.positions) =
           SumFunctionOnSet(e, places)
  <2>1. MarketInv
    BY DEF Inv
  <2> QED BY <1>1, <2>1, WeighedIsWorth
<1>6. \A m \in places : e[m] = g[place[m]] /\ e[m] \in Int
  <2> TAKE m \in places
  <2>1. worth[m] \in Int /\ part[ts[m].instrument] \in Int
    BY <1>4, <1>5
  <2> QED BY <1>4, <2>1
<1>7. \A x \in rows : Worth(x, base, date) \in Int /\ of(x) \in Instrument /\ g[x] \in Int
  <2> TAKE x \in rows
  <2>1. PICK m \in places : place[m] = x
    BY <1>2 DEF OneToOne
  <2> QED BY <1>4, <1>5, <1>6, <2>1
<1>8. IsFiniteSet(rows) /\ SumFunctionOnSet(g, rows) = SumFunctionOnSet(e, places)
  <2> HIDE DEF e, g, rows
  <2> QED BY <1>2, <1>3, <1>6, <1>7, SumOfImage
<1>9. WorthOf(us, base, date, part) = SumFunctionOnSet(g, rows)
  BY DEF WorthOf
<1> QED BY <1>5, <1>7, <1>8, <1>9

(* With nothing weighed, the value is the sum over the recorded trades. *)
LEMMA TotalIsRecorded ==
  ASSUME Inv, serving, NEW ts \in Seq(Trade), NEW us, NEW place, LoadedFrom(ts, us, place),
         NEW base, NEW date \in Int, NEW places, places = Until(ts, date, Len(ts)), ~ Clash(ts, places)
  PROVE  value_positions(Valuable(ts, places), base, date).total = TotalOf(us, base, date)
<1> DEFINE part == [i \in Instrument |-> 1]
           v == value_positions(Valuable(ts, places), base, date)
           rows == RecordedBy(us, date)
           f == [r \in v.positions |-> r.amount]
           f1 == [r \in v.positions |-> r.amount * part[r.instrument]]
           g == [x \in rows |-> Worth(x, base, date)]
           g1 == [x \in rows |-> Worth(x, base, date) * part[trades[x[1]][x[2]].instrument]]
<1>1. /\ IsFiniteSet(rows)
      /\ \A x \in rows : Worth(x, base, date) \in Int /\ trades[x[1]][x[2]].instrument \in Instrument
      /\ SumFunctionOnSet(f1, v.positions) = SumFunctionOnSet(g1, rows)
  BY WeighedIsRecorded DEF WorthOf
<1>2. /\ IsFiniteSet(v.positions)
      /\ \A r \in v.positions : r.amount \in Int /\ r.instrument \in Instrument
      /\ v.total = SumFunctionOnSet(f, v.positions)
  <2>1. Positions(Valuable(ts, places))
    BY AggregatedPositions DEF Valuable
  <2> QED BY <2>1, ValuedAddUp DEF Inv
<1>3. \A r \in v.positions : f[r] \in Int /\ f[r] = f1[r]
  BY <1>2
<1>4. \A x \in rows : g[x] \in Int /\ g[x] = g1[x]
  BY <1>1
<1>5. SumFunctionOnSet(f, v.positions) = SumFunctionOnSet(f1, v.positions)
  <2> HIDE DEF f, f1, v
  <2> QED BY <1>2, <1>3, SumSame
<1>6. SumFunctionOnSet(g, rows) = SumFunctionOnSet(g1, rows)
  <2> HIDE DEF g, g1, rows
  <2> QED BY <1>1, <1>4, SumSame
<1> QED BY <1>1, <1>2, <1>5, <1>6 DEF TotalOf

(* What market_value_at answers for subjects that have trades. *)
Answers(subjects, base, date) ==
  LET ts == load_trades(subjects).ok
      us == ToSet(subjects)
      places == Until(ts, date, Len(ts))
      value == market_value_at(ts, base, date)
  IN /\ ts \in Seq(Trade)
     /\ \A i : NetQuantity(ts, places, i) = NetOf(us, i, date)
     /\ Clash(ts, places) <=> InTwoCurrencies(RecordedBy(us, date))
     /\ InTwoCurrencies(RecordedBy(us, date)) => value = CurrencyConflict
     /\ ~ InTwoCurrencies(RecordedBy(us, date)) =>
          /\ value = value_positions(Valuable(ts, places), base, date)
          /\ value # CurrencyConflict
          /\ value.total = TotalOf(us, base, date)

(* Every question that can be asked is answered so.                         *)
LEMMA Valued ==
  ASSUME Inv, NEW subjects \in Subjects, Loaded(subjects), NEW base, NEW date \in Int
  PROVE  Answers(subjects, base, date)
<1> DEFINE us == ToSet(subjects)
           ts == load_trades(subjects).ok
           places == Until(ts, date, Len(ts))
<1>0. us = ToSet(subjects) /\ ts = load_trades(subjects).ok /\ places = Until(ts, date, Len(ts))
  OBVIOUS
<1> HIDE DEF us, ts, places
<1>1. subjects \in Seq(User) /\ serving /\ load_trades(subjects) # NoTradesFound
  BY SubjectsAssumption DEF Loaded
<1>2. ts \in Seq(Trade) /\ \E place : LoadedFrom(ts, us, place)
  BY <1>0, <1>1, TradesLoaded
<1>3. PICK place : LoadedFrom(ts, us, place)
  BY <1>2
<1>4. Clash(ts, places) <=> InTwoCurrencies(RecordedBy(us, date))
  BY <1>0, <1>2, <1>3, ClashIsRecorded
<1>5. \A i : NetQuantity(ts, places, i) = NetOf(us, i, date)
  BY <1>0, <1>2, <1>3, NetIsRecorded
<1>6. /\ Clash(ts, places) => market_value_at(ts, base, date) = CurrencyConflict
      /\ ~ Clash(ts, places) =>
           /\ market_value_at(ts, base, date) = value_positions(Valuable(ts, places), base, date)
           /\ market_value_at(ts, base, date) # CurrencyConflict
  BY <1>0, <1>2, MarketValued
<1>7. ~ Clash(ts, places) =>
        value_positions(Valuable(ts, places), base, date).total = TotalOf(us, base, date)
  BY <1>0, <1>1, <1>2, <1>3, TotalIsRecorded
<1> QED BY <1>0, <1>2, <1>4, <1>5, <1>6, <1>7 DEF Answers

(* A valuation is the sum, over every single trade of the subjects that is   *)
(* not later than the date, of what it is worth by the rows accepted for the *)
(* day; it is refused exactly when an instrument was traded in two           *)
(* currencies by then.                                                      *)
THEOREM TotalsAreSums == Spec => []TotalIsSumOverTrades
<1>1. Inv => TotalIsSumOverTrades
  BY Valued, AsOfAssumption DEF TotalIsSumOverTrades, Answers
<1> QED BY <1>1, PortfolioInvariant, PTL

(* The positions of an answer and its warnings share out what is held.      *)
LEMMA HoldingsAccounted ==
  ASSUME Inv, NEW subjects \in Subjects, Loaded(subjects), NEW base, NEW date \in Int,
         NEW value, value = market_value_at(load_trades(subjects).ok, base, date),
         value # CurrencyConflict
  PROVE  LET valued == {p.instrument : p \in value.positions}
             warned == {w[2] : w \in value.warnings}
         IN /\ valued \cap warned = {}
            /\ valued \cup warned = {i \in Instrument : NetOf(ToSet(subjects), i, date) # 0}
<1> DEFINE us == ToSet(subjects)
           ts == load_trades(subjects).ok
           places == Until(ts, date, Len(ts))
           ps == Valuable(ts, places)
           priced == {p \in ps : get_price(p.instrument, date) # Missing}
           worthy == {p \in priced : get_fx_rate(p.currency, base, date) # Missing}
           valued == {p.instrument : p \in value.positions}
           warned == {w[2] : w \in value.warnings}
<1>1. /\ ts \in Seq(Trade) /\ ~ Clash(ts, places)
      /\ value = value_positions(ps, base, date)
      /\ \A i : NetQuantity(ts, places, i) = NetOf(us, i, date)
  <2>1. Answers(subjects, base, date)
    BY Valued
  <2> QED BY <2>1 DEF Answers
<1>2. places \in SUBSET DOMAIN ts
  BY <1>1 DEF Until
<1>3. Positions(ps)
  BY <1>1, AggregatedPositions DEF Valuable
<1>4. valued = {p.instrument : p \in worthy}
  <2> DEFINE row1(p) == [instrument |-> p.instrument,
                        amount |-> p.quantity * get_price(p.instrument, date) * get_fx_rate(p.currency, base, date)]
  <2>1. value.positions = {row1(p) : p \in worthy}
    BY <1>1 DEF value_positions
  <2>2. \A p : row1(p).instrument = p.instrument
    OBVIOUS
  <2> HIDE DEF row1, worthy
  <2> QED BY <2>1, <2>2
<1>5. warned = {p.instrument : p \in ps \ worthy}
  <2>1. value.warnings = {<<"MissingPrice", p.instrument>> : p \in ps \ priced}
                         \cup {<<"MissingFxRate", p.instrument>> : p \in priced \ worthy}
    BY <1>1 DEF value_positions
  <2>2. \A p : <<"MissingPrice", p.instrument>>[2] = p.instrument /\ <<"MissingFxRate", p.instrument>>[2] = p.instrument
    OBVIOUS
  <2>3. worthy \in SUBSET priced /\ priced \in SUBSET ps
    OBVIOUS
  <2> HIDE DEF priced, worthy, ps
  <2>4. \A w \in value.warnings : \E p \in ps \ worthy : w[2] = p.instrument
    BY <2>1, <2>2, <2>3
  <2>5. \A p \in ps \ worthy : \E w \in value.warnings : w[2] = p.instrument
    BY <2>1, <2>2, <2>3
  <2> QED BY <2>4, <2>5
<1>6. worthy \in SUBSET ps
  OBVIOUS
<1> HIDE DEF ts, places, ps, priced, worthy, valued, warned, us
<1>7. valued \cap warned = {}
  BY <1>3, <1>4, <1>5, <1>6 DEF Positions
<1>8. valued \cup warned = {p.instrument : p \in ps}
  BY <1>4, <1>5, <1>6
<1>9. ASSUME NEW p \in ps
      PROVE  p.instrument \in Instrument /\ NetOf(us, p.instrument, date) # 0
  <2>1. PICK m \in Open(ts, places) : p = Position(ts, places, m)
    BY DEF ps, Valuable
  <2>2. p.instrument = ts[m].instrument /\ NetQuantity(ts, places, ts[m].instrument) # 0
    BY <2>1 DEF Position, Open
  <2> QED BY <1>1, <1>3, <2>2 DEF Positions
<1>10. ASSUME NEW i \in Instrument, NetOf(us, i, date) # 0
       PROVE  \E p \in ps : p.instrument = i
  <2>1. NetQuantity(ts, places, i) # 0
    BY <1>1, <1>10
  <2>2. Dealt(ts, places, i) # {}
    BY <2>1, SumEmpty DEF NetQuantity
  <2>3. PICK m \in places : ts[m].instrument = i
    BY <2>2 DEF Dealt
  <2>4. m \in Open(ts, places)
    BY <2>1, <2>3 DEF Open
  <2>5. Position(ts, places, m) \in ps /\ Position(ts, places, m).instrument = i
    BY <2>3, <2>4 DEF ps, Valuable, Position
  <2> QED BY <2>5
<1>11. valued \cup warned = {i \in Instrument : NetOf(us, i, date) # 0}
  BY <1>8, <1>9, <1>10
<1> QED BY <1>7, <1>11 DEF valued, warned, us

(* What is held is valued or warned of, never both, never neither. *)
THEOREM NothingLeftOut == Spec => []EveryHoldingAccounted
<1>1. Inv => EveryHoldingAccounted
  <2> SUFFICES ASSUME Inv, NEW subjects \in Subjects, Loaded(subjects), NEW base \in Currency, NEW date \in AsOf,
                      market_value_at(load_trades(subjects).ok, base, date) # CurrencyConflict
               PROVE  LET value == market_value_at(load_trades(subjects).ok, base, date)
                          valued == {p.instrument : p \in value.positions}
                          warned == {w[2] : w \in value.warnings}
                      IN /\ valued \cap warned = {}
                         /\ valued \cup warned = {i \in Instrument : NetOf(ToSet(subjects), i, date) # 0}
    BY Zenon DEF EveryHoldingAccounted
  <2>1. date \in Int
    BY AsOfAssumption
  <2> QED BY <2>1, HoldingsAccounted, Zenon
<1> QED BY <1>1, PortfolioInvariant, PTL

(* The allocations of a report are weighed sums over the single trades.     *)
LEMMA AllocationsOfReport ==
  ASSUME Inv, NEW subjects \in Subjects, Loaded(subjects), NEW base, NEW date \in Int,
         NEW report, report = portfolio_report(load_trades(subjects).ok, base, date),
         report # CurrencyConflict
  PROVE  /\ \A t : AmountIn(report.type_allocation, t) = WorthOf(ToSet(subjects), base, date, OfType(t))
         /\ \A k : AmountIn(report.sector_allocation, k) = WorthOf(ToSet(subjects), base, date, OfSector(k))
<1> DEFINE ts == load_trades(subjects).ok
           us == ToSet(subjects)
           places == Until(ts, date, Len(ts))
           ps == Valuable(ts, places)
           value == market_value_at(ts, base, date)
           summary == value_change_summary_from(value, ts, base, date)
<1>1. report = Report(value, summary)
  BY DEF portfolio_report
<1> HIDE DEF summary, value
<1>2. /\ value # CurrencyConflict
      /\ report.type_allocation = type_allocation(value.positions)
      /\ report.sector_allocation = sector_allocation(value.positions)
  BY <1>1 DEF Report
<1>3. ts \in Seq(Trade) /\ ~ Clash(ts, places) /\ value = value_positions(ps, base, date)
  <2>1. Answers(subjects, base, date)
    BY Valued
  <2> QED BY <1>2, <2>1 DEF Answers, value
<1>4. Positions(ps)
  BY <1>3, AggregatedPositions DEF Valuable
<1>5. PICK place : LoadedFrom(ts, us, place)
  <2>1. subjects \in Seq(User) /\ serving /\ load_trades(subjects) # NoTradesFound
    BY SubjectsAssumption DEF Loaded
  <2> QED BY <2>1, TradesLoaded
<1>6. serving
  BY DEF Loaded
<1> HIDE DEF ts, us
<1>7. ASSUME NEW part, \A i \in Instrument : part[i] \in Int
      PROVE  SumFunctionOnSet([r \in value.positions |-> r.amount * part[r.instrument]], value.positions) =
               WorthOf(us, base, date, part)
  BY <1>3, <1>5, <1>6, <1>7, WeighedIsRecorded
<1> HIDE DEF ps, places
<1>8. /\ IsFiniteSet(value.positions)
      /\ \A r \in value.positions : r.amount \in Int /\ r.instrument \in Instrument
  BY <1>3, <1>4, ValuedAddUp DEF Inv
<1>9. ASSUME NEW t
      PROVE  AmountIn(report.type_allocation, t) = WorthOf(us, base, date, OfType(t))
  <2>1. \A i \in Instrument : OfType(t)[i] \in Int
    BY DEF OfType
  <2> QED BY <1>2, <1>7, <1>8, <2>1, TypeHas
<1>10. ASSUME NEW k
       PROVE  AmountIn(report.sector_allocation, k) = WorthOf(us, base, date, OfSector(k))
  <2>1. \A i \in Instrument : OfSector(k)[i] \in Int
    BY SharesOfSector
  <2> QED BY <1>2, <1>7, <1>8, <2>1, SectorHas
<1> QED BY <1>9, <1>10 DEF us

(* A type has the worth of the trades in its instruments, and a sector its   *)
(* share of each trade, whatever shares are given.                          *)
THEOREM AllocationsAreLookedThrough == Spec => []AllocationsLookThrough
<1>1. Inv => AllocationsLookThrough
  <2> SUFFICES ASSUME Inv, NEW subjects \in Subjects, Loaded(subjects), NEW base \in Currency, NEW date \in AsOf,
                      NEW report, report = portfolio_report(load_trades(subjects).ok, base, date),
                      report # CurrencyConflict
               PROVE  /\ \A t \in {TypeOf[i] : i \in Instrument} :
                           AmountIn(report.type_allocation, t) = WorthOf(ToSet(subjects), base, date, OfType(t))
                      /\ \A k \in Sector :
                           AmountIn(report.sector_allocation, k) = WorthOf(ToSet(subjects), base, date, OfSector(k))
    BY Zenon DEF AllocationsLookThrough
  <2>1. date \in Int
    BY AsOfAssumption
  <2>2. /\ \A t : AmountIn(report.type_allocation, t) = WorthOf(ToSet(subjects), base, date, OfType(t))
        /\ \A k : AmountIn(report.sector_allocation, k) = WorthOf(ToSet(subjects), base, date, OfSector(k))
    <3> HIDE DEF Sector
    <3> QED BY <2>1, AllocationsOfReport, SMT
  <2> QED BY <2>2, Zenon
<1> QED BY <1>1, PortfolioInvariant, PTL

-----------------------------------------------------------------------------
(* Position summaries.                                                      *)

KeyOf(ts) == [n \in DOMAIN ts |-> <<ts[n].instrument, ts[n].currency>>]

(* The places of the trades of one row.                                     *)
Keyed(ts, places, k) == {n \in places : KeyOf(ts)[n] = k}

(* Summaries have a row for every instrument and currency dealt in.         *)
LEMMA SummariesAre ==
  ASSUME NEW ts, NEW places \in SUBSET DOMAIN ts
  PROVE  /\ DOMAIN Summaries(ts, places) = {KeyOf(ts)[n] : n \in places}
         /\ \A k \in DOMAIN Summaries(ts, places) :
              /\ Summaries(ts, places)[k].quantity =
                   SumFunctionOnSet([n \in Keyed(ts, places, k) |-> ts[n].quantity], Keyed(ts, places, k))
              /\ Summaries(ts, places)[k].trade_count = Cardinality(Keyed(ts, places, k))
<1> DEFINE key(n) == <<ts[n].instrument, ts[n].currency>>
           of(k) == {n \in places : key(n) = k}
           keys == {key(n) : n \in places}
           s == [k \in keys |-> [quantity |-> SumFunctionOnSet([n \in of(k) |-> ts[n].quantity], of(k)),
                                 trade_count |-> Cardinality(of(k))]]
<1>1. Summaries(ts, places) = s
  BY DEF Summaries
<1>2. \A n \in places : KeyOf(ts)[n] = key(n)
  BY DEF KeyOf
<1>3. \A k : of(k) = Keyed(ts, places, k)
  BY <1>2 DEF Keyed
<1>4. keys = {KeyOf(ts)[n] : n \in places}
  BY <1>2
<1>5. DOMAIN s = keys /\ \A k \in keys :
        /\ s[k].quantity = SumFunctionOnSet([n \in of(k) |-> ts[n].quantity], of(k))
        /\ s[k].trade_count = Cardinality(of(k))
  <2> HIDE DEF of, key
  <2> QED OBVIOUS
<1> HIDE DEF s, of, keys
<1> QED BY <1>1, <1>3, <1>4, <1>5

(* The quantities a row of a summary adds up are those of its trades.       *)
LEMMA SummaryQuantities ==
  ASSUME NEW ts \in Seq(Trade), NEW places \in SUBSET DOMAIN ts
  PROVE  \A k : /\ IsFiniteSet(Keyed(ts, places, k)) /\ Keyed(ts, places, k) \in SUBSET places
                /\ \A n \in Keyed(ts, places, k) : Quantities(ts)[n] \in Int
                /\ SumFunctionOnSet([n \in Keyed(ts, places, k) |-> ts[n].quantity], Keyed(ts, places, k)) =
                     SumFunctionOnSet(Quantities(ts), Keyed(ts, places, k))
<1> TAKE k
<1> DEFINE S == Keyed(ts, places, k)
           f == [n \in S |-> ts[n].quantity]
<1>1. S \in SUBSET places
  BY DEF Keyed
<1>2. IsFiniteSet(S)
  BY <1>1, PlacesFinite
<1>3. \A n \in S : f[n] = Quantities(ts)[n] /\ Quantities(ts)[n] \in Int
  <2> TAKE n \in S
  <2>1. n \in DOMAIN ts
    BY <1>1
  <2>2. ts[n] \in Trade
    BY <2>1
  <2> QED BY <2>1, <2>2, TradeFields DEF Quantities
<1> HIDE DEF S
<1>4. \A n \in S : f[n] \in Int /\ f[n] = Quantities(ts)[n]
  BY <1>3
<1> HIDE DEF f
<1>5. SumFunctionOnSet(f, S) = SumFunctionOnSet(Quantities(ts), S)
  BY <1>2, <1>4, SumSame
<1> QED BY <1>1, <1>2, <1>3, <1>5 DEF S, f

(* The places of one account. *)
OfAccount(ts, a) == {n \in DOMAIN ts : ts[n].account = a}

(* The trades are of these accounts, and the summaries of each.             *)
InAccounts(ts, As) == \A n \in DOMAIN ts : ts[n].account \in As

(* The accounts of a user that have a position of a kind. *)
Holding(ts, As, k) == {a \in As : \E n \in OfAccount(ts, a) : KeyOf(ts)[n] = k}

(* A user's trades fall into their accounts. *)
LEMMA AccountsOf ==
  ASSUME Inv, NEW u \in User
  PROVE  /\ trades[u] \in Seq(Trade)
         /\ InAccounts(trades[u], {b \in Account : Owner[b] = u})
<1>1. trades[u] \in Seq(Trade)
  BY DEF Inv
<1>2. \A n \in DOMAIN trades[u] : trades[u][n] \in Trade
  BY <1>1
<1>3. \A n \in DOMAIN trades[u] : Owner[trades[u][n].account] = u
  BY DEF Inv, OwnersMatch
<1> QED BY <1>1, <1>2, <1>3, TradeFields DEF InAccounts

(* What is summed up over all places is summed up account by account. *)
LEMMA AccountByAccount ==
  ASSUME NEW ts \in Seq(Trade), NEW As, InAccounts(ts, As),
         NEW k, NEW f, \A n \in Keyed(ts, DOMAIN ts, k) : f[n] \in Int
  PROVE  SumFunctionOnSet(f, Keyed(ts, DOMAIN ts, k)) =
           SumFunctionOnSet([a \in Holding(ts, As, k) |-> SumFunctionOnSet(f, Keyed(ts, OfAccount(ts, a), k))],
                            Holding(ts, As, k))
<1> DEFINE S == Keyed(ts, DOMAIN ts, k)
           holding == Holding(ts, As, k)
           part == [n \in S |-> ts[n].account]
           sums == [a \in holding |-> SumFunctionOnSet(f, {n \in S : part[n] = a})]
           g == [a \in holding |-> SumFunctionOnSet(f, Keyed(ts, OfAccount(ts, a), k))]
<1>1. S \in SUBSET DOMAIN ts
  BY DEF Keyed
<1>2. IsFiniteSet(S)
  BY <1>1, PlacesFinite
<1>3. holding = {part[n] : n \in S}
  BY <1>1 DEF Keyed, OfAccount, Holding, InAccounts
<1> HIDE DEF holding
<1>4. IsFiniteSet(holding)
  <2> HIDE DEF S, part
  <2> QED BY <1>2, <1>3, ImageFinite
<1>5. SumFunctionOnSet(f, S) = SumFunctionOnSet(sums, holding)
  <2>1. \A n \in S : part[n] \in holding
    BY <1>3
  <2>2. \A n \in S : f[n] \in Int
    OBVIOUS
  <2> HIDE DEF S, part
  <2> QED BY <1>2, <1>4, <2>1, <2>2, SumOfParts
<1>6. \A a \in holding : {n \in S : part[n] = a} = Keyed(ts, OfAccount(ts, a), k)
  BY <1>1 DEF Keyed, OfAccount
<1>7. sums = g
  BY <1>6
<1> HIDE DEF sums, S, g
<1>8. SumFunctionOnSet(f, S) = SumFunctionOnSet(g, holding)
  BY <1>5, <1>7
<1> QED BY <1>8 DEF S, g, holding

(* The latest of some days. *)
LEMMA LatestDay ==
  ASSUME NEW S, IsFiniteSet(S), \A d \in S : d \in Int
  PROVE  \A d \in S : d <= Max({0} \cup S)
<1> DEFINE R == {0} \cup S
           top(T) == \E x \in T : \A y \in T : x >= y
           Good == {T \in SUBSET R : T = {} \/ top(T)}
<1>1. \A d \in R : d \in Int
  OBVIOUS
<1>2. IsFiniteSet(R)
  <2>1. R = S \cup {0}
    OBVIOUS
  <2> QED BY <2>1, FS_AddElement
<1> HIDE DEF R
<1>3. {} \in Good
  OBVIOUS
<1>4. ASSUME NEW T \in SUBSET R, NEW x \in R, x \notin T, T \in Good
      PROVE  T \cup {x} \in Good
  <2>1. CASE T = {}
    <3>1. x >= x
      BY <1>1
    <3> QED BY <2>1, <3>1
  <2>2. CASE T # {}
    <3>1. PICK m \in T : \A y \in T : m >= y
      BY <1>4, <2>2
    <3>2. m \in Int /\ x \in Int /\ \A y \in T : y \in Int
      BY <1>1
    <3>3. CASE m >= x
      BY <3>1, <3>3
    <3>4. CASE ~ (m >= x)
      <4>1. \A y \in T \cup {x} : x >= y
        BY <3>1, <3>2, <3>4
      <4> QED BY <4>1
    <3> QED BY <3>3, <3>4
  <2> QED BY <2>1, <2>2
<1>5. R \in Good
  <2> HIDE DEF Good
  <2> QED BY <1>2, <1>3, <1>4, AddInduction
<1>6. R # {} /\ S \in SUBSET R
  BY DEF R
<1>7. \E x \in R : \A y \in R : x >= y
  BY <1>5, <1>6
<1>8. Max(R) \in R /\ \A y \in R : Max(R) >= y
  BY <1>7 DEF Max
<1>9. \A d \in S : d <= Max(R)
  BY <1>1, <1>6, <1>8
<1> QED BY <1>9 DEF R

(* The engine's positions of all days are the summaries that do not net to zero. *)
LEMMA EngineAgrees ==
  ASSUME NEW ts \in Seq(Trade), NEW whole, whole = Summaries(ts, DOMAIN ts),
         NEW engine, engine = aggregate_positions(ts, Max({0} \cup {t.day : t \in ToSet(ts)}))
  PROVE  IF \E k, l \in DOMAIN whole : k[1] = l[1] /\ k[2] # l[2]
         THEN engine = CurrencyConflict
         ELSE engine = Ok({[instrument |-> k[1], quantity |-> whole[k].quantity, currency |-> k[2]] :
                              k \in {l \in DOMAIN whole : whole[l].quantity # 0}})
<1> DEFINE days == {t.day : t \in ToSet(ts)}
           last == Max({0} \cup days)
           places == DOMAIN ts
           two == \E k, l \in DOMAIN whole : k[1] = l[1] /\ k[2] # l[2]
<1>1. \A n \in DOMAIN ts : ts[n] \in Trade /\ ts[n].day \in days
  BY DEF ToSet
<1>2. IsFiniteSet(days) /\ \A d \in days : d \in Int
  <2> DEFINE day == [n \in DOMAIN ts |-> ts[n].day]
  <2>1. days = {day[n] : n \in DOMAIN ts}
    BY DEF ToSet
  <2>2. \A n \in DOMAIN ts : day[n] \in Int
    BY <1>1, TradeFields
  <2>3. IsFiniteSet(DOMAIN ts)
    BY PlacesFinite
  <2> HIDE DEF days, day
  <2> QED BY <2>1, <2>2, <2>3, ImageFinite
<1>3. Until(ts, last, Len(ts)) = places
  <2>1. \A d \in days : d <= last
    <3> HIDE DEF days
    <3> QED BY <1>2, LatestDay
  <2>2. DOMAIN ts = 1 .. Len(ts)
    OBVIOUS
  <2> HIDE DEF days, last
  <2> QED BY <1>1, <2>1, <2>2 DEF Until
<1>4. /\ Clash(ts, places) => engine = CurrencyConflict
      /\ ~ Clash(ts, places) => engine = Ok(Valuable(ts, places))
  <2>1. engine = aggregate_positions(ts, last)
    OBVIOUS
  <2> HIDE DEF last, places
  <2> QED BY <1>3, <2>1, Aggregated DEF Valuable
<1> HIDE DEF last, days
<1>5. /\ DOMAIN whole = {KeyOf(ts)[n] : n \in places}
      /\ \A k \in DOMAIN whole : whole[k].quantity = SumFunctionOnSet(Quantities(ts), Keyed(ts, places, k))
  <2>1. places \in SUBSET DOMAIN ts /\ whole = Summaries(ts, places)
    OBVIOUS
  <2> HIDE DEF places
  <2>2. /\ DOMAIN whole = {KeyOf(ts)[n] : n \in places}
        /\ \A k \in DOMAIN whole :
             whole[k].quantity =
               SumFunctionOnSet([n \in Keyed(ts, places, k) |-> ts[n].quantity], Keyed(ts, places, k))
    BY <2>1, SummariesAre
  <2>3. \A k : SumFunctionOnSet([n \in Keyed(ts, places, k) |-> ts[n].quantity], Keyed(ts, places, k)) =
               SumFunctionOnSet(Quantities(ts), Keyed(ts, places, k))
    BY <2>1, SummaryQuantities
  <2> QED BY <2>2, <2>3
<1>6. \A n \in places : /\ KeyOf(ts)[n][1] = ts[n].instrument /\ KeyOf(ts)[n][2] = ts[n].currency
                        /\ KeyOf(ts)[n] \in DOMAIN whole
  BY <1>5 DEF KeyOf
<1>7. \A k \in DOMAIN whole : \E n \in places : k = KeyOf(ts)[n]
  BY <1>5
<1>8. Clash(ts, places) <=> two
  <2> HIDE DEF places
  <2> QED BY <1>6, <1>7 DEF Clash
<1>9. ASSUME ~ Clash(ts, places), NEW n \in places
      PROVE  whole[KeyOf(ts)[n]].quantity = NetQuantity(ts, places, ts[n].instrument)
  <2>1. Keyed(ts, places, KeyOf(ts)[n]) = Dealt(ts, places, ts[n].instrument)
    BY <1>9 DEF Keyed, Dealt, Clash, KeyOf
  <2> QED BY <1>5, <1>6, <2>1 DEF NetQuantity
<1> DEFINE open == {l \in DOMAIN whole : whole[l].quantity # 0}
           of(k) == [instrument |-> k[1], quantity |-> whole[k].quantity, currency |-> k[2]]
<1>10. ASSUME ~ Clash(ts, places)
       PROVE  Valuable(ts, places) = {of(k) : k \in open}
  <2>1. ASSUME NEW n \in places
        PROVE  /\ n \in Open(ts, places) <=> KeyOf(ts)[n] \in open
               /\ Position(ts, places, n) = of(KeyOf(ts)[n])
    BY <1>6, <1>9, <1>10 DEF Open, Position
  <2>2. \A k \in open : \E n \in places : k = KeyOf(ts)[n]
    BY <1>7
  <2>3. Open(ts, places) \in SUBSET places
    BY DEF Open
  <2> HIDE DEF open, of, places
  <2> QED BY <2>1, <2>2, <2>3 DEF Valuable
<1> QED BY <1>4, <1>8, <1>10

SummariesOf(ts, As) == [a \in As |-> Summaries(ts, OfAccount(ts, a))]

(* The summaries of the accounts add up, kind by kind. *)
PartsAddUp(ts, As, whole, parts) ==
  /\ DOMAIN whole = UNION {DOMAIN parts[a] : a \in As}
  /\ \A k \in DOMAIN whole :
       /\ {a \in As : k \in DOMAIN parts[a]} = Holding(ts, As, k)
       /\ whole[k].quantity =
            SumFunctionOnSet([a \in Holding(ts, As, k) |-> parts[a][k].quantity], Holding(ts, As, k))
       /\ whole[k].trade_count =
            SumFunctionOnSet([a \in Holding(ts, As, k) |-> parts[a][k].trade_count], Holding(ts, As, k))

(* The summaries of the accounts add up to the one of all trades.           *)
LEMMA UsersPositions ==
  ASSUME NEW ts \in Seq(Trade), NEW As, InAccounts(ts, As),
         NEW whole, whole = Summaries(ts, DOMAIN ts),
         NEW parts, parts = SummariesOf(ts, As)
  PROVE  PartsAddUp(ts, As, whole, parts)
<1>1. \A a \in As : OfAccount(ts, a) \in SUBSET DOMAIN ts /\ parts[a] = Summaries(ts, OfAccount(ts, a))
  BY DEF OfAccount, SummariesOf
<1>2. DOMAIN ts \in SUBSET DOMAIN ts
  OBVIOUS
<1>3. /\ DOMAIN whole = {KeyOf(ts)[n] : n \in DOMAIN ts}
      /\ \A k \in DOMAIN whole :
           /\ whole[k].quantity = SumFunctionOnSet(Quantities(ts), Keyed(ts, DOMAIN ts, k))
           /\ whole[k].trade_count = Cardinality(Keyed(ts, DOMAIN ts, k))
  <2>1. /\ DOMAIN whole = {KeyOf(ts)[n] : n \in DOMAIN ts}
        /\ \A k \in DOMAIN whole :
             /\ whole[k].quantity = SumFunctionOnSet([n \in Keyed(ts, DOMAIN ts, k) |-> ts[n].quantity],
                                                     Keyed(ts, DOMAIN ts, k))
             /\ whole[k].trade_count = Cardinality(Keyed(ts, DOMAIN ts, k))
    BY <1>2, SummariesAre
  <2> QED BY <1>2, <2>1, SummaryQuantities
<1>4. ASSUME NEW a \in As
      PROVE  /\ DOMAIN parts[a] = {KeyOf(ts)[n] : n \in OfAccount(ts, a)}
             /\ \A k \in DOMAIN parts[a] :
                  /\ parts[a][k].quantity = SumFunctionOnSet(Quantities(ts), Keyed(ts, OfAccount(ts, a), k))
                  /\ parts[a][k].trade_count = Cardinality(Keyed(ts, OfAccount(ts, a), k))
  <2> DEFINE places == OfAccount(ts, a)
             part == parts[a]
  <2>0. places \in SUBSET DOMAIN ts /\ part = Summaries(ts, places)
    BY <1>1
  <2> HIDE DEF places, part
  <2>1. /\ DOMAIN part = {KeyOf(ts)[n] : n \in places}
        /\ \A k \in DOMAIN part :
             /\ part[k].quantity = SumFunctionOnSet([n \in Keyed(ts, places, k) |-> ts[n].quantity],
                                                        Keyed(ts, places, k))
             /\ part[k].trade_count = Cardinality(Keyed(ts, places, k))
    BY <2>0, SummariesAre
  <2>2. \A k : SumFunctionOnSet([n \in Keyed(ts, places, k) |-> ts[n].quantity], Keyed(ts, places, k)) =
               SumFunctionOnSet(Quantities(ts), Keyed(ts, places, k))
    BY <2>0, SummaryQuantities
  <2>3. /\ DOMAIN part = {KeyOf(ts)[n] : n \in places}
        /\ \A k \in DOMAIN part :
             /\ part[k].quantity = SumFunctionOnSet(Quantities(ts), Keyed(ts, places, k))
             /\ part[k].trade_count = Cardinality(Keyed(ts, places, k))
    BY <2>1, <2>2
  <2> QED BY <2>3 DEF places, part
<1>5. \A a \in As : \A k : k \in DOMAIN parts[a] <=> \E n \in OfAccount(ts, a) : KeyOf(ts)[n] = k
  BY <1>4
<1>6. DOMAIN whole = UNION {DOMAIN parts[a] : a \in As}
  <2>1. \A n \in DOMAIN ts : ts[n].account \in As /\ n \in OfAccount(ts, ts[n].account)
    BY DEF OfAccount, InAccounts
  <2>2. \A k : k \in DOMAIN whole <=> \E a \in As : k \in DOMAIN parts[a]
    BY <1>1, <1>3, <1>5, <2>1
  <2> QED BY <2>2
<1>7. ASSUME NEW k \in DOMAIN whole
      PROVE  /\ {a \in As : k \in DOMAIN parts[a]} = Holding(ts, As, k)
             /\ whole[k].quantity =
                  SumFunctionOnSet([a \in Holding(ts, As, k) |-> parts[a][k].quantity], Holding(ts, As, k))
             /\ whole[k].trade_count =
                  SumFunctionOnSet([a \in Holding(ts, As, k) |-> parts[a][k].trade_count], Holding(ts, As, k))
  <2> DEFINE holding == Holding(ts, As, k)
             quantity == [a \in holding |-> parts[a][k].quantity]
             count == [a \in holding |-> parts[a][k].trade_count]
             ones == [n \in DOMAIN ts |-> 1]
             S == Keyed(ts, DOMAIN ts, k)
  <2>1. {a \in As : k \in DOMAIN parts[a]} = holding
    BY <1>5 DEF Holding
  <2> HIDE DEF holding
  <2>3. \A a \in holding : a \in As /\ k \in DOMAIN parts[a]
    BY <2>1
  <2>4. \A a \in holding : quantity[a] = SumFunctionOnSet(Quantities(ts), Keyed(ts, OfAccount(ts, a), k))
    BY <1>4, <2>3
  <2>5. \A n \in S : Quantities(ts)[n] \in Int
    BY <1>2, SummaryQuantities
  <2>6. SumFunctionOnSet(Quantities(ts), S) = SumFunctionOnSet(quantity, holding)
    <3> DEFINE g == [a \in holding |-> SumFunctionOnSet(Quantities(ts), Keyed(ts, OfAccount(ts, a), k))]
    <3>1. quantity = g
      BY <2>4
    <3> HIDE DEF quantity
    <3> QED BY <2>5, <3>1, AccountByAccount DEF holding
  <2>7. \A a \in holding : count[a] = SumFunctionOnSet(ones, Keyed(ts, OfAccount(ts, a), k))
    <3> TAKE a \in holding
    <3> DEFINE T == Keyed(ts, OfAccount(ts, a), k)
    <3>1. count[a] = Cardinality(T)
      BY <1>4, <2>3
    <3>2. T \in SUBSET DOMAIN ts
      BY DEF Keyed, OfAccount
    <3>3. IsFiniteSet(T) /\ \A n \in T : ones[n] = 1
      BY <3>2, PlacesFinite
    <3> HIDE DEF T, ones
    <3>4. SumFunctionOnSet(ones, T) = Cardinality(T)
      BY <3>3, SumOfOnes
    <3> QED BY <3>1, <3>4 DEF T
  <2>8. \A n \in S : ones[n] = 1 /\ ones[n] \in Int
    BY DEF Keyed
  <2>9. SumFunctionOnSet(ones, S) = SumFunctionOnSet(count, holding)
    <3> DEFINE g == [a \in holding |-> SumFunctionOnSet(ones, Keyed(ts, OfAccount(ts, a), k))]
    <3>1. count = g
      BY <2>7
    <3> HIDE DEF count, ones
    <3> QED BY <2>8, <3>1, AccountByAccount DEF holding
  <2>10. SumFunctionOnSet(ones, S) = Cardinality(S)
    <3>1. IsFiniteSet(S)
      BY <1>2, SummaryQuantities
    <3> HIDE DEF S, ones
    <3> QED BY <2>8, <3>1, SumOfOnes
  <2> QED BY <1>3, <2>1, <2>6, <2>9, <2>10 DEF holding
<1> QED BY <1>6, <1>7 DEF PartsAddUp

(* The positions of the accounts are the user's, kind by kind, and the       *)
(* engine agrees with them or refuses.                                      *)
THEOREM AccountsAddUpToUser == Spec => []PositionsAgree
<1>1. Inv => PositionsAgree
  <2> SUFFICES ASSUME Inv, NEW u \in User
               PROVE  LET whole == positions_for_user(u)
                          parts == [a \in {b \in Account : Owner[b] = u} |-> positions_for_account(u, a)]
                          holding(k) == {a \in DOMAIN parts : k \in DOMAIN parts[a]}
                          engine == aggregate_positions(trades[u], Max({0} \cup {t.day : t \in ToSet(trades[u])}))
                      IN /\ DOMAIN whole = UNION {DOMAIN parts[a] : a \in DOMAIN parts}
                         /\ \A k \in DOMAIN whole :
                              /\ whole[k].quantity =
                                   SumFunctionOnSet([a \in holding(k) |-> parts[a][k].quantity], holding(k))
                              /\ whole[k].trade_count =
                                   SumFunctionOnSet([a \in holding(k) |-> parts[a][k].trade_count], holding(k))
                         /\ IF \E k, l \in DOMAIN whole : k[1] = l[1] /\ k[2] # l[2]
                            THEN engine = CurrencyConflict
                            ELSE engine = Ok({[instrument |-> k[1], quantity |-> whole[k].quantity, currency |-> k[2]] :
                                                k \in {l \in DOMAIN whole : whole[l].quantity # 0}})
    BY Zenon DEF PositionsAgree
  <2> DEFINE ts == trades[u]
             As == {b \in Account : Owner[b] = u}
             whole == positions_for_user(u)
             parts == [a \in As |-> positions_for_account(u, a)]
             holding(k) == {a \in DOMAIN parts : k \in DOMAIN parts[a]}
             engine == aggregate_positions(trades[u], Max({0} \cup {t.day : t \in ToSet(trades[u])}))
  <2>1. ts \in Seq(Trade) /\ InAccounts(ts, As)
    BY AccountsOf
  <2>2. whole = Summaries(ts, DOMAIN ts)
    BY DEF positions_for_user
  <2>3. parts = SummariesOf(ts, As) /\ DOMAIN parts = As
    BY DEF positions_for_account, OfAccount, SummariesOf
  <2>4. engine = aggregate_positions(ts, Max({0} \cup {t.day : t \in ToSet(ts)}))
    OBVIOUS
  <2> HIDE DEF ts, As, whole, parts, engine
  <2>5. PartsAddUp(ts, As, whole, parts)
    BY <2>1, <2>2, <2>3, UsersPositions
  <2>6. /\ DOMAIN whole = UNION {DOMAIN parts[a] : a \in As}
        /\ \A k \in DOMAIN whole :
             /\ {a \in As : k \in DOMAIN parts[a]} = Holding(ts, As, k)
             /\ whole[k].quantity =
                  SumFunctionOnSet([a \in Holding(ts, As, k) |-> parts[a][k].quantity], Holding(ts, As, k))
             /\ whole[k].trade_count =
                  SumFunctionOnSet([a \in Holding(ts, As, k) |-> parts[a][k].trade_count], Holding(ts, As, k))
    BY <2>5 DEF PartsAddUp
  <2>7. DOMAIN whole = UNION {DOMAIN parts[a] : a \in DOMAIN parts}
    BY <2>3, <2>6
  <2>8. \A k \in DOMAIN whole :
          /\ whole[k].quantity = SumFunctionOnSet([a \in holding(k) |-> parts[a][k].quantity], holding(k))
          /\ whole[k].trade_count = SumFunctionOnSet([a \in holding(k) |-> parts[a][k].trade_count], holding(k))
    <3> TAKE k \in DOMAIN whole
    <3>1. holding(k) = Holding(ts, As, k)
      BY <2>3, <2>6
    <3> QED BY <2>6, <3>1
  <2>9. IF \E k, l \in DOMAIN whole : k[1] = l[1] /\ k[2] # l[2]
        THEN engine = CurrencyConflict
        ELSE engine = Ok({[instrument |-> k[1], quantity |-> whole[k].quantity, currency |-> k[2]] :
                            k \in {l \in DOMAIN whole : whole[l].quantity # 0}})
    BY <2>1, <2>2, <2>4, EngineAgrees
  <2> QED BY <2>7, <2>8, <2>9, Zenon DEF whole, parts, As, engine
<1> QED BY <1>1, PortfolioInvariant, PTL

-----------------------------------------------------------------------------
(* The calendar.                                                           *)

(* The first day of a year, and whether it has a day more.                  *)
NewYear(y) == DayOrd(y, 1, 1)

Leap(y) == IF IsLeap(y) THEN 1 ELSE 0

(* Days of a year before its months. *)
Before(y, m) ==
  IF m = 1 THEN 0 ELSE IF m = 2 THEN 31
  ELSE Leap(y) + (IF m = 3 THEN 59 ELSE IF m = 4 THEN 90 ELSE IF m = 5 THEN 120
                  ELSE IF m = 6 THEN 151 ELSE IF m = 7 THEN 181 ELSE IF m = 8 THEN 212
                  ELSE IF m = 9 THEN 243 ELSE IF m = 10 THEN 273 ELSE IF m = 11 THEN 304 ELSE 334)

(* f adds up the lengths of the months of a year.                           *)
MonthsAdded(year, f) ==
  f = [m \in 1 .. 12 |-> IF m = 1 THEN 0 ELSE f[m - 1] + DaysIn(year, m - 1)]

(* The lengths of the months.                                               *)
LEMMA MonthLengths ==
  ASSUME NEW y \in Int
  PROVE  /\ DaysIn(y, 1) = 31 /\ DaysIn(y, 2) = 28 + Leap(y) /\ DaysIn(y, 3) = 31
         /\ DaysIn(y, 4) = 30 /\ DaysIn(y, 5) = 31 /\ DaysIn(y, 6) = 30
         /\ DaysIn(y, 7) = 31 /\ DaysIn(y, 8) = 31 /\ DaysIn(y, 9) = 30
         /\ DaysIn(y, 10) = 31 /\ DaysIn(y, 11) = 30 /\ DaysIn(y, 12) = 31
         /\ Leap(y) \in 0 .. 1
BY DEF DaysIn, Leap

(* The months, one by one.                                                  *)
LEMMA TwelveMonths == \A m : m \in 1 .. 12 <=>
  m = 1 \/ m = 2 \/ m = 3 \/ m = 4 \/ m = 5 \/ m = 6 \/ m = 7 \/ m = 8 \/ m = 9 \/ m = 10 \/ m = 11 \/ m = 12
OBVIOUS

(* DaysBefore adds up the months.                                           *)
LEMMA MonthsAddUp ==
  ASSUME NEW y \in Int, NEW m \in 1 .. 12
  PROVE  DaysBefore(y, m) = Before(y, m)
<1> DEFINE t == [k \in 1 .. 12 |-> Before(y, k)]
           f == CHOOSE g : MonthsAdded(y, g)
<1>1. DaysBefore(y, m) = f[m]
  BY Zenon DEF DaysBefore, MonthsAdded
<1>2. \A k \in 1 .. 12 : Before(y, k) = IF k = 1 THEN 0 ELSE Before(y, k - 1) + DaysIn(y, k - 1)
  BY TwelveMonths, MonthLengths DEF Before
<1>3. MonthsAdded(y, t)
  <2>1. \A k \in 1 .. 12 : k # 1 => k - 1 \in 1 .. 12
    OBVIOUS
  <2>2. \A k \in 1 .. 12 : t[k] = IF k = 1 THEN 0 ELSE t[k - 1] + DaysIn(y, k - 1)
    BY <1>2, <2>1
  <2>3. t = [k \in 1 .. 12 |-> t[k]]
    OBVIOUS
  <2> HIDE DEF t
  <2> QED BY <2>2, <2>3 DEF MonthsAdded
<1>4. MonthsAdded(y, f)
  BY <1>3
<1> HIDE DEF f
<1>5. f[1] = 0 /\ \A k \in 2 .. 12 : f[k] = f[k - 1] + DaysIn(y, k - 1)
  <2>1. \A k \in 1 .. 12 : f[k] = IF k = 1 THEN 0 ELSE f[k - 1] + DaysIn(y, k - 1)
    BY <1>4 DEF MonthsAdded
  <2> QED BY <2>1
<1>6. /\ f[1] = Before(y, 1) /\ f[2] = Before(y, 2) /\ f[3] = Before(y, 3) /\ f[4] = Before(y, 4)
      /\ f[5] = Before(y, 5) /\ f[6] = Before(y, 6)
  <2>1. \A k \in 2 .. 12 : k \in 1 .. 12 /\ k # 1
    OBVIOUS
  <2>2. f[1] = Before(y, 1)
    BY <1>5 DEF Before
  <2>3. f[2] = Before(y, 2)
    BY <1>2, <1>5, <2>1, <2>2, 2 \in 2 .. 12, 2 - 1 = 1
  <2>4. f[3] = Before(y, 3)
    BY <1>2, <1>5, <2>1, <2>3, 3 \in 2 .. 12, 3 - 1 = 2
  <2>5. f[4] = Before(y, 4)
    BY <1>2, <1>5, <2>1, <2>4, 4 \in 2 .. 12, 4 - 1 = 3
  <2>6. f[5] = Before(y, 5)
    BY <1>2, <1>5, <2>1, <2>5, 5 \in 2 .. 12, 5 - 1 = 4
  <2>7. f[6] = Before(y, 6)
    BY <1>2, <1>5, <2>1, <2>6, 6 \in 2 .. 12, 6 - 1 = 5
  <2> QED BY <2>2, <2>3, <2>4, <2>5, <2>6, <2>7
<1>7. /\ f[7] = Before(y, 7) /\ f[8] = Before(y, 8) /\ f[9] = Before(y, 9) /\ f[10] = Before(y, 10)
      /\ f[11] = Before(y, 11) /\ f[12] = Before(y, 12)
  <2>1. \A k \in 2 .. 12 : k \in 1 .. 12 /\ k # 1
    OBVIOUS
  <2>2. f[7] = Before(y, 7)
    BY <1>2, <1>5, <1>6, <2>1, 7 \in 2 .. 12, 7 - 1 = 6
  <2>3. f[8] = Before(y, 8)
    BY <1>2, <1>5, <2>1, <2>2, 8 \in 2 .. 12, 8 - 1 = 7
  <2>4. f[9] = Before(y, 9)
    BY <1>2, <1>5, <2>1, <2>3, 9 \in 2 .. 12, 9 - 1 = 8
  <2>5. f[10] = Before(y, 10)
    BY <1>2, <1>5, <2>1, <2>4, 10 \in 2 .. 12, 10 - 1 = 9
  <2>6. f[11] = Before(y, 11)
    BY <1>2, <1>5, <2>1, <2>5, 11 \in 2 .. 12, 11 - 1 = 10
  <2>7. f[12] = Before(y, 12)
    BY <1>2, <1>5, <2>1, <2>6, 12 \in 2 .. 12, 12 - 1 = 11
  <2> QED BY <2>2, <2>3, <2>4, <2>5, <2>6, <2>7
<1>8. \A k \in 1 .. 12 : f[k] = Before(y, k)
  BY <1>6, <1>7, TwelveMonths
<1> QED BY <1>1, <1>8

-----------------------------------------------------------------------------
(* Years.                                                                   *)

LEMMA Ordinals ==
  ASSUME NEW y \in Int
  PROVE  /\ NewYear(y) = 365 * (y - 1) + (y - 1) \div 4 - (y - 1) \div 100 + (y - 1) \div 400 + 1
         /\ NewYear(y) \in Int
         /\ \A m \in 1 .. 12, d \in Int : DayOrd(y, m, d) = NewYear(y) + Before(y, m) + (d - 1)
         /\ \A m \in 1 .. 12 : Before(y, m) \in 0 .. 335
<1>1. \A m \in 1 .. 12 : DaysBefore(y, m) = Before(y, m)
  BY MonthsAddUp
<1>2. Before(y, 1) = 0 /\ 1 \in 1 .. 12
  BY DEF Before
<1>3. \A m \in 1 .. 12 : Before(y, m) \in 0 .. 335
  BY TwelveMonths, MonthLengths DEF Before
<1>4. NewYear(y) = 365 * (y - 1) + (y - 1) \div 4 - (y - 1) \div 100 + (y - 1) \div 400 + 0 + 1
  BY <1>1, <1>2 DEF NewYear, DayOrd
<1>5. ASSUME NEW m \in 1 .. 12, NEW d \in Int
      PROVE  DayOrd(y, m, d) = NewYear(y) + Before(y, m) + (d - 1)
  <2>1. DayOrd(y, m, d) =
          365 * (y - 1) + (y - 1) \div 4 - (y - 1) \div 100 + (y - 1) \div 400 + Before(y, m) + d
    BY <1>1 DEF DayOrd
  <2>2. Before(y, m) \in Int
    BY <1>3
  <2> QED BY <1>4, <2>1, <2>2
<1> QED BY <1>3, <1>4, <1>5

(* A year has 365 days, or one more.                                        *)
LEMMA YearLength ==
  ASSUME NEW y \in Int
  PROVE  NewYear(y + 1) = NewYear(y) + 365 + Leap(y)
<1> DEFINE x == y - 1
<1>1. /\ NewYear(y) = 365 * x + x \div 4 - x \div 100 + x \div 400 + 1
      /\ NewYear(y + 1) = 365 * y + y \div 4 - y \div 100 + y \div 400 + 1
  BY Ordinals, (y + 1) - 1 = y
<1>2. y \div 4 = x \div 4 + (IF y % 4 = 0 THEN 1 ELSE 0)
  OBVIOUS
<1>3. y \div 100 = x \div 100 + (IF y % 100 = 0 THEN 1 ELSE 0)
  OBVIOUS
<1>4. y \div 400 = x \div 400 + (IF y % 400 = 0 THEN 1 ELSE 0)
  OBVIOUS
<1>5. /\ y % 100 = 0 => y % 4 = 0
      /\ y % 400 = 0 => y % 100 = 0
  OBVIOUS
<1> QED BY <1>1, <1>2, <1>3, <1>4, <1>5 DEF Leap, IsLeap

(* Years follow each other.                                                 *)
LEMMA LaterYear ==
  ASSUME NEW y \in Int, NEW z \in Int, y < z
  PROVE  NewYear(y + 1) <= NewYear(z)
<1> DEFINE x == z - 1
<1>1. /\ NewYear(y + 1) = 365 * y + y \div 4 - y \div 100 + y \div 400 + 1
      /\ NewYear(z) = 365 * x + x \div 4 - x \div 100 + x \div 400 + 1
  BY Ordinals, (y + 1) - 1 = y
<1>2. y \in Int /\ x \in Int /\ y <= x
  OBVIOUS
<1> HIDE DEF x
<1>3. y \div 400 <= x \div 400
  BY <1>2
<1>4. y \div 4 - y \div 100 <= x \div 4 - x \div 100
  <2>1. PICK a \in Int, b \in 0 .. 99 : y = 100 * a + b
    <3> DEFINE h == y \div 100
    <3>1. h \in Int /\ 100 * h <= y /\ y < 100 * h + 100
      BY <1>2
    <3> HIDE DEF h
    <3>2. y - 100 * h \in 0 .. 99 /\ y = 100 * h + (y - 100 * h)
      BY <1>2, <3>1
    <3> QED BY <3>1, <3>2
  <2>2. PICK c \in Int, d \in 0 .. 99 : x = 100 * c + d
    <3> DEFINE h == x \div 100
    <3>1. h \in Int /\ 100 * h <= x /\ x < 100 * h + 100
      BY <1>2
    <3> HIDE DEF h
    <3>2. x - 100 * h \in 0 .. 99 /\ x = 100 * h + (x - 100 * h)
      BY <1>2, <3>1
    <3> QED BY <3>1, <3>2
  <2>3. y \div 100 = a /\ x \div 100 = c /\ y \div 4 = 25 * a + b \div 4 /\ x \div 4 = 25 * c + d \div 4
    BY <2>1, <2>2
  <2>4. a <= c /\ b \div 4 \in 0 .. 24 /\ d \div 4 \in 0 .. 24 /\ (a = c => b \div 4 <= d \div 4)
    BY <1>2, <2>1, <2>2
  <2> QED BY <2>3, <2>4
<1> QED BY <1>1, <1>2, <1>3, <1>4

(* Every day lies in exactly one year, the one Year finds, however far from *)
(* year 1.                                                                  *)
LEMMA YearOfDay ==
  ASSUME NEW d \in Int
  PROVE  /\ Year(d) \in Int /\ NewYear(Year(d)) <= d /\ d < NewYear(Year(d) + 1)
         /\ \A y \in Int : NewYear(y) <= d /\ d < NewYear(y + 1) => y = Year(d)
<1> DEFINE a == (400 * d) \div 146097
<1>1. a \in Int /\ 146097 * a <= 400 * d /\ 400 * d < 146097 * a + 146097
  OBVIOUS
<1> HIDE DEF a
<1>2. \A y \in Int : NewYear(y) \in Int
  BY Ordinals
<1>3. NewYear(a) <= d
  <2> DEFINE x == a - 1
  <2>1. NewYear(a) = 365 * x + x \div 4 - x \div 100 + x \div 400 + 1 /\ x \in Int
    BY <1>1, Ordinals
  <2>2. 4 * (x \div 4) <= x /\ x < 100 * (x \div 100) + 100 /\ 400 * (x \div 400) <= x
    BY <2>1
  <2>3. x \div 4 \in Int /\ x \div 100 \in Int /\ x \div 400 \in Int /\ a = x + 1
    BY <1>1, <2>1
  <2> HIDE DEF x
  <2> QED BY <1>1, <2>1, <2>2, <2>3
<1>4. d < NewYear(a + 3)
  <2> DEFINE x == a + 2
  <2>1. NewYear(a + 3) = 365 * x + x \div 4 - x \div 100 + x \div 400 + 1 /\ x \in Int
    BY <1>1, Ordinals, (a + 3) - 1 = a + 2
  <2>2. x < 4 * (x \div 4) + 4 /\ 100 * (x \div 100) <= x /\ x < 400 * (x \div 400) + 400
    BY <2>1
  <2>3. x \div 4 \in Int /\ x \div 100 \in Int /\ x \div 400 \in Int /\ a = x - 2
    BY <1>1, <2>1
  <2> HIDE DEF x
  <2> QED BY <1>1, <2>1, <2>2, <2>3
<1>5. \E y \in a .. a + 2 : NewYear(y) <= d /\ d < NewYear(y + 1)
  <2>1. a \in a .. a + 2 /\ a + 1 \in a .. a + 2 /\ a + 2 \in a .. a + 2 /\ (a + 1) + 1 = a + 2 /\ (a + 2) + 1 = a + 3
    BY <1>1
  <2>2. NewYear(a + 1) \in Int /\ NewYear(a + 2) \in Int
    BY <1>1, <1>2
  <2> QED BY <1>3, <1>4, <2>1, <2>2
<1>6. Year(d) \in a .. a + 2 /\ NewYear(Year(d)) <= d /\ d < NewYear(Year(d) + 1)
  <2>1. Year(d) = CHOOSE y \in a .. a + 2 : NewYear(y) <= d /\ d < NewYear(y + 1)
    BY DEF Year, NewYear, a
  <2> QED BY <1>5, <2>1
<1>7. Year(d) \in Int
  BY <1>1, <1>6
<1>8. ASSUME NEW y \in Int, NewYear(y) <= d, d < NewYear(y + 1)
      PROVE  y = Year(d)
  <2> DEFINE z == Year(d)
  <2>1. z \in Int /\ NewYear(z) <= d /\ d < NewYear(z + 1)
    BY <1>6, <1>7
  <2> HIDE DEF z
  <2>2. ~ (y < z)
    <3>1. y < z => NewYear(y + 1) <= NewYear(z)
      BY <2>1, LaterYear
    <3> QED BY <1>2, <1>8, <2>1, <3>1
  <2>3. ~ (z < y)
    <3>1. z < y => NewYear(z + 1) <= NewYear(y)
      BY <2>1, LaterYear
    <3> QED BY <1>2, <1>8, <2>1, <3>1
  <2> QED BY <2>1, <2>2, <2>3 DEF z
<1> QED BY <1>6, <1>7, <1>8

-----------------------------------------------------------------------------
(* Months and days.                                                         *)

LEMMA MonthsInOrder ==
  ASSUME NEW y \in Int
  PROVE  /\ \A m \in 1 .. 12 : /\ Before(y, m) \in Nat /\ DaysIn(y, m) \in 28 .. 31
                               /\ Before(y, m) + DaysIn(y, m) <= 365 + Leap(y)
         /\ \A m, n \in 1 .. 12 : m < n => Before(y, m) + DaysIn(y, m) <= Before(y, n)
         /\ \A k \in 0 .. 364 + Leap(y) : \E m \in 1 .. 12 : k - Before(y, m) \in 0 .. DaysIn(y, m) - 1
<1>1. \A m \in 1 .. 12 : /\ Before(y, m) \in Nat /\ DaysIn(y, m) \in 28 .. 31
                         /\ Before(y, m) + DaysIn(y, m) <= 365 + Leap(y)
  BY TwelveMonths, MonthLengths DEF Before
<1>2. \A m \in 1 .. 11 : Before(y, m) + DaysIn(y, m) = Before(y, m + 1)
  <2>1. \A m \in 1 .. 11 : m \in 1 .. 12 /\ m # 12
    OBVIOUS
  <2> QED BY <2>1, TwelveMonths, MonthLengths DEF Before
<1>3. \A m, n \in 1 .. 12 : m < n => Before(y, m) + DaysIn(y, m) <= Before(y, n)
  BY TwelveMonths, MonthLengths DEF Before
<1>4. ASSUME NEW k \in 0 .. 364 + Leap(y)
      PROVE  \E m \in 1 .. 12 : k - Before(y, m) \in 0 .. DaysIn(y, m) - 1
  BY TwelveMonths, MonthLengths DEF Before
<1> QED BY <1>1, <1>3, <1>4

(* Every day has exactly one month and day of the month.                    *)
LEMMA MonthOfDay ==
  ASSUME NEW d \in Int, NEW y, y = Year(d)
  PROVE  /\ y \in Int /\ Month(d) \in 1 .. 12 /\ DayOfMonth(d) \in 1 .. DaysIn(y, Month(d))
         /\ d = NewYear(y) + Before(y, Month(d)) + (DayOfMonth(d) - 1)
         /\ \A m \in 1 .. 12 : \A k \in 1 .. DaysIn(y, m) :
              d = NewYear(y) + Before(y, m) + (k - 1) => m = Month(d) /\ k = DayOfMonth(d)
<1> DEFINE fits(m) == d - DayOrd(y, m, 1) \in 0 .. DaysIn(y, m) - 1
<1>1. y \in Int /\ NewYear(y) \in Int /\ NewYear(y) <= d /\ d < NewYear(y) + 365 + Leap(y) /\ Leap(y) \in 0 .. 1
  <2>1. y \in Int /\ NewYear(y) <= d /\ d < NewYear(y + 1)
    BY YearOfDay
  <2>2. NewYear(y + 1) = NewYear(y) + 365 + Leap(y)
    BY <2>1, YearLength
  <2>3. Leap(y) \in 0 .. 1 /\ NewYear(y) \in Int
    BY <2>1, MonthLengths, Ordinals
  <2> QED BY <2>1, <2>2, <2>3
<1>2. \A m \in 1 .. 12 : /\ DayOrd(y, m, 1) = NewYear(y) + Before(y, m)
                         /\ Before(y, m) \in Int /\ DaysIn(y, m) \in Int
  <2>1. \A m \in 1 .. 12 : DayOrd(y, m, 1) = NewYear(y) + Before(y, m) + 0
    <3>1. \A m \in 1 .. 12, k \in Int : DayOrd(y, m, k) = NewYear(y) + Before(y, m) + (k - 1)
      BY <1>1, Ordinals
    <3> QED BY <3>1
  <2>2. \A m \in 1 .. 12 : Before(y, m) \in Nat /\ DaysIn(y, m) \in 28 .. 31
    BY <1>1, MonthsInOrder
  <2> QED BY <1>1, <2>1, <2>2
<1>3. \E m \in 1 .. 12 : fits(m)
  <2>1. d - NewYear(y) \in 0 .. 364 + Leap(y)
    BY <1>1
  <2>2. PICK m \in 1 .. 12 : (d - NewYear(y)) - Before(y, m) \in 0 .. DaysIn(y, m) - 1
    BY <1>1, <2>1, MonthsInOrder
  <2>3. d - DayOrd(y, m, 1) = (d - NewYear(y)) - Before(y, m)
    BY <1>1, <1>2
  <2> QED BY <2>2, <2>3
<1>4. Month(d) = CHOOSE m \in 1 .. 12 : fits(m)
  BY DEF Month, MonthIn
<1>5. Month(d) \in 1 .. 12 /\ fits(Month(d))
  BY <1>3, <1>4
<1>6. DayOfMonth(d) = d - DayOrd(y, Month(d), 1) + 1
  BY DEF DayOfMonth
<1> DEFINE n == Month(d)
<1> HIDE DEF n
<1>7. n \in 1 .. 12 /\ DayOfMonth(d) \in 1 .. DaysIn(y, n) /\ d = NewYear(y) + Before(y, n) + (DayOfMonth(d) - 1)
  <2>1. n \in 1 .. 12 /\ fits(n) /\ DayOfMonth(d) = d - DayOrd(y, n, 1) + 1
    BY <1>5, <1>6 DEF n
  <2>2. /\ DayOrd(y, n, 1) = NewYear(y) + Before(y, n)
        /\ Before(y, n) \in Int /\ DaysIn(y, n) \in Int
    BY <1>2, <2>1
  <2> QED BY <1>1, <2>1, <2>2
<1>8. ASSUME NEW m \in 1 .. 12, NEW k \in 1 .. DaysIn(y, m), d = NewYear(y) + Before(y, m) + (k - 1)
      PROVE  m = n /\ k = DayOfMonth(d)
  <2> DEFINE j == DayOfMonth(d)
  <2>0. j \in 1 .. DaysIn(y, n) /\ d = NewYear(y) + Before(y, n) + (j - 1)
    BY <1>7
  <2> HIDE DEF j
  <2>1. /\ Before(y, m) \in Int /\ DaysIn(y, m) \in Int /\ Before(y, n) \in Int /\ DaysIn(y, n) \in Int
    BY <1>2, <1>7
  <2>2. Before(y, m) + k = Before(y, n) + j
    <3>1. k \in Int /\ j \in Int /\ NewYear(y) \in Int
      BY <1>1, <2>0
    <3>2. NewYear(y) + Before(y, m) + (k - 1) = NewYear(y) + Before(y, n) + (j - 1)
      BY <1>8, <2>0
    <3> QED BY <2>1, <3>1, <3>2
  <2>3. ~ (m < n)
    <3>1. m < n => Before(y, m) + DaysIn(y, m) <= Before(y, n)
      BY <1>1, <1>7, MonthsInOrder
    <3> QED BY <2>0, <2>1, <2>2, <3>1
  <2>4. ~ (n < m)
    <3>1. n < m => Before(y, n) + DaysIn(y, n) <= Before(y, m)
      BY <1>1, <1>7, MonthsInOrder
    <3> QED BY <2>0, <2>1, <2>2, <3>1
  <2>5. m = n
    BY <1>7, <2>3, <2>4
  <2> QED BY <2>0, <2>1, <2>2, <2>5 DEF j
<1> QED BY <1>1, <1>7, <1>8 DEF n

(* A date has the year, the month and the day it is made of. *)
LEMMA DateParts ==
  ASSUME NEW y \in Int, NEW m \in 1 .. 12, NEW k \in 1 .. DaysIn(y, m)
  PROVE  /\ DayOrd(y, m, k) = NewYear(y) + Before(y, m) + (k - 1) /\ DayOrd(y, m, k) \in Int
         /\ Year(DayOrd(y, m, k)) = y /\ Month(DayOrd(y, m, k)) = m /\ DayOfMonth(DayOrd(y, m, k)) = k
<1> DEFINE d == DayOrd(y, m, k)
<1>1. /\ Before(y, m) \in Nat /\ DaysIn(y, m) \in 28 .. 31 /\ NewYear(y) \in Int
      /\ Before(y, m) + DaysIn(y, m) <= 365 + Leap(y) /\ Leap(y) \in 0 .. 1
  <2>1. /\ Before(y, m) \in Nat /\ DaysIn(y, m) \in 28 .. 31
        /\ Before(y, m) + DaysIn(y, m) <= 365 + Leap(y)
    BY MonthsInOrder
  <2>2. Leap(y) \in 0 .. 1
    BY MonthLengths
  <2>3. NewYear(y) \in Int
    BY Ordinals
  <2> QED BY <2>1, <2>2, <2>3
<1>2. k \in Int
  BY <1>1
<1>3. d = NewYear(y) + Before(y, m) + (k - 1)
  <2>1. \A l \in 1 .. 12, i \in Int : DayOrd(y, l, i) = NewYear(y) + Before(y, l) + (i - 1)
    BY Ordinals
  <2> QED BY <1>2, <2>1
<1> HIDE DEF d
<1>4. d \in Int /\ NewYear(y) <= d /\ d < NewYear(y) + 365 + Leap(y)
  BY <1>1, <1>3
<1>5. y = Year(d)
  BY <1>4, YearLength, YearOfDay
<1>6. m = Month(d) /\ k = DayOfMonth(d)
  BY <1>3, <1>4, <1>5, MonthOfDay
<1> QED BY <1>3, <1>4, <1>5, <1>6 DEF d

(* The month and the day, as one number that orders the days of a year.     *)
DayKey(d) == Month(d) * 31 + DayOfMonth(d)

(* Within a year later days have greater keys. *)
LEMMA KeysInOrder ==
  ASSUME NEW d \in Int, NEW e \in Int, Year(d) = Year(e), d < e
  PROVE  DayKey(d) \in Int /\ DayKey(e) \in Int /\ DayKey(d) < DayKey(e)
<1> DEFINE y == Year(d)
           m == Month(d)
           n == Month(e)
           j == DayOfMonth(d)
           k == DayOfMonth(e)
<1>1. /\ y \in Int /\ m \in 1 .. 12 /\ j \in 1 .. DaysIn(y, m)
      /\ d = NewYear(y) + Before(y, m) + (j - 1)
  BY MonthOfDay
<1>2. /\ n \in 1 .. 12 /\ k \in 1 .. DaysIn(y, n)
      /\ e = NewYear(y) + Before(y, n) + (k - 1)
  BY MonthOfDay
<1>3. DayKey(d) = m * 31 + j /\ DayKey(e) = n * 31 + k
  BY DEF DayKey
<1> HIDE DEF y, m, n, j, k
<1>4. /\ Before(y, m) \in Nat /\ DaysIn(y, m) \in 28 .. 31 /\ Before(y, n) \in Nat /\ DaysIn(y, n) \in 28 .. 31
      /\ NewYear(y) \in Int
  <2>1. NewYear(y) \in Int
    BY <1>1, Ordinals
  <2> QED BY <1>1, <1>2, <2>1, MonthsInOrder
<1>5. ~ (n < m)
  <2>1. n < m => Before(y, n) + DaysIn(y, n) <= Before(y, m)
    BY <1>1, <1>2, MonthsInOrder
  <2> QED BY <1>1, <1>2, <1>4, <2>1
<1>6. CASE m = n
  BY <1>1, <1>2, <1>3, <1>4, <1>6
<1>7. CASE m < n
  BY <1>1, <1>2, <1>3, <1>4, <1>7
<1> QED BY <1>1, <1>2, <1>5, <1>6, <1>7

-----------------------------------------------------------------------------
(* The comparison dates.                                                    *)

(* The same day a year earlier, or the last day before it. *)
LEMMA YearBack ==
  ASSUME NEW d \in Int
  PROVE  /\ PrevYear(d) \in d - 366 .. d - 365
         /\ Year(PrevYear(d)) = Year(d) - 1
         /\ DayKey(PrevYear(d)) <= DayKey(d)
         /\ \A e \in Int : Year(e) = Year(d) - 1 /\ DayKey(e) <= DayKey(d) => e <= PrevYear(d)
<1> DEFINE y == Year(d)
           x == Year(d) - 1
           m == Month(d)
           k == DayOfMonth(d)
           p == PrevYear(d)
<1>1. y \in Int /\ m \in 1 .. 12 /\ k \in 1 .. DaysIn(y, m) /\ d = NewYear(y) + Before(y, m) + (k - 1)
  BY MonthOfDay
<1>2. p = IF IsDate(x, m, k) THEN DayOrd(x, m, k) ELSE DayOrd(x, m, k - 1)
  BY DEF PrevYear, OrDayBefore
<1>3. DayKey(d) = m * 31 + k /\ x = y - 1
  BY DEF DayKey
<1> HIDE DEF y, x, m, k, p
<1>4. x \in Int /\ y = x + 1 /\ NewYear(y) = NewYear(x) + 365 + Leap(x) /\ NewYear(x) \in Int
  <2>1. x \in Int /\ y = x + 1
    BY <1>1, <1>3
  <2>2. NewYear(x + 1) = NewYear(x) + 365 + Leap(x)
    BY <2>1, YearLength
  <2>3. NewYear(x) \in Int
    BY <2>1, Ordinals
  <2> QED BY <2>1, <2>2, <2>3
<1>5. DaysIn(y, m) \in 28 .. 31 /\ DaysIn(x, m) \in 28 .. 31
  BY <1>1, <1>4, MonthsInOrder
<1>6. \A l \in 1 .. 12 : /\ l <= 2 => Before(y, l) = Before(x, l)
                         /\ l > 2 => Before(y, l) - Before(x, l) = Leap(y) - Leap(x)
                         /\ l # 2 => DaysIn(y, l) = DaysIn(x, l)
                         /\ Before(x, l) \in Int /\ Before(y, l) \in Int
  BY <1>1, <1>4, TwelveMonths, MonthLengths DEF Before
<1>7. Leap(x) \in 0 .. 1 /\ Leap(y) \in 0 .. 1 /\ (Leap(x) = 0 \/ Leap(y) = 0)
  BY <1>1, <1>4, MonthLengths DEF Leap, IsLeap
<1>8. DaysIn(x, 2) = 28 + Leap(x) /\ DaysIn(y, 2) = 28 + Leap(y) /\ DaysIn(x, 3) = 31
  BY <1>1, <1>4, MonthLengths
<1>9. CASE IsDate(x, m, k)
  <2>1. k \in 1 .. DaysIn(x, m) /\ p = DayOrd(x, m, k)
    BY <1>2, <1>9 DEF IsDate
  <2>2. /\ p = NewYear(x) + Before(x, m) + (k - 1) /\ p \in Int
        /\ Year(p) = x /\ Month(p) = m /\ DayOfMonth(p) = k
    BY <1>1, <1>4, <2>1, DateParts
  <2>3. DayKey(p) = DayKey(d) /\ DayKey(d) \in Int
    BY <1>1, <1>3, <1>5, <2>2 DEF DayKey
  <2>4. p \in d - 366 .. d - 365
    <3>0. /\ Before(x, m) \in Int /\ Before(y, m) \in Int /\ k \in Int /\ Leap(x) \in Int
          /\ NewYear(x) \in Int
      <4>1. Before(x, m) \in Int /\ Before(y, m) \in Int
        BY <1>1, <1>6
      <4>2. k \in Int
        <5>1. DaysIn(y, m) \in Int
          BY <1>5
        <5> QED BY <1>1, <5>1
      <4>3. Leap(x) \in Int /\ NewYear(x) \in Int
        BY <1>4, <1>7
      <4> QED BY <4>1, <4>2, <4>3
    <3>1. d = NewYear(x) + 365 + Leap(x) + Before(y, m) + (k - 1)
      BY <1>1, <1>4
    <3>2. d - p = 365 + Leap(x) + (Before(y, m) - Before(x, m))
      BY <2>2, <3>0, <3>1
    <3>3. m <= 2 => Before(y, m) = Before(x, m)
      BY <1>1, <1>6
    <3>4. m > 2 => Before(y, m) - Before(x, m) = Leap(y) - Leap(x)
      BY <1>1, <1>6
    <3>5. d - p \in 365 .. 366
      <4>1. CASE m <= 2
        BY <1>7, <3>0, <3>2, <3>3, <4>1
      <4>2. CASE ~ (m <= 2)
        <5>1. m > 2
          BY <1>1, <4>2
        <5> QED BY <1>7, <3>0, <3>2, <3>4, <5>1
      <4> QED BY <4>1, <4>2
    <3> QED BY <2>2, <3>5
  <2>5. \A e \in Int : Year(e) = x /\ DayKey(e) <= DayKey(d) => e <= p
    <3> TAKE e \in Int
    <3> HAVE Year(e) = x /\ DayKey(e) <= DayKey(d)
    <3>1. p < e => DayKey(p) < DayKey(e) /\ DayKey(e) \in Int
      BY <2>2, KeysInOrder
    <3> QED BY <2>2, <2>3, <3>1
  <2> QED BY <2>2, <2>3, <2>4, <2>5 DEF p, x
<1>10. CASE ~ IsDate(x, m, k)
  <2>1. m = 2 /\ k = 29 /\ Leap(x) = 0 /\ Leap(y) = 1
    <3>1. ~ (k \in 1 .. DaysIn(x, m))
      BY <1>1, <1>10 DEF IsDate
    <3>2. m = 2
      BY <1>1, <1>6, <3>1
    <3> QED BY <1>1, <1>7, <1>8, <3>1, <3>2
  <2>2. p = DayOrd(x, 2, 28)
    BY <1>2, <1>10, <2>1
  <2>3. Before(x, 2) = 31 /\ Before(x, 3) = 59
    BY <2>1 DEF Before
  <2>4. 2 \in 1 .. 12 /\ 28 \in 1 .. DaysIn(x, 2) /\ 3 \in 1 .. 12 /\ 1 \in 1 .. DaysIn(x, 3)
    BY <1>8, <2>1
  <2>5. /\ p = NewYear(x) + 31 + 27 /\ p \in Int
        /\ Year(p) = x /\ Month(p) = 2 /\ DayOfMonth(p) = 28
    BY <1>4, <2>2, <2>3, <2>4, DateParts
  <2> DEFINE q == DayOrd(x, 3, 1)
  <2>6. q = NewYear(x) + 59 + 0 /\ q \in Int /\ Year(q) = x /\ Month(q) = 3 /\ DayOfMonth(q) = 1
    BY <1>4, <2>3, <2>4, DateParts
  <2> HIDE DEF q
  <2>7. DayKey(p) = 90 /\ DayKey(q) = 94 /\ DayKey(d) = 91 /\ q = p + 1
    BY <1>3, <1>4, <2>1, <2>5, <2>6 DEF DayKey
  <2>8. p \in d - 366 .. d - 365
    <3>1. d = NewYear(x) + 365 + 31 + 28
      BY <1>1, <1>4, <1>6, <2>1, <2>3
    <3> QED BY <1>4, <2>5, <3>1
  <2>9. \A e \in Int : Year(e) = x /\ DayKey(e) <= DayKey(d) => e <= p
    <3> TAKE e \in Int
    <3> HAVE Year(e) = x /\ DayKey(e) <= DayKey(d)
    <3>1. q < e => DayKey(q) < DayKey(e) /\ DayKey(e) \in Int
      BY <2>6, KeysInOrder
    <3>2. e # q
      BY <2>7
    <3> QED BY <2>5, <2>7, <3>1, <3>2
  <2> QED BY <2>5, <2>7, <2>8, <2>9 DEF p, x
<1> QED BY <1>9, <1>10

(* The last day of the year before is the only day between the years. *)
LEMMA YearsEnd ==
  ASSUME NEW d \in Int
  PROVE  /\ YtdStart(d) \in d - 366 .. d - 1
         /\ \A e \in Int : Year(e) = Year(d) - 1 /\ Year(e + 1) = Year(d) <=> e = YtdStart(d)
<1> DEFINE y == Year(d)
           x == Year(d) - 1
           p == YtdStart(d)
<1>1. y \in Int /\ x \in Int /\ y = x + 1 /\ NewYear(y) \in Int /\ NewYear(y) <= d /\ d < NewYear(y + 1)
  <2>1. y \in Int /\ NewYear(y) <= d /\ d < NewYear(y + 1)
    BY YearOfDay
  <2>2. NewYear(y) \in Int
    BY <2>1, Ordinals
  <2> QED BY <2>1, <2>2
<1> HIDE DEF y, x
<1>2. 12 \in 1 .. 12 /\ 31 \in 1 .. DaysIn(x, 12) /\ 1 \in 1 .. 12 /\ 1 \in 1 .. DaysIn(y, 1)
  BY <1>1, MonthLengths
<1>3. p = DayOrd(x, 12, 31)
  BY DEF YtdStart, x
<1>4. p = NewYear(x) + Before(x, 12) + (31 - 1) /\ p \in Int /\ Year(p) = x
  <2> DEFINE m == 12
             k == 31
  <2>1. x \in Int /\ m \in 1 .. 12 /\ k \in 1 .. DaysIn(x, m) /\ p = DayOrd(x, m, k)
    BY <1>1, <1>2, <1>3
  <2> HIDE DEF m, k, p
  <2>2. p = NewYear(x) + Before(x, m) + (k - 1) /\ p \in Int /\ Year(p) = x
    BY <2>1, DateParts
  <2> QED BY <2>2 DEF m, k
<1>5. p + 1 = NewYear(y)
  <2>1. Before(x, 12) = Leap(x) + 334 /\ Leap(x) \in 0 .. 1 /\ NewYear(x) \in Int
    <3>1. Before(x, 12) = Leap(x) + 334
      BY DEF Before
    <3>2. Leap(x) \in 0 .. 1
      BY <1>1, MonthLengths
    <3>3. NewYear(x) \in Int
      BY <1>1, Ordinals
    <3> QED BY <3>1, <3>2, <3>3
  <2>2. NewYear(y) = NewYear(x) + 365 + Leap(x)
    BY <1>1, YearLength
  <2> QED BY <1>4, <2>1, <2>2
<1>6. Year(p + 1) = y
  <2>1. NewYear(y) = DayOrd(y, 1, 1)
    BY DEF NewYear
  <2> QED BY <1>1, <1>2, <1>5, <2>1, DateParts
<1>7. p \in d - 366 .. d - 1
  <2>1. NewYear(y + 1) = NewYear(y) + 365 + Leap(y) /\ Leap(y) \in 0 .. 1
    BY <1>1, YearLength, MonthLengths
  <2> QED BY <1>1, <1>4, <1>5, <2>1
<1>8. ASSUME NEW e \in Int, Year(e) = x, Year(e + 1) = y
      PROVE  e = p
  <2>1. e < NewYear(x + 1) /\ NewYear(y) <= e + 1
    BY <1>8, YearOfDay
  <2> QED BY <1>1, <1>4, <1>5, <2>1
<1> QED BY <1>4, <1>6, <1>7, <1>8 DEF x, y, p

-----------------------------------------------------------------------------
(* The changes of a report.                                                *)

(* The dates the engine computes are the ones the periods stand for, and     *)
(* none is later than the date itself.                                      *)
LEMMA DatesAgree ==
  ASSUME NEW d \in AsOf, NEW p \in Period
  PROVE  /\ ComparisonDate(d)[p] = DateBefore(d)[p]
         /\ ComparisonDate(d)[p] \in Int
         /\ ComparisonDate(d)[p] <= d
<1>1. d \in Int
  BY AsOfAssumption
<1>2. /\ ComparisonDate(d).daily = d - 1 /\ ComparisonDate(d).weekly = d - 7
      /\ ComparisonDate(d).yearly = PrevYear(d) /\ ComparisonDate(d).ytd = YtdStart(d)
  BY DEF ComparisonDate
<1>3. /\ DateBefore(d).daily = d - 1 /\ DateBefore(d).weekly = d - 7
      /\ DateBefore(d).yearly = YearBefore[d] /\ DateBefore(d).ytd = YearEnd[d]
  BY DEF DateBefore
<1>4. YearBefore[d] = PrevYear(d) /\ PrevYear(d) \in Int /\ PrevYear(d) <= d
  <2> DEFINE S == {e \in d - 370 .. d - 360 :
                     Year(e) = Year(d) - 1 /\ Month(e) * 31 + DayOfMonth(e) <= Month(d) * 31 + DayOfMonth(d)}
             q == PrevYear(d)
  <2>1. YearBefore[d] = Max(S)
    BY DEF YearBefore
  <2>2. \A e : DayKey(e) = Month(e) * 31 + DayOfMonth(e)
    BY DEF DayKey
  <2>3. /\ q \in d - 366 .. d - 365 /\ Year(q) = Year(d) - 1 /\ DayKey(q) <= DayKey(d)
        /\ \A e \in Int : Year(e) = Year(d) - 1 /\ DayKey(e) <= DayKey(d) => e <= q
    BY <1>1, YearBack
  <2> HIDE DEF q
  <2>4. q \in d - 370 .. d - 360 /\ q \in Int /\ q <= d
    BY <1>1, <2>3
  <2>5. q \in S
    BY <2>2, <2>3, <2>4
  <2>6. \A e \in S : e \in Int /\ e <= q
    BY <1>1, <2>2, <2>3
  <2> HIDE DEF S
  <2>7. Max(S) = q
    <3>1. \A e \in S : q >= e
      BY <2>4, <2>6
    <3>2. Max(S) \in S /\ Max(S) >= q
      BY <2>5, <3>1 DEF Max
    <3> QED BY <2>4, <2>6, <3>2
  <2> QED BY <2>1, <2>4, <2>7 DEF q
<1>5. YearEnd[d] = YtdStart(d) /\ YtdStart(d) \in Int /\ YtdStart(d) <= d
  <2> DEFINE q == YtdStart(d)
  <2>1. YearEnd[d] = CHOOSE e \in d - 366 .. d - 1 : Year(e) = Year(d) - 1 /\ Year(e + 1) = Year(d)
    BY DEF YearEnd
  <2>2. /\ q \in d - 366 .. d - 1
        /\ \A e \in Int : Year(e) = Year(d) - 1 /\ Year(e + 1) = Year(d) <=> e = q
    BY <1>1, YearsEnd
  <2> HIDE DEF q
  <2>3. q \in Int /\ q <= d
    BY <1>1, <2>2
  <2>4. \A e \in d - 366 .. d - 1 : Year(e) = Year(d) - 1 /\ Year(e + 1) = Year(d) <=> e = q
    BY <1>1, <2>2
  <2> QED BY <2>1, <2>2, <2>3, <2>4 DEF q
<1>6. p = "daily" \/ p = "weekly" \/ p = "yearly" \/ p = "ytd"
  BY DEF Period
<1>7. CASE p = "daily"
  BY <1>1, <1>2, <1>3, <1>7
<1>8. CASE p = "weekly"
  BY <1>1, <1>2, <1>3, <1>8
<1>9. CASE p = "yearly"
  BY <1>2, <1>3, <1>4, <1>9
<1>10. CASE p = "ytd"
  BY <1>2, <1>3, <1>5, <1>10
<1> QED BY <1>6, <1>7, <1>8, <1>9, <1>10

(* An instrument that is traded in one currency by a date was before it.     *)
LEMMA EarlierIsFewer ==
  ASSUME Inv, NEW us, NEW date \in Int, NEW earlier \in Int, earlier <= date,
         InTwoCurrencies(RecordedBy(us, earlier))
  PROVE  InTwoCurrencies(RecordedBy(us, date))
<1>1. RecordedBy(us, earlier) \in SUBSET RecordedBy(us, date)
  <2>1. ASSUME NEW x \in Recorded
        PROVE  trades[x[1]][x[2]].day \in Int
    <3>1. x[1] \in User /\ x[2] \in DOMAIN trades[x[1]]
      BY <2>1, RecordedPairs
    <3>2. trades[x[1]] \in Seq(Trade)
      BY <3>1 DEF Inv
    <3>3. trades[x[1]][x[2]] \in Trade
      BY <3>1, <3>2
    <3> QED BY <3>3, TradeAssumption
  <2>2. ASSUME NEW x \in RecordedBy(us, earlier)
        PROVE  x \in RecordedBy(us, date)
    <3>1. x \in Recorded /\ x[1] \in us /\ trades[x[1]][x[2]].day <= earlier
      BY DEF RecordedBy
    <3>2. trades[x[1]][x[2]].day \in Int
      BY <2>1, <3>1
    <3>3. trades[x[1]][x[2]].day <= date
      BY <3>1, <3>2
    <3> QED BY <3>1, <3>3 DEF RecordedBy
  <2> QED BY <2>2
<1> QED BY <1>1 DEF InTwoCurrencies

(* The changes of one report.                                               *)
LEMMA ChangesOfReport ==
  ASSUME Inv, NEW subjects \in Subjects, Loaded(subjects), NEW base, NEW date \in AsOf,
         NEW report, report = portfolio_report(load_trades(subjects).ok, base, date),
         NEW us, us = ToSet(subjects)
  PROVE  IF InTwoCurrencies(RecordedBy(us, date))
         THEN report = CurrencyConflict
         ELSE \A p \in Period :
                report.value_changes[p].change =
                  TotalOf(us, base, date) - TotalOf(us, base, DateBefore(date)[p])
<1> DEFINE ts == load_trades(subjects).ok
           value == market_value_at(ts, base, date)
           then == Valuations(ts, base, ComparisonDate(date))
           summary == Changes(value, then)
<1>1. report = Report(value, summary) /\ date \in Int
  BY AsOfAssumption DEF portfolio_report, value_change_summary_from
<1>2. \A d \in Int : Answers(subjects, base, d)
  BY Valued
<1>3. ASSUME NEW d \in Int
      PROVE  /\ InTwoCurrencies(RecordedBy(us, d)) => market_value_at(ts, base, d) = CurrencyConflict
             /\ ~ InTwoCurrencies(RecordedBy(us, d)) =>
                  /\ market_value_at(ts, base, d) # CurrencyConflict
                  /\ market_value_at(ts, base, d).total = TotalOf(us, base, d)
  BY <1>2 DEF Answers
<1>4. ASSUME NEW p \in Period
      PROVE  then[p] = market_value_at(ts, base, DateBefore(date)[p])
  <2> DEFINE dates == ComparisonDate(date)
  <2>1. then[p] = market_value_at(ts, base, dates[p])
    <3>1. then = Valuations(ts, base, dates)
      OBVIOUS
    <3> HIDE DEF dates, ts, then
    <3>2. /\ then.daily = market_value_at(ts, base, dates["daily"])
          /\ then.weekly = market_value_at(ts, base, dates["weekly"])
          /\ then.yearly = market_value_at(ts, base, dates["yearly"])
          /\ then.ytd = market_value_at(ts, base, dates["ytd"])
      BY <3>1 DEF Valuations
    <3> QED BY <3>2 DEF Period
  <2> QED BY <2>1, DatesAgree
<1> HIDE DEF value, then, summary
<1>5. CASE InTwoCurrencies(RecordedBy(us, date))
  <2>1. value = CurrencyConflict
    BY <1>1, <1>3, <1>5 DEF value
  <2> QED BY <1>1, <1>5, <2>1 DEF Report
<1>6. CASE ~ InTwoCurrencies(RecordedBy(us, date))
  <2>1. ASSUME NEW p \in Period
        PROVE  then[p] # CurrencyConflict /\ then[p].total = TotalOf(us, base, DateBefore(date)[p])
    <3>1. DateBefore(date)[p] \in Int /\ DateBefore(date)[p] <= date
      BY DatesAgree
    <3>2. ~ InTwoCurrencies(RecordedBy(us, DateBefore(date)[p]))
      BY <1>1, <1>6, <3>1, EarlierIsFewer
    <3> QED BY <1>3, <1>4, <3>1, <3>2
  <2>2. value # CurrencyConflict /\ value.total = TotalOf(us, base, date)
    BY <1>1, <1>3, <1>6 DEF value
  <2>3. summary = [changes |-> [p \in Period |-> value_change(value.total, then[p].total)],
                   warnings |-> UNION {then[p].warnings : p \in Period}]
    BY <2>1 DEF summary, Changes
  <2>4. /\ summary # CurrencyConflict
        /\ summary.changes = [p \in Period |-> value_change(value.total, then[p].total)]
    <3>1. "changes" \in DOMAIN summary /\ DOMAIN CurrencyConflict = {"error"}
      BY <2>3 DEF CurrencyConflict
    <3>2. summary.changes = [p \in Period |-> value_change(value.total, then[p].total)]
      BY <2>3
    <3> QED BY <3>1, <3>2
  <2>5. report.value_changes = summary.changes
    BY <1>1, <2>2, <2>4 DEF Report
  <2>6. ASSUME NEW p \in Period
        PROVE  report.value_changes[p].change =
                 TotalOf(us, base, date) - TotalOf(us, base, DateBefore(date)[p])
    <3>1. report.value_changes[p] = value_change(value.total, then[p].total)
      BY <2>4, <2>5
    <3>2. report.value_changes[p].change = value.total - then[p].total
      BY <3>1 DEF value_change
    <3> QED BY <2>1, <2>2, <3>2
  <2> QED BY <1>6, <2>6
<1> QED BY <1>5, <1>6

(* What a report says changed in a period is the difference of what the      *)
(* single trades were worth on the two dates the period stands for, on any   *)
(* date of any year; when the valuation of the day itself is not refused     *)
(* the earlier ones are not either.                                         *)
THEOREM ChangesAreExact == Spec => []ChangesAreDifferences
<1>1. Inv => ChangesAreDifferences
  <2> SUFFICES ASSUME Inv, NEW subjects \in Subjects, Loaded(subjects), NEW base \in Currency, NEW date \in AsOf
               PROVE  LET report == portfolio_report(load_trades(subjects).ok, base, date)
                          us == ToSet(subjects)
                      IN IF InTwoCurrencies(RecordedBy(us, date))
                         THEN report = CurrencyConflict
                         ELSE \A p \in Period :
                                report.value_changes[p].change =
                                  TotalOf(us, base, date) - TotalOf(us, base, DateBefore(date)[p])
    BY Zenon DEF ChangesAreDifferences
  <2> QED BY ChangesOfReport
<1> QED BY <1>1, PortfolioInvariant, PTL
=============================================================================
