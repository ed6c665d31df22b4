---------------------------- MODULE MarketData ----------------------------
(***************************************************************************)
(* The market data facade of crates/calce-data/src/concurrent_market_data: *)
(* points are collected by a builder, laid out in dense arrays over one    *)
(* axis of days, looked up by date and updated in place.  The current       *)
(* values beside the arrays are the subject of CdcPipeline.                *)
(*                                                                         *)
(* A series is an instrument or a directed pair of currencies; prices and  *)
(* rates have a cache each, with the same code.  An array is represented   *)
(* by the indices that hold a value: those that are left out hold NaN.     *)
(***************************************************************************)
EXTENDS Integers, Sequences, FiniteSets, FiniteSetsExt, SequencesExt

CONSTANTS
  Instrument,
  Currency,
  Pair,      \* the pairs rates may be quoted for
  FirstDay,  \* the range of chrono's NaiveDate, as numbers
  LastDay,
  Day,       \* the days points may have
  Value,     \* prices and rates
  Missing,   \* the answer of a lookup that finds nothing
  MaxWrites  \* bound: points added and updates made

Series == Instrument \cup Pair

ASSUME PairAssumption == Pair \subseteq Currency \X Currency
ASSUME DayAssumption == FirstDay \in Int /\ LastDay \in Int /\ Day \subseteq FirstDay .. LastDay
ASSUME ValueAssumption == Value \subseteq Int \ {0}
ASSUME MissingAssumption == Missing \notin Value \cup Currency
ASSUME MaxWritesAssumption == MaxWrites \in Nat

VARIABLES
  pending,   \* the builder: the points of each series as they were added
  serving,   \* the builder was turned into the store
  base_day,
  num_days,
  history,   \* the arrays; a series that is not in its domain is unknown
  row,       \* history variable: the last value accepted for a series and day
  writes

store == <<serving, base_day, num_days, history>>
market == <<pending, store, row, writes>>

Point == [day : Day, value : Value]

MarketTypeOK ==
  /\ pending \in [Series -> Seq(Point)]
  /\ serving \in BOOLEAN
  /\ base_day \in Int
  /\ num_days \in Nat
  /\ DOMAIN history \subseteq Series
  /\ \A s \in DOMAIN history :
       /\ DOMAIN history[s] \subseteq 0 .. num_days - 1
       /\ \A i \in DOMAIN history[s] : history[s][i] \in Value
  /\ row \in [Series -> [Day -> Value \cup {Missing}]]
  /\ writes \in 0 .. MaxWrites

MarketInit ==
  /\ pending = [s \in Series |-> <<>>]
  /\ serving = FALSE
  /\ base_day = 0
  /\ num_days = 0
  /\ history = <<>>
  /\ row = [s \in Series |-> [d \in Day |-> Missing]]
  /\ writes = 0

-----------------------------------------------------------------------------
(* MarketDataBuilder::add_price and add_fx_rate. *)
AddPoint(s, p) ==
  /\ ~ serving
  /\ writes < MaxWrites
  /\ pending' = [pending EXCEPT ![s] = Append(@, p)]
  /\ row' = [row EXCEPT ![s][p.day] = p.value]
  /\ writes' = writes + 1
  /\ UNCHANGED store

(* Faulty: a point never replaces an earlier one of its day. *)
DenseFirst(points, base) ==
  [i \in {points[n].day - base : n \in DOMAIN points} |->
     points[Min({n \in DOMAIN points : points[n].day - base = i})].value]

(* vec![NAN; num_days] with the points of a series scattered over it. *)
Dense(points, base) ==
  [i \in {points[n].day - base : n \in DOMAIN points} |->
     points[Max({n \in DOMAIN points : points[n].day - base = i})].value]

(* ConcurrentMarketData::from_builder. *)
FromBuilder ==
  LET built == {s \in Series : pending[s] # <<>>}
      days == {p.day : p \in UNION {ToSet(pending[s]) : s \in built}}
  IN /\ ~ serving
     /\ serving' = TRUE
     /\ IF days = {}
        THEN UNCHANGED <<base_day, num_days, history>>
        ELSE /\ base_day' = Min(days)
             /\ num_days' = Max(days) - Min(days) + 1
             /\ history' = [s \in built |-> Dense(pending[s], base_day')]
     /\ pending' = [s \in Series |-> <<>>]
     /\ UNCHANGED <<row, writes>>

-----------------------------------------------------------------------------
(* date_index is defined for the days of the axis. *)
InAxis(day) == day - base_day \in 0 .. num_days - 1

(* update_price and update_fx_rate: a day outside the axis or a series that *)
(* is not in the cache is refused, and the caller is told.                  *)
Update(s, p) ==
  /\ serving
  /\ writes < MaxWrites
  /\ writes' = writes + 1
  /\ IF InAxis(p.day) /\ s \in DOMAIN history
     THEN /\ history' = [history EXCEPT ![s] =
                           [i \in DOMAIN @ \cup {p.day - base_day} |->
                              IF i = p.day - base_day THEN p.value ELSE @[i]]]
          /\ row' = [row EXCEPT ![s][p.day] = p.value]
     ELSE UNCHANGED <<history, row>>
  /\ UNCHANGED <<pending, serving, base_day, num_days>>

-----------------------------------------------------------------------------
(* The look-ups. *)

Get(s, day) ==
  IF InAxis(day) /\ s \in DOMAIN history /\ day - base_day \in DOMAIN history[s]
  THEN history[s][day - base_day]
  ELSE Missing

get_price(i, day) == Get(i, day)

get_fx_rate(from, to, day) == IF from = to THEN 1 ELSE Get(<<from, to>>, day)

(* Faulty: the last day is left out. *)
RangeEndExclusive(to) == Min({Max({to - base_day, 0}), num_days})

(* get_price_history and get_fx_rate_history_range; the former turns the    *)
(* empty answer into an error.                                              *)
RangeEnd(to) == Min({Max({to - base_day + 1, 0}), num_days})

GetRange(s, from, to) ==
  IF s \notin DOMAIN history
  THEN {}
  ELSE {[day |-> base_day + i, value |-> history[s][i]] :
          i \in DOMAIN history[s] \cap (Max({from - base_day, 0}) .. RangeEnd(to) - 1)}

-----------------------------------------------------------------------------
(* The pages of the data browser. *)

(* The last value of an array; none in an empty one. *)
Latest(s) == {history[s][i] : i \in {j \in DOMAIN history[s] : \A k \in DOMAIN history[s] : k <= j}}

(* Faulty: every slot of the array is counted, NaN or not. *)
data_points_all(s) == num_days

data_points(s) == Cardinality(DOMAIN history[s])

(* fx_rate_pairs and list_fx_rates. *)
list_fx_rates ==
  {[pair |-> s, data_points |-> data_points(s), latest_rate |-> Latest(s)] : s \in DOMAIN history \cap Pair}

(* data_fx_rates: a parameter that is left out is Missing. *)
data_fx_rates(from, to) ==
  {r \in list_fx_rates : from \in {Missing, r.pair[1]} /\ to \in {Missing, r.pair[2]}}

fx_rate_history(from, to, first, last) == GetRange(<<from, to>>, first, last)

-----------------------------------------------------------------------------
(* What was accepted for a series. *)
Known(s) == {d \in Day : row[s][d] # Missing}

(* A look-up finds the last value that was accepted for that very day: the   *)
(* offset of the axis, the points scattered over it and the updates agree,   *)
(* and there is no filling in from another day.                             *)
LookupIsLastWrite ==
  serving => \A s \in Series, d \in Day : Get(s, d) = row[s][d]

(* A range, wherever it lies, holds the days the single look-ups answer.     *)
RangeAgreesWithLookups ==
  serving => \A s \in Series, from, to \in Day \cup {FirstDay, LastDay} :
    GetRange(s, from, to) =
      {[day |-> d, value |-> row[s][d]] : d \in {e \in Day \cap (from .. to) : row[s][e] # Missing}}

(* The list of rates has a row for exactly the pairs a rate was accepted     *)
(* for, with their number of days and the rate of the latest of them; and    *)
(* filtered by a pair it counts the points of that pair's chart.            *)
ListingsAgree ==
  serving =>
    /\ list_fx_rates =
         {[pair |-> s, data_points |-> Cardinality(Known(s)),
           latest_rate |-> {row[s][d] : d \in {e \in Known(s) : \A f \in Known(s) : f <= e}}] :
          s \in {t \in Pair : Known(t) # {}}}
    /\ \A s \in Pair :
         {r.data_points : r \in data_fx_rates(s[1], s[2])} =
           {Cardinality(fx_rate_history(s[1], s[2], FirstDay, LastDay))} \ {0}

(* Look-ups by date, ranges for charts and the list with its counts read the *)
(* same arrays in three ways; each of them is exactly what was accepted.     *)
ReadsAgree == LookupIsLastWrite /\ RangeAgreesWithLookups /\ ListingsAgree
=============================================================================
