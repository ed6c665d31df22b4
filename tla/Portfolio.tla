----------------------------- MODULE Portfolio -----------------------------
(***************************************************************************)
(* What a user's trades are worth: the trades of                           *)
(* crates/calce-data/src/user_data_store.rs and the calculations of        *)
(* crates/calce-core/src/calc over them and the market data, composed to   *)
(* the report that GET /v1/users/{user_id}/portfolio answers with.         *)
(*                                                                         *)
(* Amounts are integers; a share of a sector is a number of hundredths and *)
(* a sector's amount counts hundredths.  Results are sets: the order they  *)
(* are listed in is left out, and so are percentages.                      *)
(***************************************************************************)
EXTENDS MarketData, Calendar

CONSTANTS
  User,
  Account,
  Trade,     \* the trades that may be recorded: user, account, instrument, quantity, currency, day
  Owner,     \* Owner[a]: the user whose account a is
  TypeOf,    \* TypeOf[i]: the type of instrument i
  Sectors,   \* Sectors[i]: shares of sectors, a set of pairs, empty if unknown
  Uncategorized,
  Subjects,  \* lists of users a calculation may be asked for
  AsOf,      \* dates it may be asked for
  MaxTrades  \* bound: trades recorded

ASSUME TradeAssumption ==
  Trade \subseteq [user : User, account : Account, instrument : Instrument, quantity : Int,
                   currency : Currency, day : Int]
(* A trade names its user beside its account.  That this is the owner of the *)
(* account is not enforced by the schema (models.py:91-92); both tools that  *)
(* write trades keep it.                                                    *)
ASSUME TradeOwnerAssumption == \A t \in Trade : Owner[t.account] = t.user
(* The shares of an instrument need not come to 100.                        *)
ASSUME SectorsAssumption ==
  \A i \in Instrument :
    /\ IsFiniteSet(Sectors[i])
    /\ \A s \in Sectors[i] : s = <<s[1], s[2]>> /\ s[2] \in Int
ASSUME SubjectsAssumption == Subjects \subseteq Seq(User)
ASSUME AsOfAssumption == AsOf \subseteq Int
ASSUME MaxTradesAssumption == MaxTrades \in Nat

VARIABLES trades  \* UserDataStore: each user's trades, as they were added

vars == <<market, trades>>

TypeOK ==
  /\ MarketTypeOK
  /\ trades \in [User -> Seq(Trade)]

Init ==
  /\ MarketInit
  /\ trades = [u \in User |-> <<>>]

Recorded == UNION {{<<u, n>> : n \in DOMAIN trades[u]} : u \in User}

(* UserDataStore::add_trade; load_from_postgres adds trades after from_builder. *)
AddTrade(t) ==
  /\ serving
  /\ Cardinality(Recorded) < MaxTrades
  /\ trades' = [trades EXCEPT ![t.user] = Append(@, t)]
  /\ UNCHANGED market

Next ==
  \/ \E s \in Series, p \in Point :
       \/ AddPoint(s, p) /\ UNCHANGED trades
       \/ Update(s, p) /\ UNCHANGED trades
  \/ FromBuilder /\ UNCHANGED trades
  \/ \E t \in Trade : AddTrade(t)

Spec == Init /\ [][Next]_vars

-----------------------------------------------------------------------------
(* UserDataStore. *)

(* An error, and a value that could have been one. *)
CurrencyConflict == [error |-> "CurrencyConflict"]
NoTradesFound == [error |-> "NoTradesFound"]
Ok(value) == [ok |-> value]

(* Faulty: a subject named twice is counted twice. *)
DedupNot(subjects) == subjects

(* The members of a set of numbers, from the smallest. *)
Ascending(S) ==
  [n \in 1 .. Cardinality(S) |-> CHOOSE i \in S : Cardinality({j \in S : j <= i}) = n]

(* dedup_subjects keeps the first of each. *)
Dedup(subjects) ==
  LET places == Ascending({n \in DOMAIN subjects : \A m \in 1 .. n - 1 : subjects[m] # subjects[n]})
  IN [k \in DOMAIN places |-> subjects[places[k]]]

load_trades(subjects) ==
  LET seen == Dedup(subjects)
  IN IF \E u \in ToSet(seen) : trades[u] = <<>>
     THEN NoTradesFound
     ELSE Ok(FlattenSeq([n \in DOMAIN seen |-> trades[seen[n]]]))

(* Faulty: grouped by instrument, with the currency of the first trade. *)
SummariesByInstrument(ts, places) ==
  LET first(n) == CHOOSE m \in places :
                    /\ ts[m].instrument = ts[n].instrument
                    /\ \A l \in places : l < m => ts[l].instrument # ts[n].instrument
      key(n) == <<ts[n].instrument, ts[first(n)].currency>>
      of(k) == {n \in places : key(n) = k}
  IN [k \in {key(n) : n \in places} |->
        [quantity |-> SumFunctionOnSet([n \in of(k) |-> ts[n].quantity], of(k)),
         trade_count |-> Cardinality(of(k))]]

(* Position summaries of the trades at some places are grouped by instrument *)
(* and currency, and keep what nets to zero.                                *)
Summaries(ts, places) ==
  LET key(n) == <<ts[n].instrument, ts[n].currency>>
      of(k) == {n \in places : key(n) = k}
  IN [k \in {key(n) : n \in places} |->
        [quantity |-> SumFunctionOnSet([n \in of(k) |-> ts[n].quantity], of(k)),
         trade_count |-> Cardinality(of(k))]]

positions_for_user(u) == Summaries(trades[u], DOMAIN trades[u])

positions_for_account(u, a) ==
  Summaries(trades[u], {n \in DOMAIN trades[u] : trades[u][n].account = a})

-----------------------------------------------------------------------------
(* calce-core: aggregation and valuation. *)

(* One trade of the loop: the first one of an instrument sets its currency,  *)
(* one in another currency is a conflict.                                   *)
Net(acc, t) ==
  IF t.instrument \notin DOMAIN acc.net
  THEN [net |-> [i \in DOMAIN acc.net \cup {t.instrument} |->
                   IF i = t.instrument THEN [quantity |-> t.quantity, currency |-> t.currency] ELSE acc.net[i]],
        conflict |-> acc.conflict]
  ELSE IF acc.net[t.instrument].currency = t.currency
  THEN [acc EXCEPT !.net[t.instrument].quantity = @ + t.quantity]
  ELSE [acc EXCEPT !.conflict = TRUE]

(* The loop over the trades that are not later than the date. *)
Netted(ts, date) ==
  LET after[n \in 0 .. Len(ts)] ==
        IF n = 0 THEN [net |-> <<>>, conflict |-> FALSE]
        ELSE IF ts[n].day <= date THEN Net(after[n - 1], ts[n]) ELSE after[n - 1]
  IN after[Len(ts)]

aggregate_positions(ts, date) ==
  LET all == Netted(ts, date)
  IN IF all.conflict
     THEN CurrencyConflict
     ELSE Ok({[instrument |-> i, quantity |-> all.net[i].quantity, currency |-> all.net[i].currency] :
                i \in {j \in DOMAIN all.net : all.net[j].quantity # 0}})

(* Faulty: a position without a rate is left out and not warned of. *)
value_positions_silent(positions, base, date) ==
  LET price(p) == get_price(p.instrument, date)
      rate(p) == get_fx_rate(p.currency, base, date)
      priced == {p \in positions : price(p) # Missing}
      valued == {p \in priced : rate(p) # Missing}
      amount(p) == p.quantity * price(p) * rate(p)
  IN [positions |-> {[instrument |-> p.instrument, amount |-> amount(p)] : p \in valued},
      total |-> SumFunctionOnSet([p \in valued |-> amount(p)], valued),
      warnings |-> {<<"MissingPrice", p.instrument>> : p \in positions \ priced}]

(* Positions without a price, or without a rate to the base currency, are    *)
(* left out and warned of.  The code's warning of a rate names the pair and  *)
(* the date; here the position that it is raised for.                       *)
value_positions(positions, base, date) ==
  LET price(p) == get_price(p.instrument, date)
      rate(p) == get_fx_rate(p.currency, base, date)
      priced == {p \in positions : price(p) # Missing}
      valued == {p \in priced : rate(p) # Missing}
      amount(p) == p.quantity * price(p) * rate(p)
  IN [positions |-> {[instrument |-> p.instrument, amount |-> amount(p)] : p \in valued},
      total |-> SumFunctionOnSet([p \in valued |-> amount(p)], valued),
      warnings |-> {<<"MissingPrice", p.instrument>> : p \in positions \ priced}
                   \cup {<<"MissingFxRate", p.instrument>> : p \in priced \ valued}]

market_value_at(ts, base, date) ==
  LET positions == aggregate_positions(ts, date)
  IN IF positions = CurrencyConflict
     THEN CurrencyConflict
     ELSE value_positions(positions.ok, base, date)

-----------------------------------------------------------------------------
(* calce-core: the report. *)

value_change(current, previous) ==
  [current |-> current, previous |-> previous, change |-> current - previous]

(* The four earlier valuations; a conflict in one fails the summary. *)
Valuations(ts, base, dates) ==
  LET at(p) == market_value_at(ts, base, dates[p])
  IN [daily |-> at("daily"), weekly |-> at("weekly"), yearly |-> at("yearly"), ytd |-> at("ytd")]

Changes(current, then) ==
  IF \E p \in Period : then[p] = CurrencyConflict
  THEN CurrencyConflict
  ELSE [changes |-> [p \in Period |-> value_change(current.total, then[p].total)],
        warnings |-> UNION {then[p].warnings : p \in Period}]

value_change_summary_from(current, ts, base, date) ==
  Changes(current, Valuations(ts, base, ComparisonDate(date)))

type_allocation(valued) ==
  [t \in {TypeOf[p.instrument] : p \in valued} |->
     LET of == {p \in valued : TypeOf[p.instrument] = t} IN SumFunctionOnSet([p \in of |-> p.amount], of)]

(* Faulty: what has no sector is left out. *)
SharesKnown(i) == Sectors[i]

Shares(i) == IF Sectors[i] = {} THEN {<<Uncategorized, 100>>} ELSE Sectors[i]

sector_allocation(valued) ==
  LET parts == UNION {{<<p, s>> : s \in Shares(p.instrument)} : p \in valued}
  IN [k \in {x[2][1] : x \in parts} |->
        LET of == {x \in parts : x[2][1] = k} IN SumFunctionOnSet([x \in of |-> x[1].amount * x[2][2]], of)]

Report(market_value, summary) ==
  IF market_value = CurrencyConflict \/ summary = CurrencyConflict
  THEN CurrencyConflict
  ELSE [market_value |-> market_value,
        value_changes |-> summary.changes,
        type_allocation |-> type_allocation(market_value.positions),
        sector_allocation |-> sector_allocation(market_value.positions),
        warnings |-> market_value.warnings \cup summary.warnings]

portfolio_report(ts, base, date) ==
  LET market_value == market_value_at(ts, base, date)
  IN Report(market_value, value_change_summary_from(market_value, ts, base, date))

-----------------------------------------------------------------------------
(* The same, defined by the recorded rows and trades, with no aggregation.   *)

RecordedBy(us, date) ==
  {x \in Recorded : x[1] \in us /\ trades[x[1]][x[2]].day <= date}

InTwoCurrencies(xs) ==
  \E x, y \in xs : LET t == trades[x[1]][x[2]]
                       u == trades[y[1]][y[2]]
                   IN t.instrument = u.instrument /\ t.currency # u.currency

RowOf(s, date) == IF s \in Series /\ date \in Day THEN row[s][date] ELSE Missing

(* What one trade adds to the worth of its user; nothing without price or rate. *)
Worth(x, base, date) ==
  LET t == trades[x[1]][x[2]]
      price == RowOf(t.instrument, date)
      rate == IF t.currency = base THEN 1 ELSE RowOf(<<t.currency, base>>, date)
  IN IF price = Missing \/ rate = Missing THEN 0 ELSE t.quantity * price * rate

TotalOf(us, base, date) ==
  SumFunctionOnSet([x \in RecordedBy(us, date) |-> Worth(x, base, date)], RecordedBy(us, date))

(* The part of what the trades are worth that part gives, by instrument. *)
WorthOf(us, base, date, part) ==
  SumFunctionOnSet([x \in RecordedBy(us, date) |->
                      Worth(x, base, date) * part[trades[x[1]][x[2]].instrument]], RecordedBy(us, date))

OfType(t) == [i \in Instrument |-> IF TypeOf[i] = t THEN 1 ELSE 0]

(* In hundredths: nothing is known of an instrument's sectors, or its shares *)
(* are what they are.                                                       *)
OfSector(k) ==
  [i \in Instrument |->
     IF Sectors[i] = {}
     THEN IF k = Uncategorized THEN 100 ELSE 0
     ELSE LET of == {s \in Sectors[i] : s[1] = k} IN SumFunctionOnSet([s \in of |-> s[2]], of)]

Sector == {Uncategorized} \cup UNION {{s[1] : s \in Sectors[i]} : i \in Instrument}

AmountIn(allocation, k) == IF k \in DOMAIN allocation THEN allocation[k] ELSE 0

NetOf(us, i, date) ==
  LET of == {x \in RecordedBy(us, date) : trades[x[1]][x[2]].instrument = i}
  IN SumFunctionOnSet([x \in of |-> trades[x[1]][x[2]].quantity], of)

(* The same day of the year before, or the last day before it. *)
YearBefore ==
  [d \in AsOf |-> Max({e \in d - 370 .. d - 360 :
     /\ Year(e) = Year(d) - 1
     /\ Month(e) * 31 + DayOfMonth(e) <= Month(d) * 31 + DayOfMonth(d)})]

YearEnd ==
  [d \in AsOf |-> CHOOSE e \in d - 366 .. d - 1 : Year(e) = Year(d) - 1 /\ Year(e + 1) = Year(d)]

DateBefore(date) ==
  [daily |-> date - 1, weekly |-> date - 7, yearly |-> YearBefore[date], ytd |-> YearEnd[date]]

(* What can be asked for, once data is there. *)
Loaded(subjects) == serving /\ load_trades(subjects) # NoTradesFound

-----------------------------------------------------------------------------
(* A valuation equals the sum over the single trades of quantity, price and  *)
(* rate, each user of the list counted once; it fails exactly when an        *)
(* instrument was traded in two currencies by then.                         *)
TotalIsSumOverTrades ==
  \A subjects \in Subjects : Loaded(subjects) =>
    \A base \in Currency, date \in AsOf :
      LET value == market_value_at(load_trades(subjects).ok, base, date)
          us == ToSet(subjects)
      IN IF InTwoCurrencies(RecordedBy(us, date))
         THEN value = CurrencyConflict
         ELSE value.total = TotalOf(us, base, date)

(* Nothing is left out in silence: an instrument that is held is either      *)
(* valued or warned of, and one that is not held is neither.                *)
EveryHoldingAccounted ==
  \A subjects \in Subjects : Loaded(subjects) =>
    \A base \in Currency, date \in AsOf :
      LET value == market_value_at(load_trades(subjects).ok, base, date)
          valued == {p.instrument : p \in value.positions}
          warned == {w[2] : w \in value.warnings}
      IN value # CurrencyConflict =>
           /\ valued \cap warned = {}
           /\ valued \cup warned = {i \in Instrument : NetOf(ToSet(subjects), i, date) # 0}

(* The changes of a report are differences of two such valuations, at the    *)
(* dates the periods stand for; the earlier ones cannot fail when the one    *)
(* of the day itself does not.                                              *)
ChangesAreDifferences ==
  \A subjects \in Subjects : Loaded(subjects) =>
    \A base \in Currency, date \in AsOf :
      LET report == portfolio_report(load_trades(subjects).ok, base, date)
          us == ToSet(subjects)
      IN IF InTwoCurrencies(RecordedBy(us, date))
         THEN report = CurrencyConflict
         ELSE \A p \in Period :
                report.value_changes[p].change =
                  TotalOf(us, base, date) - TotalOf(us, base, DateBefore(date)[p])

(* The allocations of a report look through to the single trades: a type has *)
(* the worth of the trades in its instruments, a sector its share of each    *)
(* trade.  So types divide up the total, and of the sectors nothing is       *)
(* missing but what the shares of an instrument leave out of 100.           *)
AllocationsLookThrough ==
  \A subjects \in Subjects : Loaded(subjects) =>
    \A base \in Currency, date \in AsOf :
      LET report == portfolio_report(load_trades(subjects).ok, base, date)
          us == ToSet(subjects)
      IN report # CurrencyConflict =>
           /\ \A t \in {TypeOf[i] : i \in Instrument} :
                AmountIn(report.type_allocation, t) = WorthOf(us, base, date, OfType(t))
           /\ \A k \in Sector :
                AmountIn(report.sector_allocation, k) = WorthOf(us, base, date, OfSector(k))

(* The positions of a user's accounts add up to the user's, and those that   *)
(* do not net to zero are the ones the engine values, unless it refuses.     *)
PositionsAgree ==
  serving => \A u \in User :
    LET whole == positions_for_user(u)
        parts == [a \in {b \in Account : Owner[b] = u} |-> positions_for_account(u, a)]
        holding(k) == {a \in DOMAIN parts : k \in DOMAIN parts[a]}
        engine == aggregate_positions(trades[u], Max({0} \cup {t.day : t \in ToSet(trades[u])}))
    IN /\ DOMAIN whole = UNION {DOMAIN parts[a] : a \in DOMAIN parts}
       /\ \A k \in DOMAIN whole :
            /\ whole[k].quantity = SumFunctionOnSet([a \in holding(k) |-> parts[a][k].quantity], holding(k))
            /\ whole[k].trade_count = SumFunctionOnSet([a \in holding(k) |-> parts[a][k].trade_count], holding(k))
       /\ IF \E k, l \in DOMAIN whole : k[1] = l[1] /\ k[2] # l[2]
          THEN engine = CurrencyConflict
          ELSE engine = Ok({[instrument |-> k[1], quantity |-> whole[k].quantity, currency |-> k[2]] :
                              k \in {l \in DOMAIN whole : whole[l].quantity # 0}})
=============================================================================
