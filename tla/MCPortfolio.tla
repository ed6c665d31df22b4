---------------------------- MODULE MCPortfolio ----------------------------
(* A small instance of the portfolio for TLC: two accounts of one user and   *)
(* one of another, an instrument of either currency and a pair that is       *)
(* quoted one way.  The days with data are compared with by the leap day of  *)
(* 2024 (a year before, the end of the year) and by two days of its January  *)
(* (the day before, a week before).                                         *)
EXTENDS Portfolio, TLC

CONSTANTS a1, a2, a3, u1, u2, stock, fund, sek, usd, tech

MCLeapDay == DayOrd(2024, 2, 29)
MCYearEnd == DayOrd(2023, 12, 31)
MCDay == {DayOrd(2023, 2, 28), MCYearEnd, MCLeapDay}
MCAsOf == {DayOrd(2024, 1, 1), DayOrd(2024, 1, 7), MCLeapDay}

MCPair == {<<usd, sek>>}

MCOwner == [a \in Account |-> IF a = a3 THEN u2 ELSE u1]

MCRecord(a, i, q, c, d) ==
  [user |-> MCOwner[a], account |-> a, instrument |-> i, quantity |-> q, currency |-> c, day |-> d]
MCTrade == {
  MCRecord(a1, stock, 2, usd, DayOrd(2023, 1, 10)),
  MCRecord(a2, stock, 1, usd, MCLeapDay),
  MCRecord(a2, stock, -2, usd, MCYearEnd),
  MCRecord(a2, stock, 1, sek, MCLeapDay),
  MCRecord(a3, fund, 3, sek, MCYearEnd) }

MCTypeOf == [i \in Instrument |-> IF i = stock THEN "Stock" ELSE "MutualFund"]
MCSectors == [i \in Instrument |-> IF i = stock THEN {<<tech, 60>>, <<"Energy", 30>>} ELSE {}]
MCSubjects == {<<u1>>, <<u1, u2, u1>>}
=============================================================================
