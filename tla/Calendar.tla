----------------------------- MODULE Calendar -----------------------------
(***************************************************************************)
(* Dates as chrono counts them (the number of days from the first day of   *)
(* year 1), and the dates that                                             *)
(* crates/calce-core/src/calc/value_change.rs compares a day with.         *)
(***************************************************************************)
EXTENDS Integers

IsLeap(year) == year % 4 = 0 /\ (year % 100 # 0 \/ year % 400 = 0)

DaysIn(year, month) ==
  CASE month = 2 -> IF IsLeap(year) THEN 29 ELSE 28
    [] month \in {4, 6, 9, 11} -> 30
    [] OTHER -> 31

DaysBefore(year, month) ==
  LET before[m \in 1 .. 12] == IF m = 1 THEN 0 ELSE before[m - 1] + DaysIn(year, m - 1)
  IN before[month]

(* NaiveDate::from_ymd_opt and its num_days_from_ce. *)
IsDate(year, month, day) == month \in 1 .. 12 /\ day \in 1 .. DaysIn(year, month)

DayOrd(year, month, day) ==
  LET y == year - 1
  IN 365 * y + y \div 4 - y \div 100 + y \div 400 + DaysBefore(year, month) + day

(* 400 years have 146097 days. *)
Year(date) ==
  LET about == (400 * date) \div 146097
  IN CHOOSE y \in about .. about + 2 : DayOrd(y, 1, 1) <= date /\ date < DayOrd(y + 1, 1, 1)

MonthIn(year, date) ==
  CHOOSE m \in 1 .. 12 : date - DayOrd(year, m, 1) \in 0 .. DaysIn(year, m) - 1

Month(date) == MonthIn(Year(date), date)

DayOfMonth(date) == date - DayOrd(Year(date), Month(date), 1) + 1

-----------------------------------------------------------------------------
(* The dates of the four standard periods. *)

(* Faulty: a year is 365 days. *)
PrevYear365(date) == date - 365

(* The same day a year earlier, or the day before it where there is none. *)
OrDayBefore(y, m, d) == IF IsDate(y, m, d) THEN DayOrd(y, m, d) ELSE DayOrd(y, m, d - 1)

PrevYear(date) == OrDayBefore(Year(date) - 1, Month(date), DayOfMonth(date))

YtdStart(date) == DayOrd(Year(date) - 1, 12, 31)

Period == {"daily", "weekly", "yearly", "ytd"}

ComparisonDate(date) ==
  [daily |-> date - 1, weekly |-> date - 7, yearly |-> PrevYear(date), ytd |-> YtdStart(date)]
=============================================================================
