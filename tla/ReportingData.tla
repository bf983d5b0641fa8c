--------------------------- MODULE ReportingData ---------------------------
(***************************************************************************)
(* The pure parts of ReportingService: where today, this week and this     *)
(* month begin, and how cents are printed.  Instants are integers, day 0   *)
(* begins at instant 0.                                                    *)
(***************************************************************************)
EXTENDS Integers

CONSTANTS
    TicksPerDay,  \* instants in a UTC day
    MonthStarts,  \* the days on which a month begins
    Days          \* the days the clock may show

ASSUME TicksPerDayIsPositive == TicksPerDay \in Nat \ {0}
ASSUME DaysAreDays == Days \subseteq Int /\ MonthStarts \subseteq Int

IsMonthOf(s, d) == s \in MonthStarts /\ s <= d /\ \A r \in MonthStarts : r <= d => r <= s
ASSUME EveryDayHasAMonth == \A d \in Days : \E s \in MonthStarts : IsMonthOf(s, d)

(* Date, as far as it is used.  The days d with d % 7 = monday are Mondays. *)
DayOf(i) == i \div TicksPerDay
GetUTCDay(d, monday) == (d - monday + 1) % 7
GetUTCDate(d) == d - (CHOOSE s \in MonthStarts : IsMonthOf(s, d)) + 1

StartOfUtcDay(i) == DayOf(i) * TicksPerDay

StartOfUtcWeek(i, monday) ==
    LET day == DayOf(i)
        weekday == GetUTCDay(day, monday)
        diffToMonday == IF weekday = 0 THEN 6 ELSE weekday - 1
    IN  (day - diffToMonday) * TicksPerDay

StartOfUtcMonth(i) == (DayOf(i) - (GetUTCDate(DayOf(i)) - 1)) * TicksPerDay

Periods == {"today", "week", "month"}

Since(p, i, monday) ==
    CASE p = "today" -> StartOfUtcDay(i)
      [] p = "week" -> StartOfUtcWeek(i, monday)
      [] p = "month" -> StartOfUtcMonth(i)

(* What the periods are meant to be: an instant is in the week, say, of    *)
(* now, or after it, unless a Monday has begun in between.                 *)
Begins(p, d, monday) ==
    CASE p = "today" -> TRUE
      [] p = "week" -> d % 7 = monday
      [] p = "month" -> d \in MonthStarts

InPeriod(p, at, now, monday) ==
    \A d \in DayOf(at) + 1 .. DayOf(now) : ~Begins(p, d, monday)

-----------------------------------------------------------------------------
Abs(c) == IF c < 0 THEN -c ELSE c

(* A printed amount: its sign, its units, and its last two digits.         *)
CentsToAmount(c) == [negative |-> c < 0, units |-> Abs(c) \div 100, cents |-> Abs(c) % 100]

(* What a reader of it understands.                                        *)
Magnitude(a) == a.units * 100 + a.cents
ReadAmount(a) == IF a.negative THEN -Magnitude(a) ELSE Magnitude(a)
=============================================================================
