--------------------------- MODULE ReportingProofs ---------------------------
(***************************************************************************)
(* The dashboard's figures are exact for any clock, any calendar and any   *)
(* entries: where a period begins is right for every instant, a printed    *)
(* amount reads back for every integer, a sum counts each entry once, and  *)
(* no entry of a period is missed or counted that should not be while the  *)
(* books grow.  A list read page by page meanwhile is complete.            *)
(***************************************************************************)
EXTENDS Reporting, FiniteSetTheorems, SequenceTheorems,
        WellFoundedInduction, TLAPS

-----------------------------------------------------------------------------
(* Days.                                                                   *)

LEMMA Day ==
    ASSUME NEW i \in Int
    PROVE  /\ DayOf(i) \in Int
           /\ DayOf(i) * TicksPerDay <= i
           /\ i < (DayOf(i) + 1) * TicksPerDay
BY TicksPerDayIsPositive DEF DayOf

LEMMA Multiples ==
    ASSUME NEW a \in Int, NEW b \in Int, a <= b
    PROVE  a * TicksPerDay <= b * TicksPerDay
BY TicksPerDayIsPositive

(* An instant is at or after the beginning of a day if its own day is.     *)
LEMMA DayBoundary ==
    ASSUME NEW i \in Int, NEW d \in Int
    PROVE  i >= d * TicksPerDay <=> DayOf(i) >= d
<1>1. /\ DayOf(i) \in Int /\ DayOf(i) * TicksPerDay <= i
      /\ i < (DayOf(i) + 1) * TicksPerDay
  BY Day
<1>2. /\ d * TicksPerDay \in Int /\ DayOf(i) * TicksPerDay \in Int
      /\ (DayOf(i) + 1) * TicksPerDay \in Int
  BY <1>1, TicksPerDayIsPositive
<1>3. CASE DayOf(i) >= d
  <2>1. d * TicksPerDay <= DayOf(i) * TicksPerDay
    BY <1>1, <1>3, Multiples
  <2>2. QED
    BY <1>1, <1>2, <1>3, <2>1
<1>4. CASE ~(DayOf(i) >= d)
  <2>1. (DayOf(i) + 1) * TicksPerDay <= d * TicksPerDay
    BY <1>1, <1>4, Multiples
  <2>2. QED
    BY <1>1, <1>2, <1>4, <2>1
<1>5. QED
  BY <1>3, <1>4

-----------------------------------------------------------------------------
(* Periods.                                                                *)

(* d is the day the period of day now begins on.                           *)
StartsOn(p, d, now, mon) ==
    /\ d \in Int /\ d <= now
    /\ Begins(p, d, mon)
    /\ \A e \in d + 1 .. now : ~Begins(p, e, mon)

LEMMA StartOfDay ==
    ASSUME NEW now \in Int, NEW mon \in 0 .. 6
    PROVE  /\ StartsOn("today", DayOf(now), DayOf(now), mon)
           /\ StartOfUtcDay(now) = DayOf(now) * TicksPerDay
BY Day DEF StartsOn, Begins, StartOfUtcDay

LEMMA DivMod ==
    ASSUME NEW x \in Int
    PROVE  x \div 7 \in Int /\ x % 7 \in 0 .. 6 /\ x % 7 = x - 7 * (x \div 7)
<1>1. x \div 7 \in Int /\ x % 7 \in 0 .. 6
  OBVIOUS
<1>2. x % 7 = x - 7 * (x \div 7)
  OBVIOUS
<1>3. QED
  BY <1>1, <1>2

LEMMA Remainder ==
    ASSUME NEW j \in Int, NEW x \in 0 .. 6
    PROVE  (7 * j + x) % 7 = x
OBVIOUS

LEMMA SevenDays ==
    ASSUME NEW j \in Int, NEW x \in 0 .. 6, NEW r \in 1 .. 6
    PROVE  (7 * j + x + r) % 7 # x
<1>1. CASE x + r <= 6
  <2>1. (7 * j + (x + r)) % 7 = x + r
    BY <1>1, Remainder
  <2>2. QED
    BY <2>1
<1>2. CASE x + r > 6
  <2>1. (7 * (j + 1) + (x + r - 7)) % 7 = x + r - 7
    BY <1>2, Remainder
  <2>2. 7 * (j + 1) + (x + r - 7) = 7 * j + x + r
    OBVIOUS
  <2>3. QED
    BY <2>1, <2>2
<1>3. QED
  BY <1>1, <1>2

LEMMA StartOfWeek ==
    ASSUME NEW now \in Int, NEW mon \in 0 .. 6
    PROVE  \E d \in Int : /\ StartsOn("week", d, DayOf(now), mon)
                          /\ StartOfUtcWeek(now, mon) = d * TicksPerDay
<1> DEFINE day == DayOf(now)
           weekday == GetUTCDay(day, mon)
           diff == IF weekday = 0 THEN 6 ELSE weekday - 1
<1>1. day \in Int
  BY Day
<1> HIDE DEF day
<1>2. /\ diff \in 0 .. 6 /\ (day - diff) % 7 = mon
      /\ \A e \in day - diff + 1 .. day : e % 7 # mon
  <2> DEFINE x == day - mon + 1
             k == x \div 7
             j == IF weekday = 0 THEN k - 1 ELSE k
  <2>1. weekday \in 0 .. 6 /\ k \in Int /\ weekday = day - mon + 1 - 7 * k
    <3>1. x \in Int /\ weekday = x % 7 /\ x = day - mon + 1
      BY <1>1 DEF GetUTCDay
    <3> HIDE DEF weekday, x
    <3>2. x \div 7 \in Int /\ x % 7 \in 0 .. 6 /\ x % 7 = x - 7 * (x \div 7)
      BY <3>1, DivMod
    <3>3. QED
      BY <1>1, <3>1, <3>2
  <2> HIDE DEF weekday, k
  <2>2. diff \in 0 .. 6 /\ j \in Int /\ day - diff = 7 * j + mon
    BY <1>1, <2>1
  <2> HIDE DEF diff, j
  <2>3. (day - diff) % 7 = mon
    BY <2>2, Remainder
  <2>4. ASSUME NEW e \in day - diff + 1 .. day PROVE e % 7 # mon
    <3> DEFINE r == e - (day - diff)
    <3>1. r \in 1 .. 6 /\ e = 7 * j + mon + r
      BY <1>1, <2>2
    <3> HIDE DEF r
    <3>2. QED
      BY <2>2, <3>1, SevenDays
  <2>5. QED
    BY <2>2, <2>3, <2>4
<1>3. StartsOn("week", day - diff, day, mon)
  BY <1>1, <1>2 DEF StartsOn, Begins
<1>4. StartOfUtcWeek(now, mon) = (day - diff) * TicksPerDay
  BY DEF StartOfUtcWeek, day
<1>5. day - diff \in Int
  BY <1>1, <1>2
<1>6. QED
  BY <1>3, <1>4, <1>5 DEF day

LEMMA StartOfMonth ==
    ASSUME NEW now \in Int, DayOf(now) \in Days, NEW mon \in 0 .. 6
    PROVE  \E d \in Int : /\ StartsOn("month", d, DayOf(now), mon)
                          /\ StartOfUtcMonth(now) = d * TicksPerDay
<1> DEFINE d == CHOOSE s \in MonthStarts : IsMonthOf(s, DayOf(now))
<1>1. IsMonthOf(d, DayOf(now)) /\ d \in Int /\ DayOf(now) \in Int
  BY EveryDayHasAMonth, DaysAreDays, Day DEF IsMonthOf
<1>2. StartsOn("month", d, DayOf(now), mon)
  BY <1>1, DaysAreDays DEF StartsOn, Begins, IsMonthOf
<1>3. GetUTCDate(DayOf(now)) = DayOf(now) - d + 1
  BY DEF GetUTCDate
<1> HIDE DEF d
<1>4. DayOf(now) - (GetUTCDate(DayOf(now)) - 1) = d
  BY <1>1, <1>3
<1>5. StartOfUtcMonth(now) = d * TicksPerDay
  BY <1>4 DEF StartOfUtcMonth
<1>6. QED
  BY <1>1, <1>2, <1>5

(* The code's comparison with the beginning of a period picks out the      *)
(* instants of that period, on Sundays, first days of a month and at       *)
(* midnight too.                                                           *)
THEOREM PeriodsBegin ==
    ASSUME NEW now \in Int, DayOf(now) \in Days, NEW mon \in 0 .. 6,
           NEW p \in Periods, NEW at \in Int
    PROVE  at >= Since(p, now, mon) <=> InPeriod(p, at, now, mon)
<1>1. PICK d \in Int : /\ StartsOn(p, d, DayOf(now), mon)
                       /\ Since(p, now, mon) = d * TicksPerDay
  <2>1. DayOf(now) \in Int
    BY Day
  <2>2. CASE p = "today"
    BY <2>1, <2>2, StartOfDay DEF Since
  <2>3. CASE p = "week"
    BY <2>3, StartOfWeek DEF Since
  <2>4. CASE p = "month"
    BY <2>4, StartOfMonth DEF Since
  <2>5. QED
    BY <2>2, <2>3, <2>4 DEF Periods
<1>2. at >= d * TicksPerDay <=> DayOf(at) >= d
  BY DayBoundary
<1>3. DayOf(at) \in Int /\ DayOf(now) \in Int
  BY Day
<1>4. DayOf(at) >= d <=> \A e \in DayOf(at) + 1 .. DayOf(now) : ~Begins(p, e, mon)
  <2>1. CASE DayOf(at) >= d
    BY <1>1, <1>3, <2>1 DEF StartsOn
  <2>2. CASE ~(DayOf(at) >= d)
    <3>1. d \in DayOf(at) + 1 .. DayOf(now) /\ Begins(p, d, mon)
      BY <1>1, <1>3, <2>2 DEF StartsOn
    <3>2. QED
      BY <2>2, <3>1
  <2>3. QED
    BY <2>1, <2>2
<1>5. QED
  BY <1>1, <1>2, <1>4 DEF InPeriod

-----------------------------------------------------------------------------
(* Money.                                                                  *)

LEMMA UnitsAndCents ==
    ASSUME NEW n \in Nat
    PROVE  n \div 100 \in Nat /\ n % 100 \in 0 .. 99 /\ n % 100 = n - (n \div 100) * 100
<1>1. n \div 100 \in Nat /\ n % 100 \in 0 .. 99
  OBVIOUS
<1>2. n % 100 = n - (n \div 100) * 100
  OBVIOUS
<1>3. QED
  BY <1>1, <1>2

(* A printed amount has the sign and the cents of the amount, between      *)
(* -1.00 and 1.00 too.                                                     *)
THEOREM AmountsReadBack ==
    ASSUME NEW c \in Int
    PROVE  /\ ReadAmount(CentsToAmount(c)) = c
           /\ CentsToAmount(c).units \in Nat /\ CentsToAmount(c).cents \in 0 .. 99
<1>1. Abs(c) \in Nat /\ c = IF c < 0 THEN -Abs(c) ELSE Abs(c)
  BY DEF Abs
<1>2. /\ Abs(c) \div 100 \in Nat /\ Abs(c) % 100 \in 0 .. 99
      /\ Abs(c) % 100 = Abs(c) - (Abs(c) \div 100) * 100
  BY <1>1, UnitsAndCents
<1> DEFINE u == Abs(c) \div 100
           r == Abs(c) % 100
<1>3. /\ CentsToAmount(c).negative <=> c < 0
      /\ CentsToAmount(c).units = u /\ CentsToAmount(c).cents = r
  BY DEF CentsToAmount
<1>4. ReadAmount(CentsToAmount(c)) = IF c < 0 THEN -(u * 100 + r) ELSE u * 100 + r
  BY <1>3 DEF ReadAmount, Magnitude
<1> HIDE DEF u, r
<1>5. u * 100 + r = Abs(c)
  BY <1>1, <1>2 DEF u, r
<1>6. QED
  BY <1>1, <1>2, <1>3, <1>4, <1>5 DEF u, r

-----------------------------------------------------------------------------
(* Sums.  What a fold computes is proved by taking the smallest set of     *)
(* entries for which it would not.                                         *)

Choice(s) == CHOOSE e \in s : TRUE

(* g adds up the amounts of each subset of S.                              *)
AddsUp(g, S) ==
    g = [s \in SUBSET S |-> IF s = {} THEN 0 ELSE Amount[Choice(s)] + g[s \ {Choice(s)}]]

(* The sum is that of such a function, if there is one.                    *)
LEMMA SumIsFold ==
    ASSUME NEW k, NEW S
    PROVE  Sum(k, S) = (CHOOSE g : AddsUp(g, {e \in S : Kind[e] = k}))[{e \in S : Kind[e] = k}]
BY DEF Sum, MapThenSumSet, MapThenFoldSet, AddsUp, Choice

(* A set of finite sets has a smallest.                                    *)
LEMMA SmallestSet ==
    ASSUME NEW S, NEW Bad, Bad \subseteq FiniteSubsetsOf(S), Bad # {}
    PROVE  \E s \in Bad : \A t \in Bad : t \subseteq s => t = s
<1>1. PICK s \in Bad : \A t \in Bad : ~(<<t, s>> \in StrictSubsetOrdering(S))
  BY FS_StrictSubsetOrderingWellFounded, WFMin
<1>2. ASSUME NEW t \in Bad, t \subseteq s PROVE t = s
  <2>1. <<t, s>> \in (SUBSET S) \X (SUBSET S)
    BY DEF FiniteSubsetsOf
  <2>2. QED
    BY <1>1, <1>2, <2>1 DEF StrictSubsetOrdering
<1>3. QED
  BY <1>2

LEMMA ChoiceIn == ASSUME NEW s, s # {} PROVE Choice(s) \in s
BY DEF Choice

(* Two that add up agree.                                                  *)
LEMMA SumsAgree ==
    ASSUME NEW S, NEW T \in SUBSET S, IsFiniteSet(S), NEW g, NEW h, AddsUp(g, S), AddsUp(h, T)
    PROVE  \A s \in SUBSET T : g[s] = h[s]
<1> DEFINE Bad == {s \in SUBSET T : g[s] # h[s]}
<1>1. SUFFICES ASSUME Bad # {} PROVE FALSE
  OBVIOUS
<1>2. Bad \subseteq FiniteSubsetsOf(S)
  BY FS_Subset DEF FiniteSubsetsOf
<1> HIDE DEF Bad
<1>3. PICK s \in Bad : \A t \in Bad : t \subseteq s => t = s
  BY <1>1, <1>2, SmallestSet
<1>4. s \in SUBSET T /\ s \in SUBSET S /\ g[s] # h[s]
  BY DEF Bad
<1> DEFINE c == Choice(s)
<1>5. /\ g[s] = IF s = {} THEN 0 ELSE Amount[c] + g[s \ {c}]
      /\ h[s] = IF s = {} THEN 0 ELSE Amount[c] + h[s \ {c}]
  BY <1>4 DEF AddsUp
<1>6. s # {} /\ g[s \ {c}] # h[s \ {c}]
  BY <1>4, <1>5
<1>7. c \in s
  BY <1>6, ChoiceIn
<1>8. s \ {c} \in Bad
  BY <1>4, <1>6 DEF Bad
<1>9. QED
  BY <1>3, <1>7, <1>8

(* The smallest set without one has one: that of the sets below it.        *)
LEMMA SumExists ==
    ASSUME NEW S, IsFiniteSet(S)
    PROVE  \E g : AddsUp(g, S)
<1> DEFINE Bad == {s \in FiniteSubsetsOf(S) : ~\E g : AddsUp(g, s)}
<1>1. SUFFICES ASSUME Bad # {} PROVE FALSE
  BY DEF FiniteSubsetsOf
<1>2. Bad \subseteq FiniteSubsetsOf(S)
  OBVIOUS
<1>3. PICK T \in Bad : \A t \in Bad : t \subseteq T => t = T
  <2> HIDE DEF Bad
  <2>1. QED
    BY <1>1, <1>2, SmallestSet
<1>4. IsFiniteSet(T) /\ T \subseteq S /\ ~\E g : AddsUp(g, T)
  BY DEF FiniteSubsetsOf
<1> DEFINE Of(s) == CHOOSE g : AddsUp(g, s)
           g == [s \in SUBSET T |-> IF s = {} THEN 0
                                    ELSE Amount[Choice(s)] + Of(s \ {Choice(s)})[s \ {Choice(s)}]]
<1>5. ASSUME NEW s \in SUBSET T, s # T PROVE AddsUp(Of(s), s)
  <2>1. s \in FiniteSubsetsOf(S)
    BY <1>4, FS_Subset DEF FiniteSubsetsOf
  <2>2. s \notin Bad
    BY <1>3, <1>5
  <2>3. \E f : AddsUp(f, s)
    BY <2>1, <2>2
  <2>4. QED
    BY <2>3
<1> HIDE DEF Of, Bad
<1>6. ASSUME NEW s \in SUBSET T, s # T PROVE g[s] = Of(s)[s]
  <2> DEFINE c == Choice(s)
  <2>1. Of(s)[s] = IF s = {} THEN 0 ELSE Amount[c] + Of(s)[s \ {c}]
    BY <1>5, <1>6 DEF AddsUp
  <2>2. CASE s = {}
    BY <2>1, <2>2
  <2>3. CASE s # {}
    <3>1. c \in s /\ s \ {c} \in SUBSET s /\ s \ {c} \in SUBSET T /\ s \ {c} # T /\ IsFiniteSet(s)
      BY <1>4, <2>3, ChoiceIn, FS_Subset
    <3>2. AddsUp(Of(s), s) /\ AddsUp(Of(s \ {c}), s \ {c})
      BY <1>5, <1>6, <3>1
    <3>3. Of(s)[s \ {c}] = Of(s \ {c})[s \ {c}]
      BY <3>1, <3>2, SumsAgree
    <3>4. QED
      BY <2>1, <2>3, <3>3
  <2>4. QED
    BY <2>2, <2>3
<1>7. ASSUME NEW s \in SUBSET T, s # {}
      PROVE  g[s] = Amount[Choice(s)] + g[s \ {Choice(s)}]
  <2> DEFINE c == Choice(s)
  <2>1. c \in s /\ s \ {c} \in SUBSET T /\ s \ {c} # T
    BY <1>7, ChoiceIn
  <2>2. g[s \ {c}] = Of(s \ {c})[s \ {c}]
    <3> HIDE DEF c, g
    <3>1. QED
      BY <1>6, <2>1
  <2>3. g[s] = Amount[c] + Of(s \ {c})[s \ {c}]
    BY <1>7
  <2>4. QED
    BY <2>2, <2>3
<1>8. g[{}] = 0 /\ DOMAIN g = SUBSET T
  OBVIOUS
<1>9. AddsUp(g, T)
  <2>1. g = [s \in SUBSET T |-> g[s]]
    OBVIOUS
  <2> HIDE DEF g
  <2>2. QED
    BY <1>7, <1>8, <2>1 DEF AddsUp
<1>10. QED
  BY <1>4, <1>9

LEMMA IntegerSums ==
    ASSUME NEW S \in SUBSET Entries, IsFiniteSet(S), NEW g, AddsUp(g, S)
    PROVE  \A s \in SUBSET S : g[s] \in Int
<1> DEFINE Bad == {s \in SUBSET S : g[s] \notin Int}
<1>1. SUFFICES ASSUME Bad # {} PROVE FALSE
  OBVIOUS
<1>2. Bad \subseteq FiniteSubsetsOf(S)
  BY FS_Subset DEF FiniteSubsetsOf
<1> HIDE DEF Bad
<1>3. PICK s \in Bad : \A t \in Bad : t \subseteq s => t = s
  BY <1>1, <1>2, SmallestSet
<1> DEFINE c == Choice(s)
<1>4. s \in SUBSET S /\ g[s] \notin Int
  BY DEF Bad
<1>5. g[s] = IF s = {} THEN 0 ELSE Amount[c] + g[s \ {c}]
  BY <1>4 DEF AddsUp
<1>6. s # {} /\ c \in s
  BY <1>4, <1>5, ChoiceIn
<1>7. s \ {c} \in SUBSET S /\ s \ {c} \notin Bad
  BY <1>3, <1>4, <1>6
<1>8. g[s \ {c}] \in Int /\ Amount[c] \in Int
  BY <1>4, <1>6, <1>7, AmountsAreCents DEF Bad
<1>9. QED
  BY <1>4, <1>5, <1>6, <1>8

(* The sum is the same whichever entry is taken first.                     *)
LEMMA AnyFirst ==
    ASSUME NEW S \in SUBSET Entries, IsFiniteSet(S), NEW g, AddsUp(g, S)
    PROVE  \A s \in SUBSET S : \A e \in s : g[s] = Amount[e] + g[s \ {e}]
<1> DEFINE Bad == {s \in SUBSET S : \E e \in s : g[s] # Amount[e] + g[s \ {e}]}
<1>1. SUFFICES ASSUME Bad # {} PROVE FALSE
  OBVIOUS
<1>2. Bad \subseteq FiniteSubsetsOf(S)
  BY FS_Subset DEF FiniteSubsetsOf
<1> HIDE DEF Bad
<1>3. PICK s \in Bad : \A t \in Bad : t \subseteq s => t = s
  BY <1>1, <1>2, SmallestSet
<1>4. s \in SUBSET S
  BY DEF Bad
<1>5. PICK e \in s : g[s] # Amount[e] + g[s \ {e}]
  BY DEF Bad
<1> DEFINE c == Choice(s)
<1>6. g[s] = Amount[c] + g[s \ {c}] /\ c \in s /\ c # e
  BY <1>4, <1>5, ChoiceIn DEF AddsUp
<1>7. /\ s \ {c} \in SUBSET S /\ s \ {c} \notin Bad
      /\ s \ {e} \in SUBSET S /\ s \ {e} \notin Bad
  BY <1>3, <1>4, <1>5, <1>6
<1>8. /\ g[s \ {c}] = Amount[e] + g[(s \ {c}) \ {e}]
      /\ g[s \ {e}] = Amount[c] + g[(s \ {e}) \ {c}]
  BY <1>5, <1>6, <1>7 DEF Bad
<1>9. (s \ {c}) \ {e} = (s \ {e}) \ {c} /\ (s \ {c}) \ {e} \in SUBSET S
  BY <1>4
<1> DEFINE v == g[(s \ {c}) \ {e}]
<1>10. v \in Int /\ Amount[e] \in Int /\ Amount[c] \in Int
  BY <1>4, <1>5, <1>6, <1>9, IntegerSums, AmountsAreCents
<1>11. g[s] = Amount[c] + (Amount[e] + v) /\ g[s \ {e}] = Amount[c] + v
  BY <1>6, <1>8, <1>9
<1> HIDE DEF v
<1>12. QED
  BY <1>5, <1>10, <1>11

(* The cents of finitely many entries add up to an integer.                *)
LEMMA SumsAreCents ==
    ASSUME NEW S \in SUBSET Entries, IsFiniteSet(S), NEW k
    PROVE  Sum(k, S) \in Int
<1> DEFINE T == {e \in S : Kind[e] = k}
           g == CHOOSE f : AddsUp(f, T)
<1>1. T \in SUBSET Entries /\ IsFiniteSet(T)
  BY FS_Subset
<1>2. Sum(k, S) = g[T]
  BY SumIsFold
<1> HIDE DEF T
<1>3. AddsUp(g, T)
  BY <1>1, SumExists
<1> HIDE DEF g
<1>4. QED
  BY <1>1, <1>2, <1>3, IntegerSums

(* A period's figure is the sum of its entries in whatever order the       *)
(* database adds them: each counts once, with its own cents.               *)
THEOREM EachCountsOnce ==
    ASSUME NEW S \in SUBSET Entries, IsFiniteSet(S), NEW k, NEW e \in S
    PROVE  Sum(k, S) = IF Kind[e] = k THEN Amount[e] + Sum(k, S \ {e}) ELSE Sum(k, S \ {e})
<1> DEFINE T == {o \in S : Kind[o] = k}
           U == {o \in S \ {e} : Kind[o] = k}
           g == CHOOSE f : AddsUp(f, T)
           h == CHOOSE f : AddsUp(f, U)
<1>1. T \in SUBSET Entries /\ IsFiniteSet(T) /\ U \in SUBSET T /\ IsFiniteSet(U)
  BY FS_Subset
<1>2. Sum(k, S) = g[T] /\ Sum(k, S \ {e}) = h[U]
  BY SumIsFold
<1>3. IF Kind[e] = k THEN e \in T /\ U = T \ {e} ELSE U = T
  OBVIOUS
<1> HIDE DEF T, U
<1>4. AddsUp(g, T) /\ AddsUp(h, U)
  BY <1>1, SumExists
<1> HIDE DEF g, h
<1>5. g[U] = h[U]
  BY <1>1, <1>4, SumsAgree
<1>6. Kind[e] = k => g[T] = Amount[e] + g[T \ {e}]
  BY <1>1, <1>3, <1>4, AnyFirst
<1>7. QED
  BY <1>2, <1>3, <1>5, <1>6

-----------------------------------------------------------------------------
(* The dashboard.                                                          *)

LEMMA FiguresReadBack ==
    ASSUME NEW S \in SUBSET Entries, IsFiniteSet(S)
    PROVE  /\ Figures(S) \in Summaries
           /\ ReadAmount(Figures(S).revenue) = Sum("revenue", S)
           /\ ReadAmount(Figures(S).expenses) = Sum("expense", S)
           /\ ReadAmount(Figures(S).cashPosition) = Sum("revenue", S) - Sum("expense", S)
<1>1. /\ Sum("revenue", S) \in Int /\ Sum("expense", S) \in Int
      /\ Sum("revenue", S) - Sum("expense", S) \in Int
  BY SumsAreCents
<1>2. ASSUME NEW c \in Int PROVE CentsToAmount(c) \in Amounts
  <2>1. CentsToAmount(c).units \in Nat /\ CentsToAmount(c).cents \in 0 .. 99
    BY AmountsReadBack
  <2>2. QED
    BY <2>1 DEF CentsToAmount, Amounts
<1>3. Figures(S) \in Summaries
  BY <1>1, <1>2 DEF Figures, Summaries
<1>4. QED
  BY <1>1, <1>3, AmountsReadBack DEF Figures

(* An entry that is booked stays as it is.                                 *)
LEMMA PostKeeps ==
    ASSUME DashboardInv, NEW e \in Entries, Post(e)
    PROVE  /\ row' \in [Entries -> [ledger : Int, audit : Int] \cup {Null}]
           /\ e \notin Booked /\ Booked \subseteq Booked' /\ Booked' \subseteq Booked \cup {e}
           /\ \A o \in Booked : row'[o] = row[o]
<1>1. PICK at \in Dates, made \in {clock - 1, clock} :
        row' = [row EXCEPT ![e] = [ledger |-> at, audit |-> made]]
  BY DEF Post
<1>2. at \in Int /\ made \in Int
  BY <1>1, DatesAreInstants, ClockIsCovered DEF DashboardInv
<1>3. QED
  BY <1>1, <1>2 DEF DashboardInv, Post, Booked

LEMMA InitExact == Init => DashboardInv /\ FiguresAreExact
<1>1. SUFFICES ASSUME Init PROVE DashboardInv /\ FiguresAreExact
  OBVIOUS
<1>2. Booked = {}
  BY <1>1 DEF Init, Booked
<1>3. IsFiniteSet(Booked)
  BY <1>2, FS_EmptySet
<1>4. QED
  BY <1>1, <1>3, MondaysAreWeekdays, ClockIsCovered DEF Init, DashboardInv, FiguresAreExact

LEMMA PostExact ==
    ASSUME DashboardInv, FiguresAreExact, NEW e \in Entries, Post(e)
    PROVE  DashboardInv' /\ FiguresAreExact'
<1>1. /\ row' \in [Entries -> [ledger : Int, audit : Int] \cup {Null}]
      /\ Booked \subseteq Booked' /\ Booked' \subseteq Booked \cup {e}
      /\ \A o \in Booked : row'[o] = row[o]
  BY PostKeeps
<1>2. UNCHANGED <<monday, clock, dashboard>>
  BY DEF Post
<1>3. IsFiniteSet(Booked')
  <2>1. IsFiniteSet(Booked \cup {e})
    BY FS_AddElement DEF DashboardInv
  <2>2. QED
    BY <1>1, <2>1, FS_Subset
<1>4. DashboardInv'
  BY <1>1, <1>2, <1>3 DEF DashboardInv
<1>5. ASSUME NEW p \in Periods, dashboard # Null, NEW figures, Exact(p, figures)
      PROVE  Exact(p, figures)'
  <2>1. PICK S \in SUBSET Booked :
          /\ Within(p, dashboard.before) \subseteq S
          /\ S \subseteq Within(p, Entries)
          /\ ReadAmount(figures.revenue) = Sum("revenue", S)
          /\ ReadAmount(figures.expenses) = Sum("expense", S)
          /\ ReadAmount(figures.cashPosition) = Sum("revenue", S) - Sum("expense", S)
    BY <1>5 DEF Exact
  <2>2. S \in SUBSET Booked'
    BY <1>1
  <2>3. Within(p, dashboard.before)' \subseteq S
    BY <1>1, <1>2, <1>5, <2>1 DEF Within, DashboardInv, Booked
  <2>4. S \subseteq Within(p, Entries)'
    BY <1>1, <1>2, <2>1, <2>2 DEF Within, Booked
  <2>5. QED
    BY <1>2, <2>1, <2>2, <2>3, <2>4 DEF Exact
<1>6. QED
  BY <1>2, <1>4, <1>5 DEF FiguresAreExact

LEMMA SummarizeSinceExact ==
    ASSUME DashboardInv, FiguresAreExact, NEW p \in Periods, SummarizeSince(p)
    PROVE  DashboardInv' /\ FiguresAreExact'
<1> DEFINE now == dashboard.now
           S == {e \in Booked : row[e].ledger >= Since(p, now, monday)}
<1>1. /\ dashboard # Null
      /\ dashboard' = [dashboard EXCEPT !.got[p] = Figures(S)]
      /\ UNCHANGED <<monday, clock, row>>
  BY DEF SummarizeSince
<1>2. /\ dashboard \in [now : FirstTick .. LastTick, before : SUBSET Entries,
                         got : [Periods -> Summaries \cup {Null}]]
      /\ dashboard.before \subseteq Booked
  BY <1>1 DEF DashboardInv
<1>3. now \in Int /\ DayOf(now) \in Days /\ monday \in 0 .. 6
  BY <1>2, ClockIsCovered DEF DashboardInv
<1>4. S \in SUBSET Entries /\ S \in SUBSET Booked
  BY DEF Booked
<1>5. IsFiniteSet(S)
  BY <1>4, FS_Subset DEF DashboardInv
<1>6. /\ Figures(S) \in Summaries
      /\ ReadAmount(Figures(S).revenue) = Sum("revenue", S)
      /\ ReadAmount(Figures(S).expenses) = Sum("expense", S)
      /\ ReadAmount(Figures(S).cashPosition) = Sum("revenue", S) - Sum("expense", S)
  BY <1>4, <1>5, FiguresReadBack
<1>7. \A e \in Booked : e \in S <=> InPeriod(p, row[e].ledger, now, monday)
  <2> SUFFICES ASSUME NEW e \in Booked
               PROVE  e \in S <=> InPeriod(p, row[e].ledger, now, monday)
    OBVIOUS
  <2>1. row[e].ledger \in Int
    BY DEF DashboardInv, Booked
  <2>2. QED
    BY <1>3, <2>1, PeriodsBegin
<1> HIDE DEF S
<1>8. Within(p, dashboard.before) \subseteq S /\ S \subseteq Within(p, Entries)
  BY <1>2, <1>4, <1>7 DEF Within, Booked
<1>9. Exact(p, Figures(S))
  BY <1>4, <1>6, <1>8 DEF Exact
<1>10. /\ dashboard'.now = now /\ dashboard'.before = dashboard.before
       /\ \A q \in Periods : dashboard'.got[q] = IF q = p THEN Figures(S) ELSE dashboard.got[q]
       /\ dashboard' \in [now : FirstTick .. LastTick, before : SUBSET Entries,
                           got : [Periods -> Summaries \cup {Null}]]
  BY <1>1, <1>2, <1>6
<1>11. DashboardInv'
  BY <1>1, <1>2, <1>10 DEF DashboardInv, Booked
<1>12. ASSUME NEW q \in Periods, NEW figures PROVE Exact(q, figures)' <=> Exact(q, figures)
  BY <1>1, <1>10 DEF Exact, Within, Booked
<1>13. FiguresAreExact'
  BY <1>1, <1>9, <1>10, <1>12 DEF FiguresAreExact
<1>14. QED
  BY <1>11, <1>13

LEMMA GetDashboardSummaryExact ==
    ASSUME DashboardInv, GetDashboardSummary
    PROVE  DashboardInv' /\ FiguresAreExact'
<1>1. dashboard' = [now |-> clock, before |-> Booked, got |-> [p \in Periods |-> Null]]
  BY DEF GetDashboardSummary
<1>2. DashboardInv'
  BY <1>1 DEF GetDashboardSummary, DashboardInv, Booked
<1>3. FiguresAreExact'
  BY <1>1 DEF FiguresAreExact
<1>4. QED
  BY <1>2, <1>3

(* The clock, and the lists.                                               *)
LEMMA OthersExact ==
    ASSUME DashboardInv, FiguresAreExact, clock' \in FirstTick .. LastTick,
           UNCHANGED <<monday, row, dashboard>>
    PROVE  DashboardInv' /\ FiguresAreExact'
<1>1. DashboardInv'
  BY DEF DashboardInv, Booked
<1>2. FiguresAreExact'
  BY DEF FiguresAreExact, Exact, Within, Booked
<1>3. QED
  BY <1>1, <1>2

LEMMA AnswerExact ==
    ASSUME DashboardInv, Answer
    PROVE  DashboardInv' /\ FiguresAreExact'
BY DEF Answer, DashboardInv, FiguresAreExact, Booked

LEMMA NextExact ==
    ASSUME DashboardInv, FiguresAreExact, [Next]_vars
    PROVE  DashboardInv' /\ FiguresAreExact'
<1>1. clock \in FirstTick .. LastTick
  BY DEF DashboardInv
<1>2. CASE Tick
  <2>1. clock' \in FirstTick .. LastTick
    BY <1>1, <1>2, ClockIsCovered DEF Tick
  <2>2. QED
    BY <1>2, <2>1, OthersExact DEF Tick
<1>3. ASSUME NEW list, NEW take, Open(list, take) PROVE DashboardInv' /\ FiguresAreExact'
  BY <1>1, <1>3, OthersExact DEF Open
<1>4. CASE ListEntries \/ ListAudit \/ Close \/ UNCHANGED vars
  BY <1>1, <1>4, OthersExact DEF ListEntries, ListAudit, Close, vars
<1>5. QED
  BY <1>2, <1>3, <1>4, PostExact, GetDashboardSummaryExact, SummarizeSinceExact, AnswerExact
     DEF Next

(* The figures of each period are, to the cent, those of entries of that   *)
(* period, with everything that was booked when the read began.            *)
THEOREM ExactFigures == Spec => []FiguresAreExact
<1>1. Init => DashboardInv /\ FiguresAreExact
  BY InitExact
<1>2. (DashboardInv /\ FiguresAreExact) /\ [Next]_vars => (DashboardInv /\ FiguresAreExact)'
  BY NextExact
<1>3. QED
  BY <1>1, <1>2, PTL DEF Spec

-----------------------------------------------------------------------------
(* The lists.                                                              *)

LEMMA TimesAreInts ==
    ASSUME DashboardInv, NEW list \in {"ledger", "audit"}, NEW e \in Booked
    PROVE  row[e][list] \in Int
BY DEF DashboardInv, Booked

(* A query returns every row once, latest first.                           *)
LEMMA OrderProperties ==
    ASSUME DashboardInv, NEW list, NEW order \in Orders(list)
    PROVE  /\ order \in Seq(Booked)
           /\ \A i, j \in 1 .. Len(order) : order[i] = order[j] => i = j
           /\ \A e \in Booked : \E i \in 1 .. Len(order) : order[i] = e
           /\ \A i, j \in 1 .. Len(order) : i < j => row[order[i]][list] >= row[order[j]][list]
<1> DEFINE n == Cardinality(Booked)
<1>1. n \in Nat /\ IsFiniteSet(Booked)
  BY FS_CardinalityType DEF DashboardInv
<1>2. /\ order \in [1 .. n -> Booked]
      /\ \A i, j \in 1 .. n : i # j => order[i] # order[j]
      /\ \A i, j \in DOMAIN order : i < j => row[order[i]][list] >= row[order[j]][list]
  BY DEF Orders, SetToSeqs
<1> HIDE DEF n
<1>3. order \in Seq(Booked) /\ Len(order) = n
  BY <1>1, <1>2
<1>4. order \in Injection(1 .. n, Booked)
  BY <1>2 DEF Injection, IsInjective
<1>5. Cardinality(1 .. n) = Cardinality(Booked)
  BY <1>1, FS_Interval DEF n
<1>6. order \in Surjection(1 .. n, Booked)
  BY <1>1, <1>4, <1>5, FS_Injection
<1>7. QED
  BY <1>2, <1>3, <1>6 DEF Surjection

(* How many rows of the order are not after the last one seen.             *)
Skipped(order, seen) ==
    IF seen = <<>> THEN 0 ELSE CHOOSE i \in DOMAIN order : order[i] = Last(seen)

(* A page has the rows of the order after the last one seen.               *)
LEMMA PageProperties ==
    ASSUME NEW S, NEW order \in Seq(S), NEW seen, NEW take \in Nat \ {0},
           Skipped(order, seen) \in 0 .. Len(order)
    PROVE  /\ Page(order, seen, take) \in Seq(S)
           /\ Len(Page(order, seen, take)) =
                  IF Len(order) - Skipped(order, seen) < take
                  THEN Len(order) - Skipped(order, seen) ELSE take
           /\ \A i \in 1 .. Len(Page(order, seen, take)) :
                  Page(order, seen, take)[i] = order[Skipped(order, seen) + i]
<1> DEFINE k == Skipped(order, seen)
           n == Len(order)
           rest == SubSeq(order, k + 1, n)
           m == IF n - k < take THEN n - k ELSE take
<1>1. n \in Nat /\ k \in 0 .. n
  BY LenProperties
<1>2. 1 + k = k + 1
  BY <1>1
<1>3. Page(order, seen, take) = AtMost(rest, take)
  <2>1. CASE seen = <<>>
    BY <1>2, <2>1 DEF Page, Skipped
  <2>2. CASE seen # <<>>
    BY <1>2, <2>2 DEF Page, Skipped
  <2>3. QED
    BY <2>1, <2>2
<1> HIDE DEF k
<1>4. \A i \in k + 1 .. n : order[i] \in S
  BY <1>1, ElementOfSeq
<1>5. /\ rest \in Seq(S) /\ Len(rest) = n - k
      /\ \A i \in 1 .. n - k : rest[i] = order[k + i]
  <2>1. /\ rest \in Seq(S)
        /\ Len(rest) = IF k + 1 <= n THEN n - (k + 1) + 1 ELSE 0
        /\ \A i \in 1 .. n - (k + 1) + 1 : rest[i] = order[k + 1 + i - 1]
    BY <1>1, <1>4, SubSeqProperties
  <2> HIDE DEF rest, n
  <2>2. n - (k + 1) + 1 = n - k /\ (k + 1 <= n \/ n - k = 0)
    BY <1>1
  <2>3. \A i \in 1 .. n - k : k + 1 + i - 1 = k + i
    BY <1>1
  <2>4. QED
    BY <2>1, <2>2, <2>3
<1> HIDE DEF rest
<1>6. AtMost(rest, take) = SubSeq(rest, 1, m) /\ m \in 0 .. n - k
  BY <1>1, <1>5 DEF AtMost
<1>7. /\ SubSeq(rest, 1, m) \in Seq(S) /\ Len(SubSeq(rest, 1, m)) = m
      /\ \A i \in 1 .. m : SubSeq(rest, 1, m)[i] = rest[i]
  <2>1. \A i \in 1 .. m : rest[i] \in S
    BY <1>1, <1>5, <1>6, ElementOfSeq
  <2>2. /\ SubSeq(rest, 1, m) \in Seq(S)
        /\ Len(SubSeq(rest, 1, m)) = IF 1 <= m THEN m - 1 + 1 ELSE 0
        /\ \A i \in 1 .. m - 1 + 1 : SubSeq(rest, 1, m)[i] = rest[1 + i - 1]
    <3> HIDE DEF m
    <3>1. QED
      BY <1>1, <1>6, <2>1, SubSeqProperties
  <2>3. QED
    <3> HIDE DEF m
    <3>1. QED
      BY <1>1, <1>6, <2>2
<1>8. QED
  BY <1>1, <1>3, <1>5, <1>6, <1>7 DEF k

(* Reading a page leaves the rows seen in order, none with a time of its   *)
(* own twice, and what is still to come after them.                        *)
LEMMA ReadOnKeeps ==
    ASSUME DashboardInv, PagesInv, pages # Null, ~pages.done, UNCHANGED row,
           NEW order \in Orders(pages.list), ReadOn(order)
    PROVE  PagesInv'
<1> DEFINE list == pages.list
           old == pages.seen
           page == Page(order, old, PageSize(pages.take))
           seen == old \o page
           L == Len(old)
           m == Len(page)
           n == Len(order)
           k == Skipped(order, old)
           T(e) == row[e][list]
           Own(e) == \A o \in Booked \ {e} : T(o) # T(e)
<1>1. /\ list \in {"ledger", "audit"} /\ pages.take \in Takes
      /\ old \in Seq(Booked) /\ L \in Nat /\ DOMAIN old = 1 .. L
      /\ pages.before \subseteq Booked
  BY LenProperties DEF PagesInv
<1>2. /\ \A i, j \in 1 .. L : i < j => T(old[i]) >= T(old[j])
      /\ \A i, j \in 1 .. L : Own(old[i]) /\ old[i] = old[j] => i = j
      /\ \A e \in pages.before : Own(e) =>
             \/ \E i \in 1 .. L : old[i] = e
             \/ old = <<>> \/ T(e) <= T(Last(old))
  BY <1>1 DEF PagesInv, TimeIsItsOwn, Seen, Ahead
<1>3. \A e \in Booked : T(e) \in Int
  BY <1>1, TimesAreInts
<1>4. /\ order \in Seq(Booked) /\ n \in Nat
      /\ \A i \in 1 .. n : order[i] \in Booked
      /\ \A i, j \in 1 .. n : order[i] = order[j] => i = j
      /\ \A e \in Booked : \E i \in 1 .. n : order[i] = e
      /\ \A i, j \in 1 .. n : i < j => T(order[i]) >= T(order[j])
  BY OrderProperties, LenProperties, ElementOfSeq
<1> HIDE DEF n
<1>5. /\ IF old = <<>> THEN L = 0 ELSE L > 0 /\ Last(old) = old[L]
      /\ \A i \in 1 .. L : old[i] \in Booked
  BY <1>1, EmptySeq, ElementOfSeq DEF Last
<1>6. k \in 0 .. n /\ IF old = <<>> THEN k = 0 ELSE k > 0 /\ order[k] = Last(old)
  <2>1. CASE old = <<>>
    BY <1>4, <2>1 DEF Skipped
  <2>2. CASE old # <<>>
    <3>1. Last(old) \in Booked
      BY <1>1, <1>5, <2>2
    <3>2. \E i \in DOMAIN order : order[i] = Last(old)
      BY <1>4, <3>1, LenProperties DEF n
    <3>3. k \in DOMAIN order /\ order[k] = Last(old)
      BY <2>2, <3>2 DEF Skipped
    <3>4. DOMAIN order = 1 .. n
      BY <1>4, LenProperties DEF n
    <3>5. QED
      BY <1>4, <2>2, <3>3, <3>4
  <2>3. QED
    BY <2>1, <2>2
<1> HIDE DEF k
<1>7. PageSize(pages.take) \in Nat \ {0}
  BY <1>1, TakesArePositive DEF PageSize
<1>8. /\ page \in Seq(Booked)
      /\ m = IF n - k < PageSize(pages.take)
             THEN n - k ELSE PageSize(pages.take)
      /\ \A i \in 1 .. m : page[i] = order[k + i]
  <2> DEFINE size == PageSize(pages.take)
  <2>1. order \in Seq(Booked) /\ size \in Nat \ {0} /\ Skipped(order, old) \in 0 .. Len(order)
    BY <1>4, <1>6, <1>7 DEF n, k
  <2> HIDE DEF old, size
  <2>2. QED
    BY ONLY <2>1, PageProperties DEF page, m, n, k, size
<1>9. \A s \in Seq(Booked) : Len(s) \in Nat /\ (s = <<>> <=> Len(s) = 0)
  BY ONLY EmptySeq, LenProperties
<1>10. /\ m \in Nat /\ k + m <= n
       /\ k < n => m > 0
       /\ page = <<>> <=> m = 0
  <2> DEFINE size == PageSize(pages.take)
  <2>1. size \in Nat \ {0} /\ page \in Seq(Booked) /\ m = IF n - k < size THEN n - k ELSE size
    BY <1>7, <1>8
  <2> HIDE DEF size
  <2>2. m \in Nat /\ (page = <<>> <=> m = 0)
    BY <1>9, <2>1
  <2> HIDE DEF m, page
  <2>3. QED
    BY <1>4, <1>6, <2>1, <2>2
<1>11. /\ seen \in Seq(Booked) /\ Len(seen) = L + m /\ DOMAIN seen = 1 .. L + m
       /\ \A i \in 1 .. L + m : seen[i] = IF i <= L THEN old[i] ELSE page[i - L]
  <2> HIDE DEF old, page
  <2>1. old \in Seq(Booked) /\ page \in Seq(Booked)
    BY <1>1, <1>8
  <2>2. /\ seen \in Seq(Booked) /\ Len(seen) = Len(old) + Len(page)
        /\ \A i \in 1 .. Len(old) + Len(page) :
               seen[i] = IF i <= Len(old) THEN old[i] ELSE page[i - Len(old)]
    BY ONLY <2>1, ConcatProperties
  <2> HIDE DEF seen
  <2>3. DOMAIN seen = 1 .. Len(seen)
    BY <2>2, LenProperties
  <2>4. QED
    BY <2>2, <2>3
<1>12. pages' = [pages EXCEPT !.seen = seen, !.done = (page = <<>>)]
  BY DEF ReadOn
<1> HIDE DEF page, seen, L, m
<1>13. /\ \A i \in 1 .. L : seen[i] = old[i]
       /\ \A i \in 1 .. m : seen[L + i] = order[k + i]
       /\ \A i \in L + 1 .. L + m : seen[i] = order[k + (i - L)] /\ k + (i - L) \in 1 .. n
       /\ \A i \in 1 .. L + m : seen[i] \in Booked
  <2>1. \A i \in 1 .. L : seen[i] = old[i]
    BY <1>1, <1>10, <1>11
  <2>2. \A i \in L + 1 .. L + m : i - L \in 1 .. m /\ seen[i] = page[i - L]
    BY <1>1, <1>10, <1>11
  <2>3. \A i \in L + 1 .. L + m : seen[i] = order[k + (i - L)] /\ k + (i - L) \in 1 .. n
    BY <1>1, <1>4, <1>6, <1>8, <1>10, <2>2
  <2>4. \A i \in 1 .. m : seen[L + i] = order[k + i]
    <3> SUFFICES ASSUME NEW i \in 1 .. m PROVE seen[L + i] = order[k + i]
      OBVIOUS
    <3> DEFINE j == L + i
    <3>1. j \in L + 1 .. L + m /\ k + (j - L) = k + i
      BY <1>1, <1>6, <1>10
    <3> HIDE DEF j
    <3>2. seen[j] = order[k + (j - L)]
      BY <2>3, <3>1
    <3>3. QED
      BY <3>1, <3>2 DEF j
  <2>5. \A i \in 1 .. L + m : seen[i] \in Booked
    BY <1>11, ElementOfSeq
  <2>6. QED
    BY <2>1, <2>3, <2>4, <2>5
(* A row that was seen before is not before the rows of the page.          *)
<1>14. ASSUME NEW i \in 1 .. L, NEW j \in L + 1 .. L + m
       PROVE  /\ T(seen[i]) >= T(Last(old)) /\ T(Last(old)) >= T(seen[j])
              /\ Last(old) \in Booked /\ Last(old) # seen[j]
  <2>1. old # <<>> /\ Last(old) = old[L] /\ L \in 1 .. L
    BY <1>1, <1>5
  <2>2. k > 0 /\ order[k] = Last(old) /\ k \in 1 .. n
    BY <1>4, <1>6, <2>1
  <2>3. /\ seen[j] = order[k + (j - L)] /\ k + (j - L) \in 1 .. n
        /\ k < k + (j - L)
    BY <1>1, <1>10, <1>13, <2>2
  <2>4. T(Last(old)) >= T(seen[j]) /\ Last(old) # seen[j]
    BY <1>4, <2>2, <2>3
  <2>5. seen[i] = old[i] /\ Last(old) \in Booked
    BY <1>5, <1>13, <2>1
  <2>6. T(old[i]) >= T(old[L])
    BY <1>1, <1>2, <1>3, <1>5, <2>1
  <2>7. QED
    BY <2>1, <2>4, <2>5, <2>6
<1>15. ASSUME NEW i \in 1 .. L + m, NEW j \in 1 .. L + m, i < j
       PROVE  T(seen[i]) >= T(seen[j])
  <2>1. CASE j <= L
    <3>1. i \in 1 .. L /\ j \in 1 .. L
      BY <1>1, <1>10, <1>15, <2>1
    <3>2. QED
      BY <1>2, <1>13, <1>15, <3>1
  <2>2. CASE i <= L /\ ~(j <= L)
    <3>1. i \in 1 .. L /\ j \in L + 1 .. L + m
      BY <1>1, <1>10, <2>2
    <3>2. /\ T(seen[i]) >= T(Last(old)) /\ T(Last(old)) >= T(seen[j])
          /\ Last(old) \in Booked
      BY <1>14, <3>1
    <3>3. T(seen[i]) \in Int /\ T(Last(old)) \in Int /\ T(seen[j]) \in Int
      BY <1>3, <1>13, <3>2
    <3>4. QED
      BY <3>2, <3>3
  <2>3. CASE ~(i <= L)
    <3> DEFINE a == k + (i - L)
               b == k + (j - L)
    <3>1. i \in L + 1 .. L + m /\ j \in L + 1 .. L + m /\ a < b
      BY <1>1, <1>6, <1>10, <1>15, <2>3
    <3>2. a \in 1 .. n /\ b \in 1 .. n /\ seen[i] = order[a] /\ seen[j] = order[b]
      BY <1>13, <3>1
    <3> HIDE DEF a, b
    <3>3. QED
      BY <1>4, <3>1, <3>2
  <2>4. QED
    BY <2>1, <2>2, <2>3
<1>16. ASSUME NEW i \in 1 .. L + m, NEW j \in 1 .. L + m, i < j,
              Own(seen[i]), seen[i] = seen[j]
       PROVE  FALSE
  <2>1. CASE j <= L
    <3>1. i \in 1 .. L /\ j \in 1 .. L
      BY <1>1, <1>10, <1>16, <2>1
    <3>2. i = j
      BY <1>2, <1>13, <1>16, <3>1
    <3>3. QED
      BY <1>1, <1>10, <1>16, <3>2
  <2>2. CASE i <= L /\ ~(j <= L)
    <3>1. i \in 1 .. L /\ j \in L + 1 .. L + m
      BY <1>1, <1>10, <2>2
    <3>2. /\ T(seen[i]) >= T(Last(old)) /\ T(Last(old)) >= T(seen[i])
          /\ Last(old) \in Booked /\ Last(old) # seen[i]
      BY <1>14, <1>16, <3>1
    <3>3. T(seen[i]) \in Int /\ T(Last(old)) \in Int
      BY <1>3, <1>13, <3>2
    <3>4. T(Last(old)) = T(seen[i])
      BY <3>2, <3>3
    <3>5. QED
      BY <1>16, <3>2, <3>4
  <2>3. CASE ~(i <= L)
    <3>1. i \in L + 1 .. L + m /\ j \in L + 1 .. L + m /\ k + (i - L) # k + (j - L)
      BY <1>1, <1>6, <1>10, <1>16, <2>3
    <3>2. QED
      BY <1>4, <1>13, <1>16, <3>1
  <2>4. QED
    BY <2>1, <2>2, <2>3
<1>17. ASSUME NEW e \in pages.before, Own(e)
       PROVE  \/ \E i \in 1 .. L + m : seen[i] = e
              \/ m > 0 /\ T(e) <= T(seen[L + m])
  <2>1. CASE \E i \in 1 .. L : old[i] = e
    <3>1. \A i \in 1 .. L : i \in 1 .. L + m
      BY <1>1, <1>10
    <3>2. QED
      BY <1>13, <2>1, <3>1
  <2>2. CASE ~\E i \in 1 .. L : old[i] = e
    <3>1. e \in Booked
      BY <1>1
    <3>2. PICK p \in 1 .. n : order[p] = e
      BY <1>4, <3>1
    <3>3. p > k
      <4>1. CASE old = <<>>
        BY <1>4, <1>6, <4>1
      <4>2. CASE old # <<>>
        <5>1. /\ k \in 1 .. n /\ order[k] = Last(old)
              /\ L \in 1 .. L /\ Last(old) = old[L] /\ Last(old) \in Booked
          BY <1>1, <1>4, <1>5, <1>6, <4>2
        <5>2. Last(old) # e /\ T(e) <= T(Last(old))
          BY <1>2, <1>17, <2>2, <4>2, <5>1
        <5>3. T(e) \in Int /\ T(Last(old)) \in Int /\ T(e) # T(Last(old))
          BY <1>3, <1>17, <3>1, <5>1, <5>2
        <5>4. p # k
          BY <3>2, <5>1, <5>2
        <5>5. ASSUME p < k PROVE FALSE
          <6>1. T(order[p]) >= T(order[k])
            BY <1>4, <5>1, <5>5
          <6>2. QED
            BY <3>2, <5>1, <5>2, <5>3, <6>1
        <5>6. QED
          BY <1>4, <5>1, <5>4, <5>5
      <4>3. QED
        BY <4>1, <4>2
    <3>4. m > 0
      BY <1>4, <1>6, <1>10, <3>3
    <3>5. CASE p <= k + m
      <4>1. p - k \in 1 .. m /\ k + (p - k) = p /\ L + (p - k) \in 1 .. L + m
        BY <1>1, <1>4, <1>6, <1>10, <3>3, <3>5
      <4>2. seen[L + (p - k)] = e
        BY <1>13, <3>2, <4>1
      <4>3. QED
        BY <4>1, <4>2
    <3>6. CASE ~(p <= k + m)
      <4>1. m \in 1 .. m /\ k + m \in 1 .. n /\ k + m < p
        BY <1>4, <1>6, <1>10, <3>4, <3>6
      <4>2. T(order[k + m]) >= T(e) /\ order[k + m] \in Booked
        BY <1>4, <3>2, <4>1, ElementOfSeq
      <4>3. T(order[k + m]) \in Int /\ T(e) \in Int
        BY <1>3, <3>1, <4>2
      <4>4. seen[L + m] = order[k + m]
        BY <1>13, <4>1
      <4>5. QED
        BY <3>4, <4>2, <4>3, <4>4
    <3>7. QED
      BY <3>5, <3>6
  <2>3. QED
    BY <2>1, <2>2
<1>18. /\ pages' \in [list : {"ledger", "audit"}, take : Takes, seen : Seq(Booked'),
                      before : SUBSET Booked', done : BOOLEAN]
       /\ pages'.list = list /\ pages'.seen = seen /\ pages'.before = pages.before
       /\ pages'.done <=> page = <<>>
  BY <1>1, <1>11, <1>12 DEF PagesInv, Booked
<1>19. /\ Booked' = Booked
       /\ \A e : TimeIsItsOwn(e)' <=> Own(e)
  BY <1>18 DEF Booked, TimeIsItsOwn
<1>20. \A i, j \in 1 .. L + m : Own(seen[i]) /\ seen[i] = seen[j] => i = j
  <2>1. \A i, j \in 1 .. L + m : i < j \/ j < i \/ i = j
    BY <1>1, <1>10
  <2>2. QED
    BY <1>16, <2>1
<1>21. m > 0 => Last(seen) = seen[L + m]
  BY <1>11 DEF Last
<1>22. \A e \in pages.before : Own(e) => Seen(e)' # {} \/ Ahead(e)'
  BY <1>10, <1>11, <1>17, <1>18, <1>21 DEF Seen, Ahead
<1>23. \A i, j \in DOMAIN pages'.seen :
         i < j => row'[pages'.seen[i]][pages'.list] >= row'[pages'.seen[j]][pages'.list]
  BY <1>11, <1>15, <1>18
<1>24. \A i, j \in DOMAIN pages'.seen :
         TimeIsItsOwn(pages.seen[i])' /\ pages'.seen[i] = pages'.seen[j] => i = j
  BY <1>11, <1>18, <1>19, <1>20
<1>25. \A e \in pages'.before : TimeIsItsOwn(e)' => Seen(e)' # {} \/ Ahead(e)'
  BY <1>18, <1>19, <1>22
<1>26. QED
  BY <1>18, <1>23, <1>24, <1>25 DEF PagesInv

(* An entry that is posted meanwhile can take a time from another, not     *)
(* give it one of its own.                                                 *)
LEMMA PostKeepsPages ==
    ASSUME DashboardInv, PagesInv, NEW e \in Entries, Post(e)
    PROVE  PagesInv'
<1>1. SUFFICES ASSUME pages # Null PROVE PagesInv'
  BY DEF Post, PagesInv
<1>2. /\ e \notin Booked /\ Booked \subseteq Booked' /\ \A o \in Booked : row'[o] = row[o]
      /\ pages' = pages
  BY PostKeeps DEF Post
<1>3. /\ pages \in [list : {"ledger", "audit"}, take : Takes, seen : Seq(Booked),
                    before : SUBSET Booked, done : BOOLEAN]
      /\ DOMAIN pages.seen = 1 .. Len(pages.seen)
      /\ \A i \in DOMAIN pages.seen : pages.seen[i] \in Booked
  BY <1>1, LenProperties, ElementOfSeq DEF PagesInv
<1>4. pages.seen \in Seq(Booked')
  BY <1>2, <1>3, SeqMonotonic
<1>5. pages' \in [list : {"ledger", "audit"}, take : Takes, seen : Seq(Booked'),
                  before : SUBSET Booked', done : BOOLEAN]
  BY <1>2, <1>3, <1>4
<1>6. \A o \in Booked : TimeIsItsOwn(o)' => TimeIsItsOwn(o)
  BY <1>2 DEF TimeIsItsOwn
<1>7. \A i, j \in DOMAIN pages'.seen :
         i < j => row'[pages'.seen[i]][pages'.list] >= row'[pages'.seen[j]][pages'.list]
  BY <1>1, <1>2, <1>3 DEF PagesInv
<1>8. \A i, j \in DOMAIN pages'.seen :
         TimeIsItsOwn(pages.seen[i])' /\ pages'.seen[i] = pages'.seen[j] => i = j
  BY <1>1, <1>2, <1>3, <1>6 DEF PagesInv
<1>9. ASSUME NEW o \in pages.before, TimeIsItsOwn(o)'
      PROVE  Seen(o)' # {} \/ Ahead(o)'
  <2>1. o \in Booked /\ (Seen(o) # {} \/ Ahead(o))
    BY <1>1, <1>3, <1>6, <1>9 DEF PagesInv
  <2>2. Seen(o)' = Seen(o)
    BY <1>2 DEF Seen
  <2>3. pages.seen # <<>> => Last(pages.seen) \in Booked
    BY <1>3, EmptySeq DEF Last
  <2>4. Ahead(o) => Ahead(o)'
    BY <1>2, <2>1, <2>3 DEF Ahead
  <2>5. QED
    BY <2>1, <2>2, <2>4
<1>10. QED
  BY <1>2, <1>5, <1>7, <1>8, <1>9 DEF PagesInv

LEMMA OpenKeeps ==
    ASSUME DashboardInv, NEW list \in {"ledger", "audit"}, NEW take \in Takes, Open(list, take)
    PROVE  PagesInv'
<1>1. /\ pages' = [list |-> list, take |-> take, seen |-> <<>>, before |-> Booked,
                   done |-> FALSE]
      /\ Booked' = Booked
  BY DEF Open, Booked
<1>2. <<>> \in Seq(Booked) /\ DOMAIN <<>> = {}
  BY EmptySeq, LenProperties
<1>3. pages' \in [list : {"ledger", "audit"}, take : Takes, seen : Seq(Booked'),
                  before : SUBSET Booked', done : BOOLEAN]
  BY <1>1, <1>2
<1>4. \A e : Ahead(e)'
  BY <1>1 DEF Ahead
<1>5. QED
  BY <1>1, <1>2, <1>3, <1>4 DEF PagesInv

LEMMA NextKeepsPages ==
    ASSUME DashboardInv, PagesInv, [Next]_vars
    PROVE  PagesInv'
<1>1. CASE UNCHANGED <<row, pages>>
  BY <1>1 DEF PagesInv, TimeIsItsOwn, Seen, Ahead, Booked
<1>2. CASE ListEntries \/ ListAudit
  BY <1>2, ReadOnKeeps DEF ListEntries, ListAudit
<1>3. CASE Close
  BY <1>3 DEF Close, PagesInv
<1>4. QED
  BY <1>1, <1>2, <1>3, PostKeepsPages, OpenKeeps
     DEF Next, Tick, GetDashboardSummary, SummarizeSince, Answer, vars

(* The invariant says enough: a client at the end has nothing ahead of it. *)
LEMMA NothingMissing == PagesInv => PagesComplete
<1>1. SUFFICES ASSUME PagesInv, pages # Null, NEW e \in Booked, TimeIsItsOwn(e)
               PROVE  /\ Cardinality(Seen(e)) <= 1
                      /\ pages.done /\ e \in pages.before => Seen(e) # {}
  BY DEF PagesComplete
<1>2. \A i, j \in Seen(e) : i = j
  BY <1>1 DEF PagesInv, Seen
<1>3. Seen(e) = {} \/ \E i : Seen(e) = {i}
  BY <1>2
<1>4. Cardinality(Seen(e)) <= 1
  <2>1. CASE Seen(e) = {}
    BY <2>1, FS_EmptySet
  <2>2. CASE \E i : Seen(e) = {i}
    <3>1. PICK i : Seen(e) = {i}
      BY <2>2
    <3>2. Cardinality({i}) = 1
      BY FS_Singleton
    <3>3. QED
      BY <3>1, <3>2
  <2>3. QED
    BY <1>3, <2>1, <2>2
<1>5. QED
  BY <1>1, <1>4 DEF PagesInv, Ahead

(* Reading on while the books grow shows a row whose time no other has at  *)
(* most once, and by the end exactly once if it was there at the           *)
(* beginning, for any sizes of pages and whatever order the query gives    *)
(* rows of equal times.                                                    *)
THEOREM CompletePages == Spec => []PagesComplete
<1>1. Init => (DashboardInv /\ FiguresAreExact) /\ PagesInv
  BY InitExact DEF Init, PagesInv
<1>2. (DashboardInv /\ FiguresAreExact) /\ [Next]_vars => (DashboardInv /\ FiguresAreExact)'
  BY NextExact
<1>3. DashboardInv /\ PagesInv /\ [Next]_vars => PagesInv'
  BY NextKeepsPages
<1>4. QED
  BY <1>1, <1>2, <1>3, NothingMissing, PTL DEF Spec
=============================================================================
