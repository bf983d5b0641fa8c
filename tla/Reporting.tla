----------------------------- MODULE Reporting -----------------------------
(***************************************************************************)
(* The reads of one restaurant's books while they grow: the dashboard,     *)
(* whose three periods are three transactions, and the ledger and audit    *)
(* lists, which a client reads page by page with the last row as cursor.   *)
(***************************************************************************)
EXTENDS ReportingData, SequencesExt

CONSTANTS
    Entries,   \* entries that may be booked, each with its audit record
    Amount,    \* their cents, negative for a reversal
    Kind,      \* revenue or expense
    Dates,     \* dates a client may give them
    FirstTick, LastTick,  \* bound the clock
    Mondays,   \* the days 0 .. 6 that may be a Monday
    MaxTake,   \* the most rows of a page
    Takes,     \* the sizes clients ask for
    MaxSeen,   \* bounds the rows a client reads: entries of equal times may come round for ever
    Null

ASSUME AmountsAreCents == Amount \in [Entries -> Int]
ASSUME KindsAreTypes == Kind \in [Entries -> {"revenue", "expense"}]
ASSUME ClockIsCovered ==
    /\ FirstTick \in Int /\ LastTick \in Int /\ FirstTick <= LastTick
    /\ \A i \in FirstTick .. LastTick : DayOf(i) \in Days
ASSUME MondaysAreWeekdays == Mondays \subseteq 0 .. 6
ASSUME DatesAreInstants == Dates \subseteq Int
ASSUME TakesArePositive == MaxTake \in Nat \ {0} /\ Takes \subseteq Nat \ {0} /\ MaxSeen \in Nat

VARIABLES
    monday,     \* the first Monday from day 0 on
    clock,      \* the server's
    row,        \* occurredAt of each committed entry and createdAt of its audit record, or Null
    dashboard,  \* a call of getDashboardSummary, or Null
    pages       \* a client that reads a list page by page, or Null

vars == <<monday, clock, row, dashboard, pages>>

Booked == {e \in Entries : row[e] # Null}

Init ==
    /\ monday \in Mondays
    /\ clock = FirstTick
    /\ row = [e \in Entries |-> Null]
    /\ dashboard = Null
    /\ pages = Null

Tick ==
    /\ clock < LastTick
    /\ clock' = clock + 1
    /\ UNCHANGED <<monday, row, dashboard, pages>>

(* A transaction of the ledger commits.  The entry may be dated back, or   *)
(* in the future; the audit record has the time of its own statement.      *)
Post(e) ==
    /\ row[e] = Null
    /\ \E at \in Dates, made \in {clock - 1, clock} :
         row' = [row EXCEPT ![e] = [ledger |-> at, audit |-> made]]
    /\ UNCHANGED <<monday, clock, dashboard, pages>>

-----------------------------------------------------------------------------
(* The dashboard.                                                          *)

Sum(k, S) == MapThenSumSet(LAMBDA e : Amount[e], {e \in S : Kind[e] = k})

Figures(S) ==
    [revenue |-> CentsToAmount(Sum("revenue", S)),
     expenses |-> CentsToAmount(Sum("expense", S)),
     cashPosition |-> CentsToAmount(Sum("revenue", S) - Sum("expense", S))]

(* One reader at a time: reads do not affect each other.  "before" is      *)
(* history: what was booked when the read began.                           *)
GetDashboardSummary ==
    /\ dashboard = Null /\ pages = Null
    /\ dashboard' = [now |-> clock, before |-> Booked, got |-> [p \in Periods |-> Null]]
    /\ UNCHANGED <<monday, clock, row, pages>>

(* Mutant: each period looks at the clock itself.                          *)
SummarizeSinceNow(p) ==
    /\ dashboard # Null /\ dashboard.got[p] = Null
    /\ dashboard' = [dashboard EXCEPT !.got[p] =
                        Figures({e \in Booked : row[e].ledger >= Since(p, clock, monday)})]
    /\ UNCHANGED <<monday, clock, row, pages>>

(* summarizeSince, a transaction of its own.                               *)
SummarizeSince(p) ==
    /\ dashboard # Null /\ dashboard.got[p] = Null
    /\ dashboard' = [dashboard EXCEPT !.got[p] =
                        Figures({e \in Booked : row[e].ledger >= Since(p, dashboard.now, monday)})]
    /\ UNCHANGED <<monday, clock, row, pages>>

(* The three are there, or the call has failed.                            *)
Answer ==
    /\ dashboard # Null
    /\ dashboard' = Null
    /\ UNCHANGED <<monday, clock, row, pages>>

-----------------------------------------------------------------------------
(* The lists.                                                              *)

(* The rows in an order the query may return them: latest first, and equal *)
(* times any way round.                                                    *)
Orders(list) ==
    {s \in SetToSeqs(Booked) :
        \A i, j \in DOMAIN s : i < j => row[s[i]][list] >= row[s[j]][list]}

AtMost(s, n) == SubSeq(s, 1, IF Len(s) < n THEN Len(s) ELSE n)

(* Mutant: the cursor is how many rows there were so far.                  *)
PageAtOffset(order, seen, take) == AtMost(SubSeq(order, Len(seen) + 1, Len(order)), take)

(* The page after the last row seen.                                       *)
Page(order, seen, take) ==
    LET from == IF seen = <<>> THEN 1 ELSE 1 + CHOOSE i \in DOMAIN order : order[i] = Last(seen)
    IN  AtMost(SubSeq(order, from, Len(order)), take)

PageSize(take) == IF take < MaxTake THEN take ELSE MaxTake

Open(list, take) ==
    /\ dashboard = Null /\ pages = Null
    /\ pages' = [list |-> list, take |-> take, seen |-> <<>>, before |-> Booked, done |-> FALSE]
    /\ UNCHANGED <<monday, clock, row, dashboard>>

(* The next page; an empty one is the last.                                *)
ReadOn(order) ==
    LET page == Page(order, pages.seen, PageSize(pages.take))
    IN  pages' = [pages EXCEPT !.seen = @ \o page, !.done = (page = <<>>)]

(* listEntries                                                             *)
ListEntries ==
    /\ pages # Null /\ pages.list = "ledger" /\ ~pages.done /\ Len(pages.seen) <= MaxSeen
    /\ \E order \in Orders("ledger") : ReadOn(order)
    /\ UNCHANGED <<monday, clock, row, dashboard>>

(* list of AuditService                                                    *)
ListAudit ==
    /\ pages # Null /\ pages.list = "audit" /\ ~pages.done /\ Len(pages.seen) <= MaxSeen
    /\ \E order \in Orders("audit") : ReadOn(order)
    /\ UNCHANGED <<monday, clock, row, dashboard>>

Close ==
    /\ pages # Null
    /\ pages' = Null
    /\ UNCHANGED <<monday, clock, row, dashboard>>

-----------------------------------------------------------------------------
Next ==
    \/ Tick
    \/ \E e \in Entries : Post(e)
    \/ GetDashboardSummary
    \/ \E p \in Periods : SummarizeSince(p)
    \/ Answer
    \/ \E list \in {"ledger", "audit"}, take \in Takes : Open(list, take)
    \/ ListEntries \/ ListAudit \/ Close

Spec == Init /\ [][Next]_vars

-----------------------------------------------------------------------------
(* What a call of getDashboardSummary knows, once it has begun.            *)
Amounts == [negative : BOOLEAN, units : Nat, cents : 0 .. 99]
Summaries == [revenue : Amounts, expenses : Amounts, cashPosition : Amounts]

DashboardInv ==
    /\ monday \in 0 .. 6
    /\ clock \in FirstTick .. LastTick
    /\ row \in [Entries -> [ledger : Int, audit : Int] \cup {Null}]
    /\ IsFiniteSet(Booked)
    /\ dashboard # Null =>
           /\ dashboard \in [now : FirstTick .. LastTick, before : SUBSET Entries,
                             got : [Periods -> Summaries \cup {Null}]]
           /\ dashboard.before \subseteq Booked

(* The entries of S that are booked and belong to the period.              *)
Within(p, S) ==
    {e \in S : row[e] # Null /\ InPeriod(p, row[e].ledger, dashboard.now, monday)}

Exact(p, figures) ==
    \E S \in SUBSET Booked :
        /\ Within(p, dashboard.before) \subseteq S
        /\ S \subseteq Within(p, Entries)
        /\ ReadAmount(figures.revenue) = Sum("revenue", S)
        /\ ReadAmount(figures.expenses) = Sum("expense", S)
        /\ ReadAmount(figures.cashPosition) = Sum("revenue", S) - Sum("expense", S)

(* Whatever is posted and however late it gets while the dashboard is      *)
(* read, the amounts printed for a period are those of a set of entries of *)
(* that calendar period that has all that was booked when the read began,  *)
(* and nothing that is not booked; what is printed reads back to the cent, *)
(* and the cash position is the difference.                                *)
FiguresAreExact ==
    dashboard # Null =>
        \A p \in Periods : dashboard.got[p] # Null => Exact(p, dashboard.got[p])

TimeIsItsOwn(e) ==
    \A o \in Booked \ {e} : row[o][pages.list] # row[e][pages.list]

Seen(e) == {i \in DOMAIN pages.seen : pages.seen[i] = e}

(* Where a client stands: the rows it has read are booked and in order, and *)
(* an entry it is still to see comes after them all.                       *)
Ahead(e) ==
    /\ ~pages.done
    /\ pages.seen = <<>> \/ row[e][pages.list] <= row[Last(pages.seen)][pages.list]

PagesInv ==
    pages # Null =>
        /\ pages \in [list : {"ledger", "audit"}, take : Takes, seen : Seq(Booked),
                      before : SUBSET Booked, done : BOOLEAN]
        /\ \A i, j \in DOMAIN pages.seen :
               i < j => row[pages.seen[i]][pages.list] >= row[pages.seen[j]][pages.list]
        /\ \A i, j \in DOMAIN pages.seen :
               TimeIsItsOwn(pages.seen[i]) /\ pages.seen[i] = pages.seen[j] => i = j
        /\ \A e \in pages.before :
               TimeIsItsOwn(e) => Seen(e) # {} \/ Ahead(e)

(* Reading on while entries are posted shows each entry whose time no      *)
(* other has at most once, and by the end exactly once if it was there at  *)
(* the beginning.                                                          *)
PagesComplete ==
    pages # Null =>
        \A e \in Booked :
            TimeIsItsOwn(e) =>
                /\ Cardinality(Seen(e)) <= 1
                /\ pages.done /\ e \in pages.before => Seen(e) # {}
=============================================================================
