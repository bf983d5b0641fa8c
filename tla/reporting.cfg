SPECIFICATION Spec
CONSTANTS
    e1 = e1
    e2 = e2
    e3 = e3
    Entries = {e1, e2, e3}
    Amount <- MCAmount
    Kind <- MCKind
    Dates <- MCDates
    TicksPerDay = 2
    MonthStarts <- MCMonthStarts
    Days <- MCDays
    FirstTick <- MCFirst
    LastTick = 0
    Mondays = {0}
    MaxTake = 2
    Takes = {1, 3}
    MaxSeen = 3
    Null = Null
INVARIANTS
    FiguresAreExact
    PagesComplete
