CONSTANTS
    MonthsInYear = 3
    MonthLength = 2
    WeekLength = 3
    Counts = {0, 2}
    LastDay = 12
    NoRow = NoRow
SPECIFICATION Spec
INVARIANTS
    TwelveMonths
    StreaksRight
    TotalsAgree
CHECK_DEADLOCK FALSE
