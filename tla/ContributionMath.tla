--------------------------- MODULE ContributionMath ---------------------------
(***************************************************************************)
(* What ContributionService computes from the rows of a year: the window,  *)
(* the streaks and the statistics, as the loops of the code compute them,  *)
(* beside what their results are to mean.                                  *)
(*                                                                         *)
(* A behaviour is a contributor's life: days pass, and whenever a year is  *)
(* refreshed every day of its window gets the count GitHub has by then.    *)
(* The calendar is regular: months of one length, years of one number of   *)
(* months.  Day 0 is the first of a week, of a month and of a year.        *)
(***************************************************************************)
EXTENDS Integers, FiniteSets, FiniteSetsExt

CONSTANTS
    MonthsInYear,       \* 12
    MonthLength,        \* days of a month
    WeekLength,         \* 7
    Counts,             \* contributions a day may have
    LastDay,            \* bound: the last day of a behaviour
    NoRow               \* model value: a day without a row

VARIABLES
    today,              \* date.today()
    rows                \* the contributor's rows: rows[d] of day d

vars == <<today, rows>>

ASSUME CalendarAssumption ==
    /\ MonthsInYear \in Nat \ {0, 1} /\ MonthLength \in Nat \ {0}
    /\ WeekLength \in Nat \ {0, 1}
    /\ Counts \subseteq Nat /\ NoRow \notin Nat
    /\ LastDay \in Nat

\* date.year, date.month and date.weekday(): a month is 1 to 12, a weekday is
\* 0 to 6.
Day == 0..LastDay
MonthIndex(d) == d \div MonthLength
YearOf(d) == MonthIndex(d) \div MonthsInYear
MonthOf(d) == (MonthIndex(d) % MonthsInYear) + 1
WeekdayOf(d) == d % WeekLength

Month == [d \in Day |-> MonthOf(d)]
Weekday == [d \in Day |-> WeekdayOf(d)]

\* date(year, month, 1)
FirstOf(year, month) == (year * MonthsInYear + month - 1) * MonthLength

\* A behaviour begins with the second year.
FirstDay == FirstOf(1, 1)

-----------------------------------------------------------------------------
(* _window_bounds and _rows_for_year *)

\* The month before, as <<year, month>>.
Before(ym) ==
    IF ym[2] = 1 THEN <<ym[1] - 1, MonthsInYear>> ELSE <<ym[1], ym[2] - 1>>

\* for _ in range(12): one month too many.
StartMonthTooEarly(year, month) ==
    LET back[n \in 0..MonthsInYear] ==
            IF n = 0 THEN <<year, month>> ELSE Before(back[n - 1])
    IN  back[MonthsInYear]

\* for _ in range(11)
StartMonth(year, month) ==
    LET back[n \in 0..MonthsInYear - 1] ==
            IF n = 0 THEN <<year, month>> ELSE Before(back[n - 1])
    IN  back[MonthsInYear - 1]

WindowBounds(year) ==
    IF year = YearOf(today)
    THEN LET first == StartMonth(YearOf(today), MonthOf(today))
         IN  [start |-> FirstOf(first[1], first[2]), end |-> today]
    ELSE [start |-> FirstOf(year, 1), end |-> FirstOf(year + 1, 1) - 1]

Window(year) == WindowBounds(year).start .. WindowBounds(year).end

RowsForYear(year) ==
    {d \in Window(year) : d \in Day /\ rows[d] # NoRow}

\* counts.get(day, 0)
Count(year, d) == IF d \in RowsForYear(year) THEN rows[d] ELSE 0

-----------------------------------------------------------------------------
(* get_streaks *)

\* The run is not ended by a day without contributions.
LongestStreakOfAll(year) ==
    Cardinality({d \in RowsForYear(year) : rows[d] > 0})

\* From the first day on: the run that d ends, and the longest up to d.
LongestStreak(year) ==
    LET bounds == WindowBounds(year)
        scan[d \in bounds.start - 1 .. bounds.end] ==
            IF d < bounds.start THEN [run |-> 0, longest |-> 0]
            ELSE LET before == scan[d - 1]
                     run == IF Count(year, d) > 0 THEN before.run + 1 ELSE 0
                 IN  [run |-> run,
                      longest |-> IF run > before.longest THEN run
                                  ELSE before.longest]
    IN  scan[bounds.end].longest

\* From the last day back, as far as the days have contributions.
CurrentStreak(year) ==
    LET bounds == WindowBounds(year)
        back[d \in bounds.start - 1 .. bounds.end] ==
            IF d < bounds.start \/ Count(year, d) = 0 THEN 0
            ELSE 1 + back[d - 1]
    IN  back[bounds.end]

-----------------------------------------------------------------------------
(* get_statistics *)

Contributed(year) == {d \in RowsForYear(year) : rows[d] > 0}

Total(year) == MapThenSumSet(LAMBDA d : rows[d], RowsForYear(year))

\* The last day of a key overwrites the others.
TotalsOverwritten(year, keyOf) ==
    [key \in {keyOf[d] : d \in Contributed(year)} |->
        rows[Max({d \in Contributed(year) : keyOf[d] = key})]]

\* month_totals, weekday_totals: the days of the rows are added up by a key,
\* and a key without contributions is not there.
Totals(year, keyOf) ==
    [key \in {keyOf[d] : d \in Contributed(year)} |->
        MapThenSumSet(LAMBDA d : rows[d],
            {d \in Contributed(year) : keyOf[d] = key})]

\* max(totals, key=...): of the keys with the most, the one met first.
MostActive(year, keyOf) ==
    LET totals == Totals(year, keyOf)
        most == {d \in Contributed(year) :
                    \A key \in DOMAIN totals : totals[key] <= totals[keyOf[d]]}
    IN  keyOf[Min(most)]

\* "most_active_..._contributions": totals.get(key, 0) if key else 0, where
\* there is a key at all.
Reported(year, keyOf) ==
    LET key == MostActive(year, keyOf)
    IN  IF key = 0 THEN 0 ELSE Totals(year, keyOf)[key]

-----------------------------------------------------------------------------
(* The specification *)

\* The years that are looked at: this one and the one before.
Years == {YearOf(today) - 1, YearOf(today)}

Init ==
    /\ today = FirstDay
    /\ rows = [d \in Day |-> NoRow]

NextDay ==
    /\ today < LastDay
    /\ today' = today + 1
    /\ UNCHANGED rows

\* DELETE of the rows of the window.
Deleted(window) == [d \in Day |-> IF d \in window THEN NoRow ELSE rows[d]]

\* _aggregate_locked: a row for every day of the window, with what GitHub says
\* now, whatever the row was before.
Aggregated(window, counts) ==
    [d \in Day |-> IF d \in window THEN counts[d] ELSE rows[d]]

\* The refresh of a user who has no credential leaves the window deleted.
Refresh(year) ==
    LET window == Window(year)
    IN  /\ \/ \E counts \in [window -> Counts] :
                 rows' = Aggregated(window, counts)
           \/ rows' = Deleted(window)
        /\ UNCHANGED today

Next == NextDay \/ \E year \in Years : Refresh(year)

Spec == Init /\ [][Next]_vars

-----------------------------------------------------------------------------
(* Properties *)

\* The window of the current year ends today and has every month of the
\* calendar once, the months before it in full: no two years' months are added
\* up under one number.
TwelveMonths ==
    LET window == Window(YearOf(today))
    IN  /\ today \in window /\ today + 1 \notin window
        /\ \A m \in 1..MonthsInYear :
            \E i \in {MonthIndex(d) : d \in window} :
                {d \in window : MonthOf(d) = m} =
                {d \in 0..today : MonthIndex(d) = i}

\* The streaks are what they are called: the longest run of days with
\* contributions anywhere in the window, and the one that ends with it.
Run(year, a, b) == \A d \in a..b : Count(year, d) > 0

StreaksRight ==
    \A year \in Years :
        LET window == Window(year)
            runs == {d \in window \X window :
                        d[1] <= d[2] /\ Run(year, d[1], d[2])}
            lengths == {d[2] - d[1] + 1 : d \in runs}
            ending == {d[2] - d[1] + 1 :
                        d \in {d \in runs : d[2] = Max(window)}}
        IN  /\ LongestStreak(year) = Max({0} \cup lengths)
            /\ CurrentStreak(year) = Max({0} \cup ending)

\* No contribution is lost or counted twice on its way into the totals of the
\* months or of the weekdays, and what is reported of the most active month is
\* what it has, and no month has more.  Of the most active weekday too, unless
\* it is a Monday, whose number is 0.
TotalsAgree ==
    \A year \in Years :
        LET months == Totals(year, Month)
            weekdays == Totals(year, Weekday)
        IN  /\ MapThenSumSet(LAMBDA m : months[m], DOMAIN months) = Total(year)
            /\ MapThenSumSet(LAMBDA w : weekdays[w], DOMAIN weekdays)
                  = Total(year)
            /\ \A m \in DOMAIN months : months[m] <= Reported(year, Month)
            /\ \A w \in DOMAIN weekdays :
                  \/ weekdays[w] <= Reported(year, Weekday)
                  \/ MostActive(year, Weekday) = 0
=============================================================================
