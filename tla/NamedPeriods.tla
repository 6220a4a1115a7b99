---------------------------- MODULE NamedPeriods -----------------------------
(***************************************************************************)
(* The periods a question names (ConversationalQueryService.resolvePeriod) *)
(* and the one the dashboard shows by default, resolved on the day the     *)
(* question is asked.  Days are numbered from 1 January 1970.              *)
(***************************************************************************)
EXTENDS Integers, Sequences, Functions

CONSTANTS
  FirstDay, LastDay,  \* bound: the days on which questions are asked
  FirstMonth, MonthLengths,  \* first day and lengths of a row of months around them
  WidestPeriod        \* MAX_PERIOD_DAYS

\* First days of the months, and of the one after them.
MonthStart ==
  [m \in 1..(Len(MonthLengths) + 1) |-> FirstMonth + SumFunctionOnSet(MonthLengths, 1..(m - 1))]

\* The months include the one before any day's; a whole month is not too wide a period.
ASSUME CalendarAssumption ==
  /\ FirstDay \in Int /\ LastDay \in Int /\ FirstDay <= LastDay /\ FirstMonth \in Int
  /\ MonthLengths \in Seq(28..31) /\ Len(MonthLengths) > 0
  /\ MonthStart[2] <= FirstDay /\ LastDay < MonthStart[Len(MonthLengths) + 1]
  /\ WidestPeriod \in Nat /\ WidestPeriod >= 31

VARIABLE today

MonthOf(d) ==
  CHOOSE m \in 1..Len(MonthLengths) : MonthStart[m] <= d /\ d < MonthStart[m + 1]

\* Date.getUTCDay: Sunday is 0, and the first day was a Thursday.
WeekDay(d) == (d + 4) % 7

\* Mutant: Sunday begins its week.
StartOfWeek_Sunday(d) == d - WeekDay(d) + 1

StartOfWeek(d) == d - (IF WeekDay(d) = 0 THEN 6 ELSE WeekDay(d) - 1)

FirstOfMonth(d) == MonthStart[MonthOf(d)]
LastOfMonth(d) == FirstOfMonth(d) + MonthLengths[MonthOf(d)] - 1

Names == {"TODAY", "YESTERDAY", "THIS_WEEK", "LAST_WEEK", "THIS_MONTH", "LAST_MONTH"}

Span(from, to) == [from |-> from, to |-> to]

\* resolvePeriod
Resolved(name, d) ==
  CASE name = "TODAY"      -> Span(d, d)
    [] name = "YESTERDAY"  -> Span(d - 1, d - 1)
    [] name = "THIS_WEEK"  -> Span(StartOfWeek(d), StartOfWeek(d) + 6)
    [] name = "LAST_WEEK"  -> Span(StartOfWeek(d) - 7, StartOfWeek(d) - 1)
    [] name = "THIS_MONTH" -> Span(FirstOfMonth(d), LastOfMonth(d))
    [] name = "LAST_MONTH" -> Span(FirstOfMonth(FirstOfMonth(d) - 1), FirstOfMonth(d) - 1)

\* assertSanePeriod
SaneSpan(s) == s.from <= s.to /\ s.to - s.from + 1 <= WidestPeriod

\* normalizePeriodSelection without dates: thirty days.
DashboardSpan(d) == Span(d - 29, d)

CalendarInit == today = FirstDay
Midnight == today < LastDay /\ today' = today + 1
CalendarSpec == CalendarInit /\ [][Midnight]_today

-----------------------------------------------------------------------------

\* Whatever the day: the named periods are accepted, the current ones hold today, each
\* previous one ends where the current one begins and is as long as such a period was,
\* so that "last" and "this" leave out no day and share none (resolvePeriod).
PeriodsJoin ==
  LET span(name) == Resolved(name, today)
      joins(last, this) == span(last).to + 1 = span(this).from IN
  /\ \A name \in Names : SaneSpan(span(name))
  /\ \A name \in {"TODAY", "THIS_WEEK", "THIS_MONTH"} :
       span(name).from <= today /\ today <= span(name).to
  /\ joins("YESTERDAY", "TODAY") /\ joins("LAST_WEEK", "THIS_WEEK") /\ joins("LAST_MONTH", "THIS_MONTH")
  /\ \A d \in span("LAST_WEEK").from..span("LAST_WEEK").to : Resolved("THIS_WEEK", d) = span("LAST_WEEK")
  /\ \A d \in span("LAST_MONTH").from..span("LAST_MONTH").to :
       Resolved("THIS_MONTH", d) = span("LAST_MONTH")
  /\ SaneSpan(DashboardSpan(today))
=============================================================================
