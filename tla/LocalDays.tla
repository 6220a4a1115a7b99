------------------------------ MODULE LocalDays ------------------------------
(***************************************************************************)
(* Local dates and UTC instants: the period of a report                    *)
(* (reports.math.computeReportPeriod) and the buckets of a series          *)
(* (the bucket_series of AnalyticsService).                                *)
(*                                                                         *)
(* A local date is a day number, an instant a number of ticks, and a zone  *)
(* the offset of its clock before and after one change.                    *)
(***************************************************************************)
EXTENDS Integers, FiniteSets

CONSTANTS
  Day,            \* ticks of a day whose clock does not change
  Zones,          \* time zones: offset before, offset after, instant of the change
  MaxPeriodDays,  \* MAX_REPORT_PERIOD_DAYS
  Granularities, Cuts  \* day, week, month; and the dates on which a bucket of each starts

ASSUME DayAssumption == Day \in Nat \ {0} /\ MaxPeriodDays \in Nat \ {0}
\* No change of a clock skips or repeats a whole day.
ASSUME ZoneAssumption ==
  /\ Zones \subseteq [before : (-Day)..Day, after : (-Day)..Day, at : Int]
  /\ \A z \in Zones : z.after - z.before < Day /\ z.before - z.after < Day
ASSUME CutAssumption == Cuts \in [Granularities -> SUBSET Int]

\* getTimezoneOffsetMs: how far the local clock is ahead.
Offset(z, t) == IF t < z.at THEN z.before ELSE z.after

\* What the local clock shows; whole days of it are local dates.
LocalTime(z, t) == t + Offset(z, t)
LocalDate(z, t) == LocalTime(z, t) \div Day

\* zonedDateTimeToUtc, of the midnight that begins a date: the offset is looked up at
\* that midnight taken for UTC, and once more at the instant this gives.
DayStart(z, date) ==
  LET local == date * Day IN local - Offset(z, local - Offset(z, local))

\* computeReportPeriod; other ranges of dates are refused.
ValidRange(from, to) == from <= to /\ to - from + 1 <= MaxPeriodDays
Period(z, from, to) == [start |-> DayStart(z, from), end |-> DayStart(z, to + 1)]

-----------------------------------------------------------------------------
(* Buckets.                                                                *)

\* PostgreSQL's AT TIME ZONE: a local time that occurs twice is the later instant,
\* one that is skipped is read with the offset before the change.
FromLocal(z, local) ==
  IF local - z.after >= z.at THEN local - z.after ELSE local - z.before

\* date_trunc
Trunc(g, date) == CHOOSE c \in Cuts[g] : c <= date /\ \A d \in Cuts[g] : d <= date => d <= c

\* The cuts from the bucket of the first instant of a period to that of the last.
BucketCuts(z, p, g) ==
  {c \in Cuts[g] : Trunc(g, LocalDate(z, p.start)) <= c /\ c <= LocalDate(z, p.end - 1)}

NextCut(g, c) == CHOOSE n \in Cuts[g] : n > c /\ \A d \in Cuts[g] : d > c => n <= d

\* A bucket, in local days, as instants.
Bucket(z, g, c) == [start |-> FromLocal(z, c * Day), end |-> FromLocal(z, NextCut(g, c) * Day)]

Later(s, t) == IF s > t THEN s ELSE t
Earlier(s, t) == IF s < t THEN s ELSE t

\* The part of a bucket that lies in the period.
Clipped(b, p) == [start |-> Later(b.start, p.start), end |-> Earlier(b.end, p.end)]
=============================================================================
