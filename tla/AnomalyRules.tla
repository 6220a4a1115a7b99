---------------------------- MODULE AnomalyRules -----------------------------
(***************************************************************************)
(* The rules that look for anomalies in the daily totals of a business     *)
(* (anomaly.rules.ts).  Days are a function: the revenue and the expenses  *)
(* of each date of a series, which the code has in the order of dates.     *)
(***************************************************************************)
EXTENDS Integers, FiniteSets, Functions

CONSTANT Thresholds  \* AnomalyThresholds, with the amounts of the currency

ASSUME ThresholdAssumption ==
  /\ Thresholds \in
       [expenseLookback : Nat \ {0}, expenseMinimumDays : Nat \ {0}, expenseMultiple : Nat,
        expenseFloor : Nat, salesLookback : Nat \ {0}, salesMinimumDays : Nat,
        spikeMultiple : Nat, dropDenominator : Nat, salesFloor : Nat \ {0},
        spikeDelta : Nat, gapDays : Nat \ {0}, gapMinimumDays : Nat]
  /\ Thresholds.spikeMultiple * Thresholds.dropDenominator > 1

Th == Thresholds

\* The last n of some dates, and the dates before one.
LastOf(dates, n) == {d \in dates : Cardinality({e \in dates : d < e}) < n}
Before(days, asOf) == {d \in DOMAIN days : d < asOf}

Active(days, dates) == {d \in dates : days[d].revenue > 0}
Revenues(days) == [d \in DOMAIN days |-> days[d].revenue]
Expenses(days) == [d \in DOMAIN days |-> days[d].expenses]

-----------------------------------------------------------------------------
(* detectLargeExpenseAnomalies                                             *)

ExpenseBaseline(days, asOf) ==
  {d \in LastOf(Before(days, asOf), Th.expenseLookback) : days[d].expenses > 0}

\* Which of the candidates, amounts by transaction, are unusually large.
LargeExpenses(candidates, days, asOf) ==
  LET baseline == ExpenseBaseline(days, asOf)
      n == Cardinality(baseline)
      total == SumFunctionOnSet(Expenses(days), baseline) IN
  {t \in DOMAIN candidates :
     /\ n >= Th.expenseMinimumDays
     /\ candidates[t] * n >= total * Th.expenseMultiple
     /\ candidates[t] >= Th.expenseFloor}

-----------------------------------------------------------------------------
(* detectSalesVolumeAnomalies, of sales on a day against the total of n    *)
(* days before it.                                                         *)

\* A baseline worth comparing with.
Steady(total, n) == total \div n >= Th.salesFloor

IsSpike(sales, total, n) ==
  /\ sales * n >= total * Th.spikeMultiple
  /\ sales - (total \div n) >= Th.spikeDelta

\* Mutant: the denominator on the wrong side.
IsDrop_Double(sales, total, n) == sales * n <= total * Th.dropDenominator

IsDrop(sales, total, n) == sales * n * Th.dropDenominator <= total

SalesAnomalies(days, asOf) ==
  LET baseline == LastOf(Before(days, asOf), Th.salesLookback)
      n == Cardinality(baseline)
      total == SumFunctionOnSet(Revenues(days), baseline) IN
  {type \in {"SALES_SPIKE", "SALES_DROP"} :
     /\ asOf \in DOMAIN days
     /\ n = Th.salesLookback /\ Cardinality(Active(days, baseline)) >= Th.salesMinimumDays
     /\ Steady(total, n)
     /\ IF type = "SALES_SPIKE" THEN IsSpike(days[asOf].revenue, total, n)
        ELSE IsDrop(days[asOf].revenue, total, n)}

-----------------------------------------------------------------------------
(* detectActivityGapAnomaly                                                *)

ActivityGap(days, asOf) ==
  LET past == {d \in DOMAIN days : d <= asOf}
      gap == LastOf(past, Th.gapDays) IN
  /\ asOf \in DOMAIN days /\ Cardinality(past) >= Th.gapDays
  /\ Active(days, gap) = {}
  /\ Cardinality(Active(days, past \ gap)) >= Th.gapMinimumDays

Anomalies(days, asOf) ==
  SalesAnomalies(days, asOf) \cup (IF ActivityGap(days, asOf) THEN {"ACTIVITY_GAP"} ELSE {})
=============================================================================
