------------------------------ MODULE MCReaders ------------------------------
(***************************************************************************)
(* Instances of AlertDispatch and Readers for TLC, in one state machine    *)
(* that runs one of them: two calls over a new alert and one that an       *)
(* earlier release left FAILED; and requests that read the books of a few  *)
(* days around a change of the clock.                                      *)
(***************************************************************************)
EXTENDS AlertDispatch, Readers

CONSTANTS new, legacy, bank, sales, stock, s1, s2, x2, back

MCAlerts == {new, legacy}
MCLegacy == {legacy}

\* Days of four ticks.  The clock changes at the midnight that begins date 2, west of
\* Greenwich: not at all, forward, back to an hour before it, or back at it.
MCZones ==
  {[before |-> 0, after |-> 0, at |-> 0], [before |-> -2, after |-> -1, at |-> 10],
   [before |-> -1, after |-> -2, at |-> 10], [before |-> -1, after |-> -2, at |-> 9]}
MCCuts == [g \in {"day", "week"} |-> IF g = "day" THEN -3..9 ELSE {-4, -1, 2, 5, 8}]
MCRange(from, to) == [from |-> from, to |-> to]
MCRanges == {MCRange(1, 1), MCRange(2, 3), MCRange(3, 2), MCRange(1, 4)}

MCAccounts == {bank, sales, stock}
MCTypeOf == [a \in MCAccounts |-> CASE a = bank -> "ASSET" [] a = sales -> "REVENUE" [] a = stock -> "EXPENSE"]
MCCodeOf == [a \in MCAccounts |-> CASE a = bank -> "100" [] a = sales -> "400" [] a = stock -> "500"]

\* A sale and an expense on date 1, in one transaction; a sale and an expense at the same
\* instant, of date 2 or just before it; and the reversal of that sale, a day later.
MCTransactions == {s1, s2, x2, back}
MCAt == [t \in MCTransactions |-> CASE t = s1 -> 5 [] t = back -> 12 [] OTHER -> 9]
MCPostedAt == [t \in MCTransactions |-> CASE t = s1 -> 1 [] t = x2 -> 2 [] t = s2 -> 3 [] t = back -> 4]
MCReverses == [t \in MCTransactions |-> IF t = back THEN s2 ELSE NONE]
MCEntry(account, type, amount) == [account |-> account, type |-> type, amount |-> amount]
MCSale == <<MCEntry(bank, "DEBIT", 3), MCEntry(sales, "CREDIT", 3)>>
MCExpense(amount) == <<MCEntry(stock, "DEBIT", amount), MCEntry(bank, "CREDIT", amount)>>
MCEntriesOf ==
  [t \in MCTransactions |-> CASE t = s1 -> MCSale \o MCExpense(1) [] t = x2 -> MCExpense(2) [] OTHER -> MCSale]

MCThresholds ==
  [expenseLookback |-> 2, expenseMinimumDays |-> 1, expenseMultiple |-> 2, expenseFloor |-> 1,
   salesLookback |-> 2, salesMinimumDays |-> 1, spikeMultiple |-> 2, dropDenominator |-> 2,
   salesFloor |-> 1, spikeDelta |-> 1, gapDays |-> 1, gapMinimumDays |-> 1]

VARIABLE part

allVars == <<vars, readVars, part>>

MCInit == /\ part \in {"alerts", "readers"}
          /\ Init /\ ReadersInit
          /\ part # "readers" => zone = [before |-> 0, after |-> 0, at |-> 0]

Alone(action) == part = "alerts" /\ action /\ UNCHANGED <<readVars, part>>

MCNext ==
  \/ Alone(Next)
  \/ part = "readers" /\ ReadersNext /\ UNCHANGED <<vars, part>>

\* The fairness of AlertDispatch.
MCSpec ==
  /\ MCInit /\ [][MCNext]_allVars
  /\ WF_allVars(Alone(Reconcile)) /\ \A a \in Alerts : WF_allVars(Alone(Lapse(a)))
=============================================================================
