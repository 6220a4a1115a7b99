------------------------------- MODULE Figures -------------------------------
(***************************************************************************)
(* The figures that ReportsService, AnalyticsService and AnomalyService    *)
(* read from the books, each the value of one SQL statement over the       *)
(* transactions that are committed when it runs.  Amounts are in minor     *)
(* units, of one business and one currency.                                *)
(***************************************************************************)
EXTENDS LocalDays, Sequences, Functions

CONSTANTS
  Accounts, TypeOf, CodeOf,  \* accounts, their types, and the family of their codes
  Transactions,      \* transactions that may come to be posted
  At, PostedAt,      \* occurred_at and posted_at
  Reverses,          \* reversal_of_transaction_id, or NONE
  EntriesOf,         \* entries of those that reverse nothing
  NONE

Sides == {"DEBIT", "CREDIT"}
Entry == [account : Accounts, type : Sides, amount : Nat]

ASSUME AccountAssumption ==
  /\ IsFiniteSet(Accounts)
  /\ TypeOf \in [Accounts -> {"ASSET", "LIABILITY", "EQUITY", "REVENUE", "EXPENSE"}]
  /\ CodeOf \in [Accounts -> {"100", "400", "500", "other"}]
ASSUME TransactionAssumption ==
  /\ NONE \notin Transactions
  /\ At \in [Transactions -> Int] /\ PostedAt \in [Transactions -> Int]
  /\ \A t, u \in Transactions : PostedAt[t] = PostedAt[u] => t = u
  /\ Reverses \in [Transactions -> Transactions \cup {NONE}]
  /\ \A t \in Transactions :
       IF Reverses[t] = NONE THEN EntriesOf[t] \in Seq(Entry)
       ELSE Reverses[Reverses[t]] = NONE

\* The entries of a transaction: a reversal swaps the sides of what it reverses.
Entries(t) ==
  IF Reverses[t] = NONE THEN EntriesOf[t]
  ELSE [i \in DOMAIN EntriesOf[Reverses[t]] |->
          [EntriesOf[Reverses[t]][i] EXCEPT !.type = IF @ = "DEBIT" THEN "CREDIT" ELSE "DEBIT"]]

\* The amounts of the entries on one side.
OnSide(t, side) ==
  SumFunctionOnSet([i \in DOMAIN Entries(t) |-> Entries(t)[i].amount],
                   {i \in DOMAIN Entries(t) : Entries(t)[i].type = side})

\* What is posted is balanced (enforce_balanced_transaction, which Schema models).
ASSUME BalanceAssumption ==
  \A t \in Transactions : Reverses[t] = NONE => OnSide(t, "DEBIT") = OnSide(t, "CREDIT")

\* SIGNED_ENTRY_SQL
Signed(e) ==
  IF (TypeOf[e.account] \in {"ASSET", "EXPENSE"}) = (e.type = "DEBIT")
  THEN e.amount ELSE -e.amount

\* What a transaction moves on some accounts.
Delta(t, accounts) ==
  SumFunctionOnSet([i \in DOMAIN Entries(t) |-> Signed(Entries(t)[i])],
                   {i \in DOMAIN Entries(t) : Entries(t)[i].account \in accounts})
Moves(accounts) == [t \in Transactions |-> Delta(t, accounts)]

Touches(t, account) == \E i \in DOMAIN Entries(t) : Entries(t)[i].account = account

Family(code) == {a \in Accounts : CodeOf[a] = code}

\* Mutant: a reversed transaction is left out.
Reported_Posted(books) == {t \in DOMAIN books : books[t] = "POSTED"}

\* The transactions that count: what was reversed stays, and its reversal is added.
Reported(books) == {t \in DOMAIN books : books[t] \in {"POSTED", "REVERSED"}}

\* A sum over the transactions that occurred in an interval, or before an instant.
Moved(books, accounts, p) ==
  SumFunctionOnSet(Moves(accounts), {t \in Reported(books) : p.start <= At[t] /\ At[t] < p.end})
MovedBefore(books, accounts, instant) ==
  SumFunctionOnSet(Moves(accounts), {t \in Reported(books) : At[t] < instant})

-----------------------------------------------------------------------------
(* Reports.                                                                *)

\* getCashPosition: balances of all accounts over all dates, the future included.
Position(books) ==
  [a \in Accounts |-> SumFunctionOnSet(Moves({a}), Reported(books))]
NetCash(position) == SumFunctionOnSet(position, Family("100"))

\* getIncomeStatement
Income(books, p) ==
  [revenue |-> Moved(books, Family("400"), p), expenses |-> Moved(books, Family("500"), p),
   net |-> Moved(books, Family("400"), p) - Moved(books, Family("500"), p)]

\* getAccountStatement: what it counts and lists, in the order of its lines.
Listed(books, account, p) ==
  {t \in Reported(books) : Touches(t, account) /\ p.start <= At[t] /\ At[t] < p.end}
Earliest(t, u) == At[t] < At[u] \/ (At[t] = At[u] /\ PostedAt[t] < PostedAt[u])

\* Its lines by transaction, each with the balance after it.  The balances run over
\* all that is listed: LIMIT and OFFSET cut the page last.
Lines(books, account, p, opening, limit, offset) ==
  LET all == Listed(books, account, p)
      earlier(t) == {u \in all : Earliest(u, t)}
      page == {t \in all : Cardinality(earlier(t)) \in offset..(offset + limit - 1)} IN
  [t \in page |->
     [delta |-> Delta(t, {account}),
      balance |-> opening + SumFunctionOnSet(Moves({account}), earlier(t) \cup {t})]]

-----------------------------------------------------------------------------
(* Series.                                                                 *)

\* The buckets of a series by the dates on which they begin, cut to the period.
Buckets(z, p, g) == [c \in BucketCuts(z, p, g) |-> Clipped(Bucket(z, g, c), p)]

\* CASH_BALANCE_SERIES_SQL
CashSeries(books, z, p, g) ==
  LET buckets == Buckets(z, p, g)
      delta == [c \in DOMAIN buckets |-> Moved(books, Family("100"), buckets[c])]
      until(c) == {d \in DOMAIN buckets : Bucket(z, g, d).start <= Bucket(z, g, c).start} IN
  [c \in DOMAIN buckets |->
     [delta |-> delta[c],
      balance |-> MovedBefore(books, Family("100"), p.start) + SumFunctionOnSet(delta, until(c))]]

\* INCOME_EXPENSE_SERIES_SQL
FlowSeries(books, z, p, g) ==
  [c \in DOMAIN Buckets(z, p, g) |-> Income(books, Buckets(z, p, g)[c])]

\* SPEND_BY_ACCOUNT_SQL: expense accounts whose movements do not cancel out.
Spend(books, p) ==
  [a \in {a \in Family("500") : Moved(books, {a}, p) # 0} |-> Moved(books, {a}, p)]

\* The days of a series as the anomaly rules see them.
DailyTotals(books, z, p) ==
  LET flows == FlowSeries(books, z, p, "day") IN
  [d \in DOMAIN flows |-> [revenue |-> flows[d].revenue, expenses |-> flows[d].expenses]]

\* ACTIVE_EXPENSE_CANDIDATES_SQL: expenses in force, with their amounts.
Candidates(books, p) ==
  LET found == {t \in DOMAIN books :
                  /\ books[t] = "POSTED" /\ Reverses[t] = NONE
                  /\ p.start <= At[t] /\ At[t] < p.end
                  /\ Delta(t, Family("500")) > 0}
  IN [t \in found |-> Delta(t, Family("500"))]
=============================================================================
