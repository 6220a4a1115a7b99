------------------------------- MODULE Readers -------------------------------
(***************************************************************************)
(* Requests that read the books while postings and reversals are           *)
(* committed: an account statement, a question about recent transactions,  *)
(* the dashboard's overview and the detection of anomalies.                *)
(*                                                                         *)
(* A read is one SQL statement.  Requests run in READ COMMITTED            *)
(* transactions, several of them for the overview and the detection, so    *)
(* each statement sees what is committed by then.  Postings are Ledger's;  *)
(* here one commit is one action.  Readers change nothing and share        *)
(* nothing, so there is one of them.  The books that each of its           *)
(* statements saw are recorded beside what it returned, for the            *)
(* properties alone.                                                       *)
(***************************************************************************)
EXTENDS Figures, AnomalyRules

CONSTANTS
  Ranges,         \* ranges of dates that are asked for
  PageSizes, Offsets,  \* limits and offsets of statements
  ReadLimit,      \* STATEMENT_READ_LIMIT
  RecentLimit,    \* MAX_RECENT_LIMIT
  Lookback,       \* BASELINE_LOOKBACK_DAYS
  LookedAt        \* the accounts that statements and questions are about

ASSUME ReaderAssumption ==
  /\ \A r \in Ranges : r.from \in Int /\ r.to \in Int
  /\ ReadLimit \in Nat \ {0} /\ RecentLimit \in 1..ReadLimit
  /\ Lookback \in 0..(MaxPeriodDays - 1) /\ LookedAt \subseteq Accounts
  /\ "day" \in Granularities
  \* Buckets begin before and after every date that is looked at, days on each of them.
  /\ \A r \in Ranges, g \in Granularities : \E c, d \in Cuts[g] : c < r.from /\ d > r.to + 1
  /\ \A r \in Ranges : r.to \in Cuts["day"] /\ \E c \in Cuts["day"] : c < r.to - Lookback

VARIABLES
  zone,    \* the time zone of the business
  books,   \* status of each committed transaction
  reader   \* the request: what it asks for, what it has read and seen, what it replies

readVars == <<zone, books, reader>>

IdleReader == [kind |-> "idle"]

ReadersInit ==
  /\ zone \in Zones
  /\ books = [t \in {} |-> NONE]
  /\ reader = IdleReader

Busy == reader.kind # "idle"
Answered == Busy /\ reader.reply # NONE
Asked == Period(zone, reader.from, reader.to)

-----------------------------------------------------------------------------
(* The books.                                                              *)

\* LedgerService commits a posting, or a reversal with the status of its original.
Commit(t) ==
  /\ t \notin DOMAIN books
  /\ Reverses[t] # NONE => Reverses[t] \in DOMAIN books /\ books[Reverses[t]] = "POSTED"
  /\ books' = [u \in DOMAIN books \cup {t} |->
                 IF u = t THEN "POSTED" ELSE IF u = Reverses[t] THEN "REVERSED" ELSE books[u]]
  /\ UNCHANGED <<zone, reader>>

-----------------------------------------------------------------------------
(* Requests.                                                               *)

\* A request with its parameters.  A range that is not valid is refused at once.
Ask(kind, from, to, account, g, limit, offset) ==
  /\ ~Busy /\ ValidRange(from, to)
  /\ reader' = [kind |-> kind, from |-> from, to |-> to, account |-> account, g |-> g,
                limit |-> limit, offset |-> offset, got |-> [part \in {} |-> NONE],
                seen |-> [part \in {} |-> NONE], reply |-> NONE]
  /\ UNCHANGED <<zone, books>>

AskStatement ==
  \E r \in Ranges, a \in LookedAt, limit \in PageSizes, offset \in Offsets :
    Ask("statement", r.from, r.to, a, "day", limit, offset)
AskRecent ==
  \E r \in Ranges, a \in LookedAt, limit \in 1..RecentLimit :
    Ask("recent", r.from, r.to, a, "day", limit, 0)
AskOverview ==
  \E r \in Ranges, g \in Granularities : Ask("overview", r.from, r.to, NONE, g, 0, 0)

\* Detection reads a series that ends with the day it is about.
AskDetection ==
  \E r \in Ranges : Ask("detection", r.to - Lookback, r.to, NONE, "day", 0, 0)

Has(part) == part \in DOMAIN reader.got

\* Mutant: the overview reads its five parts side by side.
Awaited_Position(part) ==
  CASE part \in {"count", "position", "income", "cash", "spend"} -> {}
    [] part = "opening" -> {"count"}
    [] part = "lines" -> {"count", "opening"}
    [] part = "candidates" -> {"flows"}
    [] part = "flows" -> {}

\* The reads of each request, and those it awaits before each of them.
PartsOf == [statement |-> {"count", "opening", "lines"}, recent |-> {"count", "opening", "lines"},
            overview |-> {"position", "income", "cash", "flows", "spend"},
            detection |-> {"flows", "candidates"}]
Awaited(part) ==
  CASE part \in {"count", "position"} -> {}
    [] part = "opening" -> {"count"}
    [] part = "lines" -> {"count", "opening"}
    [] part = "candidates" -> {"flows"}
    [] part = "flows" -> IF reader.kind = "overview" THEN {"position"} ELSE {}
    [] part \in {"income", "cash", "spend"} -> {"position"}

\* The first row of a page, and how many rows it may have.
PageLimit == IF reader.kind = "recent" THEN ReadLimit ELSE reader.limit

\* What a statement returns that sees these transactions committed.
Value(seen, part) ==
  CASE part = "count" -> Cardinality(Listed(seen, reader.account, Asked))
    [] part = "opening" -> MovedBefore(seen, {reader.account}, Asked.start)
    [] part = "lines" -> Lines(seen, reader.account, Asked, reader.got["opening"],
                               PageLimit, reader.offset)
    [] part = "position" -> Position(seen)
    [] part = "income" -> Income(seen, Asked)
    [] part = "cash" -> CashSeries(seen, zone, Asked, reader.g)
    [] part = "flows" -> IF reader.kind = "overview" THEN FlowSeries(seen, zone, Asked, reader.g)
                         ELSE DailyTotals(seen, zone, Asked)
    [] part = "spend" -> Spend(seen, Asked)
    [] part = "candidates" -> Candidates(seen, Period(zone, reader.to, reader.to))

\* A function that also maps x to value.
With(f, x, value) == [y \in DOMAIN f \cup {x} |-> IF y = x THEN value ELSE f[y]]

\* One statement.
Read(part) ==
  /\ Busy /\ ~Answered
  /\ part \in PartsOf[reader.kind] \ DOMAIN reader.got /\ \A q \in Awaited(part) : Has(q)
  /\ reader' = [reader EXCEPT !.got = With(@, part, Value(books, part)),
                              !.seen = With(@, part, books)]
  /\ UNCHANGED <<zone, books>>

\* Mutant: whatever fits the page is answered.
TooMany_Never(total, lines) == FALSE

\* The lines that were read are not all there are.
TooMany(total, lines) == total > Cardinality(DOMAIN lines)

\* The n newest of some transactions, or all of them, the newest first.
Newest(set, n) ==
  [i \in 1..(IF n < Cardinality(set) THEN n ELSE Cardinality(set)) |->
     CHOOSE t \in set : Cardinality({u \in set : Earliest(t, u)}) = i - 1]

\* answerRecentTransactions
Recent ==
  LET lines == reader.got["lines"] IN
  IF reader.got["count"] = 0 THEN [answer |-> "none", list |-> <<>>]
  ELSE IF TooMany(reader.got["count"], lines) THEN [answer |-> "tooMany", list |-> <<>>]
  ELSE [answer |-> "list", list |-> Newest(DOMAIN lines, reader.limit)]

Found ==
  [rules |-> Anomalies(reader.got["flows"], reader.to),
   expenses |-> LargeExpenses(reader.got["candidates"], reader.got["flows"], reader.to)]

Reply ==
  /\ Busy /\ ~Answered /\ DOMAIN reader.got = PartsOf[reader.kind]
  /\ reader' = [reader EXCEPT !.reply = CASE reader.kind = "recent" -> Recent
                                          [] reader.kind = "detection" -> Found
                                          [] OTHER -> reader.got]
  /\ UNCHANGED <<zone, books>>

\* The answer is sent; or a statement fails, and the request with it.
Close ==
  /\ Busy
  /\ reader' = IdleReader
  /\ UNCHANGED <<zone, books>>

Parts == UNION {PartsOf[k] : k \in DOMAIN PartsOf}

ReadersNext ==
  \/ \E t \in Transactions : Commit(t)
  \/ AskStatement \/ AskRecent \/ AskOverview \/ AskDetection
  \/ \E part \in Parts : Read(part)
  \/ Reply \/ Close

ReadersSpec == ReadersInit /\ [][ReadersNext]_readVars

-----------------------------------------------------------------------------
(* Properties.                                                             *)

\* What a statement saw, without what was reversed and the reversals; and what the later
\* of two statements saw and the earlier did not.
Unreversed(seen) ==
  [t \in {t \in DOMAIN seen : seen[t] = "POSTED" /\ Reverses[t] = NONE} |-> "POSTED"]
Since(early, late) == Reported(late) \ Reported(early)

Sided(position, types) == SumFunctionOnSet(position, {a \in Accounts : TypeOf[a] \in types})

\* In a cash position, a reversal takes out what its original brought in, account by
\* account, and the balances add up whatever was posted and reversed (getCashPosition
\* counts REVERSED originals and their reversals alike).
PositionNetsOut ==
  Answered /\ reader.kind = "overview" =>
    LET position == reader.got["position"] IN
    /\ position = Position(Unreversed(reader.seen["position"]))
    /\ Sided(position, {"ASSET", "EXPENSE"}) = Sided(position, {"LIABILITY", "EQUITY", "REVENUE"})

\* Some books' movements in a period that other books lack.
Extra(seen, other, accounts, p) ==
  SumFunctionOnSet(Moves(accounts), {t \in Since(other, seen) : p.start <= At[t] /\ At[t] < p.end})

\* The figures of one overview agree with each other, although five statements computed
\* them along different dates, buckets and offsets while postings and reversals were
\* committed: they differ by what was committed between the statements and by nothing
\* else.  The cash position plus what was committed after it was read is the last cash
\* balance plus what occurred since the period; the buckets, which are cut to the
\* period, add up to the income statement, the breakdown to its expenses.  What occurred
\* before the first bucket begins is missing: nothing, unless the clock shows the first
\* midnight of the period twice (getOverview).
FiguresAgree ==
  Answered /\ reader.kind = "overview" =>
    LET got == reader.got
        seen == reader.seen
        first == Bucket(zone, reader.g, Trunc(reader.g, LocalDate(zone, Asked.start)))
        missed == [start |-> Asked.start, end |-> first.start]
        committed == Since(seen["position"], seen["cash"])
        later == {t \in Reported(seen["cash"]) : At[t] >= Asked.end}
        cash == MovedBefore(seen["cash"], Family("100"), Asked.end) IN
    /\ \A c \in DOMAIN got["cash"] : (\A d \in DOMAIN got["cash"] : d <= c) =>
         got["cash"][c].balance = cash - Moved(seen["cash"], Family("100"), missed)
    /\ NetCash(got["position"]) + SumFunctionOnSet(Moves(Family("100")), committed)
         = cash + SumFunctionOnSet(Moves(Family("100")), later)
    /\ SumFunctionOnSet(Revenues(got["flows"]), DOMAIN got["flows"])
         + Moved(seen["flows"], Family("400"), missed)
         + Extra(seen["income"], seen["flows"], Family("400"), Asked)
         = got["income"].revenue + Extra(seen["flows"], seen["income"], Family("400"), Asked)
    /\ SumFunctionOnSet(Expenses(got["flows"]), DOMAIN got["flows"])
         + Moved(seen["flows"], Family("500"), missed)
         + Extra(seen["income"], seen["flows"], Family("500"), Asked)
         = got["income"].expenses + Extra(seen["flows"], seen["income"], Family("500"), Asked)
    /\ SumFunctionOnSet(got["spend"], DOMAIN got["spend"])
         + Extra(seen["income"], seen["spend"], Family("500"), Asked)
         = got["income"].expenses + Extra(seen["spend"], seen["income"], Family("500"), Asked)
    /\ missed.start < missed.end => LocalTime(zone, missed.start) = LocalTime(zone, missed.end)

\* Transactions that the list is silent about although they are newer than all on it.
Unlisted(list, all) == {t \in all : \A i \in DOMAIN list : Earliest(list[i], t)}

\* A list of recent transactions holds as many as were asked for, or all that were read,
\* the newest first and without gaps, and is silent about the newest of all only when at
\* least as many were committed while it was made; none means that there were none, and
\* a refusal that there were too many, when they were counted.  The balances of a
\* statement carry on from whatever came before the period and the page, except for what
\* was committed between its opening and its lines with an earlier date
\* (answerRecentTransactions, getAccountStatement).
StatementsTrue ==
  Answered /\ reader.kind \in {"statement", "recent"} =>
    LET seen == reader.seen
        counted == Listed(seen["count"], reader.account, Asked)
        all == Listed(seen["lines"], reader.account, Asked)
        backdated == {t \in Since(seen["opening"], seen["lines"]) : At[t] < Asked.start} IN
    /\ reader.kind = "recent" /\ reader.reply.answer = "none" => counted = {}
    /\ reader.kind = "recent" /\ reader.reply.answer = "tooMany" => Cardinality(counted) > ReadLimit
    /\ reader.kind = "recent" /\ reader.reply.answer = "list" =>
         LET list == reader.reply.list
             unlisted == Unlisted(list, all) IN
         /\ Cardinality(unlisted) <= Cardinality(all \ counted)
         /\ Len(list) = (IF reader.limit < Cardinality(all \ unlisted)
                         THEN reader.limit ELSE Cardinality(all \ unlisted))
         /\ \A i \in DOMAIN list : list[i] \in all
         /\ \A i \in DOMAIN list, t \in all \ unlisted :
              Earliest(list[i], t) <=> \E j \in DOMAIN list : j < i /\ list[j] = t
    /\ reader.kind = "statement" => \A t \in DOMAIN reader.got["lines"] :
         reader.got["lines"][t].balance + SumFunctionOnSet(Moves({reader.account}), backdated)
           = MovedBefore(seen["lines"], {reader.account}, At[t])
             + SumFunctionOnSet(Moves({reader.account}),
                                {u \in Reported(seen["lines"]) : At[u] = At[t] /\ ~Earliest(t, u)})

\* The large expenses are compared with days before the one they are on.
InBaseline(t) ==
  \E c \in BucketCuts(zone, Asked, "day") :
    LET b == Clipped(Bucket(zone, "day", c), Asked) IN
    c < reader.to /\ b.start <= At[t] /\ At[t] < b.end

\* One detection does not contradict itself, whatever was committed between its two
\* reads: a spike excludes a drop and a gap; a large expense is not a reversal and is
\* no part of the baseline it exceeds, unless the clock skips or repeats the midnight
\* between them; and the large expenses are those of the books as they were when the
\* candidates were read, unless an expense of the days compared was committed between
\* the reads (detectAnomalies).
AnomaliesAgree ==
  Answered /\ reader.kind = "detection" =>
    LET seen == reader.seen
        compared == {t \in Since(seen["flows"], seen["candidates"]) :
                       Asked.start <= At[t] /\ At[t] < Asked.end} IN
    /\ "SALES_SPIKE" \in reader.reply.rules => reader.reply.rules = {"SALES_SPIKE"}
    /\ \A t \in reader.reply.expenses :
         /\ Reverses[t] = NONE
         /\ InBaseline(t) => DayStart(zone, reader.to) # FromLocal(zone, reader.to * Day)
    /\ (\A t \in compared : Delta(t, Family("500")) = 0) =>
         reader.reply.expenses
           = LargeExpenses(reader.got["candidates"],
                           DailyTotals(seen["candidates"], zone, Asked), reader.to)

\* What PHASE4_REPORTS_DESIGN.md:49 says: a period runs from 00:00:00 of its first date
\* to 00:00:00 of the day after its last, in the time zone supplied; so whatever it
\* counts has a local date of the range.
LocalDatesOnly ==
  Busy => \A t \in DOMAIN books :
            Asked.start <= At[t] /\ At[t] < Asked.end =>
              reader.from <= LocalDate(zone, At[t]) /\ LocalDate(zone, At[t]) <= reader.to

\* What PHASE6_ANALYTICS_DESIGN.md:84-86 says: the opening of a cash series is the sum
\* before the start of its first bucket, and the delta of a bucket is of the entries
\* that occurred from its start to its end.
WholeBuckets ==
  Answered /\ reader.kind = "overview" =>
    \A c \in DOMAIN reader.got["cash"] :
      reader.got["cash"][c].delta
        = Moved(reader.seen["cash"], Family("100"), Bucket(zone, reader.g, c))
=============================================================================
