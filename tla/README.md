# KasiCash in TLA+

A formal model of the KasiCash API (`src/`): a NestJS service on PostgreSQL that
keeps double-entry books for small businesses which write to it over WhatsApp.
A message becomes a *proposal*; a later message confirms it; the confirmation
posts a balanced transaction to an append-only ledger. What is checked and proved
here is that this holds together when webhooks are redelivered, processes crash,
messages are retried and requests race - and that what is read back from the
books agrees with what was posted.

Paths below are relative to the repository. `tlc` runs use the `.cfg` files of
this directory, proofs are checked with TLAPS (`tlapm`). `PROJECT.json` lists all
components, the hazards of the code at the lines where they bite, and the source
lines each definition stands for.

## 1. The system

| Component | State it keeps | Operations | Hard behaviour |
|---|---|---|---|
| Webhook intake (`src/ingestion`, controllers) | `webhook_deliveries` | receive, validate, record, store, settle, answer | a crash between recording and settling, identical bodies at once, messages that arrive in two bodies |
| Onboarding | `businesses`, `accounts` | `resolveOrCreateBusiness` | two first messages of one number |
| Inbound queue (`ingestion.service.ts`) | `inbound_messages` | store, hand off, claim, heartbeat, finalize, fail, reply | commit order against sequence order, stale owners, swallowed errors |
| Recovery (`recovery.service.ts`) | `running`, the batch in hand | a cycle every 30 s in every process | retries racing the first attempt, batches of 20 |
| Graceful shutdown (`src/observability/shutdown.service.ts`) | draining flag, work in flight, waiters | refuse, track, drain | lost wake-ups, the timeout against the last piece of work |
| Parsing and proposals (`src/parsing`) | `transaction_proposals` | propose, confirm, cancel | retry of a committed confirmation, a late owner, one transaction for proposal and post |
| Conversational queries | none | classify, resolve, validate, answer | texts that ask and record at once, results of a resolver that is not trusted |
| Ledger (`src/ledger`) | `transactions`, `entries` | `postTransaction`, `postTransactionWithManager`, `reverseTransaction` | requests racing for one idempotency key, two reversals of one original, originals read without a lock, lost commit acknowledgements |
| Database rules (`src/migrations`) | unique indexes, row and deferred triggers | fire at a statement or at COMMIT | they, not the lookups, decide the races; two COMMITs overlap |
| Upgrade (last migrations) | schema version, remediation records | preflight, gate, constraints; up and down | edits between migrations, a constraint the gate does not count |
| Sessions, accounts (`src/auth`) | `auth_principals`, `auth_sessions` | create account, login, guard, logout, expire, disable | an account disabled between a login's read and its insert |
| Rate limiter (`src/auth`) | `security_rate_limits`, a map in memory | count, clean up, refuse | window boundaries, the cap on keys, two limits in a row |
| Anomaly alerts (`src/anomaly`) | `anomaly_alerts` | detect, claim, begin, send, mark, reconcile | take-over after 15 minutes, uncertain delivery |
| Reports, analytics, dashboard | none (SQL reads) | aggregates and dates | reads in several statements, local days, signs, clock changes |

How they interact: the webhook controller passes the limiter and stores messages
through the intake; the queue calls onboarding, the query service or the parser;
the parser calls the ledger inside its own database transaction; the query
service, the dashboard and the anomaly detection read what they write; the
dashboard is behind the guard. There is no shared memory between processes: they
meet in PostgreSQL at READ COMMITTED, through unique indexes, row locks and
advisory locks.

What makes each of them correct:

* **Intake** - a body is settled once, as accepted only with all of its messages
  stored, and answered 200 only then; each message is handed over once; every
  signed body is settled in the end.
* **Onboarding** - a number has one business, seen only with its whole chart.
* **Queue** - a sender's messages are worked on in order, one at a time, each
  finished, replied to at most once, retried a bounded and exact number of times.
* **Shutdown** - a drain lasts exactly as long as there is work.
* **Proposals** - confirmed if and only if posted; replies are true; what a
  sender says takes effect in the order it was said.
* **Queries** - what asks is answered and never recorded, with figures of an
  account and a period that were asked for.
* **Ledger** - one transaction per key; a reversal pairs with its original; the
  books balance in every visible state; an answer describes the row it names; a
  call looks atomic from outside; every call is answered.
* **Database rules** - they alone keep the committed books, whoever writes.
* **Upgrade** - past the gate nothing fails for a row nobody edited; rows keep
  their meaning, and going down restores them.
* **Sessions** - nobody enters after logout, expiry or disabling.
* **Rate limiter** - at most twice the limit in any stretch of a window's length.
* **Anomaly alerts** - an alert is sent at most once, its record is true and
  stands, and a dispatch that has begun is resolved.
* **Reads** - figures computed along different paths agree; periods join.

## 2. Modules

| Module | Role |
|---|---|
| `Ledger`, `LedgerAbs`, `LedgerProofs`, `MCLedger` | the ledger methods against the database rules; what they promise; theorems; instances |
| `InboundQueue`, `InboundAbs`, `InboundProofs`, `MCInboundQueue` | the queue, recovery, shutdown and crashes; a line settled from its front; theorems; instances |
| `Proposals`, `Conversation`, `ProposalProofs`, `MCProposals` | composes parsing, the queue's claims and the ledger post for one sender; what the assistant promises; theorems; instances |
| `Delivery`, `IntakeAbs` | the intake of webhooks; what it promises WhatsApp |
| `Onboarding`, `Draining` | the creation of a business; the drain of a process |
| `Questions`, `NamedPeriods` | which texts are questions and what they are answered with; "last week", "this month" and the default of the dashboard |
| `IntakeProofs`, `MCIntake` | theorems about `Delivery`, `Onboarding`, `Draining` and `Questions`; instances of these and of `NamedPeriods` |
| `Access`, `RateLimiter` | accounts, logins, sessions; the limiter, in the database and in memory |
| `Schema`, `Upgrade` | the ledger tables under any statements; the last five migrations over old rows |
| `AccessProofs`, `SchemaProofs`, `MCAccess` | theorems about the first two; about the other two; instances of all four |
| `AlertDispatch` | dispatch of alerts and the reconciliation timer |
| `LocalDays`, `Figures`, `AnomalyRules`, `Readers` | dates and instants; one read of the books; the anomaly rules; requests made of several reads |
| `ReaderProofs`, `MCReaders` | theorems about `AlertDispatch`, `NamedPeriods` and `Readers`; instances of the first and the last |
| `FiniteSums` | lemmas about sums over finite sets, for `LedgerProofs` and `ReaderProofs` |

`MCIntake`, `MCAccess` and `MCReaders` hold components that share no variable and
do not call each other. Their variable `part` picks one of them in the initial
state, and the others stay as they begin, so a run explores the *sum* of their
state spaces and each property speaks of the behaviours of its own component.
`DeliveriesSettle` names that part explicitly, because elsewhere nothing is
delivered.

### Delivery

A value of `Requests` is one HTTP request in a process; `request[q].pc` is the next
statement of `ingestSignedWebhook` (`register`, `store`, `settle`, `answer`). A body
stands for its payload hash and is read through `BodyOf`: signed or not, too long or
not, JSON or not, and the items the validation meets in order. `Verdict` is that
validation; it comes after the delivery is recorded, as in the code. The bodies of the
run are quarantined for their schema only; a body that is too long or no JSON takes
the same path after the same `Verdict`, and is covered by the theorems, which are
about any bodies. Each of the three statements is one action that may fail
(`StatementFails`), take effect and look failed (`StatementLost`), or be the last
thing its process does (`Die`); the failures are answered 500. `acked` is what
WhatsApp knows, and a body is delivered until it is in there. `handed` counts the
calls of `processMessage`. Verifying a signature, the token of the developer endpoint
and the rate limit are refusals that change nothing and are left out.

### Onboarding and Draining

A value of `Resolvers` is one call of `resolveOrCreateBusiness` for `PhoneOf` it;
businesses are named after the call that creates them. The insert waits for an
uncommitted row of the same number and is refused by a committed one; the loser
refetches. The accounts stay with the call until it commits. `Draining` has one
action per stretch of code between two awaits, since a process runs on one
thread: the end of a piece of work resolves every waiter in the same action.

### Questions

A text is the *set* of the words and phrases in it that some pattern of the code
looks for. `IsQueryLike`, the heuristic resolver, the validation of any resolver's
result (`Valid`: exact keys, types, enumerations) and the answer are operators;
the actions follow `ConversationalQueryService`. Results of another resolver come
from `Provided`, well formed or not.

`QuestionsAnswered` has one exception, which is the code's: a resolver other than the
heuristic may say NOT_QUERY of a text that asks, and the text then goes on to
`parseAndPost`. A text like "spent r50 on stock today" both asks and records; it is
answered, and not recorded. What the heuristic's answers are about is stated as the
code decides it, by words and not by what was meant. Words for cash come before those
for sales, and these before words for spending; "make" and "profit" are no words for
sales here (`detectAccountHint`), so "how much did I make on stock" is answered with
what was spent on stock. Of two periods that a text names it is the one `detectPeriod`
looks for first - "last month, not today" is today - and the property says no more
than that it is one of them. Two more things the model shows and no run states:
`detectLimit` does not see a limit of four digits, so that "last 5000" gives the
default of five; and extra fields of a resolver's result, which
`PHASE5_CONVERSATIONAL_QUERIES_DESIGN.md:71` calls ignored, are refused
(`assertExactKeys`).

### Ledger

One value of `Calls` is one invocation of a method, and names the row it inserts
(ids are fresh uuids). `pc[c]` is the next statement of the call: `check`,
`find`, `key`, `reversed`, `insert`, `assemble`, `commit`, `catch`. `table` holds
the committed rows; `writes[c]` the row versions of the call's open database
transaction, which nobody else sees. `seen[c]` is the original as
`reverseTransaction` first read it, without a lock: the later statements use that
copy, stale or not.

A statement is one action. `Insert` is enabled while no *uncommitted* row of
another call clashes with it (PostgreSQL makes it wait) and no committed row does;
`InsertRefused` is the unique violation, on whichever index PostgreSQL reports;
the catch blocks then look the winner up. `CommitChecks` is the conjunction of
the deferred triggers: no committed POSTING, balanced with two entries at least,
REVERSED only with a posted reversal, a reversal only as the mirror of a REVERSED
original. Since triggers only ever refuse, they are conjuncts of `Publish`; what
happens when one refuses is `Fail`, which is also every other failing statement.
`CommitUnacknowledged` is a COMMIT that was applied and looks failed.

Two groups of statements are one action each, because nothing another call does
can come between them and matter: the entry inserts with the seal
(`AssemblePost`), and the same with the mark on the original
(`AssembleReversal`). They touch rows that only the open transaction sees, and
the row of the original, whose other writer `AssembleReversal` waits for.
Descriptions and dates are left out; a currency and a source type are in the form
their normalisation (trimmed, upper case) gives them. The foreign-key locks that
PostgreSQL takes on parent rows do not conflict with the updates made here (of
columns no key refers to) and are left out.

### Schema and Upgrade

`Ledger` sends the statements the service sends. `Schema` sends any INSERT, UPDATE
and DELETE: inserts of rows in any status, entries in any number, updates of any
column, deletion of rows and entries, accounts created, changed and deleted, from any
number of database sessions. (TRUNCATE is left out. It fires no row trigger, and
nothing in the schema refuses it.) No trigger keeps an account from being deleted, only
the foreign key of the entries that refer to it: an account without entries can be
deleted and come back under its id as one of another class, and `PostedStands` speaks
of the accounts that committed rows refer to. A DELETE waits for the lock that an
uncommitted entry holds on its account (`InUse`). What refuses the statements are the
constraints and row triggers, guards of the actions, and the deferred triggers, which
`Deferred` puts together. COMMIT is not atomic here: `BeginCommit` queues the triggers, `Check` runs one of them on what is committed
*by then*, `Publish` makes the session's rows visible. Two sessions may pass their
checks before either is visible, and the books must hold all the same.

`Upgrade` runs the last five migrations, each in its own transaction, up and down,
over rows in the spellings earlier releases allowed. Between two of them rows are
edited. `untouched` says that nothing was edited since the gate passed. An edit
of a cell that a later `down` would write back (the default currency of an
account, say) is overwritten by it; such cells are in `edited` and the property
does not speak of them.

### InboundQueue

`rows` is `inbound_messages`. `due` stands for the time condition that goes with
a status: RECEIVED past the grace minute, FAILED past its backoff, PROCESSING
past its lease; `Lapse` makes it true when time passes, `Stall` makes it true
under a live owner, `Heartbeat` takes it back. The storing transactions are in
`txn`: BEGIN fixes `received_at`, the advisory lock and INSERT draw
`ingest_sequence`, COMMIT shows the row. A run is one call of
`processMessageCore`; its slot serves as the claim token, which is as good as a
fresh uuid because a slot is reused only after its run has ended and a run that
ends by a crash leaves a row whose token matches nobody who would write under it
(a new run in the same slot holds another row or has claimed this one anew).

Onboarding, the query, parsing and posting are one step with two outcomes,
`Finalize` and `Record`; `Proposals` opens it. WHERE clauses with the claim token
are `Fenced`. `RecordLost` is the swallowed error of `recordFailure`,
`FinalizeUnacknowledged` an update that is applied and looks failed. `Crash`,
`BeginShutdown`, `Exit` and `Restart` are the life of a process. Every crash,
shutdown, stall and lost statement counts against `MaxFaults`.

`wa_from` and business are one to one, so the sender stands for both.

### Proposals

The queue is reduced to one sender's line, whose first unfinished message is the
only one that can be claimed. That is what `SenderOrder` and `SenderSerial` say,
both proved of `InboundQueue` for any number of messages. A second run enters only
through a crash or a stall, as there. The statements of
`parseAndPost` between the business's advisory lock and its COMMIT are one action
per branch (`StoreProposal`, `ConfirmPending`, `CancelPending`, `Unrecognized`),
since the lock keeps every other writer of the business's proposals out; lock,
statements, COMMIT, lost acknowledgement and rollback remain separate steps. The
ledger post is the membership of the proposal in `posted`, under its key
`proposal:<id>`: what a post does with a key is `Ledger`'s subject.

Texts are abstracted to the four kinds the code tells apart: a recognised sale or
expense, a confirmation, a cancellation, anything else. Which texts are which is
`Questions`.

### Access and RateLimiter

A value of `Visits` is one HTTP request: a login, whose read of the account, check
of the password and insert of the session are separate, or a request with a
token, which the guard checks once, at its start. Sessions are named after their
login, as tokens are random. The operator who disables and enables accounts is
outside the program and acts at any moment. `ended` are the sessions whose logout
was *answered*: `NoEntryAfterEnd` is about what a client may rely on.

`RateLimiter` has the upsert in the database, its periodic clean-up, and the map
in memory with its cap, which a process uses while its DataSource is not
initialized. A request passes the limits of its route one after another and stays
counted by the first when the second refuses it. `passed` is the log `TwicePerWindow`
speaks of: per store and key, the instants of the admissions, in order.

### AlertDispatch

A value of `Calls` is one `dispatchAlerts`, a value of `Alerts` one anomaly key of a
business; `rows` is `anomaly_alerts`. `started` says that `dispatch_started_at` is
set, `old` that the 15 minutes counted from it, or from `updated_at` before it is
set, are over (`Lapse`). A claim carries nothing but the row's id: a call whose
claim was taken over cannot know, and only the WHERE clause of
`beginAlertDispatch` (`Startable`) keeps it from sending. The send is two steps,
the request, which counts in `sends` and may be `accepted`, and what the call
learns of it: an acceptance, or an error that says nothing. Every statement may
throw with or without having taken effect (`BeginThrows`, `MarkSentThrows`, and the
update of `MarkUncertain`, whose failure is swallowed); a claim that throws leaves
the call, which is `Claim` or nothing followed by `Abort`.

`sends` and `accepted` count from the upgrade that added `dispatch_started_at`. Of
the rows written before it only FAILED ones (`Legacy`) still change; old SENT rows
are never touched, and old SENDING rows, whose alert an earlier release may have
sent, are outside the model.

### Figures, LocalDays, AnomalyRules, Readers, NamedPeriods

A date is a day number, an instant a number of ticks, a zone the offset of its clock
before and after one change. `DayStart` is `zonedDateTimeToUtc`, `FromLocal` is
PostgreSQL's `AT TIME ZONE`: two conversions in two languages, which must put the
bounds of a period and of its buckets at the same instants. `Figures` has one operator
per SQL statement, over the transactions committed when it runs; its sums, lines and
series are functions, of transactions, accounts or the first days of buckets, added up
by `SumFunctionOnSet`. `Readers` runs the requests that consist of several (the
overview of the dashboard, a page of an account statement, recent transactions, the
detection of anomalies) while postings and reversals are committed between them.
`reader.got` is what each statement returned, `reader.seen` the books it saw, which
only the properties read. Nothing is assumed of them: the properties hold whatever is
committed between the statements, and say what that can make of an answer. Each
request is a kind of its own, also where the code nests them. A monthly series has the
mechanism of the weekly one, with other cuts. `NamedPeriods` counts days through a row
of months, given by the first day of the first and their lengths, and asks its
question on each day in turn.

## 3. What the runs show

| Run | Instance | Properties |
|---|---|---|
| `ledger` | 3 calls, 2 businesses, 2 keys, 2 payload hashes, `MaxAmount` 2, invalid and foreign requests among the valid, with fairness | `TypeOK`, `KeyUnique`, `ReversalPaired`, `BooksInForce`, `AnswerTruthful`, `Linearizable`, `EveryCallAnswered` |
| `ledger_keys` | 2 internal posts (violation) | `PayloadMatches` |
| `inbound_order` | 2 messages of a sender, 2 runs, 2 attempts, 1 fault, with fairness | `SenderOrder`, `SenderSerial`, `FifoPerSender`, `EventuallyTerminal` |
| `inbound_faults` | 1 message, 2 deliveries, 2 processes, 2 runs, 3 attempts, 2 faults | `TypeOK`, `SingleReply`, `AttemptsExact` |
| `inbound_dead` | 1 message, 2 attempts (violation) | `DeadLetterReplayable` |
| `proposals` | 3 messages of any kind, 2 runs, 2 attempts, 2 faults of which 1 may be a stall | `TypeOK`, `ConfirmedIffPosted`, `RepliesTruthful`, `InConversationOrder` |
| `proposals_stall` | 2 messages, 1 stall (violation) | `ConfirmedLater` |
| `intake` | 2 requests in 2 processes, 4 bodies, 3 messages, 2 faults, with fairness; 3 calls for 2 numbers, 2 failed statements; 3 works, 2 drains; every text of up to 3 of 27 words, 8 foreign results; the days from December 2023 to March 2025 | `HandedOnce`, `IntakePromise`, `DeliveriesSettle`; `OneWholeBusiness`, `AnswersAgree`; `DrainsMatchWork`; `QuestionsAnswered`; `PeriodsJoin` |
| `access` | 2 visits, 3 commands for 1 email, `TTL` 1, 3 instants; 2 calls, 2 limits in a row, 4 arrivals, a window of 2; 2 database sessions, 3 rows, 2 accounts which may be deleted and come back as another's, lists of 1 or 2 entries; 1 transaction and 2 proposals in 768 combinations of spellings and states, 2 edits | `NoEntryAfterEnd`; `TwicePerWindow`; `CommittedBooks`, `PostedStands`; `UpgradePreserves` |
| `reads` | 2 calls, a new alert and a legacy one; 4 transactions, 3 accounts, 4 zones, 4 ranges, days and weeks | `TypeOK`, `AtMostOneSend`, `SentMeansAccepted`, `OutcomeStands`, `DispatchResolved`; `PositionNetsOut`, `FiguresAgree`, `StatementsTrue`, `AnomaliesAgree` |
| `reads_buckets` | the readers of `reads` (violation) | `WholeBuckets` |
| `reads_clocks` | the readers of `reads` (violation) | `LocalDatesOnly` |

Why the bounds are enough. *Ledger*: a race needs two calls, and a third gives a
reversal something to reverse while two race for it; two keys separate "same
key" from "same original"; two hashes separate a retry from a drift; an amount
of `MaxAmount + 1` is the boundary. *Queue*: order is a property of two messages;
a repeated delivery meets its row in `inbound_faults`, and for two messages the
theorems allow any number of deliveries; two runs are an owner and
the one that takes over; two faults allow a stall with a crash, or a lost update
with a shutdown. *Proposals*: propose, propose again and confirm, with the
confirmation retried, takes three messages and two attempts. *Intake*: two
requests meet on one body and on one message of two bodies; one body is valid, one
repeats a message with other content, one is not of the schema after a message
that is; two faults are a death and a lost answer. *Onboarding*: two calls race
and a third shows that numbers are apart. *Draining*: a signal and the shutdown
hook drain at once, and the work that ends last is not the one that began last.
*Named periods*: the days cross two ends of a year and a leap day.
*Access*: two sessions, a logout of one by both; one instant inside and one
past the lifetime. *Limiter*: a window of two instants in three, so that a
stretch of its length spans two windows. *Schema*: an original and two rivals to
reverse it, in two sessions; two entries are the least that balance, two amounts
the least that do not mirror. *Upgrade*: one row per table, and a second proposal
for the same transaction. *Reads*: a day before, on and after the change of the
clock; a page shorter than the list. *Alerts*: a claim and its take-over are two
calls, a call that works on two alerts meets both ways a row can start; nothing
else is bounded.

`MCAccess` declares the rival rows `t2`, `t3` and the sessions `b1`, `b2`
symmetric. That is sound here: no definition tells them apart, and the run checks
no liveness property.

Every run says `CHECK_DEADLOCK FALSE`: a system whose bounded inputs have all
arrived and been served has nothing left to do.

Type invariants: `TypeOK` of `Ledger`, `InboundQueue`, `Proposals` and
`AlertDispatch` carries the shape of their tables and is run and proved;
`DeliveryTypes`, `AccessTypes`, `LimiterTypes`, `OnboardingTypes` and
`DrainingTypes` are proved, by name or within the invariant the theorems rest on,
and no run spends time on them. `OneAccountPerEmail` is proved, too.

**Refinement.** `Linearizable` (`Ledger` implements `LedgerAbs`), `FifoPerSender`
(`InboundQueue` implements `InboundAbs`), `InConversationOrder` (`Proposals`
implements `Conversation`) and `IntakePromise` (`Delivery` implements `IntakeAbs`)
are checked as properties and proved. The ledger maps state for state and hides
`writes`, `pc`, `seen` and `fault`. The queue maps a stored message to the messages of
its sender that are ahead of it, those with a lower `ingest_sequence`, and hides
claims, leases and attempts. The conversation keeps what was said, proposed, confirmed
and cancelled, and hides transactions and runs. The intake maps a delivery row to its
outcome and hides the handlers.

**Five disagreements** between the code and what its texts say, each a run that
TLC must find violated:

1. `DeadLetterReplayable`: a DEAD message has no business id - only the update to
   PROCESSED sets it - so the runbook's requeue (`RUNBOOK.md:78-88`), which
   filters by it, and the dead-letter listing never find it.
2. `PayloadMatches`: internal posts have no payload hash, so a reused key answers
   with a transaction of other entries, where the comment at
   `ledger.service.ts:395` speaks of matching payloads.
3. `ConfirmedLater`: parsing is not fenced by the claim token, so an owner that
   outlives its lease may confirm a proposal made *after* its confirmation, where
   `1700000007000-TransactionProposals.ts:5` promises a *later* confirmation.
4. `LocalDatesOnly`: where the clock skips a local midnight west of Greenwich
   (Santiago, Asuncion), a period begins at 23:00 of the day before, where
   `PHASE4_REPORTS_DESIGN.md:49` says 00:00 of the first day.
5. `WholeBuckets`: buckets of a cash series are cut to the range that was asked for
   and its opening is the sum before the range (`analytics.service.ts:291`, `:302-303`),
   where `PHASE6_ANALYTICS_DESIGN.md:84-86` sums before the first bucket and over whole
   buckets. The two differ for a week that begins before the range or ends after it.

For the third reason `InConversationOrder` and `RepliesTruthful` say what they say
until an owner outlives its lease (`stalls`), crashes included. `ConfirmedIffPosted`
needs no such condition. The fifth is why `FiguresAgree` speaks of buckets as they are
cut, which add up to the income statement of the range. A relative of the fourth is in
`FiguresAgree` itself: where the clock shows the first midnight of a period twice,
west of Greenwich (Havana), the period begins with the first and the first bucket with
the second, and what occurred in between is in the income statement and in no bucket
(`missed`).

## 4. Fairness

* `Ledger`: weak fairness of each call's next statement. A call that has started
  keeps running; `Fail` and lost acknowledgements are allowed, never required,
  and so are arrivals. `Step` is enabled at every statement of every call unless
  it waits for a row, so the property is about those waits.
* `InboundQueue`: weak fairness of a run's next step (outbound calls have
  timeouts, database statements end), of time (`Lapse`), of the scheduled
  hand-off, of the recovery timer and its loop, of the end of a drain and of the
  restart of a process. Nothing is assumed of arrivals, redeliveries, stalls,
  heartbeats or faults, which are finite by `MaxFaults`.
* `Delivery`: weak fairness of each handler's next statement, and of the delivery
  of each signed body that was not acknowledged, which is WhatsApp's promise to
  send it again. Faults are finite by `MaxIntakeFaults`.
* `AlertDispatch`: weak fairness of time (`Lapse`) and of the reconciliation, which
  every process runs at its start and then at an interval. Nothing is assumed of
  the calls: each may stop for ever at any step, and `DispatchResolved` still holds.
* The other modules have safety properties only, and no fairness.

`EventuallyTerminal` needs `Connections <= BatchSize`: no more storing
transactions open at once than a recovery batch holds. `received_at` is the BEGIN
time and `ingest_sequence` is drawn later, so transactions open together may get
them in opposite orders; a batch full of rows that a newer-looking row blocks
would be picked for ever. The deployment has a pool of 10 per process and a batch
of 20; with three or more instances the assumption is no longer implied by these
numbers. With `Connections > BatchSize` TLC finds the property violated. It also
needs crashes to be finite: a message that kills every process that claims it is
claimed for ever, since only recorded failures count as attempts.

## 5. What is proved

For all values of the constants, under the named assumptions of each module:

| Theorem | Says |
|---|---|
| `LedgerProofs`: `TypeCorrect`, `OneTransactionPerKey`, `ReversalsArePaired`, `AnswersAreTruthful`, `BooksBalance` | `Spec => []` of `TypeOK`, `KeyUnique`, `ReversalPaired`, `AnswerTruthful`, `BooksInForce` |
| `LedgerProofs`: `LedgerIsAtomic` | `Spec => Linearizable`, the refinement of `LedgerAbs` |
| `InboundProofs`: `TypeCorrect`, `MessagesInOrder`, `OneClaimPerSender`, `OneReply`, `AttemptsCountFailures` | `Spec => []` of `TypeOK`, `SenderOrder`, `SenderSerial`, `SingleReply`, `AttemptsExact` |
| `InboundProofs`: `QueueIsFifo` | `Spec => FifoPerSender`, the refinement of `InboundAbs` |
| `ProposalProofs`: `TypeCorrect`, `ConfirmationIsPosting` | `Spec => []` of `TypeOK`, `ConfirmedIffPosted`, stalls included |
| `ProposalProofs`: `TurnsInvariant`, `ConfirmedLaterUnlessStalled` | `Spec => [](stalls = 0 => ...)` of `SInv`, `ConfirmedLater` |
| `ProposalProofs`: `RepliesAreTrue` | `Spec => []RepliesTruthful`, which begins `stalls = 0 =>` |
| `ProposalProofs`: `ConversationInOrder`, `ConversationImplemented` | `Spec => InConversationOrder`, step by step until a stall; `Spec /\ [](stalls = 0) => Chat!Spec`, the refinement of `Conversation` |
| `IntakeProofs`: `HandoffTheorem`, `DeliveryTypesTheorem` | `IntakeSpec => []` of `HandedOnce`, `DeliveryTypes` |
| `IntakeProofs`: `PromiseTheorem` | `IntakeSpec => IntakePromise`, the refinement of `IntakeAbs` |
| `IntakeProofs`: `OnboardingTheorem`, `AnswersTheorem` | `OnboardingSpec => []` of `OneWholeBusiness`, `AnswersAgree` |
| `IntakeProofs`: `DrainTheorem` | `DrainingSpec => []DrainsMatchWork` |
| `IntakeProofs`: `QuestionsAreAnswered` | `QuestionSpec => []QuestionsAnswered` |
| `AccessProofs`: `AccessTypesTheorem`, `OneAccountTheorem` | `AccessSpec => []` of `AccessTypes`, `OneAccountPerEmail` |
| `AccessProofs`: `EntryTheorem` | `AccessSpec => NoEntryAfterEnd`, an action property |
| `AccessProofs`: `LimiterInvariant`, `LimitsHold`, `LimiterTypesHold` | `LimiterSpec => []` of `LimiterInv`, `TwicePerWindow`, `LimiterTypes` |
| `SchemaProofs`: `CommittedBooksTheorem` | `SchemaSpec => []CommittedBooks` |
| `SchemaProofs`: `PostedStandsTheorem` | `SchemaSpec => PostedStands`, an action property |
| `SchemaProofs`: `UpgradeInvariant`, `UpgradeIsPreserving` | `UpgradeSpec => []` of `UpgradeInv`, `UpgradePreserves` |
| `ReaderProofs`: `TypeCorrect`, `OneSendPerAlert`, `SentIsAccepted` | `Spec => []` of `TypeOK`, `AtMostOneSend`, `SentMeansAccepted` |
| `ReaderProofs`: `OutcomesStand` | `Spec => OutcomeStands`, an action property |
| `ReaderProofs`: `NamedPeriodsJoin` | `CalendarSpec => []PeriodsJoin` |
| `ReaderProofs`: `ReadersInvariant`, `PositionsNetOut`, `FiguresOfOverviewsAgree`, `StatementsAreTrue`, `DetectionsAgree` | `ReadersSpec => []` of `ReaderInv`, `PositionNetsOut`, `FiguresAgree`, `StatementsTrue`, `AnomaliesAgree` |

Each follows from an inductive invariant, `IInv` where no other is named. None of
the properties is inductive alone:

* `Ledger!IInv` adds what a call in flight holds (`CallState`, `OpenWrites`), that
  its copy of the original differs from the committed row in the status at most
  (`OriginalKnown`), and that a row in flight clashes with nothing committed or in
  flight (`InFlightUnique`). This is where the wait on the index enters: without
  it two rows in flight could share a key and `KeyUnique` fail at the second
  COMMIT. `ReversalPaired` needs `OriginalKnown`, as the mirrored entries come
  from the copy. `BooksInForce` rests on these and on sums: `Booked` says that a
  committed transaction is balanced in accounts of its own business; a pair of a
  reversal and its original then adds nothing to any account, so the sum over the
  ledger is the sum over the transactions in force, and the sum over the accounts of
  a business may be taken transaction by transaction.
* `InboundQueue!IInv` adds `Numbered`: a number drawn and not committed is the
  last of its sender, and no two storing transactions of a sender hold one - the
  advisory lock. Otherwise a COMMIT could put a row before one already claimed.
  `Holding` says that an owner's copy of `attempts` is current while it is fenced,
  and that a run about to reply is alone in that. For `FifoPerSender` the heart is the
  COMMIT of a storing transaction: since it holds the last number of its sender,
  those ahead of its message are all of that sender's messages stored so far.
* `Proposals!IInv` adds the exclusion by the business lock (`OneTransaction`),
  what an open transaction holds (`OpenWrites`), and that a fenced run works on an
  unfinished message (`Claimed`). `SInv` holds besides while no owner has outlived its
  lease (`stalls = 0`): one run is busy at most (`Sole`), with the first unfinished
  message (`InTurn`); nothing has been done for a later message than that one
  (`Ordered`); proposals come from descriptions and are confirmed by later
  confirmations (`Rooted`); an open transaction holds what its message asks, or nothing
  (`Effect`); and an answer on its way or given is true (`Answers`, `Told`). With a
  stall it fails, which is disagreement 3, so the hypothesis is not for convenience;
  crashes, retries and lost acknowledgements are all allowed.
* `AlertDispatch!IInv` adds `OneSender`: of the calls between begin and mark, one at
  most works on an alert, its row is started, before the request nothing was sent
  and at the mark the alert is accepted. A row that is not started therefore has no
  sender, so the call that begins is the first.
* `IntakeProofs!IInv`, of `Delivery`, adds `Reached`, what a handler has achieved
  when it comes to a statement: at `store` the body is recorded and valid and all
  messages before the current one are stored, at `settle` all of them are, and
  before a 200 the row is settled; and `Tables`, that a row is untouched since its
  upsert or settled. The refinement then has a step of `IntakeAbs`, or none, for
  every statement.
* `IntakeProofs!OInv`, of `Onboarding`, adds that a call holds no more codes than it
  inserted, all of them when it commits, and that two calls of one number do not
  both hold an uncommitted business - the wait on the index. `DInv`, of `Draining`,
  adds that the counter is the cardinality of the set of running works, which is
  what makes "the last one out" true. `QInv`, of `Questions`, adds what is known at
  each statement of the text and of the resolver's result, foreign or the code's
  own.
* `AccessProofs!IInv` adds `Standing`, what each kind of visit has behind it, that a
  session ends `TTL` after it was created, and that every session in `ended` is
  revoked.
* `LimiterInv` relates a table of windows to the log (`Accounted`). A window that
  still runs has counted its own admissions; those it does not account for came a
  window's length before its end, that is before it began, and all of these but the
  last `Limit` two lengths before its end. Without a running window all but the last
  `Limit` admissions are a length ago. This survives the sweep, which removes only
  windows that ended, and it is what `TwicePerWindow` needs at the next admission.
* `SchemaProofs!IInv` adds that a row has one writer (`OneWriter`), that a session's
  version of a committed row changes nothing but the status (`Versions`), that a row
  has one reverser, committed or not (`OneReverser`), that a reversal aims at no
  reversal (`Aims`), and `Checked`: what a deferred trigger has found of a row still
  holds when the session publishes. The last is the heart of it. The triggers look
  at other rows, which other sessions may publish in between; the lemma
  `ChecksAgree` shows that whatever the others can still do to those rows leaves the
  verdict as it was, because they are frozen and only ever become REVERSED. `Tenants`
  says that the accounts of every version in flight exist in its tenant; it survives
  the DELETE of an account because that waits (`InUse`), and it is why the accounts of
  a committed row stay.
* `UpgradeInv` says that a cell nobody edited is as the preflight found it, or left it
  when it is applied; that the old values on record are exactly those of the cells the
  preflight changed, edited or not; and that from the gate until the next edit the
  constraints of all three migrations after it hold.
* `ReaderInv` says that the books hold one reversal of each REVERSED row, now and as
  each statement saw them; that a request's dates can be asked; that what a statement
  returned is what the books it saw say (`Value`); and that each statement saw at least
  what the ones it awaited saw. The properties then compare sums over books of which one
  contains the other (`MovedSince`), or, for statements sent side by side, neither
  (`MovedBetween`).

What the figures mean is proved of the operators, for any transactions, amounts and
zones. `PositionNetsOut`: `DeltaBalances`, a transaction moves the same on both
sides. `FiguresAgree`: `BucketsPartition`, the buckets of a period are disjoint and
cover it from the first cut on, because local midnights come in order
(`MidnightsInOrder`), and `MissedIsRepeated`, what lies before that cut is a
midnight the clock shows twice. `StatementsTrue`: `Ranks`, a newest-first list is a
numbering, and `PageIsListed`, what a full page is silent about is newer than all on
it. `AnomaliesAgree`: `SpikeExcludes`, the thresholds of a spike rule out those of a
drop and of a gap, and `SameExpenses`, days are compared alike if no expense on them
came between the reads. `PeriodsJoin`: `MonthsFollow` and `MonthsGrow`, months
begin where the one before them ends, so a day is in exactly one.

The proofs have one step per action. Facts that are used in several places (entry
lists and their mirror images, bodies and their validation, views and versions) are
lemmas. `FiniteSums` has the laws of `SumFunctionOnSet` the books need: one element
more, two functions added, a sign changed, a disjoint union, indices renamed, a sum
taken class by class. The library's induction theorems take an operator as a parameter,
which the provers cannot instantiate; the laws are proved from the recursive
definition by taking a counterexample of least cardinality among the subsets of a
finite set.

What TLC refutes (section 3) has no theorem. Only model-checked are the liveness
properties `EveryCallAnswered`, `EventuallyTerminal`, `DeliveriesSettle` and
`DispatchResolved`: they need `ENABLED` of large actions under weak fairness, which is
outside the prover's reach. All invariants and action properties and all four
refinements that the passing runs check are proved.

## 6. Assumptions about what is not in the repository

* PostgreSQL at READ COMMITTED: a statement is atomic and sees what is committed
  when it begins; an INSERT that meets an uncommitted conflicting key, or an UPDATE
  that meets a locked row, waits; deferred triggers run at COMMIT, one after another,
  before the rows become visible; a lost connection rolls back or, if COMMIT was
  already applied, does not.
* PostgreSQL's `AT TIME ZONE` reads a local time that occurs twice as the later
  instant and one that is skipped with the offset before the change; `date_trunc`
  of a week begins on Monday.
* A raw `UPDATE ... RETURNING` through TypeORM returns the updated rows, as
  `claimMessage` and `beginAlertDispatch` use it; TypeORM runs each migration in a
  transaction, as `migrate.ts` asks for.
* Clocks of the application and of the database agree well enough that a lease is
  not seen as expired by one while its owner renews it; where they do not, it is a
  `Stall`. `Access` and `RateLimiter` have one clock each.
* WhatsApp sends a body again, byte for byte, until it is answered 200.

The constants' assumptions, by name, say the rest:

* `ZoneAssumption`: a zone's clock changes by less than a day, so that no date is
  skipped or repeated as a whole (Samoa skipped one in 2011). `ReaderAssumption`:
  buckets are cut before and after every date that is asked for.
* `CalendarAssumption`: months have 28 to 31 days, they include the one before any
  day asked about, and the widest period accepted is no narrower than a month.
* `AccountAssumption` (`Ledger`, `Figures`): the accounts are finitely many.
  `BalanceAssumption`: what is posted balances, which `enforce_balanced_transaction`
  sees to (`CommittedBooks` of `Schema`).
* `ThresholdAssumption`: a spike's multiple exceeds a drop's fraction, as 2 and one
  half do (`anomaly.rules.ts:47-48`).
* `TypeAssumption`: account 500 is an expense account where it exists, as onboarding
  seeds it. `UpgradeAssumption`: respelling ends, what a spelling becomes is not
  respelled again. `LimiterAssumption`: limits and windows are positive and the
  database is not one of the processes.

## 7. Not modelled

* **Public site and design system, HTML of the dashboard and of the login**: text and
  layout; they hold no state.
* **Observability**: counters, logs and health reads, which change no business
  state. Its dead-letter listing enters disagreement 1.
* **WhatsApp client**: the HTTP request it builds. Its four outcomes are steps of
  `AlertDispatch` and `InboundQueue`.
* **Configuration, bootstrap, currency table**: read once at the start; a rolling
  change of `KASICASH_WEBHOOK_MAX_RAW_BYTES`, under which one body could be judged in
  two ways, is outside the model.
* **Migrations before the last five**: they create and alter tables; what they leave
  behind are the guards of `Schema`, `Ledger`, `InboundQueue` and `Proposals`.
* **Formatting and parsing of numbers**: amounts are numbers, and the words of a
  message, the layout of a reply and percentages of a trend are left out; so are
  months as a granularity of series.
* **The second connection of a catch block** (`ledger.service.ts:73`, `:272`, `:287`):
  it is taken from the pool while the first is still held, so that a pool whose
  connections all wait for another would starve. `EveryCallAnswered` is about waits for
  rows, not for connections.
* **TRUNCATE, and a superuser** who disables triggers.
* **Password hashing, signatures, random tokens**: abstracted to their outcome.

Hazards without a property, with the reason, are in `PROJECT.json`: a cancellation
retried after a lost acknowledgement, which the code keeps no trace of; a message
that kills every process that claims it; and a step that never returns while its
heartbeat goes on.
