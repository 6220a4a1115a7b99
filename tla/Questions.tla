----------------------------- MODULE Questions ------------------------------
(***************************************************************************)
(* What becomes of the text of a claimed message: a question is resolved,  *)
(* validated and answered from the reports (ConversationalQueryService and *)
(* its resolver), anything else is handed to parseAndPost, which tells     *)
(* confirmations, cancellations, sales and expenses apart.                 *)
(*                                                                         *)
(* A text is the set of the words and phrases in it that some pattern of   *)
(* the code looks for; "show" stands for a question word at its beginning. *)
(* A resolver's result is a record, whose fields are the keys it has.      *)
(***************************************************************************)
EXTENDS Integers, FiniteSets, SequencesExt

CONSTANTS
  Texts,      \* sets of words
  Provided,   \* results of a resolver other than the heuristic one, well formed or not
  TypeOf,     \* types of the business's accounts, by code
  MALFORMED   \* a field of another type, empty or over its maximal length

\* The chart that Onboarding, which alone writes accounts, gives a business; no code is an
\* alias of an account (accountAliases).
ASSUME TypeAssumption ==
  /\ DOMAIN TypeOf \cap {"cash", "balance", "sales", "expenses", "stock"} = {}
  /\ \A c \in DOMAIN TypeOf : TypeOf[c] \in {"ASSET", "REVENUE", "EXPENSE"}
  /\ "100" \in DOMAIN TypeOf => TypeOf["100"] = "ASSET"
  /\ "400" \in DOMAIN TypeOf => TypeOf["400"] = "REVENUE"
  /\ "500" \in DOMAIN TypeOf => TypeOf["500"] = "EXPENSE"

VARIABLES
  text,    \* the message
  pc,      \* resolve, answer, report, replied or parse
  asked,   \* the result being answered, and whether the heuristic gave it
  reply    \* what the reply states, or what parseAndPost takes the text for

questionVars == <<text, pc, asked, reply>>

NOTHING == [kind |-> "nothing"]

Has(t, words) == t \cap words # {}

\* A record with one more field.
Plus(r, field, value) ==
  [f \in DOMAIN r \cup {field} |-> IF f = field THEN value ELSE r[f]]

\* The names of periods, in the order in which they are looked for.
PeriodNames == <<"yesterday", "today", "last week", "this week", "last month", "this month">>

\* "last 5000" asks for recent transactions, but has too many digits for a limit.
Limits == [w \in {"last 5", "last 0", "last 900"} |->
             CASE w = "last 5" -> 5 [] w = "last 0" -> 0 [] w = "last 900" -> 900]

Recent == {"recent", "last 5000"} \cup DOMAIN Limits
Cash == {"cash", "balance"}
Sales == {"sale", "sales", "income", "earned", "made"}
Spend == {"spend", "spent", "expenses", "expense", "stock"}
Income == {"make", "made", "earn", "earned", "income", "sales", "profit"}
Unsafe == {"ignore", "tenant"}

-----------------------------------------------------------------------------
(* Classifying and resolving a text.                                       *)

IsQueryLike(t) ==
  \/ Has(t, {"?", "show", "how much", "balance"} \cup Recent)
  \/ /\ Has(t, ToSet(PeriodNames))
     /\ Has(t, (Income \cup Spend) \ {"profit", "expense"})
  \/ /\ Has(t, Unsafe)
     /\ Has(t, {"cash", "sales", "income", "expenses", "stock", "balance", "tenant", "business"})

DetectAccountHint(t) ==
  IF Has(t, Cash) THEN {"cash"}
  ELSE IF Has(t, Sales) THEN {"sales"}
  ELSE IF Has(t, Spend) THEN {"expenses"} ELSE {}

\* The first value, or a default.
Or(values, default) == IF values = {} THEN default ELSE CHOOSE v \in values : TRUE

DetectPeriod(t) ==
  LET named == {i \in DOMAIN PeriodNames : PeriodNames[i] \in t} IN
  IF named = {} THEN "this month" ELSE PeriodNames[CHOOSE i \in named : \A j \in named : i <= j]

\* A text with two limits is read from its beginning; here either may be first.
DetectLimit(t) == {Limits[w] : w \in t \cap DOMAIN Limits}

\* resolveHeuristic: what it may make of a text.
ResolveHeuristic(t) ==
  LET hint(default) == Or(DetectAccountHint(t), default)
      period == DetectPeriod(t)
      limits == DetectLimit(t) IN
  IF t = {} THEN {[kind |-> "NOT_QUERY"]}
  ELSE IF Has(t, Unsafe) THEN {[kind |-> "OUT_OF_SCOPE", reason |-> "UNSAFE_INSTRUCTIONS"]}
  ELSE IF Has(t, Recent)
  THEN LET recent == [kind |-> "RECENT_TRANSACTIONS", accountHint |-> hint("sales"), period |-> period] IN
       IF limits = {} THEN {recent} ELSE {Plus(recent, "limit", n) : n \in limits}
  ELSE IF Has(t, Cash) THEN {[kind |-> "CASH_BALANCE"]}
  ELSE IF Has(t, Spend)
  THEN {[kind |-> "ACCOUNT_SPEND", accountHint |-> hint("expenses"), period |-> period]}
  ELSE IF Has(t, Income) THEN {[kind |-> "INCOME_STATEMENT", period |-> period]}
  ELSE IF IsQueryLike(t) THEN {[kind |-> "CLARIFY", reason |-> "QUERY_TYPE"]}
  ELSE {[kind |-> "NOT_QUERY"]}

\* Per kind of result, the fields it may have.
FieldsOf ==
  [NOT_QUERY |-> {}, CLARIFY |-> {"reason"}, OUT_OF_SCOPE |-> {"reason"},
   CASH_BALANCE |-> {"currency"}, INCOME_STATEMENT |-> {"period", "currency"},
   ACCOUNT_SPEND |-> {"accountHint", "period", "currency"},
   RECENT_TRANSACTIONS |-> {"accountHint", "limit", "period", "currency"}]

ReasonsOf == [CLARIFY |-> {"QUERY_TYPE", "PERIOD", "ACCOUNT"},
              OUT_OF_SCOPE |-> {"UNSUPPORTED", "UNSAFE_INSTRUCTIONS"}]

\* validateResolvedConversationalQuery.  "range" and "backwards" are two local dates.
Valid(r) ==
  LET has(field) == field \in DOMAIN r IN
  /\ has("kind") /\ r.kind \in DOMAIN FieldsOf
  /\ DOMAIN r \subseteq FieldsOf[r.kind] \cup {"kind"}
  /\ r.kind \in DOMAIN ReasonsOf => has("reason") /\ r.reason \in ReasonsOf[r.kind]
  /\ r.kind \in {"INCOME_STATEMENT", "ACCOUNT_SPEND"} => has("period")
  /\ has("period") => r.period \in ToSet(PeriodNames) \cup {"range", "backwards"}
  /\ \A field \in {"accountHint", "currency", "limit"} : has(field) => r[field] # MALFORMED

-----------------------------------------------------------------------------
(* Answering.                                                              *)

\* resolveAllowedAccount, by the aliases of the accounts of this business.
AliasesOf == [cash |-> "100", balance |-> "100", sales |-> "400", expenses |-> "500", stock |-> "500"]

AccountsFor(hint) ==
  {c \in DOMAIN TypeOf : hint = c \/ (hint \in DOMAIN AliasesOf /\ AliasesOf[hint] = c)}

Field(r, field, default) == IF field \in DOMAIN r THEN r[field] ELSE default

\* validateRecentLimit.
LimitOf(r) == Field(r, "limit", 5)
LimitAllowed(n) == n \in 1..5

\* Mutant: any account of the business will do.
IsExpense_Any(c) == TRUE

\* What a spending question may be about.
IsExpense(c) == TypeOf[c] = "EXPENSE" \/ c = "500"

\* validateCurrency and resolvePeriod, which throw.
Reportable(r) ==
  /\ Field(r, "currency", "ZAR") = "ZAR"
  /\ Field(r, "period", "this month") # "backwards"

\* What answerProposal replies, if no read fails.
AnswerOf(r) ==
  CASE r.kind \in {"CLARIFY", "OUT_OF_SCOPE"} -> NOTHING
    [] r.kind = "CASH_BALANCE" -> [kind |-> "cash"]
    [] r.kind = "INCOME_STATEMENT" -> [kind |-> "income", period |-> r.period]
    [] r.kind = "ACCOUNT_SPEND" ->
         LET found == AccountsFor(Field(r, "accountHint", "expenses")) IN
         IF \E c \in found : IsExpense(c)
         THEN [kind |-> "spend", account |-> CHOOSE c \in found : IsExpense(c), period |-> r.period]
         ELSE NOTHING
    [] r.kind = "RECENT_TRANSACTIONS" ->
         LET found == AccountsFor(Field(r, "accountHint", "sales")) IN
         IF LimitAllowed(LimitOf(r)) /\ found # {}
         THEN [kind |-> "recent", account |-> CHOOSE c \in found : TRUE, lines |-> LimitOf(r),
               period |-> Field(r, "period", "this month")]
         ELSE NOTHING

\* What parseAndPost takes a text for.
Amount == {"r50", "50 rand"}
Sale(t) == Has(t, {"paid me", "sold", "sale", "sales", "income", "earned"})
Expense(t) ==
  \/ Has(t, {"spent", "bought", "expense", "expenses"})
  \/ "paid" \in t /\ "paid me" \notin t

Parsed(t) ==
  CASE t = {"no"} -> "cancel"
    [] t = {"yes"} -> "confirm"
    [] Has(t, Amount) /\ Sale(t) # Expense(t) -> IF Sale(t) THEN "sale" ELSE "expense"
    [] OTHER -> "unrecognized"

-----------------------------------------------------------------------------

\* classifyConversationalRoute: only the route QUERY differs from the others.
QuestionInit ==
  /\ text \in Texts
  /\ pc = IF IsQueryLike(text) THEN "resolve" ELSE "parse"
  /\ asked = NOTHING /\ reply = NOTHING

\* A resolver answers, and its result is validated; or either throws.
Resolve ==
  /\ pc = "resolve"
  /\ \E ours \in BOOLEAN : \E r \in IF ours THEN ResolveHeuristic(text) ELSE Provided :
       IF Valid(r)
       THEN pc' = "answer" /\ asked' = Plus(r, "ours", ours)
       ELSE pc' = "replied" /\ asked' = asked
  /\ UNCHANGED <<text, reply>>

ResolverThrows ==
  /\ pc = "resolve" /\ pc' = "replied" /\ UNCHANGED <<text, asked, reply>>

AnswerQuestion ==
  /\ pc = "answer"
  /\ IF asked.kind = "NOT_QUERY"
     THEN pc' = "parse" /\ reply' = reply
     ELSE /\ pc' = "replied"
          /\ reply' = IF Reportable(asked) THEN AnswerOf(asked) ELSE NOTHING
  /\ UNCHANGED <<text, asked>>

ReadFails ==
  /\ pc = "answer" /\ asked.kind # "NOT_QUERY"
  /\ pc' = "replied" /\ UNCHANGED <<text, asked, reply>>

Parse ==
  /\ pc = "parse" /\ pc' = "parsed"
  /\ reply' = [kind |-> Parsed(text)]
  /\ UNCHANGED <<text, asked>>

QuestionNext == Resolve \/ ResolverThrows \/ AnswerQuestion \/ ReadFails \/ Parse

QuestionSpec == QuestionInit /\ [][QuestionNext]_questionVars

-----------------------------------------------------------------------------
(* Properties.                                                             *)

\* The periods that a text names.
Named(t) == t \cap ToSet(PeriodNames)

\* A text that asks is answered and never recorded, confirmed or cancelled with, unless
\* another resolver says that it asks nothing, and every other text reaches parseAndPost
\* (Phase 5: query-shaped messages win).  Spending is that of an expense account, and
\* recent transactions are at most five, of an account of this business, whoever resolved
\* the text.  Resolved by the heuristic, a reply is of a period that the text names, or of
\* this month if it names none; and of the account that the text has words for: of cash if
\* it has one for cash; otherwise not of expenses if it has one of Sales, not of sales if
\* its only such word is one for spending.  ("make" and "profit" are not among Sales: with
\* a word for spending they are answered with spending.  Of two periods it is the one that
\* detectPeriod looks for first, not the one that the text names first.)
QuestionsAnswered ==
  /\ pc \in {"parse", "parsed"} =>
       ~IsQueryLike(text) \/ (asked.kind = "NOT_QUERY" /\ ~asked.ours)
  /\ pc = "replied" => IsQueryLike(text)
  /\ reply.kind \in {"spend", "recent"} => reply.account \in DOMAIN TypeOf
  /\ reply.kind = "spend" => TypeOf[reply.account] = "EXPENSE"
  /\ reply.kind = "recent" => reply.lines \in 1..5
  /\ reply.kind \in {"income", "spend", "recent"} /\ asked.ours =>
       reply.period \in IF Named(text) = {} THEN {"this month"} ELSE Named(text)
  /\ reply.kind \in {"spend", "recent"} /\ asked.ours =>
       /\ TypeOf[reply.account] = "ASSET" <=> Has(text, Cash)
       /\ TypeOf[reply.account] = "EXPENSE" => Has(text, Spend) /\ ~Has(text, Cash \cup Sales)
       /\ TypeOf[reply.account] = "REVENUE" => Has(text, Sales) \/ ~Has(text, Spend)
=============================================================================
