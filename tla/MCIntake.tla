------------------------------ MODULE MCIntake ------------------------------
(***************************************************************************)
(* Instances of Delivery, Onboarding, Draining, Questions and NamedPeriods *)
(* for TLC.  They have no variable in common and none calls another, so    *)
(* each behaviour runs one of them while the others stay as they begin.    *)
(***************************************************************************)
EXTENDS Delivery, Onboarding, Draining, Questions, NamedPeriods

CONSTANTS q1, q2, pair, overlap, alien, dev, m1, m2, m3, r1, r2, r3, w1, w2, w3

MCProcesses == {"p1", "p2"}
MCHostOf == [q \in Requests |-> IF q = q1 THEN "p1" ELSE "p2"]
MCMessages == {m1, m2, m3}
MCBodies == {pair, overlap, alien, dev}

\* Two messages; a body that repeats one of them with other content; one that is
\* not of the schema after its first message; a developer's message.
MCBodyOf ==
  [b \in MCBodies |->
     [dev |-> b = dev, signed |-> b # dev, bytes |-> 1, json |-> TRUE,
      items |-> CASE b = pair -> <<m1, m2>> [] b = overlap -> <<m2>>
                  [] b = alien -> <<m3, BROKEN>> [] b = dev -> <<m1>>]]

\* Two calls for one number and one for another.
MCResolvers == {r1, r2, r3}
MCPhoneOf == [r \in MCResolvers |-> IF r = r3 THEN "other" ELSE "number"]

\* Every text of at most three of these words.
MCWords ==
  {"?", "show", "how much", "balance", "recent", "last 5", "last 900", "last 5000",
   "yesterday", "last week", "this month", "make", "made", "sales", "profit",
   "spent", "expense", "stock", "cash", "ignore", "business", "r50", "50 rand", "sold",
   "paid", "paid me", "yes"}
MCTexts == {{}} \cup {{a, b, c} : a, b, c \in MCWords}

\* What another resolver may give: nothing to answer, an unknown account, figures
\* of a sales account, fields that are missing, too many or out of range.
MCProvided ==
  {[kind |-> "NOT_QUERY"],
   [kind |-> "ACCOUNT_SPEND", accountHint |-> "tools", period |-> "range"],
   [kind |-> "ACCOUNT_SPEND", accountHint |-> "sales", period |-> "today"],
   [kind |-> "INCOME_STATEMENT", period |-> "backwards"],
   [kind |-> "INCOME_STATEMENT", currency |-> "ZAR"],
   [kind |-> "CASH_BALANCE", businessId |-> "other"],
   [kind |-> "RECENT_TRANSACTIONS", limit |-> 6],
   [kind |-> "RECENT_TRANSACTIONS", limit |-> MALFORMED]}
MCTypes == ("100" :> "ASSET") @@ ("400" :> "REVENUE") @@ ("500" :> "EXPENSE")

\* The months from November 2023 to March 2025: two ends of a year and a leap day.
MCMonths == <<30, 31, 31, 29, 31, 30, 31, 30, 31, 31, 30, 31, 30, 31, 31, 28, 31>>

VARIABLE part

vars == <<intakeVars, onboardingVars, drainingVars, questionVars, today, part>>

Init ==
  /\ part \in {"delivery", "onboarding", "draining", "questions", "calendar"}
  /\ IntakeInit /\ OnboardingInit /\ DrainingInit /\ QuestionInit /\ CalendarInit
  /\ part # "questions" => text = {}

Next ==
  /\ part' = part
  /\ \/ part = "delivery" /\ IntakeNext
        /\ UNCHANGED <<onboardingVars, drainingVars, questionVars, today>>
     \/ part = "onboarding" /\ OnboardingNext
        /\ UNCHANGED <<intakeVars, drainingVars, questionVars, today>>
     \/ part = "draining" /\ DrainingNext
        /\ UNCHANGED <<intakeVars, onboardingVars, questionVars, today>>
     \/ part = "questions" /\ QuestionNext
        /\ UNCHANGED <<intakeVars, onboardingVars, drainingVars, today>>
     \/ part = "calendar" /\ Midnight
        /\ UNCHANGED <<intakeVars, onboardingVars, drainingVars, questionVars>>

Spec == Init /\ [][Next]_vars /\ (part = "delivery" => IntakeFairness)

\* EveryDeliverySettled, of the behaviours in which WhatsApp delivers.
DeliveriesSettle == part = "delivery" => EveryDeliverySettled
=============================================================================
