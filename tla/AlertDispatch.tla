---------------------------- MODULE AlertDispatch ----------------------------
(***************************************************************************)
(* Alerts about anomalies: concurrent calls of                             *)
(* AnomalyService.dispatchAlerts over the rows of anomaly_alerts, and the  *)
(* timer of AnomalyReconciliationService.                                  *)
(*                                                                         *)
(* An alert is one anomaly key of a business.  A database statement is one *)
(* action; a send to the provider is two, the request and what is learnt   *)
(* of it.  A call may die between any two.                                 *)
(***************************************************************************)
EXTENDS Integers, FiniteSets

CONSTANTS
  Alerts,  \* anomaly keys
  Legacy,  \* those whose row is FAILED from before dispatch_started_at existed
  Calls,   \* invocations of dispatchAlerts
  NULL

VARIABLES
  rows,      \* anomaly_alerts by key, status NONE where there is no row
  pc,        \* per call: its next step
  at,        \* per call: the alert it is working on
  todo,      \* per call: detected anomalies it has still to look at
  reported,  \* per call and alert: the status in the result
  sends,     \* per alert: requests made to the provider
  accepted   \* per alert: whether the provider has accepted one

vars == <<rows, pc, at, todo, reported, sends, accepted>>

ASSUME LegacyAssumption == Legacy \subseteq Alerts
ASSUME NullAssumption == NULL \notin Alerts

Terminal == {"SENT", "DELIVERY_UNCERTAIN"}

\* started: dispatch_started_at is set; old: that time or, before it is set,
\* updated_at lies more than 15 minutes back.
Fresh(status, started) == [status |-> status, started |-> started, old |-> FALSE]

Init ==
  /\ rows = [a \in Alerts |-> Fresh(IF a \in Legacy THEN "FAILED" ELSE "NONE", FALSE)]
  /\ pc = [c \in Calls |-> "idle"]
  /\ at = [c \in Calls |-> NULL]
  /\ todo = [c \in Calls |-> {}]
  /\ reported = [c \in Calls |-> [a \in Alerts |-> "none"]]
  /\ sends = [a \in Alerts |-> 0]
  /\ accepted = [a \in Alerts |-> FALSE]

-----------------------------------------------------------------------------
(* The call.                                                               *)

Goto(c, label) == pc' = [pc EXCEPT ![c] = label]

\* The result for the alert in hand; the loop goes on with the next one.
Report(c, status) ==
  /\ reported' = [reported EXCEPT ![c][at[c]] = status]
  /\ Goto(c, "next")

\* Detection, and the recipient: without one every anomaly is NO_RECIPIENT.
Start(c) ==
  /\ pc[c] = "idle"
  /\ \E found \in SUBSET Alerts :
       \/ /\ todo' = [todo EXCEPT ![c] = found]
          /\ Goto(c, "next")
          /\ UNCHANGED reported
       \/ /\ reported' = [reported EXCEPT ![c] =
               [a \in Alerts |-> IF a \in found THEN "NO_RECIPIENT" ELSE "none"]]
          /\ Goto(c, "done")
          /\ UNCHANGED todo
  /\ UNCHANGED <<rows, at, sends, accepted>>

NextAlert(c) ==
  /\ pc[c] = "next"
  /\ IF todo[c] = {} THEN Goto(c, "done") /\ UNCHANGED <<at, todo>>
     ELSE \E a \in todo[c] : /\ at' = [at EXCEPT ![c] = a]
                             /\ todo' = [todo EXCEPT ![c] = @ \ {a}]
                             /\ Goto(c, "claim")
  /\ UNCHANGED <<rows, reported, sends, accepted>>

\* Mutant: an uncertain delivery is taken for a failed one.
Claimable_Uncertain(row) ==
  \/ row.status \in {"NONE", "FAILED", "DELIVERY_UNCERTAIN"}
  \/ row.status = "SENDING" /\ ~row.started /\ row.old

\* CLAIM_ALERT_SQL: no row, a failed one, or one claimed 15 minutes ago by a call
\* that has not begun to send.
Claimable(row) ==
  \/ row.status \in {"NONE", "FAILED"}
  \/ row.status = "SENDING" /\ ~row.started /\ row.old

\* claimAlert
Claim(c) ==
  /\ pc[c] = "claim"
  /\ IF Claimable(rows[at[c]])
     THEN /\ rows' = [rows EXCEPT ![at[c]] = Fresh("SENDING", FALSE)]
          /\ Goto(c, "begin")
          /\ UNCHANGED reported
     ELSE Report(c, "SKIPPED") /\ UNCHANGED rows
  /\ UNCHANGED <<at, todo, sends, accepted>>

\* Mutant: whoever has claimed the row may begin.
Startable_Claimed(row) == row.status = "SENDING"

\* The WHERE clause of beginAlertDispatch.
Startable(row) == row.status = "SENDING" /\ ~row.started

\* beginAlertDispatch, the last gate before the provider.
Begin(c) ==
  /\ pc[c] = "begin"
  /\ IF Startable(rows[at[c]])
     THEN /\ rows' = [rows EXCEPT ![at[c]] = Fresh("SENDING", TRUE)]
          /\ Goto(c, "send")
          /\ UNCHANGED reported
     ELSE Report(c, "SKIPPED") /\ UNCHANGED rows
  /\ UNCHANGED <<at, todo, sends, accepted>>

\* Its statement throws, after it was applied or before.
BeginThrows(c) ==
  /\ pc[c] = "begin"
  /\ \/ rows' = rows
     \/ /\ Startable(rows[at[c]])
        /\ rows' = [rows EXCEPT ![at[c]] = Fresh("SENDING", TRUE)]
  /\ Goto(c, "catch")
  /\ UNCHANGED <<at, todo, reported, sends, accepted>>

\* sendText: the request, which the provider accepts or not.
Send(c) ==
  /\ pc[c] = "send"
  /\ sends' = [sends EXCEPT ![at[c]] = @ + 1]
  /\ \E yes \in BOOLEAN : accepted' = [accepted EXCEPT ![at[c]] = @ \/ yes]
  /\ Goto(c, "await")
  /\ UNCHANGED <<rows, at, todo, reported>>

\* Mutant: an answer that does not come is taken for a yes.
Confirmed_Timeout(c) == TRUE

Confirmed(c) == accepted[at[c]]

\* Its answer: an acceptance, or an error that says nothing of one.
Answer(c) ==
  /\ pc[c] = "await"
  /\ \/ Confirmed(c) /\ Goto(c, "mark")
     \/ Goto(c, "catch")
  /\ UNCHANGED <<rows, at, todo, reported, sends, accepted>>

\* The WHERE clause of both updates that end a dispatch.
Ending(row) == row.status = "SENDING" /\ row.started

\* Mutant: the updates name the row only.
Ended_Any(row, status) == Fresh(status, row.started)

\* The effect of such an update.
Ended(row, status) == IF Ending(row) THEN Fresh(status, TRUE) ELSE row

\* markAlertSent; the number of rows it changes is not looked at.
MarkSent(c) ==
  /\ pc[c] = "mark"
  /\ rows' = [rows EXCEPT ![at[c]] = Ended(@, "SENT")]
  /\ Report(c, "SENT")
  /\ UNCHANGED <<at, todo, sends, accepted>>

\* Its statement throws, after it was applied or before.
MarkSentThrows(c) ==
  /\ pc[c] = "mark"
  /\ rows' = rows \/ rows' = [rows EXCEPT ![at[c]] = Ended(@, "SENT")]
  /\ Goto(c, "catch")
  /\ UNCHANGED <<at, todo, reported, sends, accepted>>

\* The catch block: markAlertUncertain, whose own failure is swallowed.
MarkUncertain(c) ==
  /\ pc[c] = "catch"
  /\ \/ rows' = [rows EXCEPT ![at[c]] = Ended(@, "DELIVERY_UNCERTAIN")]
     \/ rows' = rows
  /\ Report(c, "FAILED")
  /\ UNCHANGED <<at, todo, sends, accepted>>

\* The process dies, or the claim or the detection throws to the caller.
Abort(c) ==
  /\ pc[c] \notin {"idle", "done"}
  /\ Goto(c, "done")
  /\ UNCHANGED <<rows, at, todo, reported, sends, accepted>>

-----------------------------------------------------------------------------
(* Time, and the timer of AnomalyReconciliationService.                    *)

\* Fifteen minutes pass.
Lapse(a) ==
  /\ rows[a].status = "SENDING" /\ ~rows[a].old
  /\ rows' = [rows EXCEPT ![a].old = TRUE]
  /\ UNCHANGED <<pc, at, todo, reported, sends, accepted>>

\* Mutant: claims that never began are looked for.
Unresolved_NotStarted == {a \in Alerts : rows[a].status = "SENDING" /\ ~rows[a].started /\ rows[a].old}

Unresolved == {a \in Alerts : Ending(rows[a]) /\ rows[a].old}

\* reconcileUnresolvedDispatches
Reconcile ==
  /\ Unresolved # {}
  /\ rows' = [a \in Alerts |-> IF a \in Unresolved THEN Fresh("DELIVERY_UNCERTAIN", TRUE)
                               ELSE rows[a]]
  /\ UNCHANGED <<pc, at, todo, reported, sends, accepted>>

Step(c) ==
  \/ Start(c) \/ NextAlert(c) \/ Claim(c) \/ Begin(c) \/ BeginThrows(c) \/ Send(c)
  \/ Answer(c) \/ MarkSent(c) \/ MarkSentThrows(c) \/ MarkUncertain(c) \/ Abort(c)

Next == Reconcile \/ (\E a \in Alerts : Lapse(a)) \/ \E c \in Calls : Step(c)

\* Time passes and some process runs the reconciliation timer; calls may stop
\* anywhere.
Spec == Init /\ [][Next]_vars /\ WF_vars(Reconcile) /\ \A a \in Alerts : WF_vars(Lapse(a))

-----------------------------------------------------------------------------
(* Properties.                                                             *)

\* Type invariant; only a row that is being sent or has been has a start time.
TypeOK ==
  /\ rows \in [Alerts -> [status : {"NONE", "FAILED", "SENDING"} \cup Terminal,
                          started : BOOLEAN, old : BOOLEAN]]
  /\ \A a \in Alerts : /\ rows[a].started => rows[a].status \in Terminal \cup {"SENDING"}
                       /\ rows[a].status \in Terminal => rows[a].started
  /\ pc \in [Calls -> {"idle", "next", "claim", "begin", "send", "await", "mark", "catch", "done"}]
  /\ at \in [Calls -> Alerts \cup {NULL}]
  /\ \A c \in Calls : pc[c] \notin {"idle", "next", "done"} => at[c] \in Alerts
  /\ todo \in [Calls -> SUBSET Alerts]
  /\ reported \in [Calls -> [Alerts -> {"none", "NO_RECIPIENT", "SKIPPED", "SENT", "FAILED"}]]
  /\ sends \in [Alerts -> Nat]
  /\ accepted \in [Alerts -> BOOLEAN]

\* The provider is asked at most once to deliver an alert, whichever calls detect
\* it, take its claim over after 15 minutes or wake up late: a claimer that lost
\* its row does not send (beginAlertDispatch).
AtMostOneSend == \A a \in Alerts : sends[a] <= 1

\* SENT, in the table or in the result of a call, is said only of an alert the
\* provider has accepted, although the row may have been ended by somebody else
\* while the send was in progress (markAlertSent).
SentMeansAccepted ==
  \A a \in Alerts :
    /\ rows[a].status = "SENT" => accepted[a]
    /\ \A c \in Calls : reported[c][a] = "SENT" => accepted[a] /\ rows[a].started

\* What has been recorded of a delivery stands: no later detection, claim, late
\* owner or reconciliation changes it (CLAIM_ALERT_SQL and the WHERE clauses).
OutcomeStands ==
  [][\A a \in Alerts : rows[a].status \in Terminal => rows'[a].status = rows[a].status]_vars

\* A dispatch that has begun is recorded in the end as SENT or uncertain, also
\* when its call dies or both of its updates fail (reconcileUnresolvedDispatches).
DispatchResolved ==
  \A a \in Alerts : rows[a].started ~> rows[a].status \in Terminal

-----------------------------------------------------------------------------
(* The inductive invariant (ReaderProofs).                                 *)

\* A call that may ask the provider about the alert in hand, or has.
Sending(c) == pc[c] \in {"send", "await", "mark"}

OneSender ==
  /\ \A a \in Alerts : sends[a] > 0 \/ accepted[a] => rows[a].started
  /\ \A c \in Calls : Sending(c) => rows[at[c]].started
  /\ \A c, d \in Calls : Sending(c) /\ Sending(d) /\ at[c] = at[d] => c = d
  /\ \A c \in Calls : pc[c] = "send" => sends[at[c]] = 0
  /\ \A c \in Calls : pc[c] = "mark" => accepted[at[c]]

IInv == TypeOK /\ AtMostOneSend /\ SentMeansAccepted /\ OneSender
=============================================================================
