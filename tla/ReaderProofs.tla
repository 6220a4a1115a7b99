----------------------------- MODULE ReaderProofs -----------------------------
(***************************************************************************)
(* Theorems about what is sent and read beside the books: alerts that are  *)
(* dispatched once for any set of alerts and of calls, named periods that  *)
(* join for any calendar and time zone, and the figures, lists and rules   *)
(* of requests, whatever is posted and reversed while they read, for any   *)
(* accounts, transactions, ranges, buckets and time zones.                 *)
(***************************************************************************)
EXTENDS AlertDispatch, Readers, NamedPeriods, SequenceTheorems, FiniteSums, TLAPS

-----------------------------------------------------------------------------
(* Alerts.                                                                 *)

Labels == {"idle", "next", "claim", "begin", "send", "await", "mark", "catch", "done"}

RowType == [status : {"NONE", "FAILED", "SENDING"} \cup Terminal, started : BOOLEAN, old : BOOLEAN]

WellFormed(row) ==
  /\ row \in RowType
  /\ row.started => row.status \in Terminal \cup {"SENDING"}
  /\ row.status \in Terminal => row.started

\* The rows after a step: well formed, none loses its start time, and SENT is said
\* only of what has been accepted.
RowStep ==
  /\ rows' \in [Alerts -> RowType]
  /\ \A a \in Alerts : /\ WellFormed(rows'[a])
                       /\ rows[a].started => rows'[a].started
                       /\ rows'[a].status = "SENT" => accepted[a]

\* The results after a step.
ResultStep ==
  /\ reported' \in [Calls -> [Alerts -> {"none", "NO_RECIPIENT", "SKIPPED", "SENT", "FAILED"}]]
  /\ \A c \in Calls, a \in Alerts : reported'[c][a] = "SENT" => accepted[a] /\ rows[a].started

\* The updates keep a row well formed, keep its start time, and end only a dispatch
\* that has begun.
LEMMA EndedRow ==
  ASSUME NEW row, WellFormed(row), NEW status \in Terminal
  PROVE  /\ WellFormed(Ended(row, status))
         /\ Ended(row, status).started = row.started
         /\ Ended(row, status).status \in {row.status, status}
  BY DEF WellFormed, RowType, Ended, Ending, Fresh, Terminal

LEMMA RowIsWellFormed ==
  ASSUME TypeOK, NEW a \in Alerts
  PROVE  WellFormed(rows[a])
  BY DEF TypeOK, WellFormed, RowType

LEMMA RowsUnchanged ==
  ASSUME IInv, rows' = rows
  PROVE  RowStep
  BY RowIsWellFormed DEF IInv, RowStep, TypeOK, RowType, SentMeansAccepted

LEMMA OneRow ==
  ASSUME IInv, NEW a \in Alerts, NEW row, WellFormed(row),
         rows[a].started => row.started,
         row.status = "SENT" => accepted[a],
         rows' = [rows EXCEPT ![a] = row]
  PROVE  RowStep
<1>1. rows' \in [Alerts -> RowType]
  BY DEF IInv, TypeOK, WellFormed, RowType
<1>2. ASSUME NEW b \in Alerts
      PROVE  /\ WellFormed(rows'[b])
             /\ rows[b].started => rows'[b].started
             /\ rows'[b].status = "SENT" => accepted[b]
  <2>1. CASE b = a
    <3>1. rows'[b] = row
      BY <2>1 DEF IInv, TypeOK
    <3> QED BY <2>1, <3>1
  <2>2. CASE b # a
    <3>1. rows'[b] = rows[b]
      BY <2>2 DEF IInv, TypeOK
    <3> QED BY <3>1, RowIsWellFormed DEF IInv, SentMeansAccepted
  <2> QED BY <2>1, <2>2
<1> QED BY <1>1, <1>2 DEF RowStep

LEMMA ResultsUnchanged ==
  ASSUME IInv, reported' = reported
  PROVE  ResultStep
  BY DEF IInv, ResultStep, TypeOK, SentMeansAccepted

LEMMA OneResult ==
  ASSUME IInv, NEW c \in Calls, at[c] \in Alerts,
         NEW status \in {"SKIPPED", "SENT", "FAILED"},
         status = "SENT" => accepted[at[c]] /\ rows[at[c]].started,
         reported' = [reported EXCEPT ![c][at[c]] = status]
  PROVE  ResultStep
<1> DEFINE Results == {"none", "NO_RECIPIENT", "SKIPPED", "SENT", "FAILED"}
           mine == [reported[c] EXCEPT ![at[c]] = status]
<1>1. reported \in [Calls -> [Alerts -> Results]]
  BY DEF IInv, TypeOK
<1>2. reported' = [reported EXCEPT ![c] = mine]
  OBVIOUS
<1>3. mine \in [Alerts -> Results]
  BY <1>1
<1>4. reported' \in [Calls -> [Alerts -> Results]]
  BY <1>1, <1>2, <1>3
<1>5. ASSUME NEW d \in Calls, NEW a \in Alerts, reported'[d][a] = "SENT"
      PROVE  accepted[a] /\ rows[a].started
  <2>1. CASE d = c /\ a = at[c]
    <3>1. reported'[d][a] = status
      BY <1>1, <1>2, <2>1
    <3> QED BY <1>5, <2>1, <3>1
  <2>2. CASE ~(d = c /\ a = at[c])
    <3>1. reported'[d][a] = reported[d][a]
      BY <1>1, <1>2, <2>2
    <3> QED BY <1>5, <3>1 DEF IInv, SentMeansAccepted
  <2> QED BY <2>1, <2>2
<1> QED BY <1>4, <1>5 DEF ResultStep

LEMMA InitInvariant == Init => IInv
  BY LegacyAssumption
  DEF Init, IInv, TypeOK, AtMostOneSend, SentMeansAccepted, OneSender, Sending, Fresh, Terminal

\* A call goes on to the step named label with the alert it has in hand.
LEMMA CallMoves ==
  ASSUME IInv, NEW c \in Calls, NEW label \in Labels \ {"idle"},
         at[c] \in Alerts, RowStep, ResultStep,
         pc' = [pc EXCEPT ![c] = label],
         UNCHANGED <<at, todo, sends, accepted>>,
         label \in {"send", "await", "mark"} => rows'[at[c]].started,
         label \in {"send", "await", "mark"} =>
           \A d \in Calls : d # c /\ Sending(d) => at[d] # at[c],
         label = "send" => sends[at[c]] = 0,
         label = "mark" => accepted[at[c]]
  PROVE  IInv'
<1>1. \A d \in Calls : pc'[d] = IF d = c THEN label ELSE pc[d]
  BY DEF IInv, TypeOK
<1>2. TypeOK'
  <2>1. pc' \in [Calls -> Labels]
    BY DEF IInv, TypeOK, Labels
  <2>2. \A d \in Calls : pc'[d] \notin {"idle", "next", "done"} => at[d] \in Alerts
    BY <1>1 DEF IInv, TypeOK
  <2> QED BY <2>1, <2>2 DEF IInv, TypeOK, RowStep, ResultStep, WellFormed, RowType, Labels
<1>3. AtMostOneSend'
  BY DEF IInv, AtMostOneSend
<1>4. SentMeansAccepted'
  BY DEF SentMeansAccepted, RowStep, ResultStep
<1>5. OneSender'
  <2>1. \A a \in Alerts : sends[a] > 0 \/ accepted[a] => rows'[a].started
    BY DEF IInv, OneSender, RowStep
  <2>2. \A d \in Calls : d # c /\ Sending(d) => rows'[at[d]].started
    BY DEF IInv, OneSender, TypeOK, Sending, RowStep
  <2>3. \A d \in Calls : Sending(d)' <=> (d # c /\ Sending(d)) \/ (d = c /\ label \in {"send", "await", "mark"})
    BY <1>1 DEF Sending
  <2>4. \A d \in Calls : Sending(d)' => rows'[at[d]].started
    BY <2>2, <2>3
  <2>5. \A d, e \in Calls : Sending(d)' /\ Sending(e)' /\ at[d] = at[e] => d = e
    BY <2>3 DEF IInv, OneSender
  <2>6. \A d \in Calls : pc'[d] = "send" => sends[at[d]] = 0
    BY <1>1 DEF IInv, OneSender
  <2>7. \A d \in Calls : pc'[d] = "mark" => accepted[at[d]]
    BY <1>1 DEF IInv, OneSender
  <2> QED BY <2>1, <2>4, <2>5, <2>6, <2>7 DEF OneSender
<1> QED BY <1>2, <1>3, <1>4, <1>5 DEF IInv

\* A call takes up an alert, or stops: it is not sending any more.
LEMMA Between ==
  ASSUME IInv, NEW c \in Calls, NEW label \in {"next", "claim", "done"},
         pc' = [pc EXCEPT ![c] = label],
         at' = at \/ \E a \in Alerts : at' = [at EXCEPT ![c] = a],
         label = "claim" => at'[c] \in Alerts,
         todo' \in [Calls -> SUBSET Alerts], RowStep, ResultStep,
         UNCHANGED <<sends, accepted>>
  PROVE  IInv'
<1>1. \A d \in Calls : pc'[d] = IF d = c THEN label ELSE pc[d]
  BY DEF IInv, TypeOK
<1>2. \A d \in Calls : d # c => at'[d] = at[d]
  BY DEF IInv, TypeOK
<1>3. at' \in [Calls -> Alerts \cup {NULL}]
  BY DEF IInv, TypeOK
<1>4. TypeOK'
  <2>1. pc' \in [Calls -> Labels]
    BY DEF IInv, TypeOK, Labels
  <2>2. \A d \in Calls : pc'[d] \notin {"idle", "next", "done"} => at'[d] \in Alerts
    BY <1>1, <1>2 DEF IInv, TypeOK
  <2> QED BY <1>3, <2>1, <2>2 DEF IInv, TypeOK, RowStep, ResultStep, WellFormed, RowType, Labels
<1>5. AtMostOneSend'
  BY DEF IInv, AtMostOneSend
<1>6. SentMeansAccepted'
  BY DEF SentMeansAccepted, RowStep, ResultStep
<1>7. OneSender'
  <2>1. \A a \in Alerts : sends[a] > 0 \/ accepted[a] => rows'[a].started
    BY DEF IInv, OneSender, RowStep
  <2>2. \A d \in Calls : Sending(d)' => d # c /\ Sending(d)
    BY <1>1 DEF Sending
  <2>3. \A d \in Calls : Sending(d)' => rows'[at'[d]].started
    BY <1>2, <2>2 DEF IInv, OneSender, TypeOK, Sending, RowStep
  <2>4. \A d, e \in Calls : Sending(d)' /\ Sending(e)' /\ at'[d] = at'[e] => d = e
    BY <1>2, <2>2 DEF IInv, OneSender
  <2>5. \A d \in Calls : pc'[d] = "send" => sends[at'[d]] = 0
    BY <1>1, <1>2 DEF IInv, OneSender
  <2>6. \A d \in Calls : pc'[d] = "mark" => accepted[at'[d]]
    BY <1>1, <1>2 DEF IInv, OneSender
  <2> QED BY <2>1, <2>3, <2>4, <2>5, <2>6 DEF OneSender
<1> QED BY <1>4, <1>5, <1>6, <1>7 DEF IInv

\* What a call that works on an alert may rely on.
LEMMA InHand ==
  ASSUME IInv, NEW c \in Calls, pc[c] \in {"claim", "begin", "send", "await", "mark", "catch"}
  PROVE  /\ at[c] \in Alerts
         /\ WellFormed(rows[at[c]])
         /\ rows[at[c]].status = "SENT" => accepted[at[c]]
  BY RowIsWellFormed DEF IInv, TypeOK, SentMeansAccepted

\* A row that has not been started has nobody sending.
LEMMA NotStarted ==
  ASSUME IInv, NEW a \in Alerts, ~rows[a].started
  PROVE  /\ \A d \in Calls : Sending(d) => at[d] # a
         /\ sends[a] = 0
         /\ ~accepted[a]
<1>1. \A d \in Calls : Sending(d) => at[d] # a
  BY DEF IInv, OneSender
<1>2. ~(sends[a] > 0) /\ ~accepted[a]
  BY DEF IInv, OneSender
<1>3. sends[a] \in Nat
  BY DEF IInv, TypeOK
<1> QED BY <1>1, <1>2, <1>3

\* A call reports on the alert it has in hand.
LEMMA Reports ==
  ASSUME IInv, NEW c \in Calls, at[c] \in Alerts, RowStep,
         NEW status \in {"SKIPPED", "SENT", "FAILED"},
         status = "SENT" => accepted[at[c]] /\ rows[at[c]].started,
         Report(c, status), UNCHANGED <<at, todo, sends, accepted>>
  PROVE  IInv'
<1>1. ResultStep
  BY OneResult DEF Report
<1>2. pc' = [pc EXCEPT ![c] = "next"]
  BY DEF Report, Goto
<1> QED BY <1>1, <1>2, CallMoves DEF Labels

\* The request: the one sender of a started row sends, for the first time.
LEMMA SendInvariant ==
  ASSUME IInv, NEW c \in Calls, Send(c)
  PROVE  IInv'
<1> DEFINE a == at[c]
<1>1. /\ a \in Alerts
      /\ rows[a].started
      /\ sends[a] = 0
      /\ Sending(c)
  BY DEF Send, IInv, TypeOK, OneSender, Sending
<1>2. PICK yes \in BOOLEAN : accepted' = [accepted EXCEPT ![a] = accepted[a] \/ yes]
  BY DEF Send
<1>3. sends' = [sends EXCEPT ![a] = 1]
  BY <1>1 DEF Send
<1>4. \A d \in Calls : pc'[d] = IF d = c THEN "await" ELSE pc[d]
  BY DEF Send, Goto, IInv, TypeOK
<1>5. UNCHANGED <<rows, at, todo, reported>>
  BY DEF Send
<1>6. \A b \in Alerts : accepted[b] => accepted'[b]
  BY <1>1, <1>2 DEF IInv, TypeOK
<1>7. TypeOK'
  <2>1. sends' \in [Alerts -> Nat]
    BY <1>3 DEF IInv, TypeOK
  <2>2. accepted' \in [Alerts -> BOOLEAN]
    <3>1. (accepted[a] \/ yes) \in BOOLEAN
      BY <1>1 DEF IInv, TypeOK
    <3> QED BY <1>2, <3>1 DEF IInv, TypeOK
  <2>3. pc' \in [Calls -> Labels]
    BY DEF Send, Goto, IInv, TypeOK, Labels
  <2>4. \A d \in Calls : pc'[d] \notin {"idle", "next", "done"} => at'[d] \in Alerts
    BY <1>1, <1>4, <1>5 DEF IInv, TypeOK
  <2> QED BY <1>5, <2>1, <2>2, <2>3, <2>4 DEF IInv, TypeOK, Labels
<1>8. AtMostOneSend'
  BY <1>1, <1>3 DEF IInv, TypeOK, AtMostOneSend
<1>9. SentMeansAccepted'
  BY <1>5, <1>6 DEF IInv, SentMeansAccepted
<1>10. OneSender'
  <2>1. \A b \in Alerts : sends'[b] > 0 \/ accepted'[b] => rows[b].started
    BY <1>1, <1>2, <1>3 DEF IInv, TypeOK, OneSender
  <2>2. \A d \in Calls : Sending(d)' <=> Sending(d)
    BY <1>1, <1>4 DEF Sending
  <2>3. \A d \in Calls : pc'[d] = "send" => sends'[at[d]] = 0
    <3>1. ASSUME NEW d \in Calls, pc'[d] = "send" PROVE sends'[at[d]] = 0
      <4>1. d # c /\ pc[d] = "send" /\ Sending(d)
        BY <1>4, <3>1 DEF Sending
      <4>2. at[d] # a /\ sends[at[d]] = 0 /\ at[d] \in Alerts
        BY <1>1, <4>1 DEF IInv, TypeOK, OneSender
      <4> QED BY <1>3, <4>2 DEF IInv, TypeOK
    <3> QED BY <3>1
  <2>4. \A d \in Calls : pc'[d] = "mark" => accepted'[at[d]]
    BY <1>4, <1>6 DEF IInv, TypeOK, OneSender
  <2> QED BY <1>5, <2>1, <2>2, <2>3, <2>4 DEF IInv, OneSender
<1> QED BY <1>7, <1>8, <1>9, <1>10 DEF IInv

\* Every action of a call keeps the invariant.
LEMMA StepInvariant ==
  ASSUME IInv, NEW c \in Calls, Step(c)
  PROVE  IInv'
<1>1. CASE Start(c)
  <2>1. RowStep
    BY <1>1, RowsUnchanged DEF Start
  <2>2. PICK label \in {"next", "done"} : pc' = [pc EXCEPT ![c] = label]
    BY <1>1 DEF Start, Goto
  <2>3. todo' \in [Calls -> SUBSET Alerts]
    BY <1>1 DEF Start, IInv, TypeOK
  <2>4. ResultStep
    <3>1. CASE reported' = reported
      BY <3>1, ResultsUnchanged
    <3>2. CASE reported' # reported
      <4>1. PICK found \in SUBSET Alerts :
              reported' = [reported EXCEPT ![c] =
                            [a \in Alerts |-> IF a \in found THEN "NO_RECIPIENT" ELSE "none"]]
        BY <1>1, <3>2 DEF Start
      <4>2. \A d \in Calls, a \in Alerts : reported'[d][a] = "SENT" => d # c /\ reported[d][a] = "SENT"
        BY <4>1 DEF IInv, TypeOK
      <4>3. reported' \in [Calls -> [Alerts -> {"none", "NO_RECIPIENT", "SKIPPED", "SENT", "FAILED"}]]
        BY <4>1 DEF IInv, TypeOK
      <4> QED BY <4>2, <4>3 DEF ResultStep, IInv, SentMeansAccepted
    <3> QED BY <3>1, <3>2
  <2> QED BY <1>1, <2>1, <2>2, <2>3, <2>4, Between DEF Start
<1>2. CASE NextAlert(c)
  <2>1. RowStep /\ ResultStep
    BY <1>2, RowsUnchanged, ResultsUnchanged DEF NextAlert
  <2>2. CASE todo[c] = {}
    BY <1>2, <2>1, <2>2, Between DEF NextAlert, Goto, IInv, TypeOK
  <2>3. CASE todo[c] # {}
    <3>1. PICK a \in todo[c] : /\ at' = [at EXCEPT ![c] = a]
                               /\ todo' = [todo EXCEPT ![c] = @ \ {a}]
                               /\ pc' = [pc EXCEPT ![c] = "claim"]
      BY <1>2, <2>3 DEF NextAlert, Goto
    <3>2. a \in Alerts /\ at'[c] \in Alerts
      BY <3>1 DEF IInv, TypeOK
    <3>3. todo' \in [Calls -> SUBSET Alerts]
      BY <3>1 DEF IInv, TypeOK
    <3> QED BY <1>2, <2>1, <3>1, <3>2, <3>3, Between DEF NextAlert
  <2> QED BY <2>2, <2>3
<1>3. CASE Claim(c)
  <2>1. at[c] \in Alerts /\ WellFormed(rows[at[c]])
    BY <1>3, InHand DEF Claim
  <2>2. CASE Claimable(rows[at[c]])
    <3>1. ~rows[at[c]].started
      BY <2>1, <2>2 DEF Claimable, WellFormed, Terminal
    <3>2. WellFormed(Fresh("SENDING", FALSE)) /\ Fresh("SENDING", FALSE).status # "SENT"
      BY DEF WellFormed, RowType, Fresh, Terminal
    <3>3. RowStep
      BY <1>3, <2>1, <2>2, <3>1, <3>2, OneRow DEF Claim
    <3>4. ResultStep
      BY <1>3, <2>2, ResultsUnchanged DEF Claim
    <3>5. pc' = [pc EXCEPT ![c] = "begin"] /\ UNCHANGED <<at, todo, sends, accepted>>
      BY <1>3, <2>2 DEF Claim, Goto
    <3> QED BY <2>1, <3>3, <3>4, <3>5, CallMoves DEF Labels
  <2>3. CASE ~Claimable(rows[at[c]])
    <3>1. Report(c, "SKIPPED") /\ rows' = rows /\ UNCHANGED <<at, todo, sends, accepted>>
      BY <1>3, <2>3 DEF Claim
    <3> QED BY <2>1, <3>1, Reports, RowsUnchanged
  <2> QED BY <2>2, <2>3
<1>4. CASE Begin(c)
  <2>1. at[c] \in Alerts /\ WellFormed(rows[at[c]])
    BY <1>4, InHand DEF Begin
  <2>2. CASE Startable(rows[at[c]])
    <3>1. ~rows[at[c]].started
      BY <2>2 DEF Startable
    <3>2. WellFormed(Fresh("SENDING", TRUE)) /\ Fresh("SENDING", TRUE).status # "SENT"
          /\ Fresh("SENDING", TRUE).started
      BY DEF WellFormed, RowType, Fresh, Terminal
    <3>3. rows' = [rows EXCEPT ![at[c]] = Fresh("SENDING", TRUE)]
      BY <1>4, <2>2 DEF Begin
    <3>4. RowStep
      BY <2>1, <3>1, <3>2, <3>3, OneRow
    <3>5. ResultStep
      BY <1>4, <2>2, ResultsUnchanged DEF Begin
    <3>6. pc' = [pc EXCEPT ![c] = "send"] /\ UNCHANGED <<at, todo, sends, accepted>>
      BY <1>4, <2>2 DEF Begin, Goto
    <3>7. rows'[at[c]].started
      BY <2>1, <3>2, <3>3 DEF IInv, TypeOK
    <3> QED BY <2>1, <3>1, <3>4, <3>5, <3>6, <3>7, NotStarted, CallMoves DEF Labels
  <2>3. CASE ~Startable(rows[at[c]])
    <3>1. Report(c, "SKIPPED") /\ rows' = rows /\ UNCHANGED <<at, todo, sends, accepted>>
      BY <1>4, <2>3 DEF Begin
    <3> QED BY <2>1, <3>1, Reports, RowsUnchanged
  <2> QED BY <2>2, <2>3
<1>5. CASE BeginThrows(c)
  <2>1. at[c] \in Alerts /\ WellFormed(rows[at[c]])
    BY <1>5, InHand DEF BeginThrows
  <2>2. RowStep
    <3>1. CASE rows' = rows
      BY <3>1, RowsUnchanged
    <3>2. CASE rows' = [rows EXCEPT ![at[c]] = Fresh("SENDING", TRUE)]
      <4>1. WellFormed(Fresh("SENDING", TRUE)) /\ Fresh("SENDING", TRUE).status # "SENT"
            /\ Fresh("SENDING", TRUE).started
        BY DEF WellFormed, RowType, Fresh, Terminal
      <4> QED BY <2>1, <3>2, <4>1, OneRow
    <3> QED BY <1>5, <3>1, <3>2 DEF BeginThrows
  <2>3. ResultStep
    BY <1>5, ResultsUnchanged DEF BeginThrows
  <2> QED BY <1>5, <2>1, <2>2, <2>3, CallMoves DEF BeginThrows, Goto, Labels
<1>6. CASE Send(c)
  BY <1>6, SendInvariant
<1>7. CASE Answer(c)
  <2>1. at[c] \in Alerts
    BY <1>7, InHand DEF Answer
  <2>2. RowStep /\ ResultStep
    BY <1>7, RowsUnchanged, ResultsUnchanged DEF Answer
  <2>3. rows'[at[c]].started /\ \A d \in Calls : d # c /\ Sending(d) => at[d] # at[c]
    BY <1>7 DEF Answer, IInv, OneSender, Sending
  <2>4. PICK label \in {"mark", "catch"} :
          pc' = [pc EXCEPT ![c] = label] /\ (label = "mark" => accepted[at[c]])
    BY <1>7 DEF Answer, Confirmed, Goto
  <2> QED BY <1>7, <2>1, <2>2, <2>3, <2>4, CallMoves DEF Answer, Labels
<1>8. CASE MarkSent(c)
  <2>1. at[c] \in Alerts /\ accepted[at[c]] /\ rows[at[c]].started
    BY <1>8, InHand DEF MarkSent, IInv, OneSender, Sending
  <2>2. rows' = [rows EXCEPT ![at[c]] = Ended(rows[at[c]], "SENT")]
    BY <1>8 DEF MarkSent
  <2>3. RowStep
    BY <2>1, <2>2, RowIsWellFormed, EndedRow, OneRow DEF IInv, Terminal
  <2> QED BY <1>8, <2>1, <2>3, Reports DEF MarkSent
<1>9. CASE MarkSentThrows(c)
  <2>1. at[c] \in Alerts /\ accepted[at[c]]
    BY <1>9, InHand DEF MarkSentThrows, IInv, OneSender
  <2>2. RowStep
    <3>1. CASE rows' = rows
      BY <3>1, RowsUnchanged
    <3>2. CASE rows' = [rows EXCEPT ![at[c]] = Ended(rows[at[c]], "SENT")]
      BY <2>1, <3>2, RowIsWellFormed, EndedRow, OneRow DEF IInv, Terminal
    <3> QED BY <1>9, <3>1, <3>2 DEF MarkSentThrows
  <2>3. ResultStep
    BY <1>9, ResultsUnchanged DEF MarkSentThrows
  <2> QED BY <1>9, <2>1, <2>2, <2>3, CallMoves DEF MarkSentThrows, Goto, Labels
<1>10. CASE MarkUncertain(c)
  <2>1. at[c] \in Alerts /\ WellFormed(rows[at[c]]) /\ (rows[at[c]].status = "SENT" => accepted[at[c]])
    BY <1>10, InHand DEF MarkUncertain
  <2>2. RowStep
    <3>1. CASE rows' = rows
      BY <3>1, RowsUnchanged
    <3>2. CASE rows' = [rows EXCEPT ![at[c]] = Ended(rows[at[c]], "DELIVERY_UNCERTAIN")]
      <4> DEFINE row == Ended(rows[at[c]], "DELIVERY_UNCERTAIN")
      <4>1. /\ WellFormed(row)
            /\ row.started = rows[at[c]].started
            /\ row.status \in {rows[at[c]].status, "DELIVERY_UNCERTAIN"}
        BY <2>1, EndedRow DEF Terminal
      <4> QED BY <2>1, <3>2, <4>1, OneRow
    <3> QED BY <1>10, <3>1, <3>2 DEF MarkUncertain
  <2> QED BY <1>10, <2>1, <2>2, Reports DEF MarkUncertain
<1>11. CASE Abort(c)
  <2>1. RowStep /\ ResultStep
    BY <1>11, RowsUnchanged, ResultsUnchanged DEF Abort
  <2>2. todo' \in [Calls -> SUBSET Alerts]
    BY <1>11 DEF Abort, IInv, TypeOK
  <2> QED BY <1>11, <2>1, <2>2, Between DEF Abort, Goto
<1> QED
  BY <1>1, <1>2, <1>3, <1>4, <1>5, <1>6, <1>7, <1>8, <1>9, <1>10, <1>11 DEF Step

\* So do the passing of time and the reconciliation.
LEMMA TimeInvariant ==
  ASSUME IInv, Reconcile \/ \E a \in Alerts : Lapse(a)
  PROVE  IInv'
<1>1. UNCHANGED <<pc, at, todo, reported, sends, accepted>>
  BY DEF Reconcile, Lapse
<1>2. RowStep
  <2>1. CASE Reconcile
    <3>1. WellFormed(Fresh("DELIVERY_UNCERTAIN", TRUE))
          /\ Fresh("DELIVERY_UNCERTAIN", TRUE).status # "SENT"
          /\ Fresh("DELIVERY_UNCERTAIN", TRUE).started
      BY DEF WellFormed, RowType, Fresh, Terminal
    <3>2. \A a \in Alerts : /\ WellFormed(rows'[a])
                            /\ rows[a].started => rows'[a].started
                            /\ rows'[a].status = "SENT" => accepted[a]
      BY <2>1, <3>1, RowIsWellFormed DEF Reconcile, IInv, SentMeansAccepted
    <3>3. rows' \in [Alerts -> RowType]
      BY <2>1, <3>2 DEF Reconcile, WellFormed
    <3> QED BY <3>2, <3>3 DEF RowStep
  <2>2. ASSUME NEW a \in Alerts, Lapse(a) PROVE RowStep
    <3> DEFINE row == [rows[a] EXCEPT !.old = TRUE]
    <3>1. WellFormed(row) /\ row.started = rows[a].started /\ row.status = rows[a].status
      BY RowIsWellFormed DEF IInv, WellFormed, RowType
    <3>2. rows' = [rows EXCEPT ![a] = row]
      BY <2>2 DEF Lapse
    <3> HIDE DEF row
    <3> QED BY <3>1, <3>2, OneRow DEF IInv, SentMeansAccepted
  <2> QED BY <2>1, <2>2
<1>3. ResultStep
  BY <1>1, ResultsUnchanged
<1>4. TypeOK'
  BY <1>1, <1>2, <1>3 DEF IInv, TypeOK, RowStep, ResultStep, WellFormed, RowType
<1>5. SentMeansAccepted'
  BY <1>1, <1>2, <1>3 DEF SentMeansAccepted, RowStep, ResultStep
<1>6. OneSender'
  <2>1. \A d \in Calls : Sending(d)' <=> Sending(d)
    BY <1>1 DEF Sending
  <2>2. \A d \in Calls : Sending(d) => rows'[at[d]].started
    BY <1>2 DEF IInv, OneSender, TypeOK, Sending, RowStep
  <2>3. \A a \in Alerts : sends[a] > 0 \/ accepted[a] => rows'[a].started
    BY <1>2 DEF IInv, OneSender, RowStep
  <2> QED BY <1>1, <2>1, <2>2, <2>3 DEF IInv, OneSender
<1> QED BY <1>1, <1>4, <1>5, <1>6 DEF IInv, AtMostOneSend

LEMMA NextInvariant == IInv /\ [Next]_vars => IInv'
<1> SUFFICES ASSUME IInv, [Next]_vars PROVE IInv'
  OBVIOUS
<1>1. CASE UNCHANGED vars
  BY <1>1 DEF vars, IInv, TypeOK, AtMostOneSend, SentMeansAccepted, OneSender, Sending
<1> QED BY <1>1, StepInvariant, TimeInvariant DEF Next

\* The inductive invariant: besides the properties, that a started row has one
\* sender, which has not sent before it sends and marks only what was accepted.
THEOREM InductiveInvariant == Spec => []IInv
  BY InitInvariant, NextInvariant, PTL DEF Spec

\* Type correctness, with the start time that a row has exactly while it is being
\* sent or once it has been (the rows of anomaly_alerts).
THEOREM TypeCorrect == Spec => []TypeOK
<1>1. IInv => TypeOK
  BY DEF IInv
<1> QED BY <1>1, InductiveInvariant, PTL

\* However many calls detect an alert, take its claim over or wake up late, the
\* provider is asked at most once to deliver it (beginAlertDispatch).
THEOREM OneSendPerAlert == Spec => []AtMostOneSend
<1>1. IInv => AtMostOneSend
  BY DEF IInv
<1> QED BY <1>1, InductiveInvariant, PTL

\* SENT, in the table or in a result, is said only of an alert the provider has
\* accepted (markAlertSent).
THEOREM SentIsAccepted == Spec => []SentMeansAccepted
<1>1. IInv => SentMeansAccepted
  BY DEF IInv
<1> QED BY <1>1, InductiveInvariant, PTL

\* No step changes a recorded outcome (CLAIM_ALERT_SQL and the WHERE clauses of the
\* updates).
LEMMA StepKeepsOutcomes ==
  ASSUME IInv, [Next]_vars, NEW a \in Alerts, rows[a].status \in Terminal
  PROVE  rows'[a].status = rows[a].status
<1>1. rows[a].status \notin {"NONE", "FAILED", "SENDING"}
  BY DEF Terminal
<1>2. ~Claimable(rows[a]) /\ ~Startable(rows[a]) /\ ~Ending(rows[a])
  BY <1>1 DEF Claimable, Startable, Ending
<1>3. \A status : Ended(rows[a], status) = rows[a]
  BY <1>2 DEF Ended
<1>4. rows \in [Alerts -> RowType]
  BY DEF IInv, TypeOK, RowType
<1>5. ASSUME NEW c \in Calls, Step(c) PROVE rows'[a].status = rows[a].status
  <2>1. CASE rows' = rows
    BY <2>1
  <2>2. CASE Claim(c) \/ Begin(c) \/ BeginThrows(c)
    BY <1>2, <1>4, <2>2 DEF Claim, Begin, BeginThrows
  <2>3. CASE MarkSent(c) \/ MarkSentThrows(c) \/ MarkUncertain(c)
    <3>1. \/ rows' = rows
          \/ \E status : rows' = [rows EXCEPT ![at[c]] = Ended(rows[at[c]], status)]
      BY <2>3 DEF MarkSent, MarkSentThrows, MarkUncertain
    <3> QED BY <1>3, <1>4, <3>1
  <2> QED BY <1>5, <2>1, <2>2, <2>3 DEF Step, Start, NextAlert, Send, Answer, Abort
<1>6. CASE Reconcile
  <2>1. a \notin Unresolved
    BY <1>2 DEF Unresolved
  <2> QED BY <1>6, <2>1 DEF Reconcile
<1>7. ASSUME NEW b \in Alerts, Lapse(b) PROVE rows'[a].status = rows[a].status
  BY <1>4, <1>7 DEF Lapse, RowType
<1> QED BY <1>5, <1>6, <1>7 DEF Next, vars

\* No later detection, claim, late owner or reconciliation changes what has been
\* recorded of a delivery.
THEOREM OutcomesStand == Spec => OutcomeStands
<1>1. IInv /\ [Next]_vars =>
        [\A a \in Alerts : rows[a].status \in Terminal => rows'[a].status = rows[a].status]_vars
  BY StepKeepsOutcomes
<1> QED BY <1>1, InductiveInvariant, PTL DEF Spec, OutcomeStands


-----------------------------------------------------------------------------
(* The named periods.                                                      *)

Months == 1..Len(MonthLengths)

LEMMA MonthsFollow ==
  /\ Len(MonthLengths) \in Nat
  /\ \A m \in Months : /\ MonthLengths[m] \in 28..31
                       /\ MonthStart[m] \in Int
                       /\ MonthStart[m + 1] = MonthStart[m] + MonthLengths[m]
<1>1. /\ Len(MonthLengths) \in Nat /\ DOMAIN MonthLengths = Months
      /\ \A m \in Months : MonthLengths[m] \in 28..31
  BY CalendarAssumption DEF Months
<1>2. ASSUME NEW m \in Months
      PROVE  MonthStart[m] \in Int /\ MonthStart[m + 1] = MonthStart[m] + MonthLengths[m]
  <2>1. m \in Nat /\ m >= 1 /\ m <= Len(MonthLengths) /\ Len(MonthLengths) \in Nat
    BY <1>1 DEF Months
  <2>2. PICK S, T : S = 1..m /\ T = 1..(m - 1)
    OBVIOUS
  <2>3. S \ {m} = T /\ m \in S /\ T \in SUBSET S
    BY <2>1, <2>2
  <2>4. S \subseteq Months
    BY <2>1, <2>2 DEF Months
  <2>5. IsFiniteSet(S)
    BY <2>1, <2>2, FS_Interval
  <2>6. Integral(MonthLengths, S)
    BY <1>1, <2>4, <2>5 DEF Integral
  <2>7. SumFunctionOnSet(MonthLengths, S) = MonthLengths[m] + SumFunctionOnSet(MonthLengths, T)
    BY <2>3, <2>6, SumRemove
  <2>8. SumFunctionOnSet(MonthLengths, T) \in Int
    BY <2>3, <2>6, SumSubsetInt
  <2>9. /\ MonthStart[m] = FirstMonth + SumFunctionOnSet(MonthLengths, T)
        /\ MonthStart[m + 1] = FirstMonth + SumFunctionOnSet(MonthLengths, S)
        /\ FirstMonth \in Int /\ MonthLengths[m] \in Int
    <3>1. (m + 1) - 1 = m /\ m \in 1..(Len(MonthLengths) + 1) /\ m + 1 \in 1..(Len(MonthLengths) + 1)
      BY <2>1
    <3> QED BY <1>1, <2>2, <3>1, CalendarAssumption DEF MonthStart
  <2> QED BY <2>7, <2>8, <2>9
<1> QED
  BY <1>1, <1>2

LEMMA MonthsGrow ==
  \A m \in Months, n \in Nat : n > m /\ n <= Len(MonthLengths) + 1 =>
    MonthStart[n] \in Int /\ MonthStart[m + 1] <= MonthStart[n]
<1> SUFFICES ASSUME NEW m \in Months
             PROVE  \A n \in Nat : n > m /\ n <= Len(MonthLengths) + 1 =>
                      MonthStart[n] \in Int /\ MonthStart[m + 1] <= MonthStart[n]
  OBVIOUS
<1> DEFINE G == {k \in Nat : m + k <= Len(MonthLengths) =>
                   MonthStart[m + k + 1] \in Int /\ MonthStart[m + 1] <= MonthStart[m + k + 1]}
<1>1. 0 \in G
  BY MonthsFollow DEF Months
<1>2. ASSUME NEW k \in Nat, k \in G
      PROVE  k + 1 \in G
  <2> SUFFICES ASSUME m + (k + 1) <= Len(MonthLengths)
               PROVE  /\ MonthStart[m + (k + 1) + 1] \in Int
                      /\ MonthStart[m + 1] <= MonthStart[m + (k + 1) + 1]
    OBVIOUS
  <2>1. PICK n \in Months : n = m + (k + 1) /\ n = m + k + 1
    BY MonthsFollow DEF Months
  <2>2. MonthStart[n] \in Int /\ MonthStart[m + 1] <= MonthStart[n]
    BY <1>2, <2>1, MonthsFollow DEF Months
  <2>3. MonthStart[n + 1] = MonthStart[n] + MonthLengths[n] /\ MonthLengths[n] \in 28..31
    BY MonthsFollow
  <2>4. MonthStart[m + 1] \in Int
    BY MonthsFollow DEF Months
  <2> QED
    BY <2>1, <2>2, <2>3, <2>4
<1>3. Nat \subseteq G
  <2> HIDE DEF G
  <2> QED BY <1>1, <1>2, CountUp
<1>4. ASSUME NEW n \in Nat, n > m, n <= Len(MonthLengths) + 1
      PROVE  MonthStart[n] \in Int /\ MonthStart[m + 1] <= MonthStart[n]
  <2>1. PICK k \in Nat : n = m + k + 1
    <3>1. n - m - 1 \in Nat
      BY <1>4 DEF Months
    <3> QED BY <3>1 DEF Months
  <2>2. k \in G /\ m + k <= Len(MonthLengths)
    BY <1>3, <1>4, <2>1, MonthsFollow DEF Months
  <2> QED BY <2>1, <2>2
<1> QED
  BY <1>4

LEMMA MonthIs ==
  ASSUME NEW m \in Months, NEW d \in Int, MonthStart[m] <= d, d < MonthStart[m + 1]
  PROVE  MonthOf(d) = m
<1>1. ASSUME NEW n \in Months, MonthStart[n] <= d, d < MonthStart[n + 1]
      PROVE  n = m
  <2>1. \A x \in Months : MonthStart[x] \in Int /\ MonthStart[x + 1] \in Int
    BY MonthsFollow
  <2>2. ~(n > m)
    <3>1. n > m => MonthStart[m + 1] <= MonthStart[n]
      BY MonthsGrow, MonthsFollow DEF Months
    <3> QED BY <1>1, <2>1, <3>1
  <2>3. ~(m > n)
    <3>1. m > n => MonthStart[n + 1] <= MonthStart[m]
      BY MonthsGrow, MonthsFollow DEF Months
    <3> QED BY <1>1, <2>1, <3>1
  <2> QED BY <2>2, <2>3 DEF Months
<1> QED
  BY <1>1 DEF MonthOf, Months

LEMMA MonthFound ==
  ASSUME NEW d \in Int, FirstDay <= d, d <= LastDay
  PROVE  \E m \in Months : m >= 2 /\ MonthStart[m] <= d /\ d < MonthStart[m + 1]
<1>1. /\ Len(MonthLengths) \in Nat /\ Len(MonthLengths) > 0 /\ FirstDay \in Int /\ LastDay \in Int
      /\ MonthStart[2] <= FirstDay /\ LastDay < MonthStart[Len(MonthLengths) + 1]
  BY CalendarAssumption
<1>2. 1 \in Months /\ Len(MonthLengths) \in Months
  BY <1>1 DEF Months
<1>3. \A m \in Months : MonthStart[m] \in Int /\ MonthStart[m + 1] \in Int
  BY MonthsFollow
<1>4. MonthStart[2] \in Int /\ MonthStart[Len(MonthLengths) + 1] \in Int
  <2>1. MonthStart[1 + 1] \in Int
    BY <1>2, <1>3
  <2> QED BY <1>2, <1>3, <2>1
<1> DEFINE T == {m \in Months : d < MonthStart[m + 1]}
<1>5. T \subseteq Nat /\ T # {}
  BY <1>1, <1>2, <1>4 DEF Months
<1>6. PICK m \in T : \A n \in T : m <= n
  BY <1>5, Least
<1>7. m # 1
  <2>1. ~(d < MonthStart[2])
    BY <1>1, <1>4
  <2> QED BY <2>1
<1>8. m \in Months /\ m - 1 \in Months /\ (m - 1) + 1 = m /\ m >= 2
  <2>1. m \in 1..Len(MonthLengths)
    BY DEF Months
  <2> HIDE DEF T
  <2> QED BY <1>1, <1>7, <2>1 DEF Months
<1>9. ~(d < MonthStart[m])
  <2>1. PICK n \in Months : n = m - 1 /\ n + 1 = m /\ ~(m <= n)
    BY <1>8 DEF Months
  <2> QED BY <1>6, <2>1
<1>10. d < MonthStart[m + 1]
  BY <1>6
<1> QED
  BY <1>3, <1>8, <1>9, <1>10

LEMMA MonthPeriods ==
  ASSUME NEW d \in Int, FirstDay <= d, d <= LastDay
  PROVE  /\ SaneSpan(Resolved("THIS_MONTH", d)) /\ SaneSpan(Resolved("LAST_MONTH", d))
         /\ Resolved("THIS_MONTH", d).from <= d /\ d <= Resolved("THIS_MONTH", d).to
         /\ Resolved("LAST_MONTH", d).to + 1 = Resolved("THIS_MONTH", d).from
         /\ \A x \in Resolved("LAST_MONTH", d).from..Resolved("LAST_MONTH", d).to :
              Resolved("THIS_MONTH", x) = Resolved("LAST_MONTH", d)
<1>1. PICK m \in Months : m >= 2 /\ MonthStart[m] <= d /\ d < MonthStart[m + 1]
  BY MonthFound
<1>2. PICK l \in Months : l + 1 = m
  <2>1. m - 1 \in Months /\ (m - 1) + 1 = m
    BY <1>1, MonthsFollow DEF Months
  <2> QED BY <2>1
<1>3. PICK s, t, u \in Int : s = MonthStart[l] /\ t = MonthStart[m] /\ u = MonthStart[m + 1]
  BY MonthsFollow
<1>4. PICK a, b \in 28..31 : /\ a = MonthLengths[l] /\ b = MonthLengths[m]
                             /\ t = s + a /\ u = t + b
  BY <1>2, <1>3, MonthsFollow
<1>5. MonthOf(d) = m
  BY <1>1, MonthIs
<1>6. ASSUME NEW x \in Int, s <= x, x < t
      PROVE  MonthOf(x) = l
  <2>1. MonthStart[l] <= x /\ x < MonthStart[l + 1]
    BY <1>2, <1>3, <1>6
  <2> QED BY <2>1, MonthIs
<1>7. FirstOfMonth(d) = t /\ LastOfMonth(d) = u - 1
  <2>1. FirstOfMonth(d) = t
    BY <1>3, <1>5 DEF FirstOfMonth
  <2>2. LastOfMonth(d) = t + b - 1
    BY <1>4, <1>5, <2>1 DEF LastOfMonth
  <2> QED BY <1>4, <2>1, <2>2
<1>8. ASSUME NEW x \in Int, s <= x, x < t
      PROVE  FirstOfMonth(x) = s /\ LastOfMonth(x) = t - 1
  <2>1. FirstOfMonth(x) = s
    BY <1>3, <1>6, <1>8 DEF FirstOfMonth
  <2>2. LastOfMonth(x) = s + a - 1
    BY <1>4, <1>6, <1>8, <2>1 DEF LastOfMonth
  <2> QED BY <1>4, <2>1, <2>2
<1>9. FirstOfMonth(t - 1) = s
  BY <1>4, <1>8
<1>10. /\ Resolved("THIS_MONTH", d) = Span(t, u - 1)
       /\ Resolved("LAST_MONTH", d) = Span(s, t - 1)
       /\ \A x \in s..(t - 1) : Resolved("THIS_MONTH", x) = Span(s, t - 1)
  BY <1>7, <1>8, <1>9 DEF Resolved
<1>11. d \in t..(u - 1) /\ WidestPeriod \in Nat /\ WidestPeriod >= 31
  BY <1>1, <1>3, CalendarAssumption
<1> QED
  BY <1>4, <1>10, <1>11 DEF Span, SaneSpan

LEMMA WeekPeriods ==
  ASSUME NEW d \in Int
  PROVE  /\ SaneSpan(Resolved("THIS_WEEK", d)) /\ SaneSpan(Resolved("LAST_WEEK", d))
         /\ Resolved("THIS_WEEK", d).from <= d /\ d <= Resolved("THIS_WEEK", d).to
         /\ Resolved("LAST_WEEK", d).to + 1 = Resolved("THIS_WEEK", d).from
         /\ \A x \in Resolved("LAST_WEEK", d).from..Resolved("LAST_WEEK", d).to :
              Resolved("THIS_WEEK", x) = Resolved("LAST_WEEK", d)
<1>1. ASSUME NEW x \in Int
      PROVE  /\ StartOfWeek(x) \in Int /\ StartOfWeek(x) <= x /\ x <= StartOfWeek(x) + 6
             /\ (StartOfWeek(x) + 3) % 7 = 0
  BY DEF StartOfWeek, WeekDay
<1>2. PICK s \in Int : s = StartOfWeek(d)
  BY <1>1
<1>3. ASSUME NEW x \in (s - 7)..(s - 1)
      PROVE  StartOfWeek(x) = s - 7
  <2>1. PICK r \in Int : r = StartOfWeek(x)
    BY <1>1
  <2>2. r <= x /\ x <= r + 6 /\ (r + 3) % 7 = 0 /\ (s + 3) % 7 = 0
    BY <1>1, <1>2, <2>1
  <2> QED BY <2>1, <2>2
<1>4. /\ Resolved("THIS_WEEK", d) = Span(s, s + 6)
      /\ Resolved("LAST_WEEK", d) = Span(s - 7, s - 1)
      /\ \A x \in (s - 7)..(s - 1) : Resolved("THIS_WEEK", x) = Span(s - 7, s - 1)
  BY <1>2, <1>3 DEF Resolved
<1>5. s <= d /\ d <= s + 6 /\ WidestPeriod \in Nat /\ WidestPeriod >= 31
  BY <1>1, <1>2, CalendarAssumption
<1> QED
  BY <1>4, <1>5 DEF Span, SaneSpan

\* Whatever the months and the day, the named periods are accepted, the current ones
\* hold the day, and each previous one is the whole period before the current one.
THEOREM NamedPeriodsJoin == CalendarSpec => []PeriodsJoin
<1> DEFINE Inv == today \in Int /\ FirstDay <= today /\ today <= LastDay
<1>1. CalendarInit => Inv
  BY CalendarAssumption DEF CalendarInit
<1>2. Inv /\ [Midnight]_today => Inv'
  BY CalendarAssumption DEF Midnight
<1>3. Inv => PeriodsJoin
  <2> SUFFICES ASSUME Inv
               PROVE  PeriodsJoin
    OBVIOUS
  <2>1. WidestPeriod \in Nat /\ WidestPeriod >= 31
    BY CalendarAssumption
  <2>2. /\ Resolved("TODAY", today) = Span(today, today)
        /\ Resolved("YESTERDAY", today) = Span(today - 1, today - 1)
    BY DEF Resolved
  <2>3. SaneSpan(DashboardSpan(today))
    BY <2>1 DEF SaneSpan, DashboardSpan, Span
  <2>4. /\ SaneSpan(Resolved("TODAY", today)) /\ SaneSpan(Resolved("YESTERDAY", today))
        /\ Resolved("TODAY", today).from <= today /\ today <= Resolved("TODAY", today).to
        /\ Resolved("YESTERDAY", today).to + 1 = Resolved("TODAY", today).from
    BY <2>1, <2>2 DEF SaneSpan, Span
  <2> QED
    BY <2>3, <2>4, MonthPeriods, WeekPeriods DEF PeriodsJoin, Names
<1> QED
  BY <1>1, <1>2, <1>3, PTL DEF CalendarSpec

-----------------------------------------------------------------------------
(* Local dates.                                                            *)

LEMMA Days ==
  ASSUME NEW a \in Int, NEW b \in Int
  PROVE  /\ a * Day \in Int
         /\ a <= b => a * Day <= b * Day
         /\ a < b => a * Day + Day <= b * Day
         /\ a * Day < b * Day => a < b
<1>1. Day \in Nat /\ Day > 0
  BY DayAssumption
<1>2. ASSUME NEW x \in Int, NEW y \in Int, x <= y
      PROVE  x * Day <= y * Day
  <2>1. PICK k \in Nat : y = x + k
    <3>1. y - x \in Nat /\ y = x + (y - x)
      BY <1>2
    <3> QED BY <3>1
  <2>2. y * Day = x * Day + k * Day /\ k * Day >= 0
    BY <1>1, <2>1
  <2>3. x * Day \in Int /\ y * Day \in Int /\ k * Day \in Int
    BY <1>1
  <2> QED BY <2>2, <2>3
<1>3. a < b => a * Day + Day <= b * Day
  <2> SUFFICES ASSUME a < b
               PROVE  a * Day + Day <= b * Day
    OBVIOUS
  <2>1. (a + 1) * Day <= b * Day
    BY <1>2
  <2>2. (a + 1) * Day = a * Day + Day
    BY <1>1
  <2> QED BY <2>1, <2>2
<1>4. a * Day \in Int /\ b * Day \in Int
  BY <1>1
<1>5. a * Day < b * Day => a < b
  <2>1. b <= a => b * Day <= a * Day
    BY <1>2
  <2> QED BY <1>4, <2>1
<1> QED BY <1>2, <1>3, <1>4, <1>5

LEMMA DateOf ==
  ASSUME NEW x \in Int
  PROVE  /\ x \div Day \in Int
         /\ (x \div Day) * Day <= x
         /\ x < (x \div Day) * Day + Day
<1>1. Day \in Nat /\ Day > 0
  BY DayAssumption
<1> QED BY <1>1

LEMMA ZoneIs ==
  ASSUME NEW z \in Zones
  PROVE  /\ z.before \in Int /\ z.after \in Int /\ z.at \in Int /\ Day \in Int /\ Day > 0
         /\ z.after - z.before < Day /\ z.before - z.after < Day
BY ZoneAssumption, DayAssumption

LEMMA ClockInt ==
  ASSUME NEW z \in Zones, NEW x \in Int
  PROVE  /\ LocalTime(z, x) \in Int /\ LocalDate(z, x) \in Int /\ FromLocal(z, x) \in Int
         /\ DayStart(z, x) \in Int
<1>1. Offset(z, x) \in Int /\ LocalTime(z, x) \in Int /\ FromLocal(z, x) \in Int
  BY ZoneIs DEF Offset, LocalTime, FromLocal
<1>2. LocalDate(z, x) \in Int
  BY <1>1, DateOf DEF LocalDate
<1>3. DayStart(z, x) \in Int
  <2>1. PICK l \in Int : l = x * Day
    BY Days
  <2>2. \A y \in Int : Offset(z, y) \in Int
    BY ZoneIs DEF Offset
  <2> QED BY <2>1, <2>2 DEF DayStart
<1> QED BY <1>1, <1>2, <1>3

\* A local time that has begun is shown.
LEMMA BegunIsShown ==
  ASSUME NEW z \in Zones, NEW l \in Int, NEW x \in Int, FromLocal(z, l) <= x
  PROVE  l <= LocalTime(z, x)
BY ZoneIs DEF FromLocal, LocalTime, Offset

\* Of two local times a day apart, the earlier begins first.
LEMMA BeginsInOrder ==
  ASSUME NEW z \in Zones, NEW l \in Int, NEW m \in Int, l + Day <= m
  PROVE  FromLocal(z, l) < FromLocal(z, m)
BY ZoneIs DEF FromLocal

LEMMA MidnightsInOrder ==
  ASSUME NEW z \in Zones, NEW c \in Int, NEW d \in Int
  PROVE  /\ FromLocal(z, c * Day) \in Int
         /\ c < d => FromLocal(z, c * Day) < FromLocal(z, d * Day)
         /\ c <= d => FromLocal(z, c * Day) <= FromLocal(z, d * Day)
         /\ FromLocal(z, c * Day) <= FromLocal(z, d * Day) => c <= d
<1>1. ASSUME NEW x \in Int, NEW y \in Int, x < y
      PROVE  FromLocal(z, x * Day) < FromLocal(z, y * Day)
  BY <1>1, Days, BeginsInOrder
<1>2. FromLocal(z, c * Day) \in Int /\ FromLocal(z, d * Day) \in Int
  BY Days, ClockInt
<1>3. c = d \/ c < d \/ d < c
  OBVIOUS
<1> QED BY <1>1, <1>2, <1>3

\* Where a date begins: its midnight, with one offset or the other.
LEMMA DayStartIs ==
  ASSUME NEW z \in Zones, NEW d \in Int, NEW l \in Int, l = d * Day
  PROVE  /\ DayStart(z, d) \in {l - z.before, l - z.after}
         /\ DayStart(z, d) = l - z.before =>
              l - z.before < z.at \/ l - z.after < z.at \/ z.before = z.after
         /\ DayStart(z, d) = l - z.after =>
              z.at <= l - z.before \/ z.at <= l - z.after \/ z.before = z.after
BY ZoneIs DEF DayStart, Offset

LEMMA StartIsShown ==
  ASSUME NEW z \in Zones, NEW d \in Int
  PROVE  /\ LocalDate(z, DayStart(z, d)) \in (d - 1)..d
         /\ LocalDate(z, DayStart(z, d) - 1) \in (d - 1)..d
<1>1. PICK l \in Int : l = d * Day
  BY Days
<1>2. PICK s \in Int : s = DayStart(z, d)
  BY ClockInt
<1>3. s = l - z.before \/ s = l - z.after
  BY <1>1, <1>2, DayStartIs
<1>4. /\ l - Day < LocalTime(z, s) /\ LocalTime(z, s) < l + Day
      /\ l - Day <= LocalTime(z, s - 1) /\ LocalTime(z, s - 1) < l + Day
  BY <1>3, ZoneIs DEF LocalTime, Offset
<1>5. ASSUME NEW x \in Int, l - Day <= x, x < l + Day
      PROVE  x \div Day \in (d - 1)..d
  <2>1. PICK q \in Int : q = x \div Day
    BY DateOf
  <2>2. q * Day <= x /\ x < q * Day + Day
    BY <2>1, DateOf
  <2>3. (d - 1) * Day \in Int /\ (d + 1) * Day \in Int /\ q * Day \in Int /\ (q + 1) * Day \in Int
    BY Days
  <2>4. (d - 1) * Day = l - Day /\ (d + 1) * Day = l + Day /\ (q + 1) * Day = q * Day + Day
    BY <1>1, DayAssumption
  <2>5. q * Day < (d + 1) * Day /\ (d - 1) * Day < (q + 1) * Day
    BY <1>5, <2>2, <2>3, <2>4
  <2>6. q < d + 1 /\ d - 1 < q + 1
    BY <2>5, Days
  <2> QED BY <2>1, <2>6
<1>6. LocalTime(z, s) \in Int /\ LocalTime(z, s - 1) \in Int
  BY ClockInt
<1>7. l \in Int /\ Day \in Int
  BY ZoneIs
<1> QED
  BY <1>2, <1>4, <1>5, <1>6, <1>7 DEF LocalDate

LEMMA PeriodHolds ==
  ASSUME NEW z \in Zones, NEW from \in Int, NEW to \in Int, from <= to
  PROVE  DayStart(z, from) < DayStart(z, to + 1)
<1>1. PICK l, m \in Int : l = from * Day /\ m = (to + 1) * Day
  BY Days
<1>2. l + Day <= m
  BY <1>1, Days
<1>3. /\ DayStart(z, from) = l - z.before \/ DayStart(z, from) = l - z.after
      /\ DayStart(z, to + 1) = m - z.before \/ DayStart(z, to + 1) = m - z.after
  BY <1>1, DayStartIs
<1> QED
  BY <1>2, <1>3, ZoneIs

-----------------------------------------------------------------------------
(* Cuts.                                                                   *)

LEMMA Greatest ==
  ASSUME NEW T \in SUBSET Int, NEW c \in T, NEW top \in Int, \A n \in T : n <= top
  PROVE  \E n \in T : \A m \in T : m <= n
<1> DEFINE U == {k \in Nat : top - k \in T}
<1>1. top - c \in U
  OBVIOUS
<1>2. PICK k \in U : \A j \in U : k <= j
  BY <1>1, Least
<1>3. ASSUME NEW m \in T
      PROVE  m <= top - k
  <2>1. top - m \in U
    OBVIOUS
  <2> QED BY <1>2, <2>1
<1> QED BY <1>2, <1>3

LEMMA TruncIs ==
  ASSUME NEW g \in Granularities, NEW d \in Int, \E c \in Cuts[g] : c <= d
  PROVE  /\ Trunc(g, d) \in Cuts[g] /\ Trunc(g, d) \in Int /\ Trunc(g, d) <= d
         /\ \A c \in Cuts[g] : c <= d => c <= Trunc(g, d)
<1> DEFINE T == {c \in Cuts[g] : c <= d}
<1>1. Cuts[g] \subseteq Int /\ T \in SUBSET Int
  BY CutAssumption
<1>2. PICK n \in T : \A m \in T : m <= n
  BY <1>1, Greatest
<1> QED
  BY <1>1, <1>2 DEF Trunc

LEMMA NextCutIs ==
  ASSUME NEW g \in Granularities, NEW d \in Int, \E c \in Cuts[g] : c > d
  PROVE  /\ NextCut(g, d) \in Cuts[g] /\ NextCut(g, d) \in Int /\ NextCut(g, d) > d
         /\ \A c \in Cuts[g] : c > d => NextCut(g, d) <= c
<1> DEFINE T == {-c : c \in {x \in Cuts[g] : x > d}}
<1>1. Cuts[g] \subseteq Int /\ T \in SUBSET Int
  BY CutAssumption
<1>2. \A n \in T : n <= -d
  BY <1>1
<1>3. PICK n \in T : \A m \in T : m <= n
  <2>1. T # {} /\ -d \in Int
    OBVIOUS
  <2> HIDE DEF T
  <2> QED BY <1>1, <1>2, <2>1, Greatest
<1>4. -n \in Cuts[g] /\ -n > d /\ \A c \in Cuts[g] : c > d => -n <= c
  <2>1. \A c \in Cuts[g] : c > d => -c \in T
    OBVIOUS
  <2> QED BY <1>1, <1>3, <2>1
<1> QED
  BY <1>1, <1>4 DEF NextCut

\* Dates that can be asked about: there are cuts before and after them.
Askable(g, from, to) ==
  /\ g \in Granularities /\ from \in Int /\ to \in Int /\ from <= to
  /\ \E c \in Cuts[g] : c < from
  /\ \E c \in Cuts[g] : c > to + 1

LEMMA PeriodIs ==
  ASSUME NEW z \in Zones, NEW g, NEW from, NEW to, Askable(g, from, to),
         NEW p, p = Period(z, from, to)
  PROVE  /\ p.start = DayStart(z, from) /\ p.end = DayStart(z, to + 1)
         /\ p.start \in Int /\ p.end \in Int /\ p.start < p.end
         /\ LocalDate(z, p.start) \in (from - 1)..from
         /\ LocalDate(z, p.end - 1) \in to..(to + 1)
<1>1. from \in Int /\ to \in Int /\ to + 1 \in Int /\ from <= to
  BY DEF Askable
<1>2. p.start = DayStart(z, from) /\ p.end = DayStart(z, to + 1)
  BY DEF Period
<1>3. LocalDate(z, p.start) \in (from - 1)..from
  BY <1>1, <1>2, StartIsShown
<1>4. LocalDate(z, p.end - 1) \in ((to + 1) - 1)..(to + 1)
  BY <1>1, <1>2, StartIsShown
<1> QED
  BY <1>1, <1>2, <1>3, <1>4, ClockInt, PeriodHolds

LEMMA CutsOfPeriod ==
  ASSUME NEW z \in Zones, NEW g, NEW from, NEW to, Askable(g, from, to),
         NEW p, p = Period(z, from, to), NEW first, first = Trunc(g, LocalDate(z, p.start))
  PROVE  /\ first \in Cuts[g] /\ first \in Int /\ first <= LocalDate(z, p.start)
         /\ IsFiniteSet(BucketCuts(z, p, g)) /\ BucketCuts(z, p, g) \subseteq Int
         /\ \A c \in BucketCuts(z, p, g) :
              /\ c \in Cuts[g] /\ first <= c /\ c <= LocalDate(z, p.end - 1)
              /\ NextCut(g, c) \in Cuts[g] /\ NextCut(g, c) \in Int /\ NextCut(g, c) > c
              /\ \A d \in Cuts[g] : d > c => NextCut(g, c) <= d
<1>1. PICK s, e \in Int : /\ s = LocalDate(z, p.start) /\ e = LocalDate(z, p.end - 1)
                          /\ from - 1 <= s /\ e <= to + 1
  <2>1. from \in Int /\ to \in Int
    BY DEF Askable
  <2>2. LocalDate(z, p.start) \in (from - 1)..from /\ LocalDate(z, p.end - 1) \in to..(to + 1)
    BY PeriodIs
  <2> QED BY <2>1, <2>2
<1>2. from \in Int /\ to \in Int /\ g \in Granularities
  BY DEF Askable
<1>3. \E c \in Cuts[g] : c <= s
  <2>1. PICK c \in Cuts[g] : c < from
    BY DEF Askable
  <2>2. c \in Int
    BY <1>2, CutAssumption
  <2> QED BY <1>1, <1>2, <2>1, <2>2
<1>4. first \in Cuts[g] /\ first \in Int /\ first <= s
  BY <1>1, <1>2, <1>3, TruncIs
<1>5. BucketCuts(z, p, g) = {c \in Cuts[g] : first <= c /\ c <= e}
  BY <1>1 DEF BucketCuts
<1>6. BucketCuts(z, p, g) \subseteq first..e
  BY <1>2, <1>4, <1>5, CutAssumption
<1>7. IsFiniteSet(first..e)
  BY <1>1, <1>4, FS_Interval
<1>8. IsFiniteSet(BucketCuts(z, p, g))
  BY <1>6, <1>7, FS_Subset
<1>9. ASSUME NEW c \in BucketCuts(z, p, g)
      PROVE  /\ c \in Cuts[g] /\ first <= c /\ c <= e
             /\ NextCut(g, c) \in Cuts[g] /\ NextCut(g, c) \in Int /\ NextCut(g, c) > c
             /\ \A d \in Cuts[g] : d > c => NextCut(g, c) <= d
  <2>1. c \in Cuts[g] /\ first <= c /\ c <= e /\ c \in Int
    BY <1>2, <1>5, CutAssumption
  <2>2. PICK n \in Cuts[g] : n > to + 1
    BY DEF Askable
  <2>3. n \in Int /\ n > c
    BY <1>1, <1>2, <2>1, <2>2, CutAssumption
  <2> QED BY <1>2, <2>1, <2>2, <2>3, NextCutIs
<1> QED
  BY <1>1, <1>4, <1>6, <1>8, <1>9

In(x, p) == p.start <= x /\ x < p.end

LEMMA BucketIs ==
  ASSUME NEW z \in Zones, NEW g, NEW from, NEW to, Askable(g, from, to),
         NEW p, p = Period(z, from, to), NEW c \in BucketCuts(z, p, g)
  PROVE  /\ Bucket(z, g, c).start = FromLocal(z, c * Day) /\ Bucket(z, g, c).start \in Int
         /\ Buckets(z, p, g)[c].start \in Int /\ Buckets(z, p, g)[c].end \in Int
         /\ \A x \in Int : In(x, Buckets(z, p, g)[c]) <=>
              /\ p.start <= x /\ x < p.end
              /\ FromLocal(z, c * Day) <= x /\ x < FromLocal(z, NextCut(g, c) * Day)
<1>1. c \in Int /\ NextCut(g, c) \in Int
  BY CutsOfPeriod
<1>2. PICK a, b, s, e \in Int : /\ a = FromLocal(z, c * Day) /\ b = FromLocal(z, NextCut(g, c) * Day)
                                /\ s = p.start /\ e = p.end
  BY <1>1, MidnightsInOrder, PeriodIs
<1>3. Bucket(z, g, c).start = a /\ Bucket(z, g, c).end = b
  BY <1>2 DEF Bucket
<1>4. /\ Buckets(z, p, g)[c].start = Later(a, s)
      /\ Buckets(z, p, g)[c].end = Earlier(b, e)
  BY <1>2, <1>3 DEF Buckets, Clipped
<1>5. /\ Later(a, s) \in Int /\ Earlier(b, e) \in Int
      /\ \A x \in Int : (Later(a, s) <= x /\ x < Earlier(b, e)) <=> (s <= x /\ x < e /\ a <= x /\ x < b)
  BY DEF Later, Earlier
<1> QED
  BY <1>2, <1>3, <1>4, <1>5 DEF In

\* Every instant of a period from its first bucket on is in one bucket, and no earlier one.
LEMMA BucketsPartition ==
  ASSUME NEW z \in Zones, NEW g, NEW from, NEW to, Askable(g, from, to),
         NEW p, p = Period(z, from, to), NEW first, first = Trunc(g, LocalDate(z, p.start)),
         NEW x \in Int
  PROVE  /\ In(x, p) /\ FromLocal(z, first * Day) <= x =>
              \E c \in BucketCuts(z, p, g) : In(x, Buckets(z, p, g)[c])
         /\ \A c \in BucketCuts(z, p, g) : In(x, Buckets(z, p, g)[c]) =>
              In(x, p) /\ FromLocal(z, first * Day) <= x
         /\ \A c, d \in BucketCuts(z, p, g) :
              In(x, Buckets(z, p, g)[c]) /\ In(x, Buckets(z, p, g)[d]) => c = d
<1> DEFINE C == BucketCuts(z, p, g)
           start(c) == FromLocal(z, c * Day)
<1>1. /\ first \in Cuts[g] /\ first \in Int /\ C \subseteq Int
      /\ \A c \in C : /\ c \in Cuts[g] /\ first <= c /\ c <= LocalDate(z, p.end - 1)
                      /\ NextCut(g, c) \in Cuts[g] /\ NextCut(g, c) \in Int /\ NextCut(g, c) > c
                      /\ \A d \in Cuts[g] : d > c => NextCut(g, c) <= d
  BY CutsOfPeriod
<1>2. p.start \in Int /\ p.end \in Int
  BY PeriodIs
<1>3. ASSUME In(x, p), start(first) <= x
      PROVE  \E c \in C : In(x, Buckets(z, p, g)[c])
  <2> DEFINE T == {c \in C : start(c) <= x}
  <2>1. ASSUME NEW c \in Cuts[g], first <= c, c \in Int, start(c) <= x
        PROVE  c \in C
    <3>1. start(c) <= p.end - 1 /\ p.end - 1 \in Int /\ start(c) \in Int
      BY <1>2, <1>3, <2>1, MidnightsInOrder DEF In
    <3>2. c * Day \in Int /\ c * Day <= LocalTime(z, p.end - 1)
      BY <2>1, <3>1, Days, BegunIsShown
    <3>3. PICK t \in Int : t = LocalTime(z, p.end - 1)
      BY <3>1, ClockInt
    <3>4. PICK q \in Int : q = t \div Day /\ t < q * Day + Day
      BY DateOf
    <3>5. q * Day + Day = (q + 1) * Day /\ (q + 1) * Day \in Int
      BY DayAssumption
    <3>6. c * Day < (q + 1) * Day
      BY <3>2, <3>3, <3>4, <3>5
    <3>7. c < q + 1
      BY <2>1, <3>6, Days
    <3>8. c <= LocalDate(z, p.end - 1)
      BY <2>1, <3>3, <3>4, <3>7 DEF LocalDate
    <3> QED BY <2>1, <3>8 DEF BucketCuts
  <2>2. first \in T
    BY <1>1, <1>3, <2>1
  <2>3. PICK c \in T : \A m \in T : m <= c
    <3>1. PICK top \in Int : \A n \in T : n <= top
      <4>1. LocalDate(z, p.end - 1) \in Int
        BY <1>2, ClockInt
      <4> QED BY <1>1, <4>1
    <3>2. T \in SUBSET Int
      BY <1>1
    <3> HIDE DEF T
    <3> QED BY <2>2, <3>1, <3>2, Greatest
  <2>4. PICK n \in Int : n = NextCut(g, c) /\ n > c /\ n \in Cuts[g] /\ first <= n
    BY <1>1
  <2>5. ~(start(n) <= x)
    <3>1. n \notin T
      BY <1>1, <2>3, <2>4
    <3> QED BY <2>1, <2>4, <3>1
  <2>6. start(n) \in Int
    BY <2>4, MidnightsInOrder
  <2> QED
    BY <1>3, <2>3, <2>4, <2>5, <2>6, BucketIs DEF In
<1>4. ASSUME NEW c \in C, In(x, Buckets(z, p, g)[c])
      PROVE  In(x, p) /\ start(first) <= x
  <2>1. In(x, p) /\ start(c) <= x
    BY <1>4, BucketIs DEF In
  <2>2. start(first) \in Int /\ start(c) \in Int /\ start(first) <= start(c)
    BY <1>1, MidnightsInOrder
  <2> QED BY <2>1, <2>2
<1>5. ASSUME NEW c \in C, NEW d \in C, c < d,
             In(x, Buckets(z, p, g)[c]), In(x, Buckets(z, p, g)[d])
      PROVE  FALSE
  <2>1. PICK n \in Int : n = NextCut(g, c) /\ n <= d /\ d \in Int
    BY <1>1, <1>5
  <2>2. x < start(n) /\ start(d) <= x
    BY <1>5, <2>1, BucketIs
  <2>3. start(n) \in Int /\ start(d) \in Int /\ start(n) <= start(d)
    BY <2>1, MidnightsInOrder
  <2> QED BY <2>2, <2>3
<1> QED
  BY <1>1, <1>3, <1>4, <1>5

\* The first bucket begins with the period, or when the clock shows the same time again.
LEMMA MissedIsRepeated ==
  ASSUME NEW z \in Zones, NEW g, NEW from, NEW to, Askable(g, from, to),
         NEW p, p = Period(z, from, to), NEW first, first = Trunc(g, LocalDate(z, p.start)),
         p.start < FromLocal(z, first * Day)
  PROVE  LocalTime(z, p.start) = LocalTime(z, FromLocal(z, first * Day))
<1>1. PICK L, l, s, f \in Int : /\ L = from * Day /\ l = first * Day /\ s = p.start
                                /\ f = FromLocal(z, l)
  <2>1. from \in Int /\ first \in Int /\ p.start \in Int
    BY CutsOfPeriod, PeriodIs DEF Askable
  <2>2. from * Day \in Int /\ first * Day \in Int /\ FromLocal(z, first * Day) \in Int
    BY <2>1, Days, MidnightsInOrder
  <2> QED BY <2>1, <2>2
<1>2. PICK t \in Int : t = LocalTime(z, s)
  BY <1>1, ClockInt
<1>3. PICK q \in Int : q = LocalDate(z, s) /\ q * Day <= t /\ first <= q
  BY <1>1, <1>2, DateOf, CutsOfPeriod DEF LocalDate
<1>4. first \in Int /\ from \in Int
  BY CutsOfPeriod DEF Askable
<1>5. l <= t
  BY <1>1, <1>3, <1>4, Days
<1>6. l = L \/ l + Day <= L \/ L + Day <= l
  <2>1. first = from \/ first < from \/ from < first
    BY <1>4
  <2> QED BY <1>1, <1>4, <2>1, Days
<1>7. /\ s \in {L - z.before, L - z.after}
      /\ s = L - z.before => L - z.before < z.at \/ L - z.after < z.at \/ z.before = z.after
      /\ s = L - z.after => z.at <= L - z.before \/ z.at <= L - z.after \/ z.before = z.after
  BY <1>1, <1>4, PeriodIs, DayStartIs
<1>8. t = LocalTime(z, f)
  <2>1. s < f
    BY <1>1
  <2>2. CASE z.at <= s
    BY <1>1, <1>2, <1>5, <1>6, <1>7, <2>1, <2>2, ZoneIs DEF LocalTime, Offset, FromLocal
  <2>3. CASE ~(z.at <= s)
    BY <1>1, <1>2, <1>5, <1>6, <1>7, <2>1, <2>3, ZoneIs DEF LocalTime, Offset, FromLocal
  <2> QED BY <2>2, <2>3
<1> QED BY <1>1, <1>2, <1>8

-----------------------------------------------------------------------------
(* What a transaction moves.                                               *)

LEMMA OriginalEntries ==
  ASSUME NEW t \in Transactions, Reverses[t] = NONE
  PROVE  /\ Entries(t) = EntriesOf[t]
         /\ \E n \in Nat : DOMAIN Entries(t) = 1..n
         /\ \A i \in DOMAIN Entries(t) : Entries(t)[i] \in Entry
<1>1. Entries(t) = EntriesOf[t] /\ EntriesOf[t] \in Seq(Entry)
  BY TransactionAssumption DEF Entries
<1>2. PICK s \in Seq(Entry) : s = Entries(t)
  BY <1>1
<1>3. Len(s) \in Nat /\ DOMAIN s = 1..Len(s) /\ \A i \in DOMAIN s : s[i] \in Entry
  BY ElementOfSeq, LenProperties
<1> QED BY <1>1, <1>2, <1>3

LEMMA OriginalOf ==
  ASSUME NEW t \in Transactions, Reverses[t] # NONE
  PROVE  Reverses[t] \in Transactions /\ Reverses[Reverses[t]] = NONE
BY TransactionAssumption

LEMMA ReversedEntries ==
  ASSUME NEW t \in Transactions, Reverses[t] # NONE,
         NEW o, o = Reverses[t]
  PROVE  /\ DOMAIN Entries(t) = DOMAIN Entries(o)
         /\ \A i \in DOMAIN Entries(o) :
              /\ Entries(t)[i] \in Entry
              /\ Entries(t)[i].account = Entries(o)[i].account
              /\ Entries(t)[i].amount = Entries(o)[i].amount
              /\ Entries(t)[i].type = IF Entries(o)[i].type = "DEBIT" THEN "CREDIT" ELSE "DEBIT"
<1>1. o \in Transactions /\ Reverses[o] = NONE
  BY OriginalOf
<1>2. Entries(o) = EntriesOf[o] /\ \A i \in DOMAIN Entries(o) : Entries(o)[i] \in Entry
  BY <1>1, OriginalEntries
<1>3. PICK s : s = EntriesOf[o]
  OBVIOUS
<1> DEFINE swap(e) == [e EXCEPT !.type = IF @ = "DEBIT" THEN "CREDIT" ELSE "DEBIT"]
<1>4. Entries(t) = [i \in DOMAIN s |-> swap(s[i])]
  BY <1>3 DEF Entries
<1>5. ASSUME NEW e \in Entry
      PROVE  /\ swap(e) \in Entry /\ swap(e).account = e.account /\ swap(e).amount = e.amount
             /\ swap(e).type = IF e.type = "DEBIT" THEN "CREDIT" ELSE "DEBIT"
  BY DEF Entry, Sides
<1> HIDE DEF swap
<1>6. DOMAIN Entries(t) = DOMAIN s /\ \A i \in DOMAIN s : Entries(t)[i] = swap(s[i])
  BY <1>4
<1> QED
  BY <1>2, <1>3, <1>5, <1>6

LEMMA EntriesTyped ==
  ASSUME NEW t \in Transactions
  PROVE  /\ IsFiniteSet(DOMAIN Entries(t))
         /\ \A i \in DOMAIN Entries(t) : Entries(t)[i] \in Entry
<1>1. ASSUME NEW o \in Transactions, Reverses[o] = NONE
      PROVE  IsFiniteSet(DOMAIN Entries(o)) /\ \A i \in DOMAIN Entries(o) : Entries(o)[i] \in Entry
  BY <1>1, OriginalEntries, FS_Interval
<1>2. CASE Reverses[t] = NONE
  BY <1>1, <1>2
<1>3. CASE Reverses[t] # NONE
  BY <1>1, <1>3, OriginalOf, ReversedEntries
<1> QED BY <1>2, <1>3

\* An entry's amount, and its sign on either side of the balance.
LEMMA SignedIs ==
  ASSUME NEW e \in Entry
  PROVE  /\ e.account \in Accounts /\ e.type \in Sides /\ e.amount \in Int /\ Signed(e) \in Int
         /\ Signed(e) = IF (TypeOf[e.account] \in {"ASSET", "EXPENSE"}) <=> (e.type = "DEBIT")
                        THEN e.amount ELSE -e.amount
<1>1. e.account \in Accounts /\ e.type \in Sides /\ e.amount \in Int
  BY DEF Entry
<1>2. CASE TypeOf[e.account] \in {"ASSET", "EXPENSE"} /\ e.type = "DEBIT"
  BY <1>1, <1>2 DEF Signed
<1>3. CASE TypeOf[e.account] \in {"ASSET", "EXPENSE"} /\ e.type # "DEBIT"
  BY <1>1, <1>3 DEF Signed
<1>4. CASE TypeOf[e.account] \notin {"ASSET", "EXPENSE"} /\ e.type = "DEBIT"
  BY <1>1, <1>4 DEF Signed
<1>5. CASE TypeOf[e.account] \notin {"ASSET", "EXPENSE"} /\ e.type # "DEBIT"
  BY <1>1, <1>5 DEF Signed
<1> QED BY <1>2, <1>3, <1>4, <1>5

SignedOf(t) == [i \in DOMAIN Entries(t) |-> Signed(Entries(t)[i])]
On(t, accounts) == {i \in DOMAIN Entries(t) : Entries(t)[i].account \in accounts}

LEMMA DeltaIs ==
  ASSUME NEW t \in Transactions
  PROVE  /\ Integral(SignedOf(t), DOMAIN Entries(t)) /\ DOMAIN SignedOf(t) = DOMAIN Entries(t)
         /\ \A i \in DOMAIN Entries(t) : SignedOf(t)[i] = Signed(Entries(t)[i])
         /\ \A accounts : /\ On(t, accounts) \in SUBSET DOMAIN Entries(t)
                          /\ Delta(t, accounts) = SumFunctionOnSet(SignedOf(t), On(t, accounts))
                          /\ Delta(t, accounts) \in Int
<1>1. \A i \in DOMAIN Entries(t) : SignedOf(t)[i] = Signed(Entries(t)[i])
  BY DEF SignedOf
<1>2. Integral(SignedOf(t), DOMAIN Entries(t))
  BY <1>1, EntriesTyped, SignedIs DEF Integral
<1>3. ASSUME NEW accounts
      PROVE  /\ On(t, accounts) \in SUBSET DOMAIN Entries(t)
             /\ Delta(t, accounts) = SumFunctionOnSet(SignedOf(t), On(t, accounts))
             /\ Delta(t, accounts) \in Int
  <2>1. On(t, accounts) \in SUBSET DOMAIN Entries(t)
    BY DEF On
  <2>2. Delta(t, accounts) = SumFunctionOnSet(SignedOf(t), On(t, accounts))
    BY DEF Delta, SignedOf, On
  <2> QED BY <1>2, <2>1, <2>2, SumSubsetInt
<1> QED BY <1>1, <1>2, <1>3 DEF SignedOf

LEMMA MovesIntegral ==
  ASSUME NEW S, IsFiniteSet(S), S \subseteq Transactions, NEW accounts
  PROVE  /\ Integral(Moves(accounts), S)
         /\ \A t \in S : Moves(accounts)[t] = Delta(t, accounts)
BY DeltaIs DEF Integral, Moves

\* A reversal moves back what its original moved.
LEMMA ReversalMovesBack ==
  ASSUME NEW t \in Transactions, Reverses[t] # NONE, NEW accounts
  PROVE  Delta(t, accounts) = -Delta(Reverses[t], accounts)
<1>1. PICK o \in Transactions : o = Reverses[t]
  BY OriginalOf
<1>2. ASSUME NEW i \in DOMAIN Entries(o)
      PROVE  SignedOf(t)[i] = -SignedOf(o)[i]
  <2>1. PICK e, f : e = Entries(t)[i] /\ f = Entries(o)[i]
    OBVIOUS
  <2>2. /\ e \in Entry /\ f \in Entry /\ e.account = f.account /\ e.amount = f.amount
        /\ e.type = IF f.type = "DEBIT" THEN "CREDIT" ELSE "DEBIT"
    BY <1>1, <2>1, EntriesTyped, ReversedEntries
  <2>3. Signed(e) = -Signed(f)
    <3>1. CASE f.type = "DEBIT"
      BY <2>2, <3>1, SignedIs
    <3>2. CASE f.type # "DEBIT"
      BY <2>2, <3>2, SignedIs
    <3> QED BY <3>1, <3>2
  <2>4. SignedOf(t)[i] = Signed(e) /\ SignedOf(o)[i] = Signed(f)
    BY <1>1, <2>1, DeltaIs, ReversedEntries
  <2> QED BY <2>3, <2>4
<1>3. On(t, accounts) = On(o, accounts)
  BY <1>1, ReversedEntries DEF On
<1>4. Integral(SignedOf(o), On(o, accounts)) /\ \A i \in On(o, accounts) : i \in DOMAIN Entries(o)
  BY DeltaIs, IntegralParts
<1>5. SumFunctionOnSet(SignedOf(t), On(o, accounts)) = -SumFunctionOnSet(SignedOf(o), On(o, accounts))
  BY <1>2, <1>4, SumMinus
<1> QED
  BY <1>1, <1>3, <1>5, DeltaIs

\* What a transaction moves on some accounts is what it moves on each of them.
LEMMA DeltaParts ==
  ASSUME NEW t \in Transactions, NEW A \in SUBSET Accounts,
         NEW g, \A a \in A : g[a] = Delta(t, {a})
  PROVE  SumFunctionOnSet(g, A) = Delta(t, A)
<1> DEFINE S == On(t, A)
           f == SignedOf(t)
           p == [i \in DOMAIN Entries(t) |-> Entries(t)[i].account]
           class == [a \in A |-> On(t, {a})]
<1>1. Integral(f, S) /\ Delta(t, A) = SumFunctionOnSet(f, S)
  BY DeltaIs, IntegralParts
<1>2. IsFiniteSet(A)
  BY AccountAssumption, FS_Subset
<1>3. \A i \in S : p[i] \in A
  BY DEF On
<1>4. /\ \A a \in A : class[a] \in SUBSET S
      /\ \A a \in A, i \in S : i \in class[a] <=> p[i] = a
  BY DEF On
<1>5. \A a \in A : g[a] = SumFunctionOnSet(f, class[a])
  BY DeltaIs
<1> HIDE DEF S, f, p, class
<1>6. SumFunctionOnSet(g, A) = SumFunctionOnSet(f, S)
  BY <1>1, <1>2, <1>3, <1>4, <1>5, SumParts
<1> QED BY <1>1, <1>6

LEMMA MovedParts ==
  ASSUME NEW S, IsFiniteSet(S), S \subseteq Transactions, NEW A \in SUBSET Accounts,
         NEW g, \A a \in A : g[a] = SumFunctionOnSet(Moves({a}), S)
  PROVE  SumFunctionOnSet(g, A) = SumFunctionOnSet(Moves(A), S)
<1> DEFINE d == [a \in A |-> Moves({a})]
           e == [t \in S |-> [a \in A |-> Delta(t, {a})]]
<1>1. IsFiniteSet(A)
  BY AccountAssumption, FS_Subset
<1>2. \A a \in A : Integral(d[a], S) /\ g[a] = SumFunctionOnSet(d[a], S)
  BY MovesIntegral
<1>3. \A a \in A, t \in S : e[t][a] = d[a][t]
  BY DEF Moves
<1>4. \A t \in S : Moves(A)[t] = SumFunctionOnSet(e[t], A)
  <2>1. ASSUME NEW t \in S
        PROVE  Moves(A)[t] = SumFunctionOnSet(e[t], A)
    <3>1. PICK h : h = e[t]
      OBVIOUS
    <3>2. \A a \in A : h[a] = Delta(t, {a})
      BY <3>1
    <3>3. SumFunctionOnSet(h, A) = Delta(t, A)
      BY <3>2, DeltaParts
    <3> QED BY <3>1, <3>3, MovesIntegral
  <2> QED BY <2>1
<1>5. PICK lines, columns, m : lines = d /\ columns = e /\ m = Moves(A)
  OBVIOUS
<1> HIDE DEF d, e
<1>6. /\ \A a \in A : Integral(lines[a], S)
      /\ \A a \in A : g[a] = SumFunctionOnSet(lines[a], S)
      /\ \A a \in A, t \in S : columns[t][a] = lines[a][t]
      /\ \A t \in S : m[t] = SumFunctionOnSet(columns[t], A)
  BY <1>2, <1>3, <1>4, <1>5
<1>7. SumFunctionOnSet(g, A) = SumFunctionOnSet(m, S)
  BY <1>1, <1>6, SumSwap
<1> QED BY <1>5, <1>7

-----------------------------------------------------------------------------
(* Both sides of the balance.                                              *)

DebitTypes == {"ASSET", "EXPENSE"}
CreditTypes == {"LIABILITY", "EQUITY", "REVENUE"}
OfTypes(types) == {a \in Accounts : TypeOf[a] \in types}

LEMMA OriginalBalances ==
  ASSUME NEW t \in Transactions, Reverses[t] = NONE
  PROVE  Delta(t, OfTypes(DebitTypes)) = Delta(t, OfTypes(CreditTypes))
<1> DEFINE E == Entries(t)
           I == DOMAIN Entries(t)
           D == {i \in I : E[i].type = "DEBIT"}
           C == {i \in I : E[i].type = "CREDIT"}
           amount == [i \in I |-> E[i].amount]
           h == [i \in I |-> IF E[i].type = "DEBIT" THEN E[i].amount ELSE -E[i].amount]
           L == On(t, OfTypes(DebitTypes))
           R == On(t, OfTypes(CreditTypes))
           f == SignedOf(t)
<1>1. /\ IsFiniteSet(I) /\ Integral(f, I)
      /\ \A i \in I : E[i].amount \in Int /\ E[i].type \in Sides /\ E[i].account \in Accounts
  BY DeltaIs, EntriesTyped, SignedIs
<1>2. D \cup C = I /\ D \cap C = {}
  BY <1>1 DEF Sides
<1>3. L \cup R = I /\ L \cap R = {}
  BY <1>1, AccountAssumption DEF On, OfTypes, DebitTypes, CreditTypes
<1>4. Integral(h, I) /\ Integral(amount, I)
  BY <1>1 DEF Integral
<1>5. /\ \A i \in D : h[i] = amount[i]
      /\ \A i \in C : h[i] = -amount[i]
  BY <1>1
<1>6. /\ \A i \in L : h[i] = f[i]
      /\ \A i \in R : h[i] = -f[i]
  <2>1. ASSUME NEW i \in I
        PROVE  /\ i \in L => h[i] = f[i]
               /\ i \in R => h[i] = -f[i]
    <3>1. PICK e \in Entry : e = E[i]
      BY EntriesTyped
    <3>2. f[i] = Signed(e) /\ h[i] = IF e.type = "DEBIT" THEN e.amount ELSE -e.amount
      BY <3>1, DeltaIs
    <3>3. /\ i \in L => TypeOf[e.account] \in {"ASSET", "EXPENSE"}
          /\ i \in R => TypeOf[e.account] \notin {"ASSET", "EXPENSE"}
      BY <3>1 DEF On, OfTypes, DebitTypes, CreditTypes
    <3>4. CASE i \in L
      BY <3>2, <3>3, <3>4, <1>3, SignedIs
    <3>5. CASE i \in R
      BY <3>2, <3>3, <3>5, <1>3, SignedIs
    <3> QED BY <3>4, <3>5
  <2> QED BY <1>3, <2>1
<1>7. /\ SumFunctionOnSet(f, L) = Delta(t, OfTypes(DebitTypes))
      /\ SumFunctionOnSet(f, R) = Delta(t, OfTypes(CreditTypes))
      /\ SumFunctionOnSet(amount, D) = SumFunctionOnSet(amount, C)
  BY DeltaIs, BalanceAssumption DEF OnSide
<1> HIDE DEF E, I, D, C, amount, h, L, R, f
<1>8. /\ D \in SUBSET I /\ C \in SUBSET I /\ L \in SUBSET I /\ R \in SUBSET I
  BY <1>2, <1>3
<1>9. /\ Integral(amount, D) /\ Integral(amount, C) /\ Integral(f, L) /\ Integral(f, R)
  BY <1>1, <1>4, <1>8, IntegralParts
<1>10. PICK a, b, c, d \in Int : /\ a = SumFunctionOnSet(amount, D) /\ b = SumFunctionOnSet(amount, C)
                                 /\ c = SumFunctionOnSet(f, L) /\ d = SumFunctionOnSet(f, R)
  BY <1>9, SumInt
<1>11. /\ SumFunctionOnSet(h, D) = a /\ SumFunctionOnSet(h, C) = -b
       /\ SumFunctionOnSet(h, L) = c /\ SumFunctionOnSet(h, R) = -d
  BY <1>5, <1>6, <1>9, <1>10, SumSame, SumMinus
<1>12. SumFunctionOnSet(h, I) = a + (-b) /\ SumFunctionOnSet(h, I) = c + (-d)
  <2>1. SumFunctionOnSet(h, D \cup C) = SumFunctionOnSet(h, D) + SumFunctionOnSet(h, C)
    BY <1>2, <1>4, SumUnion
  <2>2. SumFunctionOnSet(h, L \cup R) = SumFunctionOnSet(h, L) + SumFunctionOnSet(h, R)
    BY <1>3, <1>4, SumUnion
  <2> QED BY <1>2, <1>3, <1>11, <2>1, <2>2
<1>13. a + (-b) = c + (-d) /\ a = b
  BY <1>7, <1>10, <1>12
<1>14. c = d
  BY <1>13
<1> QED BY <1>7, <1>10, <1>14

LEMMA DeltaBalances ==
  ASSUME NEW t \in Transactions
  PROVE  Delta(t, OfTypes(DebitTypes)) = Delta(t, OfTypes(CreditTypes))
<1>1. CASE Reverses[t] = NONE
  BY <1>1, OriginalBalances
<1>2. CASE Reverses[t] # NONE
  <2>1. PICK o \in Transactions : o = Reverses[t] /\ Reverses[o] = NONE
    BY <1>2, OriginalOf
  <2> QED BY <1>2, <2>1, OriginalBalances, ReversalMovesBack
<1> QED BY <1>1, <1>2

LEMMA MovedBalances ==
  ASSUME NEW S, IsFiniteSet(S), S \subseteq Transactions
  PROVE  SumFunctionOnSet(Moves(OfTypes(DebitTypes)), S) = SumFunctionOnSet(Moves(OfTypes(CreditTypes)), S)
<1>1. PICK f, g : f = Moves(OfTypes(DebitTypes)) /\ g = Moves(OfTypes(CreditTypes))
  OBVIOUS
<1>2. Integral(g, S) /\ \A t \in S : f[t] = g[t]
  BY <1>1, MovesIntegral, DeltaBalances
<1> QED BY <1>1, <1>2, SumSame

-----------------------------------------------------------------------------
(* The inductive invariant.                                                *)

\* What is committed is kept; REVERSED are those that one reversal reverses.
BooksOk(seen) ==
  /\ DOMAIN seen \subseteq Transactions /\ IsFiniteSet(DOMAIN seen)
  /\ \A t \in DOMAIN seen :
       /\ seen[t] \in {"POSTED", "REVERSED"}
       /\ Reverses[t] # NONE => Reverses[t] \in DOMAIN seen /\ seen[Reverses[t]] = "REVERSED"
       /\ seen[t] = "REVERSED" => \E u \in DOMAIN seen : Reverses[u] = t
  /\ \A t, u \in DOMAIN seen : Reverses[t] = Reverses[u] /\ Reverses[t] # NONE => t = u
BooksInv == BooksOk(books)

Kinds == {"statement", "recent", "overview", "detection"}

\* A request asks for what the program lets it ask.
RequestInv ==
  /\ reader = [kind |-> reader.kind, from |-> reader.from, to |-> reader.to,
               account |-> reader.account, g |-> reader.g, limit |-> reader.limit,
               offset |-> reader.offset, got |-> reader.got, seen |-> reader.seen,
               reply |-> reader.reply]
  /\ reader.kind \in Kinds
  /\ \E r \in Ranges :
       /\ reader.to = r.to
       /\ reader.from = r.from \/ (reader.from = r.to - Lookback /\ reader.g = "day")
  /\ reader.kind = "detection" => reader.g = "day"
  /\ ValidRange(reader.from, reader.to)
  /\ reader.g \in Granularities
  /\ reader.kind \in {"statement", "recent"} => reader.account \in LookedAt
  /\ reader.kind = "recent" => reader.limit \in 1..RecentLimit /\ reader.offset = 0
  /\ DOMAIN reader.got \subseteq PartsOf[reader.kind]

\* Each statement returned what the books it saw make it return: books that were kept
\* well, of which nothing is lost since, nor was since the statements it awaited.
ReadInv ==
  /\ DOMAIN reader.seen = DOMAIN reader.got
  /\ \A q \in DOMAIN reader.got :
       /\ BooksOk(reader.seen[q]) /\ DOMAIN reader.seen[q] \subseteq DOMAIN books
       /\ reader.got[q] = Value(reader.seen[q], q)
       /\ \A e \in Awaited(q) :
            e \in DOMAIN reader.got /\ DOMAIN reader.seen[e] \subseteq DOMAIN reader.seen[q]

DaysInv(z, from, to, days) ==
  /\ DOMAIN days = BucketCuts(z, Period(z, from, to), "day")
  /\ \A d \in DOMAIN days : days[d].revenue \in Int /\ days[d].expenses \in Int

CandidatesInv(z, day, candidates) ==
  \A t \in DOMAIN candidates : /\ t \in Transactions /\ Reverses[t] = NONE
                               /\ DayStart(z, day) <= At[t]

\* An answer is made of all that the request has read.
ReplyInv ==
  Answered =>
    /\ DOMAIN reader.got = PartsOf[reader.kind]
    /\ reader.kind = "recent" => reader.reply = Recent
    /\ reader.kind = "detection" => reader.reply = Found

ReaderInv ==
  /\ zone \in Zones /\ BooksInv
  /\ Busy => RequestInv /\ ReadInv /\ ReplyInv
  /\ ~Busy => reader = IdleReader

-----------------------------------------------------------------------------
(* What requests have read.                                                *)

LEMMA AskableDates ==
  ASSUME RequestInv
  PROVE  Askable(reader.g, reader.from, reader.to)
<1>1. PICK r \in Ranges :
        /\ reader.to = r.to
        /\ reader.from = r.from \/ (reader.from = r.to - Lookback /\ reader.g = "day")
  BY DEF RequestInv
<1>2. /\ reader.g \in Granularities /\ "day" \in Granularities
      /\ r.from \in Int /\ r.to \in Int /\ Lookback \in Int
      /\ reader.from <= reader.to
  BY ReaderAssumption, DayAssumption DEF RequestInv, ValidRange
<1>3. PICK c, d \in Cuts[reader.g] : c < r.from /\ d > r.to + 1
  BY <1>1, <1>2, ReaderAssumption
<1>4. reader.g = "day" => \E b \in Cuts[reader.g] : b < r.to - Lookback
  BY <1>1, <1>2, ReaderAssumption
<1> QED
  BY <1>1, <1>2, <1>3, <1>4 DEF Askable

LEMMA ReportedBooks ==
  ASSUME NEW seen, BooksOk(seen)
  PROVE  /\ Reported(seen) = DOMAIN seen /\ IsFiniteSet(Reported(seen))
         /\ Reported(seen) \subseteq Transactions
         /\ \A S \in SUBSET Reported(seen) : \A A :
              /\ IsFiniteSet(S) /\ S \subseteq Transactions
              /\ Integral(Moves(A), S) /\ SumFunctionOnSet(Moves(A), S) \in Int
<1>1. Reported(seen) = DOMAIN seen /\ IsFiniteSet(Reported(seen)) /\ Reported(seen) \subseteq Transactions
  BY DEF BooksOk, Reported
<1>2. ASSUME NEW S \in SUBSET Reported(seen), NEW A
      PROVE  /\ IsFiniteSet(S) /\ S \subseteq Transactions
             /\ Integral(Moves(A), S) /\ SumFunctionOnSet(Moves(A), S) \in Int
  BY <1>1, FS_Subset, MovesIntegral, SumInt
<1> QED BY <1>1, <1>2

LEMMA MovedInt ==
  ASSUME NEW seen, BooksOk(seen), NEW A, NEW p
  PROVE  Moved(seen, A, p) \in Int
<1> DEFINE S == {t \in Reported(seen) : p.start <= At[t] /\ At[t] < p.end}
<1>1. Moved(seen, A, p) = SumFunctionOnSet(Moves(A), S)
  BY DEF Moved
<1>2. S \in SUBSET Reported(seen)
  OBVIOUS
<1> HIDE DEF S
<1> QED BY <1>1, <1>2, ReportedBooks

LEMMA DaysRead ==
  ASSUME NEW seen, BooksOk(seen)
  PROVE  DaysInv(zone, reader.from, reader.to, DailyTotals(seen, zone, Asked))
<1> DEFINE C == BucketCuts(zone, Asked, "day")
           flows == FlowSeries(seen, zone, Asked, "day")
           days == DailyTotals(seen, zone, Asked)
<1>1. DOMAIN flows = C
  BY DEF FlowSeries, Buckets
<1>2. ASSUME NEW c \in C
      PROVE  flows[c].revenue \in Int /\ flows[c].expenses \in Int
  <2>1. PICK b : b = Buckets(zone, Asked, "day")[c]
    OBVIOUS
  <2>2. flows[c] = Income(seen, b)
    BY <2>1 DEF FlowSeries, Buckets
  <2>3. Income(seen, b).revenue = Moved(seen, Family("400"), b)
        /\ Income(seen, b).expenses = Moved(seen, Family("500"), b)
    BY DEF Income
  <2> QED BY <2>2, <2>3, MovedInt
<1>3. /\ DOMAIN days = DOMAIN flows
      /\ \A c \in DOMAIN flows : days[c].revenue = flows[c].revenue /\ days[c].expenses = flows[c].expenses
  BY DEF DailyTotals
<1> QED
  BY <1>1, <1>2, <1>3 DEF DaysInv, Asked

LEMMA CandidatesRead ==
  ASSUME NEW seen, BooksOk(seen)
  PROVE  CandidatesInv(zone, reader.to, Candidates(seen, Period(zone, reader.to, reader.to)))
BY DEF BooksOk, CandidatesInv, Candidates, Period

LEMMA ReadersStart == ReadersInit => ReaderInv
<1> SUFFICES ASSUME ReadersInit
             PROVE  ReaderInv
  OBVIOUS
<1>1. BooksInv
  BY FS_EmptySet DEF ReadersInit, BooksInv, BooksOk
<1>2. ~Busy /\ reader = IdleReader /\ zone \in Zones
  BY DEF ReadersInit, IdleReader, Busy
<1> QED BY <1>1, <1>2 DEF ReaderInv

LEMMA CommitKeepsBooks ==
  ASSUME BooksInv, NEW t \in Transactions, Commit(t)
  PROVE  BooksInv'
<1> DEFINE B == DOMAIN books
           r == Reverses[t]
<1>1. /\ B \subseteq Transactions /\ IsFiniteSet(B) /\ t \notin B
      /\ r # NONE => r \in B /\ books[r] = "POSTED"
      /\ DOMAIN books' = B \cup {t}
      /\ \A u \in B \cup {t} :
           books'[u] = IF u = t THEN "POSTED" ELSE IF u = r THEN "REVERSED" ELSE books[u]
  BY DEF Commit, BooksInv, BooksOk
<1>2. DOMAIN books' \subseteq Transactions /\ IsFiniteSet(DOMAIN books')
  BY <1>1, FS_AddElement
<1>3. ASSUME NEW u \in B \cup {t}
      PROVE  /\ books'[u] \in {"POSTED", "REVERSED"}
             /\ Reverses[u] # NONE => Reverses[u] \in B \cup {t} /\ books'[Reverses[u]] = "REVERSED"
             /\ books'[u] = "REVERSED" => \E v \in B \cup {t} : Reverses[v] = u
  <2>1. books'[u] \in {"POSTED", "REVERSED"}
    BY <1>1 DEF BooksInv, BooksOk
  <2>2. ASSUME Reverses[u] # NONE
        PROVE  Reverses[u] \in B \cup {t} /\ books'[Reverses[u]] = "REVERSED"
    <3>1. CASE u = t
      BY <1>1, <2>2, <3>1
    <3>2. CASE u # t
      <4>1. Reverses[u] \in B /\ books[Reverses[u]] = "REVERSED"
        BY <1>1, <2>2, <3>2 DEF BooksInv, BooksOk
      <4> QED BY <1>1, <4>1
    <3> QED BY <3>1, <3>2
  <2>3. ASSUME books'[u] = "REVERSED"
        PROVE  \E v \in B \cup {t} : Reverses[v] = u
    <3>1. u # t
      BY <1>1, <2>3
    <3>2. CASE u = r
      BY <3>2
    <3>3. CASE u # r
      <4>1. books[u] = "REVERSED" /\ u \in B
        BY <1>1, <2>3, <3>1, <3>3
      <4> QED BY <4>1 DEF BooksInv, BooksOk
    <3> QED BY <3>2, <3>3
  <2> QED BY <2>1, <2>2, <2>3
<1>4. ASSUME NEW u \in B \cup {t}, NEW v \in B \cup {t}, Reverses[u] = Reverses[v], Reverses[u] # NONE
      PROVE  u = v
  <2>1. \A w \in B : Reverses[w] # NONE => books[Reverses[w]] = "REVERSED"
    BY DEF BooksInv, BooksOk
  <2>2. \A w \in B : r # NONE => Reverses[w] # r
    BY <1>1, <2>1
  <2>3. CASE u = t \/ v = t
    BY <1>4, <2>2, <2>3
  <2>4. CASE u \in B /\ v \in B
    BY <1>4, <2>4 DEF BooksInv, BooksOk
  <2> QED BY <2>3, <2>4
<1> QED
  BY <1>1, <1>2, <1>3, <1>4 DEF BooksInv, BooksOk

\* What a request asks for.
SameRequest ==
  /\ reader'.kind = reader.kind /\ reader'.from = reader.from /\ reader'.to = reader.to
  /\ reader'.account = reader.account /\ reader'.g = reader.g /\ reader'.limit = reader.limit
  /\ reader'.offset = reader.offset

Fields(got, seen, reply) ==
  [kind |-> reader.kind, from |-> reader.from, to |-> reader.to,
   account |-> reader.account, g |-> reader.g, limit |-> reader.limit,
   offset |-> reader.offset, got |-> got, seen |-> seen, reply |-> reply]

LEMMA RequestKept ==
  ASSUME RequestInv, NEW got, NEW seen, NEW reply, reader' = Fields(got, seen, reply),
         DOMAIN got \subseteq PartsOf[reader.kind]
  PROVE  /\ SameRequest /\ RequestInv'
         /\ reader'.got = got /\ reader'.seen = seen /\ reader'.reply = reply
         /\ reader'.kind # "idle"
<1>1. SameRequest /\ reader'.got = got /\ reader'.seen = seen /\ reader'.reply = reply
  BY DEF SameRequest, Fields
<1>2. reader' = [kind |-> reader'.kind, from |-> reader'.from, to |-> reader'.to,
                 account |-> reader'.account, g |-> reader'.g, limit |-> reader'.limit,
                 offset |-> reader'.offset, got |-> reader'.got, seen |-> reader'.seen,
                 reply |-> reader'.reply]
  BY DEF Fields
<1> QED BY <1>1, <1>2 DEF RequestInv, SameRequest, Kinds

\* What a statement returned, and what it awaited, stays so while the request does.
LEMMA ValueSame ==
  ASSUME NEW q, NEW seen, zone' = zone, SameRequest, reader'.seen[q] = seen,
         q = "lines" => reader'.got["opening"] = reader.got["opening"]
  PROVE  Value(reader.seen[q], q)' = Value(seen, q)
BY DEF Value, Asked, PageLimit, SameRequest

LEMMA AwaitedSame ==
  ASSUME NEW q, SameRequest
  PROVE  Awaited(q)' = Awaited(q)
BY DEF Awaited, SameRequest

\* What an answer is made of.
LEMMA AnswerSame ==
  ASSUME reader'.got = reader.got, SameRequest
  PROVE  Recent' = Recent /\ Found' = Found
BY DEF Recent, Found, SameRequest

\* As long as nothing is read, what was read stays.
LEMMA ReadsKept ==
  ASSUME ReadInv, SameRequest, zone' = zone, reader'.got = reader.got,
         reader'.seen = reader.seen, DOMAIN books \subseteq DOMAIN books'
  PROVE  ReadInv'
<1> SUFFICES ASSUME NEW q \in DOMAIN reader.got
             PROVE  /\ BooksOk(reader.seen[q]) /\ DOMAIN reader.seen[q] \subseteq DOMAIN books'
                    /\ reader.got[q] = Value(reader.seen[q], q)'
                    /\ \A e \in Awaited(q)' :
                         /\ e \in DOMAIN reader.got
                         /\ DOMAIN reader.seen[e] \subseteq DOMAIN reader.seen[q]
  BY DEF ReadInv, BooksOk
<1>1. Value(reader.seen[q], q)' = Value(reader.seen[q], q)
  BY ValueSame
<1> QED BY <1>1, AwaitedSame DEF ReadInv

LEMMA CommitKeeps ==
  ASSUME ReaderInv, NEW t \in Transactions, Commit(t)
  PROVE  ReaderInv'
<1>1. /\ zone' = zone /\ reader' = reader /\ zone \in Zones /\ BooksInv'
      /\ DOMAIN books \subseteq DOMAIN books'
  BY CommitKeepsBooks DEF ReaderInv, Commit
<1>2. SameRequest
  BY <1>1 DEF SameRequest
<1>3. Busy' <=> Busy
  BY <1>1 DEF Busy
<1>4. RequestInv => RequestInv'
  BY <1>1 DEF RequestInv
<1>5. ReadInv => ReadInv'
  BY <1>1, <1>2, ReadsKept
<1>6. ReplyInv => ReplyInv'
  BY <1>1, <1>2, <1>3, AnswerSame DEF ReplyInv, Answered
<1> QED
  BY <1>1, <1>3, <1>4, <1>5, <1>6 DEF ReaderInv, IdleReader

LEMMA AskKeeps ==
  ASSUME ReaderInv, NEW kind \in Kinds, NEW from, NEW to, NEW account, NEW g \in Granularities,
         NEW limit, NEW offset, Ask(kind, from, to, account, g, limit, offset),
         NEW r \in Ranges, to = r.to, from = r.from \/ (from = r.to - Lookback /\ g = "day"),
         kind = "detection" => g = "day",
         kind \in {"statement", "recent"} => account \in LookedAt,
         kind = "recent" => limit \in 1..RecentLimit /\ offset = 0
  PROVE  ReaderInv'
<1>1. /\ zone' = zone /\ books' = books /\ ValidRange(from, to)
      /\ reader' = [kind |-> kind, from |-> from, to |-> to, account |-> account, g |-> g,
                    limit |-> limit, offset |-> offset, got |-> [part \in {} |-> NONE],
                    seen |-> [part \in {} |-> NONE], reply |-> NONE]
  BY DEF Ask
<1>2. /\ reader'.kind = kind /\ reader'.from = from /\ reader'.to = to
      /\ reader'.account = account /\ reader'.g = g /\ reader'.limit = limit
      /\ reader'.offset = offset /\ DOMAIN reader'.got = {} /\ DOMAIN reader'.seen = {}
      /\ reader'.reply = NONE
  BY <1>1
<1>3. reader' = [kind |-> reader'.kind, from |-> reader'.from, to |-> reader'.to,
                 account |-> reader'.account, g |-> reader'.g, limit |-> reader'.limit,
                 offset |-> reader'.offset, got |-> reader'.got, seen |-> reader'.seen,
                 reply |-> reader'.reply]
  BY <1>1
<1>4. RequestInv'
  BY <1>1, <1>2, <1>3 DEF RequestInv
<1>5. ReadInv'
  BY <1>2 DEF ReadInv
<1>6. ReplyInv'
  BY <1>2 DEF ReplyInv, Answered
<1>7. Busy'
  BY <1>2 DEF Busy, Kinds
<1>8. BooksInv' /\ zone' \in Zones
  BY <1>1 DEF ReaderInv, BooksInv, BooksOk
<1> QED
  BY <1>4, <1>5, <1>6, <1>7, <1>8 DEF ReaderInv

LEMMA ReadKeeps ==
  ASSUME ReaderInv, NEW part, Read(part)
  PROVE  ReaderInv'
<1>1. /\ Busy /\ RequestInv /\ ReadInv /\ BooksInv /\ zone \in Zones
      /\ zone' = zone /\ books' = books /\ reader.reply = NONE
      /\ part \in PartsOf[reader.kind] \ DOMAIN reader.got
      /\ \A q \in Awaited(part) : q \in DOMAIN reader.got
  BY DEF ReaderInv, Read, Answered, Has
<1>2. PICK got, seen : /\ got = With(reader.got, part, Value(books, part))
                       /\ seen = With(reader.seen, part, books)
  OBVIOUS
<1>3. reader' = Fields(got, seen, reader.reply)
  <2>1. PICK h, s, r : h = reader.got /\ s = reader.seen /\ r = reader.reply
    OBVIOUS
  <2>2. reader = Fields(h, s, r)
    BY <1>1, <2>1 DEF RequestInv, Fields
  <2>3. reader' = [reader EXCEPT !.got = got, !.seen = seen]
    BY <1>2 DEF Read
  <2>4. [Fields(h, s, r) EXCEPT !.got = got, !.seen = seen] = Fields(got, seen, r)
    <3>1. [Fields(h, s, r) EXCEPT !.got = got] = Fields(got, s, r)
      BY DEF Fields
    <3>2. [Fields(got, s, r) EXCEPT !.seen = seen] = Fields(got, seen, r)
      BY DEF Fields
    <3> QED BY <3>1, <3>2
  <2> QED BY <2>1, <2>2, <2>3, <2>4
<1>4. /\ DOMAIN got = DOMAIN reader.got \cup {part} /\ DOMAIN seen = DOMAIN reader.seen \cup {part}
      /\ \A q \in DOMAIN got : got[q] = IF q = part THEN Value(books, part) ELSE reader.got[q]
      /\ \A q \in DOMAIN seen : seen[q] = IF q = part THEN books ELSE reader.seen[q]
  BY <1>2 DEF With
<1>5. DOMAIN got \subseteq PartsOf[reader.kind] /\ DOMAIN seen = DOMAIN got
  BY <1>1, <1>4 DEF RequestInv, ReadInv
<1>6. /\ SameRequest /\ RequestInv' /\ reader'.got = got /\ reader'.seen = seen
      /\ reader'.reply = reader.reply /\ reader'.kind # "idle"
  BY <1>1, <1>3, <1>5, RequestKept
<1>7. ReadInv'
  <2> SUFFICES ASSUME NEW q \in DOMAIN got
               PROVE  /\ BooksOk(seen[q]) /\ DOMAIN seen[q] \subseteq DOMAIN books
                      /\ got[q] = Value(reader.seen[q], q)'
                      /\ \A e \in Awaited(q)' :
                           e \in DOMAIN got /\ DOMAIN seen[e] \subseteq DOMAIN seen[q]
    BY <1>1, <1>5, <1>6 DEF ReadInv, BooksOk
  <2>1. q = "lines" => got["opening"] = reader.got["opening"]
    <3> SUFFICES ASSUME q = "lines"
                 PROVE  got["opening"] = reader.got["opening"]
      OBVIOUS
    <3>1. "opening" \in Awaited("lines")
      BY DEF Awaited
    <3>2. "opening" \in DOMAIN reader.got
      BY <1>1, <1>4, <3>1 DEF ReadInv
    <3> QED BY <1>1, <1>4, <3>2
  <2>2. CASE q = part
    <3>1. seen[q] = books /\ got[q] = Value(books, q) /\ BooksOk(books)
      BY <1>1, <1>4, <1>5, <2>2 DEF BooksInv
    <3>2. Value(reader.seen[q], q)' = Value(books, q)
      BY <1>1, <1>6, <2>1, <3>1, ValueSame
    <3>3. ASSUME NEW e \in Awaited(q)
          PROVE  e \in DOMAIN got /\ DOMAIN seen[e] \subseteq DOMAIN books
      BY <1>1, <1>4, <1>5, <2>2, <3>3 DEF ReadInv
    <3> QED BY <1>6, <3>1, <3>2, <3>3, AwaitedSame
  <2>3. CASE q # part
    <3>1. /\ q \in DOMAIN reader.got /\ seen[q] = reader.seen[q] /\ got[q] = reader.got[q]
      BY <1>4, <1>5, <2>3
    <3>2. Value(reader.seen[q], q)' = Value(reader.seen[q], q)
      BY <1>1, <1>6, <2>1, <3>1, ValueSame
    <3>3. ASSUME NEW e \in Awaited(q)
          PROVE  e \in DOMAIN got /\ DOMAIN seen[e] \subseteq DOMAIN seen[q]
      <4>1. e \in DOMAIN reader.got /\ DOMAIN reader.seen[e] \subseteq DOMAIN reader.seen[q]
        BY <1>1, <3>1 DEF ReadInv
      <4> QED BY <1>1, <1>4, <1>5, <3>1, <4>1
    <3>4. BooksOk(reader.seen[q]) /\ DOMAIN reader.seen[q] \subseteq DOMAIN books
          /\ reader.got[q] = Value(reader.seen[q], q)
      BY <1>1, <3>1 DEF ReadInv
    <3> QED BY <1>6, <3>1, <3>2, <3>3, <3>4, AwaitedSame
  <2> QED BY <2>2, <2>3
<1>8. ReplyInv' /\ Busy'
  BY <1>1, <1>6 DEF ReplyInv, Answered, Busy
<1>9. BooksInv' /\ zone' \in Zones
  BY <1>1 DEF BooksInv, BooksOk
<1> QED
  BY <1>6, <1>7, <1>8, <1>9 DEF ReaderInv

LEMMA ReplyKeeps ==
  ASSUME ReaderInv, Reply
  PROVE  ReaderInv'
<1>1. /\ Busy /\ RequestInv /\ ReadInv /\ BooksInv /\ zone \in Zones
      /\ zone' = zone /\ books' = books /\ DOMAIN reader.got = PartsOf[reader.kind]
  BY DEF ReaderInv, Reply
<1> DEFINE answer == CASE reader.kind = "recent" -> Recent
                       [] reader.kind = "detection" -> Found
                       [] OTHER -> reader.got
<1>2. PICK h, s, r, v : h = reader.got /\ s = reader.seen /\ r = reader.reply /\ v = answer
  OBVIOUS
<1>3. reader' = Fields(h, s, v)
  <2>1. reader = Fields(h, s, r)
    BY <1>1, <1>2 DEF RequestInv, Fields
  <2>2. reader' = [reader EXCEPT !.reply = v]
    BY <1>2 DEF Reply
  <2>3. [Fields(h, s, r) EXCEPT !.reply = v] = Fields(h, s, v)
    BY DEF Fields
  <2> QED BY <2>1, <2>2, <2>3
<1>4. /\ reader.kind = "recent" => v = Recent
      /\ reader.kind = "detection" => v = Found
  BY <1>2
<1>5. /\ SameRequest /\ RequestInv' /\ reader'.got = reader.got /\ reader'.seen = reader.seen
      /\ reader'.reply = v /\ reader'.kind # "idle"
  BY <1>1, <1>2, <1>3, RequestKept DEF RequestInv
<1>6. ReadInv'
  BY <1>1, <1>5, ReadsKept
<1>7. ReplyInv'
  <2>1. Recent' = Recent /\ Found' = Found
    BY <1>5, AnswerSame
  <2> QED BY <1>1, <1>4, <1>5, <2>1 DEF ReplyInv, SameRequest
<1>8. Busy' /\ BooksInv' /\ zone' \in Zones
  BY <1>1, <1>5 DEF Busy, BooksInv, BooksOk
<1> QED
  BY <1>5, <1>6, <1>7, <1>8 DEF ReaderInv

\* The books are kept well and requests read what is in them: with it go the theorems
\* about what is answered.
THEOREM ReadersInvariant == ReadersSpec => []ReaderInv
<1>1. ReaderInv /\ [ReadersNext]_readVars => ReaderInv'
  <2> SUFFICES ASSUME ReaderInv, [ReadersNext]_readVars
               PROVE  ReaderInv'
    OBVIOUS
  <2>1. ASSUME NEW t \in Transactions, Commit(t)
        PROVE  ReaderInv'
    BY <2>1, CommitKeeps
  <2>2. CASE AskStatement
    <3>1. PICK r \in Ranges, a \in LookedAt, limit \in PageSizes, offset \in Offsets :
            Ask("statement", r.from, r.to, a, "day", limit, offset)
      BY <2>2 DEF AskStatement
    <3> QED BY <3>1, AskKeeps, ReaderAssumption DEF Kinds
  <2>3. CASE AskRecent
    <3>1. PICK r \in Ranges, a \in LookedAt, limit \in 1..RecentLimit :
            Ask("recent", r.from, r.to, a, "day", limit, 0)
      BY <2>3 DEF AskRecent
    <3> QED BY <3>1, AskKeeps, ReaderAssumption DEF Kinds
  <2>4. CASE AskOverview
    <3>1. PICK r \in Ranges, g \in Granularities : Ask("overview", r.from, r.to, NONE, g, 0, 0)
      BY <2>4 DEF AskOverview
    <3> QED BY <3>1, AskKeeps DEF Kinds
  <2>5. CASE AskDetection
    <3>1. PICK r \in Ranges : Ask("detection", r.to - Lookback, r.to, NONE, "day", 0, 0)
      BY <2>5 DEF AskDetection
    <3> QED BY <3>1, AskKeeps, ReaderAssumption DEF Kinds
  <2>6. ASSUME NEW part \in Parts, Read(part)
        PROVE  ReaderInv'
    BY <2>6, ReadKeeps
  <2>7. CASE Reply
    BY <2>7, ReplyKeeps
  <2>8. CASE Close
    <3>1. zone' = zone /\ books' = books /\ reader' = IdleReader
      BY <2>8 DEF Close
    <3>2. ~Busy'
      BY <3>1 DEF Busy, IdleReader
    <3>3. BooksInv'
      BY <3>1 DEF ReaderInv, BooksInv, BooksOk
    <3> QED BY <3>1, <3>2, <3>3 DEF ReaderInv, IdleReader
  <2>9. CASE UNCHANGED readVars
    <3>1. zone' = zone /\ books' = books /\ reader' = reader /\ SameRequest
      BY <2>9 DEF readVars, SameRequest
    <3>2. (BooksInv' <=> BooksInv) /\ (Busy' <=> Busy) /\ (RequestInv' <=> RequestInv)
      BY <3>1 DEF BooksInv, BooksOk, Busy, RequestInv
    <3>3. ReadInv => ReadInv'
      BY <3>1, ReadsKept
    <3>4. ReplyInv' <=> ReplyInv
      BY <3>1, AnswerSame DEF ReplyInv, Answered, Busy
    <3> QED BY <3>1, <3>2, <3>3, <3>4 DEF ReaderInv, IdleReader
  <2> QED
    BY <2>1, <2>2, <2>3, <2>4, <2>5, <2>6, <2>7, <2>8, <2>9 DEF ReadersNext
<1> QED
  BY <1>1, ReadersStart, PTL DEF ReadersSpec

\* What an answer is made of.
LEMMA AnswerIs ==
  ASSUME ReaderInv, Answered
  PROVE  /\ zone \in Zones /\ RequestInv
         /\ DOMAIN reader.got = PartsOf[reader.kind] /\ DOMAIN reader.seen = PartsOf[reader.kind]
         /\ \A q \in PartsOf[reader.kind] :
              /\ BooksOk(reader.seen[q]) /\ reader.got[q] = Value(reader.seen[q], q)
              /\ \A e \in Awaited(q) :
                   e \in PartsOf[reader.kind] /\ DOMAIN reader.seen[e] \subseteq DOMAIN reader.seen[q]
BY DEF ReaderInv, Answered, ReplyInv, ReadInv

-----------------------------------------------------------------------------
(* Books that were seen at different moments.                              *)

LEMMA SinceIs ==
  ASSUME NEW e, BooksOk(e), NEW l, BooksOk(l), NEW S, S \subseteq Reported(e) \cup Reported(l), NEW A
  PROVE  Integral(Moves(A), S)
<1>1. /\ IsFiniteSet(Reported(e)) /\ Reported(e) \subseteq Transactions
      /\ IsFiniteSet(Reported(l)) /\ Reported(l) \subseteq Transactions
  BY ReportedBooks
<1>2. IsFiniteSet(S) /\ S \subseteq Transactions
  BY <1>1, FS_Union, FS_Subset
<1> QED BY <1>2, MovesIntegral

\* Whatever was committed between two reads explains how their sums over a period differ.
LEMMA MovedBetween ==
  ASSUME NEW e, BooksOk(e), NEW l, BooksOk(l), NEW A, NEW p
  PROVE  /\ Moved(e, A, p) \in Int /\ Moved(l, A, p) \in Int
         /\ Extra(l, e, A, p) \in Int /\ Extra(e, l, A, p) \in Int
         /\ Moved(e, A, p) + Extra(l, e, A, p) = Moved(l, A, p) + Extra(e, l, A, p)
<1> DEFINE X == {t \in Reported(e) : p.start <= At[t] /\ At[t] < p.end}
           Y == {t \in Reported(l) : p.start <= At[t] /\ At[t] < p.end}
<1>1. /\ Moved(e, A, p) = SumFunctionOnSet(Moves(A), X)
      /\ Moved(l, A, p) = SumFunctionOnSet(Moves(A), Y)
  BY DEF Moved
<1>2. /\ {t \in Since(e, l) : p.start <= At[t] /\ At[t] < p.end} = Y \ X
      /\ {t \in Since(l, e) : p.start <= At[t] /\ At[t] < p.end} = X \ Y
  BY DEF Since
<1>3. /\ Extra(l, e, A, p) = SumFunctionOnSet(Moves(A), Y \ X)
      /\ Extra(e, l, A, p) = SumFunctionOnSet(Moves(A), X \ Y)
  BY <1>2 DEF Extra
<1>4. X \subseteq Reported(e) /\ Y \subseteq Reported(l)
  OBVIOUS
<1> HIDE DEF X, Y
<1>5. PICK U, P, Q : U = X \cup Y /\ P = Y \ X /\ Q = X \ Y
  OBVIOUS
<1>6. Integral(Moves(A), U)
  BY <1>4, <1>5, SinceIs
<1>7. /\ X \in SUBSET U /\ Y \in SUBSET U /\ P \in SUBSET U /\ Q \in SUBSET U
      /\ X \cup P = U /\ X \cap P = {} /\ Y \cup Q = U /\ Y \cap Q = {}
  BY <1>5
<1>8. \A S \in SUBSET U : SumFunctionOnSet(Moves(A), S) \in Int
  BY <1>6, SumSubsetInt
<1>9. SumFunctionOnSet(Moves(A), U) = SumFunctionOnSet(Moves(A), X) + SumFunctionOnSet(Moves(A), P)
  BY <1>6, <1>7, SumUnion
<1>10. SumFunctionOnSet(Moves(A), U) = SumFunctionOnSet(Moves(A), Y) + SumFunctionOnSet(Moves(A), Q)
  BY <1>6, <1>7, SumUnion
<1> QED
  BY <1>1, <1>3, <1>5, <1>7, <1>8, <1>9, <1>10

\* Of some transactions, those of some dates.
Dated(some, D) == {t \in some : At[t] \in D}

\* And how sums of which the later sees more, over some of the dates, differ.
LEMMA MovedSince ==
  ASSUME NEW e, BooksOk(e), NEW l, BooksOk(l), DOMAIN e \subseteq DOMAIN l, NEW A, NEW D
  PROVE  LET some == Dated(Reported(e), D)
             more == Dated(Since(e, l), D)
             all == Dated(Reported(l), D) IN
         /\ SumFunctionOnSet(Moves(A), some) \in Int /\ SumFunctionOnSet(Moves(A), more) \in Int
         /\ SumFunctionOnSet(Moves(A), all)
              = SumFunctionOnSet(Moves(A), some) + SumFunctionOnSet(Moves(A), more)
<1> DEFINE some == Dated(Reported(e), D)
           more == Dated(Since(e, l), D)
           all == Dated(Reported(l), D)
<1>1. Reported(e) = DOMAIN e /\ Reported(l) = DOMAIN l
  BY ReportedBooks
<1>2. /\ some \cap more = {} /\ some \cup more = all
      /\ some \in SUBSET all /\ more \in SUBSET all /\ all \subseteq Reported(l)
  BY <1>1 DEF Since, Dated
<1> HIDE DEF some, more, all
<1>3. Integral(Moves(A), all)
  BY <1>2, SinceIs
<1>4. SumFunctionOnSet(Moves(A), some) \in Int /\ SumFunctionOnSet(Moves(A), more) \in Int
  BY <1>2, <1>3, SumSubsetInt
<1>5. SumFunctionOnSet(Moves(A), all)
        = SumFunctionOnSet(Moves(A), some) + SumFunctionOnSet(Moves(A), more)
  BY <1>2, <1>3, SumUnion
<1> QED BY <1>4, <1>5 DEF some, more, all

-----------------------------------------------------------------------------
(* The cash position.                                                      *)

\* A reversal takes out what its original brought in.
LEMMA ReversedCancels ==
  ASSUME NEW seen, BooksOk(seen), NEW A
  PROVE  SumFunctionOnSet(Moves(A), Reported(seen)) = SumFunctionOnSet(Moves(A), Reported(Unreversed(seen)))
<1> DEFINE B == DOMAIN seen
           U == {t \in B : seen[t] = "POSTED" /\ Reverses[t] = NONE}
           R == {t \in B : seen[t] = "REVERSED"}
           V == {t \in B : Reverses[t] # NONE}
           m == [t \in V |-> Reverses[t]]
           f == Moves(A)
           g == [t \in V |-> f[m[t]]]
<1>1. /\ Reported(seen) = B /\ IsFiniteSet(B) /\ B \subseteq Transactions
      /\ Integral(f, B)
  BY ReportedBooks
<1>2. Reported(Unreversed(seen)) = U
  BY DEF Reported, Unreversed
<1>3. /\ \A t \in V : t \in B /\ m[t] \in B /\ m[t] \in R /\ Reverses[t] # NONE
      /\ \A t \in R : t \in B /\ \E u \in V : m[u] = t
      /\ \A t, u \in V : m[t] = m[u] => t = u
      /\ \A t \in B : seen[t] = "POSTED" \/ seen[t] = "REVERSED"
  <2>1. \A t \in R : t # NONE
    BY <1>1, TransactionAssumption
  <2>2. ASSUME NEW t \in V
        PROVE  m[t] = Reverses[t] /\ m[t] \in B /\ m[t] \in R /\ Reverses[t] # NONE /\ t \in B
    BY DEF BooksOk
  <2>3. ASSUME NEW t \in R
        PROVE  t \in B /\ \E u \in V : m[u] = t
    <3>1. PICK u \in B : Reverses[u] = t
      BY DEF BooksOk
    <3>2. u \in V
      BY <2>1, <3>1
    <3> QED BY <3>1, <3>2
  <2>4. ASSUME NEW t \in V, NEW u \in V, m[t] = m[u]
        PROVE  t = u
    BY <2>2, <2>4 DEF BooksOk
  <2>5. \A t \in B : seen[t] = "POSTED" \/ seen[t] = "REVERSED"
    BY DEF BooksOk
  <2>6. \A t \in V : t \in B /\ m[t] \in B /\ m[t] \in R /\ Reverses[t] # NONE
    BY <2>2
  <2>7. \A t \in R : t \in B /\ \E u \in V : m[u] = t
    BY <2>3
  <2>8. \A t, u \in V : m[t] = m[u] => t = u
    BY <2>4
  <2> HIDE DEF B, R, V, m
  <2> QED BY <2>5, <2>6, <2>7, <2>8
<1>4. ASSUME NEW t \in R
      PROVE  Reverses[t] = NONE
  <2>1. PICK u \in V : m[u] = t
    BY <1>3
  <2>2. u \in Transactions /\ Reverses[u] # NONE /\ Reverses[u] = t
    BY <1>1, <1>3, <2>1
  <2> QED BY <2>2, OriginalOf
<1>5. /\ B = U \cup (R \cup V) /\ U \cap (R \cup V) = {} /\ R \cap V = {}
  BY <1>3, <1>4
<1>6. \A t \in V : f[t] = -g[t]
  <2> SUFFICES ASSUME NEW t \in V
               PROVE  f[t] = -f[m[t]]
    OBVIOUS
  <2>1. t \in Transactions /\ m[t] \in Transactions /\ Reverses[t] # NONE /\ m[t] = Reverses[t]
    BY <1>1, <1>3
  <2>2. f[t] = Delta(t, A) /\ f[m[t]] = Delta(m[t], A)
    BY <2>1 DEF Moves
  <2> QED BY <2>1, <2>2, ReversalMovesBack
<1>7. \A t \in V : g[t] = f[m[t]]
  OBVIOUS
<1> HIDE DEF B, U, R, V, m, f, g
<1>8. /\ U \in SUBSET B /\ R \in SUBSET B /\ V \in SUBSET B /\ R \cup V \in SUBSET B
  BY <1>5
<1>9. Integral(f, U) /\ Integral(f, R) /\ Integral(f, V) /\ Integral(f, R \cup V)
  BY <1>1, <1>8, IntegralParts
<1>10. SumFunctionOnSet(g, V) = SumFunctionOnSet(f, R)
  <2>1. IsFiniteSet(V)
    BY <1>9 DEF Integral
  <2>2. /\ \A t \in V : m[t] \in R
        /\ \A t \in R : \E u \in V : m[u] = t
        /\ \A t, u \in V : m[t] = m[u] => t = u
    BY <1>3
  <2> QED BY <1>7, <1>9, <2>1, <2>2, SumImage
<1>11. Integral(g, V)
  BY <1>3, <1>7, <1>9 DEF Integral
<1>12. SumFunctionOnSet(f, V) = -SumFunctionOnSet(g, V)
  BY <1>6, <1>11, SumMinus
<1>13. SumFunctionOnSet(f, R \cup V) = SumFunctionOnSet(f, R) + SumFunctionOnSet(f, V)
  BY <1>5, <1>9, SumUnion
<1>14. SumFunctionOnSet(f, B) = SumFunctionOnSet(f, U) + SumFunctionOnSet(f, R \cup V)
  BY <1>1, <1>5, SumUnion
<1>15. PICK u, r \in Int : u = SumFunctionOnSet(f, U) /\ r = SumFunctionOnSet(f, R)
  BY <1>9, SumInt
<1>16. SumFunctionOnSet(f, B) = u + (r + (-r))
  BY <1>10, <1>12, <1>13, <1>14, <1>15
<1>17. SumFunctionOnSet(f, B) = SumFunctionOnSet(f, U)
  BY <1>15, <1>16
<1> QED BY <1>1, <1>2, <1>17 DEF f

LEMMA PositionBalances ==
  ASSUME NEW seen, BooksOk(seen)
  PROVE  Sided(Position(seen), DebitTypes) = Sided(Position(seen), CreditTypes)
<1>1. ASSUME NEW types
      PROVE  Sided(Position(seen), types) = SumFunctionOnSet(Moves(OfTypes(types)), Reported(seen))
  <2>1. PICK position : position = Position(seen)
    OBVIOUS
  <2>2. OfTypes(types) \in SUBSET Accounts
    BY DEF OfTypes
  <2>3. \A a \in OfTypes(types) : position[a] = SumFunctionOnSet(Moves({a}), Reported(seen))
    BY <2>1, <2>2 DEF Position
  <2>4. Sided(position, types) = SumFunctionOnSet(position, OfTypes(types))
    BY DEF Sided, OfTypes
  <2> QED BY <2>1, <2>2, <2>3, <2>4, ReportedBooks, MovedParts
<1> QED
  BY <1>1, ReportedBooks, MovedBalances

\* Whatever was posted and reversed, a cash position shows it net, and in balance.
THEOREM PositionsNetOut == ReadersSpec => []PositionNetsOut
<1>1. ReaderInv => PositionNetsOut
  <2> SUFFICES ASSUME ReaderInv, Answered, reader.kind = "overview"
               PROVE  /\ reader.got["position"] = Position(Unreversed(reader.seen["position"]))
                      /\ Sided(reader.got["position"], {"ASSET", "EXPENSE"})
                           = Sided(reader.got["position"], {"LIABILITY", "EQUITY", "REVENUE"})
    BY DEF PositionNetsOut
  <2>1. PICK seen : seen = reader.seen["position"]
    OBVIOUS
  <2>2. BooksOk(seen) /\ reader.got["position"] = Position(seen)
    BY <2>1, AnswerIs DEF PartsOf, Value
  <2>3. Position(seen) = Position(Unreversed(seen))
    BY <2>2, ReversedCancels DEF Position
  <2> QED
    BY <2>1, <2>2, <2>3, PositionBalances DEF DebitTypes, CreditTypes
<1> QED
  BY <1>1, ReadersInvariant, PTL

-----------------------------------------------------------------------------
(* Anomalies.                                                              *)

\* Sales that are too high for a total are not too low for it.
LEMMA SpikeOrDrop ==
  ASSUME NEW x \in Int, NEW total \in Int, total > 0, NEW m \in Nat, NEW d \in Nat, m * d > 1,
         x >= total * m
  PROVE  ~(x * d <= total)
<1>1. d > 0
  <2>1. d = 0 => m * d = 0
    OBVIOUS
  <2> QED BY <2>1
<1>2. PICK k \in Nat : x = total * m + k
  <2>1. total * m \in Int
    OBVIOUS
  <2>2. x - total * m \in Nat /\ x = total * m + (x - total * m)
    BY <2>1
  <2> QED BY <2>2
<1>3. x * d = total * (m * d) + k * d /\ k * d >= 0
  BY <1>1, <1>2
<1>4. PICK w \in Nat : m * d = w + 2
  <2>1. m * d \in Int /\ m * d - 2 \in Nat /\ m * d = (m * d - 2) + 2
    OBVIOUS
  <2> QED BY <2>1
<1>5. total * (m * d) = total * w + total + total /\ total * w >= 0
  BY <1>4
<1>6. /\ x * d \in Int /\ k * d \in Int /\ total * w \in Int /\ total * (m * d) \in Int
  BY <1>4
<1> QED BY <1>3, <1>5, <1>6

LEMMA SteadyIs ==
  ASSUME NEW total \in Int, NEW n \in Nat \ {0}, Steady(total, n)
  PROVE  total > 0 /\ total \div n >= 1 /\ total \div n \in Int
<1>1. Th.salesFloor \in Nat \ {0}
  BY ThresholdAssumption DEF Th
<1>2. total \div n \in Int /\ total \div n >= 1
  BY <1>1 DEF Steady
<1>3. (total \div n) * n <= total
  OBVIOUS
<1>4. PICK q \in Int : q = total \div n /\ q >= 1
  BY <1>2
<1>5. q * n >= 1
  BY <1>4
<1>6. q * n <= total /\ q * n \in Int
  BY <1>3, <1>4
<1> QED BY <1>2, <1>5, <1>6

\* Days of a series as the rules take them.
Daily(days) ==
  /\ IsFiniteSet(DOMAIN days) /\ DOMAIN days \subseteq Int
  /\ \A d \in DOMAIN days : days[d].revenue \in Int /\ days[d].expenses \in Int

LEMMA SpikeExcludes ==
  ASSUME NEW days, Daily(days), NEW asOf, "SALES_SPIKE" \in Anomalies(days, asOf)
  PROVE  Anomalies(days, asOf) = {"SALES_SPIKE"}
<1> DEFINE baseline == LastOf(Before(days, asOf), Th.salesLookback)
           n == Cardinality(baseline)
           total == SumFunctionOnSet(Revenues(days), baseline)
           sales == days[asOf].revenue
<1>1. /\ Th.salesLookback \in Nat \ {0} /\ Th.gapDays \in Nat \ {0}
      /\ Th.spikeMultiple \in Nat /\ Th.dropDenominator \in Nat /\ Th.spikeDelta \in Nat
      /\ Th.spikeMultiple * Th.dropDenominator > 1
  BY ThresholdAssumption DEF Th
<1>2. "SALES_SPIKE" \in SalesAnomalies(days, asOf)
  BY DEF Anomalies
<1>3. /\ asOf \in DOMAIN days /\ n = Th.salesLookback /\ Steady(total, n)
      /\ IsSpike(sales, total, n)
  BY <1>2 DEF SalesAnomalies
<1>4. sales \in Int /\ asOf \in Int
  BY <1>3 DEF Daily
<1>5. total \in Int
  <2>1. baseline \in SUBSET DOMAIN days
    BY DEF LastOf, Before
  <2>2. Integral(Revenues(days), DOMAIN days)
    BY DEF Integral, Revenues, Daily
  <2> QED BY <2>1, <2>2, SumSubsetInt
<1> HIDE DEF baseline, n, total, sales
<1>6. n \in Nat \ {0} /\ total > 0 /\ total \div n >= 1 /\ total \div n \in Int
  BY <1>1, <1>3, <1>5, SteadyIs
<1>7. sales * n >= total * Th.spikeMultiple /\ sales > 0
  BY <1>1, <1>3, <1>4, <1>6 DEF IsSpike
<1>8. ~IsDrop(sales, total, n)
  <2>1. sales * n \in Int
    BY <1>4, <1>6
  <2>2. ~((sales * n) * Th.dropDenominator <= total)
    BY <1>1, <1>5, <1>6, <1>7, <2>1, SpikeOrDrop
  <2> QED BY <2>2 DEF IsDrop
<1>9. SalesAnomalies(days, asOf) = {"SALES_SPIKE"}
  <2>1. "SALES_DROP" \notin SalesAnomalies(days, asOf)
    BY <1>8 DEF SalesAnomalies, sales, total, n, baseline
  <2>2. SalesAnomalies(days, asOf) \subseteq {"SALES_SPIKE", "SALES_DROP"}
    BY DEF SalesAnomalies
  <2> QED BY <1>2, <2>1, <2>2
<1>10. ~ActivityGap(days, asOf)
  <2> DEFINE past == {d \in DOMAIN days : d <= asOf}
             newer == {e \in past : asOf < e}
  <2>1. newer = {}
    BY <1>4 DEF Daily
  <2>2. Cardinality(newer) < Th.gapDays
    BY <1>1, <2>1, FS_EmptySet
  <2>3. asOf \in LastOf(past, Th.gapDays)
    BY <1>3, <1>4, <2>2 DEF LastOf
  <2>4. asOf \in Active(days, LastOf(past, Th.gapDays))
    BY <1>7, <2>3 DEF Active, sales
  <2> QED BY <2>4 DEF ActivityGap
<1> QED
  BY <1>9, <1>10 DEF Anomalies

\* Days are compared alike, if no expense on them was committed between two reads.
LEMMA SameExpenses ==
  ASSUME NEW e, BooksOk(e), NEW l, BooksOk(l), DOMAIN e \subseteq DOMAIN l,
         NEW z \in Zones, NEW from, NEW to, Askable("day", from, to),
         NEW p, p = Period(z, from, to),
         \A t \in Since(e, l) : In(At[t], p) => Delta(t, Family("500")) = 0,
         NEW candidates, NEW asOf
  PROVE  LargeExpenses(candidates, DailyTotals(e, z, p), asOf)
           = LargeExpenses(candidates, DailyTotals(l, z, p), asOf)
<1> DEFINE A == Family("500")
           C == BucketCuts(z, p, "day")
           days(b) == DailyTotals(b, z, p)
<1>1. ASSUME NEW b
      PROVE  /\ DOMAIN days(b) = C
             /\ \A c \in C : days(b)[c].expenses = Moved(b, A, Buckets(z, p, "day")[c])
  <2>1. DOMAIN FlowSeries(b, z, p, "day") = C
    BY DEF FlowSeries, Buckets
  <2>2. \A c \in C : FlowSeries(b, z, p, "day")[c] = Income(b, Buckets(z, p, "day")[c])
    BY DEF FlowSeries, Buckets
  <2>3. \A q : Income(b, q).expenses = Moved(b, A, q)
    BY DEF Income
  <2> QED BY <2>1, <2>2, <2>3 DEF DailyTotals
<1>2. ASSUME NEW c \in C
      PROVE  days(e)[c].expenses = days(l)[c].expenses
  <2>1. PICK q : q = Buckets(z, p, "day")[c]
    OBVIOUS
  <2> DEFINE more == {t \in Since(e, l) : q.start <= At[t] /\ At[t] < q.end}
             less == {t \in Since(l, e) : q.start <= At[t] /\ At[t] < q.end}
  <2>2. /\ Reported(e) = DOMAIN e /\ Reported(l) = DOMAIN l
        /\ IsFiniteSet(Reported(l)) /\ Reported(l) \subseteq Transactions
    BY ReportedBooks
  <2>3. less = {} /\ more \in SUBSET Reported(l)
    BY <2>2 DEF Since
  <2>4. ASSUME NEW t \in more
        PROVE  Moves(A)[t] = 0
    <3>1. t \in Since(e, l) /\ t \in Transactions /\ At[t] \in Int /\ In(At[t], q)
      BY <2>2, <2>3, TransactionAssumption DEF In
    <3>2. PICK x \in Int : x = At[t]
      BY <3>1
    <3>3. In(x, Buckets(z, p, "day")[c])
      BY <2>1, <3>1, <3>2
    <3>4. p.start <= x /\ x < p.end
      BY <3>3, BucketIs
    <3>5. In(At[t], p)
      BY <3>2, <3>4 DEF In
    <3> QED BY <3>1, <3>5 DEF Moves
  <2>5. /\ Extra(l, e, A, q) = SumFunctionOnSet(Moves(A), more)
        /\ Extra(e, l, A, q) = SumFunctionOnSet(Moves(A), less)
    BY DEF Extra
  <2> HIDE DEF A, more, less
  <2>6. Extra(l, e, A, q) = 0 /\ Extra(e, l, A, q) = 0
    BY <2>2, <2>3, <2>4, <2>5, FS_Subset, SumZero, SumEmpty
  <2>7. Moved(e, A, q) = Moved(l, A, q)
    BY <2>6, MovedBetween
  <2> QED BY <1>1, <2>1, <2>7
<1>3. PICK d, f : d = days(e) /\ f = days(l)
  OBVIOUS
<1> HIDE DEF C, days
<1>4. DOMAIN d = DOMAIN f /\ \A c \in DOMAIN d : d[c].expenses = f[c].expenses
  BY <1>1, <1>2, <1>3
<1>5. Expenses(d) = Expenses(f)
  BY <1>4 DEF Expenses
<1>6. ExpenseBaseline(d, asOf) = ExpenseBaseline(f, asOf)
  <2>1. Before(d, asOf) = Before(f, asOf)
    BY <1>4 DEF Before
  <2>2. PICK last : last = LastOf(Before(f, asOf), Th.expenseLookback)
    OBVIOUS
  <2>3. last \subseteq DOMAIN f
    BY <2>2 DEF LastOf, Before
  <2> QED BY <1>4, <2>1, <2>2, <2>3 DEF ExpenseBaseline
<1> QED BY <1>3, <1>5, <1>6 DEF LargeExpenses, days

\* One detection does not contradict itself, whatever is committed between its reads.
THEOREM DetectionsAgree == ReadersSpec => []AnomaliesAgree
<1>1. ReaderInv => AnomaliesAgree
  <2> DEFINE days == reader.got["flows"]
             found == reader.got["candidates"]
             early == reader.seen["flows"]
             late == reader.seen["candidates"]
  <2> SUFFICES ASSUME ReaderInv, Answered, reader.kind = "detection"
               PROVE  /\ "SALES_SPIKE" \in reader.reply.rules => reader.reply.rules = {"SALES_SPIKE"}
                      /\ \A t \in reader.reply.expenses :
                           /\ Reverses[t] = NONE
                           /\ InBaseline(t) => DayStart(zone, reader.to) # FromLocal(zone, reader.to * Day)
                      /\ (\A t \in Since(early, late) :
                            In(At[t], Asked) => Delta(t, Family("500")) = 0) =>
                           reader.reply.expenses
                             = LargeExpenses(found, DailyTotals(late, zone, Asked), reader.to)
    BY DEF AnomaliesAgree, In
  <2>0. /\ zone \in Zones /\ RequestInv /\ reader.reply = Found
        /\ BooksOk(early) /\ BooksOk(late) /\ DOMAIN early \subseteq DOMAIN late
        /\ days = DailyTotals(early, zone, Asked)
        /\ found = Candidates(late, Period(zone, reader.to, reader.to))
    <3>1. PartsOf[reader.kind] = {"flows", "candidates"} /\ "flows" \in Awaited("candidates")
      BY DEF PartsOf, Awaited
    <3>2. /\ days = Value(early, "flows") /\ found = Value(late, "candidates")
          /\ zone \in Zones /\ RequestInv /\ BooksOk(early) /\ BooksOk(late)
          /\ DOMAIN early \subseteq DOMAIN late
      BY <3>1, AnswerIs
    <3>3. reader.reply = Found
      BY DEF ReaderInv, Answered, ReplyInv
    <3> QED BY <3>2, <3>3 DEF Value
  <2>1. DaysInv(zone, reader.from, reader.to, days) /\ CandidatesInv(zone, reader.to, found)
    BY <2>0, DaysRead, CandidatesRead
  <2>2. /\ reader.reply.rules = Anomalies(days, reader.to)
        /\ reader.reply.expenses = LargeExpenses(found, days, reader.to)
        /\ reader.reply.expenses \subseteq DOMAIN found
    BY <2>0 DEF Found, LargeExpenses
  <2>3. Askable("day", reader.from, reader.to)
    BY <2>0, AskableDates DEF RequestInv
  <2>4. PICK p : p = Asked /\ p = Period(zone, reader.from, reader.to)
    BY DEF Asked
  <2>5. Daily(days)
    BY <2>0, <2>1, <2>3, <2>4, CutsOfPeriod DEF Daily, DaysInv
  <2>6. "SALES_SPIKE" \in reader.reply.rules => reader.reply.rules = {"SALES_SPIKE"}
    BY <2>2, <2>5, SpikeExcludes
  <2>7. ASSUME NEW t \in DOMAIN found
        PROVE  Reverses[t] = NONE /\ At[t] \in Int /\ DayStart(zone, reader.to) <= At[t]
    BY <2>1, TransactionAssumption DEF CandidatesInv
  <2>8. ASSUME NEW t \in DOMAIN found, InBaseline(t)
        PROVE  DayStart(zone, reader.to) # FromLocal(zone, reader.to * Day)
    <3>1. PICK c \in BucketCuts(zone, p, "day") :
            LET b == Clipped(Bucket(zone, "day", c), p) IN
            c < reader.to /\ b.start <= At[t] /\ At[t] < b.end
      BY <2>4, <2>8 DEF InBaseline
    <3>2. Clipped(Bucket(zone, "day", c), p) = Buckets(zone, p, "day")[c]
      BY DEF Buckets
    <3>3. In(At[t], Buckets(zone, p, "day")[c])
      BY <3>1, <3>2 DEF In
    <3>4. PICK n \in Int : n = NextCut("day", c) /\ At[t] < FromLocal(zone, n * Day)
      BY <2>0, <2>3, <2>4, <2>7, <3>3, BucketIs, CutsOfPeriod
    <3>5. reader.to \in Cuts["day"] /\ reader.to \in Int
      BY <2>0, ReaderAssumption DEF RequestInv
    <3>6. n <= reader.to
      BY <2>0, <2>3, <2>4, <3>1, <3>4, <3>5, CutsOfPeriod
    <3>7. /\ FromLocal(zone, n * Day) <= FromLocal(zone, reader.to * Day)
          /\ FromLocal(zone, n * Day) \in Int /\ FromLocal(zone, reader.to * Day) \in Int
      BY <2>0, <3>5, <3>6, MidnightsInOrder
    <3>8. DayStart(zone, reader.to) \in Int
      BY <2>0, <3>5, ClockInt
    <3> QED BY <2>7, <3>4, <3>7, <3>8
  <2>9. ASSUME \A t \in Since(early, late) : In(At[t], Asked) => Delta(t, Family("500")) = 0
        PROVE  LargeExpenses(found, days, reader.to)
                 = LargeExpenses(found, DailyTotals(late, zone, Asked), reader.to)
    <3>1. PICK e, l, f : e = early /\ l = late /\ f = found
      OBVIOUS
    <3> HIDE DEF early, late, found
    <3> QED BY <2>0, <2>3, <2>4, <2>9, <3>1, SameExpenses
  <2> QED
    BY <2>2, <2>6, <2>7, <2>8, <2>9
<1> QED
  BY <1>1, ReadersInvariant, PTL

-----------------------------------------------------------------------------
(* Lists of recent transactions.                                           *)

\* The members of a finite set, each with those before it in a strict total order.
Ordered(S, before) ==
  /\ IsFiniteSet(S)
  /\ \A x \in S : before[x] \in SUBSET S /\ x \notin before[x]
  /\ \A x, y, v \in S : y \in before[x] /\ v \in before[y] => v \in before[x]
  /\ \A x, y \in S : x # y => x \in before[y] \/ y \in before[x]

\* How many precede it tells the place of each.
LEMMA Ranks ==
  ASSUME NEW S, NEW before, Ordered(S, before)
  PROVE  /\ Cardinality(S) \in Nat
         /\ \A x \in S : Cardinality(before[x]) \in 0..(Cardinality(S) - 1)
         /\ \A x, y \in S : x \in before[y] <=> Cardinality(before[x]) < Cardinality(before[y])
         /\ \A x, y \in S : Cardinality(before[x]) = Cardinality(before[y]) => x = y
         /\ \A k \in 0..(Cardinality(S) - 1) : \E x \in S : Cardinality(before[x]) = k
<1> DEFINE rank == [x \in S |-> Cardinality(before[x])]
           places == 0..(Cardinality(S) - 1)
<1>0. /\ IsFiniteSet(S) /\ Cardinality(S) \in Nat
      /\ \A x \in S : before[x] \in SUBSET S /\ x \notin before[x]
      /\ \A x, y, v \in S : y \in before[x] /\ v \in before[y] => v \in before[x]
      /\ \A x, y \in S : x # y => x \in before[y] \/ y \in before[x]
  BY FS_CardinalityType DEF Ordered
<1>1. ASSUME NEW x \in S
      PROVE  IsFiniteSet(before[x]) /\ rank[x] = Cardinality(before[x]) /\ rank[x] \in places
  <2>1. IsFiniteSet(before[x]) /\ Cardinality(before[x]) \in Nat
    BY <1>0, FS_Subset, FS_CardinalityType
  <2>2. before[x] # S /\ Cardinality(before[x]) <= Cardinality(S)
        /\ (Cardinality(S) = Cardinality(before[x]) => S = before[x])
    BY <1>0, FS_Subset
  <2>3. Cardinality(before[x]) <= Cardinality(S) - 1
    BY <1>0, <2>1, <2>2
  <2> QED BY <1>0, <2>1, <2>3
<1>2. ASSUME NEW x \in S, NEW y \in S, x \in before[y]
      PROVE  rank[x] < rank[y]
  <2>1. before[x] \in SUBSET before[y] /\ before[x] # before[y]
    BY <1>0, <1>2
  <2>2. Cardinality(before[x]) <= Cardinality(before[y])
        /\ (Cardinality(before[y]) = Cardinality(before[x]) => before[y] = before[x])
    BY <1>1, <2>1, FS_Subset
  <2> QED BY <1>1, <2>1, <2>2
<1>3. ASSUME NEW x \in S, NEW y \in S
      PROVE  /\ x \in before[y] <=> rank[x] < rank[y]
             /\ rank[x] = rank[y] => x = y
  <2>1. rank[x] \in Int /\ rank[y] \in Int
    BY <1>1
  <2>2. x = y \/ x \in before[y] \/ y \in before[x]
    BY <1>0
  <2> QED BY <1>2, <2>1, <2>2
<1>4. \A k \in places : \E x \in S : rank[x] = k
  <2>1. rank \in Injection(S, places)
    <3>1. rank \in [S -> places]
      BY <1>1
    <3> QED BY <1>3, <3>1 DEF Injection, IsInjective
  <2>2. IsFiniteSet(places) /\ Cardinality(places) = Cardinality(S)
    <3>1. PICK n \in Nat : n = Cardinality(S)
      BY <1>0
    <3>2. 0 \in Int /\ n - 1 \in Int
      BY <3>1
    <3>3. IsFiniteSet(0..(n - 1)) /\ Cardinality(0..(n - 1)) = IF 0 > n - 1 THEN 0 ELSE (n - 1) - 0 + 1
      BY <3>2, FS_Interval
    <3>4. Cardinality(0..(n - 1)) = n
      BY <3>1, <3>3
    <3> QED BY <3>1, <3>3, <3>4
  <2>3. rank \in Surjection(S, places)
    BY <2>1, <2>2, FS_Injection
  <2> QED BY <2>3 DEF Surjection
<1>5. \A x \in S : rank[x] = Cardinality(before[x])
  OBVIOUS
<1> HIDE DEF rank
<1> QED BY <1>0, <1>1, <1>3, <1>4, <1>5

\* Those that are listed before a transaction, when the newest come first.
NewerIn(S) == [t \in S |-> {u \in S : Earliest(t, u)}]

LEMMA NewestFirst ==
  ASSUME NEW S, IsFiniteSet(S), S \subseteq Transactions
  PROVE  Ordered(S, NewerIn(S))
<1>1. \A t \in S : At[t] \in Int /\ PostedAt[t] \in Int
  BY TransactionAssumption
<1>2. \A t, u \in S : PostedAt[t] = PostedAt[u] => t = u
  BY TransactionAssumption
<1>3. \A t, u \in S : u \in NewerIn(S)[t] <=> Earliest(t, u)
  BY DEF NewerIn
<1>4. \A t \in S : NewerIn(S)[t] \in SUBSET S
  BY DEF NewerIn
<1>5. \A t \in S : t \notin NewerIn(S)[t]
  BY <1>1, <1>3 DEF Earliest
<1>6. ASSUME NEW t \in S, NEW u \in S, NEW v \in S, u \in NewerIn(S)[t], v \in NewerIn(S)[u]
      PROVE  v \in NewerIn(S)[t]
  BY <1>1, <1>3, <1>6 DEF Earliest
<1>7. ASSUME NEW t \in S, NEW u \in S, t # u
      PROVE  t \in NewerIn(S)[u] \/ u \in NewerIn(S)[t]
  <2>1. PICK a, b, c, d \in Int : a = At[t] /\ b = At[u] /\ c = PostedAt[t] /\ d = PostedAt[u]
    BY <1>1
  <2>2. c # d
    BY <1>2, <1>7, <2>1
  <2>3. Earliest(t, u) \/ Earliest(u, t)
    BY <2>1, <2>2 DEF Earliest
  <2> QED BY <1>3, <2>3
<1> QED BY <1>4, <1>5, <1>6, <1>7 DEF Ordered

\* And before it, when the oldest come first.
EarlierIn(S) == [t \in S |-> {u \in S : Earliest(u, t)}]

LEMMA OldestFirst ==
  ASSUME NEW S, IsFiniteSet(S), S \subseteq Transactions
  PROVE  Ordered(S, EarlierIn(S))
<1>1. \A t \in S : At[t] \in Int /\ PostedAt[t] \in Int
  BY TransactionAssumption
<1>2. \A t, u \in S : PostedAt[t] = PostedAt[u] => t = u
  BY TransactionAssumption
<1>3. \A t, u \in S : u \in EarlierIn(S)[t] <=> Earliest(u, t)
  BY DEF EarlierIn
<1>4. \A t \in S : EarlierIn(S)[t] \in SUBSET S
  BY DEF EarlierIn
<1>5. \A t \in S : t \notin EarlierIn(S)[t]
  BY <1>1, <1>3 DEF Earliest
<1>6. ASSUME NEW t \in S, NEW u \in S, NEW v \in S, u \in EarlierIn(S)[t], v \in EarlierIn(S)[u]
      PROVE  v \in EarlierIn(S)[t]
  BY <1>1, <1>3, <1>6 DEF Earliest
<1>7. ASSUME NEW t \in S, NEW u \in S, t # u
      PROVE  t \in EarlierIn(S)[u] \/ u \in EarlierIn(S)[t]
  <2>1. PICK a, b, c, d \in Int : a = At[t] /\ b = At[u] /\ c = PostedAt[t] /\ d = PostedAt[u]
    BY <1>1
  <2>2. c # d
    BY <1>2, <1>7, <2>1
  <2>3. Earliest(t, u) \/ Earliest(u, t)
    BY <2>1, <2>2 DEF Earliest
  <2> QED BY <1>3, <2>3
<1> QED BY <1>4, <1>5, <1>6, <1>7 DEF Ordered

\* The n newest, or all: each after those that are newer, and no others.
LEMMA NewestIs ==
  ASSUME NEW S, IsFiniteSet(S), S \subseteq Transactions, NEW n \in Nat,
         NEW list, list = Newest(S, n)
  PROVE  /\ Len(list) = IF n < Cardinality(S) THEN n ELSE Cardinality(S)
         /\ \A i \in DOMAIN list : list[i] \in S
         /\ \A i \in DOMAIN list, t \in S :
              Earliest(list[i], t) <=> \E j \in DOMAIN list : j < i /\ list[j] = t
<1> DEFINE before == NewerIn(S)
<1>1. Ordered(S, before)
  BY NewestFirst
<1>2. \A t, u \in S : u \in before[t] <=> Earliest(t, u)
  BY DEF NewerIn
<1>3. PICK m \in Nat : m = (IF n < Cardinality(S) THEN n ELSE Cardinality(S)) /\ m <= Cardinality(S)
  BY <1>1, Ranks
<1>4. list = [i \in 1..m |-> CHOOSE t \in S : Cardinality({u \in S : Earliest(t, u)}) = i - 1]
  BY <1>3 DEF Newest
<1>10. \A t \in S : before[t] = {u \in S : Earliest(t, u)}
  BY DEF NewerIn
<1> HIDE DEF before
<1>5. ASSUME NEW i \in 1..m
      PROVE  list[i] \in S /\ Cardinality(before[list[i]]) = i - 1
  <2>1. i - 1 \in 0..(Cardinality(S) - 1)
    <3>1. Cardinality(S) \in Nat
      BY <1>1, Ranks
    <3> QED BY <1>3, <3>1
  <2>2. PICK t \in S : Cardinality(before[t]) = i - 1
    BY <1>1, <2>1, Ranks
  <2>3. Cardinality({u \in S : Earliest(t, u)}) = i - 1
    BY <1>10, <2>2
  <2>4. list[i] \in S /\ Cardinality({u \in S : Earliest(list[i], u)}) = i - 1
    BY <1>4, <2>3
  <2> QED BY <1>10, <2>4
<1>6. DOMAIN list = 1..m /\ list \in [1..m -> S]
  BY <1>4, <1>5
<1>7. Len(list) = m
  <2>1. list \in Seq(S)
    BY <1>6, SeqDef
  <2>2. PICK l \in Nat : l = Len(list) /\ DOMAIN list = 1..l
    BY <2>1, LenProperties
  <2>3. 1..l = 1..m
    BY <1>6, <2>2
  <2>4. l = m
    <3>1. Cardinality(1..l) = l /\ Cardinality(1..m) = m
      BY FS_Interval
    <3> QED BY <2>3, <3>1
  <2> QED BY <2>2, <2>4
<1>8. ASSUME NEW i \in 1..m, NEW t \in S
      PROVE  Earliest(list[i], t) <=> \E j \in 1..m : j < i /\ list[j] = t
  <2>1. PICK r \in Int : r = Cardinality(before[t]) /\ 0 <= r
    BY <1>1, <1>3, Ranks
  <2>2. Earliest(list[i], t) <=> r < i - 1
    BY <1>1, <1>2, <1>5, <2>1, Ranks
  <2>3. ASSUME r < i - 1
        PROVE  \E j \in 1..m : j < i /\ list[j] = t
    <3>1. r + 1 \in 1..m /\ r + 1 < i
      BY <2>1, <2>3
    <3>2. list[r + 1] \in S /\ Cardinality(before[list[r + 1]]) = r
      BY <1>5, <2>1, <3>1
    <3>3. list[r + 1] = t
      BY <1>1, <2>1, <3>2, Ranks
    <3> QED BY <3>1, <3>3
  <2>4. ASSUME NEW j \in 1..m, j < i, list[j] = t
        PROVE  r < i - 1
    BY <1>5, <2>1, <2>4
  <2> QED BY <2>2, <2>3, <2>4
<1> QED
  BY <1>3, <1>5, <1>6, <1>7, <1>8
-----------------------------------------------------------------------------
(* Lines of a statement.                                                   *)

LEMMA UntouchedStays ==
  ASSUME NEW t \in Transactions, NEW a, ~Touches(t, a)
  PROVE  Moves({a})[t] = 0
<1>1. On(t, {a}) = {}
  BY DEF Touches, On
<1>2. Delta(t, {a}) = 0
  BY <1>1, DeltaIs, SumEmpty
<1> QED BY <1>2 DEF Moves

\* A balance on a statement is all that was moved until then, whatever the page.
LEMMA BalanceCarriesOn ==
  ASSUME NEW seen, BooksOk(seen), NEW a, NEW p, p.start \in Int, p.end \in Int,
         NEW all, all = Listed(seen, a, p), NEW t \in all
  PROVE  MovedBefore(seen, {a}, p.start)
           + SumFunctionOnSet(Moves({a}), {u \in all : Earliest(u, t)} \cup {t})
         = MovedBefore(seen, {a}, At[t])
             + SumFunctionOnSet(Moves({a}), {u \in Reported(seen) : At[u] = At[t] /\ ~Earliest(t, u)})
<1> DEFINE B == Reported(seen)
           f == Moves({a})
           X == {u \in B : At[u] < At[t]}
           Y == {u \in B : At[u] = At[t] /\ ~Earliest(t, u)}
           O == {u \in B : At[u] < p.start}
           E == {u \in all : Earliest(u, t)} \cup {t}
           W == (X \cup Y) \ (O \cup E)
<1>1. \A u \in B : u \in Transactions /\ At[u] \in Int /\ PostedAt[u] \in Int
  BY ReportedBooks, TransactionAssumption
<1>2. \A u, v \in B : PostedAt[u] = PostedAt[v] => u = v
  BY ReportedBooks, TransactionAssumption
<1>3. \A u : u \in all <=> u \in B /\ Touches(u, a) /\ p.start <= At[u] /\ At[u] < p.end
  BY DEF Listed
<1>4. t \in B /\ p.start <= At[t] /\ At[t] < p.end
  BY <1>3
<1>5. X \cap Y = {} /\ X \in SUBSET B /\ Y \in SUBSET B
  BY <1>1, <1>4
<1>6. O \cap E = {}
  BY <1>1, <1>3, <1>4
<1>7. O \cup E \subseteq X \cup Y
  <2>1. O \subseteq X
    BY <1>1, <1>4
  <2>2. \A u \in E : u \in B /\ (u = t \/ Earliest(u, t))
    BY <1>3, <1>4
  <2>3. ASSUME NEW u \in B, u = t \/ Earliest(u, t)
        PROVE  u \in X \cup Y
    <3>1. PICK c, d, x, y \in Int : c = At[u] /\ d = At[t] /\ x = PostedAt[u] /\ y = PostedAt[t]
      BY <1>1, <1>4
    <3>2. c < d \/ (c = d /\ ~(d < c \/ (d = c /\ y < x)))
      BY <2>3, <3>1 DEF Earliest
    <3>3. ~Earliest(t, u) <=> ~(d < c \/ (d = c /\ y < x))
      BY <3>1 DEF Earliest
    <3> QED BY <3>1, <3>2, <3>3
  <2> HIDE DEF E
  <2> QED BY <2>1, <2>2, <2>3
<1>8. ASSUME NEW u \in W
      PROVE  f[u] = 0
  <2>1. u \in B /\ (u \in X \/ u \in Y) /\ u \notin O /\ u \notin E
    BY <1>5
  <2>2. PICK c, d, x, y, s, e \in Int : /\ c = At[u] /\ d = At[t] /\ x = PostedAt[u] /\ y = PostedAt[t]
                                        /\ s = p.start /\ e = p.end
    BY <1>1, <1>4, <2>1
  <2>3. u # t /\ x # y
    BY <1>2, <1>4, <2>1, <2>2
  <2>4. s <= c /\ s <= d /\ d < e
    BY <1>4, <2>1, <2>2
  <2>5. c < d \/ (c = d /\ x < y)
    <3>1. CASE u \in X
      BY <2>2, <3>1
    <3>2. CASE u \in Y
      BY <2>2, <2>3, <3>2 DEF Earliest
    <3> QED BY <2>1, <3>1, <3>2
  <2>6. Earliest(u, t) /\ c < e
    BY <2>2, <2>4, <2>5 DEF Earliest
  <2>7. u \notin all
    BY <2>1, <2>6
  <2>8. ~Touches(u, a)
    BY <1>3, <2>1, <2>2, <2>4, <2>6, <2>7
  <2> QED BY <1>1, <2>1, <2>8, UntouchedStays
<1>9. MovedBefore(seen, {a}, p.start) = SumFunctionOnSet(f, O)
      /\ MovedBefore(seen, {a}, At[t]) = SumFunctionOnSet(f, X)
  BY DEF MovedBefore
<1>10. (O \cup E) \cap W = {} /\ (O \cup E) \cup W = X \cup Y
  BY <1>7
<1>11. PICK P, Q : P = O \cup E /\ Q = X \cup Y
  OBVIOUS
<1>12. P \in SUBSET B /\ Q \in SUBSET B /\ W \in SUBSET B /\ O \in SUBSET B /\ E \in SUBSET B
  BY <1>5, <1>7, <1>11
<1> HIDE DEF B, f, X, Y, O, E, W
<1>13. \A S \in SUBSET B : IsFiniteSet(S) /\ Integral(f, S) /\ SumFunctionOnSet(f, S) \in Int
  BY ReportedBooks DEF B, f
<1>14. PICK o, e, w, x, y \in Int : /\ o = SumFunctionOnSet(f, O) /\ e = SumFunctionOnSet(f, E)
                                    /\ w = SumFunctionOnSet(f, W) /\ x = SumFunctionOnSet(f, X)
                                    /\ y = SumFunctionOnSet(f, Y)
  BY <1>5, <1>12, <1>13
<1>15. SumFunctionOnSet(f, P) = o + e
  BY <1>6, <1>11, <1>12, <1>13, <1>14, SumUnion
<1>16. SumFunctionOnSet(f, Q) = x + y
  BY <1>5, <1>11, <1>12, <1>13, <1>14, SumUnion
<1>17. SumFunctionOnSet(f, P \cup W) = SumFunctionOnSet(f, P) + w
  BY <1>10, <1>11, <1>12, <1>13, <1>14, SumUnion
<1>18. w = 0
  BY <1>8, <1>12, <1>13, <1>14, SumZero
<1>19. o + e = x + y
  <2>1. P \cup W = Q
    BY <1>10, <1>11
  <2>2. x + y = (o + e) + w
    BY <1>15, <1>16, <1>17, <2>1
  <2> QED BY <1>14, <1>18, <2>2
<1> QED
  BY <1>9, <1>14, <1>19 DEF B, f, Y, E

\* The page that is read is of what is listed, each line with its balance.
LEMMA LinesAre ==
  ASSUME NEW seen, NEW a, NEW p, NEW opening, NEW limit, NEW offset,
         NEW all, all = Listed(seen, a, p),
         NEW lines, lines = Lines(seen, a, p, opening, limit, offset)
  PROVE  /\ DOMAIN lines \in SUBSET all
         /\ \A t \in DOMAIN lines : lines[t].balance =
              opening + SumFunctionOnSet(Moves({a}), {u \in all : Earliest(u, t)} \cup {t})
BY DEF Lines

\* The first page holds the oldest, and is full when it does not hold all.
LEMMA FirstPage ==
  ASSUME NEW all, IsFiniteSet(all), all \subseteq Transactions, NEW limit \in Nat \ {0},
         NEW page \in SUBSET all, \A t \in all : t \in page <=> Cardinality(EarlierIn(all)[t]) < limit
  PROVE  /\ \A t \in page, u \in all \ page : Earliest(t, u)
         /\ page # all => Cardinality(page) = limit
<1> DEFINE before == EarlierIn(all)
<1>1. Ordered(all, before)
  BY OldestFirst
<1>2. \A t \in all : before[t] = {u \in all : Earliest(u, t)}
  BY DEF EarlierIn
<1>3. \A t \in all : t \in page <=> Cardinality(before[t]) < limit
  OBVIOUS
<1> HIDE DEF before
<1>4. \A t \in all : Cardinality(before[t]) \in 0..(Cardinality(all) - 1) /\ Cardinality(all) \in Nat
  BY <1>1, Ranks
<1>5. \A t \in all : Cardinality(before[t]) \in Nat
  BY <1>4
<1>6. \A t, u \in all : Cardinality(before[t]) < Cardinality(before[u]) => Earliest(t, u)
  <2>1. \A t, u \in all : Cardinality(before[t]) < Cardinality(before[u]) => t \in before[u]
    BY <1>1, Ranks
  <2> QED BY <1>2, <2>1
<1>7. ASSUME NEW t \in page, NEW u \in all \ page
      PROVE  Earliest(t, u)
  BY <1>5, <1>3, <1>6
<1>8. ASSUME page # all
      PROVE  Cardinality(page) = limit
  <2>1. PICK u \in all : u \notin page
    BY <1>3, <1>8
  <2>2. limit \in 0..(Cardinality(all) - 1)
    BY <1>4, <1>3, <2>1
  <2>3. PICK t \in all : Cardinality(before[t]) = limit
    BY <1>1, <2>2, Ranks
  <2>4. \A v \in all : v \in before[t] <=> Cardinality(before[v]) < limit
    BY <1>1, <2>3, Ranks
  <2>5. page = before[t]
    BY <1>2, <1>3, <2>4
  <2> QED BY <2>3, <2>5
<1> QED BY <1>3, <1>7, <1>8

\* What the newest of the first page is silent about is what the page does not hold.
LEMMA PageIsListed ==
  ASSUME NEW all, IsFiniteSet(all), all \subseteq Transactions,
         NEW page \in SUBSET all, page # {}, \A t \in page, u \in all \ page : Earliest(t, u),
         NEW n \in Nat \ {0}, NEW list, list = Newest(page, n)
  PROVE  Unlisted(list, all) = all \ page
<1>1. IsFiniteSet(page) /\ page \subseteq Transactions /\ Cardinality(page) \in Nat /\ Cardinality(page) # 0
  BY FS_Subset, FS_CardinalityType, FS_EmptySet
<1>2. /\ \A i \in DOMAIN list : list[i] \in page
      /\ \A i \in DOMAIN list, t \in page :
           Earliest(list[i], t) <=> \E j \in DOMAIN list : j < i /\ list[j] = t
  BY <1>1, NewestIs
<1>3. PICK m \in Nat \ {0} : DOMAIN list = 1..m
  <2>1. DOMAIN list = 1..(IF n < Cardinality(page) THEN n ELSE Cardinality(page))
    BY DEF Newest
  <2> QED BY <1>1, <2>1
<1>4. ASSUME NEW t \in page
      PROVE  ~Earliest(list[1], t)
  <2>1. 1 \in DOMAIN list /\ \A j \in DOMAIN list : ~(j < 1)
    BY <1>3
  <2> QED BY <1>2, <2>1
<1>5. 1 \in DOMAIN list
  BY <1>3
<1> QED BY <1>2, <1>4, <1>5 DEF Unlisted

\* A sum up to an instant grows by what is committed with an earlier date.
LEMMA BeforeGrows ==
  ASSUME NEW e, BooksOk(e), NEW l, BooksOk(l), DOMAIN e \subseteq DOMAIN l, NEW A, NEW x \in Int
  PROVE  /\ MovedBefore(e, A, x) \in Int
         /\ SumFunctionOnSet(Moves(A), {t \in Since(e, l) : At[t] < x}) \in Int
         /\ MovedBefore(l, A, x)
              = MovedBefore(e, A, x) + SumFunctionOnSet(Moves(A), {t \in Since(e, l) : At[t] < x})
<1> DEFINE D == {i \in Int : i < x}
<1>1. \A t \in Reported(e) \cup Reported(l) : At[t] \in Int
  BY ReportedBooks, TransactionAssumption
<1>2. /\ {t \in Reported(e) : At[t] < x} = Dated(Reported(e), D)
      /\ {t \in Reported(l) : At[t] < x} = Dated(Reported(l), D)
      /\ {t \in Since(e, l) : At[t] < x} = Dated(Since(e, l), D)
  BY <1>1 DEF Since, Dated
<1>3. PICK d : d = D
  OBVIOUS
<1>4. /\ MovedBefore(e, A, x) = SumFunctionOnSet(Moves(A), Dated(Reported(e), d))
      /\ MovedBefore(l, A, x) = SumFunctionOnSet(Moves(A), Dated(Reported(l), d))
      /\ SumFunctionOnSet(Moves(A), {t \in Since(e, l) : At[t] < x})
           = SumFunctionOnSet(Moves(A), Dated(Since(e, l), d))
  BY <1>2, <1>3 DEF MovedBefore
<1> HIDE DEF D
<1>5. /\ SumFunctionOnSet(Moves(A), Dated(Reported(e), d)) \in Int
      /\ SumFunctionOnSet(Moves(A), Dated(Since(e, l), d)) \in Int
      /\ SumFunctionOnSet(Moves(A), Dated(Reported(l), d))
           = SumFunctionOnSet(Moves(A), Dated(Reported(e), d))
               + SumFunctionOnSet(Moves(A), Dated(Since(e, l), d))
  BY MovedSince
<1> QED BY <1>4, <1>5

\* Lists of recent transactions and statements are true.
THEOREM StatementsAreTrue == ReadersSpec => []StatementsTrue
<1>1. ReaderInv => StatementsTrue
  <2> DEFINE seen == reader.seen
             counted == Listed(seen["count"], reader.account, Asked)
             all == Listed(seen["lines"], reader.account, Asked)
             backdated == {t \in Since(seen["opening"], seen["lines"]) : At[t] < Asked.start}
             lines == reader.got["lines"]
  <2> SUFFICES ASSUME ReaderInv, Answered, reader.kind \in {"statement", "recent"}
               PROVE
       /\ reader.kind = "recent" /\ reader.reply.answer = "none" => counted = {}
       /\ reader.kind = "recent" /\ reader.reply.answer = "tooMany" => Cardinality(counted) > ReadLimit
       /\ reader.kind = "recent" /\ reader.reply.answer = "list" =>
            LET list == reader.reply.list
                unlisted == Unlisted(list, all) IN
            /\ Cardinality(unlisted) <= Cardinality(all \ counted)
            /\ Len(list) = (IF reader.limit < Cardinality(all \ unlisted)
                            THEN reader.limit ELSE Cardinality(all \ unlisted))
            /\ \A i \in DOMAIN list : list[i] \in all
            /\ \A i \in DOMAIN list, t \in all \ unlisted :
                 Earliest(list[i], t) <=> \E j \in DOMAIN list : j < i /\ list[j] = t
       /\ reader.kind = "statement" => \A t \in DOMAIN lines :
            lines[t].balance + SumFunctionOnSet(Moves({reader.account}), backdated)
              = MovedBefore(seen["lines"], {reader.account}, At[t])
                + SumFunctionOnSet(Moves({reader.account}),
                                   {u \in Reported(seen["lines"]) : At[u] = At[t] /\ ~Earliest(t, u)})
    BY DEF StatementsTrue
  <2>1. /\ zone \in Zones /\ RequestInv
        /\ BooksOk(seen["count"]) /\ BooksOk(seen["opening"]) /\ BooksOk(seen["lines"])
        /\ DOMAIN seen["count"] \subseteq DOMAIN seen["lines"]
        /\ DOMAIN seen["opening"] \subseteq DOMAIN seen["lines"]
        /\ reader.got["count"] = Cardinality(counted)
        /\ reader.got["opening"] = MovedBefore(seen["opening"], {reader.account}, Asked.start)
        /\ lines = Lines(seen["lines"], reader.account, Asked, reader.got["opening"],
                         PageLimit, reader.offset)
    <3>1. PartsOf[reader.kind] = {"count", "opening", "lines"} /\ Awaited("lines") = {"count", "opening"}
      BY DEF PartsOf, Awaited
    <3>2. /\ zone \in Zones /\ RequestInv
          /\ BooksOk(seen["count"]) /\ BooksOk(seen["opening"]) /\ BooksOk(seen["lines"])
          /\ DOMAIN seen["count"] \subseteq DOMAIN seen["lines"]
          /\ DOMAIN seen["opening"] \subseteq DOMAIN seen["lines"]
          /\ reader.got["count"] = Value(seen["count"], "count")
          /\ reader.got["opening"] = Value(seen["opening"], "opening")
          /\ reader.got["lines"] = Value(seen["lines"], "lines")
      BY <3>1, AnswerIs
    <3> QED BY <3>2 DEF Value
  <2>2. Asked.start \in Int /\ Asked.end \in Int
    BY <2>1, AskableDates, PeriodIs DEF Asked
  <2>3. PICK C, L, o : C = counted /\ L = all /\ o = reader.got["opening"]
    OBVIOUS
  <2>4. /\ IsFiniteSet(C) /\ IsFiniteSet(L) /\ C \subseteq L /\ L \subseteq Transactions
        /\ Cardinality(C) \in Nat /\ Cardinality(L) \in Nat
    <3>1. /\ Reported(seen["count"]) \subseteq Reported(seen["lines"])
          /\ IsFiniteSet(Reported(seen["lines"])) /\ Reported(seen["lines"]) \subseteq Transactions
      <4>1. PICK c, l : c = seen["count"] /\ l = seen["lines"]
        OBVIOUS
      <4>2. Reported(c) = DOMAIN c /\ Reported(l) = DOMAIN l
            /\ IsFiniteSet(Reported(l)) /\ Reported(l) \subseteq Transactions
        BY <2>1, <4>1, ReportedBooks
      <4> QED BY <2>1, <4>1, <4>2
    <3>2. C \subseteq L /\ L \in SUBSET Reported(seen["lines"])
      BY <2>3, <3>1 DEF Listed
    <3>3. IsFiniteSet(L) /\ L \subseteq Transactions
      BY <3>1, <3>2, FS_Subset
    <3> QED BY <3>2, <3>3, FS_Subset, FS_CardinalityType
  <2>5. CASE reader.kind = "recent"
    <3>1. PICK page : page = DOMAIN lines
      OBVIOUS
    <3>2. page = {t \in L : Cardinality({u \in L : Earliest(u, t)}) \in 0..(0 + ReadLimit - 1)}
      <4>1. PageLimit = ReadLimit /\ reader.offset = 0
        BY <2>1, <2>5 DEF PageLimit, RequestInv
      <4> QED BY <2>1, <2>3, <3>1, <4>1 DEF Lines
    <3>3. /\ page \in SUBSET L /\ \A t \in page, u \in L \ page : Earliest(t, u)
          /\ page # L => Cardinality(page) = ReadLimit
      <4>1. PICK n \in Nat \ {0} : n = ReadLimit
        BY ReaderAssumption
      <4>2. page = {t \in L : Cardinality({u \in L : Earliest(u, t)}) \in 0..(0 + n - 1)}
        BY <3>2, <4>1
      <4>3. page \in SUBSET L /\ \A t \in L : t \in page <=> Cardinality(EarlierIn(L)[t]) < n
        <5>1. \A t \in L : EarlierIn(L)[t] = {u \in L : Earliest(u, t)}
          BY DEF EarlierIn
        <5>2. \A t \in L : Cardinality(EarlierIn(L)[t]) \in Nat
          <6>1. Ordered(L, EarlierIn(L))
            BY <2>4, OldestFirst
          <6>2. \A t \in L : Cardinality(EarlierIn(L)[t]) \in 0..(Cardinality(L) - 1)
            BY <2>4, <6>1, Ranks
          <6> QED BY <2>4, <6>2
        <5> QED BY <4>2, <5>1, <5>2
      <4>4. /\ \A t \in page, u \in L \ page : Earliest(t, u)
            /\ page # L => Cardinality(page) = n
        BY <2>4, <4>3, FirstPage
      <4> QED BY <4>1, <4>3, <4>4
    <3>4. Cardinality(page) \in Nat /\ IsFiniteSet(page) /\ page \subseteq Transactions
      BY <2>4, <3>3, FS_Subset, FS_CardinalityType
    <3>5. PICK count, got : count = reader.got["count"] /\ got = lines
      OBVIOUS
    <3>6. /\ count = 0 => reader.reply.answer = "none"
          /\ count # 0 /\ TooMany(count, got) => reader.reply.answer = "tooMany"
          /\ count # 0 /\ ~TooMany(count, got) =>
               reader.reply.answer = "list" /\ reader.reply.list = Newest(DOMAIN got, reader.limit)
      <4>1. reader.reply = Recent
        BY <2>5 DEF ReaderInv, Answered, ReplyInv
      <4> QED BY <3>5, <4>1 DEF Recent
    <3>7. count = Cardinality(C) /\ (TooMany(count, got) <=> Cardinality(C) > Cardinality(page))
      BY <2>1, <2>3, <3>1, <3>5 DEF TooMany
    <3>8. reader.reply.answer = "none" => C = {}
      BY <2>4, <3>6, <3>7, FS_EmptySet
    <3>9. reader.reply.answer = "tooMany" => Cardinality(C) > ReadLimit
      <4> SUFFICES ASSUME reader.reply.answer = "tooMany"
                   PROVE  Cardinality(C) > ReadLimit
        OBVIOUS
      <4>1. Cardinality(C) > Cardinality(page)
        BY <3>6, <3>7
      <4>2. Cardinality(C) <= Cardinality(L)
        BY <2>4, FS_Subset
      <4>3. page # L
        BY <2>4, <4>1, <4>2
      <4> QED BY <3>3, <4>1, <4>3
    <3>10. ASSUME reader.reply.answer = "list"
           PROVE  LET list == reader.reply.list
                      unlisted == Unlisted(list, L) IN
                  /\ Cardinality(unlisted) <= Cardinality(L \ C)
                  /\ Len(list) = (IF reader.limit < Cardinality(L \ unlisted)
                                  THEN reader.limit ELSE Cardinality(L \ unlisted))
                  /\ \A i \in DOMAIN list : list[i] \in L
                  /\ \A i \in DOMAIN list, t \in L \ unlisted :
                       Earliest(list[i], t) <=> \E j \in DOMAIN list : j < i /\ list[j] = t
      <4>1. reader.limit \in Nat \ {0}
        BY <2>1, <2>5, ReaderAssumption DEF RequestInv
      <4>2. count # 0 /\ ~TooMany(count, got)
        BY <3>6, <3>10
      <4>3. Cardinality(C) # 0 /\ Cardinality(C) <= Cardinality(page)
        BY <2>4, <3>4, <3>7, <4>2
      <4>4. page # {}
        BY <2>4, <3>4, <4>3, FS_EmptySet
      <4>5. PICK list, n : list = reader.reply.list /\ n = reader.limit /\ list = Newest(page, n)
        BY <3>1, <3>5, <3>6, <4>2
      <4>6. Unlisted(list, L) = L \ page
        BY <2>4, <3>3, <4>1, <4>4, <4>5, PageIsListed
      <4>7. L \ Unlisted(list, L) = page
        BY <3>3, <4>6
      <4>8. Cardinality(L \ page) <= Cardinality(L \ C)
        <5>1. /\ Cardinality(L \ page) = Cardinality(L) - Cardinality(page)
              /\ Cardinality(L \ C) = Cardinality(L) - Cardinality(C)
          <6>1. L \cap page = page /\ L \cap C = C
            BY <2>4, <3>3
          <6>2. Cardinality(L \ page) = Cardinality(L) - Cardinality(L \cap page)
            BY <2>4, FS_Difference
          <6>3. Cardinality(L \ C) = Cardinality(L) - Cardinality(L \cap C)
            BY <2>4, FS_Difference
          <6> QED BY <6>1, <6>2, <6>3
        <5> QED BY <2>4, <3>4, <4>3, <5>1
      <4>9. /\ Len(list) = (IF n < Cardinality(page) THEN n ELSE Cardinality(page))
            /\ \A i \in DOMAIN list : list[i] \in page
            /\ \A i \in DOMAIN list, t \in page :
                 Earliest(list[i], t) <=> \E j \in DOMAIN list : j < i /\ list[j] = t
        BY <3>4, <4>1, <4>5, NewestIs
      <4>10. \A i \in DOMAIN list : list[i] \in L
        BY <3>3, <4>9
      <4>11. /\ Cardinality(Unlisted(list, L)) <= Cardinality(L \ C)
             /\ Len(list) = (IF n < Cardinality(L \ Unlisted(list, L))
                             THEN n ELSE Cardinality(L \ Unlisted(list, L)))
             /\ \A i \in DOMAIN list, t \in L \ Unlisted(list, L) :
                  Earliest(list[i], t) <=> \E j \in DOMAIN list : j < i /\ list[j] = t
        BY <4>6, <4>7, <4>8, <4>9
      <4> QED BY <4>5, <4>10, <4>11
    <3> QED BY <2>3, <2>5, <3>8, <3>9, <3>10
  <2>6. ASSUME reader.kind = "statement", NEW t \in DOMAIN lines
        PROVE  lines[t].balance + SumFunctionOnSet(Moves({reader.account}), backdated)
                 = MovedBefore(seen["lines"], {reader.account}, At[t])
                   + SumFunctionOnSet(Moves({reader.account}),
                                      {u \in Reported(seen["lines"]) : At[u] = At[t] /\ ~Earliest(t, u)})
    <3>1. PICK e, l, A, a : e = seen["opening"] /\ l = seen["lines"] /\ a = reader.account /\ A = {a}
      OBVIOUS
    <3>2. BooksOk(e) /\ BooksOk(l) /\ DOMAIN e \subseteq DOMAIN l
      BY <2>1, <3>1
    <3>3. PICK page : page = lines
      OBVIOUS
    <3>4. /\ t \in L
          /\ page[t].balance = o + SumFunctionOnSet(Moves({a}), {u \in L : Earliest(u, t)} \cup {t})
      <4>1. /\ page = Lines(l, a, Asked, o, PageLimit, reader.offset)
            /\ L = Listed(l, a, Asked) /\ t \in DOMAIN page
        BY <2>1, <2>3, <2>6, <3>1, <3>3
      <4> QED BY <4>1, LinesAre
    <3>5. PICK s : s = SumFunctionOnSet(Moves({a}), {u \in L : Earliest(u, t)} \cup {t})
      OBVIOUS
    <3>6. MovedBefore(l, {a}, Asked.start) + s
            = MovedBefore(l, {a}, At[t])
                + SumFunctionOnSet(Moves({a}), {u \in Reported(l) : At[u] = At[t] /\ ~Earliest(t, u)})
      BY <2>2, <2>3, <3>1, <3>2, <3>4, <3>5, BalanceCarriesOn
    <3>7. PICK m, b \in Int : /\ m = o /\ b = SumFunctionOnSet(Moves({a}), backdated)
                              /\ MovedBefore(l, {a}, Asked.start) = m + b
      <4>1. PICK x \in Int : x = Asked.start
        BY <2>2
      <4>2. o = MovedBefore(e, {a}, x) /\ backdated = {u \in Since(e, l) : At[u] < x}
        BY <2>1, <2>3, <3>1, <4>1
      <4>3. /\ MovedBefore(e, {a}, x) \in Int
            /\ SumFunctionOnSet(Moves({a}), {u \in Since(e, l) : At[u] < x}) \in Int
            /\ MovedBefore(l, {a}, x) = MovedBefore(e, {a}, x)
                 + SumFunctionOnSet(Moves({a}), {u \in Since(e, l) : At[u] < x})
        BY <3>2, BeforeGrows
      <4> HIDE DEF backdated
      <4> QED BY <4>1, <4>2, <4>3
    <3>8. s \in Int
      <4>1. {u \in L : Earliest(u, t)} \cup {t} \subseteq L
        BY <3>4
      <4>2. IsFiniteSet({u \in L : Earliest(u, t)} \cup {t})
        BY <2>4, <4>1, FS_Subset
      <4> QED BY <2>4, <3>5, <4>1, <4>2, MovesIntegral, SumInt
    <3>9. page[t].balance + b = (m + b) + s
      BY <3>4, <3>5, <3>7, <3>8
    <3> HIDE DEF seen, backdated, lines, all, counted
    <3> QED BY <3>1, <3>3, <3>6, <3>7, <3>9
  <2> QED
    BY <2>5, <2>6
<1> QED
  BY <1>1, ReadersInvariant, PTL

-----------------------------------------------------------------------------
(* The figures of an overview.                                             *)

\* The first bucket begins before the period ends.
LEMMA FirstWithin ==
  ASSUME NEW z \in Zones, NEW g, NEW from, NEW to, Askable(g, from, to),
         NEW p, p = Period(z, from, to), NEW first, first = Trunc(g, LocalDate(z, p.start))
  PROVE  FromLocal(z, first * Day) \in Int /\ FromLocal(z, first * Day) < p.end
<1>1. from \in Int /\ to \in Int /\ from <= to /\ first \in Int /\ first <= from
  <2>1. from \in Int /\ to \in Int /\ from <= to
    BY DEF Askable
  <2>2. LocalDate(z, p.start) \in (from - 1)..from
    BY PeriodIs
  <2>3. first \in Int /\ first <= LocalDate(z, p.start)
    BY CutsOfPeriod
  <2>4. PICK d \in Int : d = LocalDate(z, p.start) /\ d <= from
    BY <2>1, <2>2
  <2> QED BY <2>1, <2>3, <2>4
<1>2. PICK l, m \in Int : l = first * Day /\ m = (to + 1) * Day
  BY <1>1, Days
<1>3. l + Day <= m
  <2>1. first < to + 1 /\ to + 1 \in Int
    BY <1>1
  <2> QED BY <1>1, <1>2, <2>1, Days
<1>4. p.end = m - z.before \/ p.end = m - z.after
  BY <1>1, <1>2, PeriodIs, DayStartIs
<1>5. FromLocal(z, l) = l - z.before \/ FromLocal(z, l) = l - z.after
  BY DEF FromLocal
<1> QED
  BY <1>2, <1>3, <1>4, <1>5, ZoneIs

\* Over an interval, and over two that join.
Within(seen, p) == {t \in Reported(seen) : p.start <= At[t] /\ At[t] < p.end}

LEMMA WithinIs ==
  ASSUME NEW seen, BooksOk(seen), NEW A
  PROVE  \A p : /\ Within(seen, p) \in SUBSET Reported(seen)
                /\ Moved(seen, A, p) = SumFunctionOnSet(Moves(A), Within(seen, p))
BY DEF Within, Moved

LEMMA Joined ==
  ASSUME NEW seen, BooksOk(seen), NEW A, NEW P \in SUBSET Reported(seen), NEW Q \in SUBSET Reported(seen),
         P \cap Q = {}
  PROVE  /\ SumFunctionOnSet(Moves(A), P) \in Int /\ SumFunctionOnSet(Moves(A), Q) \in Int
         /\ SumFunctionOnSet(Moves(A), P \cup Q)
              = SumFunctionOnSet(Moves(A), P) + SumFunctionOnSet(Moves(A), Q)
<1>1. P \cup Q \in SUBSET Reported(seen)
  OBVIOUS
<1> QED BY <1>1, ReportedBooks, SumUnion

\* The buckets of a series add up to the period, but for what is before the first.
LEMMA BucketsAddUp ==
  ASSUME NEW seen, BooksOk(seen), NEW z \in Zones, NEW g, NEW from, NEW to, Askable(g, from, to),
         NEW p, p = Period(z, from, to), NEW first, first = Trunc(g, LocalDate(z, p.start)),
         NEW missed, missed = [start |-> p.start, end |-> FromLocal(z, first * Day)],
         NEW A, NEW C, C = BucketCuts(z, p, g),
         NEW d, \A c \in C : d[c] = Moved(seen, A, Buckets(z, p, g)[c])
  PROVE  /\ Integral(d, C)
         /\ SumFunctionOnSet(d, C) = Moved(seen, A, p) - Moved(seen, A, missed)
         /\ Moved(seen, A, p) \in Int /\ Moved(seen, A, missed) \in Int
<1> DEFINE begin == FromLocal(z, first * Day)
           S == {t \in Within(seen, p) : begin <= At[t]}
           own == [t \in S |-> CHOOSE c \in C : In(At[t], Buckets(z, p, g)[c])]
           class == [c \in C |-> Within(seen, Buckets(z, p, g)[c])]
<1>1. Integral(d, C)
  BY CutsOfPeriod, MovedInt DEF Integral
<1>2. Moved(seen, A, p) \in Int /\ Moved(seen, A, missed) \in Int
  BY MovedInt
<1>3. \A t \in Reported(seen) : At[t] \in Int
  BY ReportedBooks, TransactionAssumption
<1>4. begin \in Int /\ p.start \in Int /\ p.end \in Int /\ begin < p.end
  BY FirstWithin, PeriodIs
<1>5. \A q : \A t \in Reported(seen) : t \in Within(seen, q) <=> In(At[t], q)
  BY DEF Within, In
<1>6. \A t : t \in S <=> t \in Reported(seen) /\ In(At[t], p) /\ begin <= At[t]
  BY DEF Within, In
<1>7. \A t \in S : own[t] \in C /\ In(At[t], Buckets(z, p, g)[own[t]])
  <2> SUFFICES ASSUME NEW t \in S
               PROVE  \E c \in C : In(At[t], Buckets(z, p, g)[c])
    OBVIOUS
  <2>1. PICK x \in Int : x = At[t]
    BY <1>3, <1>6
  <2>2. In(x, p) /\ FromLocal(z, first * Day) <= x
    BY <1>6, <2>1
  <2> QED BY <2>1, <2>2, BucketsPartition
<1>8. ASSUME NEW c \in C
      PROVE  class[c] \in SUBSET S
  <2> SUFFICES ASSUME NEW t \in class[c]
               PROVE  t \in S
    OBVIOUS
  <2>1. t \in Reported(seen) /\ In(At[t], Buckets(z, p, g)[c])
    BY <1>5, WithinIs
  <2>2. PICK x \in Int : x = At[t]
    BY <1>3, <2>1
  <2>3. In(x, p) /\ FromLocal(z, first * Day) <= x
    BY <2>1, <2>2, BucketsPartition
  <2> QED BY <1>6, <2>1, <2>2, <2>3
<1>9. ASSUME NEW c \in C, NEW t \in S
      PROVE  t \in class[c] <=> own[t] = c
  <2>1. PICK x \in Int : x = At[t]
    BY <1>3, <1>6
  <2>2. t \in class[c] <=> In(x, Buckets(z, p, g)[c])
    BY <1>5, <1>6, <2>1
  <2>3. own[t] \in C /\ In(x, Buckets(z, p, g)[own[t]])
    BY <1>7, <2>1
  <2>4. PICK o \in C : o = own[t]
    BY <2>3
  <2>5. In(x, Buckets(z, p, g)[o]) /\ (In(x, Buckets(z, p, g)[c]) => c = o)
    BY <2>3, <2>4, BucketsPartition
  <2> QED BY <2>2, <2>4, <2>5
<1>10. \A c \in C : d[c] = SumFunctionOnSet(Moves(A), class[c])
  BY WithinIs
<1>11. S \in SUBSET Reported(seen) /\ Within(seen, missed) \in SUBSET Reported(seen)
  BY <1>6, WithinIs
<1>12. Within(seen, missed) \cap S = {} /\ Within(seen, p) = Within(seen, missed) \cup S
  <2>1. missed.start = p.start /\ missed.end = begin
    OBVIOUS
  <2>2. ASSUME NEW t \in Reported(seen)
        PROVE  /\ ~(t \in Within(seen, missed) /\ t \in S)
               /\ t \in Within(seen, p) <=> t \in Within(seen, missed) \/ t \in S
    <3>1. PICK x, b, s, e \in Int : x = At[t] /\ b = begin /\ s = p.start /\ e = p.end /\ b < e
      BY <1>3, <1>4
    <3>2. t \in Within(seen, missed) <=> s <= x /\ x < b
      BY <1>5, <2>1, <3>1 DEF In
    <3>3. t \in Within(seen, p) <=> s <= x /\ x < e
      BY <1>5, <3>1 DEF In
    <3>4. t \in S <=> s <= x /\ x < e /\ b <= x
      BY <1>6, <3>1 DEF In
    <3> QED BY <3>1, <3>2, <3>3, <3>4
  <2>3. Within(seen, p) \in SUBSET Reported(seen)
    BY WithinIs
  <2> HIDE DEF S
  <2> QED BY <1>11, <2>2, <2>3
<1>13. IsFiniteSet(C) /\ Integral(Moves(A), S)
  <2>1. IsFiniteSet(C)
    BY CutsOfPeriod
  <2>2. Integral(Moves(A), S)
    <3> HIDE DEF S
    <3> QED BY <1>11, ReportedBooks
  <2> QED BY <2>1, <2>2
<1>14. PICK f : f = Moves(A)
  OBVIOUS
<1> HIDE DEF S, own, class
<1>15. SumFunctionOnSet(d, C) = SumFunctionOnSet(f, S)
  <2>1. /\ Integral(f, S) /\ IsFiniteSet(C) /\ \A t \in S : own[t] \in C
        /\ \A c \in C : class[c] \in SUBSET S
        /\ \A c \in C, t \in S : t \in class[c] <=> own[t] = c
        /\ \A c \in C : d[c] = SumFunctionOnSet(f, class[c])
    BY <1>7, <1>8, <1>9, <1>10, <1>13, <1>14
  <2> QED BY <2>1, SumParts
<1>16. /\ Moved(seen, A, p) = SumFunctionOnSet(f, Within(seen, p))
       /\ Moved(seen, A, missed) = SumFunctionOnSet(f, Within(seen, missed))
  BY <1>14, WithinIs
<1>17. /\ SumFunctionOnSet(f, Within(seen, missed)) \in Int /\ SumFunctionOnSet(f, S) \in Int
       /\ SumFunctionOnSet(f, Within(seen, p)) = SumFunctionOnSet(f, Within(seen, missed)) + SumFunctionOnSet(f, S)
  <2>1. PICK M, P : M = Within(seen, missed) /\ P = Within(seen, p)
    OBVIOUS
  <2>2. M \in SUBSET Reported(seen) /\ S \in SUBSET Reported(seen) /\ M \cap S = {} /\ P = M \cup S
    BY <1>11, <1>12, <2>1
  <2>3. /\ SumFunctionOnSet(Moves(A), M) \in Int /\ SumFunctionOnSet(Moves(A), S) \in Int
        /\ SumFunctionOnSet(Moves(A), M \cup S)
             = SumFunctionOnSet(Moves(A), M) + SumFunctionOnSet(Moves(A), S)
    BY <2>2, Joined
  <2> QED BY <1>14, <2>1, <2>2, <2>3
<1> QED
  BY <1>1, <1>2, <1>15, <1>16, <1>17

LEMMA FamilyIs ==
  ASSUME NEW code
  PROVE  Family(code) \in SUBSET Accounts
BY DEF Family

\* A cash series carries on from what was moved before the period.
LEMMA CashCarriesOn ==
  ASSUME NEW seen, BooksOk(seen), NEW z \in Zones, NEW g, NEW from, NEW to, Askable(g, from, to),
         NEW p, p = Period(z, from, to), NEW first, first = Trunc(g, LocalDate(z, p.start)),
         NEW missed, missed = [start |-> p.start, end |-> FromLocal(z, first * Day)],
         NEW cash, cash = CashSeries(seen, z, p, g),
         NEW c \in DOMAIN cash, \A d \in DOMAIN cash : d <= c
  PROVE  cash[c].balance = MovedBefore(seen, Family("100"), p.end) - Moved(seen, Family("100"), missed)
<1> DEFINE C == BucketCuts(z, p, g)
           A == Family("100")
           buckets == Buckets(z, p, g)
           delta == [e \in C |-> Moved(seen, A, buckets[e])]
           until == {e \in C : Bucket(z, g, e).start <= Bucket(z, g, c).start}
           P == {t \in Reported(seen) : At[t] < p.start}
           E == {t \in Reported(seen) : At[t] < p.end}
<1>1. DOMAIN buckets = C
  BY DEF Buckets
<1>2. DOMAIN cash = C /\ cash[c].balance = MovedBefore(seen, A, p.start) + SumFunctionOnSet(delta, until)
  BY <1>1 DEF CashSeries
<1>3. until = C
  <2>1. ASSUME NEW e \in C
        PROVE  Bucket(z, g, e).start <= Bucket(z, g, c).start
    <3>1. e \in Int /\ c \in Int /\ e <= c
      BY <1>2, CutsOfPeriod
    <3>2. Bucket(z, g, e).start = FromLocal(z, e * Day) /\ Bucket(z, g, c).start = FromLocal(z, c * Day)
      BY <1>2, BucketIs
    <3> QED BY <3>1, <3>2, MidnightsInOrder
  <2> QED BY <2>1
<1>4. PICK sum, over, m \in Int :
        /\ sum = SumFunctionOnSet(delta, C) /\ over = Moved(seen, A, p) /\ m = Moved(seen, A, missed)
        /\ sum = over - m
  <2>1. \A e \in C : delta[e] = Moved(seen, A, Buckets(z, p, g)[e])
    OBVIOUS
  <2> HIDE DEF delta, buckets, A
  <2>2. /\ Integral(delta, C)
        /\ SumFunctionOnSet(delta, C) = Moved(seen, A, p) - Moved(seen, A, missed)
        /\ Moved(seen, A, p) \in Int /\ Moved(seen, A, missed) \in Int
    BY <2>1, BucketsAddUp
  <2> QED BY <2>2, SumInt
<1>5. /\ MovedBefore(seen, A, p.start) = SumFunctionOnSet(Moves(A), P)
      /\ MovedBefore(seen, A, p.end) = SumFunctionOnSet(Moves(A), E)
      /\ Moved(seen, A, p) = SumFunctionOnSet(Moves(A), Within(seen, p))
  BY DEF MovedBefore, Moved, Within
<1>6. /\ P \in SUBSET Reported(seen) /\ Within(seen, p) \in SUBSET Reported(seen)
      /\ P \cap Within(seen, p) = {} /\ E = P \cup Within(seen, p)
  <2>1. \A t \in Reported(seen) : At[t] \in Int
    BY ReportedBooks, TransactionAssumption
  <2>2. p.start \in Int /\ p.end \in Int /\ p.start < p.end
    BY PeriodIs
  <2> QED BY <2>1, <2>2 DEF Within
<1> HIDE DEF C, A, buckets, delta, until, P, E
<1>7. /\ SumFunctionOnSet(Moves(A), P) \in Int
      /\ SumFunctionOnSet(Moves(A), P \cup Within(seen, p))
           = SumFunctionOnSet(Moves(A), P) + SumFunctionOnSet(Moves(A), Within(seen, p))
  <2>1. PICK N, W : N = P /\ W = Within(seen, p)
    OBVIOUS
  <2>2. N \in SUBSET Reported(seen) /\ W \in SUBSET Reported(seen) /\ N \cap W = {}
    BY <1>6, <2>1
  <2>3. /\ SumFunctionOnSet(Moves(A), N) \in Int
        /\ SumFunctionOnSet(Moves(A), N \cup W)
             = SumFunctionOnSet(Moves(A), N) + SumFunctionOnSet(Moves(A), W)
    BY <2>2, Joined
  <2> QED BY <2>1, <2>3
<1>8. PICK b, e \in Int : b = MovedBefore(seen, A, p.start) /\ e = MovedBefore(seen, A, p.end)
                          /\ e = b + over
  BY <1>4, <1>5, <1>6, <1>7
<1>9. cash[c].balance = b + sum
  BY <1>2, <1>3, <1>4, <1>8
<1> QED BY <1>4, <1>8, <1>9 DEF A

LEMMA NetCashIs ==
  ASSUME NEW seen, BooksOk(seen)
  PROVE  NetCash(Position(seen)) = SumFunctionOnSet(Moves(Family("100")), Reported(seen))
<1> DEFINE A == Family("100")
<1>1. PICK position : position = Position(seen)
  OBVIOUS
<1>2. \A a \in A : position[a] = SumFunctionOnSet(Moves({a}), Reported(seen))
  BY <1>1, FamilyIs DEF Position
<1>3. SumFunctionOnSet(position, A) = SumFunctionOnSet(Moves(A), Reported(seen))
  BY <1>2, FamilyIs, ReportedBooks, MovedParts
<1>4. NetCash(position) = SumFunctionOnSet(position, A)
  BY DEF NetCash
<1> QED BY <1>1, <1>3, <1>4

\* The cash position and what is committed after it is what was moved before an instant
\* and since.
LEMMA CashSince ==
  ASSUME NEW early, BooksOk(early), NEW seen, BooksOk(seen), DOMAIN early \subseteq DOMAIN seen,
         NEW x \in Int
  PROVE  NetCash(Position(early)) + SumFunctionOnSet(Moves(Family("100")), Since(early, seen)) =
           MovedBefore(seen, Family("100"), x)
             + SumFunctionOnSet(Moves(Family("100")), {t \in Reported(seen) : At[t] >= x})
<1> DEFINE A == Family("100")
           P == {t \in Reported(seen) : At[t] < x}
           Q == {t \in Reported(seen) : At[t] >= x}
<1>1. P \cap Q = {} /\ P \cup Q = Reported(seen) /\ P \in SUBSET Reported(seen) /\ Q \in SUBSET Reported(seen)
  <2>1. \A t \in Reported(seen) : At[t] \in Int
    BY ReportedBooks, TransactionAssumption
  <2> QED BY <2>1
<1>2. MovedBefore(seen, A, x) = SumFunctionOnSet(Moves(A), P)
  BY DEF MovedBefore
<1>3. SumFunctionOnSet(Moves(A), Reported(seen))
        = SumFunctionOnSet(Moves(A), Reported(early)) + SumFunctionOnSet(Moves(A), Since(early, seen))
  <2>1. /\ Reported(early) = Dated(Reported(early), Int)
        /\ Reported(seen) = Dated(Reported(seen), Int)
        /\ Since(early, seen) = Dated(Since(early, seen), Int)
    <3>1. \A t \in Reported(early) \cup Reported(seen) : At[t] \in Int
      BY ReportedBooks, TransactionAssumption
    <3> QED BY <3>1 DEF Since, Dated
  <2>2. SumFunctionOnSet(Moves(A), Dated(Reported(seen), Int))
          = SumFunctionOnSet(Moves(A), Dated(Reported(early), Int))
              + SumFunctionOnSet(Moves(A), Dated(Since(early, seen), Int))
    BY MovedSince
  <2> QED BY <2>1, <2>2
<1>4. NetCash(Position(early)) = SumFunctionOnSet(Moves(A), Reported(early))
  BY NetCashIs
<1> HIDE DEF A, P, Q
<1>5. SumFunctionOnSet(Moves(A), P \cup Q) = SumFunctionOnSet(Moves(A), P) + SumFunctionOnSet(Moves(A), Q)
  <2>1. PICK M, N : M = P /\ N = Q
    OBVIOUS
  <2>2. M \in SUBSET Reported(seen) /\ N \in SUBSET Reported(seen) /\ M \cap N = {}
    BY <1>1, <2>1
  <2>3. SumFunctionOnSet(Moves(A), M \cup N)
          = SumFunctionOnSet(Moves(A), M) + SumFunctionOnSet(Moves(A), N)
    BY <2>2, Joined
  <2> QED BY <2>1, <2>3
<1> QED BY <1>1, <1>2, <1>3, <1>4, <1>5 DEF A, Q

\* The breakdown adds up to the expenses: what it leaves out cancels out.
LEMMA SpendAddsUp ==
  ASSUME NEW seen, BooksOk(seen), NEW p, NEW spend, spend = Spend(seen, p)
  PROVE  SumFunctionOnSet(spend, DOMAIN spend) = Moved(seen, Family("500"), p)
<1> DEFINE A == Family("500")
           g == [a \in A |-> Moved(seen, {a}, p)]
           D == {a \in A : Moved(seen, {a}, p) # 0}
           Z == A \ D
<1>1. DOMAIN spend = D /\ \A a \in D : spend[a] = g[a]
  BY DEF Spend
<1>2. \A a \in A : g[a] = SumFunctionOnSet(Moves({a}), Within(seen, p)) /\ g[a] \in Int
  BY WithinIs, MovedInt
<1>3. \A a \in Z : g[a] = 0
  OBVIOUS
<1>4. IsFiniteSet(Within(seen, p)) /\ Within(seen, p) \subseteq Transactions
  BY WithinIs, ReportedBooks
<1>5. A \in SUBSET Accounts /\ IsFiniteSet(A)
  BY FamilyIs, AccountAssumption, FS_Subset
<1>6. D \cap Z = {} /\ D \cup Z = A /\ D \in SUBSET A /\ Z \in SUBSET A
  OBVIOUS
<1>7. Moved(seen, A, p) = SumFunctionOnSet(Moves(A), Within(seen, p))
  BY WithinIs
<1> HIDE DEF A, g, D, Z
<1>8. Integral(g, A) /\ Integral(g, D) /\ Integral(g, Z)
  <2>1. Integral(g, A)
    BY <1>2, <1>5 DEF Integral
  <2> QED BY <1>6, <2>1, IntegralParts
<1>9. SumFunctionOnSet(g, A) = SumFunctionOnSet(Moves(A), Within(seen, p))
  BY <1>2, <1>4, <1>5, MovedParts
<1>10. SumFunctionOnSet(g, Z) = 0
  BY <1>3, <1>8, SumZero DEF Integral
<1>11. SumFunctionOnSet(g, A) = SumFunctionOnSet(g, D) + SumFunctionOnSet(g, Z)
  BY <1>6, <1>8, SumUnion
<1>12. SumFunctionOnSet(spend, D) = SumFunctionOnSet(g, D)
  BY <1>1, <1>8, SumSame
<1>13. SumFunctionOnSet(g, D) \in Int
  BY <1>8, SumInt
<1> QED
  BY <1>1, <1>7, <1>9, <1>10, <1>11, <1>12, <1>13 DEF A

\* The figures of an overview agree with each other, but for what is committed between
\* its statements.
THEOREM FiguresOfOverviewsAgree == ReadersSpec => []FiguresAgree
<1>1. ReaderInv => FiguresAgree
  <2> DEFINE got == reader.got
             seen == reader.seen
             p == Asked
             first == Trunc(reader.g, LocalDate(zone, Asked.start))
             begin == FromLocal(zone, first * Day)
             missed == [start |-> Asked.start, end |-> Bucket(zone, reader.g, first).start]
             committed == Since(seen["position"], seen["cash"])
             later == {t \in Reported(seen["cash"]) : At[t] >= Asked.end}
             cash == MovedBefore(seen["cash"], Family("100"), Asked.end)
  <2> SUFFICES ASSUME ReaderInv, Answered, reader.kind = "overview"
               PROVE
       /\ \A c \in DOMAIN got["cash"] : (\A d \in DOMAIN got["cash"] : d <= c) =>
            got["cash"][c].balance = cash - Moved(seen["cash"], Family("100"), missed)
       /\ NetCash(got["position"]) + SumFunctionOnSet(Moves(Family("100")), committed)
            = cash + SumFunctionOnSet(Moves(Family("100")), later)
       /\ SumFunctionOnSet(Revenues(got["flows"]), DOMAIN got["flows"])
            + Moved(seen["flows"], Family("400"), missed)
            + Extra(seen["income"], seen["flows"], Family("400"), Asked)
            = got["income"].revenue + Extra(seen["flows"], seen["income"], Family("400"), Asked)
       /\ SumFunctionOnSet(Expenses(got["flows"]), DOMAIN got["flows"])
            + Moved(seen["flows"], Family("500"), missed)
            + Extra(seen["income"], seen["flows"], Family("500"), Asked)
            = got["income"].expenses + Extra(seen["flows"], seen["income"], Family("500"), Asked)
       /\ SumFunctionOnSet(got["spend"], DOMAIN got["spend"])
            + Extra(seen["income"], seen["spend"], Family("500"), Asked)
            = got["income"].expenses + Extra(seen["spend"], seen["income"], Family("500"), Asked)
       /\ missed.start < missed.end => LocalTime(zone, missed.start) = LocalTime(zone, missed.end)
    BY DEF FiguresAgree
  <2>1. PICK position, income, balances, flows, spend :
          /\ position = seen["position"] /\ income = seen["income"] /\ balances = seen["cash"]
          /\ flows = seen["flows"] /\ spend = seen["spend"]
    OBVIOUS
  <2>2. /\ zone \in Zones /\ RequestInv
        /\ BooksOk(position) /\ BooksOk(income) /\ BooksOk(balances) /\ BooksOk(flows) /\ BooksOk(spend)
        /\ DOMAIN position \subseteq DOMAIN balances
        /\ got["position"] = Position(position) /\ got["income"] = Income(income, p)
        /\ got["cash"] = CashSeries(balances, zone, p, reader.g)
        /\ got["flows"] = FlowSeries(flows, zone, p, reader.g)
        /\ got["spend"] = Spend(spend, p)
    <3>1. PartsOf[reader.kind] = {"position", "income", "cash", "flows", "spend"}
          /\ "position" \in Awaited("cash")
      BY DEF PartsOf, Awaited
    <3>2. /\ zone \in Zones /\ RequestInv
          /\ BooksOk(position) /\ BooksOk(income) /\ BooksOk(balances) /\ BooksOk(flows) /\ BooksOk(spend)
          /\ DOMAIN position \subseteq DOMAIN balances
          /\ got["position"] = Value(position, "position") /\ got["income"] = Value(income, "income")
          /\ got["cash"] = Value(balances, "cash") /\ got["flows"] = Value(flows, "flows")
          /\ got["spend"] = Value(spend, "spend")
      BY <2>1, <3>1, AnswerIs
    <3> QED BY <3>2 DEF Value
  <2>3. Askable(reader.g, reader.from, reader.to) /\ p = Period(zone, reader.from, reader.to)
    BY <2>2, AskableDates DEF Asked
  <2>4. Asked.start \in Int /\ Asked.end \in Int
    BY <2>2, <2>3, PeriodIs
  <2>5. Bucket(zone, reader.g, first).start = begin
    BY DEF Bucket
  <2>6. missed = [start |-> p.start, end |-> begin] /\ missed.start = p.start /\ missed.end = begin
    BY <2>5
  <2>7. PICK m : m = missed
    OBVIOUS
  <2>8. ASSUME NEW c \in DOMAIN got["cash"], \A d \in DOMAIN got["cash"] : d <= c
        PROVE  got["cash"][c].balance = cash - Moved(balances, Family("100"), m)
    <3>1. PICK series : series = got["cash"]
      OBVIOUS
    <3>2. cash = MovedBefore(balances, Family("100"), p.end)
      BY <2>1
    <3> HIDE DEF got, seen, first, missed, cash
    <3>3. m = [start |-> p.start, end |-> FromLocal(zone, first * Day)]
      BY <2>6, <2>7
    <3>4. c \in DOMAIN series /\ \A d \in DOMAIN series : d <= c
      BY <2>8, <3>1
    <3>5. series = CashSeries(balances, zone, p, reader.g)
      BY <2>2, <3>1
    <3>6. first = Trunc(reader.g, LocalDate(zone, p.start))
      BY DEF first
    <3> QED BY <2>2, <2>3, <3>1, <3>2, <3>3, <3>4, <3>5, <3>6, CashCarriesOn
  <2>9. NetCash(got["position"]) + SumFunctionOnSet(Moves(Family("100")), committed)
          = cash + SumFunctionOnSet(Moves(Family("100")), later)
    <3>1. PICK x \in Int : x = Asked.end
      BY <2>4
    <3>2. /\ committed = Since(position, balances) /\ later = {t \in Reported(balances) : At[t] >= x}
          /\ cash = MovedBefore(balances, Family("100"), x)
      BY <2>1, <3>1
    <3> HIDE DEF committed, later, cash, got, seen
    <3>3. NetCash(Position(position)) + SumFunctionOnSet(Moves(Family("100")), Since(position, balances))
            = MovedBefore(balances, Family("100"), x)
                + SumFunctionOnSet(Moves(Family("100")), {t \in Reported(balances) : At[t] >= x})
      BY <2>2, CashSince
    <3> QED BY <2>2, <3>2, <3>3
  <2>10. ASSUME NEW A, NEW column, DOMAIN got["flows"] = BucketCuts(zone, p, reader.g),
                \A c \in DOMAIN got["flows"] : column[c] = Moved(flows, A, Buckets(zone, p, reader.g)[c])
         PROVE  SumFunctionOnSet(column, DOMAIN got["flows"]) + Moved(flows, A, m)
                  + Extra(income, flows, A, p)
                  = Moved(income, A, p) + Extra(flows, income, A, p)
    <3>1. PICK C : C = DOMAIN got["flows"]
      OBVIOUS
    <3>2. \A c \in C : column[c] = Moved(flows, A, Buckets(zone, p, reader.g)[c])
      BY <2>10, <3>1
    <3>3. m = [start |-> p.start, end |-> FromLocal(zone, first * Day)]
      BY <2>6, <2>7
    <3>4. C = BucketCuts(zone, p, reader.g)
      BY <2>10, <3>1
    <3>5. /\ SumFunctionOnSet(column, C) = Moved(flows, A, p) - Moved(flows, A, m)
          /\ Moved(flows, A, m) \in Int
      BY <2>2, <2>3, <3>1, <3>2, <3>3, <3>4, BucketsAddUp
    <3>6. /\ Moved(flows, A, p) \in Int /\ Moved(income, A, p) \in Int
          /\ Extra(income, flows, A, p) \in Int /\ Extra(flows, income, A, p) \in Int
          /\ Moved(flows, A, p) + Extra(income, flows, A, p)
               = Moved(income, A, p) + Extra(flows, income, A, p)
      BY <2>2, MovedBetween
    <3> QED BY <3>1, <3>5, <3>6
  <2>11. /\ DOMAIN got["flows"] = BucketCuts(zone, p, reader.g)
         /\ \A c \in DOMAIN got["flows"] :
              /\ Revenues(got["flows"])[c] = Moved(flows, Family("400"), Buckets(zone, p, reader.g)[c])
              /\ Expenses(got["flows"])[c] = Moved(flows, Family("500"), Buckets(zone, p, reader.g)[c])
    <3>1. DOMAIN Buckets(zone, p, reader.g) = BucketCuts(zone, p, reader.g)
      BY DEF Buckets
    <3>2. /\ DOMAIN got["flows"] = BucketCuts(zone, p, reader.g)
          /\ \A c \in DOMAIN got["flows"] : got["flows"][c] = Income(flows, Buckets(zone, p, reader.g)[c])
      BY <2>2, <3>1 DEF FlowSeries
    <3>3. \A q : /\ Income(flows, q).revenue = Moved(flows, Family("400"), q)
                 /\ Income(flows, q).expenses = Moved(flows, Family("500"), q)
      BY DEF Income
    <3> QED BY <3>2, <3>3 DEF Revenues, Expenses
  <2>12. /\ got["income"].revenue = Moved(income, Family("400"), p)
         /\ got["income"].expenses = Moved(income, Family("500"), p)
    BY <2>2 DEF Income
  <2>13. SumFunctionOnSet(got["spend"], DOMAIN got["spend"]) + Extra(income, spend, Family("500"), p)
           = got["income"].expenses + Extra(spend, income, Family("500"), p)
    <3>1. SumFunctionOnSet(got["spend"], DOMAIN got["spend"]) = Moved(spend, Family("500"), p)
      BY <2>2, SpendAddsUp
    <3>2. Moved(spend, Family("500"), p) + Extra(income, spend, Family("500"), p)
            = Moved(income, Family("500"), p) + Extra(spend, income, Family("500"), p)
      BY <2>2, MovedBetween
    <3> QED BY <2>12, <3>1, <3>2
  <2>14. missed.start < missed.end => LocalTime(zone, missed.start) = LocalTime(zone, missed.end)
    <3>1. ASSUME p.start < begin
          PROVE  LocalTime(zone, p.start) = LocalTime(zone, begin)
      BY <2>2, <2>3, <3>1, MissedIsRepeated
    <3> QED BY <2>6, <3>1
  <2>15. /\ SumFunctionOnSet(Revenues(got["flows"]), DOMAIN got["flows"])
              + Moved(flows, Family("400"), m) + Extra(income, flows, Family("400"), p)
              = got["income"].revenue + Extra(flows, income, Family("400"), p)
         /\ SumFunctionOnSet(Expenses(got["flows"]), DOMAIN got["flows"])
              + Moved(flows, Family("500"), m) + Extra(income, flows, Family("500"), p)
              = got["income"].expenses + Extra(flows, income, Family("500"), p)
    <3> HIDE DEF got
    <3> QED BY <2>10, <2>11, <2>12
  <2> QED
    BY <2>1, <2>7, <2>8, <2>9, <2>13, <2>14, <2>15
<1> QED
  BY <1>1, ReadersInvariant, PTL
=============================================================================
