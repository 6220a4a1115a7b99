------------------------------ MODULE Delivery ------------------------------
(***************************************************************************)
(* The intake of WhatsApp events: the signed webhook (WhatsAppController,  *)
(* IngestionService.ingestSignedWebhook) records the raw body once per     *)
(* payload hash, validates it, stores its messages one by one and settles  *)
(* the record; WhatsApp sends a body again until it is answered 200.  The  *)
(* developer endpoint stores one synthetic message without a record.       *)
(*                                                                         *)
(* A database statement is one action; it may fail, before or after it     *)
(* took effect, which answers 500.  A process may die between statements.  *)
(* What happens to a stored message afterwards is InboundQueue.            *)
(***************************************************************************)
EXTENDS Naturals, Sequences, FiniteSets

CONSTANTS
  Requests,       \* HTTP requests in progress at a time
  Processes, HostOf,  \* application processes, and the process serving a request
  Bodies,         \* request bodies, up to their payload hash
  BodyOf,         \* what is in each body
  Messages, WellFormed,  \* message ids, and the messages isValidWaMessage accepts
  BROKEN,         \* an entry, change or contact that is not of the schema
  PolicyBytes,    \* KASICASH_WEBHOOK_MAX_RAW_BYTES
  MaxIntakeFaults, \* bound: failed statements, deaths and lost answers of a behaviour
  NULL

\* items: what the validation meets in the payload, in order: its messages, and
\* whatever is not of the schema.  dev: the body of a developer request.
Body == [dev : BOOLEAN, signed : BOOLEAN, bytes : Nat, json : BOOLEAN,
         items : Seq(Messages \cup {BROKEN})]

ASSUME BodyAssumption ==
  /\ BodyOf \in [Bodies -> Body] /\ WellFormed \subseteq Messages
  /\ NULL \notin Bodies /\ BROKEN \notin Messages
  /\ \A b \in Bodies : BodyOf[b].dev => \E m \in Messages : BodyOf[b].items = <<m>>
ASSUME HostAssumption == HostOf \in [Requests -> Processes]
ASSUME IntakeBoundAssumption == PolicyBytes \in Nat /\ MaxIntakeFaults \in Nat

VARIABLES
  deliveries,  \* rows of webhook_deliveries, by payload hash
  inbound,     \* per message: the payload hash of its row in inbound_messages
  request,     \* per request: where the handler is
  acked,       \* bodies answered 200, as far as their sender knows
  handed,      \* per message: calls of processMessage made for it
  intakeFaults \* faults so far

intakeVars == <<deliveries, inbound, request, acked, handed, intakeFaults>>

Webhooks == {b \in Bodies : ~BodyOf[b].dev /\ BodyOf[b].signed}
SettledStatus == {"ACCEPTED", "QUARANTINED"}

IdleRequest == [pc |-> "idle", body |-> NULL, at |-> 0, code |-> 0]

IntakeInit ==
  /\ deliveries = [b \in {} |-> NULL]
  /\ inbound = [m \in Messages |-> NULL]
  /\ request = [q \in Requests |-> IdleRequest]
  /\ acked = {}
  /\ handed = [m \in Messages |-> 0]
  /\ intakeFaults = 0

-----------------------------------------------------------------------------
(* Validation (ingestSignedWebhook, validateWebhookPayload).               *)

\* The error code of the first item that is not a well-formed message.
FirstFault(items) ==
  LET bad == CHOOSE i \in DOMAIN items :
               /\ items[i] \notin WellFormed
               /\ \A j \in 1..(i - 1) : items[j] \in WellFormed
  IN IF items[bad] = BROKEN THEN "INVALID_SCHEMA" ELSE "MALFORMED_MESSAGE"

\* Mutant: only the first message is validated.
Verdict_FirstOnly(b) ==
  IF BodyOf[b].items # <<>> /\ BodyOf[b].items[1] = BROKEN THEN "INVALID_SCHEMA" ELSE "OK"

Verdict(b) ==
  LET body == BodyOf[b] IN
  IF body.bytes > PolicyBytes THEN "PAYLOAD_TOO_LARGE"
  ELSE IF ~body.json THEN "INVALID_JSON"
  ELSE IF \A i \in DOMAIN body.items : body.items[i] \in WellFormed THEN "OK"
  ELSE FirstFault(body.items)

-----------------------------------------------------------------------------
(* The handlers.                                                           *)

At(q, pc) == request[q].pc = pc
Goto(q, pc, at, code) ==
  request' = [request EXCEPT ![q] = [pc |-> pc, body |-> @.body, at |-> at, code |-> code]]

\* Where a body goes once it is known to be new or unfinished: to the settling of
\* its record, at once or after its last message, or to the storing of the next.
Ahead(b, i) == IF i > Len(BodyOf[b].items) THEN "settle" ELSE "store"

\* A request arrives.  One that is not signed, has no developer token or is over a
\* rate limit is refused before it changes anything here, and is left out.
Receive(q, b) ==
  /\ At(q, "idle") /\ (BodyOf[b].dev \/ b \in Webhooks) /\ b \notin acked
  /\ request' = [request EXCEPT ![q] =
                   [pc |-> IF BodyOf[b].dev THEN "store" ELSE "register",
                    body |-> b, at |-> 1, code |-> 0]]
  /\ UNCHANGED <<deliveries, inbound, acked, handed, intakeFaults>>

\* storeWebhookDelivery: one upsert, which returns the row it made or found.
Upserted(b) ==
  IF b \in DOMAIN deliveries THEN deliveries
  ELSE [c \in DOMAIN deliveries \cup {b} |->
          IF c = b THEN [status |-> "RECEIVED", errorCode |-> NULL, messageCount |-> 0]
          ELSE deliveries[c]]

\* Mutant: a delivery that is already recorded is a duplicate.
AfterUpsert_Known(b) ==
  IF b \in DOMAIN deliveries THEN "answer"
  ELSE IF Verdict(b) = "OK" THEN Ahead(b, 1) ELSE "settle"

\* A settled delivery is answered; otherwise validation decides.
AfterUpsert(b) ==
  IF Upserted(b)[b].status # "RECEIVED" THEN "answer"
  ELSE IF Verdict(b) = "OK" THEN Ahead(b, 1) ELSE "settle"

Register(q) ==
  LET b == request[q].body IN
  /\ At(q, "register")
  /\ deliveries' = Upserted(b)
  /\ Goto(q, AfterUpsert(b), 1, IF AfterUpsert(b) = "answer" THEN 200 ELSE 0)
  /\ UNCHANGED <<inbound, acked, handed, intakeFaults>>

\* Mutant: a duplicate is processed like a new message.
Fresh_Any(m) == TRUE

\* storeIdempotent: a duplicate meets UQ_inbound_messages_wa_message_id, whatever
\* content it comes with, and returns null.
Fresh(m) == inbound[m] = NULL

Inserted(m, b) == IF inbound[m] = NULL THEN [inbound EXCEPT ![m] = b] ELSE inbound

\* A message is stored and, if it is new, handed to processMessage: by setImmediate
\* from the webhook, awaited by the developer endpoint, which then answers.
StoreMessage(q) ==
  LET b == request[q].body
      m == BodyOf[b].items[request[q].at] IN
  /\ At(q, "store")
  /\ inbound' = Inserted(m, b)
  /\ handed' = [handed EXCEPT ![m] = IF Fresh(m) THEN @ + 1 ELSE @]
  /\ IF BodyOf[b].dev THEN Goto(q, "answer", 0, 201)
     ELSE Goto(q, Ahead(b, request[q].at + 1), request[q].at + 1, 0)
  /\ UNCHANGED <<deliveries, acked, intakeFaults>>

SettledRow(b) ==
  IF Verdict(b) = "OK"
  THEN [status |-> "ACCEPTED", errorCode |-> NULL, messageCount |-> Len(BodyOf[b].items)]
  ELSE [status |-> "QUARANTINED", errorCode |-> Verdict(b), messageCount |-> 0]

\* finishWebhookDelivery.
Settle(q) ==
  LET b == request[q].body IN
  /\ At(q, "settle")
  /\ deliveries' = [deliveries EXCEPT ![b] = SettledRow(b)]
  /\ Goto(q, "answer", 0, 200)
  /\ UNCHANGED <<inbound, acked, handed, intakeFaults>>

\* The answer reaches the sender, who stops resending a body answered with success.
Answer(q) ==
  /\ At(q, "answer")
  /\ acked' = IF request[q].code \in {200, 201} THEN acked \cup {request[q].body} ELSE acked
  /\ request' = [request EXCEPT ![q] = IdleRequest]
  /\ UNCHANGED <<deliveries, inbound, handed, intakeFaults>>

-----------------------------------------------------------------------------
(* Faults.                                                                 *)

Fault == intakeFaults < MaxIntakeFaults /\ intakeFaults' = intakeFaults + 1

\* A statement fails and changes nothing; the exception is answered 500.
StatementFails(q) ==
  /\ Fault /\ request[q].pc \in {"register", "store", "settle"}
  /\ Goto(q, "answer", 0, 500)
  /\ UNCHANGED <<deliveries, inbound, acked, handed>>

\* A statement takes effect and its acknowledgement is lost: also 500.  A message
\* stored this way is handed to nobody and waits for the recovery worker.
StatementLost(q) ==
  LET b == request[q].body IN
  /\ Fault
  /\ \/ At(q, "register") /\ deliveries' = Upserted(b) /\ inbound' = inbound
     \/ /\ At(q, "store") /\ deliveries' = deliveries
        /\ inbound' = Inserted(BodyOf[b].items[request[q].at], b)
     \/ /\ At(q, "settle") /\ inbound' = inbound
        /\ deliveries' = [deliveries EXCEPT ![b] = SettledRow(b)]
  /\ Goto(q, "answer", 0, 500)
  /\ UNCHANGED <<acked, handed>>

\* The sender does not get the answer, or has given up waiting for it.
AnswerLost(q) ==
  /\ Fault /\ At(q, "answer")
  /\ request' = [request EXCEPT ![q] = IdleRequest]
  /\ UNCHANGED <<deliveries, inbound, acked, handed>>

\* A process dies, and the requests it was serving with it.
Die(p) ==
  /\ Fault
  /\ \E q \in Requests : HostOf[q] = p /\ ~At(q, "idle")
  /\ request' = [q \in Requests |-> IF HostOf[q] = p THEN IdleRequest ELSE request[q]]
  /\ UNCHANGED <<deliveries, inbound, acked, handed>>

-----------------------------------------------------------------------------

Handler(q) == Register(q) \/ StoreMessage(q) \/ Settle(q) \/ Answer(q)

IntakeNext ==
  \/ \E q \in Requests : \/ Handler(q) \/ StatementFails(q) \/ StatementLost(q)
                         \/ AnswerLost(q) \/ \E b \in Bodies : Receive(q, b)
  \/ \E p \in Processes : Die(p)

\* A handler runs to its end, and WhatsApp resends a body until it is answered 200.
\* A developer need not repeat a request.
IntakeFairness ==
  /\ \A q \in Requests : WF_intakeVars(Handler(q))
  /\ \A b \in Webhooks : WF_intakeVars(\E q \in Requests : Receive(q, b))

IntakeSpec == IntakeInit /\ [][IntakeNext]_intakeVars /\ IntakeFairness

-----------------------------------------------------------------------------
(* Properties.                                                             *)

DeliveryRow ==
  [status : {"RECEIVED"}, errorCode : {NULL}, messageCount : {0}]
  \cup {SettledRow(b) : b \in Webhooks}

\* Recorded deliveries are signed bodies, in one of the states of the table; a
\* handler is at a statement of the code, within its body (webhook_deliveries).
DeliveryTypes ==
  /\ DOMAIN deliveries \subseteq Webhooks
  /\ \A b \in DOMAIN deliveries : deliveries[b] \in DeliveryRow
  /\ inbound \in [Messages -> Bodies \cup {NULL}]
  /\ acked \subseteq Bodies
  /\ handed \in [Messages -> Nat]
  /\ intakeFaults \in 0..MaxIntakeFaults
  /\ \A q \in Requests :
       \/ request[q] = IdleRequest
       \/ /\ request[q].body \in Bodies
          /\ request[q].pc \in {"register", "store", "settle", "answer"}
          /\ At(q, "store") => request[q].at \in DOMAIN BodyOf[request[q].body].items

\* What validation should let through.
Processable ==
  {b \in Bodies : \/ BodyOf[b].dev
                  \/ /\ BodyOf[b].bytes <= PolicyBytes /\ BodyOf[b].json
                     /\ \A i \in DOMAIN BodyOf[b].items : BodyOf[b].items[i] \in WellFormed}

\* Each message is handed to processMessage at most once however often, and in how
\* many bodies, it is delivered, and only after its row is stored, from a body that
\* was fully validated and, if it came by the webhook, is on record.
HandedOnce ==
  \A m \in Messages :
    /\ handed[m] <= 1
    /\ handed[m] = 1 => inbound[m] # NULL
    /\ inbound[m] # NULL =>
         \/ BodyOf[inbound[m]].dev
         \/ inbound[m] \in DOMAIN deliveries /\ inbound[m] \in Processable

OutcomeOf(b) ==
  IF b \notin DOMAIN deliveries THEN "none"
  ELSE [RECEIVED |-> "pending", ACCEPTED |-> "accepted", QUARANTINED |-> "quarantined"][deliveries[b].status]

Promise == INSTANCE IntakeAbs WITH
  Carried <- [b \in Bodies |-> {BodyOf[b].items[i] : i \in DOMAIN BodyOf[b].items}],
  Processable <- Processable,
  outcome <- [b \in Bodies |-> OutcomeOf(b)],
  content <- inbound,
  settled <- acked \cap Webhooks

\* What WhatsApp relies on: a body is settled once and for good, as accepted only
\* with every message of it stored, and answered 200 only then; a message keeps the
\* content of the first body that brought it (ingestSignedWebhook, storeIdempotent).
IntakePromise == Promise!Spec

\* Every signed body is settled and acknowledged in the end, although statements
\* fail and processes die between its registration and its settling.
EveryDeliverySettled ==
  \A b \in Webhooks : <>(b \in acked /\ OutcomeOf(b) \in {"accepted", "quarantined"})
=============================================================================
