---------------------------- MODULE IntakeProofs ----------------------------
(***************************************************************************)
(* Proofs about the intake of messages: Delivery, for any bodies,          *)
(* messages, requests and processes and any number of faults; Onboarding,  *)
(* for any set of calls and numbers; Draining, for any set of works and of *)
(* drains; Questions, for any words and merchant names.  The four share no *)
(* variable.                                                               *)
(***************************************************************************)
EXTENDS Delivery, Onboarding, Draining, Questions, FiniteSetTheorems, TLAPS

-----------------------------------------------------------------------------
(* Delivery.                                                               *)

ItemsOf(b) == BodyOf[b].items

AllStored(b) == \A i \in DOMAIN ItemsOf(b) : inbound[ItemsOf(b)[i]] # NULL

Received == [status |-> "RECEIVED", errorCode |-> NULL, messageCount |-> 0]

Settled(b) ==
  /\ b \in DOMAIN deliveries /\ deliveries[b] = SettledRow(b)
  /\ b \in Processable => AllStored(b)

RequestRow ==
  [pc : {"idle", "register", "store", "settle", "answer"}, body : Bodies \cup {NULL},
   at : Nat, code : {0, 200, 201, 500}]

\* What a handler has achieved when it reaches a statement.
Reached(q) ==
  LET b == request[q].body IN
  /\ At(q, "idle") => request[q] = IdleRequest
  /\ ~At(q, "idle") => b \in Bodies
  /\ At(q, "register") => b \in Webhooks
  /\ At(q, "store") =>
       /\ request[q].at \in DOMAIN ItemsOf(b)
       /\ ~BodyOf[b].dev =>
            /\ b \in DOMAIN deliveries /\ b \in Processable
            /\ \A i \in DOMAIN ItemsOf(b) : i < request[q].at => inbound[ItemsOf(b)[i]] # NULL
  /\ At(q, "settle") => b \in DOMAIN deliveries /\ (b \in Processable => AllStored(b))
  /\ At(q, "answer") => /\ request[q].code = 200 => b \in Webhooks /\ Settled(b)
                        /\ request[q].code = 201 => BodyOf[b].dev

\* The tables: a row is received or settled, and a message that is handed over stored.
Tables ==
  /\ DOMAIN deliveries \subseteq Webhooks
  /\ \A b \in DOMAIN deliveries : deliveries[b] = Received \/ Settled(b)
  /\ inbound \in [Messages -> Bodies \cup {NULL}]
  /\ handed \in [Messages -> Nat]
  /\ \A m \in Messages : inbound[m] = NULL => handed[m] = 0
  /\ HandedOnce

IInv ==
  /\ Tables
  /\ request \in [Requests -> RequestRow] /\ \A q \in Requests : Reached(q)
  /\ acked \subseteq Bodies /\ \A b \in acked \cap Webhooks : Settled(b)
  /\ intakeFaults \in 0..MaxIntakeFaults

\* Nothing stored or settled is lost.
Grows ==
  /\ \A m \in Messages : inbound[m] # NULL => inbound'[m] = inbound[m]
  /\ \A b \in DOMAIN deliveries : b \in DOMAIN deliveries' /\ (Settled(b) => Settled(b)')

-----------------------------------------------------------------------------
(* Bodies and their validation.                                            *)

LEMMA BodyShape ==
  ASSUME NEW b \in Bodies
  PROVE  /\ BodyOf[b] \in Body /\ b # NULL
         /\ ItemsOf(b) \in Seq(Messages \cup {BROKEN})
         /\ DOMAIN ItemsOf(b) = 1..Len(ItemsOf(b)) /\ Len(ItemsOf(b)) \in Nat
         /\ \A i \in DOMAIN ItemsOf(b) : ItemsOf(b)[i] \in Messages \cup {BROKEN}
<1>1. BodyOf[b] \in Body /\ b # NULL
  BY BodyAssumption
<1>2. ItemsOf(b) \in Seq(Messages \cup {BROKEN})
  BY <1>1 DEF Body, ItemsOf
<1> HIDE DEF ItemsOf
<1> QED BY <1>1, <1>2

\* Validation lets through exactly what can be processed.
LEMMA VerdictExact ==
  ASSUME NEW b \in Webhooks
  PROVE  Verdict(b) = "OK" <=> b \in Processable
<1>1. b \in Bodies /\ ~BodyOf[b].dev /\ BodyOf[b].bytes \in Nat /\ BodyOf[b].json \in BOOLEAN
  BY BodyAssumption DEF Webhooks, Body
<1>2. PolicyBytes \in Nat
  BY IntakeBoundAssumption
<1>3. FirstFault(BodyOf[b].items) # "OK"
  BY DEF FirstFault
<1>4. BodyOf[b].bytes > PolicyBytes <=> ~(BodyOf[b].bytes <= PolicyBytes)
  BY <1>1, <1>2
<1> QED BY <1>1, <1>3, <1>4 DEF Verdict, Processable

LEMMA MessagesOfProcessable ==
  ASSUME NEW b \in Processable, NEW i \in DOMAIN ItemsOf(b)
  PROVE  ItemsOf(b)[i] \in Messages
<1>1. CASE BodyOf[b].dev
  <2>1. PICK m \in Messages : BodyOf[b].items = <<m>>
    BY <1>1, BodyAssumption DEF Processable
  <2>2. ItemsOf(b) = <<m>> /\ i = 1
    BY <2>1 DEF ItemsOf
  <2> QED BY <2>2
<1>2. CASE ~BodyOf[b].dev
  BY <1>2, BodyAssumption DEF Processable, ItemsOf
<1> QED BY <1>1, <1>2

LEMMA StatusOfSettled ==
  ASSUME NEW b \in Webhooks
  PROVE  /\ SettledRow(b).status = IF b \in Processable THEN "ACCEPTED" ELSE "QUARANTINED"
         /\ SettledRow(b) # Received
  BY VerdictExact DEF SettledRow, Received

-----------------------------------------------------------------------------
(* What the statements do to the tables.                                   *)

LEMMA SettledStays ==
  ASSUME Tables, UNCHANGED deliveries,
         \A m \in Messages : inbound[m] # NULL => inbound'[m] = inbound[m]
  PROVE  Grows
<1>1. ASSUME NEW b \in DOMAIN deliveries, Settled(b)
      PROVE  Settled(b)'
  <2>1. b \in Processable => AllStored(b)'
    BY <1>1, MessagesOfProcessable DEF Settled, AllStored
  <2> QED BY <1>1, <2>1 DEF Settled
<1> QED BY <1>1 DEF Grows

LEMMA TablesKept ==
  ASSUME Tables, UNCHANGED <<deliveries, inbound, handed>>
  PROVE  Tables' /\ Grows
<1>1. Grows
  BY SettledStays
<1> QED BY <1>1 DEF Tables, HandedOnce, Settled, AllStored, Grows

LEMMA UpsertTables ==
  ASSUME Tables, NEW b \in Webhooks, deliveries' = Upserted(b), UNCHANGED <<inbound, handed>>
  PROVE  Tables' /\ Grows /\ b \in DOMAIN deliveries'
<1>1. CASE b \in DOMAIN deliveries
  BY <1>1, TablesKept DEF Upserted
<1>2. CASE b \notin DOMAIN deliveries
  <2>1. /\ DOMAIN deliveries' = DOMAIN deliveries \cup {b} /\ deliveries'[b] = Received
        /\ \A c \in DOMAIN deliveries : deliveries'[c] = deliveries[c]
    BY <1>2 DEF Upserted, Received
  <2>2. \A c \in DOMAIN deliveries : Settled(c) => Settled(c)'
    BY <2>1 DEF Settled, AllStored
  <2>3. Grows
    BY <2>1, <2>2 DEF Grows
  <2>4. HandedOnce'
    BY <2>1 DEF Tables, HandedOnce
  <2>5. \A c \in DOMAIN deliveries' : deliveries'[c] = Received \/ Settled(c)'
    BY <2>1, <2>2 DEF Tables
  <2> QED BY <2>1, <2>3, <2>4, <2>5 DEF Tables
<1> QED BY <1>1, <1>2

LEMMA InsertTables ==
  ASSUME Tables, NEW b \in Processable, NEW m \in Messages,
         inbound' = Inserted(m, b), deliveries' = deliveries,
         handed' = handed \/ handed' = [handed EXCEPT ![m] = IF Fresh(m) THEN @ + 1 ELSE @],
         BodyOf[b].dev \/ b \in DOMAIN deliveries
  PROVE  Tables' /\ Grows /\ inbound'[m] # NULL
<1>0. b \in Bodies /\ b # NULL
  BY BodyAssumption DEF Processable
<1>1. /\ inbound' \in [Messages -> Bodies \cup {NULL}]
      /\ \A k \in Messages : inbound[k] # NULL => inbound'[k] = inbound[k]
      /\ inbound'[m] # NULL
      /\ \A k \in Messages : inbound'[k] = inbound[k] \/ (k = m /\ inbound[k] = NULL /\ inbound'[k] = b)
  BY <1>0 DEF Tables, Inserted
<1>2. Grows
  BY <1>1, SettledStays
<1>3. /\ handed' \in [Messages -> Nat]
      /\ \A k \in Messages :
           handed'[k] = handed[k] \/ (k = m /\ inbound[k] = NULL /\ handed'[k] = handed[k] + 1)
  BY DEF Tables, Fresh
<1>4. ASSUME NEW k \in Messages
      PROVE  /\ inbound'[k] = NULL => handed'[k] = 0
             /\ handed'[k] <= 1
             /\ handed'[k] = 1 => inbound'[k] # NULL
  <2>1. /\ inbound[k] = NULL => handed[k] = 0
        /\ handed[k] <= 1
        /\ handed[k] = 1 => inbound[k] # NULL
    BY DEF Tables, HandedOnce
  <2>2. handed[k] \in Nat
    BY DEF Tables
  <2> QED BY <1>1, <1>3, <2>1, <2>2
<1>5. HandedOnce'
  <2>1. ASSUME NEW k \in Messages, inbound'[k] # NULL
        PROVE  \/ BodyOf[inbound'[k]].dev
               \/ inbound'[k] \in DOMAIN deliveries' /\ inbound'[k] \in Processable
    <3>1. CASE inbound'[k] = inbound[k]
      <4>1. inbound[k] # NULL =>
              \/ BodyOf[inbound[k]].dev
              \/ inbound[k] \in DOMAIN deliveries /\ inbound[k] \in Processable
        BY DEF Tables, HandedOnce
      <4> QED BY <2>1, <3>1, <4>1
    <3>2. CASE inbound'[k] = b
      BY <3>2
    <3> QED BY <1>1, <3>1, <3>2
  <2> QED BY <1>4, <2>1 DEF HandedOnce
<1>6. \A c \in DOMAIN deliveries' : deliveries'[c] = Received \/ Settled(c)'
  BY <1>2 DEF Tables, Grows
<1> QED BY <1>1, <1>2, <1>3, <1>4, <1>5, <1>6 DEF Tables

LEMMA SettleTables ==
  ASSUME Tables, NEW b \in DOMAIN deliveries, b \in Processable => AllStored(b),
         deliveries' = [deliveries EXCEPT ![b] = SettledRow(b)], UNCHANGED <<inbound, handed>>
  PROVE  Tables' /\ Grows /\ Settled(b)'
<1>1. /\ DOMAIN deliveries' = DOMAIN deliveries /\ deliveries'[b] = SettledRow(b)
      /\ \A c \in DOMAIN deliveries : c # b => deliveries'[c] = deliveries[c]
  OBVIOUS
<1>2. Settled(b)'
  BY <1>1 DEF Settled, AllStored
<1>3. \A c \in DOMAIN deliveries : Settled(c) => Settled(c)'
  BY <1>1, <1>2 DEF Settled, AllStored
<1>4. Grows
  BY <1>1, <1>3 DEF Grows
<1>5. HandedOnce'
  BY <1>1 DEF Tables, HandedOnce
<1>6. \A c \in DOMAIN deliveries' : deliveries'[c] = Received \/ Settled(c)'
  BY <1>1, <1>2, <1>3 DEF Tables
<1> QED BY <1>1, <1>2, <1>4, <1>5, <1>6 DEF Tables
-----------------------------------------------------------------------------
(* The steps.                                                              *)

LEMMA OthersStay ==
  ASSUME IInv, Grows, NEW q \in Requests, request'[q] = request[q]
  PROVE  Reached(q)'
<1> DEFINE b == request[q].body
<1>1. Reached(q) /\ request[q] \in RequestRow
  BY DEF IInv
<1>2. ASSUME NEW c \in Bodies, c \in Processable, NEW i \in DOMAIN ItemsOf(c),
             inbound[ItemsOf(c)[i]] # NULL
      PROVE  inbound'[ItemsOf(c)[i]] # NULL
  BY <1>2, MessagesOfProcessable DEF Grows
<1>3. ASSUME NEW c \in Bodies, c = request[q].body
      PROVE  Reached(q)'
  <2>1. /\ At(q, "idle") => request[q] = IdleRequest
        /\ At(q, "register") => c \in Webhooks
        /\ At(q, "answer") /\ request[q].code = 201 => BodyOf[c].dev
        /\ At(q, "store") => request[q].at \in DOMAIN ItemsOf(c)
    BY <1>1, <1>3 DEF Reached
  <2>2. \A at : At(q, at)' <=> At(q, at)
    BY DEF At
  <2>3. At(q, "store") /\ ~BodyOf[c].dev =>
          /\ c \in DOMAIN deliveries' /\ c \in Processable
          /\ \A i \in DOMAIN ItemsOf(c) : i < request[q].at => inbound'[ItemsOf(c)[i]] # NULL
    BY <1>1, <1>2, <1>3 DEF Reached, Grows
  <2>4. At(q, "settle") => c \in DOMAIN deliveries' /\ (c \in Processable => AllStored(c)')
    BY <1>1, <1>2, <1>3 DEF Reached, Grows, AllStored
  <2>5. At(q, "answer") /\ request[q].code = 200 => c \in Webhooks /\ Settled(c)'
    BY <1>1, <1>3 DEF Reached, Grows, Settled
  <2> QED
    BY <1>3, <2>1, <2>2, <2>3, <2>4, <2>5 DEF Reached
<1>4. CASE request[q].body \notin Bodies
  <2>1. At(q, "idle") /\ request[q] = IdleRequest
    BY <1>1, <1>4 DEF Reached
  <2> QED BY <2>1 DEF Reached, At, IdleRequest
<1> QED BY <1>3, <1>4

\* One handler has moved, and the tables have grown.
LEMMA HandlerStep ==
  ASSUME IInv, Tables', Grows, NEW q \in Requests,
         request' \in [Requests -> RequestRow],
         \A p \in Requests : p # q => request'[p] = request[p],
         Reached(q)',
         acked' \subseteq Bodies, \A b \in acked' \cap Webhooks : b \in acked \/ Settled(b)',
         intakeFaults' \in 0..MaxIntakeFaults
  PROVE  IInv'
<1>1. \A p \in Requests : Reached(p)'
  BY OthersStay
<1>2. \A b \in acked' \cap Webhooks : Settled(b)'
  BY DEF IInv, Grows, Settled
<1> QED BY <1>1, <1>2 DEF IInv

LEMMA GotoRow ==
  ASSUME request \in [Requests -> RequestRow], NEW q \in Requests,
         NEW label \in {"idle", "register", "store", "settle", "answer"}, NEW at \in Nat,
         NEW code \in {0, 200, 201, 500}, Goto(q, label, at, code)
  PROVE  /\ request' \in [Requests -> RequestRow]
         /\ \A p \in Requests : p # q => request'[p] = request[p]
         /\ request'[q].pc = label /\ request'[q].at = at /\ request'[q].code = code
         /\ request'[q].body = request[q].body
<1> DEFINE row == [pc |-> label, body |-> request[q].body, at |-> at, code |-> code]
<1>1. request' = [request EXCEPT ![q] = row]
  BY DEF Goto
<1>2. request[q] \in RequestRow
  OBVIOUS
<1>3. /\ row.pc = label /\ row.at = at /\ row.code = code /\ row.body = request[q].body
      /\ row \in RequestRow
  <2>1. request[q].body \in Bodies \cup {NULL}
    BY <1>2 DEF RequestRow
  <2> QED BY <2>1 DEF RequestRow
<1> HIDE DEF row
<1> QED BY <1>1, <1>3

\* The body ahead: its next message, with those before it stored, or its settling.
LEMMA GoesAhead ==
  ASSUME IInv, Grows, NEW q \in Requests, NEW b \in Webhooks, NEW n \in Nat \ {0},
         b \in DOMAIN deliveries', b \in Processable,
         \A i \in DOMAIN ItemsOf(b) : i < n => inbound'[ItemsOf(b)[i]] # NULL,
         Goto(q, Ahead(b, n), n, 0), request[q].body = b
  PROVE  /\ request' \in [Requests -> RequestRow]
         /\ \A p \in Requests : p # q => request'[p] = request[p]
         /\ Reached(q)'
<1>1. /\ request' \in [Requests -> RequestRow]
      /\ \A p \in Requests : p # q => request'[p] = request[p]
      /\ request'[q].pc = Ahead(b, n) /\ request'[q].at = n /\ request'[q].body = b
  BY GotoRow DEF IInv, Ahead
<1>2. b \in Bodies /\ DOMAIN ItemsOf(b) = 1..Len(ItemsOf(b)) /\ Len(ItemsOf(b)) \in Nat
  BY BodyShape DEF Webhooks
<1>3. CASE n > Len(ItemsOf(b))
  <2>1. request'[q].pc = "settle"
    BY <1>1, <1>3 DEF Ahead, ItemsOf
  <2>2. AllStored(b)'
    BY <1>2, <1>3 DEF AllStored
  <2> QED BY <1>1, <1>2, <2>1, <2>2 DEF Reached, At
<1>4. CASE ~(n > Len(ItemsOf(b)))
  <2>1. request'[q].pc = "store" /\ n \in DOMAIN ItemsOf(b)
    BY <1>1, <1>2, <1>4 DEF Ahead, ItemsOf
  <2> QED BY <1>1, <1>2, <2>1 DEF Reached, At
<1> QED BY <1>3, <1>4

LEMMA GoesToAnswer ==
  ASSUME IInv, NEW q \in Requests, NEW b \in Bodies, NEW code \in {200, 201, 500}, NEW at \in Nat,
         Goto(q, "answer", at, code), request[q].body = b,
         code = 200 => b \in Webhooks /\ Settled(b)',
         code = 201 => BodyOf[b].dev
  PROVE  /\ request' \in [Requests -> RequestRow]
         /\ \A p \in Requests : p # q => request'[p] = request[p]
         /\ Reached(q)'
<1>1. /\ request' \in [Requests -> RequestRow]
      /\ \A p \in Requests : p # q => request'[p] = request[p]
      /\ request'[q].pc = "answer" /\ request'[q].code = code /\ request'[q].body = b
  BY GotoRow DEF IInv
<1> QED BY <1>1 DEF Reached, At

LEMMA Faulty == ASSUME IInv, Fault PROVE intakeFaults' \in 0..MaxIntakeFaults
  BY IntakeBoundAssumption DEF IInv, Fault

LEMMA Idles ==
  ASSUME IInv, NEW q \in Requests, request' = [request EXCEPT ![q] = IdleRequest]
  PROVE  /\ request' \in [Requests -> RequestRow]
         /\ \A p \in Requests : p # q => request'[p] = request[p]
         /\ Reached(q)'
<1>1. IdleRequest \in RequestRow /\ request'[q] = IdleRequest
  BY DEF IInv, RequestRow, IdleRequest
<1>2. Reached(q)'
  BY <1>1 DEF Reached, At, IdleRequest
<1> QED BY <1>1, <1>2 DEF IInv

LEMMA ReceiveInv == ASSUME IInv, NEW q \in Requests, NEW b \in Bodies, Receive(q, b) PROVE IInv'
<1> DEFINE row == [pc |-> IF BodyOf[b].dev THEN "store" ELSE "register",
                   body |-> b, at |-> 1, code |-> 0]
<1>1. /\ BodyOf[b].dev \/ b \in Webhooks
      /\ request' = [request EXCEPT ![q] = row]
      /\ UNCHANGED <<deliveries, inbound, acked, handed, intakeFaults>>
  BY DEF Receive
<1>2. /\ row \in RequestRow /\ row.body = b /\ row.at = 1 /\ row.code = 0
      /\ row.pc = IF BodyOf[b].dev THEN "store" ELSE "register"
  BY DEF RequestRow
<1>3. BodyOf[b].dev => 1 \in DOMAIN ItemsOf(b)
  BY BodyAssumption DEF ItemsOf
<1> HIDE DEF row
<1>4. /\ request' \in [Requests -> RequestRow] /\ request'[q] = row
      /\ \A p \in Requests : p # q => request'[p] = request[p]
  BY <1>1, <1>2 DEF IInv
<1>5. Reached(q)'
  BY <1>1, <1>2, <1>3, <1>4 DEF Reached, At
<1>6. Tables' /\ Grows
  BY <1>1, TablesKept DEF IInv
<1>7. acked' = acked /\ acked \subseteq Bodies /\ intakeFaults' \in 0..MaxIntakeFaults
  BY <1>1 DEF IInv
<1> QED BY <1>4, <1>5, <1>6, <1>7, HandlerStep

LEMMA RegisterInv == ASSUME IInv, NEW q \in Requests, Register(q) PROVE IInv'
<1>1. PICK b \in Webhooks : b = request[q].body
  BY DEF Register, IInv, Reached
<1>2. /\ deliveries' = Upserted(b)
      /\ Goto(q, AfterUpsert(b), 1, IF AfterUpsert(b) = "answer" THEN 200 ELSE 0)
      /\ UNCHANGED <<inbound, acked, handed, intakeFaults>>
  BY <1>1 DEF Register
<1>3. Tables' /\ Grows /\ b \in DOMAIN deliveries'
  BY <1>2, UpsertTables DEF IInv
<1>4. b \in Bodies
  BY DEF Webhooks
<1>5. /\ request' \in [Requests -> RequestRow]
      /\ \A p \in Requests : p # q => request'[p] = request[p]
      /\ Reached(q)'
  <2>1. CASE Upserted(b)[b].status # "RECEIVED"
    <3>1. deliveries'[b] = Received \/ Settled(b)'
      BY <1>3 DEF Tables
    <3>2. Settled(b)'
      BY <1>2, <2>1, <3>1 DEF Received
    <3>3. Goto(q, "answer", 1, 200)
      BY <1>2, <2>1 DEF AfterUpsert
    <3> QED BY <1>1, <1>4, <3>2, <3>3, GoesToAnswer
  <2>2. CASE Upserted(b)[b].status = "RECEIVED" /\ b \in Processable
    <3>1. AfterUpsert(b) = Ahead(b, 1) /\ Ahead(b, 1) # "answer"
      BY <2>2, VerdictExact DEF AfterUpsert, Ahead
    <3>2. Goto(q, Ahead(b, 1), 1, 0)
      BY <1>2, <3>1
    <3>3. \A i \in DOMAIN ItemsOf(b) : ~(i < 1)
      BY <1>4, BodyShape
    <3> QED BY <1>1, <1>3, <2>2, <3>2, <3>3, GoesAhead
  <2>3. CASE Upserted(b)[b].status = "RECEIVED" /\ b \notin Processable
    <3>1. Goto(q, "settle", 1, 0)
      BY <1>2, <2>3, VerdictExact DEF AfterUpsert
    <3>2. /\ request' \in [Requests -> RequestRow]
          /\ \A p \in Requests : p # q => request'[p] = request[p]
          /\ request'[q].pc = "settle" /\ request'[q].body = b
      BY <1>1, <3>1, GotoRow DEF IInv
    <3>3. Reached(q)'
      BY <1>3, <1>4, <2>3, <3>2 DEF Reached, At
    <3> QED BY <3>2, <3>3
  <2> QED BY <2>1, <2>2, <2>3
<1>6. acked' = acked /\ acked \subseteq Bodies /\ intakeFaults' \in 0..MaxIntakeFaults
  BY <1>2 DEF IInv
<1> QED BY <1>3, <1>5, <1>6, HandlerStep

\* The message at which a handler stands is one to be stored.
LEMMA AtMessage ==
  ASSUME IInv, NEW q \in Requests, At(q, "store"), NEW b, b = request[q].body,
         NEW n, n = request[q].at
  PROVE  /\ b \in Processable /\ n \in DOMAIN ItemsOf(b) /\ ItemsOf(b)[n] \in Messages
         /\ BodyOf[b].dev \/ (b \in DOMAIN deliveries /\ b \in Webhooks)
         /\ b \in Bodies /\ n \in Nat \ {0}
<1>1. b \in Bodies /\ n \in DOMAIN ItemsOf(b) /\ n \in Nat
  BY DEF IInv, Reached, At, RequestRow
<1>2. n # 0
  BY <1>1, BodyShape
<1>3. b \in Processable /\ (BodyOf[b].dev \/ (b \in DOMAIN deliveries /\ b \in Webhooks))
  <2>1. CASE BodyOf[b].dev
    BY <1>1, <2>1 DEF Processable
  <2>2. CASE ~BodyOf[b].dev
    BY <2>2 DEF IInv, Reached, Tables
  <2> QED BY <2>1, <2>2
<1> QED BY <1>1, <1>2, <1>3, MessagesOfProcessable

LEMMA StoreMessageInv == ASSUME IInv, NEW q \in Requests, StoreMessage(q) PROVE IInv'
<1>1. At(q, "store")
  BY DEF StoreMessage
<1>2. PICK b, n : b = request[q].body /\ n = request[q].at
  OBVIOUS
<1>3. /\ b \in Processable /\ n \in DOMAIN ItemsOf(b) /\ ItemsOf(b)[n] \in Messages
      /\ BodyOf[b].dev \/ (b \in DOMAIN deliveries /\ b \in Webhooks)
      /\ b \in Bodies /\ n \in Nat \ {0}
  BY <1>1, <1>2, AtMessage
<1>4. PICK m \in Messages : m = ItemsOf(b)[n]
  BY <1>3
<1>5. /\ inbound' = Inserted(m, b)
      /\ handed' = [handed EXCEPT ![m] = IF Fresh(m) THEN @ + 1 ELSE @]
      /\ BodyOf[b].dev => Goto(q, "answer", 0, 201)
      /\ ~BodyOf[b].dev => Goto(q, Ahead(b, n + 1), n + 1, 0)
      /\ UNCHANGED <<deliveries, acked, intakeFaults>>
  BY <1>2, <1>4 DEF StoreMessage, ItemsOf
<1>6. Tables' /\ Grows /\ inbound'[m] # NULL
  BY <1>3, <1>5, InsertTables DEF IInv
<1>7. /\ request' \in [Requests -> RequestRow]
      /\ \A p \in Requests : p # q => request'[p] = request[p]
      /\ Reached(q)'
  <2>1. CASE BodyOf[b].dev
    BY <1>2, <1>3, <1>5, <2>1, GoesToAnswer
  <2>2. CASE ~BodyOf[b].dev
    <3>1. \A i \in DOMAIN ItemsOf(b) : i < n => inbound[ItemsOf(b)[i]] # NULL
      BY <1>1, <1>2, <2>2 DEF IInv, Reached
    <3>2. ASSUME NEW i \in DOMAIN ItemsOf(b), i < n + 1
          PROVE  inbound'[ItemsOf(b)[i]] # NULL
      <4>1. i \in Nat
        BY <1>3, BodyShape
      <4>2. CASE i = n
        BY <1>4, <1>6, <4>2
      <4>3. CASE i < n
        BY <1>3, <1>6, <3>1, <4>3, MessagesOfProcessable DEF Grows
      <4> QED BY <1>3, <3>2, <4>1, <4>2, <4>3
    <3>3. n + 1 \in Nat \ {0} /\ b \in Webhooks /\ b \in DOMAIN deliveries'
      BY <1>3, <1>5, <2>2
    <3> QED BY <1>2, <1>3, <1>5, <1>6, <2>2, <3>2, <3>3, GoesAhead
  <2> QED BY <2>1, <2>2
<1>8. acked' = acked /\ acked \subseteq Bodies /\ intakeFaults' \in 0..MaxIntakeFaults
  BY <1>5 DEF IInv
<1> QED BY <1>6, <1>7, <1>8, HandlerStep
LEMMA SettleInv == ASSUME IInv, NEW q \in Requests, Settle(q) PROVE IInv'
<1>1. PICK b \in DOMAIN deliveries : b = request[q].body /\ (b \in Processable => AllStored(b))
  BY DEF Settle, IInv, Reached, At
<1>2. b \in Webhooks /\ b \in Bodies
  BY DEF IInv, Tables, Webhooks
<1>3. /\ deliveries' = [deliveries EXCEPT ![b] = SettledRow(b)]
      /\ Goto(q, "answer", 0, 200)
      /\ UNCHANGED <<inbound, acked, handed, intakeFaults>>
  BY <1>1 DEF Settle
<1>4. Tables' /\ Grows /\ Settled(b)'
  BY <1>1, <1>3, SettleTables DEF IInv
<1>5. /\ request' \in [Requests -> RequestRow]
      /\ \A p \in Requests : p # q => request'[p] = request[p]
      /\ Reached(q)'
  BY <1>1, <1>2, <1>3, <1>4, GoesToAnswer
<1>6. acked' = acked /\ acked \subseteq Bodies /\ intakeFaults' \in 0..MaxIntakeFaults
  BY <1>3 DEF IInv
<1> QED BY <1>4, <1>5, <1>6, HandlerStep

LEMMA AnswerInv == ASSUME IInv, NEW q \in Requests, Answer(q) PROVE IInv'
<1>1. /\ At(q, "answer") /\ request' = [request EXCEPT ![q] = IdleRequest]
      /\ UNCHANGED <<deliveries, inbound, handed, intakeFaults>>
  BY DEF Answer
<1>2. Tables' /\ Grows
  BY <1>1, TablesKept DEF IInv
<1>3. PICK b \in Bodies : b = request[q].body
  BY <1>1 DEF IInv, Reached, At
<1>4. acked' \subseteq Bodies
  BY <1>3 DEF Answer, IInv
<1>5. ASSUME NEW c \in acked' \cap Webhooks
      PROVE  c \in acked \/ Settled(c)'
  <2>1. CASE c \in acked
    BY <2>1
  <2>2. CASE c \notin acked
    <3>1. c = b /\ request[q].code \in {200, 201}
      BY <1>3, <1>5, <2>2 DEF Answer
    <3>2. ~BodyOf[c].dev
      BY <1>5 DEF Webhooks
    <3>3. Settled(c)
      BY <1>1, <1>3, <3>1, <3>2 DEF IInv, Reached, At
    <3> QED BY <1>2, <3>3 DEF Grows, Settled
  <2> QED BY <2>1, <2>2
<1>6. intakeFaults' \in 0..MaxIntakeFaults
  BY <1>1 DEF IInv
<1> QED BY <1>1, <1>2, <1>4, <1>5, <1>6, Idles, HandlerStep

LEMMA StatementFailsInv == ASSUME IInv, NEW q \in Requests, StatementFails(q) PROVE IInv'
<1>1. /\ Fault /\ ~At(q, "idle") /\ Goto(q, "answer", 0, 500)
      /\ UNCHANGED <<deliveries, inbound, acked, handed>>
  BY DEF StatementFails, At
<1>2. PICK b \in Bodies : b = request[q].body
  BY <1>1 DEF IInv, Reached
<1>3. Tables' /\ Grows
  BY <1>1, TablesKept DEF IInv
<1>4. /\ request' \in [Requests -> RequestRow]
      /\ \A p \in Requests : p # q => request'[p] = request[p]
      /\ Reached(q)'
  BY <1>1, <1>2, GoesToAnswer
<1>5. acked' = acked /\ acked \subseteq Bodies /\ intakeFaults' \in 0..MaxIntakeFaults
  BY <1>1, Faulty DEF IInv
<1> QED BY <1>3, <1>4, <1>5, HandlerStep

LEMMA StatementLostInv == ASSUME IInv, NEW q \in Requests, StatementLost(q) PROVE IInv'
<1>1. /\ Fault /\ Goto(q, "answer", 0, 500) /\ UNCHANGED <<acked, handed>>
      /\ ~At(q, "idle")
  BY DEF StatementLost, At
<1>2. PICK b \in Bodies : b = request[q].body
  BY <1>1 DEF IInv, Reached
<1>3. Tables' /\ Grows
  <2>1. CASE At(q, "register") /\ deliveries' = Upserted(b) /\ inbound' = inbound
    <3>1. b \in Webhooks
      BY <1>2, <2>1 DEF IInv, Reached
    <3> QED BY <1>1, <2>1, <3>1, UpsertTables DEF IInv
  <2>2. CASE /\ At(q, "store") /\ deliveries' = deliveries
             /\ inbound' = Inserted(BodyOf[b].items[request[q].at], b)
    <3>1. PICK n : n = request[q].at
      OBVIOUS
    <3>2. /\ b \in Processable /\ ItemsOf(b)[n] \in Messages
          /\ BodyOf[b].dev \/ b \in DOMAIN deliveries
      BY <1>2, <2>2, <3>1, AtMessage
    <3>3. PICK m \in Messages : m = ItemsOf(b)[n]
      BY <3>2
    <3>4. inbound' = Inserted(m, b)
      BY <2>2, <3>1, <3>3 DEF ItemsOf
    <3> QED BY <1>1, <2>2, <3>2, <3>4, InsertTables DEF IInv
  <2>3. CASE /\ At(q, "settle") /\ inbound' = inbound
             /\ deliveries' = [deliveries EXCEPT ![b] = SettledRow(b)]
    <3>1. b \in DOMAIN deliveries /\ (b \in Processable => AllStored(b))
      BY <1>2, <2>3 DEF IInv, Reached
    <3> QED BY <1>1, <2>3, <3>1, SettleTables DEF IInv
  <2> QED BY <1>2, <2>1, <2>2, <2>3 DEF StatementLost
<1>4. /\ request' \in [Requests -> RequestRow]
      /\ \A p \in Requests : p # q => request'[p] = request[p]
      /\ Reached(q)'
  BY <1>1, <1>2, GoesToAnswer
<1>5. acked' = acked /\ acked \subseteq Bodies /\ intakeFaults' \in 0..MaxIntakeFaults
  BY <1>1, Faulty DEF IInv
<1> QED BY <1>3, <1>4, <1>5, HandlerStep

LEMMA AnswerLostInv == ASSUME IInv, NEW q \in Requests, AnswerLost(q) PROVE IInv'
<1>1. /\ Fault /\ request' = [request EXCEPT ![q] = IdleRequest]
      /\ UNCHANGED <<deliveries, inbound, acked, handed>>
  BY DEF AnswerLost
<1>2. Tables' /\ Grows
  BY <1>1, TablesKept DEF IInv
<1>3. acked' = acked /\ acked \subseteq Bodies /\ intakeFaults' \in 0..MaxIntakeFaults
  BY <1>1, Faulty DEF IInv
<1> QED BY <1>1, <1>2, <1>3, Idles, HandlerStep

LEMMA DieInv == ASSUME IInv, NEW p \in Processes, Die(p) PROVE IInv'
<1>1. /\ Fault /\ UNCHANGED <<deliveries, inbound, acked, handed>>
      /\ request' = [q \in Requests |-> IF HostOf[q] = p THEN IdleRequest ELSE request[q]]
  BY DEF Die
<1>2. Tables' /\ Grows
  BY <1>1, TablesKept DEF IInv
<1>3. IdleRequest \in RequestRow
  BY DEF IdleRequest, RequestRow
<1>4. request' \in [Requests -> RequestRow]
  BY <1>1, <1>3 DEF IInv
<1>5. ASSUME NEW q \in Requests
      PROVE  Reached(q)'
  <2>1. CASE request'[q] = request[q]
    BY <1>2, <2>1, OthersStay
  <2>2. CASE request'[q] = IdleRequest
    BY <2>2 DEF Reached, At, IdleRequest
  <2> QED BY <1>1, <2>1, <2>2
<1>6. \A b \in acked' \cap Webhooks : Settled(b)'
  BY <1>1, <1>2 DEF IInv, Grows, Settled
<1>7. intakeFaults' \in 0..MaxIntakeFaults
  BY <1>1, Faulty
<1> QED BY <1>1, <1>2, <1>4, <1>5, <1>6, <1>7 DEF IInv

LEMMA InitInv == IntakeInit => IInv
<1> SUFFICES ASSUME IntakeInit PROVE IInv
  OBVIOUS
<1>1. DOMAIN deliveries = {} /\ acked = {}
  BY DEF IntakeInit
<1>2. Tables
  BY <1>1 DEF IntakeInit, Tables, HandedOnce
<1>3. IdleRequest \in RequestRow
  BY DEF IdleRequest, RequestRow
<1>4. \A q \in Requests : Reached(q)
  BY DEF IntakeInit, Reached, At, IdleRequest
<1>5. request \in [Requests -> RequestRow]
  BY <1>3 DEF IntakeInit
<1>6. intakeFaults \in 0..MaxIntakeFaults
  BY IntakeBoundAssumption DEF IntakeInit
<1> QED BY <1>1, <1>2, <1>4, <1>5, <1>6 DEF IInv

LEMMA NextInv == IInv /\ [IntakeNext]_intakeVars => IInv'
<1> SUFFICES ASSUME IInv, [IntakeNext]_intakeVars PROVE IInv'
  OBVIOUS
<1>1. CASE \E q \in Requests : \/ Handler(q) \/ StatementFails(q) \/ StatementLost(q)
                               \/ AnswerLost(q) \/ \E b \in Bodies : Receive(q, b)
  <2>1. PICK q \in Requests : \/ Handler(q) \/ StatementFails(q) \/ StatementLost(q)
                              \/ AnswerLost(q) \/ \E b \in Bodies : Receive(q, b)
    BY <1>1
  <2>2. CASE Handler(q)
    BY <2>2, RegisterInv, StoreMessageInv, SettleInv, AnswerInv DEF Handler
  <2> QED
    BY <2>1, <2>2, StatementFailsInv, StatementLostInv, AnswerLostInv, ReceiveInv
<1>2. CASE \E p \in Processes : Die(p)
  BY <1>2, DieInv
<1>3. CASE UNCHANGED intakeVars
  <2>1. Tables' /\ Grows
    BY <1>3, TablesKept DEF IInv, intakeVars
  <2>2. \A q \in Requests : Reached(q)'
    BY <1>3, <2>1, OthersStay DEF intakeVars
  <2>3. \A b \in acked' \cap Webhooks : Settled(b)'
    BY <1>3, <2>1 DEF IInv, Grows, Settled, intakeVars
  <2> QED BY <1>3, <2>1, <2>2, <2>3 DEF IInv, intakeVars
<1> QED BY <1>1, <1>2, <1>3 DEF IntakeNext

\* However often and in how many bodies a message arrives, and whatever fails, it is
\* handed to processMessage once at most, after it is stored, from a body on record
\* that passed validation as a whole (ingestSignedWebhook, storeIdempotent).
THEOREM HandoffTheorem == IntakeSpec => []HandedOnce
<1>1. IInv => HandedOnce
  BY DEF IInv, Tables
<1> QED BY <1>1, InitInv, NextInv, PTL DEF IntakeSpec

\* Recorded deliveries are signed bodies in a state of the table, and a handler is at
\* a statement of the code, within its body.
THEOREM DeliveryTypesTheorem == IntakeSpec => []DeliveryTypes
<1>1. IInv => DeliveryTypes
  <2> SUFFICES ASSUME IInv PROVE DeliveryTypes
    OBVIOUS
  <2>1. ASSUME NEW b \in DOMAIN deliveries PROVE deliveries[b] \in DeliveryRow
    <3>1. CASE deliveries[b] = Received
      BY <3>1 DEF Received, DeliveryRow
    <3>2. CASE deliveries[b] = SettledRow(b)
      BY <3>2 DEF DeliveryRow, IInv, Tables
    <3> QED BY <3>1, <3>2 DEF IInv, Tables, Settled
  <2>2. ASSUME NEW q \in Requests
        PROVE  \/ request[q] = IdleRequest
               \/ /\ request[q].body \in Bodies
                  /\ request[q].pc \in {"register", "store", "settle", "answer"}
                  /\ At(q, "store") => request[q].at \in DOMAIN BodyOf[request[q].body].items
    <3>1. request[q].pc \in {"idle", "register", "store", "settle", "answer"}
      BY DEF IInv, RequestRow
    <3> QED BY <3>1 DEF IInv, Reached, At, ItemsOf
  <2> QED BY <2>1, <2>2 DEF DeliveryTypes, IInv, Tables
<1> QED BY <1>1, InitInv, NextInv, PTL DEF IntakeSpec
-----------------------------------------------------------------------------
(* The refinement of IntakeAbs.                                            *)

outcomes == [b \in Bodies |-> OutcomeOf(b)]

LEMMA OutcomeCases ==
  ASSUME Tables, NEW b \in Bodies
  PROVE  /\ b \notin DOMAIN deliveries => OutcomeOf(b) = "none"
         /\ b \in DOMAIN deliveries /\ deliveries[b] = Received => OutcomeOf(b) = "pending"
         /\ Settled(b) => OutcomeOf(b) = IF b \in Processable THEN "accepted" ELSE "quarantined"
<1>1. b \in DOMAIN deliveries => b \in Webhooks
  BY DEF Tables
<1>2. b \in DOMAIN deliveries /\ deliveries[b] = Received => OutcomeOf(b) = "pending"
  BY DEF OutcomeOf, Received
<1>3. Settled(b) => OutcomeOf(b) = IF b \in Processable THEN "accepted" ELSE "quarantined"
  BY <1>1, StatusOfSettled DEF OutcomeOf, Settled
<1> QED BY <1>2, <1>3 DEF OutcomeOf

LEMMA SameOutcomes == ASSUME UNCHANGED deliveries PROVE outcomes' = outcomes
  BY DEF outcomes, OutcomeOf

LEMMA SameOutcome ==
  ASSUME NEW b, b \in DOMAIN deliveries' <=> b \in DOMAIN deliveries,
         b \in DOMAIN deliveries => deliveries'[b] = deliveries[b]
  PROVE  OutcomeOf(b)' = OutcomeOf(b)
<1>1. CASE b \in DOMAIN deliveries
  <2>1. b \in DOMAIN deliveries' /\ deliveries'[b] = deliveries[b]
    BY <1>1
  <2> QED BY <1>1, <2>1 DEF OutcomeOf
<1>2. CASE b \notin DOMAIN deliveries
  BY <1>2 DEF OutcomeOf
<1> QED BY <1>1, <1>2

LEMMA CarriedIs ==
  ASSUME NEW b \in Bodies, NEW m
  PROVE  m \in {BodyOf[b].items[i] : i \in DOMAIN BodyOf[b].items}
           <=> \E i \in DOMAIN ItemsOf(b) : m = ItemsOf(b)[i]
  BY DEF ItemsOf

AbstractVars == <<outcomes, inbound, acked \cap Webhooks>>

\* Recording a body is TakeOn, or nothing if it is on record.
LEMMA UpsertRefines ==
  ASSUME IInv, NEW b \in Webhooks, deliveries' = Upserted(b), UNCHANGED <<inbound, acked>>
  PROVE  Promise!TakeOn(b) \/ UNCHANGED AbstractVars
<1>1. CASE b \in DOMAIN deliveries
  <2>1. UNCHANGED deliveries
    BY <1>1 DEF Upserted
  <2> QED BY <2>1, SameOutcomes DEF AbstractVars
<1>2. CASE b \notin DOMAIN deliveries
  <2>1. /\ DOMAIN deliveries' = DOMAIN deliveries \cup {b}
        /\ deliveries'[b] = [status |-> "RECEIVED", errorCode |-> NULL, messageCount |-> 0]
        /\ \A c \in DOMAIN deliveries : deliveries'[c] = deliveries[c]
    BY <1>2 DEF Upserted
  <2>2. b \in Bodies /\ outcomes[b] = "none"
    BY <1>2 DEF Webhooks, outcomes, OutcomeOf
  <2>3. OutcomeOf(b)' = "pending"
    BY <2>1 DEF OutcomeOf
  <2>4. \A c \in Bodies : c # b => OutcomeOf(c)' = OutcomeOf(c)
    BY <2>1, SameOutcome
  <2>5. outcomes' = [outcomes EXCEPT ![b] = "pending"]
    BY <2>2, <2>3, <2>4 DEF outcomes
  <2> QED BY <2>2, <2>5 DEF Promise!TakeOn, outcomes
<1> QED BY <1>1, <1>2

\* Storing a message is Keep, or nothing if it is a duplicate.
LEMMA InsertRefines ==
  ASSUME IInv, NEW b \in Processable, NEW i \in DOMAIN ItemsOf(b),
         inbound' = Inserted(ItemsOf(b)[i], b), UNCHANGED <<deliveries, acked>>
  PROVE  (\E m \in Messages : Promise!Keep(b, m)) \/ UNCHANGED AbstractVars
<1>1. b \in Bodies
  BY DEF Processable
<1>2. PICK m \in Messages : m = ItemsOf(b)[i]
  BY MessagesOfProcessable
<1>3. UNCHANGED outcomes
  BY SameOutcomes
<1>4. CASE inbound[m] = NULL
  <2>1. inbound' = [inbound EXCEPT ![m] = b]
    BY <1>2, <1>4 DEF Inserted
  <2>2. m \in {BodyOf[b].items[k] : k \in DOMAIN BodyOf[b].items}
    BY <1>1, <1>2, CarriedIs
  <2>3. Promise!Keep(b, m)
    BY <1>1, <1>3, <1>4, <2>1, <2>2 DEF Promise!Keep, outcomes
  <2> QED BY <2>3
<1>5. CASE inbound[m] # NULL
  <2>1. inbound' = inbound
    BY <1>2, <1>5 DEF Inserted
  <2> QED BY <1>3, <2>1 DEF AbstractVars
<1> QED BY <1>4, <1>5

\* Settling a body is Conclude, or nothing if it was settled before.
LEMMA SettleRefines ==
  ASSUME IInv, NEW b \in DOMAIN deliveries, b \in Processable => AllStored(b),
         deliveries' = [deliveries EXCEPT ![b] = SettledRow(b)], UNCHANGED <<inbound, acked, handed>>
  PROVE  Promise!Conclude(b) \/ UNCHANGED AbstractVars
<1>1. b \in Webhooks /\ b \in Bodies
  BY DEF IInv, Tables, Webhooks
<1>2. Tables /\ Tables' /\ Settled(b)'
  BY SettleTables DEF IInv
<1>3. OutcomeOf(b)' = IF b \in Processable THEN "accepted" ELSE "quarantined"
  <2>1. deliveries'[b] = SettledRow(b) /\ b \in DOMAIN deliveries'
    BY <1>2 DEF Settled
  <2> QED BY <1>1, <2>1, StatusOfSettled DEF OutcomeOf
<1>4. \A c \in Bodies : c # b => OutcomeOf(c)' = OutcomeOf(c)
  <2>1. /\ DOMAIN deliveries' = DOMAIN deliveries
        /\ \A c \in DOMAIN deliveries : c # b => deliveries'[c] = deliveries[c]
    OBVIOUS
  <2> QED BY <2>1, SameOutcome
<1>5. CASE deliveries[b] = Received
  <2>1. outcomes[b] = "pending"
    BY <1>1, <1>2, <1>5, OutcomeCases DEF outcomes
  <2>2. outcomes' = [outcomes EXCEPT ![b] = IF b \in Processable THEN "accepted" ELSE "quarantined"]
    BY <1>1, <1>3, <1>4 DEF outcomes
  <2>3. b \in Processable =>
          \A m \in {BodyOf[b].items[i] : i \in DOMAIN BodyOf[b].items} : inbound[m] # NULL
    BY <1>1, CarriedIs DEF AllStored
  <2> QED BY <1>1, <2>1, <2>2, <2>3 DEF Promise!Conclude, outcomes
<1>6. CASE deliveries[b] # Received
  <2>1. deliveries[b] = SettledRow(b)
    BY <1>6 DEF IInv, Tables, Settled
  <2>2. OutcomeOf(b)' = OutcomeOf(b)
    BY <2>1, SameOutcome
  <2>3. outcomes' = outcomes
    BY <1>4, <2>2 DEF outcomes
  <2> QED BY <2>3 DEF AbstractVars
<1> QED BY <1>5, <1>6

LEMMA AnswerRefines ==
  ASSUME IInv, NEW q \in Requests, Answer(q)
  PROVE  (\E b \in Bodies : Promise!Acknowledge(b)) \/ UNCHANGED AbstractVars
<1>1. At(q, "answer") /\ UNCHANGED <<deliveries, inbound>>
  BY DEF Answer
<1>2. PICK b \in Bodies : b = request[q].body
  BY <1>1 DEF IInv, Reached, At
<1>3. UNCHANGED outcomes
  BY <1>1, SameOutcomes
<1>4. CASE request[q].code = 200
  <2>1. b \in Webhooks /\ Settled(b)
    BY <1>1, <1>2, <1>4 DEF IInv, Reached
  <2>2. acked' = acked \cup {b}
    BY <1>2, <1>4 DEF Answer
  <2>3. acked' \cap Webhooks = (acked \cap Webhooks) \cup {b}
    BY <2>1, <2>2
  <2>4. outcomes[b] \in {"accepted", "quarantined"}
    BY <1>2, <2>1, OutcomeCases DEF IInv, outcomes
  <2>5. Promise!Acknowledge(b)
    BY <1>1, <1>3, <2>3, <2>4 DEF Promise!Acknowledge, outcomes
  <2> QED BY <2>5
<1>5. CASE request[q].code # 200
  <2>1. acked' = acked \/ (acked' = acked \cup {b} /\ b \notin Webhooks)
    BY <1>1, <1>2, <1>5 DEF Answer, IInv, Reached, Webhooks
  <2>2. acked' \cap Webhooks = acked \cap Webhooks
    BY <2>1
  <2>3. Webhooks' = Webhooks
    BY DEF Webhooks
  <2> QED BY <1>1, <1>3, <2>2 DEF AbstractVars
<1> QED BY <1>4, <1>5

LEMMA StepRefines == IInv /\ [IntakeNext]_intakeVars => [Promise!ANext]_(Promise!avars)
<1> SUFFICES ASSUME IInv, [IntakeNext]_intakeVars PROVE Promise!ANext \/ UNCHANGED AbstractVars
  BY DEF Promise!avars, AbstractVars, outcomes
<1>1. ASSUME UNCHANGED <<deliveries, inbound, acked>>
      PROVE  UNCHANGED AbstractVars
  BY <1>1, SameOutcomes DEF AbstractVars
<1>2. ASSUME NEW q \in Requests,
             Handler(q) \/ StatementFails(q) \/ StatementLost(q) \/ AnswerLost(q)
      PROVE  Promise!ANext \/ UNCHANGED AbstractVars
  <2>1. CASE StatementFails(q) \/ AnswerLost(q)
    BY <1>1, <2>1 DEF StatementFails, AnswerLost
  <2>2. CASE Answer(q)
    BY <2>2, AnswerRefines DEF Promise!ANext
  <2>3. CASE ~At(q, "idle") /\ ~Answer(q) /\ (Handler(q) \/ StatementLost(q))
    <3>1. PICK b \in Bodies : b = request[q].body
      BY <2>3 DEF IInv, Reached
    <3>2. UNCHANGED <<acked, handed>> \/ StoreMessage(q)
      BY <2>3 DEF Handler, Register, Settle, StatementLost
    <3>3. UNCHANGED acked
      BY <2>3 DEF Handler, Register, StoreMessage, Settle, StatementLost
    <3>4. CASE At(q, "register") /\ deliveries' = Upserted(b) /\ inbound' = inbound
      <4>1. b \in Webhooks
        BY <3>1, <3>4 DEF IInv, Reached
      <4> QED BY <3>1, <3>3, <3>4, <4>1, UpsertRefines DEF Promise!ANext
    <3>5. CASE /\ At(q, "store") /\ deliveries' = deliveries
               /\ inbound' = Inserted(BodyOf[b].items[request[q].at], b)
      <4>1. PICK n : n = request[q].at
        OBVIOUS
      <4>2. b \in Processable /\ n \in DOMAIN ItemsOf(b)
        BY <3>1, <3>5, <4>1, AtMessage
      <4>3. inbound' = Inserted(ItemsOf(b)[n], b)
        BY <3>5, <4>1 DEF ItemsOf
      <4> QED BY <3>1, <3>3, <3>5, <4>2, <4>3, InsertRefines DEF Promise!ANext
    <3>6. CASE /\ At(q, "settle") /\ inbound' = inbound
               /\ deliveries' = [deliveries EXCEPT ![b] = SettledRow(b)]
      <4>1. b \in DOMAIN deliveries /\ (b \in Processable => AllStored(b))
        BY <3>1, <3>6 DEF IInv, Reached
      <4>2. UNCHANGED handed
        BY <3>2, <3>6 DEF StoreMessage, At
      <4> QED BY <3>1, <3>3, <3>6, <4>1, <4>2, SettleRefines DEF Promise!ANext
    <3> QED
      BY <2>3, <3>1, <3>4, <3>5, <3>6 DEF Handler, Register, StoreMessage, Settle, StatementLost
  <2> QED
    BY <1>2, <2>1, <2>2, <2>3
    DEF Handler, Register, StoreMessage, Settle, StatementLost, At
<1>3. CASE \E q \in Requests, b \in Bodies : Receive(q, b)
  BY <1>1, <1>3 DEF Receive
<1>4. CASE \E p \in Processes : Die(p)
  BY <1>1, <1>4 DEF Die
<1>5. CASE UNCHANGED intakeVars
  BY <1>1, <1>5 DEF intakeVars
<1> QED BY <1>2, <1>3, <1>4, <1>5 DEF IntakeNext

\* The intake keeps what it promises WhatsApp, for any bodies, messages, processes and
\* faults: a body is settled once, as accepted only with all of its messages stored,
\* and answered 200 only then (ingestSignedWebhook, storeIdempotent).
THEOREM PromiseTheorem == IntakeSpec => IntakePromise
<1>1. IntakeInit => Promise!AInit
  <2> SUFFICES ASSUME IntakeInit PROVE Promise!AInit
    OBVIOUS
  <2>1. \A b \in Bodies : OutcomeOf(b) = "none"
    BY DEF IntakeInit, OutcomeOf
  <2> QED BY <2>1 DEF IntakeInit, Promise!AInit
<1> QED
  BY <1>1, InitInv, NextInv, StepRefines, PTL DEF IntakeSpec, IntakePromise, Promise!Spec

-----------------------------------------------------------------------------
(* Draining.                                                               *)

Running == {w \in Works : work[w] = "running"}

\* The counter counts, and whoever has begun to drain has raised the flag.
DInv ==
  /\ DrainingTypes
  /\ IsFiniteSet(Running) /\ inFlight = Cardinality(Running)
  /\ \A d \in Drains : drain[d] # "new" => draining
  /\ DrainsMatchWork

LEMMA NoneRunning ==
  ASSUME IsFiniteSet(Running), inFlight = Cardinality(Running)
  PROVE  inFlight = 0 <=> \A w \in Works : work[w] # "running"
<1>1. inFlight = 0 <=> Running = {}
  BY FS_EmptySet
<1> QED BY <1>1 DEF Running

LEMMA DrainingInitInv == DrainingInit => DInv
<1> SUFFICES ASSUME DrainingInit PROVE DInv
  OBVIOUS
<1>1. Running = {}
  BY DEF DrainingInit, Running
<1>2. IsFiniteSet(Running) /\ inFlight = Cardinality(Running)
  BY <1>1, FS_EmptySet DEF DrainingInit
<1>3. DrainingTypes
  BY DEF DrainingInit, DrainingTypes
<1>4. \A d \in Drains : drain[d] = "new"
  BY DEF DrainingInit
<1> QED
  BY <1>2, <1>3, <1>4 DEF DInv, DrainsMatchWork, DrainHonest, NoLostWakeup

LEMMA StartWorkInv ==
  ASSUME DInv, NEW w \in Works, StartWork(w)
  PROVE  DInv'
<1>1. CASE ~draining
  <2>1. /\ work' = [work EXCEPT ![w] = "running"] /\ inFlight' = inFlight + 1
        /\ work[w] = "new" /\ UNCHANGED <<draining, waiters, drain>>
    BY <1>1 DEF StartWork, CanStart
  <2>2. Running' = Running \cup {w} /\ w \notin Running
    BY <2>1 DEF Running, DInv, DrainingTypes
  <2>3. IsFiniteSet(Running') /\ inFlight' = Cardinality(Running')
    <3>1. IsFiniteSet(Running \cup {w}) /\ Cardinality(Running \cup {w}) = Cardinality(Running) + 1
      BY <2>2, FS_AddElement DEF DInv
    <3> QED BY <3>1, <2>1, <2>2 DEF DInv
  <2>4. DrainingTypes'
    BY <2>1 DEF DInv, DrainingTypes
  <2>5. \A d \in Drains : drain[d] = "new"
    BY <1>1 DEF DInv
  <2> QED
    BY <2>1, <2>3, <2>4, <2>5 DEF DInv, DrainsMatchWork, DrainHonest, NoLostWakeup
<1>2. CASE draining
  <2>1. /\ work' = [work EXCEPT ![w] = "refused"] /\ work[w] = "new"
        /\ UNCHANGED <<draining, inFlight, waiters, drain>>
    BY <1>2 DEF StartWork, CanStart, DInv, DrainingTypes
  <2>2. \A v \in Works : work'[v] = "running" <=> work[v] = "running"
    BY <2>1 DEF DInv, DrainingTypes
  <2>3. Running' = Running
    BY <2>2 DEF Running
  <2>4. DrainingTypes'
    BY <2>1 DEF DInv, DrainingTypes
  <2> QED
    BY <2>1, <2>2, <2>3, <2>4 DEF DInv, DrainsMatchWork, DrainHonest, NoLostWakeup
<1> QED BY <1>1, <1>2 DEF DInv, DrainingTypes

LEMMA EndWorkInv ==
  ASSUME DInv, NEW w \in Works, EndWork(w)
  PROVE  DInv'
<1>1. /\ work' = [work EXCEPT ![w] = "over"] /\ inFlight' = inFlight - 1
      /\ work[w] = "running" /\ draining' = draining
  BY DEF EndWork
<1>2. Running' = Running \ {w} /\ w \in Running
  BY <1>1 DEF Running, DInv, DrainingTypes
<1>3. IsFiniteSet(Running') /\ inFlight' = Cardinality(Running')
  <2>1. IsFiniteSet(Running \ {w}) /\ Cardinality(Running \ {w}) = Cardinality(Running) - 1
    BY <1>2, FS_RemoveElement DEF DInv
  <2> QED BY <2>1, <1>1, <1>2 DEF DInv
<1>4. inFlight' \in Nat
  BY <1>3, FS_CardinalityType
<1>5. inFlight' = 0 <=> \A v \in Works : work'[v] # "running"
  <2>1. inFlight' = 0 <=> Running' = {}
    BY <1>3, FS_EmptySet
  <2> QED BY <2>1 DEF Running
<1>6. \A v \in Works : work'[v] = "running" => work[v] = "running"
  BY <1>1 DEF DInv, DrainingTypes
<1>7. CASE inFlight' = 0
  <2>1. /\ waiters' = {}
        /\ drain' = [d \in Drains |-> IF d \in waiters /\ drain[d] = "waiting"
                                      THEN "drained" ELSE drain[d]]
    BY <1>1, <1>7 DEF EndWork, LastOut
  <2>2. \A d \in Drains : drain'[d] # "waiting" /\ (drain'[d] # "new" => drain[d] # "new")
    BY <2>1 DEF DInv, DrainingTypes
  <2>3. DrainingTypes'
    BY <1>1, <1>4, <2>1, <2>2 DEF DInv, DrainingTypes
  <2> QED
    BY <1>1, <1>3, <1>5, <1>7, <2>2, <2>3 DEF DInv, DrainsMatchWork, DrainHonest, NoLostWakeup
<1>8. CASE inFlight' # 0
  <2>1. UNCHANGED <<waiters, drain>>
    BY <1>1, <1>8 DEF EndWork, LastOut
  <2>2. DrainingTypes'
    BY <1>1, <1>4, <2>1 DEF DInv, DrainingTypes
  <2> QED
    BY <1>1, <1>3, <1>5, <1>6, <1>8, <2>1, <2>2 DEF DInv, DrainsMatchWork, DrainHonest, NoLostWakeup
<1> QED BY <1>7, <1>8

LEMMA BeginDrainInv ==
  ASSUME DInv, NEW d \in Drains, BeginDrain(d)
  PROVE  DInv'
<1>1. drain[d] = "new" /\ draining' = TRUE /\ UNCHANGED <<inFlight, work>>
  BY DEF BeginDrain
<1>2. inFlight = 0 <=> \A w \in Works : work[w] # "running"
  BY NoneRunning DEF DInv
<1>3. Running' = Running
  BY <1>1 DEF Running
<1>4. CASE inFlight = 0
  <2>1. drain' = [drain EXCEPT ![d] = "drained"] /\ waiters' = waiters
    BY <1>4 DEF BeginDrain
  <2>2. DrainingTypes'
    BY <1>1, <2>1 DEF DInv, DrainingTypes
  <2>3. \A e \in Drains : drain'[e] = drain[e] \/ drain'[e] = "drained"
    BY <2>1 DEF DInv, DrainingTypes
  <2> QED
    BY <1>1, <1>2, <1>3, <1>4, <2>2, <2>3 DEF DInv, DrainsMatchWork, DrainHonest, NoLostWakeup
<1>5. CASE inFlight # 0
  <2>1. drain' = [drain EXCEPT ![d] = "waiting"] /\ waiters' = waiters \cup {d}
    BY <1>5 DEF BeginDrain
  <2>2. DrainingTypes'
    BY <1>1, <2>1 DEF DInv, DrainingTypes
  <2>3. \A e \in Drains : drain'[e] = drain[e] \/ drain'[e] = "waiting"
    BY <2>1 DEF DInv, DrainingTypes
  <2> QED
    BY <1>1, <1>2, <1>3, <1>5, <2>2, <2>3 DEF DInv, DrainsMatchWork, DrainHonest, NoLostWakeup
<1> QED BY <1>4, <1>5

LEMMA DrainTimeoutInv ==
  ASSUME DInv, NEW d \in Drains, DrainTimeout(d)
  PROVE  DInv'
<1>1. /\ drain[d] = "waiting" /\ drain' = [drain EXCEPT ![d] = "timedOut"]
      /\ UNCHANGED <<draining, inFlight, waiters, work>>
  BY DEF DrainTimeout
<1>2. Running' = Running
  BY <1>1 DEF Running
<1>3. \A e \in Drains : drain'[e] = drain[e] \/ (drain'[e] = "timedOut" /\ drain[e] = "waiting")
  BY <1>1 DEF DInv, DrainingTypes
<1>4. DrainingTypes'
  BY <1>1 DEF DInv, DrainingTypes
<1> QED
  BY <1>1, <1>2, <1>3, <1>4 DEF DInv, DrainsMatchWork, DrainHonest, NoLostWakeup

LEMMA DrainingStepInv == DInv /\ [DrainingNext]_drainingVars => DInv'
<1> SUFFICES ASSUME DInv, [DrainingNext]_drainingVars PROVE DInv'
  OBVIOUS
<1>1. CASE \E w \in Works : StartWork(w) \/ EndWork(w)
  BY <1>1, StartWorkInv, EndWorkInv
<1>2. CASE \E d \in Drains : BeginDrain(d) \/ DrainTimeout(d)
  BY <1>2, BeginDrainInv, DrainTimeoutInv
<1>3. CASE UNCHANGED drainingVars
  <2>1. Running' = Running
    BY <1>3 DEF Running, drainingVars
  <2> QED
    BY <1>3, <2>1
    DEF drainingVars, DInv, DrainingTypes, DrainsMatchWork, DrainHonest, NoLostWakeup
<1> QED BY <1>1, <1>2, <1>3 DEF DrainingNext

\* However many works and drains there are, a drain that succeeds leaves nothing that
\* runs or will run, and one that waits has work to wait for (GracefulShutdownService).
THEOREM DrainTheorem == DrainingSpec => []DrainsMatchWork
<1>1. DInv => DrainsMatchWork
  BY DEF DInv
<1> QED
  BY <1>1, DrainingInitInv, DrainingStepInv, PTL DEF DrainingSpec
-----------------------------------------------------------------------------
(* Onboarding.                                                             *)

CallRow ==
  [pc : {"new", "insert", "seed", "commit", "refetch", "answered"},
   codes : SUBSET SeedCodes, business : Resolvers \cup {NoBusiness}, created : BOOLEAN]

\* What a call has inserted so far, and whom it excludes while its business row is
\* uncommitted.
OInv ==
  /\ OnboardingTypes
  /\ \A r \in Resolvers :
       /\ Is(r, "seed") => resolver[r].codes \in {{}, {"100"}, {"100", "400"}}
       /\ Is(r, "commit") => resolver[r].codes = SeedCodes
       /\ resolver[r].pc \notin {"seed", "commit"} => resolver[r].codes = {}
       /\ resolver[r].pc \in {"seed", "commit"} => Owners(PhoneOf[r]) = {} /\ Rivals(r) = {}
  /\ OneWholeBusiness
  /\ AnswersAgree

LEMMA CallIn == ASSUME OnboardingTypes, NEW r \in Resolvers PROVE resolver[r] \in CallRow
  BY DEF OnboardingTypes, CallRow

LEMMA OnboardingInitInv == OnboardingInit => OInv
<1> SUFFICES ASSUME OnboardingInit PROVE OInv
  OBVIOUS
<1>1. DOMAIN businesses = {} /\ DOMAIN charts = {}
  BY DEF OnboardingInit
<1>2. OnboardingTypes
  BY <1>1, BreakAssumption DEF OnboardingInit, OnboardingTypes
<1>3. OneWholeBusiness
  BY <1>1 DEF OneWholeBusiness, Owners
<1>4. AnswersAgree
  BY DEF OnboardingInit, AnswersAgree
<1> QED BY <1>2, <1>3, <1>4 DEF OnboardingInit, OInv, Is

\* A call that moves, holding the accounts a call may hold there, while the committed
\* rows stay.
LEMMA CallMoves ==
  ASSUME OInv, NEW r \in Resolvers, NEW row,
         row \in CallRow,
         resolver' = [resolver EXCEPT ![r] = row],
         UNCHANGED <<businesses, charts>>, breaks' \in 0..MaxBreaks,
         row.pc = "seed" => row.codes \in {{}, {"100"}, {"100", "400"}},
         row.pc = "commit" => row.codes = SeedCodes,
         row.pc \notin {"seed", "commit"} => row.codes = {},
         row.pc \in {"seed", "commit"} => Owners(PhoneOf[r]) = {} /\ Rivals(r) = {},
         row.business # NoBusiness =>
           row.business \in Owners(PhoneOf[r]) /\ (row.created => row.business = r)
  PROVE  OInv'
<1>1. /\ resolver'[r] = row
      /\ \A s \in Resolvers : s # r => resolver'[s] = resolver[s]
  BY DEF OInv, OnboardingTypes
<1>2. \A phone : Owners(phone)' = Owners(phone)
  BY DEF Owners
<1>3. OnboardingTypes'
  BY DEF OInv, OnboardingTypes, CallRow
<1>4. OneWholeBusiness'
  BY <1>2 DEF OInv, OneWholeBusiness
<1>5. AnswersAgree'
  BY <1>1, <1>2 DEF OInv, AnswersAgree
<1>6. ASSUME NEW s \in Resolvers, resolver'[s].pc \in {"seed", "commit"}
      PROVE  Rivals(s)' = {}
  <2>1. ASSUME NEW t \in Resolvers, t # s, PhoneOf[t] = PhoneOf[s],
               resolver'[t].pc \in {"seed", "commit"}
        PROVE  FALSE
    <3>1. CASE t # r /\ s # r
      BY <1>1, <1>6, <2>1, <3>1 DEF OInv, Rivals
    <3>2. CASE s = r
      BY <1>1, <1>6, <2>1, <3>2 DEF Rivals
    <3>3. CASE t = r
      BY <1>1, <1>6, <2>1, <3>3 DEF Rivals
    <3> QED BY <3>1, <3>2, <3>3
  <2> QED BY <2>1 DEF Rivals
<1>7. \A s \in Resolvers :
        /\ Is(s, "seed")' => resolver'[s].codes \in {{}, {"100"}, {"100", "400"}}
        /\ Is(s, "commit")' => resolver'[s].codes = SeedCodes
        /\ resolver'[s].pc \notin {"seed", "commit"} => resolver'[s].codes = {}
        /\ resolver'[s].pc \in {"seed", "commit"} => Owners(PhoneOf[s])' = {}
  BY <1>1, <1>2 DEF OInv, Is
<1> QED BY <1>3, <1>4, <1>5, <1>6, <1>7 DEF OInv

LEMMA ReplyInv ==
  ASSUME OInv, NEW r \in Resolvers, NEW b \in Resolvers \cup {NoBusiness}, Reply(r, b, FALSE),
         b # NoBusiness => b \in Owners(PhoneOf[r]),
         UNCHANGED <<businesses, charts>>, breaks' \in 0..MaxBreaks
  PROVE  OInv'
<1> DEFINE row == [resolver[r] EXCEPT !.pc = "answered", !.codes = {}, !.business = b,
                                      !.created = FALSE]
<1>1. resolver' = [resolver EXCEPT ![r] = row]
  BY DEF Reply
<1>2. /\ row \in CallRow
      /\ row.pc = "answered" /\ row.codes = {} /\ row.business = b /\ row.created = FALSE
  BY CallIn DEF OInv, CallRow
<1> HIDE DEF row
<1> QED BY <1>1, <1>2, CallMoves

LEMMA BreaksKept == ASSUME OInv PROVE breaks \in 0..MaxBreaks
  BY DEF OInv, OnboardingTypes

LEMMA BreaksCounted == ASSUME OInv, Break PROVE breaks' \in 0..MaxBreaks
  BY BreakAssumption DEF OInv, OnboardingTypes, Break

LEMMA OwnersAreCalls ==
  ASSUME OInv, NEW phone PROVE Owners(phone) \subseteq Resolvers
  BY DEF OInv, OnboardingTypes, Owners

LEMMA LookInv == ASSUME OInv, NEW r \in Resolvers, Look(r) PROVE OInv'
<1>1. Is(r, "new") /\ UNCHANGED <<businesses, charts, breaks>>
  BY DEF Look
<1>2. breaks' \in 0..MaxBreaks
  BY <1>1, BreaksKept
<1>3. CASE \E b \in Owners(PhoneOf[r]) : Reply(r, b, FALSE)
  BY <1>1, <1>2, <1>3, OwnersAreCalls, ReplyInv
<1>4. CASE Move(r, "insert")
  <2> DEFINE row == [resolver[r] EXCEPT !.pc = "insert"]
  <2>1. resolver' = [resolver EXCEPT ![r] = row]
    BY <1>4 DEF Move
  <2>2. /\ row \in CallRow
        /\ row.pc = "insert" /\ row.codes = {}
        /\ row.business = resolver[r].business /\ row.created = resolver[r].created
    BY <1>1, CallIn DEF OInv, CallRow, Is
  <2>3. row.business # NoBusiness =>
          row.business \in Owners(PhoneOf[r]) /\ (row.created => row.business = r)
    BY <2>2 DEF OInv, AnswersAgree
  <2> HIDE DEF row
  <2> QED BY <1>1, <1>2, <2>1, <2>2, <2>3, CallMoves
<1> QED BY <1>3, <1>4 DEF Look

LEMMA InsertBusinessInv == ASSUME OInv, NEW r \in Resolvers, InsertBusiness(r) PROVE OInv'
<1> DEFINE label == IF PhoneTaken(r) = {} THEN "seed" ELSE "refetch"
           row == [resolver[r] EXCEPT !.pc = label]
<1>1. /\ Is(r, "insert") /\ (PhoneTaken(r) = {} => Rivals(r) = {})
      /\ resolver' = [resolver EXCEPT ![r] = row] /\ UNCHANGED <<businesses, charts, breaks>>
  BY DEF InsertBusiness, Move
<1>2. /\ row \in CallRow
      /\ row.pc \in {"seed", "refetch"} /\ row.codes = {}
      /\ row.business = resolver[r].business /\ row.created = resolver[r].created
      /\ row.pc = "seed" => Owners(PhoneOf[r]) = {} /\ Rivals(r) = {}
  BY <1>1, CallIn DEF OInv, CallRow, Is, PhoneTaken
<1>3. row.business # NoBusiness =>
        row.business \in Owners(PhoneOf[r]) /\ (row.created => row.business = r)
  BY <1>2 DEF OInv, AnswersAgree
<1>4. breaks' \in 0..MaxBreaks
  BY <1>1, BreaksKept
<1> HIDE DEF row
<1> QED BY <1>1, <1>2, <1>3, <1>4, CallMoves

LEMMA InsertSeedInv == ASSUME OInv, NEW r \in Resolvers, InsertSeed(r) PROVE OInv'
<1> DEFINE codes == resolver[r].codes
           n == Cardinality(codes) + 1
           row == Seeded(resolver[r])
<1>1. /\ Is(r, "seed") /\ resolver' = [resolver EXCEPT ![r] = row]
      /\ UNCHANGED <<businesses, charts, breaks>>
  BY DEF InsertSeed
<1>2. Len(Seeds) = 3 /\ Seeds[1] = "100" /\ Seeds[2] = "400" /\ Seeds[3] = "500"
  BY DEF Seeds
<1>3. codes = {} \/ codes = {"100"} \/ codes = {"100", "400"}
  BY <1>1 DEF OInv
<1>4. \/ n = 1 /\ codes = {}
      \/ n = 2 /\ codes = {"100"}
      \/ n = 3 /\ codes = {"100", "400"}
  <2>1. Cardinality({}) = 0
    BY FS_EmptySet
  <2>2. IsFiniteSet({"100"}) /\ Cardinality({"100"}) = 1
    BY FS_Singleton
  <2>3. Cardinality({"100", "400"}) = 2
    <3>1. {"100", "400"} = {"100"} \cup {"400"} /\ "400" \notin {"100"}
      OBVIOUS
    <3>2. Cardinality({"100"} \cup {"400"}) = 1 + 1
      BY <2>2, <3>1, FS_AddElement
    <3> QED BY <3>1, <3>2
  <2> QED BY <1>3, <2>1, <2>2, <2>3
<1>5. /\ n = 3 => codes \cup {Seeds[n]} = SeedCodes
      /\ n # 3 => codes \cup {Seeds[n]} \in {{"100"}, {"100", "400"}}
  <2>1. CASE n = 1 /\ codes = {}
    BY <1>2, <2>1
  <2>2. CASE n = 2 /\ codes = {"100"}
    BY <1>2, <2>2
  <2>3. CASE n = 3 /\ codes = {"100", "400"}
    BY <1>2, <2>3 DEF SeedCodes
  <2> QED BY <1>4, <2>1, <2>2, <2>3
<1>6. codes \cup {Seeds[n]} \in SUBSET SeedCodes
  BY <1>5 DEF SeedCodes
<1>7. resolver[r] \in CallRow
  BY CallIn DEF OInv
<1>8. /\ row \in CallRow
      /\ row.codes = codes \cup {Seeds[n]}
      /\ row.pc = IF n = 3 THEN "commit" ELSE "seed"
      /\ row.business = resolver[r].business /\ row.created = resolver[r].created
  BY <1>2, <1>6, <1>7 DEF CallRow, Seeded
<1>9. row.business # NoBusiness =>
        row.business \in Owners(PhoneOf[r]) /\ (row.created => row.business = r)
  BY <1>8 DEF OInv, AnswersAgree
<1>10. breaks' \in 0..MaxBreaks
  BY <1>1, BreaksKept
<1>11. Owners(PhoneOf[r]) = {} /\ Rivals(r) = {}
  BY <1>1 DEF OInv, Is
<1> HIDE DEF row, n, codes
<1> QED BY <1>1, <1>5, <1>8, <1>9, <1>10, <1>11, CallMoves

\* The winner of the race becomes the one owner of its number, with its whole chart.
LEMMA PublishInv ==
  ASSUME OInv, NEW r \in Resolvers, Is(r, "commit"), Publish(r),
         NEW row,
         row \in [pc : {"refetch", "answered"}, codes : {{}},
                  business : {NoBusiness, r, resolver[r].business}, created : BOOLEAN],
         row.business = r \/ (row.business = resolver[r].business /\ row.created = resolver[r].created)
           \/ row.business = NoBusiness,
         resolver' = [resolver EXCEPT ![r] = row], breaks' \in 0..MaxBreaks
  PROVE  OInv'
<1>1. /\ resolver'[r] = row
      /\ \A s \in Resolvers : s # r => resolver'[s] = resolver[s]
  BY DEF OInv, OnboardingTypes
<1>2. Owners(PhoneOf[r]) = {} /\ Rivals(r) = {} /\ resolver[r].codes = SeedCodes
  BY DEF OInv, Is
<1>3. r \notin DOMAIN businesses
  BY <1>2 DEF OInv, OnboardingTypes, Owners
<1>4. /\ DOMAIN businesses' = DOMAIN businesses \cup {r} /\ businesses'[r] = PhoneOf[r]
      /\ \A b \in DOMAIN businesses : businesses'[b] = businesses[b]
  BY <1>3 DEF Publish
<1>5. /\ DOMAIN charts' = DOMAIN charts \cup {r} /\ charts'[r] = SeedCodes
      /\ \A b \in DOMAIN charts : charts'[b] = charts[b]
  BY <1>2, <1>3 DEF Publish, OInv, OnboardingTypes
<1>6. /\ Owners(PhoneOf[r])' = {r}
      /\ \A phone : phone # PhoneOf[r] => Owners(phone)' = Owners(phone)
      /\ \A phone : Owners(phone) \subseteq Owners(phone)'
  BY <1>2, <1>4 DEF Owners
<1>7. OnboardingTypes'
  <2>1. resolver[r].business \in Resolvers \cup {NoBusiness}
    BY CallIn DEF OInv, CallRow
  <2>2. row \in CallRow
    BY <2>1 DEF CallRow
  <2>3. resolver' \in [Resolvers -> CallRow]
    BY <2>2 DEF OInv, OnboardingTypes, CallRow
  <2>4. DOMAIN charts' = DOMAIN businesses' /\ DOMAIN businesses' \subseteq Resolvers
    BY <1>4, <1>5 DEF OInv, OnboardingTypes
  <2>5. \A b \in DOMAIN businesses' : businesses'[b] = PhoneOf[b]
    BY <1>4 DEF OInv, OnboardingTypes
  <2> QED BY <2>3, <2>4, <2>5 DEF OnboardingTypes, CallRow
<1>8. OneWholeBusiness'
  <2>1. \A phone \in Phones : \A a, b \in Owners(phone)' : a = b
    BY <1>6 DEF OInv, OneWholeBusiness
  <2>2. \A b \in DOMAIN businesses' : charts'[b] = SeedCodes
    BY <1>4, <1>5 DEF OInv, OneWholeBusiness, OnboardingTypes
  <2> QED BY <2>1, <2>2 DEF OneWholeBusiness
<1>9. AnswersAgree'
  <2>1. ASSUME NEW s \in Resolvers, resolver'[s].business # NoBusiness
        PROVE  /\ resolver'[s].business \in Owners(PhoneOf[s])'
               /\ resolver'[s].created => resolver'[s].business = s
    <3>1. CASE s # r
      BY <1>1, <1>6, <2>1, <3>1 DEF OInv, AnswersAgree
    <3>2. CASE s = r
      BY <1>1, <1>6, <2>1, <3>2 DEF OInv, AnswersAgree
    <3> QED BY <3>1, <3>2
  <2> QED BY <2>1 DEF AnswersAgree
<1>10. ASSUME NEW s \in Resolvers, resolver'[s].pc \in {"seed", "commit"}
       PROVE  Owners(PhoneOf[s])' = {} /\ Rivals(s)' = {}
  <2>1. s # r
    BY <1>1, <1>10
  <2>2. resolver[s].pc \in {"seed", "commit"}
    BY <1>1, <1>10, <2>1
  <2>3. PhoneOf[s] # PhoneOf[r]
    BY <1>2, <2>1, <2>2 DEF Rivals
  <2>4. Owners(PhoneOf[s])' = {}
    BY <1>6, <2>2, <2>3 DEF OInv
  <2>5. Rivals(s)' = {}
    BY <1>1, <2>2, <2>3 DEF OInv, Rivals
  <2> QED BY <2>4, <2>5
<1>11. \A s \in Resolvers :
         /\ Is(s, "seed")' => resolver'[s].codes \in {{}, {"100"}, {"100", "400"}}
         /\ Is(s, "commit")' => resolver'[s].codes = SeedCodes
         /\ resolver'[s].pc \notin {"seed", "commit"} => resolver'[s].codes = {}
  BY <1>1 DEF OInv, Is
<1> QED BY <1>7, <1>8, <1>9, <1>10, <1>11 DEF OInv

LEMMA CommitBusinessInv == ASSUME OInv, NEW r \in Resolvers, CommitBusiness(r) PROVE OInv'
<1> DEFINE row == [resolver[r] EXCEPT !.pc = "answered", !.codes = {}, !.business = r,
                                      !.created = TRUE]
<1>1. /\ Is(r, "commit") /\ Publish(r) /\ breaks' = breaks
      /\ resolver' = [resolver EXCEPT ![r] = row]
  BY DEF CommitBusiness, Reply
<1>2. /\ row \in [pc : {"refetch", "answered"}, codes : {{}},
                  business : {NoBusiness, r, resolver[r].business}, created : BOOLEAN]
      /\ row.business = r
  BY CallIn DEF OInv, CallRow
<1>3. breaks' \in 0..MaxBreaks
  BY <1>1, BreaksKept
<1> HIDE DEF row
<1> QED BY <1>1, <1>2, <1>3, PublishInv

LEMMA CommitAckLostInv == ASSUME OInv, NEW r \in Resolvers, CommitAckLost(r) PROVE OInv'
<1> DEFINE row == [resolver[r] EXCEPT !.pc = "refetch", !.codes = {}]
<1>1. /\ Is(r, "commit") /\ Publish(r) /\ Break
      /\ resolver' = [resolver EXCEPT ![r] = row]
  BY DEF CommitAckLost
<1>2. /\ row \in [pc : {"refetch", "answered"}, codes : {{}},
                  business : {NoBusiness, r, resolver[r].business}, created : BOOLEAN]
      /\ row.business = resolver[r].business /\ row.created = resolver[r].created
  BY CallIn DEF OInv, CallRow
<1>3. breaks' \in 0..MaxBreaks
  BY <1>1, BreaksCounted
<1> HIDE DEF row
<1> QED BY <1>1, <1>2, <1>3, PublishInv

LEMMA RefetchInv == ASSUME OInv, NEW r \in Resolvers, Refetch(r) PROVE OInv'
<1>1. UNCHANGED <<businesses, charts, breaks>> /\ breaks' \in 0..MaxBreaks
  BY BreaksKept DEF Refetch
<1>2. CASE \E b \in Resolvers : Winner(r, b) /\ Reply(r, b, FALSE)
  BY <1>1, <1>2, ReplyInv DEF Winner
<1>3. CASE Reply(r, NoBusiness, FALSE)
  BY <1>1, <1>3, ReplyInv
<1> QED BY <1>2, <1>3 DEF Refetch

LEMMA BreaksInv == ASSUME OInv, NEW r \in Resolvers, Breaks(r) PROVE OInv'
<1> DEFINE row == [resolver[r] EXCEPT !.pc = "refetch", !.codes = {}]
<1>1. /\ Break /\ resolver' = [resolver EXCEPT ![r] = row]
      /\ UNCHANGED <<businesses, charts>>
  BY DEF Breaks
<1>2. /\ row \in CallRow
      /\ row.pc = "refetch" /\ row.codes = {}
      /\ row.business = resolver[r].business /\ row.created = resolver[r].created
  BY CallIn DEF OInv, CallRow
<1>3. row.business # NoBusiness =>
        row.business \in Owners(PhoneOf[r]) /\ (row.created => row.business = r)
  BY <1>2 DEF OInv, AnswersAgree
<1>4. breaks' \in 0..MaxBreaks
  BY <1>1, BreaksCounted
<1> HIDE DEF row
<1> QED BY <1>1, <1>2, <1>3, <1>4, CallMoves

LEMMA GivesUpInv == ASSUME OInv, NEW r \in Resolvers, GivesUp(r) PROVE OInv'
  BY BreaksCounted, ReplyInv DEF GivesUp

LEMMA OnboardingStepInv == OInv /\ [OnboardingNext]_onboardingVars => OInv'
<1> SUFFICES ASSUME OInv, [OnboardingNext]_onboardingVars PROVE OInv'
  OBVIOUS
<1>1. CASE OnboardingNext
  <2>1. PICK r \in Resolvers :
          \/ Look(r) \/ InsertBusiness(r) \/ InsertSeed(r) \/ CommitBusiness(r) \/ Refetch(r)
          \/ Breaks(r) \/ CommitAckLost(r) \/ GivesUp(r)
    BY <1>1 DEF OnboardingNext
  <2> QED
    BY <2>1, LookInv, InsertBusinessInv, InsertSeedInv, CommitBusinessInv, RefetchInv,
       BreaksInv, CommitAckLostInv, GivesUpInv
<1>2. CASE UNCHANGED onboardingVars
  BY <1>2
  DEF onboardingVars, OInv, OnboardingTypes, OneWholeBusiness, AnswersAgree, Owners, Rivals, Is
<1> QED BY <1>1, <1>2

\* Whoever wins the race for a number and whatever fails on the way, a number gets one
\* business, and a business that can be seen has its whole chart of accounts
\* (resolveOrCreateBusiness, UQ_businesses_wa_phone).
THEOREM OnboardingTheorem == OnboardingSpec => []OneWholeBusiness
<1>1. OInv => OneWholeBusiness
  BY DEF OInv
<1> QED
  BY <1>1, OnboardingInitInv, OnboardingStepInv, PTL DEF OnboardingSpec

\* All calls for a number answer with its one committed business, and only the call
\* that created it says so (resolveOrCreateBusiness).
THEOREM AnswersTheorem == OnboardingSpec => []AnswersAgree
<1>1. OInv => AnswersAgree
  BY DEF OInv
<1> QED
  BY <1>1, OnboardingInitInv, OnboardingStepInv, PTL DEF OnboardingSpec

-----------------------------------------------------------------------------
(* Questions.                                                              *)

\* What the code's own resolver may have made of a text that is being answered.
TrueTo(t, r) ==
  /\ r.kind = "NOT_QUERY" => ~IsQueryLike(t)
  /\ r.kind \in {"INCOME_STATEMENT", "ACCOUNT_SPEND", "RECENT_TRANSACTIONS"} =>
       "period" \in DOMAIN r /\ r.period = DetectPeriod(t)
  /\ r.kind = "ACCOUNT_SPEND" =>
       /\ "accountHint" \in DOMAIN r /\ r.accountHint = Or(DetectAccountHint(t), "expenses")
       /\ Has(t, Spend) /\ ~Has(t, Cash)
  /\ r.kind = "RECENT_TRANSACTIONS" =>
       "accountHint" \in DOMAIN r /\ r.accountHint = Or(DetectAccountHint(t), "sales")

\* What an answer says of the text it answers, resolved by the heuristic or not.
TrueAnswer(t, ours, a) ==
  /\ a.kind \in {"spend", "recent"} => a.account \in DOMAIN TypeOf
  /\ a.kind = "spend" => TypeOf[a.account] = "EXPENSE"
  /\ a.kind = "recent" => a.lines \in 1..5
  /\ a.kind \in {"income", "spend", "recent"} /\ ours =>
       a.period \in IF Named(t) = {} THEN {"this month"} ELSE Named(t)
  /\ a.kind \in {"spend", "recent"} /\ ours =>
       /\ TypeOf[a.account] = "ASSET" <=> Has(t, Cash)
       /\ TypeOf[a.account] = "EXPENSE" => Has(t, Spend) /\ ~Has(t, Cash \cup Sales)
       /\ TypeOf[a.account] = "REVENUE" => Has(t, Sales) \/ ~Has(t, Spend)

\* Where a message stands: what it asks is answered, and only what asks nothing is
\* handed on; what the code's own resolver made of it is about what the text names.
QInv ==
  /\ pc \in {"resolve", "answer", "replied"} => IsQueryLike(text)
  /\ pc \in {"resolve", "answer", "parse"} => reply = NOTHING
  /\ pc = "resolve" => asked = NOTHING
  /\ pc = "answer" =>
       /\ asked.kind \in DOMAIN FieldsOf /\ asked.ours \in BOOLEAN
       /\ asked.ours => TrueTo(text, asked)
  /\ reply.kind \in {"income", "spend", "recent"} => pc = "replied"
  /\ QuestionsAnswered

\* The code's own resolver takes no question for something else, and reports on the
\* period and the account that it detects in the text.
LEMMA HeuristicIsTrue ==
  ASSUME NEW t, NEW r \in ResolveHeuristic(t)
  PROVE  TrueTo(t, r)
<1>0. PICK period, hint, default : /\ period = DetectPeriod(t)
                                   /\ hint = Or(DetectAccountHint(t), "sales")
                                   /\ default = Or(DetectAccountHint(t), "expenses")
  OBVIOUS
<1>1. t = {} => ~IsQueryLike(t)
  BY DEF IsQueryLike, Has
<1> DEFINE recent == [kind |-> "RECENT_TRANSACTIONS", accountHint |-> hint, period |-> period]
<1>2. \/ r = [kind |-> "NOT_QUERY"] /\ ~IsQueryLike(t)
      \/ r = [kind |-> "OUT_OF_SCOPE", reason |-> "UNSAFE_INSTRUCTIONS"]
      \/ r = recent
      \/ \E n : r = Plus(recent, "limit", n)
      \/ r = [kind |-> "CASH_BALANCE"]
      \/ /\ r = [kind |-> "ACCOUNT_SPEND", accountHint |-> default, period |-> period]
         /\ Has(t, Spend) /\ ~Has(t, Cash)
      \/ r = [kind |-> "INCOME_STATEMENT", period |-> period]
      \/ r = [kind |-> "CLARIFY", reason |-> "QUERY_TYPE"]
  BY <1>0, <1>1 DEF ResolveHeuristic
<1>3. ASSUME NEW n, r = Plus(recent, "limit", n)
      PROVE  /\ r.kind = "RECENT_TRANSACTIONS" /\ {"period", "accountHint"} \subseteq DOMAIN r
             /\ r.period = period /\ r.accountHint = hint
  BY <1>3 DEF Plus
<1> QED BY <1>0, <1>2, <1>3 DEF TrueTo

LEMMA SixPeriods == DOMAIN PeriodNames = 1..6
BY Z3 DEF PeriodNames

\* The period detected in a text is one that it names, if it names any.
LEMMA PeriodNamed ==
  ASSUME NEW t
  PROVE  DetectPeriod(t) \in IF Named(t) = {} THEN {"this month"} ELSE Named(t)
<1> DEFINE named == {i \in DOMAIN PeriodNames : PeriodNames[i] \in t}
<1>1. \A p : p \in Named(t) <=> \E i \in named : PeriodNames[i] = p
  BY DEF Named, ToSet
<1>2. CASE named = {}
  BY <1>1, <1>2 DEF DetectPeriod
<1>3. CASE named # {}
  <2>1. named \subseteq 1..6
    BY SixPeriods
  <2>2. \E i \in named : \A j \in named : i <= j
    <3> HIDE DEF named
    <3>1. CASE 1 \in named
      BY <2>1, <3>1
    <3>2. CASE 1 \notin named /\ 2 \in named
      BY <2>1, <3>2
    <3>3. CASE {1, 2} \cap named = {} /\ 3 \in named
      BY <2>1, <3>3
    <3>4. CASE {1, 2, 3} \cap named = {} /\ 4 \in named
      BY <2>1, <3>4
    <3>5. CASE {1, 2, 3, 4} \cap named = {} /\ 5 \in named
      BY <2>1, <3>5
    <3>6. CASE {1, 2, 3, 4, 5} \cap named = {}
      <4>1. ASSUME NEW i \in named
            PROVE  i = 6
        <5>1. i \in 1..6 /\ i \notin {1, 2, 3, 4, 5}
          BY <2>1, <3>6, <4>1
        <5> QED BY <5>1
      <4> QED BY <1>3, <4>1
    <3> QED BY <3>1, <3>2, <3>3, <3>4, <3>5, <3>6
  <2>3. PICK i : i = CHOOSE k \in named : \A j \in named : k <= j
    OBVIOUS
  <2>4. i \in named
    BY <2>2, <2>3
  <2>5. DetectPeriod(t) = PeriodNames[i]
    BY <1>3, <2>3 DEF DetectPeriod
  <2> QED BY <1>1, <2>4, <2>5
<1> QED BY <1>2, <1>3

\* The hint that is detected in a text, by the words of the text.
LEMMA HintNamed ==
  ASSUME NEW t, NEW default
  PROVE  Or(DetectAccountHint(t), default) =
           IF Has(t, Cash) THEN "cash" ELSE IF Has(t, Sales) THEN "sales"
           ELSE IF Has(t, Spend) THEN "expenses" ELSE default
<1>1. \A v : Or({v}, default) = v
  BY DEF Or
<1>2. Or({}, default) = default
  BY DEF Or
<1> QED BY <1>1, <1>2 DEF DetectAccountHint

\* The account of a hint for cash, sales or expenses has that type.
LEMMA HintedType ==
  ASSUME NEW hint, NEW c \in AccountsFor(hint)
  PROVE  /\ c \in DOMAIN TypeOf
         /\ hint = "cash" => TypeOf[c] = "ASSET"
         /\ hint = "sales" => TypeOf[c] = "REVENUE"
         /\ hint = "expenses" => TypeOf[c] = "EXPENSE"
BY TypeAssumption DEF AccountsFor, AliasesOf

LEMMA QuestionsStart == QuestionInit => QInv
BY DEF QuestionInit, QInv, QuestionsAnswered, NOTHING

LEMMA ResolveKeeps ==
  ASSUME QInv, Resolve
  PROVE  QInv'
<1>1. pc = "resolve" /\ IsQueryLike(text) /\ reply = NOTHING /\ asked = NOTHING
  BY DEF Resolve, QInv
<1> DEFINE Resolved(ours, r) ==
             /\ ours => r \in ResolveHeuristic(text)
             /\ IF Valid(r) THEN pc' = "answer" /\ asked' = Plus(r, "ours", ours)
                            ELSE pc' = "replied" /\ asked' = asked
             /\ UNCHANGED <<text, reply>>
<1>a. PICK ours \in BOOLEAN : \E r : Resolved(ours, r)
  BY DEF Resolve
<1>2. PICK r : Resolved(ours, r)
  BY <1>a
<1>3. CASE Valid(r)
  <2>1. /\ "kind" \in DOMAIN r /\ r.kind \in DOMAIN FieldsOf
    BY <1>3 DEF Valid
  <2>2. PICK a : a = Plus(r, "ours", ours)
    OBVIOUS
  <2>3. /\ DOMAIN a = DOMAIN r \cup {"ours"} /\ a.ours = ours
        /\ \A f \in DOMAIN r : f # "ours" => a[f] = r[f]
    BY <2>2 DEF Plus
  <2>4. ours => TrueTo(text, r)
    BY <1>2, HeuristicIsTrue
  <2>5. /\ a.kind = r.kind
        /\ "period" \in DOMAIN r => "period" \in DOMAIN a /\ a.period = r.period
        /\ "accountHint" \in DOMAIN r => "accountHint" \in DOMAIN a /\ a.accountHint = r.accountHint
    BY <2>1, <2>3
  <2>6. ours => TrueTo(text, a)
    BY <2>4, <2>5 DEF TrueTo
  <2>7. pc' = "answer" /\ asked' = a /\ text' = text /\ reply' = NOTHING
    BY <1>1, <1>2, <1>3, <2>2
  <2>8. NOTHING.kind = "nothing"
    BY DEF NOTHING
  <2> QED BY <1>1, <2>1, <2>3, <2>5, <2>6, <2>7, <2>8 DEF QInv, QuestionsAnswered
<1>4. CASE ~Valid(r)
  <2>1. pc' = "replied" /\ asked' = asked /\ text' = text /\ reply' = NOTHING
    BY <1>1, <1>2, <1>4
  <2>2. NOTHING.kind = "nothing"
    BY DEF NOTHING
  <2> QED BY <1>1, <2>1, <2>2 DEF QInv, QuestionsAnswered
<1> QED BY <1>3, <1>4

\* Figures of spending: of an expense account, and of a text that asks for it.
LEMMA SpendTrue ==
  ASSUME NEW t, NEW r, r.kind = "ACCOUNT_SPEND", NEW ours \in BOOLEAN, ours => TrueTo(t, r)
  PROVE  TrueAnswer(t, ours, AnswerOf(r))
<1>1. PICK hint, found : hint = Field(r, "accountHint", "expenses") /\ found = AccountsFor(hint)
  OBVIOUS
<1>2. NOTHING.kind = "nothing"
  BY DEF NOTHING
<1>3. CASE \E c \in found : IsExpense(c)
  <2>1. PICK account : account = CHOOSE c \in found : IsExpense(c)
    OBVIOUS
  <2>2. account \in found /\ IsExpense(account)
    BY <1>3, <2>1
  <2>3. account \in DOMAIN TypeOf /\ TypeOf[account] = "EXPENSE" /\ hint # "sales"
    BY <1>1, <2>2, HintedType, TypeAssumption DEF IsExpense
  <2>4. PICK a : a = [kind |-> "spend", account |-> account, period |-> r.period]
    OBVIOUS
  <2>5. AnswerOf(r) = a
    BY <1>1, <1>3, <2>1, <2>4 DEF AnswerOf
  <2>6. a.kind = "spend" /\ a.account = account /\ a.period = r.period
    BY <2>4
  <2>7. ours => /\ r.period \in IF Named(t) = {} THEN {"this month"} ELSE Named(t)
                /\ Has(t, Spend) /\ ~Has(t, Cash) /\ ~Has(t, Sales)
    <3>1. ours => hint = Or(DetectAccountHint(t), "expenses")
      BY <1>1 DEF TrueTo, Field
    <3> QED BY <2>3, <3>1, HintNamed, PeriodNamed DEF TrueTo
  <2>8. ~Has(t, Cash) /\ ~Has(t, Sales) => ~Has(t, Cash \cup Sales)
    BY DEF Has
  <2> QED BY <2>3, <2>5, <2>6, <2>7, <2>8 DEF TrueAnswer
<1>4. CASE ~\E c \in found : IsExpense(c)
  <2>1. AnswerOf(r) = NOTHING
    BY <1>1, <1>4 DEF AnswerOf
  <2> QED BY <1>2, <2>1 DEF TrueAnswer
<1> QED BY <1>3, <1>4

\* A list of recent transactions: of the account that the text has words for.
LEMMA RecentTrue ==
  ASSUME NEW t, NEW r, r.kind = "RECENT_TRANSACTIONS", NEW ours \in BOOLEAN,
         ours => TrueTo(t, r)
  PROVE  TrueAnswer(t, ours, AnswerOf(r))
<1>1. PICK hint, found, n, period :
        /\ hint = Field(r, "accountHint", "sales") /\ found = AccountsFor(hint)
        /\ n = LimitOf(r) /\ period = Field(r, "period", "this month")
  OBVIOUS
<1>2. NOTHING.kind = "nothing"
  BY DEF NOTHING
<1>3. CASE LimitAllowed(n) /\ found # {}
  <2>1. PICK account : account = CHOOSE c \in found : TRUE
    OBVIOUS
  <2>2. account \in found
    BY <1>3, <2>1
  <2>3. /\ account \in DOMAIN TypeOf
        /\ hint = "cash" => TypeOf[account] = "ASSET"
        /\ hint = "sales" => TypeOf[account] = "REVENUE"
        /\ hint = "expenses" => TypeOf[account] = "EXPENSE"
    BY <1>1, <2>2, HintedType
  <2>4. PICK a : a = [kind |-> "recent", account |-> account, lines |-> n, period |-> period]
    OBVIOUS
  <2>5. AnswerOf(r) = a
    BY <1>1, <1>3, <2>1, <2>4 DEF AnswerOf
  <2>6. a.kind = "recent" /\ a.account = account /\ a.lines = n /\ a.period = period
    BY <2>4
  <2>7. n \in 1..5
    BY <1>3 DEF LimitAllowed
  <2>8. ours => /\ period \in IF Named(t) = {} THEN {"this month"} ELSE Named(t)
                /\ hint = Or(DetectAccountHint(t), "sales")
    BY <1>1, PeriodNamed DEF TrueTo, Field
  <2>9. ours => /\ TypeOf[account] = "ASSET" <=> Has(t, Cash)
                /\ TypeOf[account] = "EXPENSE" => Has(t, Spend) /\ ~Has(t, Cash \cup Sales)
                /\ TypeOf[account] = "REVENUE" => Has(t, Sales) \/ ~Has(t, Spend)
    <3>1. Has(t, Cash \cup Sales) => Has(t, Cash) \/ Has(t, Sales)
      BY DEF Has
    <3> QED BY <2>3, <2>8, <3>1, HintNamed
  <2> QED BY <2>3, <2>5, <2>6, <2>7, <2>8, <2>9 DEF TrueAnswer
<1>4. CASE ~(LimitAllowed(n) /\ found # {})
  <2>1. AnswerOf(r) = NOTHING
    BY <1>1, <1>4 DEF AnswerOf
  <2> QED BY <1>2, <2>1 DEF TrueAnswer
<1> QED BY <1>3, <1>4

\* A reply with figures is about what the text asks.
LEMMA AnswersTrue ==
  ASSUME NEW t, NEW r, r.kind \in DOMAIN FieldsOf, r.kind # "NOT_QUERY",
         NEW ours \in BOOLEAN, ours => TrueTo(t, r)
  PROVE  TrueAnswer(t, ours, AnswerOf(r))
<1>1. r.kind \in {"CLARIFY", "OUT_OF_SCOPE", "CASH_BALANCE", "INCOME_STATEMENT", "ACCOUNT_SPEND",
                  "RECENT_TRANSACTIONS"}
  BY DEF FieldsOf
<1>2. CASE r.kind \in {"CLARIFY", "OUT_OF_SCOPE", "CASH_BALANCE"}
  <2>1. AnswerOf(r).kind \in {"nothing", "cash"}
    BY <1>2 DEF AnswerOf, NOTHING
  <2> QED BY <2>1 DEF TrueAnswer
<1>3. CASE r.kind = "INCOME_STATEMENT"
  <2>1. AnswerOf(r).kind = "income" /\ AnswerOf(r).period = r.period
    BY <1>3 DEF AnswerOf
  <2> QED BY <1>3, <2>1, PeriodNamed DEF TrueAnswer, TrueTo
<1> QED BY <1>1, <1>2, <1>3, SpendTrue, RecentTrue

LEMMA AnswerKeeps ==
  ASSUME QInv, AnswerQuestion
  PROVE  QInv'
<1>1. /\ pc = "answer" /\ IsQueryLike(text) /\ reply = NOTHING
      /\ asked.kind \in DOMAIN FieldsOf /\ asked.ours \in BOOLEAN
      /\ asked.ours => TrueTo(text, asked)
  BY DEF AnswerQuestion, QInv
<1>2. NOTHING.kind = "nothing"
  BY DEF NOTHING
<1>3. PICK t, q, a : t = text /\ q = asked /\ a = reply'
  OBVIOUS
<1>4. text' = t /\ asked' = q
  BY <1>3 DEF AnswerQuestion
<1>5. CASE asked.kind = "NOT_QUERY"
  <2>1. pc' = "parse" /\ a = NOTHING /\ ~q.ours
    BY <1>1, <1>3, <1>5 DEF AnswerQuestion, TrueTo
  <2> QED BY <1>2, <1>3, <1>4, <1>5, <2>1 DEF QInv, QuestionsAnswered
<1>6. CASE asked.kind # "NOT_QUERY"
  <2>1. pc' = "replied" /\ (a = NOTHING \/ a = AnswerOf(q))
    BY <1>3, <1>6 DEF AnswerQuestion
  <2>2. TrueAnswer(t, q.ours, a)
    <3>1. CASE a = NOTHING
      BY <1>2, <3>1 DEF TrueAnswer
    <3>2. CASE a = AnswerOf(q)
      BY <1>1, <1>3, <1>6, <3>2, AnswersTrue
    <3> QED BY <2>1, <3>1, <3>2
  <2>3. QuestionsAnswered'
    BY <1>1, <1>3, <1>4, <2>1, <2>2 DEF QuestionsAnswered, TrueAnswer
  <2> QED BY <1>1, <1>3, <1>4, <2>1, <2>3 DEF QInv
<1> QED BY <1>5, <1>6

\* A text that asks is answered and never recorded unless another resolver says that it
\* asks nothing; and what the heuristic had answered is of a period and an account that
\* the text names, or of the defaults, for any texts and whatever another resolver makes of
\* them (ConversationalQueryService.answerProposal, resolveHeuristic).
THEOREM QuestionsAreAnswered == QuestionSpec => []QuestionsAnswered
<1>1. QInv /\ [QuestionNext]_questionVars => QInv'
  <2> SUFFICES ASSUME QInv, [QuestionNext]_questionVars PROVE QInv'
    OBVIOUS
  <2>1. NOTHING.kind = "nothing"
    BY DEF NOTHING
  <2>2. CASE ResolverThrows
    BY <2>1, <2>2 DEF ResolverThrows, QInv, QuestionsAnswered
  <2>3. CASE ReadFails
    BY <2>1, <2>3 DEF ReadFails, QInv, QuestionsAnswered
  <2>4. CASE Parse
    <3>1. Parsed(text) \notin {"income", "spend", "recent"}
      BY DEF Parsed
    <3>2. PICK a : a = reply' /\ a = [kind |-> Parsed(text)]
      BY <2>4 DEF Parse
    <3>3. a.kind \notin {"income", "spend", "recent"}
      BY <3>1, <3>2
    <3>4. pc = "parse" /\ pc' = "parsed" /\ UNCHANGED <<text, asked>>
      BY <2>4 DEF Parse
    <3> QED BY <3>2, <3>3, <3>4 DEF QInv, QuestionsAnswered
  <2>5. CASE UNCHANGED questionVars
    BY <2>5 DEF QInv, QuestionsAnswered, questionVars
  <2> QED BY <2>2, <2>3, <2>4, <2>5, ResolveKeeps, AnswerKeeps DEF QuestionNext
<1>2. QInv => QuestionsAnswered
  BY DEF QInv
<1> QED BY <1>1, <1>2, QuestionsStart, PTL DEF QuestionSpec
=============================================================================
