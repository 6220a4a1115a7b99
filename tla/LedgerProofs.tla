---------------------------- MODULE LedgerProofs ----------------------------
(***************************************************************************)
(* Proofs about Ledger, for every set of calls, requests, tenants, keys    *)
(* and accounts.                                                           *)
(*                                                                         *)
(* IInv is inductive: Start and the steps that only read leave the         *)
(* committed rows alone (QuietStep), Insert and Assemble put one row in    *)
(* flight that clashes with no other (WriteStep), and a commit publishes   *)
(* that row and the mark on its original (Publication), which touches      *)
(* nothing another call has in flight because two reversals of one         *)
(* original would have clashed (OthersKeepStateOverCommit).  The safety    *)
(* properties are conjuncts of IInv, and the refinement of LedgerAbs       *)
(* follows step by step from it.  Booked, inductive beside IInv, and what   *)
(* FiniteSums says of sums give BooksInForce.                              *)
(***************************************************************************)
EXTENDS Ledger, SequenceTheorems, FiniteSums, TLAPS

LEMMA MirrorType ==
  ASSUME NEW es \in Seq(Entry)
  PROVE  Mirror(es) \in Seq(Entry)
<1>1. DOMAIN es = 1..Len(es) /\ Len(es) \in Nat /\ \A i \in 1..Len(es) : es[i] \in Entry
  BY LenProperties, ElementOfSeq
<1>2. \A i \in 1..Len(es) : Mirror(es)[i] \in Entry
  BY <1>1 DEF Mirror, Opposite, Entry, Sides
<1>3. Mirror(es) \in [1..Len(es) -> Entry]
  BY <1>1, <1>2 DEF Mirror
<1> QED BY <1>1, <1>3, SeqDef

LEMMA ValidEntries ==
  ASSUME NEW dto \in PostRequest, ValidPost(dto)
  PROVE  dto.entries \in Seq(Entry)
<1> DEFINE Raw == [accountId : Accounts, type : Sides, amountMinor : Int]
<1>1. dto.entries \in Seq(Raw)
  BY DEF PostRequest
<1> HIDE DEF Raw
<1>2. /\ dto.entries \in [1..Len(dto.entries) -> Raw] /\ Len(dto.entries) \in Nat
      /\ DOMAIN dto.entries = 1..Len(dto.entries)
  BY <1>1, LenProperties
<1>3. \A i \in 1..Len(dto.entries) : dto.entries[i] \in Entry
  BY <1>2, AmountAssumption DEF Raw, ValidPost, Entry, InRange
<1>4. dto.entries \in [1..Len(dto.entries) -> Entry]
  BY <1>2, <1>3
<1> QED BY <1>2, <1>4, SeqDef

LEMMA RequestKinds ==
  ASSUME NEW r \in Requests
  PROVE  /\ r # NULL
         /\ r.op \in {"post", "reverse"}
         /\ r.op = "post" => r \in PostRequest
         /\ r.op = "reverse" => r \in ReversalRequest
  BY RequestAssumption, NullAssumption DEF PostRequest, ReversalRequest

LEMMA NewRowType ==
  ASSUME NEW c \in Calls, req[c] \in Requests, Valid(req[c]),
         req[c].op = "reverse" => seen[c] \in Row
  PROVE  /\ NewRow(c) \in Row
         /\ NewEntries(c) \in Seq(Entry)
         /\ [NewRow(c) EXCEPT !.entries = NewEntries(c), !.status = "POSTED"] \in Row
<1>1. CASE req[c].op = "post"
  <2>1. req[c] \in PostRequest /\ ValidPost(req[c])
    BY <1>1, RequestKinds DEF Valid
  <2>2. NewEntries(c) = req[c].entries /\ NewEntries(c) \in Seq(Entry)
    BY <1>1, <2>1, ValidEntries DEF NewEntries
  <2>3. NewRow(c) = PostRow(req[c]) /\ NewRow(c) \in Row
    BY <1>1, <2>1, EmptySeq DEF NewRow, PostRow, Row, PostRequest, ValidPost, Sources
  <2> QED BY <2>2, <2>3 DEF Row
<1>2. CASE req[c].op = "reverse"
  <2>1. req[c] \in ReversalRequest /\ ValidReversal(req[c]) /\ seen[c] \in Row
    BY <1>2, RequestKinds DEF Valid
  <2>2. seen[c].entries \in Seq(Entry)
    BY <2>1 DEF Row
  <2>3. NewEntries(c) = Mirror(seen[c].entries) /\ NewEntries(c) \in Seq(Entry)
    BY <1>2, <2>2, MirrorType DEF NewEntries
  <2>4. NewRow(c) = ReversalRow(req[c], seen[c])
    BY <1>2 DEF NewRow
  <2>5. ReversalRow(req[c], seen[c]) \in Row
    BY <2>1, EmptySeq DEF ReversalRow, Row, ReversalRequest, ValidReversal, Sources
  <2> QED BY <2>3, <2>4, <2>5 DEF Row
<1> QED BY <1>1, <1>2, RequestKinds

-----------------------------------------------------------------------------
(* One call moves at a time.                                               *)

\* Nothing of call d changes.
Unmoved(d) ==
  /\ pc'[d] = pc[d] /\ req'[d] = req[d] /\ seen'[d] = seen[d]
  /\ writes'[d] = writes[d] /\ reply'[d] = reply[d]

\* Row id is an answer to request r.
Answers(id, r) ==
  /\ id \in DOMAIN table
  /\ SameKey(table[id], r)
  /\ IF r.op = "post" THEN table[id].sourcePayloadHash = r.sourcePayloadHash
                      ELSE table[id].reversalOf = r.originalTransactionId

\* The part of AnswerTruthful that is about call c.
Truthful(c) == reply[c].outcome = "ok" => Answers(reply[c].tx, req[c])

LEMMA OthersKeepState ==
  ASSUME NEW d \in Calls, CallState(d), Truthful(d), Unmoved(d), table' = table
  PROVE  CallState(d)' /\ Truthful(d)'
<1>1. NewRow(d)' = NewRow(d) /\ NewEntries(d)' = NewEntries(d)
  BY DEF Unmoved, NewRow, NewEntries
<1>2. OriginalKnown(d) => OriginalKnown(d)'
  BY DEF Unmoved, OriginalKnown, Original
<1>3. OpenWrites(d)'
  BY <1>1 DEF CallState, Unmoved, OpenWrites, Original
<1>4. Truthful(d)'
  BY DEF Truthful, Answers, Unmoved, SameKey
<1> QED BY <1>2, <1>3, <1>4 DEF CallState, Unmoved, Valid

LEMMA CommittedRowsStable ==
  ASSUME CommittedRows, table' = table
  PROVE  CommittedRows'
<1>1. KeyUnique' BY DEF CommittedRows, KeyUnique, SameKey
<1>2. ReversalPaired' BY DEF CommittedRows, ReversalPaired, ReversalsOf, Undoes
<1> QED BY <1>1, <1>2 DEF CommittedRows, SameOriginal

\* A step that commits nothing and leaves its call with nothing in flight.
LEMMA QuietStep ==
  ASSUME IInv, NEW c \in Calls, table' = table, TypeOK',
         \A d \in Calls \ {c} : Unmoved(d),
         pc'[c] \notin {"assemble", "commit"}, CallState(c)', Truthful(c)'
  PROVE  IInv'
<1>1. \A d \in Calls : CallState(d)' /\ Truthful(d)'
  BY OthersKeepState DEF IInv, AnswerTruthful, Truthful, Answers
<1>2. InFlightUnique'
  BY DEF IInv, InFlightUnique, Unmoved, Clash, SameKey, SameOriginal
<1>3. CommittedRows'
  BY CommittedRowsStable DEF IInv
<1> QED BY <1>1, <1>2, <1>3 DEF IInv, AnswerTruthful, Truthful, Answers

Reply == [outcome : {"none", "ok", "BadRequest", "Conflict", "Error"},
          tx : Calls \cup {NULL}]

LEMMA ReturnStep ==
  ASSUME IInv, NEW c \in Calls, NEW answer \in Reply, Return(c, answer),
         UNCHANGED <<table, seen, fault>>,
         NEW r \in Requests, req' = [req EXCEPT ![c] = r],
         answer.outcome = "ok" => Answers(answer.tx, r)
  PROVE  IInv'
<1> USE DEF Return
<1>1. TypeOK'
  BY DEF IInv, TypeOK, NoWrites, Reply
<1>2. \A d \in Calls \ {c} : Unmoved(d)
  BY DEF IInv, TypeOK, Unmoved
<1>3. pc'[c] = "done" /\ req'[c] = r /\ reply'[c] = answer /\ DOMAIN writes'[c] = {}
  BY DEF IInv, TypeOK, NoWrites
<1>4. CallState(c)'
  BY <1>3 DEF CallState, OpenWrites
<1>5. Truthful(c)'
  BY <1>3 DEF Truthful, Answers, SameKey
<1> QED BY <1>1, <1>2, <1>3, <1>4, <1>5, QuietStep

\* A call that has started serves a request.
LEMMA Served ==
  ASSUME IInv, NEW c \in Calls, pc[c] # "idle"
  PROVE  req[c] \in Requests /\ req = [req EXCEPT ![c] = req[c]]
  BY DEF IInv, TypeOK, CallState

LEMMA RefusalType ==
  ASSUME NEW why \in {"BadRequest", "Conflict", "Error"}
  PROVE  Refusal(why) \in Reply /\ Refusal(why).outcome # "ok"
  BY DEF Refusal, Reply

LEMMA RefuseStep ==
  ASSUME IInv, NEW c \in Calls, pc[c] # "idle",
         NEW why \in {"BadRequest", "Conflict", "Error"}, Return(c, Refusal(why)),
         UNCHANGED <<table, seen, fault, req>>
  PROVE  IInv'
  BY Served, RefusalType, ReturnStep

\* Answering from the row that holds the key.
LEMMA ReconcileStep ==
  ASSUME IInv, NEW c \in Calls, pc[c] # "idle",
         NEW id \in Holders(req[c].businessId, req[c].idempotencyKey),
         \/ req[c].op = "post" /\ Return(c, ReconcilePost(c, id))
         \/ req[c].op = "reverse" /\ Return(c, ReconcileReversal(c, id)),
         UNCHANGED <<table, seen, fault, req>>
  PROVE  IInv'
<1>1. PICK answer \in {Ok(id), Refusal("Conflict")} :
        /\ Return(c, answer)
        /\ answer = Ok(id) => Answers(id, req[c])
  BY DEF ReconcilePost, ReconcileReversal, Holders, Answers, SameKey, Ok, Refusal
<1>2. CASE answer = Ok(id)
  <2>1. id \in Calls
    BY DEF Holders, IInv, TypeOK
  <2>2. answer \in Reply /\ answer.tx = id
    BY <1>2, <2>1 DEF Ok, Reply
  <2> QED BY <1>1, <1>2, <2>2, Served, ReturnStep
<1>3. CASE answer = Refusal("Conflict")
  BY <1>1, <1>3, RefuseStep
<1> QED BY <1>1, <1>2, <1>3

-----------------------------------------------------------------------------
(* The steps that commit nothing.                                          *)

LEMMA StartStep ==
  ASSUME IInv, NEW c \in Calls, Start(c)
  PROVE  IInv'
<1>1. PICK r \in Requests :
        /\ req' = [req EXCEPT ![c] = r]
        /\ IF Valid(r)
           THEN /\ Goto(c, IF r.op = "post" THEN "check" ELSE "find")
                /\ UNCHANGED <<reply, writes>>
           ELSE Return(c, Refusal("BadRequest"))
  BY DEF Start
<1>2. pc[c] = "idle" /\ UNCHANGED <<table, seen, fault>>
  BY DEF Start
<1>3. CASE Valid(r)
  <2>1. TypeOK'
    BY <1>1, <1>2, <1>3 DEF Goto, IInv, TypeOK
  <2>2. \A d \in Calls \ {c} : Unmoved(d)
    BY <1>1, <1>2, <1>3 DEF Goto, IInv, TypeOK, Unmoved
  <2>3. /\ pc'[c] = IF r.op = "post" THEN "check" ELSE "find"
        /\ req'[c] = r /\ writes'[c] = writes[c] /\ reply'[c] = reply[c]
    BY <1>1, <1>2, <1>3 DEF Goto, IInv, TypeOK
  <2>4. c \notin DOMAIN table /\ DOMAIN writes[c] = {} /\ reply[c] = Unanswered
    BY <1>2 DEF IInv, CallState, OpenWrites
  <2>5. CallState(c)'
    BY <1>2, <1>3, <2>3, <2>4, RequestKinds DEF Unanswered, CallState, OpenWrites, Valid
  <2>6. Truthful(c)'
    BY <2>3, <2>4 DEF Truthful, Unanswered
  <2> QED BY <1>2, <2>1, <2>2, <2>3, <2>5, <2>6, QuietStep
<1>4. CASE ~Valid(r)
  BY <1>1, <1>2, <1>4, RefusalType, ReturnStep
<1> QED BY <1>3, <1>4

\* Moving on to the next statement with nothing written.
LEMMA AdvanceStep ==
  ASSUME IInv, NEW c \in Calls, pc[c] \notin {"idle", "assemble", "commit", "done"},
         NEW label \in {"key", "reversed", "insert", "catch"}, Goto(c, label),
         label \in {"key", "reversed"} => req[c].op = "reverse",
         NEW s \in Row \cup {NULL}, seen' = [seen EXCEPT ![c] = s],
         NEW f \in {"none", "key", "reversal"}, fault' = [fault EXCEPT ![c] = f],
         UNCHANGED <<table, writes, req, reply>>,
         req[c].op = "reverse" => OriginalKnown(c)'
  PROVE  IInv'
<1>1. TypeOK'
  BY DEF IInv, TypeOK, Goto
<1>2. \A d \in Calls \ {c} : Unmoved(d)
  BY DEF IInv, TypeOK, Goto, Unmoved
<1>3. pc'[c] = label
  BY DEF IInv, TypeOK, Goto
<1>4. /\ DOMAIN writes[c] = {} /\ reply[c] = Unanswered /\ c \notin DOMAIN table
      /\ req[c] \in Requests /\ Valid(req[c])
  BY DEF IInv, CallState, OpenWrites
<1>5. CallState(c)'
  BY <1>3, <1>4 DEF CallState, OpenWrites, Valid, Unanswered
<1>6. Truthful(c)'
  BY <1>4 DEF Truthful, Unanswered
<1> QED BY <1>1, <1>2, <1>3, <1>5, <1>6, QuietStep

\* seen and fault as AdvanceStep has them, when they do not change.
LEMMA Unread ==
  ASSUME IInv, NEW c \in Calls
  PROVE  /\ seen = [seen EXCEPT ![c] = seen[c]] /\ seen[c] \in Row \cup {NULL}
         /\ fault = [fault EXCEPT ![c] = fault[c]] /\ fault[c] \in {"none", "key", "reversal"}
  BY DEF IInv, TypeOK

LEMMA OriginalStillKnown ==
  ASSUME NEW c \in Calls, OriginalKnown(c), UNCHANGED <<table, seen, req>>
  PROVE  OriginalKnown(c)'
  BY DEF OriginalKnown, Original

LEMMA PostCheckStep ==
  ASSUME IInv, NEW c \in Calls, PostCheck(c)
  PROVE  IInv'
<1> DEFINE holders == Holders(req[c].businessId, req[c].idempotencyKey)
<1>1. pc[c] = "check" /\ req[c].op = "post" /\ UNCHANGED <<table, req, seen, fault>>
  BY DEF PostCheck, IInv, CallState
<1>2. \/ Return(c, Refusal("BadRequest"))
      \/ \E id \in holders : Return(c, ReconcilePost(c, id))
      \/ Goto(c, "insert") /\ UNCHANGED <<reply, writes>>
  BY DEF PostCheck
<1>3. CASE Return(c, Refusal("BadRequest"))
  BY <1>1, <1>3, RefuseStep
<1>4. CASE \E id \in holders : Return(c, ReconcilePost(c, id))
  BY <1>1, <1>4, ReconcileStep
<1>5. CASE Goto(c, "insert") /\ UNCHANGED <<reply, writes>>
  BY <1>1, <1>5, Unread, AdvanceStep
<1> QED BY <1>2, <1>3, <1>4, <1>5

LEMMA FindOriginalStep ==
  ASSUME IInv, NEW c \in Calls, FindOriginal(c)
  PROVE  IInv'
<1> DEFINE o == req[c].originalTransactionId
<1>1. pc[c] = "find" /\ req[c].op = "reverse" /\ UNCHANGED <<table, req, fault>>
  BY DEF FindOriginal, IInv, CallState
<1>2. \/ Return(c, Refusal("BadRequest")) /\ seen' = seen
      \/ Return(c, Refusal("Conflict")) /\ seen' = seen
      \/ /\ o \in DOMAIN table /\ table[o].businessId = req[c].businessId
         /\ table[o].reversalOf = NULL
         /\ seen' = [seen EXCEPT ![c] = table[o]]
         /\ Goto(c, "key")
         /\ UNCHANGED <<reply, writes>>
  BY DEF FindOriginal
<1>3. CASE Return(c, Refusal("BadRequest")) /\ seen' = seen
  BY <1>1, <1>3, RefuseStep
<1>4. CASE Return(c, Refusal("Conflict")) /\ seen' = seen
  BY <1>1, <1>4, RefuseStep
<1>5. CASE /\ o \in DOMAIN table /\ table[o].businessId = req[c].businessId
           /\ table[o].reversalOf = NULL
           /\ seen' = [seen EXCEPT ![c] = table[o]]
           /\ Goto(c, "key")
           /\ UNCHANGED <<reply, writes>>
  <2>1. table[o] \in Row /\ seen'[c] = table[o]
    BY <1>5 DEF IInv, TypeOK
  <2>2. [table[o] EXCEPT !.status = table[o].status] = table[o]
    BY <2>1 DEF Row
  <2>3. OriginalKnown(c)'
    BY <1>1, <1>5, <2>1, <2>2 DEF OriginalKnown, Original
  <2> QED BY <1>1, <1>5, <2>1, <2>3, Unread, AdvanceStep
<1> QED BY <1>2, <1>3, <1>4, <1>5

LEMMA CheckReversalKeyStep ==
  ASSUME IInv, NEW c \in Calls, CheckReversalKey(c)
  PROVE  IInv'
<1> DEFINE holders == Holders(req[c].businessId, req[c].idempotencyKey)
<1>1. pc[c] = "key" /\ req[c].op = "reverse" /\ UNCHANGED <<table, req, seen, fault>>
  BY DEF CheckReversalKey, IInv, CallState
<1>2. OriginalKnown(c) /\ seen[c].businessId = req[c].businessId
  BY <1>1 DEF IInv, CallState, OriginalKnown
<1>3. \/ \E id \in holders : Return(c, ReconcileReversal(c, id))
      \/ Goto(c, "reversed") /\ UNCHANGED <<reply, writes>>
  BY <1>2 DEF CheckReversalKey
<1>4. CASE \E id \in holders : Return(c, ReconcileReversal(c, id))
  BY <1>1, <1>4, ReconcileStep
<1>5. CASE Goto(c, "reversed") /\ UNCHANGED <<reply, writes>>
  BY <1>1, <1>2, <1>5, OriginalStillKnown, Unread, AdvanceStep
<1> QED BY <1>3, <1>4, <1>5

LEMMA CheckNotReversedStep ==
  ASSUME IInv, NEW c \in Calls, CheckNotReversed(c)
  PROVE  IInv'
<1>1. /\ pc[c] = "reversed" /\ req[c].op = "reverse"
      /\ UNCHANGED <<table, req, seen, fault>> /\ OriginalKnown(c)
  BY DEF CheckNotReversed, IInv, CallState
<1>2. CASE Return(c, Refusal("Conflict"))
  BY <1>1, <1>2, RefuseStep
<1>3. CASE Goto(c, "insert") /\ UNCHANGED <<reply, writes>>
  BY <1>1, <1>3, OriginalStillKnown, Unread, AdvanceStep
<1> QED BY <1>2, <1>3 DEF CheckNotReversed

LEMMA InsertRefusedStep ==
  ASSUME IInv, NEW c \in Calls, InsertRefused(c)
  PROVE  IInv'
<1>1. /\ pc[c] = "insert" /\ Goto(c, "catch")
      /\ UNCHANGED <<table, writes, req, seen, reply>>
      /\ req[c].op = "reverse" => OriginalKnown(c)
  BY DEF InsertRefused, IInv, CallState
<1>2. PICK f \in {"key", "reversal"} : fault' = [fault EXCEPT ![c] = f]
  BY DEF InsertRefused
<1> QED BY <1>1, <1>2, OriginalStillKnown, Unread, AdvanceStep

LEMMA CatchStep ==
  ASSUME IInv, NEW c \in Calls,
         CatchPost(c) \/ CatchReversalKey(c) \/ CatchDoubleReversal(c)
  PROVE  IInv'
<1> DEFINE holders == Holders(req[c].businessId, req[c].idempotencyKey)
<1>1. pc[c] = "catch" /\ UNCHANGED <<table, req, seen, fault>>
  BY DEF CatchPost, CatchReversalKey, CatchDoubleReversal
<1>2. CASE CatchPost(c)
  <2>1. \/ Return(c, Refusal("Error"))
        \/ \E id \in holders : req[c].op = "post" /\ Return(c, ReconcilePost(c, id))
    BY <1>2 DEF CatchPost
  <2> QED BY <1>1, <2>1, RefuseStep, ReconcileStep
<1>3. CASE CatchReversalKey(c)
  <2>1. \/ Return(c, Refusal("Error"))
        \/ \E id \in holders : req[c].op = "reverse" /\ Return(c, ReconcileReversal(c, id))
    BY <1>3 DEF CatchReversalKey
  <2> QED BY <1>1, <2>1, RefuseStep, ReconcileStep
<1>4. CASE CatchDoubleReversal(c)
  <2>1. \/ Return(c, Refusal("Conflict"))
        \/ \E id \in DOMAIN table : /\ Return(c, Ok(id))
                                    /\ table[id].reversalOf = req[c].originalTransactionId
                                    /\ SameKey(table[id], req[c])
                                    /\ req[c].op = "reverse"
    BY <1>4 DEF CatchDoubleReversal, ReversalsOf, SameKey
  <2>2. CASE Return(c, Refusal("Conflict"))
    BY <1>1, <2>2, RefuseStep
  <2>3. ASSUME NEW id \in DOMAIN table, Return(c, Ok(id)),
               table[id].reversalOf = req[c].originalTransactionId,
               SameKey(table[id], req[c]), req[c].op = "reverse"
        PROVE  IInv'
    <3>1. Answers(id, req[c])
      BY <2>3 DEF Answers
    <3>2. Ok(id) \in Reply /\ Ok(id).tx = id
      BY DEF Ok, Reply, IInv, TypeOK
    <3> QED BY <1>1, <2>3, <3>1, <3>2, Served, ReturnStep
  <2> QED BY <2>1, <2>2, <2>3
<1> QED BY <1>2, <1>3, <1>4

LEMMA FailStep ==
  ASSUME IInv, NEW c \in Calls, Fail(c)
  PROVE  IInv'
  BY RefuseStep DEF Fail

-----------------------------------------------------------------------------
(* The steps that write without committing.                                *)

LEMMA ClashSymmetric ==
  ASSUME NEW a, NEW b, Clash(a, b)
  PROVE  Clash(b, a)
  BY DEF Clash, SameKey, SameOriginal

\* The row a call has in flight is its own.
LEMMA OwnRowInFlight ==
  ASSUME IInv, NEW d \in Calls, pc[d] \in {"assemble", "commit"}
  PROVE  d \in DOMAIN writes[d]
<1>1. CallState(d) /\ req[d].op \in {"post", "reverse"}
  BY RequestKinds DEF IInv, CallState
<1> QED BY <1>1 DEF CallState, OpenWrites

LEMMA WriteStep ==
  ASSUME IInv, NEW c \in Calls, pc[c] \notin {"idle", "done"},
         UNCHANGED <<table, req, seen, fault, reply>>,
         NEW label \in {"assemble", "commit"}, Goto(c, label),
         NEW w, writes' = [writes EXCEPT ![c] = w],
         DOMAIN w \subseteq Calls, \A i \in DOMAIN w : w[i] \in Row,
         OpenWrites(c)',
         \A i \in DOMAIN table : ~Clash(w[c], table[i]),
         \A d \in Calls \ {c} : pc[d] \in {"assemble", "commit"} => ~Clash(w[c], writes[d][d]),
         req[c].op = "reverse" => OriginalKnown(c)
  PROVE  IInv'
<1>1. TypeOK'
  BY DEF IInv, TypeOK, Goto
<1>2. \A d \in Calls \ {c} : Unmoved(d)
  BY DEF IInv, TypeOK, Goto, Unmoved
<1>3. pc'[c] = label /\ writes'[c] = w
  BY DEF IInv, TypeOK, Goto
<1>4. CallState(c)'
  BY <1>3, OriginalStillKnown DEF IInv, CallState, Valid, Unanswered
<1>5. \A d \in Calls : CallState(d)' /\ Truthful(d)'
  <2>1. Truthful(c)'
    BY DEF IInv, AnswerTruthful, Truthful, Answers, SameKey
  <2> QED BY <1>2, <1>4, <2>1, OthersKeepState DEF IInv, AnswerTruthful, Truthful, Answers
<1>6. InFlightUnique'
  <2>1. ASSUME NEW d \in Calls, pc'[d] \in {"assemble", "commit"}
        PROVE  /\ \A i \in DOMAIN table : ~Clash(writes'[d][d], table[i])
               /\ \A e \in Calls \ {d} : pc'[e] \in {"assemble", "commit"} =>
                    ~Clash(writes'[d][d], writes'[e][e])
    <3>1. CASE d = c
      BY <1>2, <1>3, <3>1 DEF Unmoved
    <3>2. CASE d # c
      BY <1>2, <1>3, <2>1, <3>2, ClashSymmetric DEF Unmoved, IInv, InFlightUnique
    <3> QED BY <3>1, <3>2
  <2> QED BY <2>1 DEF InFlightUnique, Clash, SameKey, SameOriginal
<1>7. CommittedRows'
  BY CommittedRowsStable DEF IInv
<1> QED BY <1>1, <1>5, <1>6, <1>7 DEF IInv, AnswerTruthful, Truthful, Answers

LEMMA InsertStep ==
  ASSUME IInv, NEW c \in Calls, Insert(c)
  PROVE  IInv'
<1> DEFINE w == [i \in {c} |-> NewRow(c)]
<1>1. /\ pc[c] = "insert" /\ Goto(c, "assemble")
      /\ UNCHANGED <<table, req, seen, fault, reply>>
      /\ writes' = [writes EXCEPT ![c] = w]
      /\ ~InFlightClash(c, NewRow(c))
      /\ \A i \in DOMAIN table : ~Clash(NewRow(c), table[i])
  BY DEF Insert, Clash
<1>2. req[c].op = "reverse" => OriginalKnown(c)
  BY <1>1 DEF IInv, CallState
<1>3. w[c] = NewRow(c) /\ w[c] \in Row
  BY <1>1, <1>2, NewRowType DEF IInv, CallState, OriginalKnown
<1>4. \A d \in Calls \ {c} : pc[d] \in {"assemble", "commit"} => ~Clash(w[c], writes[d][d])
  BY <1>1, <1>3, OwnRowInFlight DEF InFlightClash, Clash
<1>5. pc'[c] = "assemble" /\ writes'[c] = w /\ NewRow(c)' = NewRow(c)
  BY <1>1 DEF Goto, IInv, TypeOK, NewRow
<1>6. OpenWrites(c)'
  BY <1>3, <1>5 DEF OpenWrites
<1> QED BY <1>1, <1>2, <1>3, <1>4, <1>6, WriteStep

LEMMA AssembleStep ==
  ASSUME IInv, NEW c \in Calls, AssemblePost(c) \/ AssembleReversal(c)
  PROVE  IInv'
<1> DEFINE o == Original(c)
           sealed == [NewRow(c) EXCEPT !.entries = NewEntries(c), !.status = "POSTED"]
           marked == [table[o] EXCEPT !.status = "REVERSED"]
<1>1. /\ pc[c] = "assemble" /\ Goto(c, "commit")
      /\ UNCHANGED <<table, req, seen, fault, reply>>
  BY DEF AssemblePost, AssembleReversal
<1>2. /\ writes[c][c] = NewRow(c) /\ req[c] \in Requests /\ Valid(req[c])
      /\ req[c].op = "reverse" => OriginalKnown(c)
  BY <1>1 DEF IInv, CallState, OpenWrites
<1>3. Sealed(c) = sealed /\ NewRow(c) \in Row /\ sealed \in Row
  BY <1>2, NewRowType DEF Sealed, OriginalKnown
<1>4. /\ sealed.businessId = NewRow(c).businessId
      /\ sealed.idempotencyKey = NewRow(c).idempotencyKey
      /\ sealed.reversalOf = NewRow(c).reversalOf
  BY <1>3 DEF Row
<1> DEFINE Fits(w) ==
             /\ w[c] = sealed
             /\ DOMAIN w \subseteq Calls /\ \A i \in DOMAIN w : w[i] \in Row
             /\ req[c].op = "post" => DOMAIN w = {c}
             /\ req[c].op = "reverse" => /\ DOMAIN w = {c, o}
                                         /\ table[o].status = "POSTED"
                                         /\ w[o] = marked
<1>5. PICK w : writes' = [writes EXCEPT ![c] = w] /\ Fits(w)
  <2>1. CASE AssemblePost(c)
    <3> DEFINE v == [i \in {c} |-> sealed]
    <3>1. req[c].op = "post" /\ writes' = [writes EXCEPT ![c] = v]
      BY <1>3, <2>1 DEF AssemblePost
    <3>2. Fits(v)
      BY <1>3, <3>1
    <3> QED BY <3>1, <3>2
  <2>2. CASE AssembleReversal(c)
    <3> DEFINE v == [i \in {c, o} |-> IF i = c THEN sealed ELSE marked]
    <3>1. /\ req[c].op = "reverse" /\ table[o].status = "POSTED"
          /\ writes' = [writes EXCEPT ![c] = v]
      BY <1>3, <2>2 DEF AssembleReversal, Original
    <3>2. o \in DOMAIN table /\ o # c /\ o \in Calls /\ marked \in Row
      BY <1>1, <1>2, <3>1 DEF OriginalKnown, IInv, TypeOK, CallState, Row
    <3> HIDE DEF sealed, marked, o
    <3>3. DOMAIN v = {c, o} /\ v[c] = sealed /\ v[o] = marked
      BY <3>2
    <3>4. Fits(v)
      BY <1>3, <3>1, <3>2, <3>3 DEF sealed
    <3> QED BY <3>1, <3>4
  <2> QED BY <2>1, <2>2
<1>6. /\ \A i \in DOMAIN table : ~Clash(w[c], table[i])
      /\ \A d \in Calls \ {c} : pc[d] \in {"assemble", "commit"} => ~Clash(w[c], writes[d][d])
  BY <1>1, <1>2, <1>4, <1>5 DEF IInv, InFlightUnique, Clash, SameKey, SameOriginal
<1>7. pc'[c] = "commit" /\ writes'[c] = w /\ NewRow(c)' = NewRow(c) /\ NewEntries(c)' = NewEntries(c)
  BY <1>1, <1>5 DEF Goto, IInv, TypeOK, NewRow, NewEntries
<1>8. OpenWrites(c)'
  BY <1>1, <1>5, <1>7 DEF OpenWrites, Original
<1> QED BY <1>1, <1>2, <1>5, <1>6, <1>8, WriteStep

-----------------------------------------------------------------------------
(* Commit.                                                                 *)

\* The row of a commit, and what its publication does to the committed rows.
Committed(c) == writes[c][c]

Published(c) ==
  /\ DOMAIN table' = DOMAIN table \cup {c}
  /\ table'[c] = Committed(c)
  /\ \A i \in DOMAIN table :
       /\ table'[i].businessId = table[i].businessId
       /\ table'[i].idempotencyKey = table[i].idempotencyKey
       /\ table'[i].reversalOf = table[i].reversalOf
       /\ table'[i].sourcePayloadHash = table[i].sourcePayloadHash
       /\ table'[i].entries = table[i].entries
  /\ \A i \in DOMAIN table :
       \/ table'[i] = table[i]
       \/ /\ req[c].op = "reverse" /\ i = Original(c)
          /\ table'[i] = [table[i] EXCEPT !.status = "REVERSED"]
  /\ req[c].op = "reverse" => table'[Original(c)].status = "REVERSED"

\* What the inductive invariant says of a row about to be committed.
LEMMA RowToCommit ==
  ASSUME IInv, NEW c \in Calls, pc[c] = "commit"
  PROVE  /\ c \notin DOMAIN table /\ Committed(c) \in Row
         /\ Committed(c).status = "POSTED"
         /\ SameKey(Committed(c), req[c])
         /\ req[c].op \in {"post", "reverse"}
         /\ req[c].op = "post" => /\ Committed(c).reversalOf = NULL
                                  /\ Committed(c).sourcePayloadHash = req[c].sourcePayloadHash
         /\ req[c].op = "reverse" =>
              /\ Committed(c).reversalOf = Original(c)
              /\ Original(c) \in DOMAIN table
              /\ table[Original(c)].status = "POSTED"
              /\ table[Original(c)].reversalOf = NULL
              /\ Committed(c).businessId = table[Original(c)].businessId
              /\ Committed(c).entries = Mirror(table[Original(c)].entries)
<1>1. /\ req[c] \in Requests /\ Valid(req[c]) /\ c \notin DOMAIN table
      /\ req[c].op = "reverse" => OriginalKnown(c)
      /\ Committed(c) = [NewRow(c) EXCEPT !.entries = NewEntries(c), !.status = "POSTED"]
      /\ req[c].op = "reverse" => table[Original(c)].status = "POSTED"
  BY DEF IInv, CallState, OpenWrites, Committed
<1>2. NewRow(c) \in Row /\ Committed(c) \in Row
  BY <1>1, NewRowType DEF OriginalKnown
<1>3. /\ Committed(c).businessId = NewRow(c).businessId
      /\ Committed(c).idempotencyKey = NewRow(c).idempotencyKey
      /\ Committed(c).reversalOf = NewRow(c).reversalOf
      /\ Committed(c).sourcePayloadHash = NewRow(c).sourcePayloadHash
      /\ Committed(c).entries = NewEntries(c) /\ Committed(c).status = "POSTED"
  BY <1>1, <1>2 DEF Row
<1>4. req[c].op \in {"post", "reverse"}
  BY <1>1, RequestKinds
<1>5. CASE req[c].op = "post"
  BY <1>1, <1>2, <1>3, <1>5 DEF NewRow, PostRow, SameKey
<1>6. CASE req[c].op = "reverse"
  <2>1. /\ OriginalKnown(c) /\ Original(c) \in DOMAIN table /\ table[Original(c)] \in Row
        /\ seen[c] \in Row
    BY <1>1, <1>6 DEF OriginalKnown, IInv, TypeOK
  <2>2. /\ table[Original(c)].businessId = seen[c].businessId
        /\ table[Original(c)].reversalOf = NULL
        /\ table[Original(c)].entries = seen[c].entries
        /\ seen[c].businessId = req[c].businessId
    BY <2>1 DEF OriginalKnown, Row
  <2> QED BY <1>1, <1>2, <1>3, <1>6, <2>1, <2>2
           DEF NewRow, NewEntries, ReversalRow, SameKey, Original
<1> QED BY <1>4, <1>5, <1>6

LEMMA Publication ==
  ASSUME IInv, NEW c \in Calls, pc[c] = "commit", table' = Overlay(writes[c])
  PROVE  Published(c)
<1> DEFINE o == Original(c)
           marked == [table[o] EXCEPT !.status = "REVERSED"]
<1>1. /\ c \notin DOMAIN table /\ req[c].op \in {"post", "reverse"}
      /\ req[c].op = "reverse" => o \in DOMAIN table
  BY RowToCommit
<1>2. /\ req[c].op = "post" => DOMAIN writes[c] = {c}
      /\ req[c].op = "reverse" => DOMAIN writes[c] = {c, o} /\ writes[c][o] = marked
  BY DEF IInv, CallState, OpenWrites
<1>3. \A i \in DOMAIN table : table[i] \in Row
  BY DEF IInv, TypeOK
<1>4. \A i \in DOMAIN table : [table[i] EXCEPT !.status = "REVERSED"] \in Row
  BY <1>3 DEF Row
<1>5. /\ DOMAIN table' = DOMAIN table \cup {c} /\ table'[c] = Committed(c)
      /\ \A i \in DOMAIN table :
           table'[i] = IF req[c].op = "reverse" /\ i = o
                       THEN [table[i] EXCEPT !.status = "REVERSED"] ELSE table[i]
  <2>1. CASE req[c].op = "post"
    BY <1>1, <1>2, <2>1 DEF Overlay, Committed
  <2>2. CASE req[c].op = "reverse"
    <3> HIDE DEF o
    <3> QED BY <1>1, <1>2, <2>2 DEF Overlay, Committed
  <2> QED BY <1>1, <2>1, <2>2
<1>6. req[c].op = "reverse" => table'[o].status = "REVERSED"
  BY <1>1, <1>3, <1>5 DEF Row
<1>7. \A i \in DOMAIN table :
        /\ table'[i].businessId = table[i].businessId
        /\ table'[i].idempotencyKey = table[i].idempotencyKey
        /\ table'[i].reversalOf = table[i].reversalOf
        /\ table'[i].sourcePayloadHash = table[i].sourcePayloadHash
        /\ table'[i].entries = table[i].entries
  BY <1>3, <1>5 DEF Row
<1> QED BY <1>1, <1>5, <1>6, <1>7 DEF Published

\* A commit moves no other call: a second reversal of the same original would
\* have clashed with this one when it was inserted.
LEMMA OthersKeepStateOverCommit ==
  ASSUME IInv, NEW c \in Calls, pc[c] = "commit", Published(c),
         NEW d \in Calls \ {c}, Unmoved(d)
  PROVE  CallState(d)' /\ Truthful(d)'
<1>1. NewRow(d)' = NewRow(d) /\ NewEntries(d)' = NewEntries(d)
  BY DEF Unmoved, NewRow, NewEntries
<1>2. CallState(d) /\ c \notin DOMAIN table
  BY RowToCommit DEF IInv
<1>3. ASSUME OriginalKnown(d)
      PROVE  OriginalKnown(d)'
  <2>1. Original(d) \in DOMAIN table /\ table[Original(d)] \in Row /\ Original(d)' = Original(d)
    BY <1>3 DEF OriginalKnown, IInv, TypeOK, Original, Unmoved
  <2>2. [table'[Original(d)] EXCEPT !.status = seen[d].status]
          = [table[Original(d)] EXCEPT !.status = seen[d].status]
    BY <2>1 DEF Published, Row
  <2> QED BY <1>3, <2>1, <2>2 DEF OriginalKnown, Published, Unmoved
<1>4. OpenWrites(d)'
  <2>1. pc[d] # "commit" \/ req[d].op = "post" => OpenWrites(d)'
    BY <1>1, <1>2 DEF CallState, OpenWrites, Unmoved, Original
  <2>2. ASSUME pc[d] = "commit", req[d].op = "reverse"
        PROVE  table'[Original(d)] = table[Original(d)]
    <3>1. /\ Committed(d).reversalOf = Original(d) /\ Original(d) \in DOMAIN table
          /\ Original(d) \in Calls
      BY <2>2, RowToCommit DEF IInv, TypeOK
    <3>2. ~SameOriginal(Committed(c), Committed(d))
      BY <2>2 DEF IInv, InFlightUnique, Clash, Committed
    <3>3. req[c].op = "reverse" => Original(c) # Original(d)
      BY <3>1, <3>2, RowToCommit, NullAssumption DEF SameOriginal
    <3> QED BY <3>1, <3>3 DEF Published
  <2>3. req[d].op = "reverse" /\ pc[d] = "commit" => OpenWrites(d)'
    BY <1>1, <1>2, <2>2 DEF CallState, OpenWrites, Unmoved, Original
  <2>4. pc[d] = "commit" => req[d].op \in {"post", "reverse"}
    BY RowToCommit
  <2> QED BY <2>1, <2>3, <2>4
<1>5. Truthful(d)'
  BY DEF IInv, AnswerTruthful, Truthful, Answers, Unmoved, SameKey, Published
<1> QED BY <1>2, <1>3, <1>4, <1>5 DEF CallState, Unmoved, Valid, Published

LEMMA CommittedRowsGrow ==
  ASSUME IInv, NEW c \in Calls, pc[c] = "commit", Published(c)
  PROVE  CommittedRows'
<1> DEFINE o == Original(c)
           w == Committed(c)
<1>1. /\ c \notin DOMAIN table /\ w.status = "POSTED"
      /\ req[c].op \in {"post", "reverse"}
      /\ req[c].op = "post" => w.reversalOf = NULL
      /\ req[c].op = "reverse" =>
           /\ w.reversalOf = o /\ o \in DOMAIN table
           /\ table[o].status = "POSTED" /\ table[o].reversalOf = NULL
           /\ w.businessId = table[o].businessId
           /\ w.entries = Mirror(table[o].entries)
  BY RowToCommit
<1>2. \A i \in DOMAIN table : ~Clash(w, table[i])
  BY DEF IInv, InFlightUnique, Committed
<1>3. c # NULL /\ DOMAIN table \subseteq Calls /\ \A i \in DOMAIN table : table[i] \in Row
  BY NullAssumption DEF IInv, TypeOK
<1> HIDE DEF w, o
<1>p. /\ DOMAIN table' = DOMAIN table \cup {c}
      /\ table'[c] = w
      /\ \A i \in DOMAIN table :
           /\ table'[i].businessId = table[i].businessId
           /\ table'[i].idempotencyKey = table[i].idempotencyKey
           /\ table'[i].reversalOf = table[i].reversalOf
           /\ table'[i].entries = table[i].entries
      /\ \A i \in DOMAIN table :
           \/ table'[i] = table[i]
           \/ /\ req[c].op = "reverse" /\ i = o
              /\ table'[i] = [table[i] EXCEPT !.status = "REVERSED"]
      /\ req[c].op = "reverse" => table'[o].status = "REVERSED"
  BY DEF Published, w, o
<1>4. KeyUnique'
  BY <1>2, <1>p DEF KeyUnique, IInv, CommittedRows, Clash, SameKey
<1>5. (\A i, j \in DOMAIN table : SameOriginal(table[i], table[j]) => i = j)'
  BY <1>2, <1>p DEF IInv, CommittedRows, Clash, SameOriginal
<1>6. (\A i \in DOMAIN table : /\ table[i].status # "POSTING"
                               /\ table[i].reversalOf # NULL => table[i].reversalOf \in DOMAIN table)'
  BY <1>1, <1>p DEF IInv, CommittedRows
<1>7. ReversalPaired'
  <2> SUFFICES ASSUME NEW i \in DOMAIN table'
               PROVE  /\ table'[i].status = "REVERSED" <=> ReversalsOf(i)' # {}
                      /\ \A r, q \in ReversalsOf(i)' : r = q
                      /\ \A r \in ReversalsOf(i)' : /\ Undoes(table'[r], table'[i])
                                                    /\ table'[i].reversalOf = NULL
    BY DEF ReversalPaired
  <2>1. ReversalsOf(i)' = {j \in DOMAIN table' : table'[j].reversalOf = i}
    BY DEF ReversalsOf
  <2>2. CASE i = c
    <3>1. \A j \in DOMAIN table' : table'[j].reversalOf # c
      BY <1>1, <1>3, <1>p DEF IInv, CommittedRows
    <3> QED BY <1>1, <1>p, <2>1, <2>2, <3>1
  <2>3. CASE req[c].op = "reverse" /\ i = o
    <3>1. ReversalsOf(o) = {}
      BY <1>1, <2>3 DEF IInv, CommittedRows, ReversalPaired
    <3>2. ReversalsOf(i)' = {c}
      BY <1>1, <1>p, <2>1, <2>3, <3>1 DEF ReversalsOf
    <3>3. table[o].entries \in Seq(Entry)
      BY <1>1, <1>3, <2>3 DEF Row
    <3>4. \A k \in DOMAIN table[o].entries : table[o].entries[k] \in Entry
      BY <3>3, LenProperties, ElementOfSeq
    <3>5. DOMAIN w.entries = DOMAIN table[o].entries
      BY <1>1, <2>3 DEF Mirror
    <3>6. \A k \in DOMAIN table[o].entries :
            /\ w.entries[k].accountId = table[o].entries[k].accountId
            /\ w.entries[k].amountMinor = table[o].entries[k].amountMinor
            /\ w.entries[k].type # table[o].entries[k].type
      BY <1>1, <2>3, <3>4 DEF Mirror, Opposite, Entry, Sides
    <3>7. Undoes(table'[c], table'[o])
      BY <1>1, <1>p, <2>3, <3>5, <3>6 DEF Undoes
    <3> QED BY <1>1, <1>p, <2>3, <3>2, <3>7
  <2>4. CASE i # c /\ ~(req[c].op = "reverse" /\ i = o)
    <3>1. i \in DOMAIN table /\ table'[i] = table[i] /\ w.reversalOf # i
      BY <1>1, <1>3, <1>p, <2>4, NullAssumption
    <3>2. ReversalsOf(i)' = ReversalsOf(i)
      BY <1>p, <2>1, <3>1 DEF ReversalsOf
    <3>3. \A r \in ReversalsOf(i) : table'[r] = table[r]
      BY <1>1, <1>3, <1>p, <3>1, NullAssumption DEF ReversalsOf
    <3> QED BY <3>1, <3>2, <3>3 DEF IInv, CommittedRows, ReversalPaired
  <2> QED BY <2>2, <2>3, <2>4
<1> QED BY <1>4, <1>5, <1>6, <1>7 DEF CommittedRows

LEMMA CommitStep ==
  ASSUME IInv, NEW c \in Calls, Commit(c) \/ CommitUnacknowledged(c)
  PROVE  IInv'
<1>1. PICK answer \in {Ok(c), Refusal("Error")} : Return(c, answer)
  BY DEF Commit, CommitUnacknowledged
<1>2. pc[c] = "commit" /\ table' = Overlay(writes[c]) /\ UNCHANGED <<req, seen, fault>>
  BY DEF Commit, CommitUnacknowledged, Publish
<1>3. Published(c)
  BY <1>2, Publication
<1>4. answer \in Reply /\ (answer.outcome = "ok" => answer.tx = c)
  BY <1>1 DEF Ok, Refusal, Reply
<1>5. \A i \in DOMAIN table' : table'[i] \in Row
  <2>1. \A i \in DOMAIN table : table[i] \in Row
    BY DEF IInv, TypeOK
  <2>2. \A i \in DOMAIN table : [table[i] EXCEPT !.status = "REVERSED"] \in Row
    BY <2>1 DEF Row
  <2>3. \A i \in DOMAIN table : table'[i] \in Row
    BY <1>3, <2>1, <2>2 DEF Published
  <2>4. table'[c] \in Row /\ DOMAIN table' = DOMAIN table \cup {c}
    BY <1>2, <1>3, RowToCommit DEF Published
  <2> QED BY <2>3, <2>4
<1>6. TypeOK'
  BY <1>1, <1>2, <1>3, <1>4, <1>5 DEF Return, Published, IInv, TypeOK, NoWrites, Reply
<1>7. \A d \in Calls \ {c} : Unmoved(d)
  BY <1>1, <1>2 DEF Return, IInv, TypeOK, Unmoved
<1>8. pc'[c] = "done" /\ DOMAIN writes'[c] = {} /\ reply'[c] = answer
  BY <1>1 DEF Return, IInv, TypeOK, NoWrites
<1>9. CallState(c)'
  BY <1>2, <1>8 DEF CallState, OpenWrites, IInv
<1>10. Truthful(c)'
  BY <1>2, <1>3, <1>4, <1>8, RowToCommit DEF Truthful, Answers, Published, SameKey, Original
<1>11. \A d \in Calls : CallState(d)' /\ Truthful(d)'
  BY <1>2, <1>3, <1>7, <1>9, <1>10, OthersKeepStateOverCommit
<1>12. InFlightUnique'
  <2> SUFFICES ASSUME NEW d \in Calls, pc'[d] \in {"assemble", "commit"}
               PROVE  /\ \A i \in DOMAIN table' : ~Clash(writes'[d][d], table'[i])
                      /\ \A e \in Calls \ {d} : pc'[e] \in {"assemble", "commit"} =>
                           ~Clash(writes'[d][d], writes'[e][e])
    BY DEF InFlightUnique, Clash, SameKey, SameOriginal
  <2>1. d # c /\ pc[d] = pc'[d] /\ writes'[d] = writes[d]
    BY <1>7, <1>8 DEF Unmoved
  <2>2. ~Clash(writes[d][d], Committed(c))
    BY <1>2, <2>1 DEF IInv, InFlightUnique, Committed
  <2>3. \A i \in DOMAIN table : ~Clash(writes[d][d], table'[i])
    BY <1>3, <2>1 DEF IInv, InFlightUnique, Published, Clash, SameKey, SameOriginal
  <2>4. \A e \in Calls \ {d} : pc'[e] \in {"assemble", "commit"} =>
           ~Clash(writes'[d][d], writes'[e][e])
    BY <1>7, <1>8, <2>1 DEF IInv, InFlightUnique, Unmoved
  <2> QED BY <1>3, <2>1, <2>2, <2>3, <2>4 DEF Published
<1>13. CommittedRows'
  BY <1>2, <1>3, CommittedRowsGrow
<1> QED BY <1>6, <1>11, <1>12, <1>13 DEF IInv, AnswerTruthful, Truthful, Answers

-----------------------------------------------------------------------------
(* The theorems.                                                           *)

LEMMA InitIInv ==
  ASSUME Init
  PROVE  IInv
<1>1. DOMAIN NoWrites = {}
  BY DEF NoWrites
<1>2. TypeOK
  BY <1>1 DEF Init, TypeOK, Unanswered
<1>3. \A c \in Calls : CallState(c)
  BY <1>1 DEF Init, CallState, OpenWrites, Unanswered
<1>4. CommittedRows
  BY <1>1 DEF Init, CommittedRows, KeyUnique, ReversalPaired
<1> QED BY <1>2, <1>3, <1>4 DEF Init, IInv, InFlightUnique, AnswerTruthful, Unanswered

LEMMA NextIInv ==
  ASSUME IInv, [Next]_vars
  PROVE  IInv'
<1>1. CASE UNCHANGED vars
  <2>1. \A d \in Calls : CallState(d)' /\ Truthful(d)'
    BY <1>1, OthersKeepState DEF vars, Unmoved, IInv, AnswerTruthful, Truthful, Answers
  <2>2. CommittedRows'
    BY <1>1, CommittedRowsStable DEF vars, IInv
  <2>3. TypeOK' /\ InFlightUnique'
    BY <1>1 DEF vars, IInv, TypeOK, InFlightUnique, Clash, SameKey, SameOriginal
  <2> QED BY <2>1, <2>2, <2>3 DEF IInv, AnswerTruthful, Truthful, Answers
<1>2. ASSUME NEW c \in Calls, Start(c) \/ Step(c) \/ CommitUnacknowledged(c) \/ Fail(c)
      PROVE  IInv'
  BY <1>2, StartStep, PostCheckStep, FindOriginalStep, CheckReversalKeyStep,
     CheckNotReversedStep, InsertStep, InsertRefusedStep, AssembleStep, CommitStep,
     CatchStep, FailStep DEF Step
<1> QED BY <1>1, <1>2 DEF Next

\* What the open transactions and the committed table hold at every statement of
\* every call: rows in flight clash with no other row, an original read earlier is
\* still as it was but for its status (postTransaction, reverseTransaction).
THEOREM InductiveInvariant == Spec => []IInv
  BY InitIInv, NextIInv, PTL DEF Spec

\* Whatever the calls, keys, accounts and interleavings, every row - committed or
\* in flight - is well typed, its amounts within the range of the column
\* (validateCreateTransaction, reverseTransaction).
THEOREM TypeCorrect == Spec => []TypeOK
<1>1. IInv => TypeOK BY DEF IInv
<1> QED BY <1>1, InductiveInvariant, PTL

\* A business never holds two committed transactions under one idempotency key
\* (UQ_transactions_business_idempotency and the catch blocks around it).
THEOREM OneTransactionPerKey == Spec => []KeyUnique
<1>1. IInv => KeyUnique BY DEF IInv, CommittedRows
<1> QED BY <1>1, InductiveInvariant, PTL

\* A transaction is REVERSED exactly when one committed reversal undoes it, entry
\* by entry, and a reversal is never reversed - although reverseTransaction builds
\* the reversal from a copy of the original whose status may be out of date.
THEOREM ReversalsArePaired == Spec => []ReversalPaired
<1>1. IInv => ReversalPaired BY DEF IInv, CommittedRows
<1> QED BY <1>1, InductiveInvariant, PTL

\* A successful answer names a committed row with the request's business, key and
\* payload hash or original, whichever path produced it.
THEOREM AnswersAreTruthful == Spec => []AnswerTruthful
<1>1. IInv => AnswerTruthful BY DEF IInv
<1> QED BY <1>1, InductiveInvariant, PTL

-----------------------------------------------------------------------------
(* Ledger implements LedgerAbs: the committed rows, the requests and the     *)
(* replies are the abstract state; every statement but the last of a call is *)
(* a stuttering step.                                                        *)

LEMMA AnswerMaps ==
  ASSUME IInv, NEW c \in Calls, pc[c] \notin {"idle", "done"},
         UNCHANGED <<table, req>>, NEW answer, Return(c, answer),
         \/ answer = Refusal("BadRequest") \/ answer = Refusal("Conflict")
         \/ answer = Refusal("Error")
         \/ \E i \in DOMAIN table : answer = Ok(i) /\ SameKey(table[i], req[c])
  PROVE  Atomic!Answer(c)
<1>1. req[c] # NULL /\ reply[c].outcome = "none"
  BY RequestKinds DEF IInv, CallState, Unanswered
<1>2. reply' = [reply EXCEPT ![c] = answer]
  BY DEF Return
<1> QED BY <1>1, <1>2 DEF Atomic!Answer, Atomic!Keyed, Refusal, Ok, SameKey

LEMMA SubmitMaps ==
  ASSUME IInv, NEW c \in Calls, Start(c)
  PROVE  Atomic!Submit(c)
<1>1. PICK r \in Requests :
        /\ req' = [req EXCEPT ![c] = r]
        /\ reply' = reply \/ reply' = [reply EXCEPT ![c] = Refusal("BadRequest")]
  BY DEF Start, Return
<1>2. req[c] = NULL /\ reply[c].outcome = "none" /\ table' = table /\ r # NULL
  BY RequestKinds DEF Start, IInv, CallState, Unanswered
<1> QED BY <1>1, <1>2 DEF Atomic!Submit, Refusal, IInv, TypeOK

LEMMA CommitMaps ==
  ASSUME IInv, NEW c \in Calls, Commit(c) \/ CommitUnacknowledged(c)
  PROVE  Atomic!TakeEffect(c)
<1>1. /\ pc[c] = "commit" /\ table' = Overlay(writes[c]) /\ req' = req
      /\ \/ reply' = [reply EXCEPT ![c] = [outcome |-> "ok", tx |-> c]]
         \/ reply' = [reply EXCEPT ![c] = [outcome |-> "Error", tx |-> NULL]]
  BY DEF Commit, CommitUnacknowledged, Publish, Return, Ok, Refusal
<1>2. Published(c)
  BY <1>1, Publication
<1>3. /\ c \notin DOMAIN table /\ req[c] # NULL /\ reply[c].outcome = "none"
      /\ req[c].op \in {"post", "reverse"}
  BY <1>1, RequestKinds, RowToCommit DEF IInv, CallState, Unanswered
<1>4. \A i \in DOMAIN table : ~Atomic!Keyed(table[i], req[c])
  BY <1>1, RowToCommit DEF IInv, InFlightUnique, Committed, Clash, SameKey, Atomic!Keyed
<1>5. Atomic!Keyed(table'[c], req[c])
  BY <1>1, <1>2, RowToCommit DEF Published, SameKey, Atomic!Keyed
<1>6. CASE req[c].op = "post"
  <2>1. Committed(c).entries = req[c].entries
    <3>1. /\ req[c] \in Requests /\ Valid(req[c])
          /\ Committed(c) = [NewRow(c) EXCEPT !.entries = NewEntries(c), !.status = "POSTED"]
      BY <1>1 DEF IInv, CallState, OpenWrites, Committed
    <3>2. NewRow(c) \in Row
      BY <1>6, <3>1, NewRowType
    <3> QED BY <1>6, <3>1, <3>2 DEF Row, NewEntries
  <2>2. /\ table'[c] = Committed(c) /\ Committed(c).status = "POSTED"
        /\ Committed(c).reversalOf = NULL
        /\ Committed(c).sourcePayloadHash = req[c].sourcePayloadHash
        /\ DOMAIN table' = DOMAIN table \cup {c}
        /\ \A i \in DOMAIN table : table'[i] = table[i]
    BY <1>1, <1>2, <1>6, RowToCommit DEF Published
  <2> QED BY <1>1, <1>3, <1>4, <1>5, <1>6, <2>1, <2>2 DEF Atomic!TakeEffect, Atomic!Post
<1>7. CASE req[c].op = "reverse"
  <2> DEFINE o == Original(c)
  <2>1. /\ o \in DOMAIN table /\ table[o].status = "POSTED" /\ table[o].reversalOf = NULL
        /\ Committed(c).status = "POSTED" /\ Committed(c).reversalOf = o
        /\ table[o] \in Row
    BY <1>1, <1>7, RowToCommit DEF IInv, TypeOK
  <2>2. /\ DOMAIN table' = DOMAIN table \cup {c} /\ table'[c] = Committed(c)
        /\ \A i \in DOMAIN table \ {o} : table'[i] = table[i]
        /\ table'[o] = [table[o] EXCEPT !.status = "REVERSED"]
    BY <1>2, <1>7, <2>1 DEF Published
  <2>3. o = req[c].originalTransactionId
    BY DEF Original
  <2> HIDE DEF o
  <2>4. Atomic!Reverse(c)
    BY <1>4, <1>5, <1>7, <2>1, <2>2, <2>3 DEF Atomic!Reverse
  <2> QED BY <1>1, <1>3, <2>4 DEF Atomic!TakeEffect
<1> QED BY <1>3, <1>6, <1>7

LEMMA StepMaps ==
  ASSUME IInv, [Next]_vars
  PROVE  [Atomic!ANext]_Atomic!avars
<1> USE DEF Atomic!avars
<1>1. CASE UNCHANGED vars
  BY <1>1 DEF vars
<1>2. ASSUME NEW c \in Calls, Start(c) \/ Step(c) \/ CommitUnacknowledged(c) \/ Fail(c)
      PROVE  [Atomic!ANext]_Atomic!avars
  <2>1. CASE Start(c)
    BY <2>1, SubmitMaps DEF Atomic!ANext
  <2>2. CASE Commit(c) \/ CommitUnacknowledged(c)
    BY <2>2, CommitMaps DEF Atomic!ANext
  <2>3. CASE Fail(c)
    BY <2>3, AnswerMaps DEF Fail, Atomic!ANext
  <2>4. CASE PostCheck(c) \/ CatchPost(c) \/ CatchReversalKey(c) \/ CatchDoubleReversal(c)
    <3>1. /\ pc[c] \notin {"idle", "done"} /\ UNCHANGED <<table, req>>
          /\ pc[c] = "check" => req[c].op = "post"
      BY <2>4 DEF PostCheck, CatchPost, CatchReversalKey, CatchDoubleReversal, IInv, CallState
    <3>2. \/ UNCHANGED <<table, req, reply>>
          \/ \E answer : /\ Return(c, answer)
                         /\ \/ answer = Refusal("BadRequest") \/ answer = Refusal("Conflict")
                            \/ answer = Refusal("Error")
                            \/ \E i \in DOMAIN table : answer = Ok(i) /\ SameKey(table[i], req[c])
      BY <2>4 DEF PostCheck, CatchPost, CatchReversalKey, CatchDoubleReversal, Holders,
                  ReversalsOf, ReconcilePost, ReconcileReversal, SameKey
    <3> QED BY <3>1, <3>2, AnswerMaps DEF Atomic!ANext
  <2>5. CASE FindOriginal(c) \/ CheckReversalKey(c) \/ CheckNotReversed(c)
    <3>1. /\ pc[c] \notin {"idle", "done"} /\ UNCHANGED <<table, req>>
          /\ pc[c] = "key" => seen[c].businessId = req[c].businessId
      BY <2>5 DEF FindOriginal, CheckReversalKey, CheckNotReversed, IInv, CallState, OriginalKnown
    <3>2. \/ UNCHANGED <<table, req, reply>>
          \/ \E answer : /\ Return(c, answer)
                         /\ \/ answer = Refusal("BadRequest") \/ answer = Refusal("Conflict")
                            \/ \E i \in DOMAIN table : answer = Ok(i) /\ SameKey(table[i], req[c])
      BY <2>5, <3>1 DEF FindOriginal, CheckReversalKey, CheckNotReversed, Holders,
                        ReconcileReversal, SameKey
    <3> QED BY <3>1, <3>2, AnswerMaps DEF Atomic!ANext
  <2>6. CASE Insert(c) \/ InsertRefused(c) \/ AssemblePost(c) \/ AssembleReversal(c)
    BY <2>6 DEF Insert, InsertRefused, AssemblePost, AssembleReversal
  <2> QED BY <1>2, <2>1, <2>2, <2>3, <2>4, <2>5, <2>6 DEF Step
<1> QED BY <1>1, <1>2 DEF Next

\* The concurrent service implements the atomic ledger: for all calls, requests
\* and faults, each call takes effect in one step or not at all, and is answered
\* from the table as it then is (postTransaction, reverseTransaction).
THEOREM LedgerIsAtomic == Spec => Linearizable
<1>1. Init => Atomic!AInit
  BY DEF Init, Atomic!AInit, NoWrites, Unanswered
<1> QED BY <1>1, InductiveInvariant, StepMaps, PTL DEF Spec, Linearizable, Atomic!Spec

-----------------------------------------------------------------------------
(* Balances.  Booked is inductive beside IInv; BooksInForce is then a fact   *)
(* about sums: a balanced row adds nothing to its tenant's accounts together *)
(* (RowAddsNothing), the rows are summed account by account instead of row   *)
(* by row (SumSwap), and the reversals pair off with the rows they reverse   *)
(* (ReversalsCancel).                                                        *)

LEMMA BookedStep ==
  ASSUME IInv, Booked, NEW c \in Calls, Start(c) \/ Step(c) \/ CommitUnacknowledged(c) \/ Fail(c)
  PROVE  Booked'
<1> DEFINE Ready(d) == pc[d] = "commit" =>
                         AccountsOwned(writes[d][d].businessId, writes[d][d].entries)
<1>0. TypeOK /\ Ready(c) /\ \A d \in Calls : Ready(d)
  BY DEF IInv, Booked
<1>1. CASE Commit(c) \/ CommitUnacknowledged(c)
  <2>1. /\ pc[c] = "commit" /\ table' = Overlay(writes[c]) /\ CommitChecks(writes[c])
        /\ pc' = [pc EXCEPT ![c] = "done"] /\ writes' = [writes EXCEPT ![c] = NoWrites]
    BY <1>1 DEF Commit, CommitUnacknowledged, Publish, Return
  <2>2. Published(c) /\ c \notin DOMAIN table /\ Committed(c) = writes[c][c]
    BY <2>1, Publication, RowToCommit DEF Committed
  <2>3. c \in DOMAIN writes[c] /\ Overlay(writes[c])[c] = writes[c][c]
    <3>1. req[c].op \in {"post", "reverse"}
      BY <2>1, RowToCommit
    <3>2. c \in DOMAIN writes[c]
      BY <2>1, <3>1 DEF IInv, CallState, OpenWrites
    <3> QED BY <3>2 DEF Overlay
  <2>4. Balanced(writes[c][c].entries)
    BY <2>1, <2>3 DEF CommitChecks
  <2>5. AccountsOwned(writes[c][c].businessId, writes[c][c].entries)
    BY <1>0, <2>1
  <2>6. /\ DOMAIN table' = DOMAIN table \cup {c} /\ table'[c] = writes[c][c]
        /\ \A i \in DOMAIN table : /\ table'[i].businessId = table[i].businessId
                                   /\ table'[i].entries = table[i].entries
    BY <2>2 DEF Published
  <2>7. IsFiniteSet(DOMAIN table)'
    BY <2>6, FS_AddElement DEF Booked
  <2>8. \A i \in DOMAIN table' : /\ Balanced(table'[i].entries)
                                 /\ AccountsOwned(table'[i].businessId, table'[i].entries)
    BY <2>4, <2>5, <2>6 DEF Booked
  <2>9. \A d \in Calls : Ready(d)'
    BY <1>0, <2>1 DEF TypeOK, AccountsOwned
  <2> QED BY <2>7, <2>8, <2>9 DEF Booked, AccountsOwned
<1>2. CASE ~(Commit(c) \/ CommitUnacknowledged(c))
  <2>1. table' = table
    BY <1>2 DEF Start, Step, PostCheck, FindOriginal, CheckReversalKey, CheckNotReversed,
                Insert, InsertRefused, AssemblePost, AssembleReversal, CatchPost,
                CatchReversalKey, CatchDoubleReversal, Fail
  <2>2. \A d \in Calls \ {c} : writes'[d] = writes[d] /\ pc'[d] = pc[d]
    BY <1>0, <1>2 DEF TypeOK, Start, Step, PostCheck, FindOriginal, CheckReversalKey,
       CheckNotReversed, Insert, InsertRefused, AssemblePost, AssembleReversal, CatchPost,
       CatchReversalKey, CatchDoubleReversal, Fail, Return, Goto
  <2>3. Ready(c)'
    <3>1. CASE AssemblePost(c) \/ AssembleReversal(c)
      <4>1. /\ AccountsOwned(Sealed(c).businessId, Sealed(c).entries)
            /\ writes'[c][c] = Sealed(c)
        BY <1>0, <3>1 DEF TypeOK, AssemblePost, AssembleReversal
      <4> QED BY <4>1 DEF AccountsOwned
    <3>2. CASE ~(AssemblePost(c) \/ AssembleReversal(c))
      <4>1. pc'[c] # "commit"
        BY <1>0, <1>2, <3>2 DEF TypeOK, Start, Step, PostCheck, FindOriginal,
           CheckReversalKey, CheckNotReversed, Insert, InsertRefused, CatchPost,
           CatchReversalKey, CatchDoubleReversal, Fail, Return, Goto
      <4> QED BY <4>1
    <3> QED BY <3>1, <3>2
  <2>4. \A d \in Calls : Ready(d)'
    BY <1>0, <2>2, <2>3 DEF AccountsOwned
  <2>5. /\ IsFiniteSet(DOMAIN table)'
        /\ \A i \in DOMAIN table' :
             Balanced(table'[i].entries) /\ AccountsOwned(table'[i].businessId, table'[i].entries)
    BY <2>1 DEF Booked
  <2> QED BY <2>4, <2>5 DEF Booked, AccountsOwned
<1> QED BY <1>1, <1>2

LEMMA BookedInvariant == Spec => []Booked
<1>1. Init => Booked
  BY FS_EmptySet DEF Init, Booked, NoWrites
<1>2. IInv /\ Booked /\ [Next]_vars => Booked'
  <2> SUFFICES ASSUME IInv, Booked, [Next]_vars PROVE Booked'
    OBVIOUS
  <2>1. CASE UNCHANGED vars
    BY <2>1 DEF vars, Booked, Balanced, SideTotal, AccountsOwned
  <2> QED BY <2>1, BookedStep DEF Next
<1> QED BY <1>1, <1>2, InductiveInvariant, PTL DEF Spec

\* The entries of a row: finitely many, each with an integer amount on one of the
\* two sides.
LEMMA EntriesAre ==
  ASSUME NEW es \in Seq(Entry)
  PROVE  /\ IsFiniteSet(DOMAIN es)
         /\ \A k \in DOMAIN es : /\ es[k].accountId \in Accounts /\ es[k].amountMinor \in Int
                                 /\ es[k].type \in {"DEBIT", "CREDIT"} /\ Signed(es[k]) \in Int
         /\ Integral([k \in DOMAIN es |-> Signed(es[k])], DOMAIN es)
         /\ Integral([k \in DOMAIN es |-> es[k].amountMinor], DOMAIN es)
<1>1. DOMAIN es = 1..Len(es) /\ Len(es) \in Nat /\ \A k \in 1..Len(es) : es[k] \in Entry
  BY LenProperties, ElementOfSeq
<1>2. IsFiniteSet(DOMAIN es)
  BY <1>1, FS_Interval
<1>3. \A k \in DOMAIN es : es[k] \in [accountId : Accounts, type : Sides, amountMinor : Int]
  BY <1>1, AmountAssumption DEF Entry
<1>4. \A k \in DOMAIN es : /\ es[k].accountId \in Accounts /\ es[k].amountMinor \in Int
                           /\ es[k].type \in {"DEBIT", "CREDIT"} /\ Signed(es[k]) \in Int
  BY <1>3 DEF Sides, Signed
<1> QED BY <1>2, <1>4 DEF Integral

LEMMA NetInt ==
  ASSUME NEW es \in Seq(Entry)
  PROVE  \A a : Net(es, a) \in Int
BY EntriesAre, SumSubsetInt DEF Net

\* Balanced means that the signed amounts of all entries sum to zero.
LEMMA BalancedSum ==
  ASSUME NEW es \in Seq(Entry), Balanced(es)
  PROVE  SumFunctionOnSet([k \in DOMAIN es |-> Signed(es[k])], DOMAIN es) = 0
<1> DEFINE debits == {k \in DOMAIN es : es[k].type = "DEBIT"}
           credits == {k \in DOMAIN es : es[k].type = "CREDIT"}
<1>1. PICK signed, amounts : /\ signed = [k \in DOMAIN es |-> Signed(es[k])]
                             /\ amounts = [k \in DOMAIN es |-> es[k].amountMinor]
  OBVIOUS
<1>2. /\ Integral(signed, DOMAIN es) /\ Integral(amounts, DOMAIN es)
      /\ debits \cup credits = DOMAIN es /\ debits \cap credits = {}
      /\ \A k \in debits : signed[k] = amounts[k]
      /\ \A k \in credits : signed[k] = -amounts[k]
  BY <1>1, EntriesAre DEF Signed
<1>3. SumFunctionOnSet(amounts, debits) = SumFunctionOnSet(amounts, credits)
  BY <1>1 DEF Balanced, SideTotal
<1>4. debits \in SUBSET DOMAIN es /\ credits \in SUBSET DOMAIN es
  OBVIOUS
<1> HIDE DEF debits, credits
<1>5. Integral(amounts, debits) /\ Integral(amounts, credits)
  BY <1>2, <1>4, IntegralParts
<1>6. SumFunctionOnSet(signed, debits) = SumFunctionOnSet(amounts, debits)
  BY <1>2, <1>5, SumSame
<1>7. SumFunctionOnSet(signed, credits) = -SumFunctionOnSet(amounts, credits)
  BY <1>2, <1>5, SumMinus
<1>8. SumFunctionOnSet(amounts, debits) \in Int
  BY <1>5, SumInt
<1>9. SumFunctionOnSet(signed, debits \cup credits)
        = SumFunctionOnSet(signed, debits) + SumFunctionOnSet(signed, credits)
  BY <1>2, SumUnion
<1> QED BY <1>1, <1>2, <1>3, <1>6, <1>7, <1>8, <1>9

\* One row: over a tenant's accounts together it adds nothing.
LEMMA RowAddsNothing ==
  ASSUME NEW i \in DOMAIN table, table[i] \in Row, NEW b \in Businesses,
         Balanced(table[i].entries), AccountsOwned(table[i].businessId, table[i].entries),
         NEW net, \A a \in Owned(b) : net[a] = Net(table[i].entries, a)
  PROVE  SumFunctionOnSet(net, Owned(b)) = 0
<1> DEFINE es == table[i].entries
<1>1. es \in Seq(Entry)
  BY DEF Row
<1>2. IsFiniteSet(Owned(b))
  BY AccountAssumption, FS_Subset DEF Owned
<1>3. PICK signed, account, on :
        /\ signed = [k \in DOMAIN es |-> Signed(es[k])]
        /\ account = [k \in DOMAIN es |-> es[k].accountId]
        /\ on = [a \in Owned(b) |-> {k \in DOMAIN es : es[k].accountId = a}]
  OBVIOUS
<1>4. /\ Integral(signed, DOMAIN es) /\ \A k \in DOMAIN es : account[k] \in Accounts
      /\ \A k \in DOMAIN es : OwnerOf[account[k]] = table[i].businessId
  BY <1>1, <1>3, EntriesAre DEF AccountsOwned
<1>5. \A a \in Owned(b) : /\ net[a] = SumFunctionOnSet(signed, on[a])
                           /\ on[a] \in SUBSET DOMAIN es
                           /\ \A k \in DOMAIN es : k \in on[a] <=> account[k] = a
  BY <1>3 DEF Net
<1>6. CASE table[i].businessId = b
  <2>1. \A k \in DOMAIN es : account[k] \in Owned(b)
    BY <1>4, <1>6 DEF Owned
  <2>2. SumFunctionOnSet(signed, DOMAIN es) = 0
    BY <1>1, <1>3, BalancedSum
  <2>3. PICK places, mine : places = DOMAIN es /\ mine = Owned(b)
    OBVIOUS
  <2>4. /\ Integral(signed, places) /\ \A k \in places : account[k] \in mine
        /\ \A a \in mine : net[a] = SumFunctionOnSet(signed, on[a])
        /\ \A a \in mine : on[a] \in SUBSET places
        /\ \A a \in mine, k \in places : k \in on[a] <=> account[k] = a
    BY <1>4, <1>5, <2>1, <2>3
  <2>5. SumFunctionOnSet(net, mine) = SumFunctionOnSet(signed, places)
    BY <1>2, <2>3, <2>4, SumParts
  <2> QED BY <2>2, <2>3, <2>5
<1>7. CASE table[i].businessId # b
  <2>1. ASSUME NEW a \in Owned(b)
        PROVE  on[a] = {}
    <3>1. OwnerOf[a] = b
      BY DEF Owned
    <3>2. \A k \in DOMAIN es : account[k] # a
      BY <1>4, <1>7, <3>1
    <3> QED BY <1>5, <3>2
  <2>2. \A a \in Owned(b) : net[a] = 0
    <3>1. SumFunctionOnSet(signed, {}) = 0
      BY SumEmpty
    <3> QED BY <1>5, <2>1, <3>1
  <2> QED BY <1>2, <2>2, SumZero
<1> QED BY <1>6, <1>7

\* A reversal takes from every account what its original gave it.
LEMMA ReversalCancels ==
  ASSUME NEW r \in Row, NEW o \in Row, Undoes(r, o), NEW a
  PROVE  Net(r.entries, a) = -Net(o.entries, a)
<1>1. r.entries \in Seq(Entry) /\ o.entries \in Seq(Entry)
  BY DEF Row
<1> DEFINE S == {k \in DOMAIN o.entries : o.entries[k].accountId = a}
<1>2. PICK f, g : /\ f = [k \in DOMAIN o.entries |-> Signed(o.entries[k])]
                  /\ g = [k \in DOMAIN r.entries |-> Signed(r.entries[k])]
  OBVIOUS
<1>3. Integral(f, S)
  BY <1>1, <1>2, EntriesAre, IntegralParts
<1>4. {k \in DOMAIN r.entries : r.entries[k].accountId = a} = S
  BY DEF Undoes
<1>5. \A k \in S : g[k] = -f[k]
  <2> SUFFICES ASSUME NEW k \in S PROVE g[k] = -f[k]
    OBVIOUS
  <2>1. k \in DOMAIN o.entries /\ k \in DOMAIN r.entries
    BY DEF Undoes
  <2>2. PICK d, e : d = o.entries[k] /\ e = r.entries[k]
    OBVIOUS
  <2>3. e.amountMinor = d.amountMinor /\ e.type # d.type
    BY <2>1, <2>2 DEF Undoes
  <2>4. d.amountMinor \in Int /\ {d.type, e.type} \subseteq {"DEBIT", "CREDIT"}
    BY <1>1, <2>1, <2>2, EntriesAre
  <2>5. g[k] = Signed(e) /\ f[k] = Signed(d)
    BY <1>2, <2>1, <2>2
  <2> QED BY <2>3, <2>4, <2>5 DEF Signed
<1>6. SumFunctionOnSet(g, S) = -SumFunctionOnSet(f, S)
  <2> HIDE DEF S
  <2> QED BY <1>3, <1>5, SumMinus
<1> QED BY <1>2, <1>4, <1>6 DEF Net

LEMMA ReversalsCancel ==
  ASSUME IInv, Booked, NEW a \in Accounts
  PROVE  Balance(a, DOMAIN table) = Balance(a, InForce)
<1> DEFINE Reversed == {i \in DOMAIN table : table[i].status = "REVERSED"}
           Reversals == {i \in DOMAIN table : table[i].reversalOf # NULL}
<1>1. PICK net, partner, mirrored :
        /\ net = [i \in DOMAIN table |-> Net(table[i].entries, a)]
        /\ partner = [i \in DOMAIN table |-> table[i].reversalOf]
        /\ mirrored = [i \in DOMAIN table |-> -Net(table[i].entries, a)]
  OBVIOUS
<1>2. \A i \in DOMAIN table : table[i] \in Row /\ table[i].entries \in Seq(Entry)
  BY DEF IInv, TypeOK, Row
<1>3. Integral(net, DOMAIN table) /\ Integral(mirrored, DOMAIN table)
  BY <1>1, <1>2, NetInt DEF Booked, Integral
<1>4. \A i \in DOMAIN table :
        /\ table[i].status \in {"POSTED", "REVERSED"}
        /\ table[i].reversalOf # NULL => table[i].reversalOf \in DOMAIN table
        /\ table[i].status = "REVERSED" <=> ReversalsOf(i) # {}
        /\ \A r, q \in ReversalsOf(i) : r = q
        /\ \A r \in ReversalsOf(i) : Undoes(table[r], table[i]) /\ table[i].reversalOf = NULL
  BY <1>2 DEF IInv, CommittedRows, ReversalPaired, Row
<1>5. /\ \A r \in Reversals : /\ partner[r] \in Reversed /\ r \in ReversalsOf(partner[r])
                              /\ net[r] = mirrored[partner[r]]
      /\ \A i \in Reversed : \E r \in Reversals : partner[r] = i
      /\ \A r, q \in Reversals : partner[r] = partner[q] => r = q
  <2>1. \A r \in Reversals : /\ partner[r] \in DOMAIN table /\ r \in ReversalsOf(partner[r])
                             /\ partner[r] \in Reversed
    BY <1>1, <1>4 DEF ReversalsOf
  <2>2. ASSUME NEW r \in Reversals
        PROVE  net[r] = mirrored[partner[r]]
    <3>1. /\ table[r] \in Row /\ table[partner[r]] \in Row
          /\ Undoes(table[r], table[partner[r]])
      BY <1>2, <1>4, <2>1
    <3>2. Net(table[r].entries, a) = -Net(table[partner[r]].entries, a)
      BY <3>1, ReversalCancels
    <3> QED BY <1>1, <2>1, <3>2
  <2>3. \A i \in Reversed : \E r \in Reversals : partner[r] = i
    <3> SUFFICES ASSUME NEW i \in Reversed PROVE \E r \in Reversals : partner[r] = i
      OBVIOUS
    <3>1. PICK r \in ReversalsOf(i) : TRUE
      BY <1>4
    <3>2. i # NULL
      BY NullAssumption DEF IInv, TypeOK
    <3> QED BY <1>1, <3>1, <3>2 DEF ReversalsOf
  <2>4. \A r, q \in Reversals : partner[r] = partner[q] => r = q
    BY <1>4, <2>1
  <2> QED BY <2>1, <2>2, <2>3, <2>4
<1>6. /\ InForce \cup (Reversed \cup Reversals) = DOMAIN table
      /\ InForce \cap (Reversed \cup Reversals) = {} /\ Reversed \cap Reversals = {}
      /\ InForce \in SUBSET DOMAIN table
  BY <1>4 DEF InForce
<1>7. Reversed \in SUBSET DOMAIN table /\ Reversals \in SUBSET DOMAIN table
  OBVIOUS
<1> HIDE DEF Reversed, Reversals
<1>8. /\ Integral(net, Reversed) /\ Integral(net, Reversals) /\ Integral(mirrored, Reversed)
      /\ IsFiniteSet(Reversals) /\ Integral(net, Reversed \cup Reversals) /\ Integral(net, InForce)
  BY <1>3, <1>6, <1>7, IntegralParts
<1>9. SumFunctionOnSet(net, Reversals) = SumFunctionOnSet(mirrored, Reversed)
  BY <1>5, <1>8, SumImage
<1>10. SumFunctionOnSet(mirrored, Reversed) = -SumFunctionOnSet(net, Reversed)
  <2>1. \A i \in Reversed : mirrored[i] = -net[i]
    BY <1>1, <1>7
  <2> QED BY <1>8, <2>1, SumMinus
<1>11. SumFunctionOnSet(net, Reversed \cup Reversals) = 0
  <2>1. SumFunctionOnSet(net, Reversed) \in Int
    BY <1>8, SumInt
  <2>2. SumFunctionOnSet(net, Reversed \cup Reversals)
          = SumFunctionOnSet(net, Reversed) + SumFunctionOnSet(net, Reversals)
    BY <1>6, <1>8, SumUnion
  <2> QED BY <1>9, <1>10, <2>1, <2>2
<1>12. SumFunctionOnSet(net, DOMAIN table) = SumFunctionOnSet(net, InForce)
  <2>1. SumFunctionOnSet(net, InForce) \in Int
    BY <1>8, SumInt
  <2>2. PICK rest : rest = Reversed \cup Reversals
    OBVIOUS
  <2>3. SumFunctionOnSet(net, InForce \cup rest)
          = SumFunctionOnSet(net, InForce) + SumFunctionOnSet(net, rest)
    BY <1>3, <1>6, <2>2, SumUnion
  <2> QED BY <1>6, <1>11, <2>1, <2>2, <2>3
<1>13. Balance(a, InForce) = SumFunctionOnSet(net, InForce)
  <2>1. PICK part : part = [i \in InForce |-> Net(table[i].entries, a)]
    OBVIOUS
  <2>2. \A i \in InForce : part[i] = net[i]
    BY <1>1, <1>6, <2>1
  <2>3. SumFunctionOnSet(part, InForce) = SumFunctionOnSet(net, InForce)
    BY <1>8, <2>2, SumSame
  <2> QED BY <2>1, <2>3 DEF Balance
<1>14. Balance(a, DOMAIN table) = SumFunctionOnSet(net, DOMAIN table)
  BY <1>1 DEF Balance
<1> QED BY <1>12, <1>13, <1>14

LEMMA TenantSumsToZero ==
  ASSUME IInv, Booked, NEW b \in Businesses
  PROVE  SumFunctionOnSet([a \in Owned(b) |-> Balance(a, DOMAIN table)], Owned(b)) = 0
<1>1. PICK byAccount, byRow, balances, rows :
        /\ byAccount = [a \in Owned(b) |-> [i \in DOMAIN table |-> Net(table[i].entries, a)]]
        /\ byRow = [i \in DOMAIN table |-> [a \in Owned(b) |-> Net(table[i].entries, a)]]
        /\ balances = [a \in Owned(b) |-> Balance(a, DOMAIN table)]
        /\ rows = [i \in DOMAIN table |-> 0]
  OBVIOUS
<1>2. IsFiniteSet(Owned(b)) /\ IsFiniteSet(DOMAIN table)
  BY AccountAssumption, FS_Subset DEF Owned, Booked
<1>3. \A i \in DOMAIN table : table[i] \in Row /\ table[i].entries \in Seq(Entry)
  BY DEF IInv, TypeOK, Row
<1>4. \A a \in Owned(b) : Integral(byAccount[a], DOMAIN table)
  BY <1>1, <1>2, <1>3, NetInt DEF Integral
<1>5. \A a \in Owned(b) : balances[a] = SumFunctionOnSet(byAccount[a], DOMAIN table)
  BY <1>1 DEF Balance
<1>6. \A a \in Owned(b), i \in DOMAIN table : byRow[i][a] = byAccount[a][i]
  BY <1>1
<1>7. \A i \in DOMAIN table : rows[i] = SumFunctionOnSet(byRow[i], Owned(b))
  <2> SUFFICES ASSUME NEW i \in DOMAIN table
               PROVE  rows[i] = SumFunctionOnSet(byRow[i], Owned(b))
    OBVIOUS
  <2>1. PICK net : net = byRow[i]
    OBVIOUS
  <2>2. \A a \in Owned(b) : net[a] = Net(table[i].entries, a)
    BY <1>1, <2>1
  <2>3. Balanced(table[i].entries) /\ AccountsOwned(table[i].businessId, table[i].entries)
    BY DEF Booked
  <2>4. SumFunctionOnSet(net, Owned(b)) = 0
    BY <1>3, <2>2, <2>3, RowAddsNothing
  <2> QED BY <1>1, <2>1, <2>4
<1>8. SumFunctionOnSet(balances, Owned(b)) = SumFunctionOnSet(rows, DOMAIN table)
  BY <1>2, <1>4, <1>5, <1>6, <1>7, SumSwap
<1>9. SumFunctionOnSet(rows, DOMAIN table) = 0
  BY <1>1, <1>2, SumZero
<1> QED BY <1>1, <1>8, <1>9

\* Whatever the tenants, accounts, requests and interleavings: in every state a
\* reader can see, each account's balance is that of the transactions in force, and
\* the accounts of a business sum to zero (postTransaction, reverseTransaction,
\* enforce_balanced_transaction, assertAccountsBelongToBusiness).
THEOREM BooksBalance == Spec => []BooksInForce
<1>1. IInv /\ Booked => BooksInForce
  BY ReversalsCancel, TenantSumsToZero DEF BooksInForce
<1> QED BY <1>1, InductiveInvariant, BookedInvariant, PTL
=============================================================================
