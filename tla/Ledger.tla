------------------------------- MODULE Ledger -------------------------------
(***************************************************************************)
(* The double-entry ledger: LedgerService.postTransaction and              *)
(* LedgerService.reverseTransaction running concurrently against one       *)
(* PostgreSQL database at READ COMMITTED, with the unique indexes, row     *)
(* triggers and deferred constraint triggers of the migrations.            *)
(*                                                                         *)
(* A call is one invocation of a service method.  Each database statement  *)
(* of a call is one action; what a call has written and not yet committed  *)
(* is in writes[c], the committed rows are in table.  A row is named by    *)
(* the call that inserts it: the id is a fresh uuid, so no two calls share *)
(* one.                                                                    *)
(***************************************************************************)
EXTENDS Integers, Sequences, FiniteSets, SequencesExt

CONSTANTS
  Calls,       \* invocations of the service, and the ids of the rows they insert
  Requests,    \* the posts and reversals a call may be asked for
  Businesses,  \* tenants
  Keys,        \* idempotency keys
  Accounts,    \* account ids a request may name
  OwnerOf,     \* the business of each account, NULL for one that does not exist
  Hashes,      \* well-formed SHA-256 payload hashes
  Currencies,  \* supported currencies
  MaxAmount,   \* INT64_MAX, the largest amount_minor
  NULL

VARIABLES
  table,   \* committed rows of "transactions" with their entries, by id
  writes,  \* per call: row versions its open database transaction has written
  pc,      \* per call: the next statement of the method
  req,     \* per call: the request it serves
  seen,    \* per call: the original as first read by reverseTransaction
  fault,   \* per call: the unique index whose violation it is handling
  reply    \* per call: what the caller was told

vars == <<table, writes, pc, req, seen, fault, reply>>

Sources == {"SYSTEM", "WHATSAPP", "API", "WEB"}
Sides == {"DEBIT", "CREDIT"}

\* Requests as they arrive: NULL stands for a missing string, sourceMessageId says
\* whether there is one, amounts are any integer; currency and sourceType are in
\* the form normalizeLedgerCurrency and normalizeSourceType give them.
PostRequest ==
  [op : {"post"}, businessId : Businesses, idempotencyKey : Keys \cup {NULL},
   currency : STRING, sourceType : STRING, sourceMessageId : BOOLEAN,
   sourcePayloadHash : Hashes \cup {NULL},
   entries : Seq([accountId : Accounts, type : Sides, amountMinor : Int])]

ReversalRequest ==
  [op : {"reverse"}, businessId : Businesses, idempotencyKey : Keys \cup {NULL},
   originalTransactionId : Calls, reason : STRING \cup {NULL}]

ASSUME RequestAssumption == Requests \subseteq PostRequest \cup ReversalRequest
ASSUME OwnerAssumption == OwnerOf \in [Accounts -> Businesses \cup {NULL}]
ASSUME NullAssumption == NULL \notin Calls \cup Keys \cup Businesses \cup Requests
ASSUME AmountAssumption == MaxAmount \in Nat
ASSUME AccountAssumption == IsFiniteSet(Accounts)

-----------------------------------------------------------------------------
(* Entries.                                                                *)

\* The sum of the amounts on one side of a list of entries.
SideTotal(entries, side) ==
  SumFunctionOnSet([k \in DOMAIN entries |-> entries[k].amountMinor],
                   {k \in DOMAIN entries : entries[k].type = side})

\* Mutant: the totals are not compared.
Balanced_Unchecked(entries) == TRUE

Balanced(entries) == SideTotal(entries, "DEBIT") = SideTotal(entries, "CREDIT")

\* Mutant: a reversal copies the sides.
Opposite_Copied(side) == side

\* The other side of an entry.
Opposite(side) == IF side = "DEBIT" THEN "CREDIT" ELSE "DEBIT"

\* The entries of a reversal: same accounts and amounts, sides inverted.
Mirror(entries) ==
  [i \in DOMAIN entries |-> [entries[i] EXCEPT !.type = Opposite(@)]]

Occurrences(e, entries) == Cardinality({i \in DOMAIN entries : entries[i] = e})

\* EXCEPT ALL in both directions: the two lists hold the same rows.
SameEntries(a, b) ==
  \A e \in ToSet(a) \cup ToSet(b) : Occurrences(e, a) = Occurrences(e, b)

-----------------------------------------------------------------------------
(* Requests.                                                               *)

\* Mutant: no upper bound.
InRange_Unbounded(amount) == amount > 0

\* parseAmountMinor: strictly positive and within a signed 64-bit column.
InRange(amount) == amount \in 1..MaxAmount

\* validateCreateTransaction: everything a post must satisfy before it touches
\* the database.
ValidPost(dto) ==
  /\ dto.idempotencyKey # NULL
  /\ dto.currency \in Currencies
  /\ dto.sourceType \in Sources
  /\ IF dto.sourceType = "SYSTEM" THEN dto.sourcePayloadHash = NULL
                                  ELSE dto.sourcePayloadHash \in Hashes
  /\ dto.sourceType = "WHATSAPP" => dto.sourceMessageId
  /\ Len(dto.entries) >= 2
  /\ \A i \in DOMAIN dto.entries : InRange(dto.entries[i].amountMinor)
  /\ Balanced(dto.entries)

ValidReversal(r) == r.idempotencyKey # NULL /\ r.reason # NULL

Valid(r) == IF r.op = "post" THEN ValidPost(r) ELSE ValidReversal(r)

\* assertAccountsBelongToBusiness: every account exists and is the tenant's.
AccountsOwned(businessId, entries) ==
  \A i \in DOMAIN entries : OwnerOf[entries[i].accountId] = businessId

-----------------------------------------------------------------------------
(* Rows.                                                                   *)

PostRow(dto) ==
  [businessId |-> dto.businessId, idempotencyKey |-> dto.idempotencyKey,
   currency |-> dto.currency, sourceType |-> dto.sourceType,
   sourcePayloadHash |-> dto.sourcePayloadHash, reversalOf |-> NULL,
   status |-> "POSTING", entries |-> <<>>]

ReversalRow(r, original) ==
  [businessId |-> original.businessId, idempotencyKey |-> r.idempotencyKey,
   currency |-> original.currency, sourceType |-> "SYSTEM",
   sourcePayloadHash |-> NULL, reversalOf |-> r.originalTransactionId,
   status |-> "POSTING", entries |-> <<>>]

NewRow(c) == IF req[c].op = "post" THEN PostRow(req[c])
                                   ELSE ReversalRow(req[c], seen[c])

NewEntries(c) == IF req[c].op = "post" THEN req[c].entries
                                       ELSE Mirror(seen[c].entries)

\* UQ_transactions_business_idempotency
SameKey(a, b) == /\ a.businessId = b.businessId
                 /\ a.idempotencyKey = b.idempotencyKey

\* UQ_transactions_one_reversal_per_original
SameOriginal(a, b) == a.reversalOf # NULL /\ a.reversalOf = b.reversalOf

\* Mutant: the key is not declared unique.
Clash_OriginalOnly(a, b) == SameOriginal(a, b)

\* Two rows that the unique indexes do not let stand beside each other.
Clash(a, b) == SameKey(a, b) \/ SameOriginal(a, b)

\* Mutant: the lookup by key forgets the tenant.
Holders_AnyTenant(b, key) == {i \in DOMAIN table : table[i].idempotencyKey = key}

\* Committed rows with this business and key (at most one: KeyUnique).
Holders(b, key) == {i \in DOMAIN table : /\ table[i].businessId = b
                                         /\ table[i].idempotencyKey = key}

ReversalsOf(id) == {i \in DOMAIN table : table[i].reversalOf = id}

\* What a database transaction sees: its own row versions over the committed ones.
Overlay(own) == [i \in DOMAIN table \cup DOMAIN own |->
                   IF i \in DOMAIN own THEN own[i] ELSE table[i]]

NoWrites == [i \in {} |-> NULL]

-----------------------------------------------------------------------------
(* Replies.                                                                *)

Unanswered == [outcome |-> "none", tx |-> NULL]
Ok(id)     == [outcome |-> "ok", tx |-> id]
Refusal(why) == [outcome |-> why, tx |-> NULL]

\* Mutant: the open transaction is neither rolled back nor released.
Return_Leaked(c, answer) ==
  /\ reply' = [reply EXCEPT ![c] = answer]
  /\ pc' = [pc EXCEPT ![c] = "done"]
  /\ UNCHANGED writes

\* The end of a method: the query runner is released with nothing pending.
Return(c, answer) ==
  /\ reply' = [reply EXCEPT ![c] = answer]
  /\ pc' = [pc EXCEPT ![c] = "done"]
  /\ writes' = [writes EXCEPT ![c] = NoWrites]

Goto(c, label) == pc' = [pc EXCEPT ![c] = label]

\* Mutant: the payload hashes are not compared.
ReconcilePost_AnyPayload(c, id) == Ok(id)

\* reconcileIdempotentPost
ReconcilePost(c, id) ==
  IF table[id].sourcePayloadHash = req[c].sourcePayloadHash
  THEN Ok(id) ELSE Refusal("Conflict")

\* reconcileIdempotentReversal
ReconcileReversal(c, id) ==
  IF table[id].reversalOf = req[c].originalTransactionId
  THEN Ok(id) ELSE Refusal("Conflict")

-----------------------------------------------------------------------------
(* The statements of the two methods.                                      *)

Init ==
  /\ table = NoWrites
  /\ writes = [c \in Calls |-> NoWrites]
  /\ pc = [c \in Calls |-> "idle"]
  /\ req = [c \in Calls |-> NULL]
  /\ seen = [c \in Calls |-> NULL]
  /\ fault = [c \in Calls |-> "none"]
  /\ reply = [c \in Calls |-> Unanswered]

\* A call arrives; an invalid request is refused before any database work.
Start(c) ==
  /\ pc[c] = "idle"
  /\ \E r \in Requests :
       /\ req' = [req EXCEPT ![c] = r]
       /\ IF Valid(r)
          THEN /\ Goto(c, IF r.op = "post" THEN "check" ELSE "find")
               /\ UNCHANGED <<reply, writes>>
          ELSE Return(c, Refusal("BadRequest"))
  /\ UNCHANGED <<table, seen, fault>>

\* postValidatedTransaction up to the insert: tenant check, then the lookup by key.
PostCheck(c) ==
  /\ pc[c] = "check"
  /\ LET holders == Holders(req[c].businessId, req[c].idempotencyKey) IN
     IF ~AccountsOwned(req[c].businessId, req[c].entries) THEN Return(c, Refusal("BadRequest"))
     ELSE IF holders # {}
     THEN \E id \in holders : Return(c, ReconcilePost(c, id))
     ELSE Goto(c, "insert") /\ UNCHANGED <<reply, writes>>
  /\ UNCHANGED <<table, req, seen, fault>>

\* reverseTransaction reads the original, under its tenant.
FindOriginal(c) ==
  /\ pc[c] = "find"
  /\ LET o == req[c].originalTransactionId IN
     IF o \notin DOMAIN table \/ table[o].businessId # req[c].businessId
     THEN Return(c, Refusal("BadRequest")) /\ UNCHANGED seen
     ELSE IF table[o].reversalOf # NULL
     THEN Return(c, Refusal("Conflict")) /\ UNCHANGED seen
     ELSE /\ seen' = [seen EXCEPT ![c] = table[o]]
          /\ Goto(c, "key")
          /\ UNCHANGED <<reply, writes>>
  /\ UNCHANGED <<table, req, fault>>

\* A repeated request returns the reversal its key already names.
CheckReversalKey(c) ==
  /\ pc[c] = "key"
  /\ LET holders == Holders(seen[c].businessId, req[c].idempotencyKey) IN
     IF holders # {}
     THEN \E id \in holders : Return(c, ReconcileReversal(c, id))
     ELSE Goto(c, "reversed") /\ UNCHANGED <<reply, writes>>
  /\ UNCHANGED <<table, req, seen, fault>>

\* The double-reversal guard, then the status of the original as first read.
CheckNotReversed(c) ==
  /\ pc[c] = "reversed"
  /\ IF ReversalsOf(req[c].originalTransactionId) # {} \/ seen[c].status # "POSTED"
     THEN Return(c, Refusal("Conflict"))
     ELSE Goto(c, "insert") /\ UNCHANGED <<reply, writes>>
  /\ UNCHANGED <<table, req, seen, fault>>

\* Rows other calls have written and not committed: an INSERT that clashes with
\* one waits until its writer commits or rolls back.
InFlightClash(c, row) ==
  \E d \in Calls \ {c} : \E i \in DOMAIN writes[d] : Clash(row, writes[d][i])

\* INSERT of the transaction row, status POSTING, no unique index violated and
\* the original, if any, not a reversal itself (prevent_reversal_of_reversal).
Insert(c) ==
  /\ pc[c] = "insert"
  /\ LET row == NewRow(c) IN
     /\ ~InFlightClash(c, row)
     /\ row.reversalOf # NULL => table[row.reversalOf].reversalOf = NULL
     /\ \A i \in DOMAIN table : ~Clash(row, table[i])
     /\ writes' = [writes EXCEPT ![c] = [i \in {c} |-> row]]
  /\ Goto(c, "assemble")
  /\ UNCHANGED <<table, req, seen, fault, reply>>

\* INSERT that meets a committed row: 23505 on one of the indexes it violates;
\* the open transaction is rolled back and the catch block runs.
InsertRefused(c) ==
  /\ pc[c] = "insert"
  /\ LET row == NewRow(c) IN
     \/ /\ \E i \in DOMAIN table : SameKey(row, table[i])
        /\ fault' = [fault EXCEPT ![c] = "key"]
     \/ /\ \E i \in DOMAIN table : SameOriginal(row, table[i])
        /\ fault' = [fault EXCEPT ![c] = "reversal"]
  /\ Goto(c, "catch")
  /\ UNCHANGED <<table, writes, req, seen, reply>>

\* The inserted row with its entries, sealed.
Sealed(c) == [writes[c][c] EXCEPT !.entries = NewEntries(c), !.status = "POSTED"]

\* postValidatedTransaction: the entries (their composite foreign keys hold them
\* to accounts of the same business), then the seal POSTING -> POSTED.
AssemblePost(c) ==
  /\ pc[c] = "assemble" /\ req[c].op = "post"
  /\ AccountsOwned(Sealed(c).businessId, Sealed(c).entries)
  /\ writes' = [writes EXCEPT ![c] = [i \in {c} |-> Sealed(c)]]
  /\ Goto(c, "commit")
  /\ UNCHANGED <<table, req, seen, fault, reply>>

\* reverseTransaction: the mirrored entries and the seal, then the mark
\* POSTED -> REVERSED on the original (prevent_transaction_mutation allows no
\* other transition, and an UPDATE waits for the row's other writer).
AssembleReversal(c) ==
  /\ pc[c] = "assemble" /\ req[c].op = "reverse"
  /\ AccountsOwned(Sealed(c).businessId, Sealed(c).entries)
  /\ LET o == req[c].originalTransactionId IN
     /\ table[o].status = "POSTED"
     /\ \A d \in Calls \ {c} : o \notin DOMAIN writes[d]
     /\ writes' = [writes EXCEPT ![c] =
          [i \in {c, o} |-> IF i = c THEN Sealed(c)
                            ELSE [table[o] EXCEPT !.status = "REVERSED"]]]
  /\ Goto(c, "commit")
  /\ UNCHANGED <<table, req, seen, fault, reply>>

\* The deferred constraint triggers, on the rows a database transaction wrote.
CommitChecks(own) ==
  LET view == Overlay(own) IN
  \A i \in DOMAIN own :
    LET row == view[i] IN
    /\ row.status # "POSTING"
    /\ Len(row.entries) >= 2 /\ Balanced(row.entries)
    /\ row.status = "REVERSED" =>
         \E r \in DOMAIN view : /\ view[r].reversalOf = i
                                /\ view[r].businessId = row.businessId
                                /\ view[r].status = "POSTED"
                                /\ view[r].currency = row.currency
    /\ row.reversalOf # NULL =>
         /\ row.reversalOf \in DOMAIN view
         /\ LET original == view[row.reversalOf] IN
            /\ SameEntries(row.entries, Mirror(original.entries))
            /\ row.status = "POSTED" /\ original.status = "REVERSED"
            /\ original.businessId = row.businessId
            /\ original.currency = row.currency

Publish(c) == CommitChecks(writes[c]) /\ table' = Overlay(writes[c])

\* COMMIT succeeds and the new row is returned.
Commit(c) ==
  /\ pc[c] = "commit"
  /\ Publish(c)
  /\ Return(c, Ok(c))
  /\ UNCHANGED <<req, seen, fault>>

\* COMMIT is applied by the server and its acknowledgement is lost: the rollback
\* that follows is a no-op and the caller is told of an error.
CommitUnacknowledged(c) ==
  /\ pc[c] = "commit"
  /\ Publish(c)
  /\ Return(c, Refusal("Error"))
  /\ UNCHANGED <<req, seen, fault>>

\* postTransaction's catch: a racing request won the key; answer from its row.
CatchPost(c) ==
  /\ pc[c] = "catch" /\ req[c].op = "post"
  /\ LET holders == Holders(req[c].businessId, req[c].idempotencyKey) IN
     IF holders = {} THEN Return(c, Refusal("Error"))
     ELSE \E id \in holders : Return(c, ReconcilePost(c, id))
  /\ UNCHANGED <<table, req, seen, fault>>

\* reverseTransaction's catch for the key index.
CatchReversalKey(c) ==
  /\ pc[c] = "catch" /\ req[c].op = "reverse" /\ fault[c] = "key"
  /\ LET holders == Holders(req[c].businessId, req[c].idempotencyKey) IN
     IF holders = {} THEN Return(c, Refusal("Error"))
     ELSE \E id \in holders : Return(c, ReconcileReversal(c, id))
  /\ UNCHANGED <<table, req, seen, fault>>

\* reverseTransaction's catch for the one-reversal-per-original index: the same
\* request if the key matches, a double reversal otherwise.
CatchDoubleReversal(c) ==
  /\ pc[c] = "catch" /\ req[c].op = "reverse" /\ fault[c] = "reversal"
  /\ LET same == {i \in ReversalsOf(req[c].originalTransactionId) :
                    /\ table[i].businessId = req[c].businessId
                    /\ table[i].idempotencyKey = req[c].idempotencyKey
                    /\ table[i].status = "POSTED"}
     IN IF same = {} THEN Return(c, Refusal("Conflict"))
        ELSE \E id \in same : Return(c, Ok(id))
  /\ UNCHANGED <<table, req, seen, fault>>

\* Any statement may fail (connection lost, process killed, trigger raised): the
\* open transaction is gone and the error is thrown to the caller.
Fail(c) ==
  /\ pc[c] \notin {"idle", "done"}
  /\ Return(c, Refusal("Error"))
  /\ UNCHANGED <<table, req, seen, fault>>

Step(c) ==
  \/ PostCheck(c) \/ FindOriginal(c) \/ CheckReversalKey(c) \/ CheckNotReversed(c)
  \/ Insert(c) \/ InsertRefused(c) \/ AssemblePost(c) \/ AssembleReversal(c)
  \/ Commit(c) \/ CatchPost(c) \/ CatchReversalKey(c) \/ CatchDoubleReversal(c)

Next == \E c \in Calls : Start(c) \/ Step(c) \/ CommitUnacknowledged(c) \/ Fail(c)

\* Calls need not arrive and faults need not happen; a call that has started keeps
\* running its statements.
Spec == Init /\ [][Next]_vars /\ \A c \in Calls : WF_vars(Step(c))

-----------------------------------------------------------------------------
(* Properties.                                                             *)

Entry == [accountId : Accounts, type : Sides, amountMinor : 1..MaxAmount]

Row == [businessId : Businesses, idempotencyKey : Keys, currency : Currencies,
        sourceType : Sources, sourcePayloadHash : Hashes \cup {NULL},
        reversalOf : Calls \cup {NULL},
        status : {"POSTING", "POSTED", "REVERSED"}, entries : Seq(Entry)]

\* Type invariant: every row, committed or not, is well formed, its amounts within
\* the range of the column.
TypeOK ==
  /\ DOMAIN table \subseteq Calls
  /\ \A i \in DOMAIN table : table[i] \in Row
  /\ DOMAIN writes = Calls
  /\ \A c \in Calls : /\ DOMAIN writes[c] \subseteq Calls
                      /\ \A i \in DOMAIN writes[c] : writes[c][i] \in Row
  /\ pc \in [Calls -> {"idle", "check", "find", "key", "reversed", "insert",
                       "assemble", "commit", "catch", "done"}]
  /\ req \in [Calls -> Requests \cup {NULL}]
  /\ seen \in [Calls -> Row \cup {NULL}]
  /\ fault \in [Calls -> {"none", "key", "reversal"}]
  /\ reply \in [Calls -> [outcome : {"none", "ok", "BadRequest", "Conflict", "Error"},
                          tx : Calls \cup {NULL}]]

\* However calls interleave and fail, a business never holds two transactions
\* under one idempotency key: the lookup before the insert is only a fast path,
\* and it is the wait on the unique index that decides the race
\* (postValidatedTransaction, reverseTransaction).
KeyUnique ==
  \A i, j \in DOMAIN table : SameKey(table[i], table[j]) => i = j

\* Row r undoes row i: same business, accounts and amounts, every side turned.
Undoes(r, i) ==
  /\ r.status = "POSTED" /\ r.businessId = i.businessId
  /\ DOMAIN r.entries = DOMAIN i.entries
  /\ \A k \in DOMAIN i.entries :
       /\ r.entries[k].accountId = i.entries[k].accountId
       /\ r.entries[k].amountMinor = i.entries[k].amountMinor
       /\ r.entries[k].type # i.entries[k].type

\* A committed transaction is REVERSED exactly when a committed reversal undoes
\* it, never has two reversals, and a reversal is never itself reversed: the two
\* rows of a reversal appear together or not at all, from whatever stale copy of
\* the original it was built (reverseTransaction, enforce_reversed_has_reversal).
ReversalPaired ==
  \A i \in DOMAIN table :
    /\ table[i].status = "REVERSED" <=> ReversalsOf(i) # {}
    /\ \A r, q \in ReversalsOf(i) : r = q
    /\ \A r \in ReversalsOf(i) : /\ Undoes(table[r], table[i])
                                 /\ table[i].reversalOf = NULL

\* What a list of entries adds to an account, debits positive, and the balance of
\* the account over a set of committed transactions.
Signed(e) == IF e.type = "DEBIT" THEN e.amountMinor ELSE -e.amountMinor

Net(entries, account) ==
  SumFunctionOnSet([k \in DOMAIN entries |-> Signed(entries[k])],
                   {k \in DOMAIN entries : entries[k].accountId = account})

Balance(account, ids) ==
  SumFunctionOnSet([i \in ids |-> Net(table[i].entries, account)], ids)

InForce == {i \in DOMAIN table : table[i].status = "POSTED" /\ table[i].reversalOf = NULL}
Owned(b) == {a \in Accounts : OwnerOf[a] = b}

\* In every state a reader can see, each account's balance over the whole ledger
\* is its balance over the transactions in force alone (posted, not reversed, not
\* a reversal), and the accounts of every business sum to zero: no half of a
\* reversal, no one-sided post and no entry on another tenant's account ever
\* shows in a balance (reverseTransaction, enforce_balanced_transaction,
\* assertAccountsBelongToBusiness).
BooksInForce ==
  /\ \A a \in Accounts : Balance(a, DOMAIN table) = Balance(a, InForce)
  /\ \A b \in Businesses :
       SumFunctionOnSet([a \in Owned(b) |-> Balance(a, DOMAIN table)], Owned(b)) = 0

\* A successful answer names a committed transaction that carries the request's
\* business and key and, for a post, its payload hash or, for a reversal, the
\* original it was asked to reverse - also when the answer comes from a lookup
\* or a catch block that read the winner of a race (reconcileIdempotentPost,
\* reconcileIdempotentReversal, the catch blocks).
AnswerTruthful ==
  \A c \in Calls : reply[c].outcome = "ok" =>
    LET id == reply[c].tx IN
    /\ id \in DOMAIN table
    /\ SameKey(table[id], req[c])
    /\ IF req[c].op = "post"
       THEN table[id].sourcePayloadHash = req[c].sourcePayloadHash
       ELSE table[id].reversalOf = req[c].originalTransactionId

\* Every call that has started is answered, whatever waits it meets on rows other
\* calls have in flight: no two calls wait for each other for ever, and no ended
\* call keeps a row locked (the finally blocks).
EveryCallAnswered == \A c \in Calls : pc[c] # "idle" ~> pc[c] = "done"

\* The abstract ledger (LedgerAbs): each call takes effect in one atomic step, a
\* committed transaction never changes but by its reversal, and success is only
\* ever answered with the row that holds the request's own key.
Atomic == INSTANCE LedgerAbs
Linearizable == Atomic!Spec

\* What reconcileIdempotentPost says of itself (ledger.service.ts:395-397): a
\* duplicate key "is only truly idempotent if the payload matches", so a post
\* that is answered with success is answered with its own payload.
PayloadMatches ==
  \A c \in Calls : reply[c].outcome = "ok" /\ req[c].op = "post" =>
    table[reply[c].tx].entries = req[c].entries

-----------------------------------------------------------------------------
(* The inductive invariant behind the safety properties (LedgerProofs).    *)

Original(c) == req[c].originalTransactionId

\* A call past the lookup of its original knows a committed row of its own tenant
\* that is not a reversal; only the status it has read may be out of date.
OriginalKnown(c) ==
  /\ seen[c] \in Row
  /\ Original(c) \in DOMAIN table
  /\ seen[c].businessId = req[c].businessId
  /\ seen[c].reversalOf = NULL
  /\ [table[Original(c)] EXCEPT !.status = seen[c].status] = seen[c]

\* What the open transaction of a call holds, and when.
OpenWrites(c) ==
  /\ pc[c] \notin {"assemble", "commit"} => DOMAIN writes[c] = {}
  /\ pc[c] = "assemble" => DOMAIN writes[c] = {c} /\ writes[c][c] = NewRow(c)
  /\ pc[c] = "commit" =>
       /\ writes[c][c] = [NewRow(c) EXCEPT !.entries = NewEntries(c), !.status = "POSTED"]
       /\ req[c].op = "post" => DOMAIN writes[c] = {c}
       /\ req[c].op = "reverse" =>
            /\ DOMAIN writes[c] = {c, Original(c)}
            /\ table[Original(c)].status = "POSTED"
            /\ writes[c][Original(c)] = [table[Original(c)] EXCEPT !.status = "REVERSED"]

CallState(c) ==
  /\ pc[c] # "idle" => req[c] \in Requests
  /\ pc[c] = "idle" => req[c] = NULL
  /\ pc[c] # "done" => c \notin DOMAIN table /\ reply[c] = Unanswered
  /\ pc[c] \notin {"idle", "done"} => Valid(req[c])
  /\ pc[c] = "check" => req[c].op = "post"
  /\ pc[c] = "find" => req[c].op = "reverse"
  /\ pc[c] \in {"key", "reversed"} => req[c].op = "reverse"
  /\ /\ pc[c] \in {"key", "reversed", "insert", "assemble", "commit", "catch"}
     /\ req[c].op = "reverse"
     => OriginalKnown(c)
  /\ OpenWrites(c)

\* The row a call has in flight clashes with no committed row and no other in flight.
InFlightUnique ==
  \A c \in Calls : pc[c] \in {"assemble", "commit"} =>
    /\ \A i \in DOMAIN table : ~Clash(writes[c][c], table[i])
    /\ \A d \in Calls \ {c} : pc[d] \in {"assemble", "commit"} =>
         ~Clash(writes[c][c], writes[d][d])

CommittedRows ==
  /\ KeyUnique
  /\ \A i, j \in DOMAIN table : SameOriginal(table[i], table[j]) => i = j
  /\ \A i \in DOMAIN table : /\ table[i].status # "POSTING"
                             /\ table[i].reversalOf # NULL => table[i].reversalOf \in DOMAIN table
  /\ ReversalPaired

IInv ==
  /\ TypeOK
  /\ \A c \in Calls : CallState(c)
  /\ InFlightUnique
  /\ CommittedRows
  /\ AnswerTruthful

\* Every committed row is balanced and on its own tenant's accounts, and so is the
\* row of a call about to commit (BooksInForce follows from this and IInv).
Booked ==
  /\ IsFiniteSet(DOMAIN table)
  /\ \A i \in DOMAIN table : /\ Balanced(table[i].entries)
                             /\ AccountsOwned(table[i].businessId, table[i].entries)
  /\ \A c \in Calls : pc[c] = "commit" =>
       AccountsOwned(writes[c][c].businessId, writes[c][c].entries)
=============================================================================
