----------------------------- MODULE LedgerAbs ------------------------------
(***************************************************************************)
(* What the ledger promises: a table of sealed transactions to which a     *)
(* request adds in one atomic step, if it adds anything, and from which    *)
(* every successful answer is given.  No statement, lock or catch block is *)
(* visible here; Ledger implements it.                                     *)
(***************************************************************************)
EXTENDS Integers, Sequences

CONSTANTS Calls, NULL

VARIABLES table, req, reply

avars == <<table, req, reply>>

Keyed(row, r) == row.businessId = r.businessId /\ row.idempotencyKey = r.idempotencyKey

AInit ==
  /\ DOMAIN table = {}
  /\ req = [c \in Calls |-> NULL]
  /\ reply = [c \in Calls |-> [outcome |-> "none", tx |-> NULL]]

\* A request arrives, once per call.
Submit(c) ==
  /\ req[c] = NULL
  /\ req'[c] # NULL
  /\ \A d \in Calls \ {c} : req'[d] = req[d]
  /\ table' = table
  /\ \A d \in Calls \ {c} : reply'[d] = reply[d]
  /\ reply'[c].outcome \in {"none", "BadRequest"}

\* The row of a post: sealed at once, its key free, its entries the request's.
Post(c) ==
  /\ req[c].op = "post"
  /\ \A i \in DOMAIN table : ~Keyed(table[i], req[c])
  /\ DOMAIN table' = DOMAIN table \cup {c}
  /\ \A i \in DOMAIN table : table'[i] = table[i]
  /\ Keyed(table'[c], req[c])
  /\ table'[c].status = "POSTED" /\ table'[c].reversalOf = NULL
  /\ table'[c].entries = req[c].entries
  /\ table'[c].sourcePayloadHash = req[c].sourcePayloadHash

\* A reversal and the mark on its original, together.
Reverse(c) ==
  LET o == req[c].originalTransactionId IN
  /\ req[c].op = "reverse"
  /\ o \in DOMAIN table
  /\ table[o].status = "POSTED" /\ table[o].reversalOf = NULL
  /\ \A i \in DOMAIN table : ~Keyed(table[i], req[c])
  /\ DOMAIN table' = DOMAIN table \cup {c}
  /\ table'[o] = [table[o] EXCEPT !.status = "REVERSED"]
  /\ \A i \in DOMAIN table \ {o} : table'[i] = table[i]
  /\ Keyed(table'[c], req[c])
  /\ table'[c].status = "POSTED" /\ table'[c].reversalOf = o

\* A call takes effect, at most once and only before it is answered; its caller
\* learns of the row or of an error.
TakeEffect(c) ==
  /\ c \notin DOMAIN table
  /\ req[c] # NULL /\ reply[c].outcome = "none"
  /\ Post(c) \/ Reverse(c)
  /\ \/ reply' = [reply EXCEPT ![c] = [outcome |-> "ok", tx |-> c]]
     \/ reply' = [reply EXCEPT ![c] = [outcome |-> "Error", tx |-> NULL]]
  /\ req' = req

\* A call that takes no effect is answered from the table as it is.
Answer(c) ==
  /\ req[c] # NULL /\ reply[c].outcome = "none"
  /\ \/ \E i \in DOMAIN table :
          /\ Keyed(table[i], req[c])
          /\ reply' = [reply EXCEPT ![c] = [outcome |-> "ok", tx |-> i]]
     \/ \E why \in {"BadRequest", "Conflict", "Error"} :
          reply' = [reply EXCEPT ![c] = [outcome |-> why, tx |-> NULL]]
  /\ UNCHANGED <<table, req>>

ANext == \E c \in Calls : Submit(c) \/ TakeEffect(c) \/ Answer(c)

Spec == AInit /\ [][ANext]_avars
=============================================================================
