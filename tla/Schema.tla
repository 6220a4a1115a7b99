------------------------------- MODULE Schema -------------------------------
(***************************************************************************)
(* What the migrated database alone guarantees of the ledger's tables: two *)
(* or more sessions send it any INSERT, UPDATE and DELETE on               *)
(* "transactions", "entries" and "accounts", in any order, and its         *)
(* constraints, row triggers and deferred constraint triggers refuse some  *)
(* of them.  A refused statement ends in Rollback.  Ledger models the      *)
(* statements the service sends.  TRUNCATE, which fires no row trigger,    *)
(* is left out: nothing in the schema refuses it.                          *)
(*                                                                         *)
(* READ COMMITTED: a session sees the committed rows and its own.  COMMIT  *)
(* runs the deferred triggers one row after another, each on what is       *)
(* committed by then, before it makes the session's rows visible.          *)
(* Idempotency keys are left to Ledger.                                    *)
(***************************************************************************)
EXTENDS Naturals, Sequences, FiniteSets, SequencesExt

CONSTANTS
  Backends,    \* database sessions
  Ids,         \* ids of rows of transactions
  Headers,     \* what the sessions insert as a row's status, business, ...
  Inserts,     \* lists of entries, each of which one INSERT may carry
  Opened,      \* the rows of accounts at the start, by id
  Accounts, Charts,  \* ids of accounts, and what is written as a row of accounts
  MaxLines,    \* bound: entries of a transaction
  NONE

Line == [account : Accounts, type : {"DEBIT", "CREDIT"}, amount : Nat \ {0}]

ASSUME HeaderAssumption ==
  \A h \in Headers : /\ h.status \in {"POSTING", "POSTED", "REVERSED"}
                     /\ h.reverses \in Ids \cup {NONE}
ASSUME LineAssumption == Inserts \subseteq Seq(Line)
ASSUME IdAssumption == NONE \notin Ids /\ DOMAIN Opened \subseteq Accounts /\ MaxLines \in Nat

VARIABLES
  rows,      \* committed rows of transactions with their entries, by id
  chart,     \* committed rows of accounts, by id
  session    \* per backend: its phase, its own row versions, the rows to check

schemaVars == <<rows, chart, session>>

Unopened == [phase |-> "idle", own |-> [i \in {} |-> NONE], todo |-> {}]

SchemaInit ==
  /\ rows = [i \in {} |-> NONE]
  /\ chart = Opened
  /\ session = [s \in Backends |-> Unopened]

Own(s) == session[s].own

\* What a backend sees: its own row versions over the committed ones.
View(s) == [i \in DOMAIN rows \cup DOMAIN Own(s) |->
              IF i \in DOMAIN Own(s) THEN Own(s)[i] ELSE rows[i]]

Writing(s) == session[s].phase = "idle"

Write(s, i, row) ==
  session' = [session EXCEPT ![s].own = [j \in DOMAIN @ \cup {i} |-> IF j = i THEN row ELSE @[j]]]

-----------------------------------------------------------------------------
(* Constraints and row triggers: what a statement may do.                  *)

\* Mutant: only committed reversals count.
OneReversal_Committed(i) == \A r \in DOMAIN rows : rows[r].reverses # i

\* UQ_transactions_one_reversal_per_original, which waits for uncommitted rows too.
OneReversal(i) ==
  /\ \A r \in DOMAIN rows : rows[r].reverses # i
  /\ \A s \in Backends : \A r \in DOMAIN Own(s) : Own(s)[r].reverses # i

\* The original is a row of the same business, the new row itself included.
SameTenant(s, i, h) ==
  \/ h.reverses = i
  \/ h.reverses \in DOMAIN View(s) /\ View(s)[h.reverses].business = h.business

\* prevent_reversal_of_reversal, which finds nothing for a row that is not there yet.
NotOfReversal(s, h) ==
  h.reverses \in DOMAIN View(s) => View(s)[h.reverses].reverses = NONE

\* prevent_entry_insert_on_posted.
EntryAllowed(row) == row.status = "POSTING"

\* The composite foreign keys of entries.
TenantLine(row, line) == line.account \in DOMAIN chart /\ chart[line.account].business = row.business

\* The lifecycle of a row.
Moves(old, new) ==
  \/ new = old
  \/ old = "POSTING" /\ new = "POSTED"
  \/ old = "POSTED" /\ new = "REVERSED"

\* prevent_transaction_mutation and prevent_entry_mutation.
Frozen(old, new) ==
  /\ new.business = old.business /\ new.currency = old.currency /\ new.reverses = old.reverses
  /\ new.entries = old.entries

\* prevent_referenced_account_reclassification, of every account since RoundTwo.
SameClass(old, new) == new.business = old.business /\ new.type = old.type

RefersTo(row, a) == \E n \in DOMAIN row.entries : row.entries[n].account = a

\* Mutant: a check that does not wait for uncommitted entries.
InUse_Committed(a) == \E i \in DOMAIN rows : RefersTo(rows[i], a)

\* FK_entries_account_business restricts deletes.  An uncommitted entry holds a lock on
\* its account, for which the DELETE waits.
InUse(a) ==
  \/ \E i \in DOMAIN rows : RefersTo(rows[i], a)
  \/ \E s \in Backends : \E i \in DOMAIN Own(s) : RefersTo(Own(s)[i], a)

-----------------------------------------------------------------------------
(* Deferred constraint triggers: what COMMIT checks of a row.              *)

Mirrored(lines) ==
  [n \in DOMAIN lines |->
     [lines[n] EXCEPT !.type = IF @ = "DEBIT" THEN "CREDIT" ELSE "DEBIT"]]

Copies(line, lines) == Cardinality({n \in DOMAIN lines : lines[n] = line})

Total(type, lines) ==
  FoldLeft(LAMBDA sum, l : IF l.type = type THEN sum + l.amount ELSE sum, 0, lines)

\* enforce_transaction_has_entries.
HasEntries(row) == Len(row.entries) >= 1

\* enforce_balanced_transaction, which counts in numeric and so cannot overflow.
DoubleEntry(row) ==
  Len(row.entries) >= 2 /\ Total("DEBIT", row.entries) = Total("CREDIT", row.entries)

\* enforce_no_committed_posting.
Assembled(row) == row.status # "POSTING"

\* enforce_reversed_has_reversal.
Undone(view, i) ==
  view[i].status = "REVERSED" =>
    \E r \in DOMAIN view : /\ view[r].reverses = i /\ view[r].status = "POSTED"
                           /\ view[r].business = view[i].business
                           /\ view[r].currency = view[i].currency

\* enforce_posted_reversal_has_reversed_original.
Undoes(view, i) ==
  LET o == view[i].reverses IN
  o # NONE => /\ view[i].status = "POSTED"
              /\ o \in DOMAIN view /\ view[o].status = "REVERSED"
              /\ view[o].business = view[i].business /\ view[o].currency = view[i].currency

\* enforce_reversal_mirrors_original: EXCEPT ALL both ways.
Mirrors(view, i) ==
  LET o == view[i].reverses IN
  o # NONE => /\ o \in DOMAIN view
              /\ \A l \in ToSet(view[i].entries) \cup ToSet(Mirrored(view[o].entries)) :
                   Copies(l, view[i].entries) = Copies(l, Mirrored(view[o].entries))

\* The triggers that a row inserted, given entries or updated by the session queued.
Deferred(s, i) ==
  LET view == View(s)
      row == view[i] IN
  /\ i \notin DOMAIN rows => HasEntries(row)
  /\ (i \notin DOMAIN rows \/ rows[i].entries # row.entries) => DoubleEntry(row)
  /\ Assembled(row) /\ Undone(view, i) /\ Undoes(view, i) /\ Mirrors(view, i)

-----------------------------------------------------------------------------
(* Statements.                                                             *)

\* INSERT INTO transactions, under a fresh id.
InsertRow(s, i, h) ==
  /\ Writing(s) /\ i \notin DOMAIN rows /\ \A o \in Backends : i \notin DOMAIN Own(o)
  /\ h.reverses # NONE =>
       /\ SameTenant(s, i, h) /\ NotOfReversal(s, h) /\ OneReversal(h.reverses)
  /\ Write(s, i, [status |-> h.status, business |-> h.business, currency |-> h.currency,
                  reverses |-> h.reverses, entries |-> <<>>])
  /\ UNCHANGED <<rows, chart>>

\* INSERT INTO entries, one or several.
InsertEntries(s, i, lines) ==
  /\ Writing(s) /\ i \in DOMAIN View(s)
  /\ LET row == View(s)[i] IN
     /\ EntryAllowed(row) /\ Len(row.entries) + Len(lines) <= MaxLines
     /\ \A n \in DOMAIN lines : TenantLine(row, lines[n])
     /\ Write(s, i, [row EXCEPT !.entries = @ \o lines])
  /\ UNCHANGED <<rows, chart>>

\* What an UPDATE of a row, or a DELETE of its entries, would make of it.  A DELETE of
\* the row itself, which prevent_transaction_mutation always refuses, makes nothing of it.
Attempts(old) ==
  {[old EXCEPT !.status = st] : st \in {"POSTING", "POSTED", "REVERSED"}}
  \cup {[old EXCEPT !.business = h.business, !.currency = h.currency, !.reverses = h.reverses] :
          h \in Headers}
  \cup {[old EXCEPT !.entries = <<>>]}

\* UPDATE transactions, on a row no other session has locked.
UpdateRow(s, i) ==
  /\ Writing(s) /\ i \in DOMAIN View(s)
  /\ \A o \in Backends \ {s} : i \notin DOMAIN Own(o)
  /\ LET old == View(s)[i] IN
     \E new \in Attempts(old) :
       Frozen(old, new) /\ Moves(old.status, new.status) /\ Write(s, i, new)
  /\ UNCHANGED <<rows, chart>>

\* INSERT INTO, UPDATE and DELETE FROM accounts, each in a transaction of its own.  An
\* account's name, which no rule reads, is left out.
InsertAccount(a) ==
  /\ a \notin DOMAIN chart
  /\ \E new \in Charts :
       chart' = [b \in DOMAIN chart \cup {a} |-> IF b = a THEN new ELSE chart[b]]
  /\ UNCHANGED <<rows, session>>

UpdateAccount(a) ==
  /\ a \in DOMAIN chart
  /\ \E new \in Charts : SameClass(chart[a], new) /\ chart' = [chart EXCEPT ![a] = new]
  /\ UNCHANGED <<rows, session>>

DeleteAccount(a) ==
  /\ a \in DOMAIN chart /\ ~InUse(a)
  /\ chart' = [b \in DOMAIN chart \ {a} |-> chart[b]]
  /\ UNCHANGED <<rows, session>>

\* COMMIT, from the queueing of the triggers to the visibility of the rows.
BeginCommit(s) ==
  /\ Writing(s) /\ Own(s) # Unopened.own
  /\ session' = [session EXCEPT ![s] = [phase |-> "commit", own |-> Own(s), todo |-> DOMAIN Own(s)]]
  /\ UNCHANGED <<rows, chart>>

Check(s, i) ==
  /\ session[s].phase = "commit" /\ i \in session[s].todo
  /\ Deferred(s, i)
  /\ session' = [session EXCEPT ![s].todo = @ \ {i}]
  /\ UNCHANGED <<rows, chart>>

Publish(s) ==
  /\ session[s].phase = "commit" /\ session[s].todo = {}
  /\ rows' = View(s)
  /\ session' = [session EXCEPT ![s] = Unopened]
  /\ UNCHANGED chart

\* ROLLBACK, by request or because a statement, a trigger or the connection failed.
Rollback(s) ==
  /\ session[s] # Unopened
  /\ session' = [session EXCEPT ![s] = Unopened]
  /\ UNCHANGED <<rows, chart>>

SchemaNext ==
  \/ \E a \in Accounts : InsertAccount(a) \/ UpdateAccount(a) \/ DeleteAccount(a)
  \/ \E s \in Backends :
       \/ BeginCommit(s) \/ Publish(s) \/ Rollback(s)
       \/ \E i \in Ids : \/ Check(s, i) \/ UpdateRow(s, i)
                         \/ \E h \in Headers : InsertRow(s, i, h)
                         \/ \E lines \in Inserts : InsertEntries(s, i, lines)

SchemaSpec == SchemaInit /\ [][SchemaNext]_schemaVars

-----------------------------------------------------------------------------
(* Properties.                                                             *)

ReversalsOfRow(i) == {r \in DOMAIN rows : rows[r].reverses = i}

\* Whatever is inserted, updated and deleted, and however two commits overlap, committed
\* books are double-entry books of one tenant each, and a row is REVERSED exactly when one
\* other row undoes it, line by line, for the same business and currency.
CommittedBooks ==
  \A i \in DOMAIN rows :
    /\ rows[i].status # "POSTING" /\ DoubleEntry(rows[i])
    /\ \A n \in DOMAIN rows[i].entries : TenantLine(rows[i], rows[i].entries[n])
    /\ rows[i].status = "REVERSED" <=> ReversalsOfRow(i) # {}
    /\ \A r, q \in ReversalsOfRow(i) : r = q
    /\ rows[i].reverses # NONE =>
         /\ rows[i].reverses \in DOMAIN rows /\ rows[rows[i].reverses].reverses = NONE
         /\ Undoes(rows, i) /\ Mirrors(rows, i)

\* No INSERT, UPDATE or DELETE takes a committed row back, nor the class of an account
\* it was posted to: rows stay, with the entries and facts they were committed with, and
\* only ever become REVERSED; their accounts stay, of the same business and type, though
\* they were still without a committed entry when somebody set out to delete them.  (An
\* account no entry refers to may be deleted, and its id given to one of another class.)
PostedStands ==
  [][\A i \in DOMAIN rows :
       /\ i \in DOMAIN rows' /\ Frozen(rows[i], rows'[i])
       /\ rows'[i].status # rows[i].status => rows'[i].status = "REVERSED"
       /\ \A a \in Accounts : RefersTo(rows[i], a) =>
            a \in DOMAIN chart \cap DOMAIN chart' /\ SameClass(chart[a], chart'[a])]_schemaVars
=============================================================================
