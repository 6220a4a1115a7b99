------------------------------ MODULE Upgrade -------------------------------
(***************************************************************************)
(* The last five migrations over rows of earlier releases: a preflight     *)
(* that respells what is only spelled differently and records what it was, *)
(* a gate that counts what is ambiguous, and three that add constraints.   *)
(* Each runs in a transaction of its own, up or down, and applies wholly   *)
(* or, when a statement fails, not at all.  Between two of them rows are   *)
(* edited, by an operator or a release that still runs.                    *)
(*                                                                         *)
(* A cell of the database is a table, a row and a column.  "entries"       *)
(* stands for the kind of sale a transaction's two entries record.         *)
(***************************************************************************)
EXTENDS Naturals, FiniteSets

CONSTANTS
  Starts,     \* databases at the start, legal for the earlier releases
  Respelled,  \* upper(btrim(v)), or lower(btrim(v)) of a hash, where that differs from v
  Edits,      \* what may be written: a table, a column and a value
  MaxEdits,   \* bound: edits of a behaviour
  NULL


VARIABLES
  db,         \* rows by table and id
  applied,    \* how many of the five migrations are applied
  recorded,   \* legacy_integrity_remediations: old values by cell
  original,   \* the database that the preflight found
  edited,     \* cells edited since
  untouched   \* whether nothing was edited since the gate let the upgrade pass

upgradeVars == <<db, applied, recorded, original, edited, untouched>>

Preflight == 1   Gate == 2   RoundTwo == 3   Confirmation == 4   Downgrade == 5

SourceTypes == {"SYSTEM", "WHATSAPP", "API", "WEB"}
Currencies == {"ZAR", "USD", "JPY", "BHD"}
Kinds == {"SALE", "EXPENSE"}
Digests == {"a1", "b2"}  \* strings of 64 lower-case hexadecimal digits
Blank == {"", " "}

\* The tables and the columns of theirs that the migrations read.
Shaped(d) ==
  /\ DOMAIN d = {"transactions", "proposals", "principals", "alerts"}
  /\ \A i \in DOMAIN d.transactions :
       {"type", "hash", "currency", "source", "key", "entries"} \subseteq DOMAIN d.transactions[i]
  /\ \A i \in DOMAIN d.proposals :
       {"hash", "currency", "kind", "source", "status", "transaction"}
         \subseteq DOMAIN d.proposals[i]
  /\ \A t \in {"principals", "alerts"} : \A i \in DOMAIN d[t] : "currency" \in DOMAIN d[t][i]

\* A respelled value is spelled as it should be, and so is every value the later
\* releases support; NULL is none of them.
ASSUME UpgradeAssumption ==
  /\ MaxEdits \in Nat /\ \A d \in Starts : Shaped(d)
  /\ \A v \in DOMAIN Respelled : Respelled[v] \notin DOMAIN Respelled
  /\ (SourceTypes \cup Currencies \cup Kinds \cup Digests \cup {NULL}) \cap DOMAIN Respelled = {}
  /\ NULL \notin SourceTypes \cup Currencies \cup Kinds \cup Digests \cup Blank

Fold(v) == IF v \in DOMAIN Respelled THEN Respelled[v] ELSE v

Cells(d) ==
  UNION {UNION {{<<t, i, col>> : col \in DOMAIN d[t][i]} : i \in DOMAIN d[t]} : t \in DOMAIN d}

At(d, c) == d[c[1]][c[2]][c[3]]

-----------------------------------------------------------------------------
(* Preflight.                                                              *)

\* What may be respelled, per table and column, and into what.
Supported(table, column) ==
  CASE column = "type" -> SourceTypes
    [] column = "hash" -> Digests
    [] column = "currency" /\ table # "transactions" -> Currencies
    [] column = "kind" -> Kinds
    [] OTHER -> {}

\* The value a cell gets: a blank hash of an internal transaction becomes NULL, and no
\* other hash of one is touched.
Remediated(d, c) ==
  LET v == At(d, c)
      internal == c[1] = "transactions" /\ c[3] = "hash" /\ Fold(d[c[1]][c[2]].type) = "SYSTEM" IN
  IF internal THEN (IF v \in Blank THEN NULL ELSE v)
  ELSE IF Fold(v) \in Supported(c[1], c[3]) THEN Fold(v) ELSE v

\* The rows with the value each cell is given.
Rewritten(d, value) ==
  [t \in DOMAIN d |-> [i \in DOMAIN d[t] |-> [col \in DOMAIN d[t][i] |-> value[<<t, i, col>>]]]]

\* The constraints of the earlier releases, which hold at every commit.
Legal(d) ==
  /\ \A i \in DOMAIN d.transactions :
       LET t == d.transactions[i] IN
       t.type = "SYSTEM" \/ (t.hash # NULL /\ t.hash \notin Blank)
  /\ \A i \in DOMAIN d.proposals :
       LET p == d.proposals[i] IN
       /\ p.hash # NULL /\ p.currency \notin DOMAIN Respelled
       /\ p.status = "CONFIRMED" <=> p.transaction # NULL
  /\ \A i, j \in DOMAIN d.transactions : d.transactions[i].key = d.transactions[j].key => i = j

-----------------------------------------------------------------------------
(* The gate, and the constraints it stands for.                            *)

\* CHK_transactions_source_hash_v2; NULL decides neither the check nor the count.
HashFits(t) ==
  IF t.type = "SYSTEM" THEN t.hash = NULL ELSE t.hash = NULL \/ t.hash \in Digests

\* Mutant: a confirmed proposal is taken to have its own transaction.
Confirms_Any(d, i) == TRUE

\* Whether the transaction that a confirmed proposal names was posted for it.
Confirms(d, i) ==
  LET p == d.proposals[i] IN
  /\ p.transaction \in DOMAIN d.transactions
  /\ LET t == d.transactions[p.transaction] IN
     /\ t.currency = p.currency /\ t.key = i /\ t.type = "WHATSAPP"
     /\ t.source = p.source /\ t.hash = p.hash /\ t.entries = p.kind

\* refresh_legacy_integrity_preflight: the rows of its categories.
Issues(d) ==
  {<<"transactions", i>> : i \in {j \in DOMAIN d.transactions :
     LET t == d.transactions[j] IN
     \/ t.type \notin SourceTypes \/ ~HashFits(t) \/ t.currency \notin Currencies
     \/ t.type = "WHATSAPP" /\ (t.source = NULL \/ t.source \in Blank)}}
  \cup {<<"proposals", i>> : i \in {j \in DOMAIN d.proposals :
     LET p == d.proposals[j] IN
     \/ p.hash \notin Digests \/ p.kind \notin Kinds \/ p.currency \notin Currencies
     \/ p.status = "CONFIRMED" /\ ~Confirms(d, j)}}
  \cup UNION {{<<t, i>> : i \in {j \in DOMAIN d[t] : d[t][j].currency \notin Currencies}} :
                t \in {"principals", "alerts"}}

\* What each of the later migrations adds to the constraints in force.
RoundTwoHolds(d) ==
  /\ \A t \in DOMAIN d : \A i \in DOMAIN d[t] : d[t][i].currency \in Currencies
  /\ \A i \in DOMAIN d.transactions :
       LET t == d.transactions[i] IN
       /\ t.type \in SourceTypes /\ HashFits(t)
       /\ t.type = "WHATSAPP" => t.source # NULL /\ t.source \notin Blank
  /\ \A i \in DOMAIN d.proposals : d.proposals[i].hash \in Digests

ConfirmationHolds(d) ==
  /\ \A i \in DOMAIN d.proposals : d.proposals[i].kind \in Kinds
  /\ \A i, j \in DOMAIN d.proposals :
       d.proposals[i].transaction # NULL /\ d.proposals[i].transaction = d.proposals[j].transaction
         => i = j

InForce(d, n) ==
  Legal(d) /\ (n >= RoundTwo => RoundTwoHolds(d)) /\ (n >= Confirmation => ConfirmationHolds(d))

-----------------------------------------------------------------------------

UpgradeInit ==
  /\ db \in Starts /\ Legal(db)
  /\ applied = 0 /\ recorded = [c \in {} |-> NULL]
  /\ original = db /\ edited = {} /\ untouched = FALSE

PreflightUp ==
  /\ applied = 0 /\ applied' = Preflight
  /\ LET changed == {c \in Cells(db) : Remediated(db, c) # At(db, c)} IN
     recorded' = [c \in changed |-> At(db, c)]
  /\ db' = Rewritten(db, [c \in Cells(db) |-> Remediated(db, c)])
  /\ original' = db /\ edited' = {} /\ UNCHANGED untouched

GateUp ==
  /\ applied = Preflight /\ Issues(db) = {}
  /\ applied' = Gate /\ untouched' = TRUE
  /\ UNCHANGED <<db, recorded, original, edited>>

\* The three others: their ALTER TABLE fails unless every row obeys.
ConstraintsUp ==
  /\ applied \in Gate..Confirmation /\ InForce(db, applied + 1)
  /\ applied' = applied + 1
  /\ UNCHANGED <<db, recorded, original, edited, untouched>>

\* undoLastMigration of any but the preflight: the last one refuses while an alert's
\* delivery is uncertain.
Undo ==
  /\ applied > Preflight
  /\ applied = Downgrade => \A i \in DOMAIN db.alerts : db.alerts[i].status # "DELIVERY_UNCERTAIN"
  /\ applied' = applied - 1
  /\ untouched' = (untouched /\ applied' >= Gate)
  /\ UNCHANGED <<db, recorded, original, edited>>

\* restoreColumn.
Restored(c) == IF c \in DOMAIN recorded THEN recorded[c] ELSE At(db, c)

PreflightDown ==
  /\ applied = Preflight /\ applied' = 0
  /\ db' = Rewritten(db, [c \in Cells(db) |-> Restored(c)]) /\ Legal(db')
  /\ recorded' = [c \in {} |-> NULL]
  /\ UNCHANGED <<original, edited, untouched>>

\* UPDATE of a column, within the constraints; once the fourth migration is applied, a
\* proposal's facts are frozen and what it confirms is checked.
Edit(c, v) ==
  /\ Cardinality(edited) < MaxEdits
  /\ At(db, c) # v
  /\ db' = Rewritten(db, [x \in Cells(db) |-> IF x = c THEN v ELSE At(db, x)])
  /\ applied >= Confirmation /\ c[1] = "proposals" =>
       /\ c[3] \in {"status", "transaction"}
       /\ db'.proposals[c[2]].status = "CONFIRMED" => Confirms(db', c[2])
  /\ InForce(db', applied)
  /\ edited' = edited \cup {c} /\ untouched' = FALSE
  /\ UNCHANGED <<applied, recorded, original>>

UpgradeNext ==
  \/ PreflightUp \/ GateUp \/ ConstraintsUp \/ Undo \/ PreflightDown
  \/ \E c \in Cells(db), e \in Edits : e.table = c[1] /\ e.column = c[3] /\ Edit(c, e.value)

UpgradeSpec == UpgradeInit /\ [][UpgradeNext]_upgradeVars

-----------------------------------------------------------------------------
(* Properties.                                                             *)

\* Two spellings of a cell mean the same.
SameMeaning(v, w) == Fold(v) = Fold(w) \/ {v, w} \subseteq Blank \cup {NULL}

\* An upgrade that passes the gate never fails later on for a row nobody has edited,
\* not even on the uniqueness of a proposal's transaction, which the gate does not
\* count; a cell nobody edits means what it meant before, at every version; and once
\* the preflight is undone it is spelled as it was (DECISIONS.md:28, "reversible
\* semantics-preserving canonicalization").
UpgradePreserves ==
  /\ untouched => InForce(db, Downgrade)
  /\ \A c \in Cells(db) \ edited :
       /\ SameMeaning(At(db, c), At(original, c))
       /\ applied = 0 => At(db, c) = At(original, c)

-----------------------------------------------------------------------------
(* The inductive invariant behind it (SchemaProofs).                       *)

\* A cell nobody edited is as the preflight found it, or left it, and the preflight
\* recorded the old value of every cell it changed; once the gate has let the upgrade
\* pass, the constraints of all three migrations hold until the next edit.
UpgradeInv ==
  /\ applied \in 0..Downgrade /\ Shaped(db) /\ Shaped(original) /\ Legal(db)
  /\ Cells(db) = Cells(original)
  /\ untouched => applied >= Gate /\ InForce(db, Downgrade)
  /\ \A c \in Cells(db) \ edited :
       At(db, c) = IF applied = 0 THEN At(original, c) ELSE Remediated(original, c)
  /\ applied > 0 =>
       recorded = [c \in {x \in Cells(original) : Remediated(original, x) # At(original, x)} |->
                     At(original, c)]
=============================================================================
