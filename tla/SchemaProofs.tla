---------------------------- MODULE SchemaProofs ----------------------------
(***************************************************************************)
(* Theorems about Schema, for any number of database sessions, any ids,    *)
(* statements and accounts: the constraints and triggers alone keep the    *)
(* committed books.  And about Upgrade, for any rows and edits.            *)
(***************************************************************************)
EXTENDS Schema, Upgrade, TLAPS

\* A row of transactions with its entries, and a database session.
IsRow(row) ==
  /\ row = [status |-> row.status, business |-> row.business, currency |-> row.currency,
            reverses |-> row.reverses, entries |-> row.entries]
  /\ row.reverses \in Ids \cup {NONE} /\ row.entries \in Seq(Line)

IsSession(x) ==
  /\ x = [phase |-> x.phase, own |-> x.own, todo |-> x.todo]
  /\ x.phase \in {"idle", "commit"} /\ DOMAIN x.own \subseteq Ids
  /\ \A i \in DOMAIN x.own : IsRow(x.own[i])

Shape ==
  /\ DOMAIN rows \subseteq Ids /\ \A i \in DOMAIN rows : IsRow(rows[i])
  /\ session = [s \in Backends |-> session[s]] /\ \A s \in Backends : IsSession(session[s])
  /\ DOMAIN chart \subseteq Accounts

\* A row has one writer at a time.
OneWriter ==
  \A s, o \in Backends : \A i \in DOMAIN Own(s) : i \in DOMAIN Own(o) => s = o

\* Statuses only go forward.
Later(old, new) == new = old \/ (old # "POSTING" /\ new = "REVERSED")

\* A session's version of a committed row changes nothing but the status.
Versions ==
  \A s \in Backends : \A i \in DOMAIN Own(s) : i \in DOMAIN rows =>
    Frozen(rows[i], Own(s)[i]) /\ Later(rows[i].status, Own(s)[i].status)

\* Somebody's version of row i reverses row x.
Reverses(i, x) ==
  \/ i \in DOMAIN rows /\ rows[i].reverses = x
  \/ \E s \in Backends : i \in DOMAIN Own(s) /\ Own(s)[i].reverses = x

OneReverser == \A x \in Ids : \A i, j : Reverses(i, x) /\ Reverses(j, x) => i = j

\* What a session's reversal points at: itself, in vain, or a row that is no reversal.
Aims ==
  \A s \in Backends : \A i \in DOMAIN Own(s) :
    LET o == Own(s)[i].reverses IN
    o \notin {NONE, i} => o \in DOMAIN View(s) /\ View(s)[o].reverses = NONE

TenantLines(row) == \A n \in DOMAIN row.entries : TenantLine(row, row.entries[n])

Tenants == \A s \in Backends : \A i \in DOMAIN Own(s) : TenantLines(Own(s)[i])

\* What COMMIT has checked so far still holds.
Checked ==
  \A s \in Backends : session[s].phase = "commit" =>
    \A i \in DOMAIN Own(s) : i \notin session[s].todo => Deferred(s, i)

IInv ==
  /\ Shape /\ OneWriter /\ Versions /\ OneReverser /\ Aims /\ Tenants /\ Checked
  /\ CommittedBooks

LEMMA ViewIs ==
  ASSUME NEW s
  PROVE  /\ DOMAIN View(s) = DOMAIN rows \cup DOMAIN Own(s)
         /\ \A i \in DOMAIN Own(s) : View(s)[i] = Own(s)[i]
         /\ \A i \in DOMAIN rows : i \notin DOMAIN Own(s) => View(s)[i] = rows[i]
  BY DEF View

LEMMA InitInv == SchemaInit => IInv
<1> SUFFICES ASSUME SchemaInit PROVE IInv
  OBVIOUS
<1>1. DOMAIN rows = {} /\ \A s \in Backends : session[s] = Unopened
  BY DEF SchemaInit
<1>2. DOMAIN Unopened.own = {} /\ Unopened.phase = "idle" /\ Unopened.todo = {}
  BY DEF Unopened
<1>3. \A s \in Backends : DOMAIN Own(s) = {}
  BY <1>1, <1>2 DEF Own
<1>4. IsSession(Unopened)
  BY <1>2 DEF IsSession, Unopened
<1>5. Shape
  BY <1>1, <1>4, IdAssumption DEF SchemaInit, Shape
<1>6. OneReverser /\ CommittedBooks
  BY <1>1, <1>3 DEF OneReverser, Reverses, CommittedBooks
<1>7. OneWriter /\ Versions /\ Aims /\ Tenants
  BY <1>3 DEF OneWriter, Versions, Aims, Tenants
<1>8. Checked
  BY <1>1, <1>2 DEF Checked
<1> QED BY <1>5, <1>6, <1>7, <1>8 DEF IInv

-----------------------------------------------------------------------------
(* The checks of COMMIT depend only on what they look at.                  *)

\* Two views agree on row i and on what it is checked against.
Agree(v, w, i) ==
  /\ w[i] = v[i]
  /\ LET o == v[i].reverses IN
     o \in DOMAIN v =>
       /\ o \in DOMAIN w /\ w[o].entries = v[o].entries /\ w[o].business = v[o].business
       /\ w[o].currency = v[o].currency /\ (v[o].status = "REVERSED" => w[o].status = "REVERSED")
  /\ \A r \in DOMAIN v : v[r].reverses = i /\ v[r].status = "POSTED" =>
       /\ r \in DOMAIN w /\ w[r].reverses = i /\ w[r].status = "POSTED"
       /\ w[r].business = v[r].business /\ w[r].currency = v[r].currency

LEMMA ChecksAgree ==
  ASSUME NEW v, NEW w, NEW i, Agree(v, w, i)
  PROVE  /\ Undone(v, i) => Undone(w, i)
         /\ Undoes(v, i) => Undoes(w, i)
         /\ Mirrors(v, i) => Mirrors(w, i)
<1>1. Undone(v, i) => Undone(w, i)
  BY DEF Undone, Agree
<1>2. Undoes(v, i) => Undoes(w, i)
  BY DEF Undoes, Agree
<1>3. Mirrors(v, i) => Mirrors(w, i)
  <2> SUFFICES ASSUME Mirrors(v, i), v[i].reverses # NONE PROVE Mirrors(w, i)
    BY DEF Mirrors, Agree
  <2>1. PICK o : o = v[i].reverses
    OBVIOUS
  <2>2. /\ o \in DOMAIN v /\ o \in DOMAIN w /\ w[o].entries = v[o].entries
        /\ w[i].entries = v[i].entries /\ w[i].reverses = o
    BY <2>1 DEF Mirrors, Agree
  <2>3. PICK es, os : es = v[i].entries /\ os = v[o].entries
    OBVIOUS
  <2>4. \A l \in ToSet(es) \cup ToSet(Mirrored(os)) : Copies(l, es) = Copies(l, Mirrored(os))
    BY <2>1, <2>2, <2>3 DEF Mirrors
  <2> QED BY <2>2, <2>3, <2>4 DEF Mirrors
<1> QED BY <1>1, <1>2, <1>3
LEMMA ChecksKept ==
  ASSUME NEW s, NEW i, View(s)' = View(s),
         i \in DOMAIN rows' <=> i \in DOMAIN rows,
         i \in DOMAIN rows => rows'[i] = rows[i]
  PROVE  Deferred(s, i)' <=> Deferred(s, i)
  BY DEF Deferred

-----------------------------------------------------------------------------
(* Statements of a session that has not begun to commit.                   *)

LEMMA WriteIs ==
  ASSUME Shape, NEW s \in Backends, NEW i \in Ids, NEW row, IsRow(row), Write(s, i, row)
  PROVE  /\ session' = [o \in Backends |-> session'[o]]
         /\ \A o \in Backends : o # s => session'[o] = session[o]
         /\ IsSession(session'[s]) /\ session'[s].phase = session[s].phase
         /\ DOMAIN Own(s)' = DOMAIN Own(s) \cup {i} /\ Own(s)'[i] = row
         /\ \A j \in DOMAIN Own(s) : j # i => Own(s)'[j] = Own(s)[j]
<1>1. PICK f : f = [j \in DOMAIN Own(s) \cup {i} |-> IF j = i THEN row ELSE Own(s)[j]]
  OBVIOUS
<1>2. session' = [session EXCEPT ![s].own = f]
  BY <1>1 DEF Write, Own
<1>3. IsSession(session[s])
  BY DEF Shape
<1>4. /\ session'[s] = [session[s] EXCEPT !.own = f]
      /\ session' = [o \in Backends |-> session'[o]]
      /\ \A o \in Backends : o # s => session'[o] = session[o]
  BY <1>2 DEF Shape
<1>5. session'[s] = [phase |-> session[s].phase, own |-> f, todo |-> session[s].todo]
  BY <1>3, <1>4 DEF IsSession
<1>6. /\ DOMAIN f = DOMAIN Own(s) \cup {i} /\ f[i] = row
      /\ \A j \in DOMAIN Own(s) : j # i => f[j] = Own(s)[j]
  BY <1>1
<1>7. \A j \in DOMAIN f : IsRow(f[j])
  BY <1>3, <1>6 DEF IsSession, Own
<1>8. IsSession(session'[s])
  BY <1>3, <1>5, <1>6, <1>7 DEF IsSession, Own
<1> QED BY <1>4, <1>5, <1>6, <1>8 DEF Own

LEMMA BooksKept == ASSUME CommittedBooks, UNCHANGED <<rows, chart>> PROVE CommittedBooks'
  BY DEF CommittedBooks, ReversalsOfRow, TenantLine

\* A session writes its version of a row: of a new one, or of one it may change.
LEMMA WriteInv ==
  ASSUME IInv, NEW s \in Backends, Writing(s), NEW i \in Ids, NEW row, IsRow(row),
         Write(s, i, row), UNCHANGED <<rows, chart>>,
         \A o \in Backends : o # s => i \notin DOMAIN Own(o),
         i \in DOMAIN rows => Frozen(rows[i], row) /\ Later(rows[i].status, row.status),
         i \in DOMAIN View(s) => row.reverses = View(s)[i].reverses,
         i \notin DOMAIN View(s) =>
           /\ \A j : row.reverses # NONE => ~Reverses(j, row.reverses)
           /\ row.reverses \notin {NONE, i} =>
                row.reverses \in DOMAIN View(s) /\ View(s)[row.reverses].reverses = NONE,
         TenantLines(row)
  PROVE  IInv'
<1>1. /\ session' = [o \in Backends |-> session'[o]]
      /\ \A o \in Backends : o # s => session'[o] = session[o]
      /\ IsSession(session'[s]) /\ session'[s].phase = session[s].phase
      /\ DOMAIN Own(s)' = DOMAIN Own(s) \cup {i} /\ Own(s)'[i] = row
      /\ \A j \in DOMAIN Own(s) : j # i => Own(s)'[j] = Own(s)[j]
  BY WriteIs DEF IInv
<1>2. \A o \in Backends : o # s => Own(o)' = Own(o)
  BY <1>1 DEF Own
<1>3. Shape'
  BY <1>1 DEF IInv, Shape
<1>4. OneWriter'
  BY <1>1, <1>2 DEF IInv, OneWriter
<1>5. Versions'
  <2>1. ASSUME NEW o \in Backends, NEW j \in DOMAIN Own(o)', j \in DOMAIN rows
        PROVE  Frozen(rows[j], Own(o)'[j]) /\ Later(rows[j].status, Own(o)'[j].status)
    <3>1. CASE o # s
      BY <1>2, <2>1, <3>1 DEF IInv, Versions
    <3>2. CASE o = s /\ j # i
      BY <1>1, <2>1, <3>2 DEF IInv, Versions
    <3>3. CASE o = s /\ j = i
      BY <1>1, <2>1, <3>3
    <3> QED BY <3>1, <3>2, <3>3
  <2> QED BY <2>1 DEF Versions
<1>6. /\ DOMAIN View(s) = DOMAIN rows \cup DOMAIN Own(s)
      /\ \A j \in DOMAIN Own(s) : View(s)[j] = Own(s)[j]
      /\ \A j \in DOMAIN rows : j \notin DOMAIN Own(s) => View(s)[j] = rows[j]
  BY ViewIs
<1>7. ASSUME NEW j, NEW x \in Ids, Reverses(j, x)'
      PROVE  Reverses(j, x) \/ (j = i /\ row.reverses = x /\ i \notin DOMAIN View(s))
  <2>1. CASE j \in DOMAIN rows /\ rows[j].reverses = x
    BY <2>1 DEF Reverses
  <2>2. CASE \E o \in Backends : o # s /\ j \in DOMAIN Own(o) /\ Own(o)[j].reverses = x
    BY <2>2 DEF Reverses
  <2>3. CASE j \in DOMAIN Own(s)' /\ Own(s)'[j].reverses = x
    <3>1. CASE j # i
      BY <1>1, <2>3, <3>1 DEF Reverses
    <3>2. CASE j = i /\ i \in DOMAIN View(s)
      <4>1. row.reverses = x /\ View(s)[i].reverses = x
        BY <1>1, <2>3, <3>2
      <4> QED BY <1>6, <3>2, <4>1 DEF Reverses
    <3>3. CASE j = i /\ i \notin DOMAIN View(s)
      BY <1>1, <2>3, <3>3
    <3> QED BY <3>1, <3>2, <3>3
  <2> QED BY <1>2, <1>7, <2>1, <2>2, <2>3 DEF Reverses
<1>8. OneReverser'
  <2>1. ASSUME NEW x \in Ids, NEW j, NEW k, Reverses(j, x)', Reverses(k, x)'
        PROVE  j = k
    <3>1. x # NONE
      BY IdAssumption
    <3> QED BY <1>7, <2>1, <3>1 DEF IInv, OneReverser
  <2> QED BY <2>1 DEF OneReverser
<1>9. \A o \in Backends : o # s => View(o)' = View(o)
  BY <1>2 DEF View
<1>10. /\ DOMAIN View(s)' = DOMAIN View(s) \cup {i} /\ View(s)'[i] = row
       /\ \A j \in DOMAIN View(s) : j # i => View(s)'[j] = View(s)[j]
  BY <1>1 DEF View
<1>11. Aims'
  <2>1. ASSUME NEW j \in DOMAIN Own(s)', Own(s)'[j].reverses \notin {NONE, j}
        PROVE  /\ Own(s)'[j].reverses \in DOMAIN View(s)'
               /\ View(s)'[Own(s)'[j].reverses].reverses = NONE
    <3>1. PICK o : o = Own(s)'[j].reverses
      OBVIOUS
    <3>2. o \in DOMAIN View(s) /\ View(s)[o].reverses = NONE
      <4>1. CASE j # i
        BY <1>1, <2>1, <3>1, <4>1 DEF IInv, Aims
      <4>2. CASE j = i /\ i \notin DOMAIN View(s)
        BY <1>1, <2>1, <3>1, <4>2
      <4>3. CASE j = i /\ i \in DOMAIN Own(s)
        BY <1>1, <1>6, <2>1, <3>1, <4>3 DEF IInv, Aims
      <4>4. CASE j = i /\ i \in DOMAIN rows /\ i \notin DOMAIN Own(s)
        <5>1. rows[i].reverses = o
          BY <1>1, <1>6, <3>1, <4>4
        <5>2. o \in DOMAIN rows /\ rows[o].reverses = NONE
          BY <2>1, <3>1, <4>4, <5>1 DEF IInv, CommittedBooks
        <5>3. CASE o \in DOMAIN Own(s)
          BY <1>6, <5>2, <5>3 DEF IInv, Versions, Frozen
        <5>4. CASE o \notin DOMAIN Own(s)
          BY <1>6, <5>2, <5>4
        <5> QED BY <1>6, <5>2, <5>3, <5>4
      <4> QED BY <1>6, <4>1, <4>2, <4>3, <4>4
    <3>3. o = i => row.reverses = NONE
      BY <3>2
    <3> QED BY <1>10, <3>1, <3>2, <3>3
  <2>2. ASSUME NEW o \in Backends, o # s, NEW j \in DOMAIN Own(o)', Own(o)'[j].reverses \notin {NONE, j}
        PROVE  /\ Own(o)'[j].reverses \in DOMAIN View(o)'
               /\ View(o)'[Own(o)'[j].reverses].reverses = NONE
    BY <1>2, <1>9, <2>2 DEF IInv, Aims
  <2> QED BY <2>1, <2>2 DEF Aims
<1>12. Tenants'
  <2>1. \A r : TenantLines(r)' <=> TenantLines(r)
    BY DEF TenantLines, TenantLine
  <2> QED BY <1>1, <1>2, <2>1 DEF IInv, Tenants
<1>13. Checked'
  <2>1. ASSUME NEW o \in Backends, session'[o].phase = "commit", NEW j \in DOMAIN Own(o)',
               j \notin session'[o].todo
        PROVE  Deferred(o, j)'
    <3>1. o # s /\ session'[o] = session[o] /\ Own(o)' = Own(o)
      BY <1>1, <1>2, <2>1 DEF Writing
    <3>2. Deferred(o, j)
      BY <2>1, <3>1 DEF IInv, Checked
    <3>3. View(o)' = View(o)
      BY <1>9, <3>1
    <3> QED BY <3>2, <3>3, ChecksKept
  <2> QED BY <2>1 DEF Checked
<1>14. CommittedBooks'
  BY BooksKept DEF IInv
<1> QED BY <1>3, <1>4, <1>5, <1>8, <1>11, <1>12, <1>13, <1>14 DEF IInv
LEMMA RowSeen ==
  ASSUME IInv, NEW s \in Backends, NEW i \in DOMAIN View(s)
  PROVE  /\ i \in Ids /\ IsRow(View(s)[i]) /\ TenantLines(View(s)[i])
         /\ i \in DOMAIN rows =>
              /\ rows[i].status # "POSTING"
              /\ Frozen(rows[i], View(s)[i]) /\ Later(rows[i].status, View(s)[i].status)
<1>1. CASE i \in DOMAIN Own(s)
  <2>1. View(s)[i] = Own(s)[i]
    BY <1>1, ViewIs
  <2>2. i \in Ids /\ IsRow(Own(s)[i])
    BY <1>1 DEF IInv, Shape, IsSession, Own
  <2> QED BY <1>1, <2>1, <2>2 DEF IInv, Tenants, Versions, CommittedBooks
<1>2. CASE i \notin DOMAIN Own(s)
  <2>1. i \in DOMAIN rows /\ View(s)[i] = rows[i]
    BY <1>2, ViewIs
  <2>2. IsRow(rows[i]) /\ i \in Ids
    BY <2>1 DEF IInv, Shape
  <2>3. TenantLines(rows[i]) /\ rows[i].status # "POSTING"
    BY <2>1 DEF IInv, CommittedBooks, TenantLines
  <2>4. Frozen(rows[i], rows[i]) /\ Later(rows[i].status, rows[i].status)
    BY DEF Frozen, Later
  <2> QED BY <2>1, <2>2, <2>3, <2>4
<1> QED BY <1>1, <1>2

LEMMA InsertRowInv ==
  ASSUME IInv, NEW s \in Backends, NEW i \in Ids, NEW h \in Headers, InsertRow(s, i, h)
  PROVE  IInv'
<1>1. PICK row : row = [status |-> h.status, business |-> h.business, currency |-> h.currency,
                        reverses |-> h.reverses, entries |-> <<>>]
  OBVIOUS
<1>2. /\ Writing(s) /\ i \notin DOMAIN rows /\ \A o \in Backends : i \notin DOMAIN Own(o)
      /\ Write(s, i, row) /\ UNCHANGED <<rows, chart>>
      /\ h.reverses # NONE =>
           SameTenant(s, i, h) /\ NotOfReversal(s, h) /\ OneReversal(h.reverses)
  BY <1>1 DEF InsertRow
<1>3. IsRow(row) /\ row.reverses = h.reverses
  BY <1>1, HeaderAssumption DEF IsRow
<1>4. TenantLines(row)
  BY <1>1 DEF TenantLines
<1>5. i \notin DOMAIN View(s)
  BY <1>2, ViewIs
<1>6. \A j : row.reverses # NONE => ~Reverses(j, row.reverses)
  BY <1>2, <1>3 DEF OneReversal, Reverses
<1>7. row.reverses \notin {NONE, i} =>
        row.reverses \in DOMAIN View(s) /\ View(s)[row.reverses].reverses = NONE
  BY <1>2, <1>3 DEF SameTenant, NotOfReversal
<1> QED BY <1>2, <1>3, <1>4, <1>5, <1>6, <1>7, WriteInv

LEMMA InsertEntriesInv ==
  ASSUME IInv, NEW s \in Backends, NEW i \in Ids, NEW lines \in Inserts,
         InsertEntries(s, i, lines)
  PROVE  IInv'
<1>1. PICK old : old = View(s)[i]
  OBVIOUS
<1>2. PICK row : row = [old EXCEPT !.entries = @ \o lines]
  OBVIOUS
<1>3. /\ Writing(s) /\ i \in DOMAIN View(s) /\ old.status = "POSTING"
      /\ \A n \in DOMAIN lines : TenantLine(old, lines[n])
      /\ Write(s, i, row) /\ UNCHANGED <<rows, chart>>
  BY <1>1, <1>2 DEF InsertEntries, EntryAllowed
<1>4. IsRow(old) /\ TenantLines(old)
  BY <1>1, <1>3, RowSeen
<1>5. i \notin DOMAIN rows
  BY <1>1, <1>3, RowSeen DEF Later
<1>6. i \in DOMAIN Own(s)
  BY <1>3, <1>5, ViewIs
<1>7. \A o \in Backends : o # s => i \notin DOMAIN Own(o)
  BY <1>6 DEF IInv, OneWriter
<1>8. lines \in Seq(Line)
  BY LineAssumption
<1>9. PICK es : es = old.entries
  OBVIOUS
<1>10. es \in Seq(Line) /\ es \o lines \in Seq(Line)
  BY <1>4, <1>8, <1>9 DEF IsRow
<1>11. /\ row = [status |-> old.status, business |-> old.business, currency |-> old.currency,
                 reverses |-> old.reverses, entries |-> es \o lines]
       /\ old.reverses \in Ids \cup {NONE}
  BY <1>2, <1>4, <1>9 DEF IsRow
<1>12. IsRow(row) /\ row.reverses = old.reverses
  BY <1>10, <1>11 DEF IsRow
<1>13. TenantLines(row)
  <2>1. \A line : TenantLine(row, line) <=> TenantLine(old, line)
    BY <1>11 DEF TenantLine
  <2>2. \A n \in DOMAIN es : TenantLine(old, es[n])
    BY <1>4, <1>9 DEF TenantLines
  <2>3. ASSUME NEW n \in DOMAIN (es \o lines)
        PROVE  TenantLine(old, (es \o lines)[n])
    <3>1. CASE n \in DOMAIN es
      BY <1>8, <1>10, <2>2, <3>1
    <3>2. CASE n \notin DOMAIN es
      <4>1. n - Len(es) \in DOMAIN lines /\ (es \o lines)[n] = lines[n - Len(es)]
        BY <1>8, <1>10, <3>2
      <4> QED BY <1>3, <4>1
    <3> QED BY <3>1, <3>2
  <2>4. row.entries = es \o lines
    BY <1>11
  <2> QED BY <2>1, <2>3, <2>4 DEF TenantLines
<1> QED BY <1>1, <1>3, <1>5, <1>7, <1>12, <1>13, WriteInv

LEMMA UpdateRowInv ==
  ASSUME IInv, NEW s \in Backends, NEW i \in Ids, UpdateRow(s, i)
  PROVE  IInv'
<1>1. PICK old : old = View(s)[i]
  OBVIOUS
<1>2. PICK new \in Attempts(old) :
        Frozen(old, new) /\ Moves(old.status, new.status) /\ Write(s, i, new)
  BY <1>1 DEF UpdateRow
<1>3. /\ Writing(s) /\ i \in DOMAIN View(s)
      /\ \A o \in Backends : o # s => i \notin DOMAIN Own(o)
      /\ UNCHANGED <<rows, chart>>
  BY DEF UpdateRow
<1>4. /\ IsRow(old) /\ TenantLines(old)
      /\ i \in DOMAIN rows =>
           /\ rows[i].status # "POSTING"
           /\ Frozen(rows[i], old) /\ Later(rows[i].status, old.status)
  BY <1>1, <1>3, RowSeen
<1>5. IsRow(new)
  <2>1. CASE \E st \in {"POSTING", "POSTED", "REVERSED"} : new = [old EXCEPT !.status = st]
    BY <1>4, <2>1 DEF IsRow
  <2>2. CASE \E h \in Headers : new = [old EXCEPT !.business = h.business, !.currency = h.currency,
                                                 !.reverses = h.reverses]
    <3>1. PICK h \in Headers : new = [old EXCEPT !.business = h.business, !.currency = h.currency,
                                                !.reverses = h.reverses]
      BY <2>2
    <3>2. new = [status |-> old.status, business |-> h.business, currency |-> h.currency,
                 reverses |-> h.reverses, entries |-> old.entries]
      BY <1>4, <3>1 DEF IsRow
    <3>3. h.reverses \in Ids \cup {NONE} /\ old.entries \in Seq(Line)
      BY <1>4, HeaderAssumption DEF IsRow
    <3> QED BY <3>2, <3>3 DEF IsRow
  <2>3. CASE new = [old EXCEPT !.entries = <<>>]
    <3>1. new = [status |-> old.status, business |-> old.business, currency |-> old.currency,
                 reverses |-> old.reverses, entries |-> <<>>]
      BY <1>4, <2>3 DEF IsRow
    <3> QED BY <1>4, <3>1 DEF IsRow
  <2> QED BY <2>1, <2>2, <2>3 DEF Attempts
<1>6. TenantLines(new)
  BY <1>2, <1>4 DEF Frozen, TenantLines, TenantLine
<1>7. i \in DOMAIN rows => Frozen(rows[i], new) /\ Later(rows[i].status, new.status)
  BY <1>2, <1>4 DEF Frozen, Later, Moves
<1>8. new.reverses = View(s)[i].reverses
  BY <1>1, <1>2 DEF Frozen
<1> QED BY <1>2, <1>3, <1>5, <1>6, <1>7, <1>8, WriteInv

-----------------------------------------------------------------------------
(* The chart of accounts.                                                  *)

\* The accounts that somebody's entries refer to keep their class.
ClassesKept ==
  \A a \in DOMAIN chart : InUse(a) => a \in DOMAIN chart' /\ SameClass(chart[a], chart'[a])

\* An account of a line of a committed row, or of a session's own, is in use.
LEMMA LinesInUse ==
  ASSUME NEW row, NEW n \in DOMAIN row.entries,
         \/ \E i \in DOMAIN rows : row = rows[i]
         \/ \E s \in Backends : \E i \in DOMAIN Own(s) : row = Own(s)[i]
  PROVE  InUse(row.entries[n].account)
  BY DEF InUse, RefersTo

LEMMA ChartInv ==
  ASSUME IInv, UNCHANGED <<rows, session>>, DOMAIN chart' \subseteq Accounts, ClassesKept
  PROVE  IInv'
<1>1. \A row, line : TenantLine(row, line) /\ InUse(line.account) => TenantLine(row, line)'
  BY DEF TenantLine, SameClass, ClassesKept
<1>2. \A s : Own(s)' = Own(s) /\ View(s)' = View(s)
  BY DEF Own, View
<1>3. Tenants'
  <2>1. ASSUME NEW s \in Backends, NEW i \in DOMAIN Own(s)
        PROVE  TenantLines(Own(s)[i])'
    BY <1>1, <1>2, <2>1, LinesInUse DEF IInv, Tenants, TenantLines
  <2> QED BY <1>2, <2>1 DEF Tenants, TenantLines
<1>4. CommittedBooks'
  <2>1. \A i \in DOMAIN rows : \A n \in DOMAIN rows[i].entries :
          TenantLine(rows[i], rows[i].entries[n])'
    BY <1>1, LinesInUse DEF IInv, CommittedBooks
  <2> QED BY <2>1 DEF IInv, CommittedBooks, ReversalsOfRow, TenantLine
<1>5. Checked'
  BY <1>2, ChecksKept DEF IInv, Checked
<1>6. Shape' /\ OneWriter' /\ Versions' /\ Aims'
  BY <1>2 DEF IInv, Shape, OneWriter, Versions, Aims
<1>7. OneReverser'
  BY <1>2 DEF IInv, OneReverser, Reverses
<1> QED BY <1>3, <1>4, <1>5, <1>6, <1>7 DEF IInv

LEMMA AccountsKept ==
  ASSUME IInv, NEW a \in Accounts, InsertAccount(a) \/ UpdateAccount(a) \/ DeleteAccount(a)
  PROVE  UNCHANGED <<rows, session>> /\ DOMAIN chart' \subseteq Accounts /\ ClassesKept
<1>1. CASE InsertAccount(a)
  BY <1>1 DEF InsertAccount, SameClass, ClassesKept, IInv, Shape
<1>2. CASE UpdateAccount(a)
  BY <1>2 DEF UpdateAccount, SameClass, ClassesKept, IInv, Shape
<1>3. CASE DeleteAccount(a)
  BY <1>3 DEF DeleteAccount, SameClass, ClassesKept, IInv, Shape
<1> QED BY <1>1, <1>2, <1>3
-----------------------------------------------------------------------------
(* The end of a session's transaction.                                     *)

LEMMA SameVersions ==
  ASSUME IInv, UNCHANGED <<rows, chart>>, session' = [o \in Backends |-> session'[o]],
         \A o \in Backends : IsSession(session'[o]) /\ Own(o)' = Own(o),
         Checked'
  PROVE  IInv'
<1>1. \A o \in Backends : View(o)' = View(o)
  BY DEF View
<1>2. Shape' /\ OneWriter' /\ Versions' /\ Aims'
  BY <1>1 DEF IInv, Shape, OneWriter, Versions, Aims
<1>3. OneReverser'
  BY DEF IInv, OneReverser, Reverses
<1>4. Tenants' /\ CommittedBooks'
  BY BooksKept DEF IInv, Tenants, TenantLines, TenantLine
<1> QED BY <1>2, <1>3, <1>4 DEF IInv

LEMMA PhaseIs ==
  ASSUME Shape, NEW s \in Backends, NEW phase \in {"idle", "commit"}, NEW todo,
         session' = [session EXCEPT ![s] = [phase |-> phase, own |-> session[s].own, todo |-> todo]]
  PROVE  /\ session' = [o \in Backends |-> session'[o]]
         /\ \A o \in Backends : o # s => session'[o] = session[o]
         /\ \A o \in Backends : IsSession(session'[o]) /\ Own(o)' = Own(o)
         /\ session'[s].phase = phase /\ session'[s].todo = todo
<1>1. /\ session' = [o \in Backends |-> session'[o]]
      /\ \A o \in Backends : o # s => session'[o] = session[o]
      /\ session'[s] = [phase |-> phase, own |-> session[s].own, todo |-> todo]
  BY DEF Shape
<1>2. IsSession(session'[s])
  BY <1>1 DEF Shape, IsSession
<1> QED BY <1>1, <1>2 DEF Shape, Own

LEMMA BeginCommitInv == ASSUME IInv, NEW s \in Backends, BeginCommit(s) PROVE IInv'
<1>1. session' = [session EXCEPT ![s] = [phase |-> "commit", own |-> session[s].own,
                                         todo |-> DOMAIN Own(s)]]
      /\ UNCHANGED <<rows, chart>>
  BY DEF BeginCommit, Own
<1>2. /\ session' = [o \in Backends |-> session'[o]]
      /\ \A o \in Backends : o # s => session'[o] = session[o]
      /\ \A o \in Backends : IsSession(session'[o]) /\ Own(o)' = Own(o)
      /\ session'[s].todo = DOMAIN Own(s)
  BY <1>1, PhaseIs DEF IInv
<1>3. Checked'
  <2>1. ASSUME NEW o \in Backends, session'[o].phase = "commit", NEW i \in DOMAIN Own(o)',
               i \notin session'[o].todo
        PROVE  Deferred(o, i)'
    <3>1. o # s /\ session'[o] = session[o] /\ Own(o)' = Own(o)
      BY <1>2, <2>1
    <3>2. Deferred(o, i)
      BY <2>1, <3>1 DEF IInv, Checked
    <3>3. View(o)' = View(o)
      BY <1>1, <3>1 DEF View
    <3> QED BY <1>1, <3>2, <3>3, ChecksKept
  <2> QED BY <2>1 DEF Checked
<1> QED BY <1>1, <1>2, <1>3, SameVersions

LEMMA CheckInv == ASSUME IInv, NEW s \in Backends, NEW k \in Ids, Check(s, k) PROVE IInv'
<1>1. /\ session[s].phase = "commit" /\ Deferred(s, k) /\ UNCHANGED <<rows, chart>>
      /\ session' = [session EXCEPT ![s] = [phase |-> "commit", own |-> session[s].own,
                                            todo |-> session[s].todo \ {k}]]
  <2>1. session' = [session EXCEPT ![s] = [session[s] EXCEPT !.todo = session[s].todo \ {k}]]
    BY DEF Check
  <2>2. IsSession(session[s]) /\ session[s].phase = "commit"
    BY DEF IInv, Shape, Check
  <2>3. [session[s] EXCEPT !.todo = session[s].todo \ {k}]
          = [phase |-> "commit", own |-> session[s].own, todo |-> session[s].todo \ {k}]
    BY <2>2 DEF IsSession
  <2> QED BY <2>1, <2>3 DEF Check
<1>2. /\ session' = [o \in Backends |-> session'[o]]
      /\ \A o \in Backends : o # s => session'[o] = session[o]
      /\ \A o \in Backends : IsSession(session'[o]) /\ Own(o)' = Own(o)
      /\ session'[s].todo = session[s].todo \ {k}
  BY <1>1, PhaseIs DEF IInv
<1>3. Checked'
  <2>1. ASSUME NEW o \in Backends, session'[o].phase = "commit", NEW i \in DOMAIN Own(o)',
               i \notin session'[o].todo
        PROVE  Deferred(o, i)'
    <3>1. Own(o)' = Own(o)
      BY <1>2
    <3>2. Deferred(o, i)
      <4>1. CASE o # s
        BY <1>2, <2>1, <3>1, <4>1 DEF IInv, Checked
      <4>2. CASE o = s /\ i # k
        BY <1>1, <1>2, <2>1, <3>1, <4>2 DEF IInv, Checked
      <4>3. CASE o = s /\ i = k
        BY <1>1, <4>3
      <4> QED BY <4>1, <4>2, <4>3
    <3>3. View(o)' = View(o)
      BY <1>1, <3>1 DEF View
    <3> QED BY <1>1, <3>2, <3>3, ChecksKept
  <2> QED BY <2>1 DEF Checked
<1> QED BY <1>1, <1>2, <1>3, SameVersions

LEMMA UnopenedIs ==
  ASSUME Shape, NEW s \in Backends, session' = [session EXCEPT ![s] = Unopened]
  PROVE  /\ session' = [o \in Backends |-> session'[o]]
         /\ \A o \in Backends : o # s => session'[o] = session[o] /\ Own(o)' = Own(o)
         /\ \A o \in Backends : IsSession(session'[o])
         /\ DOMAIN Own(s)' = {} /\ session'[s].phase = "idle"
<1>1. /\ session' = [o \in Backends |-> session'[o]]
      /\ \A o \in Backends : o # s => session'[o] = session[o]
      /\ session'[s] = Unopened
  BY DEF Shape
<1>2. DOMAIN Unopened.own = {} /\ IsSession(Unopened) /\ Unopened.phase = "idle"
  BY DEF Unopened, IsSession
<1> QED BY <1>1, <1>2 DEF Shape, Own

LEMMA RollbackInv == ASSUME IInv, NEW s \in Backends, Rollback(s) PROVE IInv'
<1>1. UNCHANGED <<rows, chart>> /\ session' = [session EXCEPT ![s] = Unopened]
  BY DEF Rollback
<1>2. /\ session' = [o \in Backends |-> session'[o]]
      /\ \A o \in Backends : o # s => session'[o] = session[o] /\ Own(o)' = Own(o)
      /\ \A o \in Backends : IsSession(session'[o])
      /\ DOMAIN Own(s)' = {} /\ session'[s].phase = "idle"
  BY <1>1, UnopenedIs DEF IInv
<1>3. Shape' /\ OneWriter' /\ Versions'
  BY <1>1, <1>2 DEF IInv, Shape, OneWriter, Versions
<1>4. OneReverser'
  BY <1>1, <1>2 DEF IInv, OneReverser, Reverses
<1>5. \A o \in Backends : o # s => View(o)' = View(o)
  BY <1>1, <1>2 DEF View
<1>6. Aims'
  BY <1>2, <1>5 DEF IInv, Aims
<1>7. Tenants' /\ CommittedBooks'
  BY <1>1, <1>2, BooksKept DEF IInv, Tenants, TenantLines, TenantLine
<1>8. Checked'
  <2>1. ASSUME NEW o \in Backends, session'[o].phase = "commit", NEW i \in DOMAIN Own(o)',
               i \notin session'[o].todo
        PROVE  Deferred(o, i)'
    <3>1. o # s /\ session'[o] = session[o]
      BY <1>2, <2>1
    <3>2. Deferred(o, i)
      BY <1>2, <2>1, <3>1 DEF IInv, Checked
    <3> QED BY <1>1, <1>5, <3>1, <3>2, ChecksKept
  <2> QED BY <2>1 DEF Checked
<1> QED BY <1>3, <1>4, <1>6, <1>7, <1>8 DEF IInv

-----------------------------------------------------------------------------
(* COMMIT makes a session's rows visible.                                  *)

\* What is known of the rows a session publishes.
LEMMA Published ==
  ASSUME IInv, NEW s \in Backends, Publish(s)
  PROVE  /\ rows' = View(s) /\ chart' = chart
         /\ \A i \in DOMAIN Own(s) :
              /\ rows'[i].status # "POSTING" /\ DoubleEntry(rows'[i])
              /\ Undone(rows', i) /\ Undoes(rows', i) /\ Mirrors(rows', i)
         /\ \A i \in DOMAIN rows :
              /\ i \in DOMAIN rows' /\ Frozen(rows[i], rows'[i])
              /\ rows'[i].status # rows[i].status => rows'[i].status = "REVERSED"
              /\ rows[i].reverses # NONE => rows'[i].status = "POSTED"
<1>1. rows' = View(s) /\ chart' = chart /\ session[s].phase = "commit" /\ session[s].todo = {}
  BY DEF Publish
<1>2. ASSUME NEW i \in DOMAIN Own(s)
      PROVE  /\ rows'[i].status # "POSTING" /\ DoubleEntry(rows'[i])
             /\ Undone(rows', i) /\ Undoes(rows', i) /\ Mirrors(rows', i)
  <2>1. Deferred(s, i)
    BY <1>1, <1>2 DEF IInv, Checked
  <2>2. /\ i \notin DOMAIN rows \/ rows[i].entries # View(s)[i].entries => DoubleEntry(View(s)[i])
        /\ Assembled(View(s)[i])
        /\ Undone(View(s), i) /\ Undoes(View(s), i) /\ Mirrors(View(s), i)
    BY <2>1 DEF Deferred
  <2>3. i \in DOMAIN rows => DoubleEntry(rows[i])
    BY DEF IInv, CommittedBooks
  <2>4. DoubleEntry(View(s)[i])
    BY <2>2, <2>3 DEF DoubleEntry
  <2> QED BY <1>1, <2>2, <2>4 DEF Assembled
<1>3. ASSUME NEW i \in DOMAIN rows
      PROVE  /\ i \in DOMAIN rows' /\ Frozen(rows[i], rows'[i])
             /\ rows'[i].status # rows[i].status => rows'[i].status = "REVERSED"
             /\ rows[i].reverses # NONE => rows'[i].status = "POSTED"
  <2>1. i \in DOMAIN View(s)
    BY ViewIs
  <2>2. /\ Frozen(rows[i], rows'[i])
        /\ rows'[i].status # rows[i].status => rows'[i].status = "REVERSED"
    BY <1>1, <2>1, RowSeen DEF Later
  <2>3. CASE i \in DOMAIN Own(s)
    <3>1. rows[i].reverses # NONE => rows'[i].status = "POSTED"
      BY <1>2, <2>2, <2>3 DEF Undoes, Frozen
    <3> QED BY <1>1, <2>1, <2>2, <3>1
  <2>4. CASE i \notin DOMAIN Own(s)
    <3>1. rows'[i] = rows[i]
      BY <1>1, <2>4, ViewIs
    <3>2. rows[i].reverses # NONE => rows[i].status = "POSTED"
      BY DEF IInv, CommittedBooks, Undoes
    <3> QED BY <1>1, <2>1, <2>2, <3>1, <3>2
  <2> QED BY <2>3, <2>4
<1> QED BY <1>1, <1>2, <1>3

LEMMA PublishedReverses ==
  ASSUME IInv, NEW s \in Backends, Publish(s), NEW j \in DOMAIN rows'
  PROVE  Reverses(j, rows'[j].reverses)
<1>1. rows' = View(s)
  BY Published
<1> QED BY <1>1, ViewIs DEF Reverses

LEMMA PublishedBooks ==
  ASSUME IInv, NEW s \in Backends, Publish(s)
  PROVE  CommittedBooks'
<1>1. /\ rows' = View(s) /\ chart' = chart
      /\ \A i \in DOMAIN Own(s) :
           /\ rows'[i].status # "POSTING" /\ DoubleEntry(rows'[i])
           /\ Undone(rows', i) /\ Undoes(rows', i) /\ Mirrors(rows', i)
      /\ \A i \in DOMAIN rows :
           /\ i \in DOMAIN rows' /\ Frozen(rows[i], rows'[i])
           /\ rows'[i].status # rows[i].status => rows'[i].status = "REVERSED"
           /\ rows[i].reverses # NONE => rows'[i].status = "POSTED"
  BY Published
<1>2. \A i \in DOMAIN rows' : i \in DOMAIN Own(s) \/ (i \in DOMAIN rows /\ rows'[i] = rows[i])
  BY <1>1, ViewIs
<1>3. ASSUME NEW i \in DOMAIN rows'
      PROVE  /\ i \in Ids /\ i # NONE
             /\ rows'[i].status # "POSTING" /\ DoubleEntry(rows'[i])
             /\ \A n \in DOMAIN rows'[i].entries : TenantLine(rows[i], rows[i].entries[n])'
  <2>1. i \in Ids /\ TenantLines(rows'[i])
    BY <1>1, RowSeen
  <2>2. rows'[i].status # "POSTING" /\ DoubleEntry(rows'[i])
    BY <1>1, <1>2 DEF IInv, CommittedBooks
  <2>3. \A n \in DOMAIN rows'[i].entries : TenantLine(rows'[i], rows'[i].entries[n])
    BY <2>1 DEF TenantLines
  <2>4. \A n \in DOMAIN rows'[i].entries : TenantLine(rows[i], rows[i].entries[n])'
    BY <1>1, <2>3 DEF TenantLine
  <2> QED BY <2>1, <2>2, <2>4, IdAssumption
<1>4. ASSUME NEW i \in DOMAIN rows', rows'[i].reverses # NONE
      PROVE  /\ rows'[i].reverses \in DOMAIN rows' /\ rows'[rows'[i].reverses].reverses = NONE
             /\ Undoes(rows', i) /\ Mirrors(rows', i)
  <2>1. CASE i \in DOMAIN Own(s)
    <3>1. Undoes(rows', i) /\ Mirrors(rows', i)
      BY <1>1, <2>1
    <3>2. rows'[i].reverses # i
      BY <1>4, <3>1 DEF Undoes
    <3>3. rows'[i] = Own(s)[i]
      BY <1>1, <2>1, ViewIs
    <3>4. rows'[i].reverses \in DOMAIN rows' /\ rows'[rows'[i].reverses].reverses = NONE
      BY <1>1, <1>4, <2>1, <3>2, <3>3 DEF IInv, Aims
    <3> QED BY <3>1, <3>4
  <2>2. CASE i \in DOMAIN rows /\ rows'[i] = rows[i]
    <3>1. PICK o : o = rows[i].reverses
      OBVIOUS
    <3>2. /\ o \in DOMAIN rows /\ rows[o].reverses = NONE
          /\ Undoes(rows, i) /\ Mirrors(rows, i)
      BY <1>4, <2>2, <3>1 DEF IInv, CommittedBooks
    <3>3. /\ o \in DOMAIN rows' /\ rows'[o].reverses = NONE /\ rows'[o].entries = rows[o].entries
          /\ rows'[o].business = rows[o].business /\ rows'[o].currency = rows[o].currency
          /\ rows[o].status = "REVERSED" => rows'[o].status = "REVERSED"
      BY <1>1, <3>2 DEF Frozen
    <3>4. Agree(rows, rows', i)
      BY <1>1, <1>3, <2>2, <3>1, <3>3 DEF Agree, Frozen
    <3> QED BY <2>2, <3>1, <3>2, <3>3, <3>4, ChecksAgree
  <2> QED BY <1>2, <2>1, <2>2
<1>5. ASSUME NEW i \in DOMAIN rows', NEW r \in DOMAIN rows', NEW q \in DOMAIN rows',
             rows'[r].reverses = i, rows'[q].reverses = i
      PROVE  r = q
  BY <1>3, <1>5, PublishedReverses DEF IInv, OneReverser
<1>6. ASSUME NEW i \in DOMAIN rows'
      PROVE  rows'[i].status = "REVERSED" <=> \E r \in DOMAIN rows' : rows'[r].reverses = i
  <2>1. ASSUME rows'[i].status = "REVERSED"
        PROVE  \E r \in DOMAIN rows' : rows'[r].reverses = i
    <3>1. CASE i \in DOMAIN Own(s)
      BY <1>1, <2>1, <3>1 DEF Undone
    <3>2. CASE i \in DOMAIN rows /\ rows'[i] = rows[i]
      <4>1. PICK r \in DOMAIN rows : rows[r].reverses = i
        BY <2>1, <3>2 DEF IInv, CommittedBooks, ReversalsOfRow
      <4> QED BY <1>1, <4>1 DEF Frozen
    <3> QED BY <1>2, <3>1, <3>2
  <2>2. ASSUME NEW r \in DOMAIN rows', rows'[r].reverses = i
        PROVE  rows'[i].status = "REVERSED"
    BY <1>3, <1>4, <2>2 DEF Undoes
  <2> QED BY <2>1, <2>2
<1>7. ASSUME NEW i \in DOMAIN rows'
      PROVE  /\ (rows'[i].status = "REVERSED" <=> ReversalsOfRow(i)' # {})
             /\ \A r, q \in ReversalsOfRow(i)' : r = q
  BY <1>5, <1>6 DEF ReversalsOfRow
<1>8. ASSUME NEW i \in DOMAIN rows'
      PROVE  /\ Undoes(rows, i)' <=> Undoes(rows', i)
             /\ Mirrors(rows, i)' <=> Mirrors(rows', i)
  BY DEF Undoes, Mirrors
<1> QED BY <1>3, <1>4, <1>7, <1>8 DEF CommittedBooks

LEMMA PublishInv == ASSUME IInv, NEW s \in Backends, Publish(s) PROVE IInv'
<1>1. /\ rows' = View(s) /\ chart' = chart
      /\ \A i \in DOMAIN Own(s) : Undoes(rows', i)
      /\ \A i \in DOMAIN rows :
           /\ i \in DOMAIN rows' /\ Frozen(rows[i], rows'[i])
           /\ rows'[i].status # rows[i].status => rows'[i].status = "REVERSED"
           /\ rows[i].reverses # NONE => rows'[i].status = "POSTED"
  BY Published
<1>2. /\ session' = [o \in Backends |-> session'[o]]
      /\ \A o \in Backends : o # s => session'[o] = session[o] /\ Own(o)' = Own(o)
      /\ \A o \in Backends : IsSession(session'[o])
      /\ DOMAIN Own(s)' = {} /\ session'[s].phase = "idle"
  BY UnopenedIs DEF IInv, Publish
<1>3. DOMAIN rows' = DOMAIN rows \cup DOMAIN Own(s)
  BY <1>1, ViewIs
<1>4. Shape'
  <2>1. \A i \in DOMAIN rows' : i \in Ids /\ IsRow(rows'[i])
    BY <1>1, RowSeen
  <2> QED BY <1>1, <1>2, <2>1 DEF IInv, Shape
<1>5. OneWriter'
  BY <1>2 DEF IInv, OneWriter
\* Rows of the other sessions are not among those published.
<1>6. ASSUME NEW o \in Backends, o # s, NEW i \in DOMAIN Own(o)
      PROVE  /\ i \in DOMAIN rows' <=> i \in DOMAIN rows
             /\ i \in DOMAIN rows => rows'[i] = rows[i]
  <2>1. i \notin DOMAIN Own(s)
    BY <1>6 DEF IInv, OneWriter
  <2> QED BY <1>1, <1>3, <2>1, ViewIs
<1>7. Versions'
  BY <1>2, <1>6 DEF IInv, Versions
<1>8. OneReverser'
  <2>1. ASSUME NEW j, NEW x \in Ids, Reverses(j, x)' PROVE Reverses(j, x)
    <3>1. CASE j \in DOMAIN rows' /\ rows'[j].reverses = x
      BY <3>1, PublishedReverses
    <3>2. CASE \E o \in Backends : o # s /\ j \in DOMAIN Own(o) /\ Own(o)[j].reverses = x
      BY <3>2 DEF Reverses
    <3> QED BY <1>2, <2>1, <3>1, <3>2 DEF Reverses
  <2> QED BY <2>1 DEF IInv, OneReverser
<1>9. ASSUME NEW o \in Backends, o # s
      PROVE  /\ DOMAIN View(o)' = DOMAIN rows' \cup DOMAIN Own(o)
             /\ \A i \in DOMAIN Own(o) : View(o)'[i] = Own(o)[i]
             /\ \A i \in DOMAIN rows' : i \notin DOMAIN Own(o) => View(o)'[i] = rows'[i]
  BY <1>2, <1>9 DEF View
<1>10. ASSUME NEW o \in Backends, o # s, NEW x \in DOMAIN View(o)
       PROVE  /\ x \in DOMAIN View(o)' /\ Frozen(View(o)[x], View(o)'[x])
              /\ View(o)[x].status = "REVERSED" => View(o)'[x].status = "REVERSED"
              /\ x \notin DOMAIN Own(o) /\ View(o)[x].reverses # NONE => View(o)'[x].status = "POSTED"
              /\ x \in DOMAIN Own(o) => View(o)'[x] = View(o)[x]
  <2>1. CASE x \in DOMAIN Own(o)
    <3>1. View(o)'[x] = Own(o)[x] /\ View(o)[x] = Own(o)[x] /\ x \in DOMAIN View(o)'
      BY <1>9, <1>10, <2>1, ViewIs
    <3> QED BY <2>1, <3>1 DEF Frozen
  <2>2. CASE x \notin DOMAIN Own(o)
    <3>1. x \in DOMAIN rows /\ View(o)[x] = rows[x]
      BY <1>10, <2>2, ViewIs
    <3>2. View(o)'[x] = rows'[x] /\ x \in DOMAIN View(o)'
      BY <1>1, <1>9, <1>10, <2>2, <3>1
    <3> QED BY <1>1, <2>2, <3>1, <3>2
  <2> QED BY <2>1, <2>2
<1>11. Aims'
  <2>1. ASSUME NEW o \in Backends, NEW i \in DOMAIN Own(o)', Own(o)'[i].reverses \notin {NONE, i}
        PROVE  /\ Own(o)'[i].reverses \in DOMAIN View(o)'
               /\ View(o)'[Own(o)'[i].reverses].reverses = NONE
    <3>1. o # s /\ Own(o)' = Own(o)
      BY <1>2, <2>1
    <3>2. PICK x : x = Own(o)[i].reverses
      OBVIOUS
    <3>3. x \in DOMAIN View(o) /\ View(o)[x].reverses = NONE
      BY <2>1, <3>1, <3>2 DEF IInv, Aims
    <3> QED BY <1>10, <3>1, <3>2, <3>3 DEF Frozen
  <2> QED BY <2>1 DEF Aims
<1>12. Tenants'
  BY <1>1, <1>2 DEF IInv, Tenants, TenantLines, TenantLine
<1>13. Checked'
  <2>1. ASSUME NEW o \in Backends, session'[o].phase = "commit", NEW i \in DOMAIN Own(o)',
               i \notin session'[o].todo
        PROVE  Deferred(o, i)'
    <3>1. o # s /\ session'[o] = session[o] /\ Own(o)' = Own(o)
      BY <1>2, <2>1
    <3>2. Deferred(o, i)
      BY <2>1, <3>1 DEF IInv, Checked
    <3>3. i \in Ids /\ i # NONE /\ i \in DOMAIN View(o)
      BY <2>1, <3>1, ViewIs, IdAssumption DEF IInv, Shape, IsSession, Own
    <3>4. PICK v, w : v = View(o) /\ w = View(o)'
      OBVIOUS
    <3>5. w[i] = v[i]
      BY <1>10, <2>1, <3>1, <3>3, <3>4
    <3>6. \A x \in DOMAIN v :
            /\ x \in DOMAIN w /\ Frozen(v[x], w[x])
            /\ v[x].status = "REVERSED" => w[x].status = "REVERSED"
            /\ v[x].reverses # NONE /\ v[x].status = "POSTED" => w[x].status = "POSTED"
      BY <1>10, <3>1, <3>4
    <3>7. Agree(v, w, i)
      BY <3>3, <3>5, <3>6 DEF Agree, Frozen
    <3>8. /\ Undone(v, i) => Undone(w, i)
          /\ Undoes(v, i) => Undoes(w, i)
          /\ Mirrors(v, i) => Mirrors(w, i)
      BY <3>7, ChecksAgree
    <3>9. /\ i \notin DOMAIN rows' => HasEntries(w[i])
          /\ (i \notin DOMAIN rows' \/ rows'[i].entries # w[i].entries) => DoubleEntry(w[i])
          /\ Assembled(w[i]) /\ Undone(v, i) /\ Undoes(v, i) /\ Mirrors(v, i)
      BY <1>6, <2>1, <3>1, <3>2, <3>4, <3>5 DEF Deferred
    <3> QED BY <3>4, <3>8, <3>9 DEF Deferred
  <2> QED BY <2>1 DEF Checked
<1> QED
  BY <1>4, <1>5, <1>7, <1>8, <1>11, <1>12, <1>13, PublishedBooks DEF IInv

LEMMA NextInv == IInv /\ [SchemaNext]_schemaVars => IInv'
<1> SUFFICES ASSUME IInv, [SchemaNext]_schemaVars PROVE IInv'
  OBVIOUS
<1>1. CASE \E a \in Accounts : InsertAccount(a) \/ UpdateAccount(a) \/ DeleteAccount(a)
  BY <1>1, AccountsKept, ChartInv
<1>2. ASSUME NEW s \in Backends,
             \/ BeginCommit(s) \/ Publish(s) \/ Rollback(s)
             \/ \E i \in Ids : \/ Check(s, i) \/ UpdateRow(s, i)
                               \/ \E h \in Headers : InsertRow(s, i, h)
                               \/ \E lines \in Inserts : InsertEntries(s, i, lines)
      PROVE  IInv'
  BY <1>2, BeginCommitInv, PublishInv, RollbackInv, CheckInv, UpdateRowInv, InsertRowInv,
     InsertEntriesInv
<1>3. CASE UNCHANGED schemaVars
  <2>1. ClassesKept
    BY <1>3 DEF schemaVars, SameClass, ClassesKept
  <2> QED BY <1>3, <2>1, ChartInv DEF schemaVars, IInv, Shape
<1> QED BY <1>1, <1>2, <1>3 DEF SchemaNext

\* What a step leaves of a committed row.
RowStands(i) ==
  /\ i \in DOMAIN rows' /\ Frozen(rows[i], rows'[i])
  /\ rows'[i].status # rows[i].status => rows'[i].status = "REVERSED"

LEMMA NextStands ==
  ASSUME IInv, [SchemaNext]_schemaVars
  PROVE  \A i \in DOMAIN rows :
           /\ RowStands(i)
           /\ \A a \in Accounts : RefersTo(rows[i], a) =>
                a \in DOMAIN chart \cap DOMAIN chart' /\ SameClass(chart[a], chart'[a])
<1>1. rows' = rows => \A i \in DOMAIN rows : RowStands(i)
  BY DEF RowStands, Frozen
<1>2. chart' = chart => ClassesKept
  BY DEF ClassesKept, SameClass
<1>3. (\A i \in DOMAIN rows : RowStands(i)) /\ ClassesKept
  <2>1. CASE \E a \in Accounts : InsertAccount(a) \/ UpdateAccount(a) \/ DeleteAccount(a)
    BY <1>1, <2>1, AccountsKept
  <2>2. CASE \E s \in Backends : Publish(s)
    BY <1>2, <2>2, Published DEF RowStands
  <2>3. CASE UNCHANGED <<rows, chart>>
    BY <1>1, <1>2, <2>3
  <2>4. ASSUME NEW s \in Backends,
               \/ BeginCommit(s) \/ Rollback(s)
               \/ \E i \in Ids : \/ Check(s, i) \/ UpdateRow(s, i)
                                 \/ \E h \in Headers : InsertRow(s, i, h)
                                 \/ \E lines \in Inserts : InsertEntries(s, i, lines)
        PROVE  UNCHANGED <<rows, chart>>
    BY <2>4 DEF BeginCommit, Rollback, Check, UpdateRow, InsertRow, InsertEntries
  <2> QED BY <2>1, <2>2, <2>3, <2>4 DEF SchemaNext, schemaVars
<1>4. ASSUME NEW i \in DOMAIN rows, NEW a \in Accounts, RefersTo(rows[i], a)
      PROVE  a \in DOMAIN chart /\ InUse(a)
  <2>1. PICK n \in DOMAIN rows[i].entries : rows[i].entries[n].account = a
    BY <1>4 DEF RefersTo
  <2>2. TenantLine(rows[i], rows[i].entries[n])
    BY DEF IInv, CommittedBooks
  <2> QED BY <1>4, <2>1, <2>2 DEF TenantLine, InUse
<1> QED BY <1>3, <1>4 DEF ClassesKept

\* Whatever any number of sessions insert, update and delete, and however their commits
\* overlap, the constraints and triggers of the migrated schema keep the committed books
\* balanced, within their tenant, and reversed at most once, line by line (migrations,
\* enforce_reversal_mirrors_original and the other deferred triggers).
THEOREM CommittedBooksTheorem == SchemaSpec => []CommittedBooks
<1>1. IInv => CommittedBooks
  BY DEF IInv
<1> QED BY <1>1, InitInv, NextInv, PTL DEF SchemaSpec

\* No INSERT, UPDATE or DELETE takes a committed row back or changes what it says, except
\* that it becomes REVERSED; and the accounts it was posted to stay, of the same business
\* and class, while other accounts may be deleted and their ids given away
\* (prevent_transaction_mutation, prevent_entry_mutation, FK_entries_account_business,
\* prevent_referenced_account_reclassification).
THEOREM PostedStandsTheorem == SchemaSpec => PostedStands
<1>1. IInv /\ [SchemaNext]_schemaVars =>
        [\A i \in DOMAIN rows :
           /\ i \in DOMAIN rows' /\ Frozen(rows[i], rows'[i])
           /\ rows'[i].status # rows[i].status => rows'[i].status = "REVERSED"
           /\ \A a \in Accounts : RefersTo(rows[i], a) =>
                a \in DOMAIN chart \cap DOMAIN chart' /\ SameClass(chart[a], chart'[a])]_schemaVars
  BY NextStands DEF RowStands
<1> QED BY <1>1, InitInv, NextInv, PTL DEF SchemaSpec, PostedStands

-----------------------------------------------------------------------------
(* The upgrade.                                                            *)

LEMMA CellOf ==
  ASSUME NEW d, NEW t, NEW i, NEW col
  PROVE  /\ <<t, i, col>> \in Cells(d) <=> t \in DOMAIN d /\ i \in DOMAIN d[t] /\ col \in DOMAIN d[t][i]
         /\ At(d, <<t, i, col>>) = d[t][i][col]
BY DEF Cells, At

LEMMA CellIs ==
  ASSUME NEW d, NEW c \in Cells(d)
  PROVE  \E t \in DOMAIN d : \E i \in DOMAIN d[t] : \E col \in DOMAIN d[t][i] : c = <<t, i, col>>
BY DEF Cells

\* Rewriting gives each cell the value meant for it.
LEMMA RewrittenRows ==
  ASSUME NEW d, NEW value, NEW e, e = Rewritten(d, value)
  PROVE  /\ DOMAIN e = DOMAIN d
         /\ \A t \in DOMAIN d :
              /\ DOMAIN e[t] = DOMAIN d[t]
              /\ \A i \in DOMAIN d[t] :
                   /\ DOMAIN e[t][i] = DOMAIN d[t][i]
                   /\ \A col \in DOMAIN d[t][i] : e[t][i][col] = value[<<t, i, col>>]
         /\ Cells(e) = Cells(d)
         /\ \A c \in Cells(d) : At(e, c) = value[c]
         /\ Shaped(d) => Shaped(e)
<1>1. DOMAIN e = DOMAIN d
  BY DEF Rewritten
<1>2. ASSUME NEW t \in DOMAIN d
      PROVE  /\ DOMAIN e[t] = DOMAIN d[t]
             /\ \A i \in DOMAIN d[t] :
                   /\ DOMAIN e[t][i] = DOMAIN d[t][i]
                   /\ \A col \in DOMAIN d[t][i] : e[t][i][col] = value[<<t, i, col>>]
  BY DEF Rewritten
<1>3. Cells(e) = Cells(d)
  <2>1. ASSUME NEW c \in Cells(d)
        PROVE  c \in Cells(e)
    BY <1>1, <1>2, CellIs, CellOf
  <2>2. ASSUME NEW c \in Cells(e)
        PROVE  c \in Cells(d)
    BY <1>1, <1>2, CellIs, CellOf
  <2> QED BY <2>1, <2>2
<1>4. ASSUME NEW c \in Cells(d)
      PROVE  At(e, c) = value[c]
  BY <1>1, <1>2, CellIs, CellOf
<1>5. Shaped(d) => Shaped(e)
  BY <1>1, <1>2 DEF Shaped
<1> QED BY <1>1, <1>2, <1>3, <1>4, <1>5

\* Spelling a value as it should be is done once and for all.
LEMMA FoldedOnce ==
  ASSUME NEW v
  PROVE  /\ Fold(Fold(v)) = Fold(v)
         /\ v \in SourceTypes \cup Currencies \cup Kinds \cup Digests \cup {NULL} => Fold(v) = v
BY UpgradeAssumption DEF Fold

\* What the preflight leaves means what it found.
LEMMA RemediatedMeans ==
  ASSUME NEW d, NEW c
  PROVE  SameMeaning(Remediated(d, c), At(d, c)) /\ SameMeaning(At(d, c), At(d, c))
BY FoldedOnce DEF Remediated, SameMeaning

\* What the gate lets pass obeys the constraints of all the later migrations.
LEMMA GateStands ==
  ASSUME NEW d, Shaped(d), Legal(d), Issues(d) = {}
  PROVE  InForce(d, Downgrade)
<1>1. ASSUME NEW i \in DOMAIN d.transactions
      PROVE  LET t == d.transactions[i] IN
             /\ t.type \in SourceTypes /\ HashFits(t) /\ t.currency \in Currencies
             /\ t.type = "WHATSAPP" => t.source # NULL /\ t.source \notin Blank
  <2>1. <<"transactions", i>> \notin Issues(d)
    OBVIOUS
  <2> QED BY <2>1 DEF Issues
<1>2. ASSUME NEW i \in DOMAIN d.proposals
      PROVE  LET p == d.proposals[i] IN
             /\ p.hash \in Digests /\ p.kind \in Kinds /\ p.currency \in Currencies
             /\ p.status = "CONFIRMED" => Confirms(d, i)
  <2>1. <<"proposals", i>> \notin Issues(d)
    OBVIOUS
  <2> QED BY <2>1 DEF Issues
<1>3. ASSUME NEW t \in {"principals", "alerts"}, NEW i \in DOMAIN d[t]
      PROVE  d[t][i].currency \in Currencies
  <2>1. <<t, i>> \notin Issues(d)
    OBVIOUS
  <2> QED BY <2>1 DEF Issues
<1>4. RoundTwoHolds(d)
  BY <1>1, <1>2, <1>3 DEF RoundTwoHolds, Shaped
<1>5. ASSUME NEW i \in DOMAIN d.proposals, NEW j \in DOMAIN d.proposals,
             d.proposals[i].transaction # NULL,
             d.proposals[i].transaction = d.proposals[j].transaction
      PROVE  i = j
  <2>1. d.proposals[i].status = "CONFIRMED" /\ d.proposals[j].status = "CONFIRMED"
    BY <1>5 DEF Legal
  <2>2. Confirms(d, i) /\ Confirms(d, j)
    BY <1>2, <2>1
  <2> QED BY <1>5, <2>2 DEF Confirms
<1>6. ConfirmationHolds(d)
  BY <1>2, <1>5 DEF ConfirmationHolds
<1> QED BY <1>4, <1>6 DEF InForce

LEMMA LaterWeaker ==
  ASSUME NEW d, NEW n \in 0..Downgrade
  PROVE  (InForce(d, Downgrade) => InForce(d, n)) /\ (InForce(d, n) => Legal(d))
BY DEF InForce, Downgrade, RoundTwo, Confirmation

-----------------------------------------------------------------------------

\* The preflight breaks none of the constraints it meets.
LEMMA PreflightLegal ==
  ASSUME NEW d, Shaped(d), Legal(d),
         NEW e, e = Rewritten(d, [c \in Cells(d) |-> Remediated(d, c)])
  PROVE  Legal(e)
<1> DEFINE value == [c \in Cells(d) |-> Remediated(d, c)]
<1>1. /\ DOMAIN e.transactions = DOMAIN d.transactions /\ DOMAIN e.proposals = DOMAIN d.proposals
      /\ \A i \in DOMAIN d.transactions, col \in {"type", "hash", "key"} :
           e.transactions[i][col] = Remediated(d, <<"transactions", i, col>>)
      /\ \A i \in DOMAIN d.proposals, col \in {"hash", "currency", "status", "transaction"} :
           e.proposals[i][col] = Remediated(d, <<"proposals", i, col>>)
  <2>1. /\ "transactions" \in DOMAIN d /\ "proposals" \in DOMAIN d
        /\ \A i \in DOMAIN d.transactions : {"type", "hash", "key"} \subseteq DOMAIN d.transactions[i]
        /\ \A i \in DOMAIN d.proposals :
             {"hash", "currency", "status", "transaction"} \subseteq DOMAIN d.proposals[i]
    BY DEF Shaped
  <2>2. /\ \A i \in DOMAIN d.transactions, col \in {"type", "hash", "key"} :
             value[<<"transactions", i, col>>] = Remediated(d, <<"transactions", i, col>>)
        /\ \A i \in DOMAIN d.proposals, col \in {"hash", "currency", "status", "transaction"} :
             value[<<"proposals", i, col>>] = Remediated(d, <<"proposals", i, col>>)
    BY <2>1, CellOf
  <2> HIDE DEF value
  <2> QED BY <2>1, <2>2, RewrittenRows DEF value
<1>2. ASSUME NEW i \in DOMAIN d.transactions
      PROVE  LET t == e.transactions[i] IN t.type = "SYSTEM" \/ (t.hash # NULL /\ t.hash \notin Blank)
  <2>1. PICK type, hash : type = d.transactions[i].type /\ hash = d.transactions[i].hash
    OBVIOUS
  <2>2. type = "SYSTEM" \/ (hash # NULL /\ hash \notin Blank)
    BY <2>1 DEF Legal
  <2>3. /\ At(d, <<"transactions", i, "type">>) = type
        /\ At(d, <<"transactions", i, "hash">>) = hash
    BY <2>1 DEF At
  <2>4. e.transactions[i].type = IF Fold(type) \in SourceTypes THEN Fold(type) ELSE type
    BY <1>1, <2>3 DEF Remediated, Supported
  <2>5. Fold(type) # "SYSTEM" =>
          e.transactions[i].hash = IF Fold(hash) \in Digests THEN Fold(hash) ELSE hash
    BY <1>1, <2>1, <2>3 DEF Remediated, Supported
  <2>6. "SYSTEM" \in SourceTypes /\ Fold("SYSTEM") = "SYSTEM"
    BY FoldedOnce DEF SourceTypes
  <2>7. NULL \notin Digests /\ Digests \cap Blank = {}
    BY UpgradeAssumption DEF Digests, Blank
  <2> QED BY <2>2, <2>4, <2>5, <2>6, <2>7
<1>3. ASSUME NEW i \in DOMAIN d.proposals
      PROVE  LET p == e.proposals[i] IN
             /\ p.hash # NULL /\ p.currency \notin DOMAIN Respelled
             /\ p.status = "CONFIRMED" <=> p.transaction # NULL
  <2>1. PICK p : p = d.proposals[i]
    OBVIOUS
  <2>2. /\ p.hash # NULL /\ p.currency \notin DOMAIN Respelled
        /\ p.status = "CONFIRMED" <=> p.transaction # NULL
    BY <2>1 DEF Legal
  <2>3. \A col : At(d, <<"proposals", i, col>>) = p[col]
    BY <2>1 DEF At
  <2>4. e.proposals[i].status = p.status /\ e.proposals[i].transaction = p.transaction
    BY <1>1, <2>3 DEF Remediated, Supported
  <2>5. e.proposals[i].hash = IF Fold(p.hash) \in Digests THEN Fold(p.hash) ELSE p.hash
    <3>1. Supported("proposals", "hash") = Digests
      BY DEF Supported
    <3>2. At(d, <<"proposals", i, "hash">>) = p.hash
      BY <2>3
    <3> QED BY <1>1, <3>1, <3>2 DEF Remediated
  <2>6. e.proposals[i].currency = p.currency
    BY <1>1, <2>2, <2>3 DEF Remediated, Supported, Fold
  <2>7. NULL \notin Digests
    BY UpgradeAssumption
  <2> QED BY <2>2, <2>4, <2>5, <2>6, <2>7
<1>4. ASSUME NEW i \in DOMAIN d.transactions
      PROVE  e.transactions[i].key = d.transactions[i].key
  <2>1. At(d, <<"transactions", i, "key">>) = d.transactions[i].key
    BY DEF At
  <2>2. Supported("transactions", "key") = {}
    BY DEF Supported
  <2> QED BY <1>1, <2>1, <2>2 DEF Remediated
<1> QED BY <1>1, <1>2, <1>3, <1>4 DEF Legal

LEMMA UpgradeStarts == UpgradeInit => UpgradeInv
<1> SUFFICES ASSUME UpgradeInit PROVE UpgradeInv
  OBVIOUS
<1>1. Shaped(db) /\ Legal(db) /\ original = db /\ applied = 0 /\ untouched = FALSE
  BY UpgradeAssumption DEF UpgradeInit
<1> QED BY <1>1 DEF UpgradeInv, Downgrade

LEMMA PreflightUpKeeps ==
  ASSUME UpgradeInv, PreflightUp
  PROVE  UpgradeInv'
<1>1. PICK d, e : d = db /\ e = db'
  OBVIOUS
<1>2. /\ e = Rewritten(d, [c \in Cells(d) |-> Remediated(d, c)])
      /\ Shaped(d) /\ Legal(d) /\ applied' = Preflight /\ original' = d /\ edited' = {}
      /\ untouched' = FALSE
      /\ recorded' = [c \in {x \in Cells(d) : Remediated(d, x) # At(d, x)} |-> At(d, c)]
  BY <1>1 DEF PreflightUp, UpgradeInv, Gate
<1>3. Shaped(e) /\ Cells(e) = Cells(d) /\ \A c \in Cells(d) : At(e, c) = Remediated(d, c)
  <2>1. PICK value : value = [c \in Cells(d) |-> Remediated(d, c)]
    OBVIOUS
  <2>2. Shaped(e) /\ Cells(e) = Cells(d) /\ \A c \in Cells(d) : At(e, c) = value[c]
    BY <1>2, <2>1, RewrittenRows
  <2> QED BY <2>1, <2>2
<1>4. Legal(e)
  BY <1>2, PreflightLegal
<1> QED BY <1>1, <1>2, <1>3, <1>4 DEF UpgradeInv, Preflight, Downgrade

LEMMA VersionKeeps ==
  ASSUME UpgradeInv, GateUp \/ ConstraintsUp \/ Undo
  PROVE  UpgradeInv'
<1>1. /\ UNCHANGED <<db, recorded, original, edited>>
      /\ applied \in 1..Downgrade /\ applied' \in 1..Downgrade
  BY DEF GateUp, ConstraintsUp, Undo, UpgradeInv, Preflight, Gate, Confirmation, Downgrade
<1>2. untouched' => applied' >= Gate /\ InForce(db, Downgrade)
  <2>1. CASE GateUp
    BY <2>1, GateStands DEF GateUp, UpgradeInv, Gate
  <2>2. CASE ConstraintsUp \/ Undo
    <3>1. untouched' => untouched /\ applied' >= Gate
      <4>1. CASE ConstraintsUp
        <5>1. applied' >= Gate
          BY <4>1 DEF ConstraintsUp, Gate, Confirmation
        <5>2. untouched' = untouched
          BY <4>1 DEF ConstraintsUp
        <5> QED BY <5>1, <5>2
      <4>2. CASE Undo
        <5>1. untouched' = (untouched /\ applied' >= Gate)
          BY <4>2 DEF Undo
        <5> QED BY <5>1, Zenon
      <4> QED BY <2>2, <4>1, <4>2
    <3> QED BY <3>1 DEF UpgradeInv
  <2> QED BY <2>1, <2>2
<1>3. /\ applied' > 0 /\ applied > 0 /\ applied' # 0 /\ applied # 0
      /\ applied' \in 0..Downgrade
  BY <1>1 DEF Downgrade
<1> QED BY <1>1, <1>2, <1>3 DEF UpgradeInv

LEMMA PreflightDownKeeps ==
  ASSUME UpgradeInv, PreflightDown
  PROVE  UpgradeInv'
<1>1. PICK d, e, o : d = db /\ e = db' /\ o = original
  OBVIOUS
<1>2. PICK value : value = [c \in Cells(d) |-> Restored(c)]
  OBVIOUS
<1>3. /\ e = Rewritten(d, value) /\ Legal(e) /\ applied' = 0 /\ original' = o /\ edited' = edited
      /\ untouched' = FALSE /\ applied = Preflight
  BY <1>1, <1>2 DEF PreflightDown, UpgradeInv, Gate, Preflight
<1>4. Shaped(d) /\ Shaped(o) /\ Cells(d) = Cells(o)
  BY <1>1 DEF UpgradeInv
<1>5. Shaped(e) /\ Cells(e) = Cells(d) /\ \A c \in Cells(d) : At(e, c) = value[c]
  BY <1>3, <1>4, RewrittenRows
<1>6. ASSUME NEW c \in Cells(d) \ edited
      PROVE  At(e, c) = At(o, c)
  <2>1. At(d, c) = Remediated(o, c)
    BY <1>1, <1>3, <1>6 DEF UpgradeInv, Preflight
  <2>2. recorded = [x \in {y \in Cells(o) : Remediated(o, y) # At(o, y)} |-> At(o, x)]
    BY <1>1, <1>3 DEF UpgradeInv, Preflight
  <2>3. Restored(c) = At(o, c)
    BY <1>1, <1>4, <1>6, <2>1, <2>2 DEF Restored
  <2> QED BY <1>2, <1>5, <1>6, <2>3
<1> QED BY <1>1, <1>3, <1>4, <1>5, <1>6 DEF UpgradeInv, Downgrade

LEMMA EditKeeps ==
  ASSUME UpgradeInv, NEW c \in Cells(db), NEW v, Edit(c, v)
  PROVE  UpgradeInv'
<1>1. PICK d, e, value : /\ d = db /\ e = db'
                         /\ value = [x \in Cells(d) |-> IF x = c THEN v ELSE At(d, x)]
  OBVIOUS
<1>2. /\ e = Rewritten(d, value) /\ InForce(e, applied) /\ edited' = edited \cup {c}
      /\ untouched' = FALSE /\ UNCHANGED <<applied, recorded, original>>
  BY <1>1 DEF Edit
<1>3. Shaped(d) /\ applied \in 0..Downgrade
  BY <1>1 DEF UpgradeInv
<1>4. Shaped(e) /\ Cells(e) = Cells(d) /\ \A x \in Cells(d) : At(e, x) = value[x]
  BY <1>2, <1>3, RewrittenRows
<1>5. Legal(e)
  BY <1>2, <1>3, LaterWeaker
<1>6. \A x \in Cells(e) \ edited' : x \in Cells(d) \ edited /\ At(e, x) = At(d, x)
  BY <1>1, <1>2, <1>4
<1>7. UNCHANGED <<applied, recorded, original>>
  BY <1>2
<1>8. \A x \in Cells(db') \ edited' :
        At(db', x) = IF applied' = 0 THEN At(original', x) ELSE Remediated(original', x)
  BY <1>1, <1>6, <1>7 DEF UpgradeInv
<1> QED BY <1>1, <1>2, <1>4, <1>5, <1>7, <1>8 DEF UpgradeInv

\* Whatever is migrated up and down and edited in between, a cell nobody edited is as
\* the preflight found it or left it.
THEOREM UpgradeInvariant == UpgradeSpec => []UpgradeInv
<1>1. UpgradeInv /\ [UpgradeNext]_upgradeVars => UpgradeInv'
  <2> SUFFICES ASSUME UpgradeInv, [UpgradeNext]_upgradeVars PROVE UpgradeInv'
    OBVIOUS
  <2>1. ASSUME NEW c \in Cells(db), NEW v, Edit(c, v)
        PROVE  UpgradeInv'
    BY <2>1, EditKeeps
  <2>2. CASE UNCHANGED upgradeVars
    BY <2>2 DEF UpgradeInv, upgradeVars
  <2> QED BY <2>1, <2>2, PreflightUpKeeps, VersionKeeps, PreflightDownKeeps DEF UpgradeNext
<1> QED BY <1>1, UpgradeStarts, PTL DEF UpgradeSpec

\* An upgrade past its gate cannot fail for a row nobody edits, a cell nobody edits means
\* what it meant, and undoing the preflight spells it as it was, for any rows and any
\* edits (refresh_legacy_integrity_preflight, restoreColumn).
THEOREM UpgradeIsPreserving == UpgradeSpec => []UpgradePreserves
<1>1. UpgradeInv => UpgradePreserves
  <2> SUFFICES ASSUME UpgradeInv PROVE UpgradePreserves
    OBVIOUS
  <2>1. ASSUME NEW c \in Cells(db) \ edited
        PROVE  /\ SameMeaning(At(db, c), At(original, c))
               /\ applied = 0 => At(db, c) = At(original, c)
    <3>1. At(db, c) = IF applied = 0 THEN At(original, c) ELSE Remediated(original, c)
      BY DEF UpgradeInv
    <3> QED BY <3>1, RemediatedMeans
  <2> QED BY <2>1 DEF UpgradeInv, UpgradePreserves
<1> QED BY <1>1, UpgradeInvariant, PTL
=============================================================================
