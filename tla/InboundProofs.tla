---------------------------- MODULE InboundProofs ---------------------------
(***************************************************************************)
(* Proofs about InboundQueue, for every set of messages, deliveries,       *)
(* processes and runs and every bound on attempts, batches and faults.     *)
(*                                                                         *)
(* IInv is inductive.  Order rests on Numbered: while a storing transaction*)
(* holds its sender's lock its sequence number is the sender's last, so a  *)
(* row never appears behind one that has been claimed.  Single replies and *)
(* exact attempts rest on Holding: the fence of the updates lets only the  *)
(* holder of the claim settle a row, and what it read at the claim is      *)
(* still true then.                                                        *)
(***************************************************************************)
EXTENDS InboundQueue, TLAPS

\* Steps that leave the rows, the counts and the claims alone.
LEMMA RowsKept ==
  ASSUME IInv, TypeOK', UNCHANGED <<rows, replies, failures>>, nextSeq' >= nextSeq,
         \A r \in Runs : \/ run'[r] = run[r]
                         \/ run'[r].pc = "idle"
                         \/ run'[r].pc = "claim" /\ run'[r].msg \in DOMAIN rows,
         \A p \in Processes : handoff'[p] \subseteq DOMAIN rows /\ batch'[p] \subseteq DOMAIN rows,
         \A d \in Deliveries : txn'[d].pc = "inserted" => txn'[d] = txn[d]
  PROVE  IInv'
<1>1. Known'
  BY DEF IInv, Known
<1>2. Numbered'
  <2>1. nextSeq \in Nat /\ nextSeq' \in Nat /\ \A m \in DOMAIN rows : rows[m].seq \in Nat
    BY DEF IInv, TypeOK, Row
  <2>2. \A d \in Deliveries : txn[d].seq \in Nat
    BY DEF IInv, TypeOK
  <2> QED BY <2>1, <2>2 DEF IInv, Numbered, SameSender
<1>3. Holding'
  BY DEF IInv, Holding, Fenced
<1>4. SenderOrder' /\ SingleReply' /\ AttemptsExact'
  BY DEF IInv, SenderOrder, SingleReply, AttemptsExact, SameSender
<1> QED BY <1>1, <1>2, <1>3, <1>4 DEF IInv

LEMMA EndRun ==
  ASSUME TypeOK, NEW r \in Runs, End(r)
  PROVE  /\ run' \in [Runs -> [pc : {"idle", "claim", "core", "reply"},
                               msg : Messages \cup {NULL}, attempts : Nat,
                               host : Processes \cup {NULL}]]
         /\ awaited' \in [Processes -> Runs \cup {NULL}]
         /\ run'[r].pc = "idle"
         /\ \A q \in Runs \ {r} : run'[q] = run[q]
  BY DEF TypeOK, End, IdleRun

LEMMA BeginRun ==
  ASSUME TypeOK, NEW p \in Processes, NEW m \in Messages, NEW r \in Runs, Begin(p, m, r)
  PROVE  /\ run' \in [Runs -> [pc : {"idle", "claim", "core", "reply"},
                               msg : Messages \cup {NULL}, attempts : Nat,
                               host : Processes \cup {NULL}]]
         /\ run'[r].pc = "claim" /\ run'[r].msg = m
         /\ \A q \in Runs \ {r} : run'[q] = run[q]
  BY DEF TypeOK, Begin

LEMMA StartHandoffStep ==
  ASSUME IInv, NEW p \in Processes, StartHandoff(p)
  PROVE  IInv'
<1>1. PICK m \in handoff[p] :
        /\ handoff' = [handoff EXCEPT ![p] = @ \ {m}]
        /\ (\E r \in Runs : Begin(p, m, r)) \/ run' = run
  BY DEF StartHandoff
<1>2. UNCHANGED <<rows, txn, nextSeq, clock, batch, awaited, state, faults, replies, failures>>
  BY DEF StartHandoff
<1>3. m \in Messages /\ m \in DOMAIN rows
  BY DEF IInv, TypeOK, Known
<1>4. /\ run' \in [Runs -> [pc : {"idle", "claim", "core", "reply"},
                            msg : Messages \cup {NULL}, attempts : Nat,
                            host : Processes \cup {NULL}]]
      /\ \A r \in Runs : run'[r] = run[r] \/ (run'[r].pc = "claim" /\ run'[r].msg = m)
  BY <1>1, <1>3, BeginRun DEF IInv, TypeOK
<1>5. TypeOK'
  BY <1>1, <1>2, <1>4 DEF IInv, TypeOK
<1>6. \A q \in Processes : handoff'[q] \subseteq DOMAIN rows /\ batch'[q] \subseteq DOMAIN rows
  BY <1>1, <1>2 DEF IInv, TypeOK, Known
<1>7. nextSeq' >= nextSeq
  BY <1>2 DEF IInv, TypeOK
<1> QED BY <1>2, <1>3, <1>4, <1>5, <1>6, <1>7, RowsKept

LEMMA RecoverNextStep ==
  ASSUME IInv, NEW p \in Processes, RecoverNext(p)
  PROVE  IInv'
<1>1. PICK m \in batch[p] :
        /\ batch' = [batch EXCEPT ![p] = @ \ {m}]
        /\ \/ \E r \in Runs : Begin(p, m, r) /\ awaited' = [awaited EXCEPT ![p] = r]
           \/ UNCHANGED <<run, awaited>>
  BY DEF RecoverNext
<1>2. UNCHANGED <<rows, txn, nextSeq, clock, handoff, state, faults, replies, failures>>
  BY DEF RecoverNext
<1>3. m \in Messages /\ m \in DOMAIN rows
  BY DEF IInv, TypeOK, Known
<1>4. /\ run' \in [Runs -> [pc : {"idle", "claim", "core", "reply"},
                            msg : Messages \cup {NULL}, attempts : Nat,
                            host : Processes \cup {NULL}]]
      /\ \A r \in Runs : run'[r] = run[r] \/ (run'[r].pc = "claim" /\ run'[r].msg = m)
  BY <1>1, <1>3, BeginRun DEF IInv, TypeOK
<1>5. TypeOK'
  BY <1>1, <1>2, <1>4 DEF IInv, TypeOK
<1>6. \A q \in Processes : handoff'[q] \subseteq DOMAIN rows /\ batch'[q] \subseteq DOMAIN rows
  BY <1>1, <1>2 DEF IInv, TypeOK, Known
<1>7. nextSeq' >= nextSeq
  BY <1>2 DEF IInv, TypeOK
<1> QED BY <1>2, <1>3, <1>4, <1>5, <1>6, <1>7, RowsKept

LEMMA PickBatchStep ==
  ASSUME IInv, NEW p \in Processes, PickBatch(p)
  PROVE  IInv'
<1>1. /\ batch' = [batch EXCEPT ![p] = BatchOf]
      /\ UNCHANGED <<rows, txn, nextSeq, clock, run, handoff, awaited, state, faults, replies,
                     failures>>
  BY DEF PickBatch
<1>2. BatchOf \subseteq DOMAIN rows
  BY DEF BatchOf, Oldest, Due
<1>3. TypeOK'
  BY <1>1, <1>2 DEF IInv, TypeOK
<1>4. \A q \in Processes : handoff'[q] \subseteq DOMAIN rows /\ batch'[q] \subseteq DOMAIN rows
  BY <1>1, <1>2 DEF IInv, TypeOK, Known
<1>5. nextSeq' >= nextSeq
  BY <1>1 DEF IInv, TypeOK
<1> QED BY <1>1, <1>3, <1>4, <1>5, RowsKept

\* Crash and Exit.
LEMMA StopStep ==
  ASSUME IInv, NEW p \in Processes, Stop(p), faults' \in 0..MaxFaults
  PROVE  IInv'
<1>1. TypeOK'
  BY DEF IInv, TypeOK, Stop, IdleRun, NoTxn
<1>2. \A q \in Processes : handoff'[q] \subseteq DOMAIN rows /\ batch'[q] \subseteq DOMAIN rows
  BY DEF IInv, TypeOK, Known, Stop
<1>3. \A r \in Runs : run'[r] = run[r] \/ run'[r].pc = "idle"
  BY DEF Stop, IdleRun
<1>4. \A d \in Deliveries : txn'[d].pc = "inserted" => txn'[d] = txn[d]
  BY DEF Stop, NoTxn
<1>5. UNCHANGED <<rows, replies, failures>> /\ nextSeq' >= nextSeq
  BY DEF IInv, TypeOK, Stop
<1> QED BY <1>1, <1>2, <1>3, <1>4, <1>5, RowsKept

LEMMA ProcessStep ==
  ASSUME IInv, NEW p \in Processes,
         Crash(p) \/ BeginShutdown(p) \/ Exit(p) \/ Restart(p)
  PROVE  IInv'
<1>1. CASE Crash(p)
  <2>1. faults' \in 0..MaxFaults
    BY <1>1, BoundAssumption DEF Crash, IInv, TypeOK
  <2> QED BY <1>1, <2>1, StopStep DEF Crash
<1>2. CASE Exit(p)
  BY <1>2, StopStep DEF Exit, IInv, TypeOK
<1>3. CASE BeginShutdown(p) \/ Restart(p)
  <2>1. /\ UNCHANGED <<rows, txn, nextSeq, clock, run, handoff, batch, awaited, replies, failures>>
        /\ faults' \in 0..MaxFaults
        /\ state' = [state EXCEPT ![p] = "draining"] \/ state' = [state EXCEPT ![p] = "up"]
    BY <1>3, BoundAssumption DEF BeginShutdown, Restart, IInv, TypeOK
  <2>2. TypeOK'
    BY <2>1 DEF IInv, TypeOK
  <2>3. nextSeq' >= nextSeq
    BY <2>1 DEF IInv, TypeOK
  <2>4. \A q \in Processes : handoff'[q] \subseteq DOMAIN rows /\ batch'[q] \subseteq DOMAIN rows
    BY <2>1 DEF IInv, Known
  <2> QED BY <2>1, <2>2, <2>3, <2>4, RowsKept
<1> QED BY <1>1, <1>2, <1>3

LEMMA StoreBeginStep ==
  ASSUME IInv, NEW d \in Deliveries, NEW p \in Processes, StoreBegin(d, p)
  PROVE  IInv'
<1>1. /\ UNCHANGED <<rows, nextSeq, run, handoff, batch, awaited, state, faults, replies, failures>>
      /\ txn' = [txn EXCEPT ![d] = [pc |-> "begun", host |-> p, at |-> clock, seq |-> 0]]
      /\ clock' = clock + 1
  BY DEF StoreBegin
<1>2. TypeOK'
  BY <1>1 DEF IInv, TypeOK
<1>3. \A e \in Deliveries : txn'[e].pc = "inserted" => txn'[e] = txn[e]
  BY <1>1 DEF IInv, TypeOK
<1>4. nextSeq' >= nextSeq
  BY <1>1 DEF IInv, TypeOK
<1>5. \A q \in Processes : handoff'[q] \subseteq DOMAIN rows /\ batch'[q] \subseteq DOMAIN rows
  BY <1>1 DEF IInv, Known
<1> QED BY <1>1, <1>2, <1>3, <1>4, <1>5, RowsKept

LEMMA RecordLostStep ==
  ASSUME IInv, NEW r \in Runs, RecordLost(r)
  PROVE  IInv'
<1>1. /\ UNCHANGED <<rows, txn, nextSeq, clock, handoff, batch, state, replies, failures>>
      /\ faults' = faults + 1 /\ faults < MaxFaults /\ End(r)
  BY DEF RecordLost
<1>2. TypeOK'
  BY <1>1, EndRun, BoundAssumption DEF IInv, TypeOK
<1>3. nextSeq' >= nextSeq
  BY <1>1 DEF IInv, TypeOK
<1>4. \A q \in Processes : handoff'[q] \subseteq DOMAIN rows /\ batch'[q] \subseteq DOMAIN rows
  BY <1>1 DEF IInv, Known
<1>5. \A q \in Runs : run'[q] = run[q] \/ run'[q].pc = "idle"
  BY <1>1, EndRun DEF IInv
<1> QED BY <1>1, <1>2, <1>3, <1>4, <1>5, RowsKept

-----------------------------------------------------------------------------
(* Storing.                                                                *)

LEMMA StoreInsertStep ==
  ASSUME IInv, NEW d \in Deliveries, StoreInsert(d)
  PROVE  IInv'
<1> DEFINE fresh == MessageOf[d] \notin DOMAIN rows
<1>1. /\ UNCHANGED <<rows, clock, run, handoff, batch, awaited, state, faults, replies, failures>>
      /\ nextSeq' = nextSeq + 1 /\ nextSeq \in Nat \ {0}
      /\ txn[d].pc = "begun"
  BY DEF StoreInsert, IInv, TypeOK
<1>2. /\ \A e \in Deliveries \ {d} : txn'[e] = txn[e]
      /\ txn'[d].pc = IF fresh THEN "inserted" ELSE "over"
      /\ fresh => txn'[d].seq = nextSeq
      /\ txn' \in [Deliveries -> [pc : {"new", "begun", "inserted", "over"},
                                  host : Processes \cup {NULL}, at : Nat, seq : Nat]]
  <2>1. EndedTxn \in [pc : {"new", "begun", "inserted", "over"},
                      host : Processes \cup {NULL}, at : Nat, seq : Nat] /\ EndedTxn.pc = "over"
    BY DEF EndedTxn, NoTxn
  <2> DEFINE new == IF fresh THEN [txn[d] EXCEPT !.pc = "inserted", !.seq = nextSeq] ELSE EndedTxn
  <2>2. txn' = [txn EXCEPT ![d] = new]
    BY DEF StoreInsert
  <2>3. /\ new \in [pc : {"new", "begun", "inserted", "over"},
                   host : Processes \cup {NULL}, at : Nat, seq : Nat]
        /\ new.pc = IF fresh THEN "inserted" ELSE "over"
        /\ fresh => new.seq = nextSeq
    BY <1>1, <2>1 DEF IInv, TypeOK
  <2> HIDE DEF new
  <2> QED BY <2>2, <2>3 DEF IInv, TypeOK
<1>3. TypeOK'
  BY <1>1, <1>2 DEF IInv, TypeOK
<1>4. Numbered'
  <2>1. \A m \in DOMAIN rows : rows[m].seq \in Nat /\ rows[m].seq < nextSeq
    BY DEF IInv, TypeOK, Row, Numbered
  <2>2. \A e \in Deliveries : txn[e].seq \in Nat /\ (txn[e].pc = "inserted" => txn[e].seq < nextSeq)
    BY DEF IInv, TypeOK, Numbered
  <2>3. (\A m \in DOMAIN rows : rows[m].seq < nextSeq)'
    BY <1>1, <2>1
  <2>4. (\A m, n \in DOMAIN rows : SameSender(m, n) /\ rows[m].seq = rows[n].seq => m = n)'
    BY <1>1 DEF IInv, Numbered, SameSender
  <2>5. ASSUME NEW e \in Deliveries, txn'[e].pc = "inserted"
        PROVE  /\ txn'[e].seq < nextSeq' /\ MessageOf[e] \notin DOMAIN rows
               /\ \A m \in DOMAIN rows : SameSender(m, MessageOf[e]) => rows[m].seq < txn'[e].seq
               /\ \A f \in Deliveries \ {e} : txn'[f].pc = "inserted" =>
                    ~SameSender(MessageOf[e], MessageOf[f])
    <3>1. CASE e = d
      BY <1>1, <1>2, <2>1, <2>5, <3>1 DEF StoreInsert, SenderLockFree
    <3>2. CASE e # d
      <4>1. txn[e] = txn'[e]
        BY <1>2, <3>2
      <4>2. \A f \in Deliveries \ {e} : txn'[f].pc = "inserted" =>
                    ~SameSender(MessageOf[e], MessageOf[f])
        BY <1>2, <2>5, <4>1 DEF StoreInsert, SenderLockFree, IInv, Numbered, SameSender
      <4> QED BY <1>1, <2>2, <2>5, <4>1, <4>2 DEF IInv, Numbered
    <3> QED BY <3>1, <3>2
  <2> QED BY <1>1, <2>3, <2>4, <2>5 DEF Numbered, SameSender
<1>5. Known' /\ Holding'
  BY <1>1 DEF IInv, Known, Holding, Fenced
<1>6. SenderOrder' /\ SingleReply' /\ AttemptsExact'
  BY <1>1 DEF IInv, SenderOrder, SingleReply, AttemptsExact, SameSender
<1> QED BY <1>3, <1>4, <1>5, <1>6 DEF IInv

LEMMA StoreCommitStep ==
  ASSUME IInv, NEW d \in Deliveries, StoreCommit(d)
  PROVE  IInv'
<1> DEFINE m == MessageOf[d]
           new == NewRow(d)
<1>1. /\ UNCHANGED <<nextSeq, clock, run, batch, awaited, state, faults, replies, failures>>
      /\ txn[d].pc = "inserted"
      /\ rows' = [n \in DOMAIN rows \cup {m} |-> IF n = m THEN new ELSE rows[n]]
      /\ handoff' = [handoff EXCEPT ![txn[d].host] = @ \cup {m}]
      /\ txn' = [txn EXCEPT ![d] = EndedTxn]
  BY DEF StoreCommit
<1>2. m \in Messages /\ m \notin DOMAIN rows /\ txn[d].seq < nextSeq
  BY <1>1, DeliveryAssumption DEF IInv, Numbered
<1>3. /\ new \in Row /\ new.status = "RECEIVED" /\ new.token = NULL /\ new.seq = txn[d].seq
      /\ new.attempts = 0
  BY BoundAssumption DEF NewRow, Row, IInv, TypeOK
<1>4. /\ DOMAIN rows' = DOMAIN rows \cup {m} /\ rows'[m] = new
      /\ \A n \in DOMAIN rows : rows'[n] = rows[n]
  BY <1>1, <1>2
<1>5. EndedTxn \in [pc : {"new", "begun", "inserted", "over"},
                    host : Processes \cup {NULL}, at : Nat, seq : Nat] /\ EndedTxn.pc = "over"
  BY DEF EndedTxn, NoTxn
<1>6. /\ \A e \in Deliveries \ {d} : txn'[e] = txn[e]
      /\ txn'[d].pc = "over"
  BY <1>1, <1>5 DEF IInv, TypeOK
<1> HIDE DEF new, m
<1>7. TypeOK'
  <2>1. \A n \in DOMAIN rows' : rows'[n] \in Row /\ (rows'[n].token # NULL <=> rows'[n].status = "PROCESSING")
    BY <1>3, <1>4 DEF IInv, TypeOK
  <2>2. handoff' \in [Processes -> SUBSET Messages]
    BY <1>1, <1>2 DEF IInv, TypeOK
  <2>3. txn' \in [Deliveries -> [pc : {"new", "begun", "inserted", "over"},
                                 host : Processes \cup {NULL}, at : Nat, seq : Nat]]
    BY <1>1, <1>5 DEF IInv, TypeOK
  <2> QED BY <1>1, <1>2, <1>4, <2>1, <2>2, <2>3 DEF IInv, TypeOK
<1>8. Known'
  <2>1. \A p \in Processes : handoff'[p] \subseteq DOMAIN rows'
    BY <1>1, <1>4 DEF IInv, TypeOK, Known
  <2> QED BY <1>1, <1>4, <2>1 DEF IInv, Known
<1>9. Numbered'
  <2>1. \A n \in DOMAIN rows : SameSender(n, m) => rows[n].seq < new.seq
    BY <1>1, <1>3 DEF IInv, Numbered, m
  <2>2. \A n \in DOMAIN rows : rows[n].seq \in Nat
    BY DEF IInv, TypeOK, Row
  <2>3. new.seq \in Nat
    BY <1>3 DEF Row
  <2>4. (\A n \in DOMAIN rows : rows[n].seq < nextSeq)'
    BY <1>1, <1>2, <1>3, <1>4 DEF IInv, Numbered
  <2>5. (\A a, b \in DOMAIN rows : SameSender(a, b) /\ rows[a].seq = rows[b].seq => a = b)'
    <3> SUFFICES ASSUME NEW a \in DOMAIN rows', NEW b \in DOMAIN rows',
                        SameSender(a, b), rows'[a].seq = rows'[b].seq
                 PROVE  a = b
      BY DEF SameSender
    <3>1. a = m /\ b # m => FALSE
      BY <1>4, <2>1, <2>2, <2>3 DEF SameSender
    <3>2. b = m /\ a # m => FALSE
      BY <1>4, <2>1, <2>2, <2>3 DEF SameSender
    <3> QED BY <1>4, <3>1, <3>2 DEF IInv, Numbered
  <2>6. ASSUME NEW e \in Deliveries, txn'[e].pc = "inserted"
        PROVE  /\ txn'[e].seq < nextSeq' /\ MessageOf[e] \notin DOMAIN rows'
               /\ \A n \in DOMAIN rows' : SameSender(n, MessageOf[e]) => rows'[n].seq < txn'[e].seq
               /\ \A f \in Deliveries \ {e} : txn'[f].pc = "inserted" =>
                    ~SameSender(MessageOf[e], MessageOf[f])
    <3>1. e # d /\ txn[e] = txn'[e]
      BY <1>6, <2>6
    <3>2. ~SameSender(m, MessageOf[e])
      BY <1>1, <2>6, <3>1 DEF IInv, Numbered, m
    <3>3. MessageOf[e] # m
      BY <3>2 DEF SameSender
    <3> QED BY <1>1, <1>4, <1>6, <2>6, <3>1, <3>2, <3>3 DEF IInv, Numbered
  <2> QED BY <2>4, <2>5, <2>6 DEF Numbered, SameSender
<1>10. Holding'
  BY <1>1, <1>2, <1>4 DEF IInv, Known, Holding, Fenced
<1>11. SenderOrder'
  <2>1. \A n \in DOMAIN rows : SameSender(m, n) => ~(new.seq < rows[n].seq)
    <3>1. \A n \in DOMAIN rows : SameSender(n, m) => rows[n].seq < new.seq
      BY <1>1, <1>3 DEF IInv, Numbered, m
    <3>2. new.seq \in Nat /\ \A n \in DOMAIN rows : rows[n].seq \in Nat
      BY <1>3 DEF IInv, TypeOK, Row
    <3> QED BY <3>1, <3>2 DEF SameSender
  <2> SUFFICES ASSUME NEW a \in DOMAIN rows', NEW b \in DOMAIN rows', SameSender(a, b),
                      rows'[a].seq < rows'[b].seq, rows'[b].status # "RECEIVED"
               PROVE  rows'[a].status \in Terminal
    BY DEF SenderOrder, SameSender
  <2>2. b # m /\ b \in DOMAIN rows
    BY <1>3, <1>4
  <2>3. a # m /\ a \in DOMAIN rows
    BY <1>4, <2>1, <2>2
  <2> QED BY <1>4, <2>2, <2>3 DEF IInv, SenderOrder
<1>12. SingleReply' /\ AttemptsExact'
  BY <1>1, <1>2, <1>3, <1>4, BoundAssumption DEF IInv, SingleReply, AttemptsExact, Known
<1> QED BY <1>7, <1>8, <1>9, <1>10, <1>11, <1>12 DEF IInv

-----------------------------------------------------------------------------
(* Steps that change one stored row.                                       *)

\* The new version of a row: same number, same owner or none, its status moving on.
LEMMA RowChanges ==
  ASSUME IInv, NEW m \in DOMAIN rows, NEW new \in Row, rows' = [rows EXCEPT ![m] = new],
         new.token # NULL <=> new.status = "PROCESSING",
         new.seq = rows[m].seq,
         rows[m].status \in Terminal => new.status = rows[m].status,
         new.status = "RECEIVED" => rows[m].status = "RECEIVED",
         rows[m].status = "RECEIVED" /\ new.status # "RECEIVED" =>
           \A n \in DOMAIN rows : SameSender(n, m) /\ rows[n].seq < rows[m].seq
                                  => rows[n].status \in Terminal,
         UNCHANGED <<txn, nextSeq>>
  PROVE  /\ DOMAIN rows' = DOMAIN rows /\ rows'[m] = new
         /\ \A n \in DOMAIN rows \ {m} : rows'[n] = rows[n]
         /\ \A n \in DOMAIN rows' :
              rows'[n] \in Row /\ (rows'[n].token # NULL <=> rows'[n].status = "PROCESSING")
         /\ Numbered' /\ SenderOrder'
<1>1. /\ DOMAIN rows' = DOMAIN rows /\ rows'[m] = new
      /\ \A n \in DOMAIN rows \ {m} : rows'[n] = rows[n]
  OBVIOUS
<1>2. \A n \in DOMAIN rows : rows'[n].seq = rows[n].seq
  BY <1>1
<1>3. Numbered'
  BY <1>1, <1>2 DEF IInv, Numbered, SameSender
<1>4. SenderOrder'
  <2> SUFFICES ASSUME NEW a \in DOMAIN rows, NEW b \in DOMAIN rows, SameSender(a, b),
                      rows[a].seq < rows[b].seq, rows'[b].status # "RECEIVED"
               PROVE  rows'[a].status \in Terminal
    BY <1>1, <1>2 DEF SenderOrder, SameSender
  <2>1. rows[a].status \in Terminal
    <3>1. CASE b = m
      BY <1>1, <3>1 DEF IInv, SenderOrder
    <3>2. CASE b # m
      BY <1>1, <3>2 DEF IInv, SenderOrder
    <3> QED BY <3>1, <3>2
  <2> QED BY <1>1, <2>1
<1>5. \A n \in DOMAIN rows' :
        rows'[n] \in Row /\ (rows'[n].token # NULL <=> rows'[n].status = "PROCESSING")
  BY <1>1 DEF IInv, TypeOK
<1> QED BY <1>1, <1>3, <1>4, <1>5

\* Lapse, Stall and Heartbeat only turn the time condition of a row.
LEMMA TimeStep ==
  ASSUME IInv, NEW m \in DOMAIN rows, NEW due \in BOOLEAN,
         rows' = [rows EXCEPT ![m].due = due], faults' \in 0..MaxFaults,
         UNCHANGED <<txn, nextSeq, clock, run, handoff, batch, awaited, state, replies, failures>>
  PROVE  IInv'
<1> DEFINE new == [rows[m] EXCEPT !.due = due]
<1>1. /\ rows[m] \in Row /\ new \in Row /\ rows' = [rows EXCEPT ![m] = new]
      /\ new.status = rows[m].status /\ new.seq = rows[m].seq /\ new.token = rows[m].token
      /\ new.attempts = rows[m].attempts
      /\ new.token # NULL <=> new.status = "PROCESSING"
  BY DEF IInv, TypeOK, Row
<1> HIDE DEF new
<1>2. /\ DOMAIN rows' = DOMAIN rows /\ rows'[m] = new
      /\ \A n \in DOMAIN rows \ {m} : rows'[n] = rows[n]
      /\ \A n \in DOMAIN rows' :
           rows'[n] \in Row /\ (rows'[n].token # NULL <=> rows'[n].status = "PROCESSING")
      /\ Numbered' /\ SenderOrder'
  <2>1. /\ rows[m].status \in Terminal => new.status = rows[m].status
        /\ new.status = "RECEIVED" => rows[m].status = "RECEIVED"
        /\ rows[m].status = "RECEIVED" /\ new.status # "RECEIVED" =>
             \A n \in DOMAIN rows : SameSender(n, m) /\ rows[n].seq < rows[m].seq
                                    => rows[n].status \in Terminal
    BY <1>1
  <2> QED BY <1>1, <2>1, RowChanges
<1>3. TypeOK'
  BY <1>2 DEF IInv, TypeOK
<1>4. Known'
  BY <1>2 DEF IInv, Known
<1>5. \A n \in DOMAIN rows : /\ rows'[n].status = rows[n].status /\ rows'[n].token = rows[n].token
                             /\ rows'[n].attempts = rows[n].attempts
  BY <1>1, <1>2
<1>6. Holding'
  BY <1>5 DEF IInv, Known, Holding, Fenced
<1>7. SingleReply' /\ AttemptsExact'
  BY <1>2, <1>5 DEF IInv, SingleReply, AttemptsExact
<1> QED BY <1>2, <1>3, <1>4, <1>6, <1>7 DEF IInv

LEMMA ClockStep ==
  ASSUME IInv, \/ \E m \in Messages : Lapse(m) \/ Stall(m)
               \/ \E r \in Runs : Heartbeat(r)
  PROVE  IInv'
<1>1. ASSUME NEW m \in Messages, Lapse(m)
      PROVE  IInv'
  BY <1>1, TimeStep DEF Lapse, IInv, TypeOK
<1>2. ASSUME NEW m \in Messages, Stall(m)
      PROVE  IInv'
  <2>1. faults' \in 0..MaxFaults
    BY <1>2, BoundAssumption DEF Stall, IInv, TypeOK
  <2> QED BY <1>2, <2>1, TimeStep DEF Stall
<1>3. ASSUME NEW r \in Runs, Heartbeat(r)
      PROVE  IInv'
  <2>1. run[r].msg \in DOMAIN rows /\ faults' \in 0..MaxFaults
    BY <1>3 DEF Heartbeat, IInv, Known, TypeOK
  <2> QED BY <1>3, <2>1, TimeStep DEF Heartbeat
<1> QED BY <1>1, <1>2, <1>3

LEMMA ClaimStep ==
  ASSUME IInv, NEW r \in Runs, Claim(r)
  PROVE  IInv'
<1> DEFINE m == run[r].msg
           new == [rows[m] EXCEPT !.status = "PROCESSING", !.due = FALSE, !.token = r]
<1>1. /\ run[r].pc = "claim" /\ m \in DOMAIN rows
      /\ UNCHANGED <<txn, nextSeq, clock, handoff, batch, state, faults, replies, failures>>
  BY DEF Claim, IInv, Known
<1>2. CASE ~Claimable(m)
  <2>1. End(r) /\ UNCHANGED rows
    BY <1>2 DEF Claim
  <2>2. TypeOK'
    BY <1>1, <2>1, EndRun DEF IInv, TypeOK
  <2>3. nextSeq' >= nextSeq
    BY <1>1 DEF IInv, TypeOK
  <2>4. \A q \in Processes : handoff'[q] \subseteq DOMAIN rows /\ batch'[q] \subseteq DOMAIN rows
    BY <1>1 DEF IInv, Known
  <2>5. \A q \in Runs : run'[q] = run[q] \/ run'[q].pc = "idle"
    BY <2>1, EndRun DEF IInv
  <2> QED BY <1>1, <2>1, <2>2, <2>3, <2>4, <2>5, RowsKept
<1>3. CASE Claimable(m)
  <2>1. /\ run' = [run EXCEPT ![r].pc = "core", ![r].attempts = rows[m].attempts]
        /\ rows' = [rows EXCEPT ![m].status = "PROCESSING", ![m].due = FALSE, ![m].token = r]
        /\ awaited' = awaited
    BY <1>3 DEF Claim
  <2>2. /\ rows[m] \in Row /\ new \in Row /\ rows' = [rows EXCEPT ![m] = new]
        /\ new.status = "PROCESSING" /\ new.seq = rows[m].seq /\ new.token = r
        /\ new.attempts = rows[m].attempts /\ r # NULL
        /\ rows[m].status \notin Terminal
    <3>1. rows[m] \in Row /\ r # NULL
      BY <1>1, NullAssumption DEF IInv, TypeOK
    <3>2. rows' = [rows EXCEPT ![m] = new]
      BY <2>1
    <3>3. /\ new \in Row /\ new.status = "PROCESSING" /\ new.seq = rows[m].seq
          /\ new.token = r /\ new.attempts = rows[m].attempts
      BY <3>1 DEF Row
    <3>4. rows[m].status \notin Terminal
      BY <1>3 DEF Claimable, Terminal
    <3> QED BY <3>1, <3>2, <3>3, <3>4
  <2>3. \A n \in DOMAIN rows : SameSender(n, m) /\ rows[n].seq < rows[m].seq
                                  => rows[n].status \in Terminal
    BY <1>3 DEF Claimable, Blocking, IInv, TypeOK, Row, Terminal
  <2>4. /\ run'[r].pc = "core" /\ run'[r].msg = m /\ run'[r].attempts = rows[m].attempts
        /\ \A q \in Runs \ {r} : run'[q] = run[q]
        /\ run' \in [Runs -> [pc : {"idle", "claim", "core", "reply"},
                              msg : Messages \cup {NULL}, attempts : Nat,
                              host : Processes \cup {NULL}]]
    <3>1. rows[m].attempts \in Nat
      BY <2>2, BoundAssumption DEF Row
    <3>2. run \in [Runs -> [pc : {"idle", "claim", "core", "reply"},
                            msg : Messages \cup {NULL}, attempts : Nat,
                            host : Processes \cup {NULL}]]
      BY DEF IInv, TypeOK
    <3> QED BY <2>1, <3>1, <3>2
  <2> HIDE DEF new, m
  <2>5. /\ DOMAIN rows' = DOMAIN rows /\ rows'[m] = new
        /\ \A n \in DOMAIN rows \ {m} : rows'[n] = rows[n]
        /\ \A n \in DOMAIN rows' :
             rows'[n] \in Row /\ (rows'[n].token # NULL <=> rows'[n].status = "PROCESSING")
        /\ Numbered' /\ SenderOrder'
    BY <1>1, <2>2, <2>3, RowChanges
  <2>6. TypeOK'
    BY <1>1, <2>1, <2>4, <2>5 DEF IInv, TypeOK
  <2>7. Known'
    BY <1>1, <2>4, <2>5 DEF IInv, Known
  <2>8. Holding'
    <3>1. ASSUME NEW q \in Runs, run'[q].pc = "core", Fenced(q)'
          PROVE  run'[q].attempts = rows'[run'[q].msg].attempts
      <4>1. CASE q = r
        BY <2>2, <2>4, <2>5, <4>1
      <4>2. CASE q # r
        <5>1. run'[q] = run[q] /\ run[q].msg \in DOMAIN rows
          BY <2>4, <3>1, <4>2 DEF IInv, Known
        <5>2. run[q].msg # m
          BY <2>2, <2>5, <3>1, <4>2, <5>1 DEF Fenced
        <5> QED BY <2>5, <3>1, <5>1, <5>2 DEF IInv, Holding, Fenced
      <4> QED BY <4>1, <4>2
    <3>2. ASSUME NEW q \in Runs, run'[q].pc = "reply"
          PROVE  /\ rows'[run'[q].msg].status = "PROCESSED" /\ replies'[run'[q].msg] = 0
                 /\ \A o \in Runs \ {q} : run'[o].pc = "reply" => run'[o].msg # run'[q].msg
      <4>1. q # r /\ run'[q] = run[q] /\ run[q].msg \in DOMAIN rows
        BY <2>4, <3>2 DEF IInv, Known
      <4>2. rows[run[q].msg].status = "PROCESSED" /\ run[q].msg # m
        BY <2>2, <3>2, <4>1 DEF IInv, Holding, Terminal
      <4> QED BY <1>1, <2>4, <2>5, <3>2, <4>1, <4>2 DEF IInv, Holding
    <3> QED BY <3>1, <3>2 DEF Holding
  <2>9. SingleReply'
    BY <1>1, <2>2, <2>5 DEF IInv, SingleReply, Terminal
  <2>10. AttemptsExact'
    BY <1>1, <2>2, <2>5 DEF IInv, AttemptsExact, Terminal
  <2> QED BY <2>5, <2>6, <2>7, <2>8, <2>9, <2>10 DEF IInv
<1> QED BY <1>2, <1>3

\* The holder of a claim settles its row: PROCESSED, FAILED or DEAD.
LEMMA SettleStep ==
  ASSUME IInv, NEW r \in Runs, run[r].pc = "core", Fenced(r),
         NEW new \in Row, rows' = [rows EXCEPT ![run[r].msg] = new],
         new.status \in {"PROCESSED", "FAILED", "DEAD"}, new.token = NULL,
         new.seq = rows[run[r].msg].seq,
         UNCHANGED <<txn, nextSeq, clock, handoff, batch, state, replies>>,
         faults' \in 0..MaxFaults, failures' \in [Messages -> Nat],
         \A n \in Messages \ {run[r].msg} : failures'[n] = failures[n],
         run' \in [Runs -> [pc : {"idle", "claim", "core", "reply"},
                            msg : Messages \cup {NULL}, attempts : Nat,
                            host : Processes \cup {NULL}]],
         awaited' \in [Processes -> Runs \cup {NULL}],
         \A q \in Runs \ {r} : run'[q] = run[q],
         \/ run'[r].pc = "idle"
         \/ run'[r].pc = "reply" /\ run'[r].msg = run[r].msg /\ new.status = "PROCESSED",
         new.attempts = failures'[run[r].msg],
         new.status = "DEAD" <=> new.attempts = MaxAttempts
  PROVE  IInv'
<1> DEFINE m == run[r].msg
<1>1. m \in DOMAIN rows /\ m \in Messages /\ rows[m].status = "PROCESSING" /\ rows[m].token = r
  BY DEF IInv, TypeOK, Known, Fenced
<1> HIDE DEF m
<1>2. /\ DOMAIN rows' = DOMAIN rows /\ rows'[m] = new
      /\ \A n \in DOMAIN rows \ {m} : rows'[n] = rows[n]
      /\ \A n \in DOMAIN rows' :
           rows'[n] \in Row /\ (rows'[n].token # NULL <=> rows'[n].status = "PROCESSING")
      /\ Numbered' /\ SenderOrder'
  <2>1. /\ rows' = [rows EXCEPT ![m] = new]
        /\ new.token # NULL <=> new.status = "PROCESSING"
        /\ new.seq = rows[m].seq
        /\ rows[m].status \in Terminal => new.status = rows[m].status
        /\ new.status = "RECEIVED" => rows[m].status = "RECEIVED"
    BY <1>1 DEF m, Terminal
  <2>2. rows[m].status # "RECEIVED"
    BY <1>1
  <2> QED BY <1>1, <2>1, <2>2, RowChanges
<1>3. TypeOK'
  BY <1>2 DEF IInv, TypeOK
<1>4. Known'
  BY <1>1, <1>2 DEF IInv, Known, m
<1>5. replies[m] = 0
  <2>1. replies \in [Messages -> Nat]
    BY DEF IInv, TypeOK
  <2> DEFINE k == replies[m]
  <2>2. k <= 1 /\ k # 1
    BY <1>1 DEF IInv, SingleReply
  <2>3. k \in Nat
    BY <1>1, <2>1
  <2> HIDE DEF k
  <2>4. k = 0
    BY <2>2, <2>3
  <2> QED BY <2>4 DEF k
<1>6. Holding'
  <2>1. ASSUME NEW q \in Runs, run'[q].pc = "core", Fenced(q)'
        PROVE  run'[q].attempts = rows'[run'[q].msg].attempts
    <3>1. q # r /\ run'[q] = run[q] /\ run[q].msg \in DOMAIN rows
      BY <2>1 DEF IInv, Known
    <3>2. run[q].msg # m
      BY <1>2, <2>1, <3>1 DEF Fenced
    <3> QED BY <1>2, <2>1, <3>1, <3>2 DEF IInv, Holding, Fenced
  <2>2. ASSUME NEW q \in Runs, q # r, run'[q].pc = "reply"
        PROVE  /\ rows'[run'[q].msg].status = "PROCESSED" /\ replies'[run'[q].msg] = 0
               /\ run[q].msg # m /\ run'[q] = run[q]
    <3>1. run'[q] = run[q] /\ run[q].msg \in DOMAIN rows
      BY <2>2 DEF IInv, Known
    <3>2. rows[run[q].msg].status = "PROCESSED" /\ run[q].msg # m
      BY <1>1, <2>2, <3>1 DEF IInv, Holding
    <3> QED BY <1>2, <2>2, <3>1, <3>2 DEF IInv, Holding
  <2>3. ASSUME NEW q \in Runs, run'[q].pc = "reply"
        PROVE  /\ rows'[run'[q].msg].status = "PROCESSED" /\ replies'[run'[q].msg] = 0
               /\ \A o \in Runs \ {q} : run'[o].pc = "reply" => run'[o].msg # run'[q].msg
    <3>1. CASE q = r
      BY <1>2, <1>5, <2>2, <2>3, <3>1 DEF m
    <3>2. CASE q # r
      BY <2>2, <2>3, <3>2 DEF IInv, Holding, m
    <3> QED BY <3>1, <3>2
  <2> QED BY <2>1, <2>3 DEF Holding
<1>7. SingleReply'
  BY <1>1, <1>2, <1>5 DEF IInv, SingleReply
<1>8. AttemptsExact'
  BY <1>1, <1>2 DEF IInv, TypeOK, AttemptsExact, m
<1> QED BY <1>2, <1>3, <1>4, <1>6, <1>7, <1>8 DEF IInv

\* A run that has lost its claim ends and changes nothing.
LEMMA LostClaimStep ==
  ASSUME IInv, NEW r \in Runs, End(r),
         UNCHANGED <<rows, txn, nextSeq, clock, handoff, batch, state, faults, replies, failures>>
  PROVE  IInv'
<1>1. TypeOK'
  BY EndRun DEF IInv, TypeOK
<1>2. nextSeq' >= nextSeq
  BY DEF IInv, TypeOK
<1>3. \A q \in Processes : handoff'[q] \subseteq DOMAIN rows /\ batch'[q] \subseteq DOMAIN rows
  BY DEF IInv, Known
<1>4. \A q \in Runs : run'[q] = run[q] \/ run'[q].pc = "idle"
  BY EndRun DEF IInv
<1> QED BY <1>1, <1>2, <1>3, <1>4, RowsKept

LEMMA FinalizeStep ==
  ASSUME IInv, NEW r \in Runs, Finalize(r) \/ FinalizeUnacknowledged(r)
  PROVE  IInv'
<1> DEFINE m == run[r].msg
           new == [Released(rows[m], "PROCESSED") EXCEPT !.linked = TRUE]
<1>1. run[r].pc = "core" /\ m \in DOMAIN rows /\ m \in Messages
  BY DEF Finalize, FinalizeUnacknowledged, IInv, Known, TypeOK
<1>2. CASE Fenced(r)
  <2>1. rows[m] \in Row /\ rows[m].status = "PROCESSING" /\ rows[m].attempts = failures[m]
    BY <1>1, <1>2 DEF IInv, TypeOK, Fenced, AttemptsExact
  <2>2. /\ new \in Row /\ new.status = "PROCESSED" /\ new.token = NULL
        /\ new.seq = rows[m].seq /\ new.attempts = rows[m].attempts
    BY <2>1 DEF Row, Released, Terminal
  <2>3. rows[m].attempts # MaxAttempts
    BY <1>1, <2>1 DEF IInv, AttemptsExact
  <2>4. /\ rows' = [rows EXCEPT ![m] = new]
        /\ UNCHANGED <<txn, nextSeq, clock, handoff, batch, state, replies, failures>>
        /\ faults' \in 0..MaxFaults
        /\ End(r) \/ (run' = [run EXCEPT ![r].pc = "reply"] /\ awaited' = awaited)
    BY <1>2, BoundAssumption DEF Finalize, FinalizeUnacknowledged, IInv, TypeOK
  <2>5. /\ run' \in [Runs -> [pc : {"idle", "claim", "core", "reply"},
                              msg : Messages \cup {NULL}, attempts : Nat,
                              host : Processes \cup {NULL}]]
        /\ awaited' \in [Processes -> Runs \cup {NULL}]
        /\ \A q \in Runs \ {r} : run'[q] = run[q]
        /\ \/ run'[r].pc = "idle"
           \/ run'[r].pc = "reply" /\ run'[r].msg = m
    <3>1. /\ run \in [Runs -> [pc : {"idle", "claim", "core", "reply"},
                               msg : Messages \cup {NULL}, attempts : Nat,
                               host : Processes \cup {NULL}]]
          /\ awaited \in [Processes -> Runs \cup {NULL}]
      BY DEF IInv, TypeOK
    <3>2. CASE End(r)
      <4>1. TypeOK
        BY DEF IInv
      <4>2. run'[r].pc = "idle" /\ \A q \in Runs \ {r} : run'[q] = run[q]
        BY <3>2, <4>1, EndRun
      <4>3. /\ run' \in [Runs -> [pc : {"idle", "claim", "core", "reply"},
                                  msg : Messages \cup {NULL}, attempts : Nat,
                                  host : Processes \cup {NULL}]]
            /\ awaited' \in [Processes -> Runs \cup {NULL}]
        BY <3>2, <4>1, EndRun
      <4> QED BY <4>2, <4>3
    <3>3. CASE run' = [run EXCEPT ![r].pc = "reply"] /\ awaited' = awaited
      BY <3>1, <3>3
    <3> QED BY <2>4, <3>2, <3>3
  <2>6. failures' \in [Messages -> Nat]
    BY <2>4 DEF IInv, TypeOK
  <2> HIDE DEF new
  <2> QED BY <1>1, <1>2, <2>1, <2>2, <2>3, <2>4, <2>5, <2>6, SettleStep
<1>3. CASE ~Fenced(r)
  BY <1>3, LostClaimStep DEF Finalize, FinalizeUnacknowledged
<1> QED BY <1>2, <1>3

LEMMA RecordStep ==
  ASSUME IInv, NEW r \in Runs, Record(r)
  PROVE  IInv'
<1> DEFINE m == run[r].msg
           attempts == run[r].attempts + 1
           status == IF attempts >= MaxAttempts THEN "DEAD" ELSE "FAILED"
           new == [Released(rows[m], status) EXCEPT !.attempts = attempts]
<1>1. /\ run[r].pc = "core" /\ m \in DOMAIN rows /\ m \in Messages /\ End(r)
      /\ UNCHANGED <<txn, nextSeq, clock, handoff, batch, state, faults, replies>>
  BY DEF Record, IInv, Known, TypeOK
<1>2. CASE Fenced(r)
  <2>1. /\ rows[m] \in Row /\ rows[m].status = "PROCESSING" /\ rows[m].attempts = failures[m]
        /\ run[r].attempts = rows[m].attempts /\ rows[m].attempts # MaxAttempts
    BY <1>1, <1>2 DEF IInv, TypeOK, Fenced, AttemptsExact, Holding
  <2>2. /\ attempts \in 0..MaxAttempts
        /\ status \in {"FAILED", "DEAD"} /\ (status = "DEAD" <=> attempts = MaxAttempts)
    BY <2>1, BoundAssumption DEF Row
  <2> HIDE DEF attempts, status
  <2>3. /\ new \in Row /\ new.status = status /\ new.token = NULL
        /\ new.seq = rows[m].seq /\ new.attempts = attempts
    BY <2>1, <2>2 DEF Row, Released, Terminal
  <2>4. rows' = [rows EXCEPT ![m] = new] /\ failures' = [failures EXCEPT ![m] = @ + 1]
    BY <1>2 DEF Record, attempts, status
  <2> HIDE DEF new
  <2>5. /\ failures' \in [Messages -> Nat] /\ failures'[m] = attempts
        /\ \A n \in Messages \ {m} : failures'[n] = failures[n]
    BY <1>1, <2>1, <2>4 DEF IInv, TypeOK, attempts
  <2>6. faults' \in 0..MaxFaults
    BY <1>1 DEF IInv, TypeOK
  <2>7. /\ run' \in [Runs -> [pc : {"idle", "claim", "core", "reply"},
                              msg : Messages \cup {NULL}, attempts : Nat,
                              host : Processes \cup {NULL}]]
        /\ awaited' \in [Processes -> Runs \cup {NULL}]
        /\ \A q \in Runs \ {r} : run'[q] = run[q]
        /\ run'[r].pc = "idle"
    BY <1>1, EndRun DEF IInv
  <2> QED BY <1>1, <1>2, <2>2, <2>3, <2>4, <2>5, <2>6, <2>7, SettleStep
<1>3. CASE ~Fenced(r)
  BY <1>1, <1>3, LostClaimStep DEF Record
<1> QED BY <1>2, <1>3

LEMMA ReplyStep ==
  ASSUME IInv, NEW r \in Runs, Reply(r)
  PROVE  IInv'
<1> DEFINE m == run[r].msg
<1>1. PICK sent \in {0, 1} : replies' = [replies EXCEPT ![m] = @ + sent]
  BY DEF Reply
<1>2. /\ run[r].pc = "reply" /\ End(r) /\ m \in DOMAIN rows /\ m \in Messages
      /\ UNCHANGED <<rows, txn, nextSeq, clock, handoff, batch, state, faults, failures>>
  BY DEF Reply, IInv, Known, TypeOK
<1>3. /\ replies[m] = 0 /\ rows[m].status = "PROCESSED"
      /\ \A q \in Runs \ {r} : run[q].pc = "reply" => run[q].msg # m
  BY <1>2 DEF IInv, Holding
<1>4. /\ replies' \in [Messages -> Nat] /\ replies'[m] = sent
      /\ \A n \in Messages \ {m} : replies'[n] = replies[n]
  BY <1>1, <1>2, <1>3 DEF IInv, TypeOK
<1>5. run'[r].pc = "idle" /\ \A q \in Runs \ {r} : run'[q] = run[q]
  BY <1>2, EndRun DEF IInv
<1> HIDE DEF m
<1>6. TypeOK'
  BY <1>2, <1>4, EndRun DEF IInv, TypeOK
<1>7. Known'
  BY <1>2, <1>4, <1>5 DEF IInv, Known
<1>8. Numbered' /\ SenderOrder' /\ AttemptsExact'
  BY <1>2 DEF IInv, Numbered, SenderOrder, AttemptsExact, SameSender
<1>9. Holding'
  <2>1. ASSUME NEW q \in Runs, q # r
        PROVE  run'[q].pc = "reply" => run[q].msg \in Messages /\ run[q].msg # m
    BY <1>3, <1>5, <2>1 DEF IInv, Known, TypeOK
  <2> QED BY <1>2, <1>4, <1>5, <2>1 DEF IInv, Holding, Fenced
<1>10. SingleReply'
  BY <1>2, <1>3, <1>4 DEF IInv, SingleReply
<1> QED BY <1>6, <1>7, <1>8, <1>9, <1>10 DEF IInv

-----------------------------------------------------------------------------
(* The theorems.                                                           *)

LEMMA InitIInv ==
  ASSUME Init
  PROVE  IInv
<1>1. DOMAIN rows = {} /\ (\A r \in Runs : run[r].pc = "idle")
      /\ (\A d \in Deliveries : txn[d].pc = "new")
  BY DEF Init, IdleRun, NoTxn
<1>2. TypeOK
  BY <1>1, BoundAssumption DEF Init, TypeOK, IdleRun, NoTxn
<1>3. Known /\ Numbered /\ Holding
  BY <1>1 DEF Init, Known, Numbered, Holding
<1> QED BY <1>1, <1>2, <1>3 DEF Init, IInv, SenderOrder, SingleReply, AttemptsExact

LEMMA NextIInv ==
  ASSUME IInv, [Next]_vars
  PROVE  IInv'
<1>1. CASE UNCHANGED vars
  <2>1. TypeOK'
    BY <1>1 DEF vars, IInv, TypeOK
  <2>2. nextSeq' >= nextSeq
    BY <1>1 DEF vars, IInv, TypeOK
  <2> QED BY <1>1, <2>1, <2>2, RowsKept DEF vars, IInv, Known
<1>2. ASSUME NEW d \in Deliveries, Store(d)
      PROVE  IInv'
  BY <1>2, StoreBeginStep, StoreInsertStep, StoreCommitStep DEF Store
<1>3. ASSUME NEW r \in Runs, Proceed(r) \/ Fault(r) \/ Heartbeat(r)
      PROVE  IInv'
  BY <1>3, ClaimStep, FinalizeStep, RecordStep, ReplyStep, RecordLostStep, ClockStep
     DEF Proceed, Fault
<1>4. ASSUME NEW m \in Messages, Lapse(m) \/ Stall(m)
      PROVE  IInv'
  BY <1>4, ClockStep
<1>5. ASSUME NEW p \in Processes,
             \/ StartHandoff(p) \/ PickBatch(p) \/ RecoverNext(p)
             \/ Crash(p) \/ BeginShutdown(p) \/ Exit(p) \/ Restart(p)
      PROVE  IInv'
  BY <1>5, StartHandoffStep, PickBatchStep, RecoverNextStep, ProcessStep
<1> QED BY <1>1, <1>2, <1>3, <1>4, <1>5 DEF Next

\* Sequence numbers follow the order of commits per sender, a holder of a claim
\* knows the attempts of its row, and a finished run is the only one to reply
\* (storeIdempotent, claimMessage, processMessageCore).
THEOREM InductiveInvariant == Spec => []IInv
  BY InitIInv, NextIInv, PTL DEF Spec

\* The queue's rows are well formed whatever is delivered, retried or lost: a claim
\* token exactly while PROCESSING, attempts within MAX_ATTEMPTS
\* (CHK_inbound_messages_claim_shape, recordFailure).
THEOREM TypeCorrect == Spec => []TypeOK
<1>1. IInv => TypeOK BY DEF IInv
<1> QED BY <1>1, InductiveInvariant, PTL

\* No message is claimed before every earlier message of its sender is finished
\* (claimMessage, storeIdempotent).
THEOREM MessagesInOrder == Spec => []SenderOrder
<1>1. IInv => SenderOrder BY DEF IInv
<1> QED BY <1>1, InductiveInvariant, PTL

\* At most one run holds a claim on a sender's messages: two claims on one row would
\* share its token, two on different rows would contradict their order.
THEOREM OneClaimPerSender == Spec => []SenderSerial
<1>1. ASSUME IInv
      PROVE  SenderSerial
  <2> SUFFICES ASSUME NEW r \in Runs, NEW q \in Runs,
                      run[r].pc = "core", Fenced(r), run[q].pc = "core", Fenced(q),
                      SameSender(run[r].msg, run[q].msg)
               PROVE  r = q
    BY DEF SenderSerial
  <2>1. /\ run[r].msg \in DOMAIN rows /\ run[q].msg \in DOMAIN rows
        /\ rows[run[r].msg].seq \in Nat /\ rows[run[q].msg].seq \in Nat
    BY <1>1 DEF IInv, Known, TypeOK, Row
  <2>2. ~(rows[run[r].msg].seq < rows[run[q].msg].seq)
    BY <1>1, <2>1 DEF IInv, SenderOrder, Fenced, Terminal
  <2>3. ~(rows[run[q].msg].seq < rows[run[r].msg].seq)
    BY <1>1, <2>1 DEF IInv, SenderOrder, Fenced, Terminal, SameSender
  <2>4. run[r].msg = run[q].msg
    BY <1>1, <2>1, <2>2, <2>3 DEF IInv, Numbered
  <2> QED BY <2>4 DEF Fenced
<1> QED BY <1>1, InductiveInvariant, PTL

\* A message is answered at most once, and only when PROCESSED, whatever stalled
\* owner wakes up (processMessageCore).
THEOREM OneReply == Spec => []SingleReply
<1>1. IInv => SingleReply BY DEF IInv
<1> QED BY <1>1, InductiveInvariant, PTL

\* The attempts of a row count the failures written to it, and DEAD means exactly
\* MAX_ATTEMPTS of them (recordFailure).
THEOREM AttemptsCountFailures == Spec => []AttemptsExact
<1>1. IInv => AttemptsExact BY DEF IInv
<1> QED BY <1>1, InductiveInvariant, PTL

-----------------------------------------------------------------------------
(* The queue implements InboundAbs.                                        *)

\* A step that neither stores nor settles nor answers.
LEMMA LineKept ==
  ASSUME UNCHANGED <<rows, replies>>
  PROVE  UNCHANGED Fifo!avars
<1>1. \A m \in DOMAIN rows : Ahead(m)' = Ahead(m)
  BY DEF Ahead, SameSender
<1>2. \A m \in Messages : Outcome(m)' = Outcome(m)
  BY DEF Outcome
<1> QED BY <1>1, <1>2 DEF Fifo!avars

\* One stored row changes and keeps its number.
LEMMA OneRowChanges ==
  ASSUME IInv, NEW m \in DOMAIN rows, NEW new, rows' = [rows EXCEPT ![m] = new],
         new.seq = rows[m].seq
  PROVE  /\ [n \in DOMAIN rows |-> Ahead(n)]' = [n \in DOMAIN rows |-> Ahead(n)]
         /\ \A n \in Messages \ {m} : Outcome(n)' = Outcome(n)
         /\ Outcome(m)' = IF new.status \in Terminal THEN new.status ELSE "none"
<1>1. /\ DOMAIN rows' = DOMAIN rows /\ rows'[m] = new
      /\ \A n \in DOMAIN rows \ {m} : rows'[n] = rows[n]
      /\ \A n \in DOMAIN rows : rows'[n].seq = rows[n].seq
  OBVIOUS
<1>2. \A n \in DOMAIN rows : Ahead(n)' = Ahead(n)
  BY <1>1 DEF Ahead, SameSender
<1>3. \A n \in Messages \ {m} : Outcome(n)' = Outcome(n)
  BY <1>1 DEF Outcome
<1>4. Outcome(m)' = IF new.status \in Terminal THEN new.status ELSE "none"
  BY <1>1 DEF Outcome
<1> QED BY <1>1, <1>2, <1>3, <1>4

\* It is not settled, before or after.
LEMMA RowKeptOpen ==
  ASSUME IInv, NEW m \in DOMAIN rows, NEW new, rows' = [rows EXCEPT ![m] = new],
         new.seq = rows[m].seq, replies' = replies,
         rows[m].status \in Terminal => new.status = rows[m].status,
         new.status \in Terminal => new.status = rows[m].status
  PROVE  UNCHANGED Fifo!avars
<1>1. \A n \in Messages : Outcome(n)' = Outcome(n)
  BY OneRowChanges DEF Outcome
<1>2. [n \in DOMAIN rows |-> Ahead(n)]' = [n \in DOMAIN rows |-> Ahead(n)]
  BY OneRowChanges
<1> QED BY <1>1, <1>2 DEF Fifo!avars

\* The holder of a claim settles its row, or records a failure.
LEMMA RowSettled ==
  ASSUME IInv, NEW r \in Runs, run[r].pc = "core", Fenced(r),
         NEW new, rows' = [rows EXCEPT ![run[r].msg] = new],
         new.seq = rows[run[r].msg].seq, new.status \in {"PROCESSED", "FAILED", "DEAD"},
         replies' = replies
  PROVE  [Fifo!ANext]_Fifo!avars
<1>0. PICK m : m = run[r].msg
  OBVIOUS
<1>1. m \in DOMAIN rows /\ m \in Messages /\ rows[m].status = "PROCESSING"
  BY <1>0 DEF IInv, TypeOK, Known, Fenced
<1>2. CASE new.status = "FAILED"
  BY <1>0, <1>1, <1>2, RowKeptOpen DEF Terminal
<1>3. CASE new.status \in {"PROCESSED", "DEAD"}
  <2>1. /\ [n \in DOMAIN rows |-> Ahead(n)]' = [n \in DOMAIN rows |-> Ahead(n)]
        /\ \A n \in Messages \ {m} : Outcome(n)' = Outcome(n)
        /\ Outcome(m)' = new.status /\ Outcome(m) = "none"
    BY <1>0, <1>1, <1>3, OneRowChanges DEF Terminal, Outcome
  <2>2. \A n \in Ahead(m) : n \in Messages /\ Outcome(n) # "none"
    BY <1>1 DEF IInv, SenderOrder, TypeOK, Ahead, Outcome, Terminal
  <2>3. [n \in Messages |-> Outcome(n)]' = [[n \in Messages |-> Outcome(n)] EXCEPT ![m] = new.status]
    BY <1>1, <2>1
  <2>4. Fifo!Settle(m)
    BY <1>1, <1>3, <2>1, <2>2, <2>3 DEF Fifo!Settle
  <2> QED BY <1>1, <2>4 DEF Fifo!ANext
<1> QED BY <1>2, <1>3

LEMMA StoreCommitAccepts == ASSUME IInv, NEW d \in Deliveries, StoreCommit(d) PROVE Fifo!ANext
<1>0. PICK m, new : m = MessageOf[d] /\ new = NewRow(d)
  OBVIOUS
<1>1. /\ txn[d].pc = "inserted" /\ replies' = replies
      /\ rows' = [n \in DOMAIN rows \cup {m} |-> IF n = m THEN new ELSE rows[n]]
  BY <1>0 DEF StoreCommit
<1>2. /\ m \in Messages /\ m \notin DOMAIN rows
      /\ \A n \in DOMAIN rows : SameSender(n, m) => rows[n].seq < new.seq
  BY <1>0, <1>1, DeliveryAssumption DEF IInv, Numbered, NewRow
<1>3. /\ DOMAIN rows' = DOMAIN rows \cup {m} /\ rows'[m] = new
      /\ \A n \in DOMAIN rows : rows'[n] = rows[n]
  BY <1>1, <1>2
<1>4. new.seq \in Nat /\ \A n \in DOMAIN rows : rows[n].seq \in Nat
  BY <1>0 DEF NewRow, IInv, TypeOK, Row
<1>5. Ahead(m)' = {k \in DOMAIN rows : Sender[k] = Sender[m]}
  BY <1>2, <1>3, <1>4 DEF Ahead, SameSender
<1>6. \A n \in DOMAIN rows : Ahead(n)' = Ahead(n)
  <2> SUFFICES ASSUME NEW n \in DOMAIN rows
               PROVE  Ahead(n)' = Ahead(n)
    OBVIOUS
  <2>1. ~(SameSender(m, n) /\ new.seq < rows[n].seq)
    BY <1>2, <1>4 DEF SameSender
  <2> QED BY <1>3, <2>1 DEF Ahead, SameSender
<1>7. [n \in DOMAIN rows |-> Ahead(n)]' =
        [n \in DOMAIN rows \cup {m} |-> IF n = m THEN {k \in DOMAIN rows : Sender[k] = Sender[m]}
                                        ELSE Ahead(n)]
  BY <1>2, <1>3, <1>5, <1>6
<1>8. \A n \in Messages : Outcome(n)' = Outcome(n)
  BY <1>0, <1>2, <1>3 DEF Outcome, NewRow, Terminal
<1>9. Fifo!Accept(m)
  BY <1>1, <1>2, <1>7, <1>8 DEF Fifo!Accept
<1> QED BY <1>2, <1>9 DEF Fifo!ANext

LEMMA TimeKeepsLine ==
  ASSUME IInv, NEW m \in DOMAIN rows, NEW due, rows' = [rows EXCEPT ![m].due = due],
         replies' = replies
  PROVE  UNCHANGED Fifo!avars
<1>0. PICK new : new = [rows[m] EXCEPT !.due = due]
  OBVIOUS
<1>1. rows' = [rows EXCEPT ![m] = new] /\ new.seq = rows[m].seq /\ new.status = rows[m].status
  BY <1>0 DEF IInv, TypeOK, Row
<1> QED BY <1>1, RowKeptOpen

LEMMA ClaimKeepsLine == ASSUME IInv, NEW r \in Runs, Claim(r) PROVE UNCHANGED Fifo!avars
<1>0. PICK m, new : /\ m = run[r].msg
                    /\ new = [rows[m] EXCEPT !.status = "PROCESSING", !.due = FALSE, !.token = r]
  OBVIOUS
<1>1. m \in DOMAIN rows /\ replies' = replies /\ rows[m] \in Row
  BY <1>0 DEF Claim, IInv, Known, TypeOK
<1>2. CASE ~Claimable(m)
  BY <1>0, <1>1, <1>2, LineKept DEF Claim
<1>3. CASE Claimable(m)
  <2>1. rows' = [rows EXCEPT ![m] = new]
    BY <1>0, <1>3 DEF Claim
  <2>2. new.seq = rows[m].seq /\ new.status = "PROCESSING" /\ rows[m].status \notin Terminal
    BY <1>0, <1>1, <1>3 DEF Row, Claimable, Terminal
  <2> QED BY <1>1, <2>1, <2>2, RowKeptOpen DEF Terminal
<1> QED BY <1>2, <1>3

LEMMA FinalizeSettles ==
  ASSUME IInv, NEW r \in Runs, Finalize(r) \/ FinalizeUnacknowledged(r)
  PROVE  [Fifo!ANext]_Fifo!avars
<1>0. PICK m, new : m = run[r].msg /\ new = [Released(rows[m], "PROCESSED") EXCEPT !.linked = TRUE]
  OBVIOUS
<1>1. run[r].pc = "core" /\ m \in DOMAIN rows /\ replies' = replies
  BY <1>0 DEF Finalize, FinalizeUnacknowledged, IInv, Known
<1>2. CASE ~Fenced(r)
  BY <1>1, <1>2, LineKept DEF Finalize, FinalizeUnacknowledged
<1>3. CASE Fenced(r)
  <2>1. rows' = [rows EXCEPT ![m] = new]
    BY <1>0, <1>3 DEF Finalize, FinalizeUnacknowledged
  <2>2. new.seq = rows[m].seq /\ new.status = "PROCESSED"
    BY <1>0, <1>1 DEF IInv, TypeOK, Row, Released
  <2> QED BY <1>0, <1>1, <1>3, <2>1, <2>2, RowSettled
<1> QED BY <1>2, <1>3

LEMMA RecordSettles == ASSUME IInv, NEW r \in Runs, Record(r) PROVE [Fifo!ANext]_Fifo!avars
<1>0. PICK m, status, attempts, new :
        /\ m = run[r].msg /\ attempts = run[r].attempts + 1
        /\ status = (IF attempts >= MaxAttempts THEN "DEAD" ELSE "FAILED")
        /\ new = [Released(rows[m], status) EXCEPT !.attempts = attempts]
  OBVIOUS
<1>1. run[r].pc = "core" /\ m \in DOMAIN rows /\ replies' = replies
  BY <1>0 DEF Record, IInv, Known
<1>2. CASE ~Fenced(r)
  BY <1>1, <1>2, LineKept DEF Record
<1>3. CASE Fenced(r)
  <2>1. rows' = [rows EXCEPT ![m] = new]
    BY <1>0, <1>3 DEF Record
  <2>2. new.seq = rows[m].seq /\ new.status \in {"FAILED", "DEAD"}
    BY <1>0, <1>1 DEF IInv, TypeOK, Row, Released
  <2> QED BY <1>0, <1>1, <1>3, <2>1, <2>2, RowSettled
<1> QED BY <1>2, <1>3

LEMMA ReplyAnswers == ASSUME IInv, NEW r \in Runs, Reply(r) PROVE [Fifo!ANext]_Fifo!avars
<1>0. PICK m : m = run[r].msg
  OBVIOUS
<1>1. PICK sent \in {0, 1} : replies' = [replies EXCEPT ![m] = @ + sent]
  BY <1>0 DEF Reply
<1>2. m \in Messages /\ m \in DOMAIN rows /\ rows[m].status = "PROCESSED" /\ replies[m] = 0 /\ rows' = rows
  BY <1>0 DEF Reply, IInv, Known, Holding, TypeOK
<1>3. /\ replies \in [Messages -> Nat] /\ replies'[m] = sent
      /\ \A n \in Messages \ {m} : replies'[n] = replies[n]
  BY <1>1, <1>2 DEF IInv, TypeOK
<1>4. CASE sent = 0
  <2>1. replies' = replies
    BY <1>1, <1>2, <1>3, <1>4
  <2> QED BY <1>2, <2>1, LineKept
<1>5. CASE sent = 1
  <2>1. Outcome(m) = "PROCESSED"
    BY <1>2 DEF Outcome, Terminal
  <2>2. \A n \in DOMAIN rows : Ahead(n)' = Ahead(n)
    BY <1>2 DEF Ahead, SameSender
  <2>3. \A n \in Messages : Outcome(n)' = Outcome(n)
    BY <1>2 DEF Outcome
  <2>4. {n \in Messages : replies[n] > 0}' = {n \in Messages : replies[n] > 0} \cup {m}
    BY <1>2, <1>3, <1>5
  <2>5. Fifo!Answer(m)
    BY <1>2, <2>1, <2>2, <2>3, <2>4 DEF Fifo!Answer
  <2> QED BY <1>2, <2>5 DEF Fifo!ANext
<1> QED BY <1>4, <1>5

LEMMA FifoSteps == ASSUME IInv, [Next]_vars PROVE [Fifo!ANext]_Fifo!avars
<1>1. CASE UNCHANGED <<rows, replies>>
  BY <1>1, LineKept
<1>2. ASSUME NEW d \in Deliveries, Store(d)
      PROVE  [Fifo!ANext]_Fifo!avars
  BY <1>1, <1>2, StoreCommitAccepts DEF Store, StoreInsert, StoreBegin
<1>3. ASSUME NEW r \in Runs, Proceed(r) \/ Fault(r)
      PROVE  [Fifo!ANext]_Fifo!avars
  BY <1>1, <1>3, ClaimKeepsLine, FinalizeSettles, RecordSettles, ReplyAnswers
     DEF Proceed, Fault, RecordLost
<1>4. ASSUME NEW r \in Runs, Heartbeat(r)
      PROVE  UNCHANGED Fifo!avars
  BY <1>4, TimeKeepsLine DEF Heartbeat, IInv, Known
<1>5. ASSUME NEW m \in Messages, Lapse(m) \/ Stall(m)
      PROVE  UNCHANGED Fifo!avars
  BY <1>5, TimeKeepsLine DEF Lapse, Stall
<1>6. ASSUME NEW p \in Processes,
             \/ StartHandoff(p) \/ PickBatch(p) \/ RecoverNext(p)
             \/ Crash(p) \/ BeginShutdown(p) \/ Exit(p) \/ Restart(p)
      PROVE  UNCHANGED <<rows, replies>>
  BY <1>6 DEF StartHandoff, PickBatch, RecoverNext, Crash, BeginShutdown, Exit, Restart, Stop
<1>7. CASE UNCHANGED vars
  BY <1>1, <1>7 DEF vars
<1> QED BY <1>1, <1>2, <1>3, <1>4, <1>5, <1>6, <1>7 DEF Next

\* The queue keeps its promise to every sender: messages line up in the order they
\* were stored, are settled one by one from the front, once and for good, and are
\* answered at most once after that, whatever is redelivered, dropped, retried,
\* stalled or crashed (storeIdempotent, claimMessage, processMessageCore).
THEOREM QueueIsFifo == Spec => FifoPerSender
<1>1. Init => Fifo!AInit
  <2> SUFFICES ASSUME Init
               PROVE  Fifo!AInit
    OBVIOUS
  <2>1. DOMAIN rows = {} /\ \A m \in Messages : replies[m] = 0
    BY DEF Init
  <2> QED BY <2>1 DEF Fifo!AInit, Outcome
<1>2. IInv /\ [Next]_vars => [Fifo!ANext]_Fifo!avars
  BY FifoSteps
<1> QED BY <1>1, <1>2, InductiveInvariant, PTL DEF Spec, FifoPerSender, Fifo!Spec
=============================================================================
