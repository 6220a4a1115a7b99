--------------------------- MODULE ProposalProofs ---------------------------
(***************************************************************************)
(* Proofs about Proposals, for any number of runs, messages, faults and    *)
(* owners that outlive their lease.                                        *)
(***************************************************************************)
EXTENDS Proposals, TLAPS

RunType == [pc : {"idle", "core", "locked", "commit", "failed", "parsed", "reply"},
            msg : Positions \cup {NULL}, rows : Rows,
            post : SUBSET Positions, answer : Answer]

LEMMA RowsIntro ==
  ASSUME NEW ids \in SUBSET Positions, NEW f \in [ids -> Proposal]
  PROVE  f \in Rows
  BY DEF Rows

LEMMA RowsElim ==
  ASSUME NEW f \in Rows
  PROVE  /\ DOMAIN f \subseteq Positions
         /\ f \in [DOMAIN f -> Proposal]
  BY DEF Rows

LEMMA NoRowsType == NoRows \in Rows /\ DOMAIN NoRows = {}
<1>1. NoRows \in [{} -> Proposal]
  BY DEF NoRows
<1> QED BY <1>1, RowsIntro DEF NoRows

LEMMA AnswerTypes ==
  /\ NoAnswer \in Answer
  /\ Said("UNRECOGNIZED", NULL) \in Answer /\ Said("NO_PENDING", NULL) \in Answer
  /\ \A p \in Positions, s \in {"PROPOSED", "POSTED", "CANCELLED"} : Said(s, p) \in Answer
  BY DEF NoAnswer, Said, Answer

LEMMA IdleType == IdleRun \in RunType /\ IdleRun.pc = "idle" /\ IdleRun.post = {} /\ DOMAIN IdleRun.rows = {}
  BY NoRowsType, AnswerTypes DEF IdleRun, RunType

LEMMA LineType == ASSUME TypeOK PROVE DOMAIN line \subseteq Positions
<1>1. Len(line) \in Nat /\ DOMAIN line = 1..Len(line) /\ Len(line) <= MaxLength
  BY DEF TypeOK
<1> QED BY <1>1, BoundAssumption DEF Positions

LEMMA InitIInv == ASSUME Init PROVE IInv
<1>1. TypeOK
  <2>1. line \in Seq(Kinds) /\ Len(line) <= MaxLength
    BY BoundAssumption DEF Init
  <2>2. run \in [Runs -> RunType] /\ \A r \in Runs : run[r].pc = "idle"
    BY IdleType DEF Init
  <2>3. /\ attempts \in [Positions -> 0..MaxAttempts]
        /\ faults \in 0..MaxFaults /\ stalls \in 0..MaxStalls
    BY BoundAssumption DEF Init
  <2>4. proposals \in Rows /\ sent \in [Positions -> Answer]
    BY NoRowsType, AnswerTypes DEF Init
  <2> QED BY <2>1, <2>2, <2>3, <2>4 DEF Init, TypeOK, RunType
<1>2. ConfirmedIffPosted
  BY NoRowsType DEF Init, ConfirmedIffPosted
<1>3. OneTransaction
  BY IdleType DEF Init, OneTransaction, InTransaction
<1>4. OpenWrites
  BY IdleType DEF Init, OpenWrites
<1>5. Tries
  BY BoundAssumption DEF Init, Tries
<1>6. Claimed
  BY IdleType DEF Init, Claimed
<1> QED BY <1>1, <1>2, <1>3, <1>4, <1>5, <1>6 DEF IInv

\* A step of run r that commits nothing and writes nothing.
LEMMA QuietStep ==
  ASSUME IInv, NEW r \in Runs, NEW new \in RunType,
         run' = [run EXCEPT ![r] = new],
         new.pc # "commit", DOMAIN new.rows = {}, new.post = {},
         new.pc # "idle" => new.msg \in DOMAIN line,
         new.pc = "locked" => \A q \in Runs : ~InTransaction(q),
         UNCHANGED <<line, proposals, posted>>
  PROVE  /\ run' \in [Runs -> RunType]
         /\ \A q \in Runs : run'[q].pc # "idle" => run'[q].msg \in DOMAIN line'
         /\ ConfirmedIffPosted' /\ OneTransaction' /\ OpenWrites'
<1>1. run \in [Runs -> RunType]
  BY DEF IInv, TypeOK, RunType
<1>2. run'[r] = new /\ \A q \in Runs \ {r} : run'[q] = run[q]
  BY <1>1
<1>3. \A q \in Runs : run'[q].pc # "idle" => run'[q].msg \in DOMAIN line'
  BY <1>2 DEF IInv, TypeOK
<1>4. ConfirmedIffPosted'
  BY DEF IInv, ConfirmedIffPosted
<1>5. OneTransaction'
  BY <1>2 DEF IInv, OneTransaction, InTransaction
<1>6. OpenWrites'
  BY <1>2 DEF IInv, OpenWrites, Pending
<1> QED BY <1>1, <1>3, <1>4, <1>5, <1>6

LEMMA ReceiveStep == ASSUME IInv, Receive PROVE IInv'
<1>1. line \in Seq(Kinds) /\ Len(line) <= MaxLength
  BY DEF IInv, TypeOK
<1>2. PICK kind \in Kinds : line' = Append(line, kind)
  BY DEF Receive
<1>3. line' \in Seq(Kinds) /\ Len(line') = Len(line) + 1 /\ DOMAIN line \subseteq DOMAIN line'
  BY <1>1, <1>2
<1>4. Len(line') <= MaxLength
  BY <1>1, <1>3, BoundAssumption DEF Receive
<1> QED BY <1>3, <1>4 DEF Receive, IInv, TypeOK, ConfirmedIffPosted, OneTransaction, InTransaction,
           OpenWrites, Pending, Tries, Claimed

LEMMA StallStep == ASSUME IInv, Stall PROVE IInv'
<1>1. stalls' \in 0..MaxStalls
  BY BoundAssumption DEF IInv, TypeOK, Stall
<1> QED BY <1>1 DEF Stall, IInv, TypeOK, ConfirmedIffPosted, OneTransaction, InTransaction,
           OpenWrites, Pending, Tries, Claimed

LEMMA ClaimStep == ASSUME IInv, NEW r \in Runs, Claim(r) PROVE IInv'
<1>1. PICK m \in First : run' = [run EXCEPT ![r].pc = "core", ![r].msg = m]
  BY DEF Claim
<1> DEFINE new == [run[r] EXCEPT !.pc = "core", !.msg = m]
<1>2. m \in DOMAIN line /\ m \in Positions /\ outcome[m] = "none"
  BY LineType DEF First, IInv
<1>3. run[r] \in RunType /\ DOMAIN run[r].rows = {} /\ run[r].post = {}
  BY DEF IInv, TypeOK, RunType, OpenWrites, Claim
<1>4. new \in RunType /\ new.pc = "core" /\ new.msg = m /\ DOMAIN new.rows = {} /\ new.post = {}
  BY <1>2, <1>3 DEF RunType
<1>5. run' = [run EXCEPT ![r] = new]
  BY <1>1 DEF IInv, TypeOK
<1> HIDE DEF new
<1>6. /\ run' \in [Runs -> RunType]
      /\ \A q \in Runs : run'[q].pc # "idle" => run'[q].msg \in DOMAIN line'
      /\ ConfirmedIffPosted' /\ OneTransaction' /\ OpenWrites'
  BY <1>2, <1>4, <1>5, QuietStep DEF Claim
<1>7. TypeOK'
  BY <1>6 DEF IInv, TypeOK, RunType, Claim
<1>8. Tries'
  BY DEF IInv, Tries, Claim
<1>9. Claimed'
  <2>1. run'[r] = new
    BY <1>5 DEF IInv, TypeOK
  <2> QED BY <1>2, <1>4, <2>1, NullAssumption DEF Claim, Claimed
<1> QED BY <1>6, <1>7, <1>8, <1>9 DEF IInv

\* A quiet step that leaves the queue as it is, save for the count of faults.
LEMMA RunStep ==
  ASSUME IInv, NEW r \in Runs, NEW new \in RunType,
         run' = [run EXCEPT ![r] = new],
         new.pc # "commit", DOMAIN new.rows = {}, new.post = {},
         new.pc # "idle" => run[r].pc # "idle" /\ new.msg = run[r].msg,
         new.pc = "locked" => \A q \in Runs : ~InTransaction(q),
         owner' = owner, expired' \in BOOLEAN, faults' \in 0..MaxFaults,
         sent' \in [Positions -> Answer],
         UNCHANGED <<line, outcome, attempts, proposals, posted, stalls>>
  PROVE  IInv'
<1>0. new.pc # "idle" => new.msg \in DOMAIN line
  BY DEF IInv, TypeOK
<1>1. /\ run' \in [Runs -> RunType]
      /\ \A q \in Runs : run'[q].pc # "idle" => run'[q].msg \in DOMAIN line'
      /\ ConfirmedIffPosted' /\ OneTransaction' /\ OpenWrites'
  BY <1>0, QuietStep
<1>2. TypeOK'
  BY <1>1 DEF IInv, TypeOK, RunType
<1>3. Tries'
  BY DEF IInv, Tries
<1>4. Claimed'
  <2>1. run'[r] = new /\ \A q \in Runs \ {r} : run'[q] = run[q]
    BY DEF IInv, TypeOK
  <2> QED BY <2>1 DEF IInv, Claimed
<1> QED BY <1>1, <1>2, <1>3, <1>4 DEF IInv

LEMMA CrashStep == ASSUME IInv, NEW r \in Runs, Crash(r) PROVE IInv'
<1>1. faults' \in 0..MaxFaults /\ expired' \in BOOLEAN /\ sent' \in [Positions -> Answer]
  BY BoundAssumption DEF Crash, IInv, TypeOK
<1> QED BY <1>1, IdleType, RunStep DEF Crash

LEMMA LockStep == ASSUME IInv, NEW r \in Runs, Lock(r) PROVE IInv'
<1> DEFINE new == [run[r] EXCEPT !.pc = "locked"]
<1>1. run[r] \in RunType /\ run[r].pc = "core" /\ DOMAIN run[r].rows = {} /\ run[r].post = {}
  BY DEF IInv, TypeOK, RunType, OpenWrites, Lock
<1>2. new \in RunType /\ new.pc = "locked" /\ new.msg = run[r].msg /\ DOMAIN new.rows = {} /\ new.post = {}
  BY <1>1 DEF RunType
<1>3. run' = [run EXCEPT ![r] = new]
  BY DEF Lock, IInv, TypeOK
<1>4. expired' \in BOOLEAN /\ faults' \in 0..MaxFaults /\ sent' \in [Positions -> Answer]
  BY DEF Lock, IInv, TypeOK
<1> HIDE DEF new
<1> QED BY <1>1, <1>2, <1>3, <1>4, RunStep DEF Lock

LEMMA ClosedStep ==
  ASSUME IInv, NEW r \in Runs, NEW pc \in {"failed", "parsed"}, NEW answer \in Answer,
         run[r].pc # "idle", Closed(r, pc, answer),
         UNCHANGED <<line, outcome, attempts, owner, expired, proposals, posted, sent, faults, stalls>>
  PROVE  IInv'
<1> DEFINE new == [run[r] EXCEPT !.pc = pc, !.rows = NoRows, !.post = {}, !.answer = answer]
<1>1. run[r] \in RunType
  BY DEF IInv, TypeOK, RunType
<1>2. new \in RunType /\ new.pc = pc /\ new.msg = run[r].msg /\ new.rows = NoRows /\ new.post = {}
  BY <1>1, NoRowsType DEF RunType
<1>3. run' = [run EXCEPT ![r] = new]
  BY DEF Closed, IInv, TypeOK
<1>4. expired' \in BOOLEAN /\ faults' \in 0..MaxFaults /\ sent' \in [Positions -> Answer]
  BY DEF IInv, TypeOK
<1> HIDE DEF new
<1> QED BY <1>2, <1>3, <1>4, NoRowsType, RunStep

LEMMA ThrowStep == ASSUME IInv, NEW r \in Runs, Throw(r) \/ AnswerQuery(r) PROVE IInv'
  BY ClosedStep, AnswerTypes DEF Throw, AnswerQuery

LEMMA ReplyStep == ASSUME IInv, NEW r \in Runs, Reply(r) PROVE IInv'
<1>1. expired' \in BOOLEAN /\ faults' \in 0..MaxFaults
  BY DEF Reply, IInv, TypeOK
<1>2. sent' \in [Positions -> Answer]
  BY DEF Reply, IInv, TypeOK
<1> QED BY <1>1, <1>2, IdleType, RunStep DEF Reply

\* The statements of parseAndPost leave an open transaction behind.
LEMMA WrittenStep ==
  ASSUME IInv, NEW r \in Runs, run[r].pc = "locked",
         NEW rows \in Rows, NEW post \in SUBSET Positions, NEW answer \in Answer,
         Written(r, rows, post, answer),
         post = {p \in DOMAIN rows : rows[p].status = "CONFIRMED"},
         \A p \in DOMAIN rows \cap DOMAIN proposals : p \in Pending
  PROVE  IInv'
<1> DEFINE new == [run[r] EXCEPT !.pc = "commit", !.rows = rows, !.post = post, !.answer = answer]
<1>1. run[r] \in RunType /\ run \in [Runs -> RunType]
  BY DEF IInv, TypeOK, RunType
<1>2. new \in RunType /\ new.pc = "commit" /\ new.msg = run[r].msg /\ new.rows = rows /\ new.post = post
  BY <1>1 DEF RunType
<1>3. run' = [run EXCEPT ![r] = new]
  BY <1>1 DEF Written
<1> HIDE DEF new
<1>4. run' \in [Runs -> RunType] /\ run'[r] = new /\ \A q \in Runs \ {r} : run'[q] = run[q]
  BY <1>1, <1>2, <1>3
<1>5. TypeOK'
  BY <1>2, <1>4 DEF IInv, TypeOK, RunType, Written
<1>6. ConfirmedIffPosted'
  BY DEF IInv, ConfirmedIffPosted, Written
<1>7. OneTransaction'
  BY <1>2, <1>4 DEF IInv, OneTransaction, InTransaction
<1>8. OpenWrites'
  <2>1. Pending' = Pending /\ proposals' = proposals
    BY DEF Pending, Written
  <2>2. ASSUME NEW q \in Runs \ {r}
        PROVE  /\ run'[q].pc # "commit" => DOMAIN run'[q].rows = {} /\ run'[q].post = {}
               /\ run'[q].pc = "commit" =>
                    /\ run'[q].post = {p \in DOMAIN run'[q].rows : run'[q].rows[p].status = "CONFIRMED"}
                    /\ \A p \in DOMAIN run'[q].rows \cap DOMAIN proposals' : p \in Pending'
    <3>1. run'[q] = run[q]
      BY <1>4
    <3> QED BY <2>1, <3>1 DEF IInv, OpenWrites
  <2>3. /\ run'[r].pc = "commit"
        /\ run'[r].post = {p \in DOMAIN run'[r].rows : run'[r].rows[p].status = "CONFIRMED"}
        /\ \A p \in DOMAIN run'[r].rows \cap DOMAIN proposals' : p \in Pending'
    BY <1>2, <1>4, <2>1
  <2> QED BY <2>2, <2>3 DEF OpenWrites
<1>9. Tries'
  BY DEF IInv, Tries, Written
<1>10. Claimed'
  <2>1. ASSUME NEW q \in Runs, owner' = q, run'[q].pc # "idle"
        PROVE  outcome'[run'[q].msg] = "none"
    <3>1. owner = q /\ outcome' = outcome
      BY <2>1 DEF Written
    <3>2. run[q].pc # "idle" /\ run'[q].msg = run[q].msg
      BY <1>2, <1>4, <2>1
    <3> QED BY <3>1, <3>2 DEF IInv, Claimed
  <2> QED BY <2>1 DEF Claimed
<1> QED BY <1>5, <1>6, <1>7, <1>8, <1>9, <1>10 DEF IInv

LEMMA OneRow ==
  ASSUME NEW p \in Positions, NEW row \in Proposal
  PROVE  /\ [q \in {p} |-> row] \in Rows
         /\ DOMAIN [q \in {p} |-> row] = {p}
         /\ \A x \in DOMAIN [q \in {p} |-> row] : [q \in {p} |-> row][x] = row
<1>1. [q \in {p} |-> row] \in [{p} -> Proposal]
  OBVIOUS
<1> QED BY <1>1, RowsIntro

LEMMA ParseStep == ASSUME IInv, NEW r \in Runs, Parse(r) PROVE IInv'
<1> DEFINE m == run[r].msg
<1>1. /\ run[r].pc = "locked" /\ m \in DOMAIN line /\ m \in Positions
      /\ DOMAIN proposals \subseteq Positions /\ proposals \in [DOMAIN proposals -> Proposal]
  <2>1. run[r].pc = "locked"
    BY DEF Parse, CancelPending, ConfirmPending, StoreProposal, Unrecognized
  <2>2. m \in DOMAIN line /\ TypeOK
    BY <2>1 DEF IInv, TypeOK
  <2>3. DOMAIN proposals \subseteq Positions /\ proposals \in [DOMAIN proposals -> Proposal]
    BY <2>2, RowsElim DEF TypeOK
  <2> QED BY <2>1, <2>2, <2>3, LineType
<1>2. Pending \subseteq DOMAIN proposals
  BY DEF Pending
\* No row is written.
<1>3. ASSUME NEW answer \in Answer, Written(r, NoRows, {}, answer)
      PROVE  IInv'
  BY <1>1, <1>3, NoRowsType, WrittenStep
\* The answer for a stored proposal.
<1>4. ASSUME NEW p \in DOMAIN proposals
      PROVE  ProposalResult(p) \in Answer
  BY <1>1, AnswerTypes DEF ProposalResult
<1>5. CASE CancelPending(r)
  <2>1. ASSUME NEW p \in Pending,
               Written(r, [q \in {p} |-> Row("CANCELLED", NULL)], {}, Said("CANCELLED", p))
        PROVE  IInv'
    <3>1. Row("CANCELLED", NULL) \in Proposal /\ Row("CANCELLED", NULL).status = "CANCELLED"
      BY DEF Row, Proposal
    <3>2. p \in Positions /\ Said("CANCELLED", p) \in Answer
      BY <1>1, <1>2, AnswerTypes
    <3> DEFINE rows == [q \in {p} |-> Row("CANCELLED", NULL)]
    <3>3. rows \in Rows /\ DOMAIN rows = {p} /\ \A x \in DOMAIN rows : rows[x].status = "CANCELLED"
      BY <3>1, <3>2, OneRow
    <3> HIDE DEF rows
    <3>4. Written(r, rows, {}, Said("CANCELLED", p))
      BY <2>1 DEF rows
    <3> QED BY <1>1, <3>2, <3>3, <3>4, WrittenStep
  <2> QED BY <1>3, <1>5, <2>1, AnswerTypes DEF CancelPending
<1>6. CASE ConfirmPending(r)
  <2>1. ASSUME NEW p \in Pending,
               Written(r, [q \in {p} |-> Row("CONFIRMED", m)], {p}, Said("POSTED", p))
        PROVE  IInv'
    <3>1. Row("CONFIRMED", m) \in Proposal /\ Row("CONFIRMED", m).status = "CONFIRMED"
      BY <1>1 DEF Row, Proposal
    <3>2. p \in Positions /\ Said("POSTED", p) \in Answer
      BY <1>1, <1>2, AnswerTypes
    <3> DEFINE rows == [q \in {p} |-> Row("CONFIRMED", m)]
    <3>3. rows \in Rows /\ DOMAIN rows = {p} /\ \A x \in DOMAIN rows : rows[x].status = "CONFIRMED"
      BY <3>1, <3>2, OneRow
    <3> HIDE DEF rows
    <3>4. Written(r, rows, {p}, Said("POSTED", p))
      BY <2>1 DEF rows
    <3>5. {p} = {x \in DOMAIN rows : rows[x].status = "CONFIRMED"}
      BY <3>3
    <3>6. {p} \in SUBSET Positions
      BY <3>2
    <3> QED BY <1>1, <3>2, <3>3, <3>4, <3>5, <3>6, WrittenStep
  <2>2. ConfirmedBy(m) \subseteq DOMAIN proposals
    BY DEF ConfirmedBy
  <2> QED BY <1>3, <1>4, <1>6, <2>1, <2>2, AnswerTypes DEF ConfirmPending
<1>7. CASE StoreProposal(r)
  <2>1. CASE m \in DOMAIN proposals
    BY <1>3, <1>4, <1>7, <2>1 DEF StoreProposal
  <2>2. CASE m \notin DOMAIN proposals
    <3> DEFINE rows == [p \in Pending \cup {m} |->
                          IF p = m THEN Row("PENDING", NULL) ELSE Row("CANCELLED", NULL)]
    <3>1. Row("PENDING", NULL) \in Proposal /\ Row("CANCELLED", NULL) \in Proposal
      BY DEF Row, Proposal
    <3>2. rows \in [Pending \cup {m} -> Proposal] /\ Pending \cup {m} \in SUBSET Positions
      BY <1>1, <1>2, <3>1
    <3>3. rows \in Rows
      BY <3>2, RowsIntro
    <3>4. \A p \in DOMAIN rows : rows[p].status # "CONFIRMED"
      BY DEF Row
    <3>5. Written(r, rows, {}, Said("PROPOSED", m)) /\ Said("PROPOSED", m) \in Answer
      BY <1>1, <1>7, <2>2, AnswerTypes DEF StoreProposal
    <3>6. \A p \in DOMAIN rows \cap DOMAIN proposals : p \in Pending
      BY <2>2
    <3> HIDE DEF rows, m
    <3> QED BY <1>1, <3>3, <3>4, <3>5, <3>6, WrittenStep
  <2> QED BY <2>1, <2>2
<1>8. CASE Unrecognized(r)
  BY <1>3, <1>8, AnswerTypes DEF Unrecognized
<1> QED BY <1>5, <1>6, <1>7, <1>8 DEF Parse

LEMMA CommitStep == ASSUME IInv, NEW r \in Runs, Commit(r) \/ CommitUnacknowledged(r) PROVE IInv'
<1>1. PICK pc \in {"failed", "parsed"}, answer \in Answer : Closed(r, pc, answer)
  BY AnswerTypes DEF Commit, CommitUnacknowledged, IInv, TypeOK
<1> DEFINE rows == run[r].rows
           new == [run[r] EXCEPT !.pc = pc, !.rows = NoRows, !.post = {}, !.answer = answer]
<1>2. /\ run[r].pc = "commit" /\ proposals' = Merged(r) /\ posted' = posted \cup run[r].post
      /\ UNCHANGED <<line, outcome, attempts, owner, expired, sent, stalls>>
      /\ faults' \in 0..MaxFaults
  BY BoundAssumption DEF Commit, CommitUnacknowledged, Publish, IInv, TypeOK
<1>3. run \in [Runs -> RunType] /\ run[r] \in RunType
  BY DEF IInv, TypeOK, RunType
<1>4. new \in RunType /\ new.pc = pc /\ new.msg = run[r].msg /\ new.rows = NoRows /\ new.post = {}
  BY <1>3, NoRowsType DEF RunType
<1>5. run' = [run EXCEPT ![r] = new]
  BY <1>1, <1>3 DEF Closed
<1> HIDE DEF new
<1>6. run' \in [Runs -> RunType] /\ run'[r] = new /\ \A q \in Runs \ {r} : run'[q] = run[q]
  BY <1>3, <1>4, <1>5
<1>7. /\ DOMAIN rows \subseteq Positions /\ rows \in [DOMAIN rows -> Proposal]
      /\ DOMAIN proposals \subseteq Positions /\ proposals \in [DOMAIN proposals -> Proposal]
  BY <1>3, RowsElim DEF IInv, TypeOK, RunType
<1>8. proposals' \in [DOMAIN proposals \cup DOMAIN rows -> Proposal]
  BY <1>2, <1>7 DEF Merged
<1>9. proposals' \in Rows
  BY <1>7, <1>8, RowsIntro
<1>10. TypeOK'
  BY <1>2, <1>3, <1>4, <1>6, <1>9 DEF IInv, TypeOK, RunType
<1>11. /\ run[r].post = {p \in DOMAIN rows : rows[p].status = "CONFIRMED"}
       /\ \A p \in DOMAIN rows \cap DOMAIN proposals : proposals[p].status = "PENDING"
  BY <1>2 DEF IInv, OpenWrites, Pending
<1>12. ConfirmedIffPosted'
  <2>1. /\ DOMAIN proposals' = DOMAIN proposals \cup DOMAIN rows
        /\ \A p \in DOMAIN rows : proposals'[p] = rows[p]
        /\ \A p \in DOMAIN proposals \ DOMAIN rows : proposals'[p] = proposals[p]
    BY <1>2 DEF Merged
  <2>2. posted = {p \in DOMAIN proposals : proposals[p].status = "CONFIRMED"}
    BY DEF IInv, ConfirmedIffPosted
  <2>3. ASSUME NEW p \in posted'
        PROVE  p \in DOMAIN proposals' /\ proposals'[p].status = "CONFIRMED"
    BY <1>2, <1>11, <2>1, <2>2, <2>3
  <2>4. ASSUME NEW p \in DOMAIN proposals', proposals'[p].status = "CONFIRMED"
        PROVE  p \in posted'
    BY <1>2, <1>11, <2>1, <2>2, <2>4
  <2> QED BY <2>3, <2>4 DEF ConfirmedIffPosted
<1>13. OneTransaction'
  BY <1>4, <1>6 DEF IInv, OneTransaction, InTransaction
<1>14. OpenWrites'
  <2>1. \A q \in Runs \ {r} : run[q].pc # "commit"
    BY <1>2 DEF IInv, OneTransaction, InTransaction
  <2> QED BY <1>4, <1>6, <2>1, NoRowsType DEF IInv, OpenWrites
<1>15. Tries' /\ Claimed'
  BY <1>2, <1>4, <1>6 DEF IInv, Tries, Claimed
<1> QED BY <1>10, <1>12, <1>13, <1>14, <1>15 DEF IInv

LEMMA FinalizeStep == ASSUME IInv, NEW r \in Runs, Finalize(r) PROVE IInv'
<1> DEFINE m == run[r].msg
           new == [run[r] EXCEPT !.pc = "reply"]
<1>1. run[r] \in RunType /\ run[r].pc = "parsed" /\ DOMAIN run[r].rows = {} /\ run[r].post = {} /\ m \in Positions
  <2>1. run[r] \in RunType /\ run[r].pc = "parsed" /\ DOMAIN run[r].rows = {} /\ run[r].post = {}
    BY DEF IInv, TypeOK, RunType, OpenWrites, Finalize
  <2>2. TypeOK /\ m \in DOMAIN line
    BY <2>1 DEF IInv, TypeOK
  <2> QED BY <2>1, <2>2, LineType
<1>2. CASE Fenced(r)
  <2>1. new \in RunType /\ new.pc = "reply" /\ new.msg = m /\ DOMAIN new.rows = {} /\ new.post = {}
    BY <1>1 DEF RunType
  <2>2. run' = [run EXCEPT ![r] = new]
    BY <1>2 DEF Finalize, IInv, TypeOK
  <2>3. m \in DOMAIN line
    BY <1>1 DEF IInv, TypeOK
  <2> HIDE DEF new
  <2>4. /\ run' \in [Runs -> RunType]
        /\ \A q \in Runs : run'[q].pc # "idle" => run'[q].msg \in DOMAIN line'
        /\ ConfirmedIffPosted' /\ OneTransaction' /\ OpenWrites'
    BY <2>1, <2>2, <2>3, QuietStep DEF Finalize
  <2>5. outcome' = [outcome EXCEPT ![m] = "PROCESSED"] /\ owner' = NULL /\ expired' = FALSE
    BY <1>2 DEF Finalize
  <2>6. TypeOK'
    BY <2>4, <2>5 DEF IInv, TypeOK, RunType, Finalize
  <2>7. Tries'
    BY <1>1, <2>5 DEF IInv, TypeOK, Tries, Finalize
  <2>8. Claimed'
    BY <2>5, NullAssumption DEF Claimed
  <2> QED BY <2>4, <2>6, <2>7, <2>8 DEF IInv
<1>3. CASE ~Fenced(r)
  <2>1. run' = [run EXCEPT ![r] = IdleRun] /\ UNCHANGED <<outcome, owner, expired>>
    BY <1>3 DEF Finalize
  <2>2. expired' \in BOOLEAN /\ faults' \in 0..MaxFaults /\ sent' \in [Positions -> Answer]
    BY <2>1 DEF Finalize, IInv, TypeOK
  <2> QED BY <2>1, <2>2, IdleType, RunStep DEF Finalize
<1> QED BY <1>2, <1>3

LEMMA RecordStep == ASSUME IInv, NEW r \in Runs, Record(r) PROVE IInv'
<1> DEFINE m == run[r].msg
<1>1. run[r].pc = "failed" /\ m \in Positions /\ run' = [run EXCEPT ![r] = IdleRun]
  <2>1. run[r].pc = "failed" /\ run' = [run EXCEPT ![r] = IdleRun]
    BY DEF Record
  <2>2. TypeOK /\ m \in DOMAIN line
    BY <2>1 DEF IInv, TypeOK
  <2> QED BY <2>1, <2>2, LineType
<1>2. CASE Fenced(r)
  <2>1. /\ run' \in [Runs -> RunType]
        /\ \A q \in Runs : run'[q].pc # "idle" => run'[q].msg \in DOMAIN line'
        /\ ConfirmedIffPosted' /\ OneTransaction' /\ OpenWrites'
    BY <1>1, IdleType, QuietStep DEF Record
  <2>2. /\ attempts' = [attempts EXCEPT ![m] = attempts[m] + 1]
        /\ outcome' = [outcome EXCEPT ![m] = IF Exhausted(attempts[m] + 1) THEN "DEAD" ELSE outcome[m]]
        /\ owner' = NULL /\ expired' = FALSE
    BY <1>2 DEF Record
  <2>3. outcome[m] = "none" /\ attempts[m] < MaxAttempts /\ attempts[m] \in 0..MaxAttempts
    BY <1>1, <1>2 DEF IInv, TypeOK, Claimed, Tries, Fenced
  <2>4. attempts[m] + 1 \in 0..MaxAttempts
    BY <2>3, BoundAssumption
  <2> HIDE DEF m
  <2>5. TypeOK'
    BY <2>1, <2>2, <2>4 DEF IInv, TypeOK, RunType, Record
  <2>6. Tries'
    <3>1. ASSUME NEW n \in Positions, outcome'[n] = "none"
          PROVE  attempts'[n] < MaxAttempts
      <4>1. CASE n = m
        <5>1. attempts'[m] = attempts[m] + 1 /\ outcome'[m] = (IF Exhausted(attempts[m] + 1) THEN "DEAD" ELSE outcome[m])
          BY <1>1, <2>2 DEF IInv, TypeOK
        <5>2. ~Exhausted(attempts[m] + 1)
          BY <3>1, <4>1, <5>1
        <5> QED BY <4>1, <5>1, <5>2, <2>4, BoundAssumption DEF Exhausted
      <4>2. CASE n # m
        BY <1>1, <2>2, <3>1, <4>2 DEF IInv, TypeOK, Tries
      <4> QED BY <4>1, <4>2
    <3> QED BY <3>1 DEF Tries
  <2>7. Claimed'
    BY <2>2, NullAssumption DEF Claimed
  <2> QED BY <2>1, <2>5, <2>6, <2>7 DEF IInv
<1>3. CASE ~Fenced(r)
  <2>1. expired' \in BOOLEAN /\ faults' \in 0..MaxFaults /\ sent' \in [Positions -> Answer]
    BY <1>3 DEF Record, IInv, TypeOK
  <2> QED BY <1>1, <1>3, <2>1, IdleType, RunStep DEF Record
<1> QED BY <1>2, <1>3

LEMMA NextIInv == ASSUME IInv, [Next]_vars PROVE IInv'
<1>1. CASE UNCHANGED vars
  BY <1>1 DEF vars, IInv, TypeOK, ConfirmedIffPosted, OneTransaction, InTransaction, OpenWrites,
     Pending, Tries, Claimed
<1>2. CASE Next
  BY <1>2, ReceiveStep, StallStep, ClaimStep, CrashStep, LockStep, ThrowStep, ParseStep,
     CommitStep, FinalizeStep, RecordStep, ReplyStep DEF Next
<1> QED BY <1>1, <1>2

\* The lock of the business, the content of an open transaction and the room left
\* for attempts hold at every step, stalled owners and lost acknowledgements
\* included (withProposalLock, parseAndPost, recordFailure).
THEOREM InductiveInvariant == Spec => []IInv
  BY InitIInv, NextIInv, PTL DEF Spec

\* Every row, answer and count is well formed, and no message is tried more often
\* than MAX_ATTEMPTS (recordFailure).
THEOREM TypeCorrect == Spec => []TypeOK
<1>1. IInv => TypeOK BY DEF IInv
<1> QED BY <1>1, InductiveInvariant, PTL

\* Whatever owners outlive their lease and whatever acknowledgements are lost, a
\* proposal is CONFIRMED exactly when its ledger transaction is committed
\* (confirmPendingProposal, postTransactionWithManager).
THEOREM ConfirmationIsPosting == Spec => []ConfirmedIffPosted
<1>1. IInv => ConfirmedIffPosted BY DEF IInv
<1> QED BY <1>1, InductiveInvariant, PTL

-----------------------------------------------------------------------------
(* As long as no owner has outlived its lease.                             *)

LEMMA TableTypes ==
  ASSUME IInv
  PROVE  /\ run \in [Runs -> RunType]
         /\ DOMAIN proposals \subseteq Positions /\ proposals \in [DOMAIN proposals -> Proposal]
         /\ DOMAIN line = 1..Len(line) /\ Len(line) \in Nat
         /\ Pending \subseteq DOMAIN proposals
         /\ \A r \in Runs : /\ run[r].pc # "idle" => run[r].msg \in DOMAIN line
                            /\ DOMAIN run[r].rows \subseteq Positions
                            /\ run[r].rows \in [DOMAIN run[r].rows -> Proposal]
<1>1. TypeOK
  BY DEF IInv
<1>2. run \in [Runs -> RunType] /\ proposals \in Rows /\ line \in Seq(Kinds)
  BY <1>1 DEF TypeOK, RunType
<1>3. \A r \in Runs : run[r].rows \in Rows
  BY <1>2 DEF RunType
<1> QED BY <1>1, <1>2, <1>3, RowsElim DEF TypeOK, Pending

\* What is true stays true when only pending rows change and no row comes to be
\* confirmed by the message.
LEMMA StillTruthful ==
  ASSUME NEW m, NEW answer, NEW rows, NEW txns, NEW rows2, NEW txns2,
         Truthful(rows, txns, m, answer),
         DOMAIN rows \subseteq DOMAIN rows2, txns \subseteq txns2,
         \A p \in DOMAIN rows : rows[p].status # "PENDING" => rows2[p] = rows[p],
         \A p \in txns : rows[p].status = "CONFIRMED",
         \A p \in DOMAIN rows2 : rows2[p].confirmedBy = m => p \in DOMAIN rows /\ rows[p].confirmedBy = m
  PROVE  Truthful(rows2, txns2, m, answer)
<1> DEFINE p == answer.proposal
<1>1. answer.status = "POSTED" => p \in txns2 /\ p \in DOMAIN rows2 /\ rows2[p].confirmedBy = m
  BY DEF Truthful
<1>2. answer.status = "CANCELLED" => p \in DOMAIN rows2 /\ p < m /\ rows2[p].status = "CANCELLED"
  BY DEF Truthful
<1>3. answer.status = "PROPOSED" => line[m] = "propose" /\ p = m /\ m \in DOMAIN rows2
  BY DEF Truthful
<1>4. answer.status = "NO_PENDING" /\ line[m] = "confirm" => \A q \in DOMAIN rows2 : rows2[q].confirmedBy # m
  BY DEF Truthful
<1> QED BY <1>1, <1>2, <1>3, <1>4 DEF Truthful

LEMMA InitSInv == ASSUME Init PROVE SInv
<1>1. \A r \in Runs : run[r].pc = "idle"
  BY IdleType DEF Init
<1>2. DOMAIN proposals = {}
  BY NoRowsType DEF Init
<1>3. Sole /\ InTurn /\ Effect /\ Answers
  BY <1>1 DEF Sole, InTurn, Effect, Answers, Busy
<1>4. Rooted /\ Ordered
  BY <1>2 DEF Rooted, Ordered
<1>5. Told
  BY DEF Init, Told, NoAnswer, Said
<1> QED BY <1>3, <1>4, <1>5 DEF SInv

LEMMA ReceiveInTurn == ASSUME IInv, SInv, Receive PROVE SInv'
<1>1. PICK kind \in Kinds : line' = Append(line, kind)
  BY DEF Receive
<1>2. line \in Seq(Kinds)
  BY DEF IInv, TypeOK
<1>3. /\ Len(line') = Len(line) + 1 /\ Len(line) \in Nat
      /\ DOMAIN line' = 1..(Len(line) + 1) /\ DOMAIN line = 1..Len(line)
      /\ \A m \in DOMAIN line : m \in DOMAIN line' /\ line'[m] = line[m]
  BY <1>1, <1>2
<1>4. UNCHANGED <<outcome, owner, expired, run, proposals, posted, sent>>
  BY DEF Receive
<1>5. Sole'
  BY <1>4 DEF SInv, Sole, Busy
<1>6. InTurn'
  BY <1>3, <1>4 DEF SInv, InTurn, Busy, First
<1>7. Rooted'
  BY <1>3, <1>4 DEF SInv, Rooted
<1>8. Ordered'
  <2>1. ASSUME NEW p \in DOMAIN proposals, NEW m \in DOMAIN line', outcome[m] = "none"
        PROVE  LET c == proposals[p].confirmedBy IN
               /\ p <= m /\ (c # NULL => c <= m)
               /\ p = m => p \in Pending
    <3>1. CASE m \in DOMAIN line
      BY <2>1, <3>1 DEF SInv, Ordered
    <3>2. CASE m = Len(line) + 1
      BY <1>3, <3>2 DEF SInv, Rooted
    <3> QED BY <1>3, <3>1, <3>2
  <2>2. Pending' = Pending
    BY <1>4 DEF Pending
  <2> QED BY <1>4, <2>1, <2>2 DEF Ordered
<1>9. \A r \in Runs : run[r].pc # "idle" => run[r].msg \in DOMAIN line
  BY TableTypes
<1>10. ASSUME NEW m \in DOMAIN line, NEW rows, NEW txns, NEW answer, Truthful(rows, txns, m, answer)
       PROVE  Truthful(rows, txns, m, answer)'
  BY <1>3, <1>10 DEF Truthful
<1>11. Effect'
  <2>1. ASSUME NEW m \in DOMAIN line, NEW rows, Intended(m, rows)
        PROVE  Intended(m, rows)'
    <3>1. Pending' = Pending /\ ConfirmedBy(m)' = ConfirmedBy(m) /\ line'[m] = line[m]
      BY <1>3, <1>4 DEF Pending, ConfirmedBy
    <3> QED BY <1>4, <2>1, <3>1 DEF Intended
  <2> QED BY <1>4, <1>9, <2>1 DEF SInv, Effect
<1>12. Answers'
  <2>1. \A r \in Runs : Merged(r)' = Merged(r)
    BY <1>4 DEF Merged
  <2> QED BY <1>4, <1>9, <1>10, <2>1 DEF SInv, Answers
<1>13. Told'
  BY <1>3, <1>4, <1>10 DEF SInv, Told
<1> QED BY <1>5, <1>6, <1>7, <1>8, <1>11, <1>12, <1>13 DEF SInv

\* A run that holds the claim moves on and touches nothing but itself.
LEMMA OwnStep ==
  ASSUME IInv, SInv, NEW r \in Runs, NEW new \in RunType, Busy(r),
         run' = [run EXCEPT ![r] = new],
         new.pc \notin {"idle", "reply"}, new.msg = run[r].msg,
         UNCHANGED <<line, outcome, owner, expired, proposals, posted, sent>>,
         new.pc = "commit" =>
           /\ Intended(new.msg, new.rows)
           /\ Truthful([p \in DOMAIN proposals \cup DOMAIN new.rows |->
                          IF p \in DOMAIN new.rows THEN new.rows[p] ELSE proposals[p]],
                       posted \cup new.post, new.msg, new.answer),
         new.pc = "parsed" => Truthful(proposals, posted, new.msg, new.answer)
  PROVE  SInv'
<1>1. run'[r] = new /\ \A q \in Runs \ {r} : run'[q] = run[q]
  BY TableTypes
<1>2. Sole'
  BY <1>1 DEF SInv, Sole, Busy
<1>3. InTurn'
  <2>1. First' = First
    BY DEF First
  <2> QED BY <1>1, <2>1 DEF SInv, InTurn, Busy
<1>4. Pending' = Pending
  BY DEF Pending
<1>5. Rooted' /\ Ordered'
  BY <1>4 DEF SInv, Rooted, Ordered
<1>6. Effect'
  <2>1. ASSUME NEW m, NEW rows, Intended(m, rows)
        PROVE  Intended(m, rows)'
    <3>1. ConfirmedBy(m)' = ConfirmedBy(m)
      BY DEF ConfirmedBy
    <3> QED BY <1>4, <2>1, <3>1 DEF Intended
  <2> QED BY <1>1, <2>1 DEF SInv, Effect
<1>7. ASSUME NEW m, NEW rows, NEW txns, NEW answer, Truthful(rows, txns, m, answer)
      PROVE  Truthful(rows, txns, m, answer)'
  BY <1>7 DEF Truthful
<1>8. Answers'
  <2>1. ASSUME NEW q \in Runs, run'[q].pc = "commit"
        PROVE  Truthful(Merged(q), posted \cup run[q].post, run[q].msg, run[q].answer)'
    <3>1. CASE q = r
      BY <1>1, <1>7, <2>1, <3>1 DEF Merged
    <3>2. CASE q # r
      <4>1. Merged(q)' = Merged(q) /\ run'[q] = run[q]
        BY <1>1, <3>2 DEF Merged
      <4> QED BY <1>7, <2>1, <4>1 DEF SInv, Answers
    <3> QED BY <3>1, <3>2
  <2>2. ASSUME NEW q \in Runs, run'[q].pc \in {"parsed", "reply"}
        PROVE  Truthful(proposals, posted, run[q].msg, run[q].answer)'
    BY <1>1, <1>7, <2>2 DEF SInv, Answers
  <2> QED BY <2>1, <2>2 DEF Answers
<1>9. Told'
  BY <1>7 DEF SInv, Told
<1> QED BY <1>2, <1>3, <1>5, <1>6, <1>8, <1>9 DEF SInv

LEMMA LockInTurn == ASSUME IInv, SInv, NEW r \in Runs, Lock(r) PROVE SInv'
<1> DEFINE new == [run[r] EXCEPT !.pc = "locked"]
<1>1. run[r] \in RunType /\ run[r].pc = "core"
  BY TableTypes DEF Lock
<1>2. new \in RunType /\ new.pc = "locked" /\ new.msg = run[r].msg /\ run' = [run EXCEPT ![r] = new]
  BY <1>1, TableTypes DEF RunType, Lock
<1> HIDE DEF new
<1> QED BY <1>1, <1>2, OwnStep DEF Lock, Busy

LEMMA ClosedInTurn ==
  ASSUME IInv, SInv, NEW r \in Runs, NEW pc \in {"failed", "parsed"}, NEW answer \in Answer,
         Busy(r), Closed(r, pc, answer),
         pc = "parsed" => Truthful(proposals, posted, run[r].msg, answer),
         UNCHANGED <<line, outcome, owner, expired, proposals, posted, sent>>
  PROVE  SInv'
<1> DEFINE new == [run[r] EXCEPT !.pc = pc, !.rows = NoRows, !.post = {}, !.answer = answer]
<1>1. run[r] \in RunType
  BY TableTypes
<1>2. new \in RunType /\ new.pc = pc /\ new.msg = run[r].msg /\ new.answer = answer
  BY <1>1, NoRowsType DEF RunType
<1>3. run' = [run EXCEPT ![r] = new]
  BY TableTypes DEF Closed
<1> HIDE DEF new
<1> QED BY <1>2, <1>3, OwnStep

LEMMA ThrowInTurn == ASSUME IInv, SInv, NEW r \in Runs, Throw(r) \/ AnswerQuery(r) PROVE SInv'
<1>1. CASE Throw(r)
  BY <1>1, ClosedInTurn, AnswerTypes DEF Throw, Busy
<1>2. CASE AnswerQuery(r)
  <2>1. Truthful(proposals, posted, run[r].msg, Said("UNRECOGNIZED", NULL))
    BY DEF Truthful, Said
  <2> QED BY <1>2, <2>1, ClosedInTurn, AnswerTypes DEF AnswerQuery, Busy
<1> QED BY <1>1, <1>2

LEMMA ClaimInTurn == ASSUME IInv, SInv, NEW r \in Runs, Claim(r) PROVE SInv'
<1>1. PICK m \in First : run' = [run EXCEPT ![r].pc = "core", ![r].msg = m]
  BY DEF Claim
<1>2. /\ run'[r].pc = "core" /\ run'[r].msg = m
      /\ \A q \in Runs \ {r} : run'[q] = run[q]
  BY <1>1, TableTypes DEF RunType
<1>3. /\ run[r].pc = "idle" /\ owner' = r /\ expired' = FALSE
      /\ UNCHANGED <<line, outcome, proposals, posted, sent>>
  BY DEF Claim
\* Nobody else is busy: the claim was free or its owner has died.
<1>4. \A q \in Runs : ~Busy(q)
  BY NullAssumption DEF Claim, SInv, Sole
<1>5. Sole'
  BY <1>2, <1>3, <1>4 DEF SInv, Sole, Busy
<1>6. InTurn'
  <2>1. First' = First
    BY <1>3 DEF First
  <2> QED BY <1>2, <1>3, <2>1 DEF SInv, InTurn, Busy
<1>7. Rooted' /\ Ordered' /\ Told'
  BY <1>3 DEF SInv, Rooted, Ordered, Pending, Told, Truthful
<1>8. Effect'
  BY <1>2, <1>4 DEF Effect, Busy
<1>9. Answers'
  BY <1>2, <1>3, <1>4 DEF SInv, Answers, Busy, Truthful
<1> QED BY <1>5, <1>6, <1>7, <1>8, <1>9 DEF SInv

\* A run dies or answers: it leaves the others and the tables as they are.
LEMMA LeaveInTurn ==
  ASSUME IInv, SInv, NEW r \in Runs, run[r].pc # "idle", run' = [run EXCEPT ![r] = IdleRun],
         owner' = owner, expired' = (expired \/ owner = r),
         UNCHANGED <<line, outcome, proposals, posted>>,
         Told'
  PROVE  SInv'
<1>1. run'[r].pc = "idle" /\ \A q \in Runs \ {r} : run'[q] = run[q]
  BY TableTypes, IdleType
<1>2. Sole'
  BY <1>1 DEF SInv, Sole, Busy
<1>3. InTurn'
  <2>1. First' = First
    BY DEF First
  <2> QED BY <1>1, <2>1 DEF SInv, InTurn, Busy
<1>4. Rooted' /\ Ordered'
  BY DEF SInv, Rooted, Ordered, Pending
<1>5. Effect'
  <2>1. ASSUME NEW m, NEW rows, Intended(m, rows)
        PROVE  Intended(m, rows)'
    <3>1. Pending' = Pending /\ ConfirmedBy(m)' = ConfirmedBy(m)
      BY DEF Pending, ConfirmedBy
    <3> QED BY <2>1, <3>1 DEF Intended
  <2> QED BY <1>1, <2>1 DEF SInv, Effect
<1>6. Answers'
  <2>1. ASSUME NEW q \in Runs, run'[q].pc = "commit"
        PROVE  Truthful(Merged(q), posted \cup run[q].post, run[q].msg, run[q].answer)'
    <3>1. q # r /\ run'[q] = run[q] /\ Merged(q)' = Merged(q)
      BY <1>1, <2>1 DEF Merged
    <3> QED BY <2>1, <3>1 DEF SInv, Answers, Truthful
  <2>2. ASSUME NEW q \in Runs, run'[q].pc \in {"parsed", "reply"}
        PROVE  Truthful(proposals, posted, run[q].msg, run[q].answer)'
    BY <1>1, <2>2 DEF SInv, Answers, Truthful
  <2> QED BY <2>1, <2>2 DEF Answers
<1> QED BY <1>2, <1>3, <1>4, <1>5, <1>6 DEF SInv

LEMMA CrashInTurn == ASSUME IInv, SInv, NEW r \in Runs, Crash(r) PROVE SInv'
<1>1. Told'
  BY DEF Crash, SInv, Told, Truthful
<1> QED BY <1>1, LeaveInTurn DEF Crash

LEMMA ReplyInTurn == ASSUME IInv, SInv, NEW r \in Runs, Reply(r) PROVE SInv'
<1>1. /\ run[r].pc = "reply" /\ owner # r /\ outcome[run[r].msg] # "none"
      /\ Truthful(proposals, posted, run[r].msg, run[r].answer)
  BY DEF Reply, SInv, Sole, InTurn, Answers
<1>2. run[r].msg \in DOMAIN line /\ sent \in [Positions -> Answer] /\ expired \in BOOLEAN
  BY <1>1 DEF IInv, TypeOK
<1>3. Told'
  <2>1. ASSUME NEW m \in Positions, sent'[m].status # "none"
        PROVE  m \in DOMAIN line /\ outcome[m] # "none" /\ Truthful(proposals, posted, m, sent'[m])
    <3>1. CASE sent'[m] = sent[m]
      BY <2>1, <3>1 DEF SInv, Told
    <3>2. CASE m = run[r].msg /\ sent'[m] = run[r].answer
      BY <1>1, <1>2, <3>2
    <3> QED BY <1>2, <3>1, <3>2 DEF Reply
  <2> QED BY <2>1 DEF Told, Reply, Truthful
<1>4. expired' = (expired \/ owner = r)
  BY <1>1, <1>2 DEF Reply
<1> QED BY <1>1, <1>3, <1>4, LeaveInTurn DEF Reply

\* The run with the claim gives it up, finished or not.
LEMMA ReleaseInTurn ==
  ASSUME IInv, SInv, NEW r \in Runs, NEW new, Busy(r), run' = [run EXCEPT ![r] = new],
         new.pc \in {"idle", "reply"},
         new.pc = "reply" => /\ outcome'[new.msg] # "none"
                             /\ Truthful(proposals, posted, new.msg, new.answer),
         owner' = NULL,
         \A m \in Positions : outcome[m] # "none" => outcome'[m] # "none",
         UNCHANGED <<line, proposals, posted, sent>>
  PROVE  SInv'
<1>1. run'[r] = new /\ \A q \in Runs \ {r} : run'[q] = run[q]
  BY TableTypes
<1>2. \A q \in Runs \ {r} : ~Busy(q)
  BY DEF SInv, Sole
<1>3. DOMAIN line \subseteq Positions
  BY LineType DEF IInv
<1>4. Sole'
  BY <1>1, <1>2, NullAssumption DEF Sole, Busy
<1>5. InTurn'
  <2>1. ASSUME NEW q \in Runs \ {r}, run'[q].pc = "reply"
        PROVE  outcome'[run'[q].msg] # "none"
    <3>1. run[q].msg \in Positions
      BY <1>1, <1>3, <2>1, TableTypes
    <3> QED BY <1>1, <2>1, <3>1 DEF SInv, InTurn
  <2> QED BY <1>1, <1>2, <2>1 DEF InTurn, Busy
<1>6. Rooted'
  BY DEF SInv, Rooted
<1>7. Ordered'
  BY <1>3 DEF SInv, Ordered, Pending
<1>8. Effect'
  BY <1>1, <1>2 DEF Effect, Busy
<1>9. Answers'
  BY <1>1, <1>2 DEF SInv, Answers, Busy, Truthful
<1>10. Told'
  BY DEF SInv, Told, Truthful
<1> QED BY <1>4, <1>5, <1>6, <1>7, <1>8, <1>9, <1>10 DEF SInv

LEMMA FinalizeInTurn == ASSUME IInv, SInv, NEW r \in Runs, Finalize(r) PROVE SInv'
<1> DEFINE new == [run[r] EXCEPT !.pc = "reply"]
<1>1. run[r].pc = "parsed" /\ Busy(r) /\ Fenced(r)
  BY DEF Finalize, Busy, SInv, Sole, Fenced
<1>2. run[r] \in RunType /\ run[r].msg \in Positions /\ outcome \in [Positions -> {"none", "PROCESSED", "DEAD"}]
  BY <1>1, TableTypes, LineType DEF IInv, TypeOK
<1>3. new.pc = "reply" /\ new.msg = run[r].msg /\ new.answer = run[r].answer /\ run' = [run EXCEPT ![r] = new]
  BY <1>1, <1>2, TableTypes DEF Finalize, RunType
<1>4. outcome' = [outcome EXCEPT ![run[r].msg] = "PROCESSED"] /\ owner' = NULL
  BY <1>1 DEF Finalize
<1>5. Truthful(proposals, posted, run[r].msg, run[r].answer)
  BY <1>1 DEF SInv, Answers
<1>6. outcome'[new.msg] # "none" /\ \A m \in Positions : outcome[m] # "none" => outcome'[m] # "none"
  BY <1>2, <1>3, <1>4
<1> HIDE DEF new
<1> QED BY <1>1, <1>3, <1>4, <1>5, <1>6, ReleaseInTurn DEF Finalize

LEMMA RecordInTurn == ASSUME IInv, SInv, NEW r \in Runs, Record(r) PROVE SInv'
<1>1. run[r].pc = "failed" /\ Busy(r) /\ Fenced(r)
  BY DEF Record, Busy, SInv, Sole, Fenced
<1>2. run[r].msg \in Positions /\ outcome \in [Positions -> {"none", "PROCESSED", "DEAD"}]
  BY <1>1, TableTypes, LineType DEF IInv, TypeOK
<1>3. /\ owner' = NULL /\ run' = [run EXCEPT ![r] = IdleRun]
      /\ outcome' = [outcome EXCEPT ![run[r].msg] = IF Exhausted(attempts[run[r].msg] + 1) THEN "DEAD" ELSE @]
  BY <1>1 DEF Record
<1>4. \A m \in Positions : outcome[m] # "none" => outcome'[m] # "none"
  BY <1>2, <1>3
<1> QED BY <1>1, <1>3, <1>4, IdleType, ReleaseInTurn DEF Record

\* The rows an open transaction is about to write.
LEMMA IntendedRows ==
  ASSUME IInv, SInv, NEW m \in First, NEW rows, Intended(m, rows)
  PROVE  \A p \in DOMAIN rows :
           LET c == rows[p].confirmedBy IN
           /\ p \in DOMAIN line /\ line[p] = "propose" /\ p <= m
           /\ c # NULL <=> rows[p].status = "CONFIRMED"
           /\ c # NULL => c = m /\ line[m] = "confirm"
           /\ p = m => rows[p].status = "PENDING"
<1> DEFINE Goal == \A p \in DOMAIN rows :
           LET c == rows[p].confirmedBy IN
           /\ p \in DOMAIN line /\ line[p] = "propose" /\ p <= m
           /\ c # NULL <=> rows[p].status = "CONFIRMED"
           /\ c # NULL => c = m /\ line[m] = "confirm"
           /\ p = m => rows[p].status = "PENDING"
<1>1. m \in DOMAIN line /\ m \in Nat /\ outcome[m] = "none" /\ DOMAIN line = 1..Len(line) /\ Len(line) \in Nat
  BY TableTypes DEF First
<1>2. \A p \in Pending : p \in DOMAIN line /\ line[p] = "propose" /\ p <= m
  BY <1>1 DEF Pending, SInv, Rooted, Ordered
<1>3. m # NULL
  BY <1>1, NullAssumption
<1>4. CASE line[m] = "propose" /\ rows = [p \in Pending \cup {m} |->
                    IF p = m THEN Row("PENDING", NULL) ELSE Row("CANCELLED", NULL)]
  BY <1>1, <1>2, <1>4 DEF Row
<1>5. ASSUME line[m] = "confirm", NEW p \in Pending, rows = [q \in {p} |-> Row("CONFIRMED", m)]
      PROVE  Goal
  BY <1>2, <1>3, <1>5 DEF Row
<1>6. ASSUME line[m] = "cancel", NEW p \in Pending, rows = [q \in {p} |-> Row("CANCELLED", NULL)]
      PROVE  Goal
  BY <1>2, <1>6 DEF Row
<1>7. CASE DOMAIN rows = {}
  BY <1>7
<1> HIDE DEF Goal
<1>8. Goal
  BY <1>4, <1>5, <1>6, <1>7 DEF Intended, Goal
<1> QED BY <1>8 DEF Goal

LEMMA CommitInTurn ==
  ASSUME IInv, SInv, NEW r \in Runs, Commit(r) \/ CommitUnacknowledged(r)
  PROVE  SInv'
<1>0. PICK m, rows : m = run[r].msg /\ rows = run[r].rows
  OBVIOUS
<1>a. PICK pc \in {"failed", "parsed"} : \E answer :
        Closed(r, pc, answer) /\ (pc = "parsed" => answer = run[r].answer)
  BY DEF Commit, CommitUnacknowledged
<1>1. PICK answer : Closed(r, pc, answer) /\ (pc = "parsed" => answer = run[r].answer)
  BY <1>a
<1>2. /\ run[r].pc = "commit" /\ proposals' = Merged(r) /\ posted' = posted \cup run[r].post
      /\ UNCHANGED <<line, outcome, owner, expired, sent>>
  BY DEF Commit, CommitUnacknowledged, Publish
<1>3. /\ run'[r].pc = pc /\ run'[r].msg = m /\ run'[r].answer = answer
      /\ \A q \in Runs \ {r} : run'[q] = run[q]
  BY <1>0, <1>1, TableTypes DEF Closed, RunType
<1>4. Busy(r) /\ m \in First /\ \A q \in Runs \ {r} : ~Busy(q)
  BY <1>0, <1>2 DEF Busy, SInv, Sole, InTurn
<1>5. /\ m \in DOMAIN line /\ m \in Nat /\ DOMAIN line = 1..Len(line) /\ Len(line) \in Nat
      /\ outcome[m] = "none" /\ \A n \in DOMAIN line : outcome[n] = "none" => m <= n
  BY <1>4, TableTypes DEF First
<1>6. \A p \in DOMAIN rows :
        LET c == rows[p].confirmedBy IN
        /\ p \in DOMAIN line /\ line[p] = "propose" /\ p <= m
        /\ c # NULL <=> rows[p].status = "CONFIRMED"
        /\ c # NULL => c = m /\ line[m] = "confirm"
        /\ p = m => rows[p].status = "PENDING"
  BY <1>0, <1>2, <1>4, IntendedRows DEF SInv, Effect
<1>7. /\ DOMAIN proposals' = DOMAIN proposals \cup DOMAIN rows
      /\ \A p \in DOMAIN rows : proposals'[p] = rows[p]
      /\ \A p \in DOMAIN proposals \ DOMAIN rows : proposals'[p] = proposals[p]
  BY <1>0, <1>2 DEF Merged
<1>8. \A p \in DOMAIN proposals : proposals[p].status # "PENDING" => proposals'[p] = proposals[p]
  BY <1>0, <1>2, <1>7 DEF IInv, OpenWrites, Pending
\* What is said about other messages stays true.
<1>9. ASSUME NEW n \in DOMAIN line, n # m, NEW said, Truthful(proposals, posted, n, said)
      PROVE  Truthful(proposals, posted, n, said)'
  <2>1. \A p \in posted : proposals[p].status = "CONFIRMED"
    BY DEF IInv, ConfirmedIffPosted
  <2>2. n # NULL
    BY <1>5, NullAssumption
  <2>3. \A p \in DOMAIN proposals' : proposals'[p].confirmedBy = n =>
          p \in DOMAIN proposals /\ proposals[p].confirmedBy = n
    BY <1>6, <1>7, <1>9, <2>2
  <2>4. Truthful(proposals', posted', n, said)
    BY <1>2, <1>7, <1>8, <1>9, <2>1, <2>3, StillTruthful
  <2> QED BY <1>2, <2>4 DEF Truthful
<1>10. Sole'
  BY <1>2, <1>3 DEF SInv, Sole, Busy
<1>11. InTurn'
  <2>1. First' = First
    BY <1>2 DEF First
  <2> QED BY <1>2, <1>3, <1>4, <2>1 DEF SInv, InTurn, Busy
<1>12. Rooted'
  <2>1. ASSUME NEW p \in DOMAIN rows, rows[p].confirmedBy # NULL
        PROVE  p < rows[p].confirmedBy
    <3>1. p \in Nat /\ p <= m /\ line[p] # line[m] /\ rows[p].confirmedBy = m
      BY <1>5, <1>6, <2>1
    <3> QED BY <1>5, <3>1
  <2> QED BY <1>2, <1>5, <1>6, <1>7, <2>1 DEF SInv, Rooted
<1>13. Ordered'
  <2>1. ASSUME NEW p \in DOMAIN proposals', NEW n \in DOMAIN line, outcome[n] = "none"
        PROVE  LET c == proposals'[p].confirmedBy IN
               /\ p <= n /\ (c # NULL => c <= n)
               /\ p = n => proposals'[p].status = "PENDING"
    <3>1. CASE p \in DOMAIN rows
      BY <1>5, <1>6, <1>7, <2>1, <3>1
    <3>2. CASE p \in DOMAIN proposals \ DOMAIN rows
      BY <1>7, <2>1, <3>2 DEF SInv, Ordered, Pending
    <3> QED BY <1>7, <3>1, <3>2
  <2> QED BY <1>2, <2>1 DEF Ordered, Pending
<1>14. Effect'
  BY <1>3, <1>4 DEF Effect, Busy
<1>15. Answers'
  <2>1. ASSUME pc = "parsed"
        PROVE  Truthful(proposals, posted, m, answer)'
    <3>1. Truthful(Merged(r), posted \cup run[r].post, m, answer)
      BY <1>0, <1>1, <1>2, <2>1 DEF SInv, Answers
    <3>2. Truthful(proposals', posted', m, answer)
      BY <1>2, <3>1
    <3> QED BY <1>2, <3>2 DEF Truthful
  <2>2. ASSUME NEW q \in Runs \ {r}, run'[q].pc \in {"parsed", "reply"}
        PROVE  Truthful(proposals, posted, run[q].msg, run[q].answer)'
    <3>1. run'[q] = run[q] /\ run[q].pc = "reply"
      BY <1>3, <1>4, <2>2 DEF Busy
    <3>2. run[q].msg \in DOMAIN line /\ run[q].msg # m
      BY <1>5, <3>1, TableTypes DEF SInv, InTurn
    <3>3. Truthful(proposals, posted, run[q].msg, run[q].answer)
      BY <3>1 DEF SInv, Answers
    <3> QED BY <1>9, <3>1, <3>2, <3>3
  <2>3. ASSUME NEW q \in Runs
        PROVE  /\ run'[q].pc # "commit"
               /\ run'[q].pc \in {"parsed", "reply"} =>
                    Truthful(proposals, posted, run[q].msg, run[q].answer)'
    <3>1. CASE q = r
      <4>1. run'[q].pc = pc /\ run'[q].msg = m /\ run'[q].answer = answer
        BY <1>3, <3>1
      <4> QED BY <2>1, <4>1
    <3>2. CASE q # r
      <4>1. run'[q].pc \in {"idle", "reply"}
        BY <1>3, <1>4, <3>2 DEF Busy
      <4> QED BY <2>2, <3>2, <4>1
    <3> QED BY <3>1, <3>2
  <2> QED BY <2>3 DEF Answers
<1>16. Told'
  <2>1. ASSUME NEW n \in Positions, sent[n].status # "none"
        PROVE  n \in DOMAIN line /\ outcome[n] # "none" /\ Truthful(proposals, posted, n, sent[n])'
    <3>1. n \in DOMAIN line /\ outcome[n] # "none" /\ Truthful(proposals, posted, n, sent[n])
      BY <2>1 DEF SInv, Told
    <3>2. Truthful(proposals, posted, n, sent[n])'
      BY <1>2, <1>5, <1>9, <3>1
    <3> QED BY <3>1, <3>2
  <2> QED BY <1>2, <2>1 DEF Told
<1> QED BY <1>10, <1>11, <1>12, <1>13, <1>14, <1>15, <1>16 DEF SInv

LEMMA WrittenInTurn ==
  ASSUME IInv, SInv, NEW r \in Runs, run[r].pc = "locked",
         NEW rows \in Rows, NEW post \in SUBSET Positions, NEW answer \in Answer,
         Written(r, rows, post, answer), Intended(run[r].msg, rows),
         Truthful([p \in DOMAIN proposals \cup DOMAIN rows |->
                     IF p \in DOMAIN rows THEN rows[p] ELSE proposals[p]],
                  posted \cup post, run[r].msg, answer)
  PROVE  SInv'
<1> DEFINE new == [run[r] EXCEPT !.pc = "commit", !.rows = rows, !.post = post, !.answer = answer]
<1>1. run[r] \in RunType
  BY TableTypes
<1>2. /\ new \in RunType /\ new.pc = "commit" /\ new.msg = run[r].msg
      /\ new.rows = rows /\ new.post = post /\ new.answer = answer
  BY <1>1 DEF RunType
<1>3. run' = [run EXCEPT ![r] = new]
  BY TableTypes DEF Written
<1> HIDE DEF new
<1> QED BY <1>2, <1>3, OwnStep DEF Written, Busy

LEMMA ParseInTurn == ASSUME IInv, SInv, NEW r \in Runs, Parse(r) PROVE SInv'
<1>0. PICK m : m = run[r].msg
  OBVIOUS
<1>1. run[r].pc = "locked" /\ m \in First /\ m \in DOMAIN line /\ m \in Positions /\ m \in Nat /\ outcome[m] = "none"
  <2>1. run[r].pc = "locked"
    BY DEF Parse, CancelPending, ConfirmPending, StoreProposal, Unrecognized
  <2>2. m \in First
    BY <1>0, <2>1 DEF SInv, InTurn, Busy
  <2> QED BY <2>1, <2>2, LineType, TableTypes DEF First, IInv
<1>2. DOMAIN proposals \subseteq Positions /\ Pending \subseteq DOMAIN proposals /\ ConfirmedBy(m) \subseteq DOMAIN proposals
  BY TableTypes DEF ConfirmedBy
<1>3. m # NULL
  BY <1>1, NullAssumption
<1> DEFINE Table(rows) == [p \in DOMAIN proposals \cup DOMAIN rows |->
                             IF p \in DOMAIN rows THEN rows[p] ELSE proposals[p]]
\* No row is written.
<1>4. ASSUME NEW answer \in Answer, Written(r, NoRows, {}, answer),
             Truthful(proposals, posted, m, answer)
      PROVE  SInv'
  <2>1. Intended(m, NoRows)
    BY NoRowsType DEF Intended
  <2>2. Table(NoRows) = proposals
    BY NoRowsType, TableTypes
  <2>3. Truthful(Table(NoRows), posted \cup {}, m, answer)
    BY <1>4, <2>2
  <2> QED BY <1>0, <1>1, <1>4, <2>1, <2>3, NoRowsType, WrittenInTurn
\* The answer for a stored proposal.
<1>5. ASSUME NEW p \in DOMAIN proposals
      PROVE  /\ ProposalResult(p) \in Answer /\ ProposalResult(p).proposal = p
             /\ proposals[p].status = "PENDING" => ProposalResult(p).status = "PROPOSED"
             /\ proposals[p].status = "CONFIRMED" => ProposalResult(p).status = "POSTED"
  BY <1>2, AnswerTypes DEF ProposalResult, Said
<1>6. CASE CancelPending(r)
  <2>1. line[m] = "cancel"
    BY <1>0, <1>6 DEF CancelPending
  <2>2. CASE Written(r, NoRows, {}, Said("NO_PENDING", NULL))
    <3>1. Truthful(proposals, posted, m, Said("NO_PENDING", NULL))
      BY <2>1 DEF Truthful, Said
    <3> QED BY <1>4, <2>2, <3>1, AnswerTypes
  <2>3. ASSUME NEW p \in Pending,
               Written(r, [q \in {p} |-> Row("CANCELLED", NULL)], {}, Said("CANCELLED", p))
        PROVE  SInv'
    <3>0. PICK rows : rows = [q \in {p} |-> Row("CANCELLED", NULL)]
      OBVIOUS
    <3>1. Row("CANCELLED", NULL) \in Proposal /\ Row("CANCELLED", NULL).status = "CANCELLED"
      BY DEF Row, Proposal
    <3>2. p \in Positions /\ Said("CANCELLED", p) \in Answer
      BY <1>2, AnswerTypes
    <3>3. rows \in Rows /\ DOMAIN rows = {p} /\ \A x \in DOMAIN rows : rows[x].status = "CANCELLED"
      BY <3>0, <3>1, <3>2, OneRow
    <3>4. Intended(m, rows)
      BY <2>1, <3>0 DEF Intended
    <3>5. p <= m /\ line[p] = "propose" /\ p \in Nat
      BY <1>1, <3>2, <3>3, <3>4, IntendedRows DEF Positions
    <3>6. Table(rows)[p] = rows[p] /\ p \in DOMAIN Table(rows) /\ rows[p].status = "CANCELLED"
      BY <3>3
    <3>7. Truthful(Table(rows), posted \cup {}, m, Said("CANCELLED", p))
      BY <1>1, <2>1, <3>5, <3>6 DEF Truthful, Said
    <3> HIDE DEF Table
    <3> QED BY <1>0, <1>1, <2>3, <3>0, <3>2, <3>3, <3>4, <3>7, WrittenInTurn DEF Table
  <2> QED BY <1>6, <2>2, <2>3 DEF CancelPending
<1>7. CASE ConfirmPending(r)
  <2>1. line[m] = "confirm"
    BY <1>0, <1>7 DEF ConfirmPending
  <2>2. ASSUME NEW p \in ConfirmedBy(m), Written(r, NoRows, {}, ProposalResult(p))
        PROVE  SInv'
    <3>1. p \in DOMAIN proposals /\ proposals[p].confirmedBy = m /\ proposals[p].status = "CONFIRMED"
      BY <1>3 DEF ConfirmedBy, SInv, Rooted
    <3>2. p \in posted
      BY <3>1 DEF IInv, ConfirmedIffPosted
    <3>3. Truthful(proposals, posted, m, ProposalResult(p))
      BY <1>5, <3>1, <3>2 DEF Truthful
    <3> QED BY <1>4, <1>5, <2>2, <3>1, <3>3
  <2>3. CASE ConfirmedBy(m) = {} /\ Written(r, NoRows, {}, Said("NO_PENDING", NULL))
    <3>1. Truthful(proposals, posted, m, Said("NO_PENDING", NULL))
      BY <2>3 DEF Truthful, Said, ConfirmedBy
    <3> QED BY <1>4, <2>3, <3>1, AnswerTypes
  <2>4. ASSUME ConfirmedBy(m) = {}, NEW p \in Pending,
               Written(r, [q \in {p} |-> Row("CONFIRMED", m)], {p}, Said("POSTED", p))
        PROVE  SInv'
    <3>0. PICK rows : rows = [q \in {p} |-> Row("CONFIRMED", m)]
      OBVIOUS
    <3>1. Row("CONFIRMED", m) \in Proposal /\ Row("CONFIRMED", m).confirmedBy = m
      BY <1>1 DEF Row, Proposal
    <3>2. p \in Positions /\ Said("POSTED", p) \in Answer /\ {p} \in SUBSET Positions
      BY <1>2, AnswerTypes
    <3>3. rows \in Rows /\ DOMAIN rows = {p} /\ \A x \in DOMAIN rows : rows[x].confirmedBy = m
      BY <3>0, <3>1, <3>2, OneRow
    <3>4. Intended(m, rows)
      BY <2>1, <2>4, <3>0 DEF Intended
    <3>5. Table(rows)[p].confirmedBy = m /\ p \in DOMAIN Table(rows)
      BY <3>3
    <3>6. Truthful(Table(rows), posted \cup {p}, m, Said("POSTED", p))
      BY <3>5 DEF Truthful, Said
    <3> HIDE DEF Table
    <3> QED BY <1>0, <1>1, <2>4, <3>0, <3>2, <3>3, <3>4, <3>6, WrittenInTurn DEF Table
  <2> QED BY <1>0, <1>7, <2>2, <2>3, <2>4 DEF ConfirmPending
<1>8. CASE StoreProposal(r)
  <2>1. line[m] = "propose"
    BY <1>0, <1>8 DEF StoreProposal
  <2>2. CASE m \in DOMAIN proposals
    <3>1. proposals[m].status = "PENDING"
      BY <1>1, <2>2 DEF SInv, Ordered, Pending
    <3>2. Truthful(proposals, posted, m, ProposalResult(m))
      BY <1>5, <2>1, <2>2, <3>1 DEF Truthful
    <3> QED BY <1>0, <1>4, <1>5, <1>8, <2>2, <3>2 DEF StoreProposal
  <2>3. CASE m \notin DOMAIN proposals
    <3>0. PICK rows : rows = [p \in Pending \cup {m} |->
                                IF p = m THEN Row("PENDING", NULL) ELSE Row("CANCELLED", NULL)]
      OBVIOUS
    <3>1. Row("PENDING", NULL) \in Proposal /\ Row("CANCELLED", NULL) \in Proposal
      BY DEF Row, Proposal
    <3>2. rows \in [Pending \cup {m} -> Proposal] /\ Pending \cup {m} \in SUBSET Positions
      BY <1>1, <1>2, <3>0, <3>1
    <3>3. rows \in Rows /\ m \in DOMAIN rows
      BY <3>2, RowsIntro
    <3>4. Written(r, rows, {}, Said("PROPOSED", m)) /\ Said("PROPOSED", m) \in Answer
      BY <1>0, <1>1, <1>8, <2>3, <3>0, AnswerTypes DEF StoreProposal
    <3>5. Intended(m, rows)
      BY <2>1, <2>3, <3>0 DEF Intended
    <3>6. m \in DOMAIN Table(rows)
      BY <3>3
    <3>7. Truthful(Table(rows), posted \cup {}, m, Said("PROPOSED", m))
      BY <2>1, <3>6 DEF Truthful, Said
    <3> HIDE DEF Table
    <3> QED BY <1>0, <1>1, <3>3, <3>4, <3>5, <3>7, WrittenInTurn DEF Table
  <2> QED BY <2>2, <2>3
<1>9. CASE Unrecognized(r)
  <2>1. Truthful(proposals, posted, m, Said("UNRECOGNIZED", NULL))
    BY DEF Truthful, Said
  <2> QED BY <1>4, <1>9, <2>1, AnswerTypes DEF Unrecognized
<1> QED BY <1>6, <1>7, <1>8, <1>9 DEF Parse

LEMMA NextSInv == ASSUME IInv, SInv, [Next]_vars, stalls' = 0 PROVE SInv'
<1>1. CASE UNCHANGED vars
  <2>1. /\ UNCHANGED <<line, outcome, owner, expired, run, proposals, posted, sent>>
        /\ First' = First /\ Pending' = Pending
    BY <1>1 DEF vars, First, Pending
  <2>2. Sole' /\ InTurn' /\ Rooted' /\ Ordered'
    BY <2>1 DEF SInv, Sole, Busy, InTurn, Rooted, Ordered
  <2>3. \A m, rows : Intended(m, rows) => Intended(m, rows)'
    BY <2>1 DEF Intended, ConfirmedBy
  <2>4. \A rows, txns, m, answer : Truthful(rows, txns, m, answer) => Truthful(rows, txns, m, answer)'
    BY <2>1 DEF Truthful
  <2>5. \A r \in Runs : Merged(r)' = Merged(r)
    BY <2>1 DEF Merged
  <2>6. Effect' /\ Answers' /\ Told'
    BY <2>1, <2>3, <2>4, <2>5 DEF SInv, Effect, Answers, Told
  <2> QED BY <2>2, <2>6 DEF SInv
<1>2. CASE Stall
  <2>1. stalls' = stalls + 1 /\ stalls \in Nat
    BY <1>2 DEF Stall, IInv, TypeOK
  <2> QED BY <2>1
<1>3. CASE Next /\ ~Stall
  BY <1>3, ReceiveInTurn, ClaimInTurn, CrashInTurn, LockInTurn, ThrowInTurn, ParseInTurn,
     CommitInTurn, FinalizeInTurn, RecordInTurn, ReplyInTurn DEF Next
<1> QED BY <1>1, <1>2, <1>3

LEMMA StallsGrow == ASSUME [Next]_vars PROVE stalls' = stalls \/ stalls' = stalls + 1
<1>1. ASSUME NEW r \in Runs, Parse(r) PROVE stalls' = stalls
  BY <1>1 DEF Parse, CancelPending, ConfirmPending, StoreProposal, Unrecognized, Written
<1>2. ASSUME NEW r \in Runs, Claim(r) \/ Crash(r) \/ AnswerQuery(r) \/ Lock(r) PROVE stalls' = stalls
  BY <1>2 DEF Claim, Crash, AnswerQuery, Lock
<1>3. ASSUME NEW r \in Runs, Commit(r) \/ CommitUnacknowledged(r) \/ Throw(r) PROVE stalls' = stalls
  BY <1>3 DEF Commit, CommitUnacknowledged, Throw
<1>4. ASSUME NEW r \in Runs, Finalize(r) \/ Record(r) \/ Reply(r) PROVE stalls' = stalls
  BY <1>4 DEF Finalize, Record, Reply
<1>5. CASE Receive \/ Stall \/ UNCHANGED vars
  BY <1>5 DEF Receive, Stall, vars
<1> QED BY <1>1, <1>2, <1>3, <1>4, <1>5 DEF Next

\* Until an owner outlives its lease, the messages of a sender are worked on one
\* after the other, and what is stored, on its way or answered fits the order in
\* which they were said.
THEOREM TurnsInvariant == Spec => [](stalls = 0 => SInv)
<1>1. Init => (stalls = 0 => SInv)
  BY InitSInv
<1>2. stalls' = 0 /\ [Next]_vars /\ IInv => stalls = 0
  BY StallsGrow DEF IInv, TypeOK
<1>3. (stalls = 0 => SInv) /\ IInv /\ [Next]_vars => (stalls = 0 => SInv)'
  BY <1>2, NextSInv
<1> QED BY <1>1, <1>3, InductiveInvariant, PTL DEF Spec

\* Whatever is retried, given up or lost with a crash or an acknowledgement, the
\* sender is told the truth, as long as no owner outlives its lease
\* (parseAndPost, processMessageCore).
THEOREM RepliesAreTrue == Spec => []RepliesTruthful
<1>1. IInv /\ (stalls = 0 => SInv) => RepliesTruthful
  <2> SUFFICES ASSUME IInv, SInv, NEW m \in DOMAIN line
               PROVE  Truthful(proposals, posted, m, sent[m])
    BY DEF RepliesTruthful
  <2>1. m \in Positions
    BY LineType DEF IInv
  <2>2. CASE sent[m].status = "none"
    BY <2>2 DEF Truthful
  <2> QED BY <2>1, <2>2 DEF SInv, Told
<1> QED BY <1>1, InductiveInvariant, TurnsInvariant, PTL

\* Until then a proposal is confirmed by a later message: the confirmation of a
\* retried message that overtakes itself takes an owner that outlives its lease.
THEOREM ConfirmedLaterUnlessStalled == Spec => [](stalls = 0 => ConfirmedLater)
<1>1. SInv => ConfirmedLater
  BY DEF SInv, Rooted, ConfirmedLater
<1> QED BY <1>1, TurnsInvariant, PTL

LEMMA CommitSpeaks ==
  ASSUME IInv, SInv, NEW r \in Runs, Commit(r) \/ CommitUnacknowledged(r)
  PROVE  Chat!ANext \/ UNCHANGED Chat!avars
<1>0. PICK m, rows : m = run[r].msg /\ rows = run[r].rows
  OBVIOUS
<1>1. /\ run[r].pc = "commit" /\ proposals' = Merged(r) /\ posted' = posted \cup run[r].post
      /\ line' = line
  BY DEF Commit, CommitUnacknowledged, Publish
<1>2. m \in First /\ Intended(m, rows)
  BY <1>0, <1>1 DEF SInv, InTurn, Effect, Busy
<1>3. /\ m \in DOMAIN line /\ m \in Nat /\ outcome[m] = "none"
      /\ DOMAIN proposals \subseteq Nat /\ proposals \in [DOMAIN proposals -> Proposal]
      /\ DOMAIN line \subseteq Nat
  BY <1>2, TableTypes DEF First, Positions
<1>4. /\ run[r].post = {p \in DOMAIN rows : rows[p].status = "CONFIRMED"}
      /\ proposals' = [p \in DOMAIN proposals \cup DOMAIN rows |->
                         IF p \in DOMAIN rows THEN rows[p] ELSE proposals[p]]
  BY <1>0, <1>1 DEF IInv, OpenWrites, Merged
<1>5. \A p \in DOMAIN proposals :
        /\ p \in DOMAIN line /\ p <= m /\ line[p] = "propose"
        /\ proposals[p].confirmedBy # NULL =>
             /\ proposals[p].confirmedBy \in DOMAIN line /\ proposals[p].confirmedBy <= m
             /\ line[proposals[p].confirmedBy] = "confirm"
  BY <1>3 DEF SInv, Rooted, Ordered
<1>6. Chat!Pending = Pending
  BY DEF Pending, Chat!Pending
<1>7. \A p \in Pending : p \in DOMAIN proposals /\ proposals[p].status = "PENDING" /\ proposals[p].confirmedBy = NULL
  BY DEF Pending, SInv, Rooted
<1>8. CASE DOMAIN rows = {}
  <2>1. proposals' = proposals /\ posted' = posted
    BY <1>1, <1>3, <1>4, <1>8
  <2> QED BY <1>1, <2>1 DEF Chat!avars
<1>9. CASE /\ line[m] = "propose" /\ m \notin DOMAIN proposals
           /\ rows = [p \in Pending \cup {m} |->
                        IF p = m THEN Row("PENDING", NULL) ELSE Row("CANCELLED", NULL)]
  <2>1. Chat!Current(m)
    BY <1>3, <1>5, <1>9 DEF Chat!Current
  <2>2. posted' = posted
    BY <1>1, <1>4, <1>9 DEF Row
  <2>3. \A p \in Pending : [proposals[p] EXCEPT !.status = "CANCELLED"] = Row("CANCELLED", NULL)
    BY <1>3, <1>7 DEF Row, Proposal
  <2>4. proposals' = [p \in DOMAIN proposals \cup {m} |->
                        IF p = m THEN [status |-> "PENDING", confirmedBy |-> NULL]
                        ELSE IF p \in Pending THEN [proposals[p] EXCEPT !.status = "CANCELLED"]
                        ELSE proposals[p]]
    <3>1. DOMAIN proposals \cup DOMAIN rows = DOMAIN proposals \cup {m}
      BY <1>7, <1>9
    <3>2. ASSUME NEW p \in DOMAIN proposals \cup {m}
          PROVE  (IF p \in DOMAIN rows THEN rows[p] ELSE proposals[p]) =
                 (IF p = m THEN [status |-> "PENDING", confirmedBy |-> NULL]
                  ELSE IF p \in Pending THEN [proposals[p] EXCEPT !.status = "CANCELLED"]
                  ELSE proposals[p])
      <4>1. CASE p = m
        BY <1>9, <4>1 DEF Row
      <4>2. CASE p # m /\ p \in Pending
        BY <1>9, <2>3, <4>2
      <4>3. CASE p # m /\ p \notin Pending
        BY <1>9, <4>3
      <4> QED BY <4>1, <4>2, <4>3
    <3> QED BY <1>4, <3>1, <3>2
  <2>5. Chat!Propose(m)
    BY <1>1, <1>6, <1>9, <2>1, <2>2, <2>4 DEF Chat!Propose
  <2> QED BY <1>3, <2>5 DEF Chat!ANext
<1>10. ASSUME line[m] = "confirm", ConfirmedBy(m) = {}, NEW p \in Pending,
              rows = [q \in {p} |-> Row("CONFIRMED", m)]
       PROVE  Chat!ANext
  <2>1. Chat!Current(m)
    BY <1>3, <1>5, <1>10 DEF Chat!Current, ConfirmedBy
  <2>2. posted' = posted \cup {p}
    BY <1>1, <1>4, <1>10 DEF Row
  <2>3. proposals' = [proposals EXCEPT ![p] = [status |-> "CONFIRMED", confirmedBy |-> m]]
    BY <1>3, <1>4, <1>7, <1>10 DEF Row
  <2>4. Chat!Confirm(m)
    BY <1>1, <1>6, <1>10, <2>1, <2>2, <2>3 DEF Chat!Confirm
  <2> QED BY <1>3, <2>4 DEF Chat!ANext
<1>11. ASSUME line[m] = "cancel", NEW p \in Pending, rows = [q \in {p} |-> Row("CANCELLED", NULL)]
       PROVE  Chat!ANext
  <2>1. Chat!Current(m)
    BY <1>3, <1>5, <1>11 DEF Chat!Current
  <2>2. posted' = posted
    BY <1>1, <1>4, <1>11 DEF Row
  <2>3. [proposals[p] EXCEPT !.status = "CANCELLED"] = Row("CANCELLED", NULL)
    BY <1>3, <1>7 DEF Row, Proposal
  <2>4. proposals' = [proposals EXCEPT ![p].status = "CANCELLED"]
    BY <1>3, <1>4, <1>7, <1>11, <2>3
  <2>5. Chat!Cancel(m)
    BY <1>1, <1>6, <1>11, <2>1, <2>2, <2>4 DEF Chat!Cancel
  <2> QED BY <1>3, <2>5 DEF Chat!ANext
<1> QED BY <1>2, <1>8, <1>9, <1>10, <1>11 DEF Intended

LEMMA ReceiveSpeaks == ASSUME IInv, Receive PROVE Chat!ANext
<1>1. PICK kind \in Kinds : line' = Append(line, kind)
  BY DEF Receive
<1>2. line \in Seq(Kinds)
  BY DEF IInv, TypeOK
<1>3. Len(line') = Len(line) + 1 /\ \A i \in DOMAIN line : line'[i] = line[i]
  BY <1>1, <1>2
<1> QED BY <1>3 DEF Receive, Chat!ANext, Chat!Say

LEMMA ChatSteps ==
  ASSUME IInv, SInv, [Next]_vars
  PROVE  [Chat!ANext]_Chat!avars
<1>1. CASE UNCHANGED <<line, proposals, posted>>
  BY <1>1 DEF Chat!avars
<1>2. CASE Receive
  BY <1>2, ReceiveSpeaks
<1>3. ASSUME NEW r \in Runs, Commit(r) \/ CommitUnacknowledged(r)
      PROVE  [Chat!ANext]_Chat!avars
  <2>1. Chat!ANext \/ UNCHANGED Chat!avars
    BY <1>3, CommitSpeaks
  <2> QED BY <2>1
<1>4. ASSUME NEW r \in Runs, Claim(r) \/ Crash(r) \/ AnswerQuery(r) \/ Lock(r)
      PROVE  UNCHANGED <<line, proposals, posted>>
  BY <1>4 DEF Claim, Crash, AnswerQuery, Lock
<1>5. ASSUME NEW r \in Runs, Parse(r)
      PROVE  UNCHANGED <<line, proposals, posted>>
  BY <1>5 DEF Parse, CancelPending, ConfirmPending, StoreProposal, Unrecognized, Written
<1>6. ASSUME NEW r \in Runs, Throw(r) \/ Finalize(r) \/ Record(r) \/ Reply(r)
      PROVE  UNCHANGED <<line, proposals, posted>>
  BY <1>6 DEF Throw, Finalize, Record, Reply
<1>7. CASE Stall \/ UNCHANGED vars
  BY <1>1, <1>7 DEF Stall, vars
<1>8. CASE Next
  BY <1>1, <1>2, <1>3, <1>4, <1>5, <1>6, <1>7, <1>8 DEF Next
<1> QED BY <1>7, <1>8

LEMMA ConversationStep ==
  ASSUME IInv, stalls = 0 => SInv, [Next]_vars
  PROVE  stalls' = 0 => Chat!ANext \/ UNCHANGED Chat!avars
<1>1. stalls' = 0 => stalls = 0
  BY StallsGrow DEF IInv, TypeOK
<1>2. SInv => [Chat!ANext]_Chat!avars
  BY ChatSteps
<1> QED BY <1>1, <1>2

\* The conversation is the one the assistant promises: what the sender says takes effect
\* in the order it was said or not at all, a confirmation confirms what was pending when
\* its turn came and posts it in the same step, at every step until an owner outlives its
\* lease (claimMessage, parseAndPost).
THEOREM ConversationInOrder == Spec => InConversationOrder
<1>1. Init => Chat!AInit
  BY NoRowsType DEF Init, Chat!AInit
<1>2. IInv /\ (stalls = 0 => SInv) /\ [Next]_vars =>
        [stalls' = 0 => Chat!ANext \/ UNCHANGED Chat!avars]_vars
  BY ConversationStep
<1> QED BY <1>1, <1>2, InductiveInvariant, TurnsInvariant, PTL DEF Spec, InConversationOrder

\* A behaviour in which no owner outlives its lease implements the whole conversation.
THEOREM ConversationImplemented == Spec /\ [](stalls = 0) => Chat!Spec
<1>1. Init => Chat!AInit
  BY NoRowsType DEF Init, Chat!AInit
<1>2. IInv /\ SInv /\ [Next]_vars => [Chat!ANext]_Chat!avars
  BY ChatSteps
<1> QED BY <1>1, <1>2, InductiveInvariant, TurnsInvariant, PTL DEF Spec, Chat!Spec
=============================================================================
