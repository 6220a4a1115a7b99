------------------------------ MODULE Proposals ------------------------------
(***************************************************************************)
(* From a message to the ledger: what the processing of one sender's       *)
(* messages does to the proposals of the business and to its ledger        *)
(* (ParsingService.parseAndPost), under the claims and retries of the      *)
(* queue (IngestionService).                                               *)
(*                                                                         *)
(* The queue is reduced to one sender: line holds the messages in the      *)
(* order of their sequence numbers, and the first unfinished one is the    *)
(* only one that can be claimed (InboundQueue shows that of claimMessage). *)
(* A message is named by its position.  A proposal is named by the message *)
(* it came from (UQ_transaction_proposals_business_source), its ledger     *)
(* transaction by the proposal (idempotency key proposal:<id>).            *)
(***************************************************************************)
EXTENDS Integers, Sequences, FiniteSets

CONSTANTS
  Runs,         \* invocations of processMessage in progress at a time
  MaxAttempts,  \* MAX_ATTEMPTS
  MaxLength,    \* bound: messages the sender sends
  MaxFaults,    \* bound: crashes, lost acknowledgements and stalls
  MaxStalls,    \* bound: stalls, by which owners outlive their lease
  NULL

VARIABLES
  line,       \* the messages of the sender, by what they ask for
  outcome,    \* per message: none yet, PROCESSED or DEAD
  attempts,   \* per message: failures recorded
  owner,      \* the run whose token is on the first unfinished message
  expired,    \* whether its lease has run out
  run,        \* per run: where it is, its message, its open writes, its answer
  proposals,  \* committed rows of transaction_proposals
  posted,     \* proposals whose transaction is committed
  sent,       \* per message: the answer the sender got
  faults, stalls

vars == <<line, outcome, attempts, owner, expired, run, proposals, posted, sent,
          faults, stalls>>

\* propose: a text parseTransactionText recognises; other: anything it does not,
\* questions for ConversationalQueryService included.
Kinds == {"propose", "confirm", "cancel", "other"}
Positions == 1..MaxLength

ASSUME BoundAssumption ==
  /\ MaxAttempts \in Nat \ {0} /\ MaxLength \in Nat
  /\ MaxFaults \in Nat /\ MaxStalls \in Nat
ASSUME NullAssumption == NULL \notin Runs /\ NULL \notin Nat

Proposal == [status : {"PENDING", "CONFIRMED", "CANCELLED"},
             confirmedBy : Positions \cup {NULL}]

NoRows == [p \in {} |-> NULL]
Said(status, p) == [status |-> status, proposal |-> p]
NoAnswer == Said("none", NULL)
IdleRun == [pc |-> "idle", msg |-> NULL, rows |-> NoRows, post |-> {}, answer |-> NoAnswer]

Init ==
  /\ line = <<>>
  /\ outcome = [m \in Positions |-> "none"]
  /\ attempts = [m \in Positions |-> 0]
  /\ owner = NULL /\ expired = FALSE
  /\ run = [r \in Runs |-> IdleRun]
  /\ proposals = NoRows /\ posted = {}
  /\ sent = [m \in Positions |-> NoAnswer]
  /\ faults = 0 /\ stalls = 0

-----------------------------------------------------------------------------
(* The queue of the sender.                                                *)

Receive ==
  /\ Len(line) < MaxLength
  /\ \E kind \in Kinds : line' = Append(line, kind)
  /\ UNCHANGED <<outcome, attempts, owner, expired, run, proposals, posted, sent, faults, stalls>>

\* Mutant: an earlier message need not be finished.
First_Any == {m \in DOMAIN line : outcome[m] = "none"}

\* The first unfinished message, if any.
First == {m \in DOMAIN line : /\ outcome[m] = "none"
                              /\ \A n \in 1..(m - 1) : outcome[n] # "none"}

\* claimMessage succeeds: unclaimed, or the lease of its owner has expired.
Claim(r) ==
  /\ run[r].pc = "idle" /\ (owner = NULL \/ expired)
  /\ \E m \in First : run' = [run EXCEPT ![r].pc = "core", ![r].msg = m]
  /\ owner' = r /\ expired' = FALSE
  /\ UNCHANGED <<line, outcome, attempts, proposals, posted, sent, faults, stalls>>

\* The lease of a live owner runs out.
Stall ==
  /\ owner # NULL /\ ~expired /\ stalls < MaxStalls /\ faults + stalls < MaxFaults
  /\ expired' = TRUE /\ stalls' = stalls + 1
  /\ UNCHANGED <<line, outcome, attempts, owner, run, proposals, posted, sent, faults>>

\* The process of a run dies, and its open transaction with it.
Crash(r) ==
  /\ run[r].pc # "idle" /\ faults + stalls < MaxFaults
  /\ run' = [run EXCEPT ![r] = IdleRun]
  /\ expired' = (expired \/ owner = r)
  /\ faults' = faults + 1
  /\ UNCHANGED <<line, outcome, attempts, owner, proposals, posted, sent, stalls>>

-----------------------------------------------------------------------------
(* parseAndPost, one database transaction under the lock of the business.  *)

InTransaction(r) == run[r].pc \in {"locked", "commit"}

\* withProposalLock: BEGIN and the advisory lock of the business.
Lock(r) ==
  /\ run[r].pc = "core"
  /\ \A q \in Runs : ~InTransaction(q)
  /\ run' = [run EXCEPT ![r].pc = "locked"]
  /\ UNCHANGED <<line, outcome, attempts, owner, expired, proposals, posted, sent, faults, stalls>>

\* The statements of the callback have run; what they wrote is not committed yet.
Written(r, rows, post, answer) ==
  /\ run' = [run EXCEPT ![r].pc = "commit", ![r].rows = rows, ![r].post = post,
                        ![r].answer = answer]
  /\ UNCHANGED <<line, outcome, attempts, owner, expired, proposals, posted, sent, faults, stalls>>

Pending == {p \in DOMAIN proposals : proposals[p].status = "PENDING"}

Row(status, m) == [status |-> status, confirmedBy |-> m]

\* proposalResult: the answer for a proposal that is stored already.
ProposalResult(p) ==
  Said(IF proposals[p].status = "CONFIRMED" THEN "POSTED"
       ELSE IF proposals[p].status = "CANCELLED" THEN "CANCELLED" ELSE "PROPOSED", p)

\* cancelPendingProposal
CancelPending(r) ==
  /\ run[r].pc = "locked" /\ line[run[r].msg] = "cancel"
  /\ \/ Pending = {} /\ Written(r, NoRows, {}, Said("NO_PENDING", NULL))
     \/ \E p \in Pending : Written(r, [q \in {p} |-> Row("CANCELLED", NULL)], {}, Said("CANCELLED", p))

\* Mutant: a retried confirmation is not recognised.
ConfirmedBy_Forgotten(m) == {}

\* The proposal a message has confirmed already.
ConfirmedBy(m) == {p \in DOMAIN proposals : proposals[p].confirmedBy = m}

\* confirmPendingProposal, with the post of postTransactionWithManager in the same
\* transaction; a transaction the key already names is returned as it is.
ConfirmPending(r) ==
  LET m == run[r].msg IN
  /\ run[r].pc = "locked" /\ line[m] = "confirm"
  /\ \/ \E p \in ConfirmedBy(m) : Written(r, NoRows, {}, ProposalResult(p))
     \/ /\ ConfirmedBy(m) = {}
        /\ \/ Pending = {} /\ Written(r, NoRows, {}, Said("NO_PENDING", NULL))
           \/ \E p \in Pending : Written(r, [q \in {p} |-> Row("CONFIRMED", m)], {p}, Said("POSTED", p))

\* A recognised text: its proposal is stored once and cancels the pending one.
StoreProposal(r) ==
  LET m == run[r].msg IN
  /\ run[r].pc = "locked" /\ line[m] = "propose"
  /\ IF m \in DOMAIN proposals
     THEN Written(r, NoRows, {}, ProposalResult(m))
     ELSE Written(r, [p \in Pending \cup {m} |->
                        IF p = m THEN Row("PENDING", NULL) ELSE Row("CANCELLED", NULL)],
                  {}, Said("PROPOSED", m))

Unrecognized(r) ==
  /\ run[r].pc = "locked" /\ line[run[r].msg] = "other"
  /\ Written(r, NoRows, {}, Said("UNRECOGNIZED", NULL))

\* What the tables hold once the writes of a run are committed.
Merged(r) == [p \in DOMAIN proposals \cup DOMAIN run[r].rows |->
                IF p \in DOMAIN run[r].rows THEN run[r].rows[p] ELSE proposals[p]]

\* The unique indexes of transaction_proposals.
Indexed(rows) ==
  \A p, q \in DOMAIN rows : p # q =>
    /\ ~(rows[p].status = "PENDING" /\ rows[q].status = "PENDING")
    /\ rows[p].confirmedBy # NULL => rows[p].confirmedBy # rows[q].confirmedBy

\* enforce_confirmed_proposal_transaction: a confirmed row has its transaction.
Backed(r) == \A p \in DOMAIN run[r].rows :
               run[r].rows[p].status = "CONFIRMED" => p \in posted \cup run[r].post

Publish(r) ==
  /\ run[r].pc = "commit" /\ Indexed(Merged(r)) /\ Backed(r)
  /\ proposals' = Merged(r) /\ posted' = posted \cup run[r].post

Closed(r, pc, answer) ==
  run' = [run EXCEPT ![r].pc = pc, ![r].rows = NoRows, ![r].post = {}, ![r].answer = answer]

Commit(r) ==
  /\ Publish(r) /\ Closed(r, "parsed", run[r].answer)
  /\ UNCHANGED <<line, outcome, attempts, owner, expired, sent, faults, stalls>>

\* COMMIT is applied and its acknowledgement is lost.
CommitUnacknowledged(r) ==
  /\ Publish(r) /\ Closed(r, "failed", NoAnswer)
  /\ faults + stalls < MaxFaults /\ faults' = faults + 1
  /\ UNCHANGED <<line, outcome, attempts, owner, expired, sent, stalls>>

\* Mutant: the ledger post has a transaction of its own.
Throw_PostKept(r) ==
  /\ run[r].pc \in {"core", "locked", "commit"}
  /\ posted' = posted \cup run[r].post
  /\ Closed(r, "failed", NoAnswer)
  /\ UNCHANGED <<line, outcome, attempts, owner, expired, proposals, sent, faults, stalls>>

\* Any step before the commit may fail; the transaction is rolled back.
Throw(r) ==
  /\ run[r].pc \in {"core", "locked", "commit"}
  /\ Closed(r, "failed", NoAnswer)
  /\ UNCHANGED <<line, outcome, attempts, owner, expired, proposals, posted, sent, faults, stalls>>

\* A question the query service answers: parseAndPost is not called.
AnswerQuery(r) ==
  /\ run[r].pc = "core" /\ line[run[r].msg] = "other"
  /\ Closed(r, "parsed", Said("UNRECOGNIZED", NULL))
  /\ UNCHANGED <<line, outcome, attempts, owner, expired, proposals, posted, sent, faults, stalls>>

-----------------------------------------------------------------------------
(* The end of processMessageCore.                                          *)

\* The claim token is still this run's.
Fenced(r) == owner = r

\* The update to PROCESSED; without the claim the run ends silently.
Finalize(r) ==
  /\ run[r].pc = "parsed"
  /\ IF Fenced(r)
     THEN /\ outcome' = [outcome EXCEPT ![run[r].msg] = "PROCESSED"]
          /\ owner' = NULL /\ expired' = FALSE
          /\ run' = [run EXCEPT ![r].pc = "reply"]
     ELSE run' = [run EXCEPT ![r] = IdleRun] /\ UNCHANGED <<outcome, owner, expired>>
  /\ UNCHANGED <<line, attempts, proposals, posted, sent, faults, stalls>>

\* Mutant: one attempt too many.
Exhausted_Late(n) == n > MaxAttempts

Exhausted(n) == n >= MaxAttempts

\* recordFailure
Record(r) ==
  /\ run[r].pc = "failed"
  /\ LET m == run[r].msg IN
     IF Fenced(r)
     THEN /\ attempts' = [attempts EXCEPT ![m] = @ + 1]
          /\ outcome' = [outcome EXCEPT ![m] = IF Exhausted(attempts[m] + 1) THEN "DEAD" ELSE @]
          /\ owner' = NULL /\ expired' = FALSE
     ELSE UNCHANGED <<attempts, outcome, owner, expired>>
  /\ run' = [run EXCEPT ![r] = IdleRun]
  /\ UNCHANGED <<line, proposals, posted, sent, faults, stalls>>

\* The reply arrives, or is lost and not tried again.
Reply(r) ==
  /\ run[r].pc = "reply"
  /\ \/ sent' = [sent EXCEPT ![run[r].msg] = run[r].answer]
     \/ sent' = sent
  /\ run' = [run EXCEPT ![r] = IdleRun]
  /\ UNCHANGED <<line, outcome, attempts, owner, expired, proposals, posted, faults, stalls>>

Parse(r) == CancelPending(r) \/ ConfirmPending(r) \/ StoreProposal(r) \/ Unrecognized(r)

Next ==
  \/ Receive \/ Stall
  \/ \E r \in Runs :
       \/ Claim(r) \/ Crash(r)
       \/ AnswerQuery(r) \/ Lock(r) \/ Parse(r)
       \/ Commit(r) \/ CommitUnacknowledged(r) \/ Throw(r)
       \/ Finalize(r) \/ Record(r) \/ Reply(r)

Spec == Init /\ [][Next]_vars

-----------------------------------------------------------------------------
(* Properties.                                                             *)

\* Rows of the table, by id.
Rows == UNION {[ids -> Proposal] : ids \in SUBSET Positions}

Answer == [status : {"none", "PROPOSED", "POSTED", "CANCELLED", "NO_PENDING", "UNRECOGNIZED"},
           proposal : Positions \cup {NULL}]

\* Type invariant; a message is tried at most MAX_ATTEMPTS times.
TypeOK ==
  /\ line \in Seq(Kinds) /\ Len(line) <= MaxLength
  /\ outcome \in [Positions -> {"none", "PROCESSED", "DEAD"}]
  /\ attempts \in [Positions -> 0..MaxAttempts]
  /\ owner \in Runs \cup {NULL} /\ expired \in BOOLEAN
  /\ run \in [Runs -> [pc : {"idle", "core", "locked", "commit", "failed", "parsed", "reply"},
                       msg : Positions \cup {NULL}, rows : Rows,
                       post : SUBSET Positions, answer : Answer]]
  /\ \A r \in Runs : run[r].pc # "idle" => run[r].msg \in DOMAIN line
  /\ proposals \in Rows
  /\ posted \subseteq Positions
  /\ sent \in [Positions -> Answer]
  /\ faults \in 0..MaxFaults /\ stalls \in 0..MaxStalls

\* A proposal is CONFIRMED exactly when the ledger holds its transaction: the two
\* are written together or not at all, and a retry after a lost acknowledgement
\* neither posts again nor leaves a transaction without its proposal
\* (confirmPendingProposal's caller-managed transaction).
ConfirmedIffPosted ==
  posted = {p \in DOMAIN proposals : proposals[p].status = "CONFIRMED"}

\* What an answer to message m claims, against the rows and the transactions of a
\* moment: PROPOSED for the proposal of that very message, POSTED for a proposal
\* that message has confirmed, CANCELLED for an earlier one that is cancelled, and
\* a confirmation that is told nothing was pending has confirmed nothing.
Truthful(rows, txns, m, answer) ==
  LET p == answer.proposal IN
  /\ answer.status = "PROPOSED" => line[m] = "propose" /\ p = m /\ m \in DOMAIN rows
  /\ answer.status = "POSTED" => p \in txns /\ p \in DOMAIN rows /\ rows[p].confirmedBy = m
  /\ answer.status = "CANCELLED" => p \in DOMAIN rows /\ p < m /\ rows[p].status = "CANCELLED"
  /\ answer.status = "NO_PENDING" /\ line[m] = "confirm" =>
       \A q \in DOMAIN rows : rows[q].confirmedBy # m

\* What the sender is told is so, and stays so - also when an earlier attempt committed
\* and lost its acknowledgement - until an owner outlives its lease.
RepliesTruthful == stalls = 0 => \A m \in DOMAIN line : Truthful(proposals, posted, m, sent[m])

\* The abstract conversation: what the sender says takes effect in the order it was said,
\* each message at most once, whatever is retried or given up.  Every step implements a
\* step of it until an owner outlives its lease, when ConfirmedLater may fail.
Chat == INSTANCE Conversation
InConversationOrder ==
  Chat!AInit /\ [][stalls' = 0 => Chat!ANext \/ UNCHANGED Chat!avars]_vars

\* What migrations/1700000007000-TransactionProposals.ts:5-6 says: "the ledger is
\* only written after a later explicit WhatsApp confirmation", so the message that
\* confirms a proposal comes after the message it was parsed from.
ConfirmedLater ==
  \A p \in DOMAIN proposals : proposals[p].confirmedBy # NULL => proposals[p].confirmedBy > p

-----------------------------------------------------------------------------
(* The inductive invariant behind the first two (ProposalProofs).          *)

\* The lock of the business.
OneTransaction == \A r, q \in Runs : InTransaction(r) /\ InTransaction(q) => r = q

\* What an open transaction holds: nothing before its statements have run; then
\* new rows and pending ones, and a post for each row it confirms.
OpenWrites ==
  \A r \in Runs :
    /\ run[r].pc # "commit" => DOMAIN run[r].rows = {} /\ run[r].post = {}
    /\ run[r].pc = "commit" =>
         /\ run[r].post = {p \in DOMAIN run[r].rows : run[r].rows[p].status = "CONFIRMED"}
         /\ \A p \in DOMAIN run[r].rows \cap DOMAIN proposals : p \in Pending

\* The attempts of a message that is not given up leave room for another.
Tries ==
  \A m \in Positions : outcome[m] = "none" => attempts[m] < MaxAttempts

\* Whoever holds the claim holds it on a message that is not finished.
Claimed ==
  \A r \in Runs : owner = r /\ run[r].pc # "idle" => outcome[run[r].msg] = "none"

IInv == TypeOK /\ ConfirmedIffPosted /\ OneTransaction /\ OpenWrites /\ Tries /\ Claimed

-----------------------------------------------------------------------------
(* The inductive invariant behind the other two, as long as no owner has   *)
(* outlived its lease (ProposalProofs).                                    *)

Busy(r) == run[r].pc \notin {"idle", "reply"}

\* The only run in parseAndPost or around it is the one that holds the claim.
Sole ==
  \A r \in Runs : /\ Busy(r) => owner = r /\ ~expired
                  /\ run[r].pc = "reply" => owner # r

\* A message is worked on when all before it are finished, and answered when it is.
InTurn ==
  \A r \in Runs : /\ Busy(r) => run[r].msg \in First
                  /\ run[r].pc = "reply" => outcome[run[r].msg] # "none"

\* Proposals come from descriptions and are confirmed by later confirmations.
Rooted ==
  \A p \in DOMAIN proposals :
    LET c == proposals[p].confirmedBy IN
    /\ p \in DOMAIN line /\ line[p] = "propose"
    /\ c # NULL <=> proposals[p].status = "CONFIRMED"
    /\ c # NULL => c \in DOMAIN line /\ line[c] = "confirm" /\ p < c

\* Nothing has been done for a message beyond an unfinished one, and the proposal
\* of an unfinished one is still pending.
Ordered ==
  \A p \in DOMAIN proposals, m \in DOMAIN line : outcome[m] = "none" =>
    LET c == proposals[p].confirmedBy IN
    /\ p <= m /\ (c # NULL => c <= m)
    /\ p = m => p \in Pending

\* What an open transaction will do to the tables: nothing, or what its message asks.
Intended(m, rows) ==
  \/ DOMAIN rows = {}
  \/ /\ line[m] = "propose" /\ m \notin DOMAIN proposals
     /\ rows = [p \in Pending \cup {m} |->
                  IF p = m THEN Row("PENDING", NULL) ELSE Row("CANCELLED", NULL)]
  \/ /\ line[m] = "confirm" /\ ConfirmedBy(m) = {}
     /\ \E p \in Pending : rows = [q \in {p} |-> Row("CONFIRMED", m)]
  \/ /\ line[m] = "cancel"
     /\ \E p \in Pending : rows = [q \in {p} |-> Row("CANCELLED", NULL)]

Effect == \A r \in Runs : run[r].pc = "commit" => Intended(run[r].msg, run[r].rows)

\* The answers on their way hold once what they wait for is committed.
Answers ==
  \A r \in Runs :
    /\ run[r].pc = "commit" => Truthful(Merged(r), posted \cup run[r].post, run[r].msg, run[r].answer)
    /\ run[r].pc \in {"parsed", "reply"} => Truthful(proposals, posted, run[r].msg, run[r].answer)

\* Only a finished message has its answer, and that answer is true.
Told ==
  \A m \in Positions : sent[m].status # "none" =>
    m \in DOMAIN line /\ outcome[m] # "none" /\ Truthful(proposals, posted, m, sent[m])

SInv == Sole /\ InTurn /\ Rooted /\ Ordered /\ Effect /\ Answers /\ Told
SInvUnstalled == stalls = 0 => SInv
=============================================================================
