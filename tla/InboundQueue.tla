---------------------------- MODULE InboundQueue ----------------------------
(***************************************************************************)
(* The durable queue of WhatsApp messages: the webhook handler stores each *)
(* message once and hands it to processMessage; claims with a token and a  *)
(* lease decide which processor may finish it; the recovery worker of each *)
(* process retries what was dropped, has failed or has lost its lease      *)
(* (IngestionService, RecoveryService, GracefulShutdownService).           *)
(*                                                                         *)
(* Application processes share one PostgreSQL database.  A database        *)
(* statement is one action.  What a message means to the business (parsing,*)
(* posting) is the outcome of one step here, which may fail.               *)
(***************************************************************************)
EXTENDS Integers, FiniteSets

CONSTANTS
  Messages,     \* WhatsApp message ids
  Senders, Sender,  \* WhatsApp numbers, and the sender of each message
  Deliveries,   \* webhook deliveries, redeliveries included
  MessageOf,    \* the message a delivery carries
  Processes,    \* application processes
  Runs,         \* invocations of processMessage in progress at a time
  MaxAttempts,  \* MAX_ATTEMPTS
  BatchSize,    \* rows a recovery cycle takes
  Connections,  \* database connections, which bound the open transactions
  MaxFaults,    \* bound: crashes, shutdowns, stalls and lost statements of a behaviour
  NULL

VARIABLES
  rows,     \* committed rows of inbound_messages, by message
  txn,      \* per delivery: its storing transaction
  nextSeq,  \* the sequence behind ingest_sequence
  clock,    \* the database clock, as far as received_at is concerned
  run,      \* per run: where processMessage is and what it holds
  handoff,  \* per process: messages stored and not yet started
  batch,    \* per process: rows its recovery cycle has still to try
  awaited,  \* per process: the run its recovery cycle waits for
  state,    \* per process: up, draining or down
  faults,   \* faults so far
  replies,  \* per message: replies the sender has got
  failures  \* per message: failures written to its row

vars == <<rows, txn, nextSeq, clock, run, handoff, batch, awaited, state, faults,
          replies, failures>>

ASSUME SenderAssumption == Sender \in [Messages -> Senders]
ASSUME DeliveryAssumption == MessageOf \in [Deliveries -> Messages]
ASSUME BoundAssumption ==
  MaxAttempts \in Nat \ {0} /\ BatchSize \in Nat \ {0} /\ MaxFaults \in Nat
ASSUME NullAssumption == NULL \notin Runs

Terminal == {"PROCESSED", "DEAD"}

NoTxn == [pc |-> "new", host |-> NULL, at |-> 0, seq |-> 0]
EndedTxn == [NoTxn EXCEPT !.pc = "over"]
IdleRun == [pc |-> "idle", msg |-> NULL, attempts |-> 0, host |-> NULL]

Init ==
  /\ rows = [m \in {} |-> NULL]
  /\ txn = [d \in Deliveries |-> NoTxn]
  /\ nextSeq = 1 /\ clock = 1
  /\ run = [r \in Runs |-> IdleRun]
  /\ handoff = [p \in Processes |-> {}]
  /\ batch = [p \in Processes |-> {}]
  /\ awaited = [p \in Processes |-> NULL]
  /\ state = [p \in Processes |-> "up"]
  /\ faults = 0
  /\ replies = [m \in Messages |-> 0]
  /\ failures = [m \in Messages |-> 0]

SameSender(m, n) == Sender[m] = Sender[n]

-----------------------------------------------------------------------------
(* Storing (storeIdempotent).                                              *)

Open == {d \in Deliveries : txn[d].pc \in {"begun", "inserted"}}

\* BEGIN, which fixes received_at, the column's default now().
StoreBegin(d, p) ==
  /\ txn[d].pc = "new" /\ state[p] # "down"
  /\ Cardinality(Open) < Connections
  /\ txn' = [txn EXCEPT ![d] = [pc |-> "begun", host |-> p, at |-> clock, seq |-> 0]]
  /\ clock' = clock + 1
  /\ UNCHANGED <<rows, nextSeq, run, handoff, batch, awaited, state, faults, replies, failures>>

\* Mutant: no advisory lock on the sender.
SenderLockFree_Always(d) == TRUE

\* The advisory lock of the sender, held until the end of the transaction.
SenderLockFree(d) ==
  \A e \in Deliveries : txn[e].pc = "inserted" => ~SameSender(MessageOf[d], MessageOf[e])

\* The INSERT, which draws ingest_sequence and is not yet visible to others; a
\* duplicate meets UQ_inbound_messages_wa_message_id and ends the transaction.
StoreInsert(d) ==
  /\ txn[d].pc = "begun" /\ SenderLockFree(d)
  /\ txn' = [txn EXCEPT ![d] = IF MessageOf[d] \in DOMAIN rows THEN EndedTxn
                               ELSE [@ EXCEPT !.pc = "inserted", !.seq = nextSeq]]
  /\ nextSeq' = nextSeq + 1
  /\ UNCHANGED <<rows, clock, run, handoff, batch, awaited, state, faults, replies, failures>>

NewRow(d) == [seq |-> txn[d].seq, receivedAt |-> txn[d].at, status |-> "RECEIVED",
              due |-> FALSE, token |-> NULL, attempts |-> 0, linked |-> FALSE]

\* COMMIT; the handler then schedules processMessage (setImmediate).
StoreCommit(d) ==
  /\ txn[d].pc = "inserted"
  /\ LET m == MessageOf[d] IN
     /\ rows' = [n \in DOMAIN rows \cup {m} |-> IF n = m THEN NewRow(d) ELSE rows[n]]
     /\ handoff' = [handoff EXCEPT ![txn[d].host] = @ \cup {m}]
  /\ txn' = [txn EXCEPT ![d] = EndedTxn]
  /\ UNCHANGED <<nextSeq, clock, run, batch, awaited, state, faults, replies, failures>>

-----------------------------------------------------------------------------
(* Processing (processMessage).                                            *)

\* processMessage: refused while the process drains, tracked otherwise.
Begin(p, m, r) ==
  /\ state[p] = "up" /\ run[r].pc = "idle"
  /\ run' = [run EXCEPT ![r] = [pc |-> "claim", msg |-> m, attempts |-> 0, host |-> p]]

\* The scheduled call runs; a draining process drops it.
StartHandoff(p) ==
  /\ \E m \in handoff[p] :
       /\ handoff' = [handoff EXCEPT ![p] = @ \ {m}]
       /\ \/ \E r \in Runs : Begin(p, m, r)
          \/ state[p] = "draining" /\ run' = run
  /\ UNCHANGED <<rows, txn, nextSeq, clock, batch, awaited, state, faults, replies, failures>>

\* Mutant: only unclaimed messages of the sender are looked at.
Blocking_Unclaimed == {"RECEIVED", "FAILED"}

\* Mutant: a message nobody has started yet does not block.
Blocking_Started == {"PROCESSING", "FAILED"}

\* The statuses of an earlier message that keep its sender's later ones waiting.
Blocking == {"RECEIVED", "PROCESSING", "FAILED"}

\* The WHERE clause of claimMessage.  due stands for the time condition of the
\* status: the backoff of FAILED or the lease of PROCESSING has run out.
Claimable(m) ==
  /\ rows[m].status = "RECEIVED" \/ (rows[m].status \in {"FAILED", "PROCESSING"} /\ rows[m].due)
  /\ ~\E n \in DOMAIN rows : /\ SameSender(n, m) /\ rows[n].seq < rows[m].seq
                             /\ rows[n].status \in Blocking

\* The processing of a run is over; a recovery cycle that awaited it goes on.
End(r) ==
  /\ run' = [run EXCEPT ![r] = IdleRun]
  /\ awaited' = [p \in Processes |-> IF awaited[p] = r THEN NULL ELSE awaited[p]]

\* claimMessage.  A run's slot serves as its claim token: two runs in progress
\* never share one, as two uuids never collide.
Claim(r) ==
  /\ run[r].pc = "claim"
  /\ LET m == run[r].msg IN
     IF Claimable(m)
     THEN /\ rows' = [rows EXCEPT ![m].status = "PROCESSING", ![m].due = FALSE, ![m].token = r]
          /\ run' = [run EXCEPT ![r].pc = "core", ![r].attempts = rows[m].attempts]
          /\ UNCHANGED awaited
     ELSE End(r) /\ UNCHANGED rows
  /\ UNCHANGED <<txn, nextSeq, clock, handoff, batch, state, faults, replies, failures>>

\* Mutant: the updates name the row and its status, not the token.
Fenced_StatusOnly(r) == rows[run[r].msg].status = "PROCESSING"

\* Mutant: the updates name the row only.
Fenced_Unconditional(r) == TRUE

\* WHERE id, status = PROCESSING, claim_token: the row is still this run's.
Fenced(r) == rows[run[r].msg].status = "PROCESSING" /\ rows[run[r].msg].token = r

\* Mutant: the claim token is not cleared.
Released_Token(row, status) == [row EXCEPT !.status = status, !.due = FALSE]

Released(row, status) == [row EXCEPT !.status = status, !.due = FALSE, !.token = NULL]

\* Onboarding, query or parsing succeed; then the update to PROCESSED, which also
\* links the business.  Without the claim the run ends silently.
Finalize(r) ==
  /\ run[r].pc = "core"
  /\ IF Fenced(r)
     THEN /\ rows' = [rows EXCEPT ![run[r].msg] = [Released(@, "PROCESSED") EXCEPT !.linked = TRUE]]
          /\ run' = [run EXCEPT ![r].pc = "reply"]
          /\ UNCHANGED awaited
     ELSE End(r) /\ UNCHANGED rows
  /\ UNCHANGED <<txn, nextSeq, clock, handoff, batch, state, faults, replies, failures>>

\* The update is applied and its answer is lost: recordFailure then finds no
\* claim to release, and nothing is replied.
FinalizeUnacknowledged(r) ==
  /\ run[r].pc = "core" /\ Fenced(r) /\ faults < MaxFaults
  /\ faults' = faults + 1
  /\ rows' = [rows EXCEPT ![run[r].msg] = [Released(@, "PROCESSED") EXCEPT !.linked = TRUE]]
  /\ End(r)
  /\ UNCHANGED <<txn, nextSeq, clock, handoff, batch, state, replies, failures>>

\* Onboarding, query, parsing or the update throw: recordFailure, with the
\* attempts read when the row was claimed.
Record(r) ==
  /\ run[r].pc = "core"
  /\ LET m == run[r].msg
         attempts == run[r].attempts + 1
     IN IF Fenced(r)
        THEN /\ rows' = [rows EXCEPT ![m] =
                 [Released(@, IF attempts >= MaxAttempts THEN "DEAD" ELSE "FAILED")
                    EXCEPT !.attempts = attempts]]
             /\ failures' = [failures EXCEPT ![m] = @ + 1]
        ELSE UNCHANGED <<rows, failures>>
  /\ End(r)
  /\ UNCHANGED <<txn, nextSeq, clock, handoff, batch, state, faults, replies>>

\* The update of recordFailure fails, and its error is swallowed.
RecordLost(r) ==
  /\ run[r].pc = "core" /\ faults < MaxFaults
  /\ faults' = faults + 1
  /\ End(r)
  /\ UNCHANGED <<rows, txn, nextSeq, clock, handoff, batch, state, replies, failures>>

\* The reply, which may fail to be sent and is not tried again.
Reply(r) ==
  /\ run[r].pc = "reply"
  /\ \E sent \in {0, 1} : replies' = [replies EXCEPT ![run[r].msg] = @ + sent]
  /\ End(r)
  /\ UNCHANGED <<rows, txn, nextSeq, clock, handoff, batch, state, faults, failures>>

-----------------------------------------------------------------------------
(* Time.                                                                   *)

Owners(m) == {r \in Runs : run[r].pc = "core" /\ run[r].msg = m /\ rows[m].token = r}

\* A RECEIVED row is past the grace window, the backoff of a FAILED one is over,
\* or the lease of a PROCESSING one has expired with nobody to renew it.
Lapse(m) ==
  /\ m \in DOMAIN rows /\ ~rows[m].due /\ rows[m].status \notin Terminal
  /\ rows[m].status = "PROCESSING" => Owners(m) = {}
  /\ rows' = [rows EXCEPT ![m].due = TRUE]
  /\ UNCHANGED <<txn, nextSeq, clock, run, handoff, batch, awaited, state, faults, replies,
                 failures>>

\* The owner stalls, or its heartbeats fail, for longer than its lease.
Stall(m) ==
  /\ m \in DOMAIN rows /\ rows[m].status = "PROCESSING" /\ ~rows[m].due
  /\ Owners(m) # {} /\ faults < MaxFaults
  /\ faults' = faults + 1
  /\ rows' = [rows EXCEPT ![m].due = TRUE]
  /\ UNCHANGED <<txn, nextSeq, clock, run, handoff, batch, awaited, state, replies, failures>>

\* The heartbeat of a run that is still the owner renews an expired lease.
Heartbeat(r) ==
  /\ run[r].pc = "core"
  /\ Fenced(r) /\ rows[run[r].msg].due
  /\ rows' = [rows EXCEPT ![run[r].msg].due = FALSE]
  /\ UNCHANGED <<txn, nextSeq, clock, run, handoff, batch, awaited, state, faults, replies,
                 failures>>

-----------------------------------------------------------------------------
(* Recovery (RecoveryService) and the life of a process.                   *)

Due == {m \in DOMAIN rows : rows[m].due}

\* The oldest of a set of rows, by received_at.
Oldest(ms) == {m \in ms : Cardinality({n \in ms : rows[n].receivedAt < rows[m].receivedAt}) < BatchSize}

\* Mutant: the cycle looks for stranded and failed rows only.
BatchOf_NoLease == Oldest({m \in Due : rows[m].status # "PROCESSING"})

\* The oldest rows that are due, as many as a batch holds.
BatchOf == Oldest(Due)

\* A cycle starts: never while another runs, nor while the process drains.
PickBatch(p) ==
  /\ state[p] = "up" /\ batch[p] = {} /\ awaited[p] = NULL
  /\ BatchOf # {}
  /\ batch' = [batch EXCEPT ![p] = BatchOf]
  /\ UNCHANGED <<rows, txn, nextSeq, clock, run, handoff, awaited, state, faults, replies,
                 failures>>

\* The next row of the cycle is processed and awaited, or skipped while draining.
RecoverNext(p) ==
  /\ awaited[p] = NULL
  /\ \E m \in batch[p] :
       /\ \A n \in batch[p] : rows[m].receivedAt <= rows[n].receivedAt
       /\ batch' = [batch EXCEPT ![p] = @ \ {m}]
       /\ \/ \E r \in Runs : Begin(p, m, r) /\ awaited' = [awaited EXCEPT ![p] = r]
          \/ state[p] = "draining" /\ UNCHANGED <<run, awaited>>
  /\ UNCHANGED <<rows, txn, nextSeq, clock, handoff, state, faults, replies, failures>>

\* Everything a process had in memory, and its open transactions, are gone; the
\* platform will deliver again what was not acknowledged.
Stop(p) ==
  /\ state' = [state EXCEPT ![p] = "down"]
  /\ run' = [r \in Runs |-> IF run[r].host = p THEN IdleRun ELSE run[r]]
  /\ txn' = [d \in Deliveries |-> IF d \in Open /\ txn[d].host = p THEN NoTxn ELSE txn[d]]
  /\ handoff' = [handoff EXCEPT ![p] = {}]
  /\ batch' = [batch EXCEPT ![p] = {}]
  /\ awaited' = [awaited EXCEPT ![p] = NULL]
  /\ UNCHANGED <<rows, nextSeq, clock, replies, failures>>

Crash(p) ==
  /\ state[p] # "down" /\ faults < MaxFaults
  /\ faults' = faults + 1
  /\ Stop(p)

BeginShutdown(p) ==
  /\ state[p] = "up" /\ faults < MaxFaults
  /\ faults' = faults + 1
  /\ state' = [state EXCEPT ![p] = "draining"]
  /\ UNCHANGED <<rows, txn, nextSeq, clock, run, handoff, batch, awaited, replies, failures>>

\* The drain is over, by the last run's end or by its timeout.
Exit(p) == state[p] = "draining" /\ Stop(p) /\ UNCHANGED faults

Restart(p) ==
  /\ state[p] = "down"
  /\ state' = [state EXCEPT ![p] = "up"]
  /\ UNCHANGED <<rows, txn, nextSeq, clock, run, handoff, batch, awaited, faults, replies,
                 failures>>

-----------------------------------------------------------------------------
Store(d) == StoreInsert(d) \/ StoreCommit(d) \/ \E p \in Processes : StoreBegin(d, p)

Proceed(r) == Claim(r) \/ Finalize(r) \/ Record(r) \/ Reply(r)

Fault(r) == FinalizeUnacknowledged(r) \/ RecordLost(r)

Next ==
  \/ \E d \in Deliveries : Store(d)
  \/ \E r \in Runs : Proceed(r) \/ Fault(r) \/ Heartbeat(r)
  \/ \E m \in Messages : Lapse(m) \/ Stall(m)
  \/ \E p \in Processes : \/ StartHandoff(p) \/ PickBatch(p) \/ RecoverNext(p)
                          \/ Crash(p) \/ BeginShutdown(p) \/ Exit(p) \/ Restart(p)

\* Messages need not arrive and faults need not happen.  Whatever has started
\* goes on (calls to the outside have timeouts), timers fire, and a process that
\* went down is started again.
Fairness ==
  /\ \A r \in Runs : WF_vars(Proceed(r))
  /\ \A m \in Messages : WF_vars(Lapse(m))
  /\ \A p \in Processes : /\ WF_vars(StartHandoff(p)) /\ WF_vars(PickBatch(p))
                          /\ WF_vars(RecoverNext(p)) /\ WF_vars(Exit(p)) /\ WF_vars(Restart(p))

Spec == Init /\ [][Next]_vars /\ Fairness

-----------------------------------------------------------------------------
(* Properties.                                                             *)

Row == [seq : Nat, receivedAt : Nat,
        status : {"RECEIVED", "PROCESSING", "FAILED"} \cup Terminal, due : BOOLEAN,
        token : Runs \cup {NULL}, attempts : 0..MaxAttempts, linked : BOOLEAN]

\* Type invariant; a row has a token exactly while it is PROCESSING
\* (CHK_inbound_messages_claim_shape) and its attempts never pass MAX_ATTEMPTS.
TypeOK ==
  /\ DOMAIN rows \subseteq Messages
  /\ \A m \in DOMAIN rows : /\ rows[m] \in Row
                            /\ rows[m].token # NULL <=> rows[m].status = "PROCESSING"
  /\ txn \in [Deliveries -> [pc : {"new", "begun", "inserted", "over"},
                             host : Processes \cup {NULL}, at : Nat, seq : Nat]]
  /\ nextSeq \in Nat \ {0} /\ clock \in Nat \ {0}
  /\ run \in [Runs -> [pc : {"idle", "claim", "core", "reply"},
                       msg : Messages \cup {NULL}, attempts : Nat,
                       host : Processes \cup {NULL}]]
  /\ handoff \in [Processes -> SUBSET Messages]
  /\ batch \in [Processes -> SUBSET Messages]
  /\ awaited \in [Processes -> Runs \cup {NULL}]
  /\ state \in [Processes -> {"up", "draining", "down"}]
  /\ faults \in 0..MaxFaults
  /\ replies \in [Messages -> Nat] /\ failures \in [Messages -> Nat]

\* The messages of a sender are worked on in the order of their sequence numbers:
\* none has been claimed while an earlier one is unfinished - not even one whose
\* storing transaction drew an earlier number and committed later (claimMessage,
\* storeIdempotent's advisory lock).
SenderOrder ==
  \A m, n \in DOMAIN rows :
    SameSender(m, n) /\ rows[m].seq < rows[n].seq /\ rows[n].status # "RECEIVED"
    => rows[m].status \in Terminal

\* At any time at most one run holds a claim on any of a sender's messages, so
\* onboarding, parsing and posting for one sender are serial as long as no owner
\* outlives its lease (claimMessage, startLeaseHeartbeat).
SenderSerial ==
  \A r, q \in Runs :
    /\ run[r].pc = "core" /\ Fenced(r)
    /\ run[q].pc = "core" /\ Fenced(q)
    /\ SameSender(run[r].msg, run[q].msg)
    => r = q

\* A sender gets at most one reply to a message, and only once the message is
\* PROCESSED, however often it was redelivered, retried or taken over from a
\* stalled owner that later wakes up (the fenced update of processMessageCore).
SingleReply ==
  \A m \in Messages : /\ replies[m] <= 1
                      /\ replies[m] = 1 => m \in DOMAIN rows /\ rows[m].status = "PROCESSED"

\* attempts counts the failures written to a row - none twice, none overwritten
\* by an owner that read the count before it lost the row - and a message is
\* given up exactly at MAX_ATTEMPTS (recordFailure).
AttemptsExact ==
  \A m \in DOMAIN rows : /\ rows[m].attempts = failures[m]
                         /\ rows[m].status = "DEAD" <=> failures[m] = MaxAttempts

\* Every stored message is finished, PROCESSED or given up as DEAD: dropped
\* hand-offs, crashed owners, swallowed failures and messages blocked behind an
\* earlier one are all recovered (RecoveryService).
EventuallyTerminal ==
  \A m \in Messages : m \in DOMAIN rows ~> m \in DOMAIN rows /\ rows[m].status \in Terminal

\* The abstract queue (InboundAbs): per sender a line that grows at its end and is
\* settled from its front, each message once, answered at most once after that.
Ahead(m) == {n \in DOMAIN rows : SameSender(n, m) /\ rows[n].seq < rows[m].seq}

Outcome(m) == IF m \in DOMAIN rows /\ rows[m].status \in Terminal THEN rows[m].status ELSE "none"

Fifo == INSTANCE InboundAbs WITH
  ahead <- [m \in DOMAIN rows |-> Ahead(m)],
  outcome <- [m \in Messages |-> Outcome(m)],
  answered <- {m \in Messages : replies[m] > 0}
FifoPerSender == Fifo!Spec

-----------------------------------------------------------------------------
(* The inductive invariant behind the safety properties (InboundProofs).   *)

Known ==
  /\ \A r \in Runs : run[r].pc # "idle" => run[r].msg \in DOMAIN rows
  /\ \A p \in Processes : handoff[p] \subseteq DOMAIN rows /\ batch[p] \subseteq DOMAIN rows
  /\ \A m \in Messages \ DOMAIN rows : failures[m] = 0 /\ replies[m] = 0

\* Sequence numbers tell the messages of a sender apart, and the one a storing
\* transaction has drawn is the last of its sender.
Numbered ==
  /\ \A m \in DOMAIN rows : rows[m].seq < nextSeq
  /\ \A m, n \in DOMAIN rows : SameSender(m, n) /\ rows[m].seq = rows[n].seq => m = n
  /\ \A d \in Deliveries : txn[d].pc = "inserted" =>
       /\ txn[d].seq < nextSeq /\ MessageOf[d] \notin DOMAIN rows
       /\ \A m \in DOMAIN rows : SameSender(m, MessageOf[d]) => rows[m].seq < txn[d].seq
       /\ \A e \in Deliveries \ {d} : txn[e].pc = "inserted" =>
            ~SameSender(MessageOf[d], MessageOf[e])

\* What a run knows of its row: the attempts while it holds the claim, and once it
\* has finalized the row, that nobody else has replied or will.
Holding ==
  /\ \A r \in Runs : run[r].pc = "core" /\ Fenced(r) =>
       run[r].attempts = rows[run[r].msg].attempts
  /\ \A r \in Runs : run[r].pc = "reply" =>
       /\ rows[run[r].msg].status = "PROCESSED" /\ replies[run[r].msg] = 0
       /\ \A q \in Runs \ {r} : run[q].pc = "reply" => run[q].msg # run[r].msg

IInv ==
  /\ TypeOK /\ Known /\ Numbered /\ Holding
  /\ SenderOrder /\ SingleReply /\ AttemptsExact

-----------------------------------------------------------------------------
\* What RUNBOOK.md:86-93 says of dead letters: the update by id and business id
\* requeues the row, so a DEAD row carries its business.
DeadLetterReplayable ==
  \A m \in DOMAIN rows : rows[m].status = "DEAD" => rows[m].linked
=============================================================================
