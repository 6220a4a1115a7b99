SPECIFICATION Spec
CONSTANTS
  NULL = NULL
  alice = alice
  m1 = m1
  m2 = m2
  d1 = d1
  d2 = d2
  again = again
  Messages = {m1}
  Senders = {alice}
  Sender <- MCSender
  Deliveries = {d1}
  MessageOf <- MCMessageOf
  Processes = {p1}
  Runs = {r1, r2}
  MaxAttempts = 2
  BatchSize = 1
  Connections = 1
  MaxFaults = 0
INVARIANTS DeadLetterReplayable
CHECK_DEADLOCK FALSE
