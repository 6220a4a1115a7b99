SPECIFICATION Spec
SYMMETRY RunProcessSymmetry
CONSTANTS
  NULL = NULL
  alice = alice
  m1 = m1
  m2 = m2
  d1 = d1
  d2 = d2
  again = again
  Messages = {m1}
  Senders = {alice}
  Sender <- MCSender
  Deliveries = {d1, again}
  MessageOf <- MCMessageOf
  Processes = {p1, p2}
  Runs = {r1, r2}
  MaxAttempts = 3
  BatchSize = 1
  Connections = 2
  MaxFaults = 2
INVARIANTS TypeOK SingleReply AttemptsExact
CHECK_DEADLOCK FALSE
