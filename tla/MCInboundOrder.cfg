SPECIFICATION Spec
CONSTANTS
  NULL = NULL
  alice = alice
  m1 = m1
  m2 = m2
  d1 = d1
  d2 = d2
  again = again
  Messages = {m1, m2}
  Senders = {alice}
  Sender <- MCSender
  Deliveries = {d1, d2}
  MessageOf <- MCMessageOf
  Processes = {p1}
  Runs = {r1, r2}
  MaxAttempts = 2
  BatchSize = 2
  Connections = 2
  MaxFaults = 1

INVARIANTS SenderOrder SenderSerial
PROPERTIES FifoPerSender EventuallyTerminal
CHECK_DEADLOCK FALSE
