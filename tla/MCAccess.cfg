SPECIFICATION Spec
CONSTANTS
  NOBODY = NOBODY
  NONE = NONE
  NULL = NULL
  t1 = t1
  t2 = t2
  t3 = t3
  b1 = b1
  b2 = b2
  x1 = x1
  n1 = n1
  n2 = n2
  v1 = v1
  v2 = v2
  o1 = o1
  o2 = o2
  o3 = o3
  c1 = c1
  c2 = c2
  Visits = {v1, v2}
  Creators <- MCCreators
  EmailOf <- MCEmailOf
  BusinessOf <- MCBusinessOf
  Emails = {"owner"}
  Businesses = {"shop", "stall", "gone"}
  Existing = {"shop", "stall"}
  TTL = 1
  LastHour = 2
  Calls = {c1, c2}
  Processes = {"p1"}
  HostOf <- MCHostOf
  Keys <- MCKeys
  Limit <- MCLimit
  Window <- MCWindow
  Routes <- MCRoutes
  MaxMemoryKeys = 1
  CleanupEvery = 2
  MaxTime = 2
  MaxArrivals = 4
  Backends = {b1, b2}
  Ids = {t1, t2, t3}
  Headers <- MCHeaders
  Inserts <- MCInserts
  Opened <- MCOpened
  Accounts = {"cash", "bank"}
  Charts <- MCCharts
  MaxLines = 2
  Starts <- MCStarts
  Respelled <- MCRespelled
  Edits <- MCEdits
  MaxEdits = 2
INVARIANTS TwicePerWindow CommittedBooks UpgradePreserves
PROPERTIES NoEntryAfterEnd PostedStands
SYMMETRY MCSymmetry
CHECK_DEADLOCK FALSE
