SPECIFICATION MCSpec
CONSTANTS
  new = new
  legacy = legacy
  bank = bank
  sales = sales
  stock = stock
  s1 = s1
  s2 = s2
  x2 = x2
  back = back
  NULL = NULL
  NONE = NONE
  Alerts <- MCAlerts
  Legacy <- MCLegacy
  Calls = {c1, c2}
  Day = 4
  Zones <- MCZones
  MaxPeriodDays = 3
  Granularities = {"day", "week"}
  Cuts <- MCCuts
  Accounts <- MCAccounts
  TypeOf <- MCTypeOf
  CodeOf <- MCCodeOf
  Transactions <- MCTransactions
  At <- MCAt
  PostedAt <- MCPostedAt
  Reverses <- MCReverses
  EntriesOf <- MCEntriesOf
  Thresholds <- MCThresholds
  Ranges <- MCRanges
  PageSizes = {2}
  Offsets = {0, 1}
  ReadLimit = 2
  RecentLimit = 2
  Lookback = 2
  LookedAt = {bank}
INVARIANTS WholeBuckets
CHECK_DEADLOCK FALSE
