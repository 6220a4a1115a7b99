SPECIFICATION Spec
CONSTANTS
  Calls = {c1, c2}
  NULL = NULL
  b1 = b1
  b2 = b2
  till = till
  sales = sales
  other = other
  k1 = k1
  k2 = k2
  h1 = h1
  h2 = h2
  Hashes = {h1, h2}
  Currencies = {"ZAR"}
  MaxAmount = 2
  Businesses <- MCBusinesses
  Keys <- MCKeys
  Accounts <- MCAccounts
  OwnerOf <- MCOwnerOf
  Requests <- InternalRequests
INVARIANTS PayloadMatches
CHECK_DEADLOCK FALSE
