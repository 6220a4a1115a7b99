SPECIFICATION Spec
CONSTANTS
  Calls = {c1, c2, c3}
  NULL = NULL
  b1 = b1
  b2 = b2
  till = till
  sales = sales
  other = other
  k1 = k1
  k2 = k2
  h1 = h1
  h2 = h2
  Hashes = {h1, h2}
  Currencies = {"ZAR"}
  MaxAmount = 2
  Businesses <- MCBusinesses
  Keys <- MCKeys
  Accounts <- MCAccounts
  OwnerOf <- MCOwnerOf
  Requests <- MCRequests
INVARIANTS TypeOK KeyUnique ReversalPaired BooksInForce AnswerTruthful
PROPERTIES Linearizable EveryCallAnswered
CHECK_DEADLOCK FALSE
