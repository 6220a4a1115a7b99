SPECIFICATION Spec
CONSTANTS
  NULL = NULL
  BROKEN = BROKEN
  MALFORMED = MALFORMED
  NoBusiness = NoBusiness
  q1 = q1
  q2 = q2
  pair = pair
  overlap = overlap
  alien = alien
  dev = dev
  m1 = m1
  m2 = m2
  m3 = m3
  r1 = r1
  r2 = r2
  r3 = r3
  w1 = w1
  w2 = w2
  w3 = w3
  Requests = {q1, q2}
  Processes <- MCProcesses
  HostOf <- MCHostOf
  Bodies <- MCBodies
  BodyOf <- MCBodyOf
  Messages <- MCMessages
  WellFormed <- MCMessages
  PolicyBytes = 1
  MaxIntakeFaults = 2
  Resolvers <- MCResolvers
  Phones = {"number", "other"}
  PhoneOf <- MCPhoneOf
  MaxBreaks = 2
  Texts <- MCTexts
  Provided <- MCProvided
  TypeOf <- MCTypes
  Works = {w1, w2, w3}
  Drains = {"signal", "hook"}
  FirstDay = 19692
  LastDay = 20150
  FirstMonth = 19662
  MonthLengths <- MCMonths
  WidestPeriod = 366
INVARIANTS PeriodsJoin HandedOnce OneWholeBusiness AnswersAgree DrainsMatchWork QuestionsAnswered
PROPERTIES IntakePromise DeliveriesSettle
CHECK_DEADLOCK FALSE
