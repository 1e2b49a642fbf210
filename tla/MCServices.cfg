SPECIFICATION ServicesSpec
CONSTANTS
  None = None
  Catalogue <- MCCatalogue
  Payloads <- MCPayloads
  PricingRequests <- MCRequests
  LegacyRules <- MCLegacyRules

  c1 = c1
  c2 = c2
  q1 = q1
  q2 = q2
  Chats = {c1, c2}
  Questions = {q1, q2}
  EntityIds = {1, 2}
  MaxItemsPerSection = 1
  Plans <- MCPlans
  Replies <- MCReplies

  good = good
  noRoles = noRoles
  bad = bad
  NoSecret = NoSecret
  Secrets <- MCSecrets
  Allowed <- MCAllowed
  Checks = {1, 2}

  s1 = s1
  s2 = s2
  adm = adm
  t1 = t1
  t2 = t2
  Emails = {s1, s2, adm}
  AdminEmails = {adm}
  Registered <- MCRegistered
  Tokens = {t1, t2}
  SessionTTL = 2
  MaxTime = 4

  Fixture <- MCFixture
  Queries <- MCQueries
  MaxWrites = 2
  MaxListed = 5
  SmallLimit = 1
  DefaultLimit = 2
  ChatMax = 2
  MaxLimit = 2

  AdminOps = {1, 2}

  LastDay = 2
  SoldProducts = {1, 2}
  ListedProducts = {1, 3}
  SaleIds = {1, 2}
  OrderIds = {1}
  Warehouses = {1, 2}
  SaleAmounts <- MCSaleAmounts
  StockLevels = {0, 4}
  FirstStock <- MCFirstStock
  Rebuilds = {1, 2}
  MaxEdits = 2
  DemandDays = 2
  WeekDays = 1

  Situations <- MCSituations
  Notch = 250
  MaxDemand = 20
  MaxSpend = 10500
INVARIANTS
  LastRequestIsInEffect
  DuplicatesNeedARace
  EffectiveRuleCovers
  TraceTellsTheOutcome
  ConfidenceIsEarned
  VerdictIsAboutTheStoredSecret
  AnswersStayInTheAccount
  WalkMissesNothing
  AuditTellsTheOutcome
  MetricsMatchSources
PROPERTIES
  ArchiveIsFinal
  SessionEndIsFinal
  WorseIsNeverCalmer
CHECK_DEADLOCK FALSE
