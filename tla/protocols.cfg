SPECIFICATION ProtocolsSpec
CONSTANTS
  MaxRequests = 2
  MaxSessions = 2
  MaxStrikes = 1
  MaxThrows = 1
  AutoStart = TRUE
  m1 = m1
  m2 = m2
  h1 = h1
  h2 = h2
  k1 = k1
  Msgs = {m1, m2}
  KeyOf <- KeyOfMessage
  Refuses <- RefusesMessage
  Consumers = {h1, h2}
  MaxAttempts = 2
  MaxLost = 2
  w1 = w1
  w2 = w2
  Workers = {w1, w2}
  NoWorker = NoWorker
  TTL = 2
  BeatEvery = 1
  MaxBeats = 2
  inApp = inApp
  telegram = telegram
  email = email
  Channels = {inApp, telegram, email}
  Unconfigured = {email}
  EscalateAfter = 2
  DeadManAfter = 3
  MaxLevel = 2
  MaxTroubles = 1
  Ttl = 1
  MaxEvents = 2
  MaxMishaps = 1
  p1 = p1
  p2 = p2
  t1 = t1
  t2 = t2
  Processes = {p1, p2}
  Tasks = {t1, t2}
  Token <- OwnTokens
  MaxLines = 4
  MaxOpens = 4
INVARIANTS
  ProtocolsTypeOK
  EffectOnce
  ArchivedIsAccounted
  RoleExclusive
  OneHistory
PROPERTIES
  AcceptedStands
  RequestsResolve
  MessagesSettle
  DeadManFires
  StandingIsCurrent
  StandingRecovers
CHECK_DEADLOCK FALSE
