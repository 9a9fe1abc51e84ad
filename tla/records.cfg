SPECIFICATION AllSpec
CONSTANTS
  a1 = a1
  a2 = a2
  k1 = k1
  k2 = k2
  n1 = n1
  n2 = n2
  w1 = w1
  w2 = w2
  w3 = w3
  r1 = r1
  q1 = q1
  i1 = i1
  i2 = i2
  m1 = m1
  Nobody = Nobody
  Socket = {a1, a2}
  Key = {k1, k2}
  Note = {n1, n2}
  MaxPerKey = 1
  MaxTotal = 1
  MaxInbox = 1
  Writer = {a1, a2}
  NoWriter = NoWriter
  MaxBatch = 2
  MaxStamp = 5
  User = {k1, k2}
  Role = {r1}
  Permission = {q1}
  System = {}
  Default = r1
  Seeded <- SmallSeed
  Reader = {a1, a2}
  NoUser = NoUser
  MaxSize = 1
  Task = {w1, w2, w3}
  Callers = {a1, a2}
  Visit = {w1, w2, w3}
  Identity = {i1, i2}
  Account = {k1, k2}
  Mail = {m1}
  MailOf <- SmallMail
  NoMail = NoMail
  Local = Local
  MaxStates = 1
  MaxCodes = 1
  Page = {k1, k2}
  MaxVersion = 2
  MaxSecond = 2
  NoFile = NoFile
  Call = {a1, a2}
  Editions = {n1}
  Definition = {k1, k2}
  NoDefinition = NoDefinition
  MaxVersions = 1
  MaxInARow = 2
  MinRate = 70
  MaxSkills = 2
  MaxRuns = 3
  MaxPromotions = 2
  Chat = {a1, a2}
  Viewer = {w1}
  NoConv = NoConv
  MessageLimit = 1
  MaxMessages = 4
  Content = {n1}
  NoContent = NoContent
  MaxRows = 3
  Memory = {w1, w2, w3, r1}
  Importance <- SmallImportance
  Sure <- SmallSure
  Recent <- SmallRecent
  Size <- SmallSize
  MinImportance = 3
  MaxResults = 2
  TokenBudget = 4
  Worker = {a1, a2}
  Template = {n1}
  Profiles = {"full", "desktop"}
  MaxCrashes = 1
  Platform = {w1, w2}
  Sending = {a1, a2}
  MaxFailures = 1
  MaxAttempts = 2
  MaxChannels = 1
  MaxWebhooks = 1
  Name = {k1}
  Thread = {a1, a2}
  Visitor = {w1}
  MaxFailed = 1
  Lockout = 2
  Interval = 2
  Lifetime = 1
  MaxTime = 3
INVARIANTS
  AllTypeOK
  
  HistoryIsTrue
  
  DependenciesHold
  PublishedIsEarned
  
CHECK_DEADLOCK FALSE
