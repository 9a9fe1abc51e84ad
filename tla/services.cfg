SPECIFICATION AllSpec
CONSTANTS
  g1 = g1
  g2 = g2
  h1 = h1
  h2 = h2
  Grant = {g1, g2}
  Holder = {h1, h2}
  Nobody = Nobody
  c1 = c1
  c2 = c2
  r1 = r1
  r2 = r2
  Client = {c1, c2}
  Route = {r1, r2}
  Config <- SmallConfigs
  MaxClients = 1
  MaxTime = 3
  a1 = a1
  a2 = a2
  p1 = p1
  p2 = p2
  p3 = p3
  Calls = {a1, a2}
  Chain <- SmallChain
  Configured = {p1, p2}
  MaxFailures = 2
  MaxRetries = 1
  j1 = j1
  j2 = j2
  j3 = j3
  e1 = e1
  e2 = e2
  Job = {j1, j2, j3}
  Editor = {e1, e2}
  o1 = o1
  o2 = o2
  t1 = t1
  t2 = t2
  OneShot = {o1, o2}
  Thread = {t1, t2}
  NoThread = NoThread
  Torn = Torn
  Length = 2
  MaxRecovery = 1
  MaxOverdue = 1
  Peer = {c1, c2}
  NoPeer = NoPeer
  MaxInstances = 2
  MaxServes = 2
  Callback = {h1, h2}
  State = {o1, o2}
  NoState = NoState
  MaxChanges = 2
  Key = {r1}
  NoContext = NoContext
  Closer = {e1}
  NoKey = NoKey
  Download = {j1}
  Caller = {c1}
  Connector = {c2}
  Url = {o1, o2}
  NoUrl = NoUrl
  MaxProcesses = 2
  MaxRequests = 3
  Plugin = {p1, p2}
  Admin = {a1}
  MaxObjects = 2
  Unset = Unset
  MaxEdits = 1
  MaxRestarts = 1
  Delegation = {a1, a2, e1, e2}
  Together = {a1, a2}
  MaxDepth = 2
  MaxConcurrent = 2
  Agent = {a1, a2}
  Everybody = Everybody
  Proposal = {p1, p2}
  Option = {o1, o2}
  QueueSize = 1
  MaxLog = 1
  MaxProposals = 1
  MaxMessages = 3
INVARIANTS
  AllTypeOK
  UsedOnce
  LimitHolds
  FailedHasTriedAll
  JobsRunInOrderAndOnce
  StepsAreSettled
  DesktopIsServed
  ExtensionsHold
CHECK_DEADLOCK FALSE
