SPECIFICATION Spec
CONSTANTS
  c1 = c1  c2 = c2  u1 = u1  u2 = u2  m1 = m1  m2 = m2
  GPUTask = {1, 2, 3}
  Device = {1, 2}
  Total = 3
  Amounts = {1, 2}
  NoTask = NoTask
  Caller = {c1, c2}
  failure_threshold = 2
  success_threshold = 2
  Recovery = 2
  Proposal = {p1, p2}
  Dangerous = {p2}
  Validation = {1, 2, 3}
  GoldenTask = {g1, g2}
  Case = {r1}
  MaxRuns = 2
  Reversible = {TRUE, FALSE}
  Ref = {1, 2}
  User = {u1, u2}
  tenant <- TwoTenants
  default_tenant = "default_tenant"
  Connector = {github, slack}
  Checking = {github}
  max_requests = 2
  MaxTime = 2
  MaxSessions = 1
  Kind = {"tokens", "calls"}
  max_use = 1
  MaxUse = 2
  Uses = {1, 2}
  Costs = {1, 2}
  max_budget = 2
  MaxSpend = 4
  min_workers = 1
  max_workers = 4
  tasks_per_worker = 2
  cooldown = 1
  Depths = {0, 3, 9}
  Entity = {e1, e2}
  Tenant = {t1, t2}
  Key = {k1}
  Value = {v1, v2, secret}
  Secrets = {secret}
  Lifetimes = {1, 2}
  MaxSaves = 2
  LastTime = 3
  Model = {m1, m2}
  Shipped <- ShippedModels
  NoModel = NoModel
  ChatView = {1, 2}
  Modal = Modal
  Socket = {1, 2, 3, 4, 5, 6}
  MaxAsked = 2
  MaxLosses = 1
  MaxReconnects = 1
INVARIANTS
  ResourcesAreAccounted
  EffectsAreEarned
  StoresAreCurrent
  LinkIsSound
PROPERTIES
  MendedCircuitCloses
  SearchEndsUnlessCircular
  ConnectedInTheEnd
CHECK_DEADLOCK FALSE
