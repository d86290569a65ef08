\* Two processes in most components, one fault, one change.
CONSTANTS
  Task = {c1, c2}
  Hosted = {"admin"}
  MaxSeconds = 1
  MaxFaults = 1
  Request = {r1, r2}
  Service = {"a", "b"}
  Cap = 1
  MaxChanges = 1
  SlotFaults = 2
  Thread = {t1, t2}
  MaxEntries = 2
  SaveEvery = 2
  Capacity = 2
  MaxBatch = 2
  MaxLogged = 4
  Conn = {c1, c2}
  MaxEvents = 3
  LogFaults = 3
  Caller = {"a", "b"}
  Route = {"proxy", "delete"}
  PerRoute <- Limits
  MaxRequests = 2
  Window = 2
  Scan = {s1, s2}
  Apply = {a1, a2}
  Cred = {i1}
  BulkLimit = 0
  Worker = {w1, w2}
  NumKeys = 2
  MaxSeals = 2
  User = {c1}
  Credential = {i1, i2}
  Phrase = {s1}
  Agent = {a1, a2}
  Listener = {"tcp", "uds", "mtls"}
  MaxEdits = 1
  Helper = {h1, h2}
  Slug = {s1, s2}
  MountPoint = {m1}
  Viewer = {c1, c2}
  Password = {p1, p2}
  Quota = 1
  MaxLogins = 3
  MaxCalls = 2
  Org = {o1}
  AccountChanges = 3
  Launch = {l1, l2}
  ServiceEntry <- Written
  Asked <- Requests
  MaxServices = 2
  FileEdits = 3
  None = None
  Torn = Torn
SPECIFICATION Spec
INVARIANTS TypeOK AdminPasswordSafe OwnCredential TrailKept ChainVerifies
  LimitsFair AuditSound KeystoreOpens UsedInScope EnvKept SentOncePerFailure
  FstabSound LoginSound SettingsKept OrgKeysFollow LaunchSound FileServed
\* Calls, faults and changes run out, and then nothing more need happen.
CHECK_DEADLOCK FALSE
