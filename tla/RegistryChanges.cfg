SPECIFICATION Spec
CONSTANTS
  api = api
  v1 = v1
  v2 = v2
  x = x
  recode = recode
  reuse = reuse
  credit = credit
  twice = twice
  cap = cap
  lower = lower
  close = close
  wild = wild
  forged = forged
  NoRow = NoRow
  None = None
  Institutions = {1, 2, 3}
  Seeds = {1, 2}
  Codes = {1, 2, 3}
  SeedCode <- MCSeedCode
  Fingerprints = {x}
  Limits <- MCLimits
  Requests = {cap, lower, close}
  Request <- MCRequest
  Api = api
  Validators = {v1, v2}
  Mode <- MCMode
  LeaderAt <- MCLeaderAt
  Databases = {"empty"}
  Deposits = 2
  MaxRequests = 2
  MaxFaults = 0
PROPERTY RegistryChangesByRequest
CHECK_DEADLOCK FALSE
