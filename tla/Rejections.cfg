SPECIFICATION Spec
CONSTANTS
  treasury = treasury
  a = a
  b = b
  t1 = t1
  t2 = t2
  t3 = t3
  kcad = kcad
  bank = bank
  v1 = v1
  v2 = v2
  v3 = v3
  p1 = p1
  p2 = p2
  p3 = p3
  p4 = p4
  r1 = r1
  r2 = r2
  None = None
  Txs = {t1, t2, t3}
  Tx <- MCScarce
  Assets = {kcad}
  Accounts = {treasury, a, b}
  Treasuries = {treasury}
  Institutions = {bank}
  Owner <- MCOwner
  Validators = {v1, v2, v3}
  Schedule <- MCSchedule
  Engine = "POA"
  AllowedAccounts = {a, b}
  AllowedAssets = {kcad}
  MaxPaymentAmount = 1
  AllowSelfTransfers = FALSE
  Processes = {p1, p2, p3, p4}
  ValidatorOf <- MCValidatorOf
  Reviewers = {r1}
  Suspensible = {}
  MaxTxsPerBlock = 2
  MaxFaults = 1
  SessionsCanDie = FALSE
INVARIANT RejectionsStand
CHECK_DEADLOCK FALSE
