SPECIFICATION Spec
CONSTANTS
  treasury = treasury
  a = a
  b = b
  kcad = kcad
  central = central
  bank = bank
  mint = mint
  pay = pay
  retry = retry
  big = big
  bigRetry = bigRetry
  burn = burn
  ref = ref
  v1 = v1
  v2 = v2
  v3 = v3
  v4 = v4
  None = None
  NoRef = NoRef
  Txs = {mint, pay, retry, big, bigRetry, burn}
  Tx <- MCTx
  Assets = {kcad}
  Accounts = {treasury, a, b}
  Treasuries = {treasury}
  Institutions = {central, bank}
  Owner <- MCOwner
  Caller <- MCCaller
  References = {ref}
  Ref <- MCRef
  Admins = {adm1, adm2}
  Administered = {bank}
  Validators = {v1, v2, v3, v4}
  Schedule <- MCSchedule
  Engine = "POA"
  AllowedAccounts = {a, b}
  AllowedAssets = {kcad}
  MaxPaymentAmount = 1
  AllowSelfTransfers = FALSE
INVARIANTS
  TypeOK
  CasesAgree
  RetriesAreSafe
  NoncesFollowChain
  SupplyIsBacked
  QuorumsOverlap
  AuditIsTrue
PROPERTY ImplementsAtomicLedger
SYMMETRY Retries
CHECK_DEADLOCK FALSE
