SPECIFICATION Spec
CONSTANTS
  treasury = treasury
  a = a
  b = b
  t1 = t1
  t2 = t2
  t3 = t3
  t4 = t4
  kcad = kcad
  v1 = v1
  v2 = v2
  v3 = v3
  Txs = {t1, t2, t3, t4}
  Tx <- MCTx
  Accounts = {treasury, a, b}
  Assets = {kcad}
  Treasuries = {treasury}
  Validators = {v1, v2, v3}
  Schedule <- MCSchedule
  Engine = "POA"
  Drawn <- MCDrawn
  Account = a
  Asset = kcad
  PageLimit = 1
  ScanLimit = 3
INVARIANTS
  WalkIsComplete
  StatementAddsUp
  
  EvidenceReconciles
CHECK_DEADLOCK FALSE
