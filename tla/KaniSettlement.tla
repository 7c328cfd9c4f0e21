--------------------------- MODULE KaniSettlement ---------------------------
(***************************************************************************)
(* The settlement path of a KANI deployment that keeps its ledger in       *)
(* Postgres.  API processes insert transactions and resolve compliance     *)
(* cases, validator processes take turns turning pending transactions into *)
(* blocks.  Every process reaches the tables through autocommitted         *)
(* statements or short database transactions, and each of those is one     *)
(* action here; what a process does between two of them is local.          *)
(*                                                                         *)
(* Tables are functions of the row's key.  The variables of a validator    *)
(* (pc, snap, todo, accepted, work) are the locals of                      *)
(* ValidatorRuntime::run_once and run_once_with_block_lock.                *)
(***************************************************************************)
EXTENDS Compliance, Consensus

CONSTANTS
  Institutions,
  Owner,           \* [Accounts -> Institutions]
  Processes,       \* validator processes; two may run under one id
  ValidatorOf,     \* [Processes -> Validators]
  Reviewers,       \* concurrent requests of compliance reviewers
  Suspensible,     \* institutions an administrator may suspend
  MaxTxsPerBlock,  \* max_transactions_per_block
  MaxFaults,       \* bound on crashes, failing statements and dead sessions
  SessionsCanDie,  \* may Postgres end a session while its process goes on?
  None

ASSUME OwnerAssumption == Owner \in [Accounts -> Institutions]
ASSUME ProcessAssumption == ValidatorOf \in [Processes -> Validators]
ASSUME BoundsAssumption ==
  MaxTxsPerBlock \in Nat \ {0} /\ MaxFaults \in Nat /\ SessionsCanDie \in BOOLEAN
ASSUME NoneAssumption == None \notin Processes \cup Txs

Statuses     == {"PENDING", "HELD", "REJECTED", "FINALIZED"}
CaseStatuses == {"OPENED", "APPROVED", "REJECTED"}
NoRow        == "NONE"

VARIABLES
  institution,  \* institutions.status
  balance,      \* balances.amount
  status,       \* transactions.status, NoRow while there is no row
  nonce,        \* transactions.nonce
  created,      \* transactions.created_at
  height,       \* transactions.block_height, 0 for NULL
  caseStatus,   \* compliance_cases.status, by payment_id
  blocks,       \* blocks, by height
  audit,        \* audit_events about transactions: pairs <<event type, id>>
  lastFinal,    \* validator_status.last_finalized_height
  lock,         \* process whose session holds the block production advisory lock
  leaked,       \* whether that session kept it past the unlock of a pass
  request,      \* progress of the API request that creates a transaction
  review,       \* progress of a reviewer's request
  pc, snap, todo, accepted, work,   \* locals of a validator's pass
  faults

tables   == <<institution, balance, status, nonce, created, height, caseStatus,
              blocks, audit, lastFinal>>
apiVars  == <<request, review>>
passVars == <<pc, snap, todo, accepted, work>>
vars     == <<tables, lock, leaked, apiVars, passVars, faults>>

-----------------------------------------------------------------------------
(* Rows and blocks.                                                        *)

Rows       == {t \in Txs : status[t] # NoRow}
Finalized  == {t \in Txs : status[t] = "FINALIZED"}

\* Faulty variant: the status filter of pending_transactions lets held payments in.
PendingOrHeld == {t \in Txs : status[t] \in {"PENDING", "HELD"}}

Pending    == {t \in Txs : status[t] = "PENDING"}

\* A block's hash commits to its height, producer and transactions.
GenesisHash    == << >>
Hash(h, b)     == <<h, b.validator, b.txs>>
LastHash(bs)   == IF bs = << >> THEN GenesisHash ELSE Hash(Len(bs), bs[Len(bs)])

-----------------------------------------------------------------------------
(* API processes.                                                          *)

\* MAX(nonce) + 1 over the rows of the account, whatever their status.
IsNextNonce(n, acct) ==
  LET used == {nonce[u] : u \in {u \in Rows : Tx[u].from = acct}}
  IN  /\ \A m \in used : m < n
      /\ n = 1 \/ n - 1 \in used

Stamped == {t \in Txs : request[t] # "new"}

\* authorize_account_control and screening, then next_nonce_for_account and the construction
\* of the transaction, which stamps created_at.
BeginRequest(t) ==
  /\ request[t] = "new"
  /\ institution[Owner[Tx[t].from]] = "APPROVED"
  /\ Decision(t) # "Reject"
  /\ \E n \in 1..(Cardinality(Txs) + 1) :
       /\ IsNextNonce(n, Tx[t].from)
       /\ nonce' = [nonce EXCEPT ![t] = n]
  /\ created' = [created EXCEPT ![t] = Cardinality(Stamped) + 1]
  /\ request' = [request EXCEPT ![t] = "stamped"]
  /\ UNCHANGED <<institution, balance, status, height, caseStatus, blocks, audit,
                 lastFinal, lock, leaked, review, passVars, faults>>

NonceTaken(t) ==
  \E u \in Rows : Tx[u].from = Tx[t].from /\ nonce[u] = nonce[t]

\* enqueue_pending_transaction and hold_payment_for_review: the row, and for a
\* payment under review its case, are inserted by one database transaction.
InsertTransaction(t) ==
  /\ request[t] = "stamped"
  /\ ~NonceTaken(t)
  /\ request' = [request EXCEPT ![t] = "stored"]
  /\ IF Decision(t) = "Review"
       THEN /\ status' = [status EXCEPT ![t] = "HELD"]
            /\ caseStatus' = [caseStatus EXCEPT ![t] = "OPENED"]
       ELSE /\ status' = [status EXCEPT ![t] = "PENDING"]
            /\ UNCHANGED caseStatus
  /\ UNCHANGED <<institution, balance, nonce, created, height, blocks, audit,
                 lastFinal, lock, leaked, review, passVars, faults>>

\* UNIQUE (from_account, nonce) refuses the row: the request fails.
InsertConflicts(t) ==
  /\ request[t] = "stamped"
  /\ NonceTaken(t)
  /\ request' = [request EXCEPT ![t] = "failed"]
  /\ UNCHANGED <<tables, lock, leaked, review, passVars, faults>>

\* approve_/reject_compliance_case, first statement: read the case and check
\* that it is not terminal.
ReadCase(r, t, decision) ==
  /\ review[r].tx = None
  /\ caseStatus[t] = "OPENED"
  /\ review' = [review EXCEPT ![r] = [tx |-> t, decision |-> decision]]
  /\ UNCHANGED <<tables, lock, leaked, request, passVars, faults>>

\* Faulty variant: the payment gets the status of its case.
ReleasedAsCase(decision) == decision

\* The payment status a decision leads to.
Released(decision) == IF decision = "APPROVED" THEN "PENDING" ELSE "REJECTED"

\* Second part, one database transaction: the case is updated by id alone, the
\* payment only if it is still HELD.
ResolveCase(r) ==
  LET t == review[r].tx
  IN  /\ t # None
      /\ caseStatus' = [caseStatus EXCEPT ![t] = review[r].decision]
      /\ status' = [status EXCEPT ![t] = IF @ = "HELD" THEN Released(review[r].decision) ELSE @]
      /\ review' = [review EXCEPT ![r] = [tx |-> None, decision |-> "APPROVED"]]
      /\ UNCHANGED <<institution, balance, nonce, created, height, blocks, audit,
                     lastFinal, lock, leaked, request, passVars, faults>>

SuspendInstitution(i) ==
  /\ i \in Suspensible
  /\ institution' = [institution EXCEPT ![i] = "SUSPENDED"]
  /\ UNCHANGED <<balance, status, nonce, created, height, caseStatus, blocks, audit,
                 lastFinal, lock, leaked, apiVars, passVars, faults>>

-----------------------------------------------------------------------------
(* Validator processes.                                                    *)

EmptySnap ==
  [institution |-> [i \in Institutions |-> "APPROVED"],
   balance     |-> [slot \in Slots |-> 0],
   status      |-> [t \in Txs |-> NoRow],
   height      |-> [t \in Txs |-> 0],
   caseStatus  |-> [t \in Txs |-> NoRow],
   blocks      |-> << >>]

LoadSteps  == {"institutions", "balances", "payments", "cases", "blocks"}
LockedSteps == LoadSteps \cup {"fetch", "validate", "audit", "save", "record", "release"}
Steps       == LockedSteps \cup {"idle", "lock"}

SnapFinal(p) == {t \in Txs : snap[p].status[t] = "FINALIZED"}
InBlock(p)   == {accepted[p][i] : i \in DOMAIN accepted[p]}

\* The oldest transaction of the batch.
IsNext(p, t) == t \in todo[p] /\ \A u \in todo[p] : created[t] <= created[u]

Goto(p, step) == pc' = [pc EXCEPT ![p] = step]

\* Leaving a pass drops its locals.
ClearPass(p) ==
  /\ snap' = [snap EXCEPT ![p] = EmptySnap]
  /\ todo' = [todo EXCEPT ![p] = {}]
  /\ accepted' = [accepted EXCEPT ![p] = << >>]
  /\ work' = [work EXCEPT ![p] = [slot \in Slots |-> 0]]

\* run_once: heartbeat, first load, leader check.  Of that load only the number
\* of blocks is used.
BeginPass(p) ==
  /\ pc[p] = "idle"
  /\ Leader(Len(blocks) + 1) = ValidatorOf[p]
  /\ Goto(p, "lock")
  /\ UNCHANGED <<tables, lock, leaked, apiVars, snap, todo, accepted, work, faults>>

\* Faulty variant: the answer of pg_try_advisory_lock is ignored.
LockAlwaysGranted == TRUE

LockIsFree == lock = None

\* pg_try_advisory_lock; a busy lock ends the pass.  A session that has the lock is
\* granted it again, if that is the one the pool hands out.
TryLock(p) ==
  /\ pc[p] = "lock"
  /\ \/ /\ LockIsFree \/ lock = p
        /\ lock' = p
        /\ Goto(p, "institutions")
     \/ /\ ~LockIsFree
        /\ UNCHANGED lock
        /\ Goto(p, "idle")
  /\ UNCHANGED <<tables, leaked, apiVars, snap, todo, accepted, work, faults>>

\* load_snapshot reads the tables one SELECT at a time.
LoadStep(p, from, to, newSnap) ==
  /\ pc[p] = from
  /\ Goto(p, to)
  /\ snap' = [snap EXCEPT ![p] = newSnap]
  /\ UNCHANGED <<tables, lock, leaked, apiVars, todo, accepted, work, faults>>

LoadInstitutions(p) ==
  LoadStep(p, "institutions", "balances", [snap[p] EXCEPT !.institution = institution])
LoadBalances(p) ==
  LoadStep(p, "balances", "payments", [snap[p] EXCEPT !.balance = balance])

\* Faulty variant: the SELECT leaves out block_height.
LoadPaymentsOnly(p) ==
  LoadStep(p, "payments", "cases", [snap[p] EXCEPT !.status = status])

LoadPayments(p) ==
  LoadStep(p, "payments", "cases", [snap[p] EXCEPT !.status = status, !.height = height])
LoadCases(p) ==
  LoadStep(p, "cases", "blocks", [snap[p] EXCEPT !.caseStatus = caseStatus])
LoadBlocks(p) ==
  LoadStep(p, "blocks", "fetch", [snap[p] EXCEPT !.blocks = blocks])

\* Faulty variants: no leader check under the lock; a check off by one height.
MayAlwaysProduce(p)  == TRUE
MayProduceEarlier(p) == Leader(Len(snap[p].blocks)) = ValidatorOf[p]

\* Leader check under the lock, on the height of the second load.
MayProduce(p) == Leader(Len(snap[p].blocks) + 1) = ValidatorOf[p]

\* Leader check under the lock, then pending_transactions: the oldest
\* MaxTxsPerBlock rows that are PENDING now.
FetchPending(p) ==
  LET batch == {t \in Pending :
                  Cardinality({u \in Pending : created[u] < created[t]}) < MaxTxsPerBlock}
  IN  /\ pc[p] = "fetch"
      /\ IF MayProduce(p) /\ batch # {}
           THEN /\ todo' = [todo EXCEPT ![p] = batch]
                /\ work' = [work EXCEPT ![p] = snap[p].balance]
                /\ Goto(p, "validate")
                /\ UNCHANGED <<snap, accepted>>
           ELSE ClearPass(p) /\ Goto(p, "release")
      /\ UNCHANGED <<tables, lock, leaked, apiVars, faults>>

\* Faulty variant: every transaction is checked against the loaded balances.
LoadedBalances(p) == snap[p].balance

\* Balances after the transactions accepted so far.
WorkingBalances(p) == work[p]

Accepts(p, t) == Valid(t, WorkingBalances(p), SnapFinal(p) \cup InBlock(p), nonce)

\* validate_transactions_for_next_block(accepted ++ <<t>>): accepted has been
\* validated by the earlier rounds, so t is checked against what it leaves.
AcceptNext(p) ==
  /\ pc[p] = "validate"
  /\ \E t \in todo[p] :
       /\ IsNext(p, t)
       /\ Accepts(p, t)
       /\ accepted' = [accepted EXCEPT ![p] = Append(@, t)]
       /\ work' = [work EXCEPT ![p] = Apply(t, @)]
       /\ todo' = [todo EXCEPT ![p] = @ \ {t}]
  /\ UNCHANGED <<tables, lock, leaked, apiVars, pc, snap, faults>>

\* reject_pending_transaction, first statement (WHERE status = 'PENDING').
RejectNext(p) ==
  /\ pc[p] = "validate"
  /\ \E t \in todo[p] :
       /\ IsNext(p, t)
       /\ ~Accepts(p, t)
       /\ status' = [status EXCEPT ![t] = IF @ = "PENDING" THEN "REJECTED" ELSE @]
  /\ Goto(p, "audit")
  /\ UNCHANGED <<institution, balance, nonce, created, height, caseStatus, blocks, audit,
                 lastFinal, lock, leaked, apiVars, snap, todo, accepted, work, faults>>

\* reject_pending_transaction, second statement.
AuditRejection(p) ==
  /\ pc[p] = "audit"
  /\ \E t \in todo[p] :
       /\ IsNext(p, t)
       /\ audit' = audit \cup {<<"TRANSACTION_REJECTED", t>>}
       /\ todo' = [todo EXCEPT ![p] = @ \ {t}]
  /\ Goto(p, "validate")
  /\ UNCHANGED <<institution, balance, status, nonce, created, height, caseStatus,
                 blocks, lastFinal, lock, leaked, apiVars, snap, accepted, work, faults>>

\* The batch is done: build, verify and apply the block to the local ledger, or
\* leave if nothing was accepted.
EndBatch(p) ==
  /\ pc[p] = "validate"
  /\ todo[p] = {}
  /\ IF accepted[p] # << >>
       THEN Goto(p, "save") /\ UNCHANGED <<snap, todo, accepted, work>>
       ELSE ClearPass(p) /\ Goto(p, "release")
  /\ UNCHANGED <<tables, lock, leaked, apiVars, faults>>

\* Faulty variants: the height of the last block is used again; next_height is
\* asked after the block was applied.
LoadedHeight(p)     == Len(snap[p].blocks)
HeightAfterApply(p) == Len(snap[p].blocks) + 2

\* InMemoryLedger::next_height of the loaded ledger.
NextHeight(p) == Len(snap[p].blocks) + 1

\* Faulty variant: a block replaces the one at its height.
BlockReplaces(bs, h, b) == IF Len(bs) < h THEN Append(bs, b) ELSE [bs EXCEPT ![h] = b]

\* INSERT INTO blocks ... ON CONFLICT (height) DO NOTHING
BlockInserted(bs, h, b) == IF Len(bs) < h THEN Append(bs, b) ELSE bs

\* What the upserts of payments, cases and audit events leave in the tables: a row of
\* the snapshot replaces the row with its id, and new rows stay.
SavedStatus(p) ==
  LET s == snap[p].status
  IN  [t \in Txs |-> IF t \in InBlock(p) THEN "FINALIZED"
                     ELSE IF s[t] # NoRow THEN s[t] ELSE status[t]]
SavedHeight(p) ==
  LET s == snap[p]
  IN  [t \in Txs |-> IF t \in InBlock(p) THEN NextHeight(p)
                     ELSE IF s.status[t] # NoRow THEN s.height[t] ELSE height[t]]
SavedCases(p) ==
  LET s == snap[p].caseStatus
  IN  [t \in Txs |-> IF s[t] # NoRow THEN s[t] ELSE caseStatus[t]]
SavedAudit(p) == audit \cup {<<"TRANSACTION_FINALIZED", t>> : t \in InBlock(p)}

\* save_snapshot of the working ledger, one database transaction.  Institutions,
\* balances, payments and cases are upserted from the snapshot, rows that exist
\* included; blocks are only inserted.
SaveSnapshot(p) ==
  LET block == [validator |-> ValidatorOf[p], txs |-> accepted[p],
                prev |-> LastHash(snap[p].blocks)]
  IN  /\ pc[p] = "save"
      /\ institution' = snap[p].institution
      /\ balance' = work[p]
      /\ status' = SavedStatus(p)
      /\ height' = SavedHeight(p)
      /\ caseStatus' = SavedCases(p)
      /\ blocks' = BlockInserted(blocks, NextHeight(p), block)
      /\ audit' = SavedAudit(p)
      /\ Goto(p, "record")
      /\ UNCHANGED <<nonce, created, lastFinal, lock, leaked, apiVars, snap, todo, accepted, work, faults>>

\* record_validator_finalized_block
RecordFinalized(p) ==
  /\ pc[p] = "record"
  /\ lastFinal' = [lastFinal EXCEPT ![ValidatorOf[p]] = NextHeight(p)]
  /\ ClearPass(p)
  /\ Goto(p, "release")
  /\ UNCHANGED <<institution, balance, status, nonce, created, height, caseStatus, blocks,
                 audit, lock, leaked, apiVars, faults>>

\* Faulty variant: the lock stays taken.
NotUnlocked(p)    == lock

Unlocked(p) == IF lock = p THEN None ELSE lock

\* BlockProductionLock::release.  A lock that was granted twice stays taken.
ReleaseLock(p) ==
  /\ pc[p] = "release"
  /\ lock' = IF leaked THEN lock ELSE Unlocked(p)
  /\ Goto(p, "idle")
  /\ UNCHANGED <<tables, leaked, apiVars, snap, todo, accepted, work, faults>>

-----------------------------------------------------------------------------
(* Faults.                                                                 *)

Fault == faults < MaxFaults /\ faults' = faults + 1

\* A statement fails, or its answer is lost: the pass returns the error and the
\* caller releases the lock.  So does a block that apply_block refuses, which a
\* validated batch never is.
StepFails(p) ==
  /\ pc[p] \in LockedSteps \ {"release"}
  /\ ClearPass(p)
  /\ Goto(p, "release")
  /\ Fault
  /\ UNCHANGED <<tables, lock, leaked, apiVars>>

\* The unlock statement fails on a connection that lives on: run_once returns, and
\* the connection goes back to the pool with the lock.
UnlockFails(p) ==
  /\ pc[p] = "release"
  /\ lock = p
  /\ leaked' = TRUE
  /\ Goto(p, "idle")
  /\ Fault
  /\ UNCHANGED <<tables, lock, apiVars, snap, todo, accepted, work>>

\* The session of p ends, and its lock with it.
SessionEnds(p) ==
  /\ lock' = Unlocked(p)
  /\ leaked' = (leaked /\ lock # p)

\* The pool closes a connection past its lifetime, once no pass uses it.
RetireSession(p) ==
  /\ leaked /\ lock = p
  /\ pc[p] \notin LockedSteps
  /\ SessionEnds(p)
  /\ UNCHANGED <<tables, apiVars, passVars, faults>>

\* The process dies and is started again; Postgres ends its session.
Crash(p) ==
  /\ pc[p] # "idle"
  /\ SessionEnds(p)
  /\ ClearPass(p)
  /\ Goto(p, "idle")
  /\ Fault
  /\ UNCHANGED <<tables, apiVars>>

\* Postgres ends the session that holds the lock; the process does not notice,
\* since the statements of the pass use other connections of the pool.
SessionDies(p) ==
  /\ SessionsCanDie
  /\ lock = p
  /\ SessionEnds(p)
  /\ Fault
  /\ UNCHANGED <<tables, apiVars, passVars>>

-----------------------------------------------------------------------------
Init ==
  /\ institution = [i \in Institutions |-> "APPROVED"]
  /\ balance = [slot \in Slots |-> 0]
  /\ status = [t \in Txs |-> NoRow]
  /\ nonce = [t \in Txs |-> 0]
  /\ created = [t \in Txs |-> 0]
  /\ height = [t \in Txs |-> 0]
  /\ caseStatus = [t \in Txs |-> NoRow]
  /\ blocks = << >>
  /\ audit = {}
  /\ lastFinal = [v \in Validators |-> 0]
  /\ lock = None /\ leaked = FALSE
  /\ request = [t \in Txs |-> "new"]
  /\ review = [r \in Reviewers |-> [tx |-> None, decision |-> "APPROVED"]]
  /\ pc = [p \in Processes |-> "idle"]
  /\ snap = [p \in Processes |-> EmptySnap]
  /\ todo = [p \in Processes |-> {}]
  /\ accepted = [p \in Processes |-> << >>]
  /\ work = [p \in Processes |-> [slot \in Slots |-> 0]]
  /\ faults = 0

ClientStep(t) == BeginRequest(t) \/ InsertTransaction(t) \/ InsertConflicts(t)

ReviewerStep(r) ==
  \/ \E t \in Txs, d \in {"APPROVED", "REJECTED"} : ReadCase(r, t, d)
  \/ ResolveCase(r)

LoadSnapshot(p) ==
  \/ LoadInstitutions(p) \/ LoadBalances(p) \/ LoadPayments(p)
  \/ LoadCases(p) \/ LoadBlocks(p)

ValidatorStep(p) ==
  \/ BeginPass(p) \/ TryLock(p) \/ LoadSnapshot(p) \/ FetchPending(p)
  \/ AcceptNext(p) \/ RejectNext(p) \/ AuditRejection(p) \/ EndBatch(p)
  \/ SaveSnapshot(p) \/ RecordFinalized(p) \/ ReleaseLock(p)

FaultStep(p) ==
  StepFails(p) \/ UnlockFails(p) \/ RetireSession(p) \/ Crash(p) \/ SessionDies(p)

Next ==
  \/ \E t \in Txs : ClientStep(t)
  \/ \E r \in Reviewers : ReviewerStep(r)
  \/ \E i \in Institutions : SuspendInstitution(i)
  \/ \E p \in Processes : ValidatorStep(p) \/ FaultStep(p)

Spec == Init /\ [][Next]_vars

\* run_forever: every validator keeps polling and finishes the passes it starts.  A
\* connection in the pool is closed in the end, however often passes borrow it.
FairSpec ==
  /\ Spec
  /\ \A p \in Processes : WF_vars(ValidatorStep(p)) /\ SF_vars(RetireSession(p))
=============================================================================
