# A TLA+ verification of the KANI sandbox ledger

KANI is a sandbox settlement network written in Rust: an HTTP API takes payments between
institutions, a compliance policy lets them pass, holds them for review or turns them down, and
blocks signed by rotating validators settle them. The code exists in two deployments that share
types and rules and little else:

* **in memory** (the default): one API process, the ledger behind a mutex, every payment settled
  at once in a block of its own;
* **Postgres**: any number of API processes insert rows, and validator processes poll for pending
  rows and turn them into blocks. No process keeps state of its own; everything is shared through
  tables, read and written by autocommitted statements and short database transactions.

This directory models both, checks them with TLC on small instances and proves what matters most
with TLAPS for all instances. Paths below are relative to the repository.

## 1. Inventory

| Component | State | Operations | Where |
|---|---|---|---|
| Ledger rules | balances, nonces, issued supply | `validate_transaction`, `apply_transaction`, `apply_block` | `crates/kani-ledger` 652-811, 2914-3022 |
| Postgres store | tables `institutions`, `balances`, `transactions`, `compliance_cases`, `blocks`, `audit_events`, `validator_status`, advisory lock | `enqueue_pending_transaction`, `hold_payment_for_review`, `approve_`/`reject_compliance_case`, `load_snapshot`, `save_snapshot`, `reject_transaction`, lock and unlock | `crates/kani-ledger` 821-2424 |
| Validator runtime | locals of a pass: snapshot, batch, accepted transactions | `run_once`, `run_once_with_block_lock`, `reject_pending_transaction`, `run_forever` | `crates/kani-node` 786-971 |
| In-memory node | `InMemoryLedger` behind a mutex | `submit_payment`, `mint_sandbox`, `burn_sandbox`, `hold_payment_for_review`, case decisions | `crates/kani-node` 133-784 |
| API | none of its own; it sequences calls and audit events | admission, payments, mints, cases, institutions, reports | `crates/kani-api` |
| Compliance policy | configuration | `screen_sandbox_payment_with_policy` | `crates/kani-compliance` |
| Consensus engines | validator set | leader, threshold, votes, certificate checks (proof of authority, BFT prototype) | `crates/kani-consensus` |
| Institutions | tables `institutions`, `institution_credentials`, `institution_limits` | onboarding, suspension, limits, credentials; seeding and upgrading at start-up | `crates/kani-api` 1936-2150, `crates/kani-ledger` 875-1081 |
| Reads of the API | none; several SELECTs per answer | pages of blocks, supply, balance, settlement and finality reports, latest block | `crates/kani-api` 2277-2695 |
| ISO 20022 | none | pacs.008, pacs.002, camt.053 mapping | `crates/kani-iso20022`, `crates/kani-api` 991-1114 |
| Cryptography | profile | hashes, sandbox signatures | `crates/kani-crypto` |
| Cost guard | none: a notification lives in the request that delivers it | `budget_events`, `handle_budget_event`, `pause_scheduler_job` | `crates/kani-api/src/bin/kani-cost-guard.rs` |
| Entry points, migrations, infrastructure, scripts | | | `crates/*/src/main.rs`, `migrations`, `infra`, `k8s`, `scripts` |

How they interact: the API calls the node, the node calls the store or the in-memory ledger. On
Postgres, API and validators meet only in the tables; mutual exclusion of validators rests on
`pg_try_advisory_lock`, uniqueness of payments on the unique indexes of `transactions`
(`migrations/0001`, `0003`). In the cloud a Scheduler job starts the validators, and the cost guard
pauses that job when Cloud Billing reports that the budget is spent; Pub/Sub lies between the two.

What is hard here:

* a validator loads the ledger with one SELECT after the other, works on that copy, and finally
  **writes the copy back**, rows of others included (`save_snapshot`);
* the advisory lock belongs to one database session, the statements of the pass run in others;
* submission reads the next nonce, looks up the client reference and inserts in three statements;
* reviewers read a case in one statement and decide it in another;
* in memory, a handler takes the mutex several times, and a handler whose client disconnects is
  dropped wherever it waits;
* every process that starts may seed or upgrade the database, and decides to do so from a SELECT
  it made earlier; administrators change the very rows that a pass is about to write back;
* an answer of the API is put together from several SELECTs, and an evidence pack from several
  answers, while blocks are settled;
* validators crash, statements fail, answers get lost and clients retry;
* Pub/Sub repeats and reorders budget notifications, and a pause call may take effect although
  its caller saw an error.

`PROJECT.json` lists these hazards at their lines, with the properties that watch them.

What makes each part correct, in one line: money is neither made nor lost and no account is
overdrawn (rules); one chain, never rewritten, that the tables agree with (store, validators);
every pending transaction is eventually decided (validators); one payment per client reference
and truthful answers (submission); a held payment moves only by a decision, and the decision, the
payment and the audit trail agree (compliance); two quorums always share an honest validator
(consensus); the registry holds what administrators put there, and what they were told is done
stays (institutions); what an operator collects over a growing chain fits together (reads); a
notification that calls for the brake is not forgotten before the brake is on, and
nothing else puts it on (cost guard).

## 2. Modules

| Module | Models |
|---|---|
| `LedgerRules` | the rules as pure operators: `Valid`, `Apply`, `Issued` |
| `Compliance` | the screening policy as an operator |
| `Consensus` | leader rotation, thresholds, votes and their verification, both engines |
| `BftFinality` | the BFT prototype's proposals, votes, certificates and finality proofs as values |
| `AtomicLedger` | abstract: one chain, extended in one step by a batch that is valid there and then |
| `KaniSettlement` | the Postgres settlement path, one action per statement or database transaction |
| `KaniSettlementProperties` | its properties and the refinement of `AtomicLedger` |
| `IdempotentSubmission` | abstract: requests under client references, handled at once |
| `Submission`, `SubmissionProperties` | submission on Postgres, statement by statement; refines it |
| `SandboxNode`, `SandboxNodeProperties` | the in-memory deployment, one action per section of the mutex; refines `AtomicLedger` |
| `CostGuard` | the handler of budget notifications between Pub/Sub and the Scheduler, call by call |
| `Registry` | institutions, credentials and limits on Postgres: start-up, administration and the passes that save them |
| `Evidence` | an evidence pack read over the API while `AtomicLedger` grows: paging, reports, camt.053 |
| `MC*` | instances for TLC |
| `*Proofs` | theorems and their proofs |

`KaniSettlement` and `SandboxNode` extend `Compliance`, `Consensus` and through them
`LedgerRules`, so both deployments are checked against one set of rules.

### Correspondence with the code

*KaniSettlement.* `BeginRequest`, `InsertTransaction` and `InsertConflicts` are a request (nonce,
then row); `ReadCase` and `ResolveCase` the two halves of a decision; `SuspendInstitution` the
administrator. A pass of a validator is `BeginPass` (heartbeat, first load, leader check),
`TryLock`, five `Load...` steps in the order of `load_snapshot`, `FetchPending` (second leader
check and the batch), `AcceptNext`/`RejectNext`/`AuditRejection` per transaction, `EndBatch`,
`SaveSnapshot`, `RecordFinalized`, `ReleaseLock`. `StepFails`, `UnlockFails`, `Crash` and
`SessionDies` are the faults. A lock that outlives its unlock statement stays with the session of a
pooled connection (`leaked`), which goes on to give it to its own process and to nobody else, until
the pool closes the connection (`RetireSession`). `EndBatch` leaves out the error path of
`apply_block`: a batch validated one transaction after the other on the same copy cannot fail
there. `snap`, `todo`, `accepted` and `work` are the locals of the pass.

*Submission.* `ReadNonce`, `Lookup`, `Insert`/`InsertNothing`/`InsertRefused`, `LookupAgain`,
`FindCase`, `AuditCase`, `Answer`; `Lose` at any step. Postgres evaluates `ON CONFLICT
(client_reference_id)` before it inserts, but a statement that overlaps may still hit the other
index; the model leaves both outcomes open.

*SandboxNode.* `AdmitPayment`, `AdmitMint`, `Retry`, `Settle`/`SettleFails`, `Hold`, `AuditOpened`, `Answer` are the
sections of a payment; `ResolveCase` and `AuditDecision` those of a reviewer; `Lose` and
`LoseDecision` drop a handler. `ChangeInstitution` is suspension, and onboarding over an existing
id, which resets the status to REQUESTED. Burns have no HTTP handler and enter at `Settle`.

*CostGuard.* `Ignore` is every early return of `handle_budget_event`, `AskToken` and `CallPause`
the two awaits before the Scheduler answers, `CallSucceeds` and `CallFails` the ways out of
`pause_scheduler_job`, `Answer` is `budget_events`. Cloud Billing (`Spend`, `Publish`), Pub/Sub
(`Deliver`), the Scheduler (`PauseJob`, `LatePause`) and the operator (`Resume`) are external and
as unhelpful as their documentation allows: a push may be repeated while the first is in hand and
after it was acknowledged, `Drop` cuts a request off anywhere, and a pause call survives its
caller. A budget is a set of pairs of cost and budget amount (`Figures`), a budget of zero among them;
what share of it is spent is known to billing (`HasReached`) and computed by the code
(`ShouldPause`) independently of each other. `billed` and `braked` are history: the figures at the
time a message was sent, and which messages paused the job.

*Registry.* `Start`, `ReadAccounts`, `ReadInstitutions`, `SeedDatabase` and `UpgradeNext` are
`ensure_sandbox_seed` of a starting process (its load, then one save or an upsert per
institution). `TakeLock`, four `Load...` steps, `SaveSnapshot`/`SaveConflicts` and `EndPass` are the pass
that `KaniSettlement` models in full, reduced to what it does to the registry: one deposit per
block stands for the ledger. `AfterPass` is the run mode of `main`: for ever, once, or a sweep that
connects again for its next validator. `Authorize`, `CheckInstitution`, `CreateInstitution`,
`SuspendInstitution`, `InsertCredential`, `UpsertLimit` and `AuditAndAnswer` are the statements of the
administration handlers, and `HandlerStops`, `Crash` and `PassFails` the faults. The save upserts in
the order of the ids, and `Upserts` says whether the UNIQUE code lets every row through.

*Evidence.* One action per SELECT: `ReadPage` and `ReadPageTransactions` are a page of
`/v1/blocks` with `next_offset`, `ReadPayments` and `ReadLatest` the latest block, `ReadIssued`,
`ReadBalance`, `ReadReportRows` with `ReadSummary` or `ReadFinality` the reports, two `ReadStatement`
steps the camt.053 statement: the order of `PHASE5A_LEDGER_REPLAY_FINALITY.md`, of which the sampled
transactions, the second balance, the audit events and the list of validators are left out.
`Settle` is `save_snapshot` seen from outside: `AppendBlock` of
`AtomicLedger`, which `KaniSettlement` implements. An amount of a statement has no sign but an
indicator, and `Signed` is how a reader undoes that.

*BftFinality.* The prototype keeps no state and is called by tests only, so it is a set of
operators with theorems and has no run. `VerifyFinalityProof` shows what the check does not look at:
the heights of proof and certificate, and the kind of the votes.

### Abstractions

* Amounts are integers; i128 and NUMERIC(38) limits are not modelled.
* A transaction is a model value; `Tx` gives its columns. `created_at` is a distinct stamp; ties
  do not occur.
* A block hash is the triple of height, producer and transactions: what the code hashes, without
  collisions. Signatures are functions of the hash. `SandboxNode` leaves out the previous hash.
* A request fingerprint is equality of payloads.
* Heartbeats (`last_seen`) change nothing that is read by a decision and are left out. Journal
  entries are in `Evidence`, where a statement reads them; credentials, limits and authorization
  events in `Registry`. No admission decision looks at credentials or limits, so `KaniSettlement`
  and `SandboxNode` do without them.
* In `Registry` a limit is a pair of numbers for one asset, a credential a fingerprint, and the
  names, roles and dates of an institution are left out; the audit log is a set of events.
* In `Evidence` the time windows of the reports are open, and which journal entries a limit cuts
  off is left open, because they are ordered by the clocks of several validators.
* In `CostGuard` thresholds are percentages and ratios are compared by multiplication; the code
  divides f64 values, which may differ in the last place at the boundary.
* A process that crashes is restarted. `MaxFaults` bounds faults in the runs, not in the proofs.

## 3. Runs

| Run | Instance | States | Shows |
|---|---|---|---|
| `settlement` | 4 processes (two under one id), 3 validators, 3 transactions, 1 reviewer, 1 fault, blocks of 2 | 400 k | exclusion, replayable balances, solvency, blocks and rows agree, finality, review, refinement |
| `settlement_live` | the same path with fairness | 168 k | pending transactions are finalized or rejected, the lock comes back, nonces grow along the chain |
| `dead_session_chain` | Postgres may end the lock's session | 2.3 M | the chain stays linked and is only appended to, lock or no lock |
| `submission` | 5 requests: a reviewed payment and its retry, a conflicting payload, two without reference | 239 k | dense nonces, open cases, refinement |
| `sandbox` | 6 calls, two of them retries, 2 reviewers, a suspension, 4 validators | 731 k | cases agree with payments, safe retries, nonces, backed supply, quorum overlap, true audit trail, refinement |
| `cost_guard` | 2 notifications, 2 requests in hand, 2 budgets, 1 fault, spending below and exactly at the threshold, a budget of zero, fairness | 473 k | no brake is lost, only overspending brakes, every brake engages, the queue drains |
| `registry` | the API and 2 validators on an empty or an old database, 2 seed institutions and 1 more, 2 deposits, any 2 of 8 requests, 1 fault | 860 k | whole seeds, authorized tables, answers that are backed, deposits that settle |
| `evidence` | 4 transactions, pages of 1 block, reports and statements of 3 rows | 50 k | complete walks, statements that add up, answers that follow the chain, evidence that reconciles |
| `case_decisions`, `rejections`, `registry_changes`, `seeding` | | | disagreements with the documents, section 5 |

Bounds. Three transactions are a mint and two that depend on it, so a batch of two can be
accepted whole, in part or not at all, and a second block can follow; the code's default of 25
per block only makes batches longer. Two processes under one id and two under others give both
kinds of competition, for the lock and for the turn. One fault is enough to interrupt a pass at
every statement; a second fault finds the tables in a state the first already left them in, and
the theorems do not bound faults. In `sandbox` the treasury mints two units, so that one small
payment and the burn, or the large payment alone, exhaust them; both payments share a reference.
Four validators are the fewest for which one may be faulty. Screening limits are set so that
payments of one unit pass and larger ones are reviewed. In `cost_guard` two requests are needed for
a notification to be handled twice at once or overtaken. Its one fault is a failing or hanging
call, a lost answer, or a redelivery after the acknowledgement; redelivery before the acknowledgement is not
counted, and the theorems count nothing. The other budget on the topic is always overspent.

In `registry` the codes are chosen so that a request can take the code of another institution between
a load and its save, and a credential is asked for twice; the deposits have different
leaders, one runs for ever and one does not. In `evidence` a page of one block makes every block a
page boundary, and limits of three rows are reached by four transactions.

Symmetry: the twin processes p1 and p2 in the settlement runs without liveness, and each call with its
retry in `sandbox`. They are interchangeable in every constant.

Deadlock is checked in the cost guard's run only: elsewhere requests end and validators without pending transactions stay idle.

Fairness: weak fairness of `ValidatorStep(p)` for every process. `run_forever` polls for ever
and treats an error of a pass as a reason to log and poll again, so a process that can take its
next statement eventually does. Nothing is assumed of clients, reviewers, administrators or
faults (which `MaxFaults` ends). A session that kept the lock because its unlock statement failed
ends under strong fairness of `RetireSession(p)`: the pool of sqlx closes a connection that is half an
hour old or has been idle for ten minutes, its defaults, which the code does not change, but not
while a pass uses it. Liveness therefore says: once faults stop, pending transactions are finalized
or rejected and stay so, except those under review that a save may hold again (`case_decisions`). In `cost_guard`: weak fairness of delivering each message that is not acknowledged
(the subscription's retry policy has no end) and of every request's next step; the Scheduler and
the metadata server answer once faults stop. Nothing is assumed of billing and of the operator.
In `registry`: weak fairness of the start-up and of the passes of every validator, because a
process that ends is started again (by the Scheduler job or the container platform) and then does
its work; nothing is assumed of the API.

## 4. Proofs

| Module | Theorems | Assumes |
|---|---|---|
| `LedgerRulesProofs` | `IssuedSteps`, `ReplayedSteps`, `HeldSteps`, `MoneyIsConserved`, `AlongSteps`, `AlongAppend`, `AlongReplays` | constants' assumptions |
| `KaniSettlementProofs` | `MutualExclusion`, `BlocksMatch`, `NoncesInOrder`, `NeverOverdrawn`, `StatusIsTrue`, `Finality`, `ReviewDecides`, `BalancesAreReplayed`, `SettlementConserves`, `Refinement` | sessions do not die |
| `KaniSettlementProofs` | `TypeCorrect`, `ChainLinked`, `NoFork` | nothing about the lock |
| `SubmissionProofs` | `TypeCorrect`, `OnePayment`, `Nonces`, `Review`, `Refinement` | constants' assumptions |
| `ConsensusProofs` | `VotesAreQuorum`, `QuorumsIntersect`, `SimulatedProofVerifies`, `FinalityProofsIntersect` | at least three validators, distinct ids |
| `SandboxNodeProofs` | `TypeCorrect`, `CasesAlwaysAgree`, `Retries`, `NoncesInOrder`, `AuditHolds`, `SupplyHolds`, `Overlap`, `Refinement` | as `ConsensusProofs` |
| `CostGuardProofs` | `TypeCorrect`, `BrakeKept`, `SpendingOnly` | constants' assumptions |
| `RegistryProofs` | `TypeCorrect`, `PassesTakeTurns`, `SeedWhole`, `Authorized`, `Backed`, `RowsStay` | constants' assumptions |
| `EvidenceProofs` | `WalkComplete`, `StatementsAddUp`, `EvidenceFollowsChain`, `EvidenceIsConsistent`, `ObservesAtomicLedger` | constants' assumptions |

The assumptions on constants say that the columns of a transaction have their types, that
transactions and accounts are finitely many (they are rows of tables), that treasuries are
accounts, and what each module says at its own `ASSUME`s.

*Ledger rules.* Supplies and balances are folds over sets, that is, functions defined by recursion
that take the elements in an order nobody chose. The prover cannot instantiate an induction
principle that takes a predicate, but it can use one about a set: the numbers for which a claim
fails, if there are any, have a smallest one (`SmallestNumber`), and so a set of subsets that has
the empty set and is closed under adding an element has every subset (`SubsetInduction`). From
these follow that the fold exists (`FoldExists`), that the order does not matter
(`SumAnyFirst`), and the form in which the other proofs use the sums: an element more adds its
amount (`IssuedSteps`, `ReplayedSteps`). `HeldSteps` sums over accounts, where a transfer touches
two of them, or one twice. `Along` is the recursion over a batch; `AlongReplays` relates it to the
replay of sets. `MoneyIsConserved` is the conservation law of the rules alone.

*Settlement.* The properties speak of tables, and a save depends on what a pass loaded many
statements earlier; they are not inductive. The invariant adds what connects the two: a process
in a locked step is the one that holds the lock (who holds it need not be in a locked step: its
session may have kept it after a failed unlock); what it has loaded so far (balances, which
transactions are final or held, heights, blocks) still agrees with the tables; what it has
accepted is pending, ordered by nonce and funded by the balances it works on. Others may insert
rows, decide cases and suspend meanwhile, and the proof shows that none of that touches the
agreement. The step that needs exclusion is that nobody else saves.

`AtomicInv` adds what connects a pass with an atomic step: the balances a pass works on are the
stored ones after its accepted transactions, each of which was valid at its place in the batch,
and a request that is new has drawn no nonce. With it a save is one `AppendBlock` whose batch is
valid at the moment of the save, a request that reads its nonce is `DrawNonce`, and every other
statement, crash or rejection is invisible. The stored balances are a replay (`BalancesAreReplayed`)
because a batch holds no finalized transaction and none twice; with `MoneyIsConserved` that gives
`SettlementConserves`.

*Chain.* Without the lock the snapshot may be stale. What survives is weaker: a pass that has
loaded blocks knows a prefix of the chain. A block for a height that exists is not inserted, a
block for the next height was made from the whole chain, and its producer passed the leader check.

*Submission.* Rows are only added. The invariant says what a request knows at each statement:
a nonce it has read is one past a dense prefix, what it found is a row under its reference with
its payload. `Refinement` maps "row inserted" to making the payment and every answer to telling it.

*Consensus.* With n validators both thresholds t satisfy t <= n and 2t > n + (n-1) div 3, from
which the overlap follows by counting.

*In-memory node.* The invariant says what the sections of a handler leave to each other: a call
that has not reached the ledger has no payment, a call that found one found what it asked for,
a decision not yet recorded is still the one on the case, and the nonce of the ledger counts the
blocks of the account. For `Refinement`, a settled call is one step of `AtomicLedger` that draws a
nonce and appends a block of one transaction, a held payment one that draws a nonce only, and
everything else stutters. That needs three facts more: no nonce is drawn for a call without a
payment, the blocks are exactly the finalized payments, and nonces are bounded by the payments
made; a block of one is valid against the abstract balances because they are the same balances.
`SupplyHolds` is inductive on top of the invariant: only a settled call moves money, and `HeldSteps`
and `IssuedSteps` say by how much.

*Cost guard.* Neither property is inductive: what a request will be answered depends on checks made
several calls earlier. The invariant says that whatever is in flight is published and so no longer
changes, that only notifications which call for the brake get past the checks, that a request about
to answer with success has seen the job paused (`Answered`), and that a message carries the
figures and the highest threshold that were true when it was sent (`Billed`). What the code computes
from those is then compared with what was spent, at the boundary and for a budget of zero:
`SentWhenReached` and `BrakesWhenOverspent`.

*Registry.* What a save writes was read several statements earlier, so the invariant speaks of
the snapshots of the processes as well as of the tables: every row, credential and limit in a
snapshot was authorized by then, and authorizations are never taken back (`AuthInv`). That the
count of deposits stays within its bound needs that nobody else settles between a load and its
save (`PassInv`). `SeedInv` says that a process which has seen accounts can rely on them, that
accounts and institutions of an empty database come in one transaction, and that an old database
is never seeded; `HandlerInv` says what each statement of a handler leaves for the next. Answers are
backed because no step deletes (`RowsStay`), for which an upsert of stale rows is enough.

*Evidence.* The walk: `WalkIsComplete` does not say where the walk is. `WalkInv` adds it: every page
before the current one was full, so that the offset is the number of collected blocks; the rows
found for the current page follow them without a gap; and when fewer rows than the limit were
found, the walk has passed the height at which it began.

The answers: each is about the chain as it was when it was read. `AnswersInv` says that there are
heights, one for each answer and none below the one before, such that every answer there is tells
of the blocks up to its height. A request that is answered moves its height and all later ones to
the end of the chain; a block that is settled moves none, because what the blocks below a height say
does not change (`PrefixesStay`). `LedgerInv`: the balances replay the whole chain and no transaction
is in two blocks. The lines of a prefix add up to the balance it leaves (`NetOfLines`, by adding one
transaction after the other), lines above a height belong to later blocks, and so the statement
adds up. That no entry was cut off needs that different entries give different lines
(`EntriesDiffer`), because the limit is on entries and the property on lines. `AnswersFollowChain` is
the invariant at the end. `EvidenceReconciles` follows by squeezing: when the finality report counts
no more blocks than the pages, every answer between the two is about the collected blocks.

Only model-checked: liveness (`PendingIsDecided`, `LockIsReleased`, `BrakeEngages`, `QueueDrains`,
`DepositsSettle`), because fairness and ENABLED are beyond the prover, and the disagreements of
section 5, which are counterexamples. Every invariant, action property and refinement that a
passing run checks is proved.

## 5. Where code and documents disagree

A run stops at the first counterexample, the shortest. Each of these properties takes a whole
sentence of a document, and the code contradicts it in more than one way; the run shows the first
of the two and would show the second once the first is mended.

| Run | The document | What the run shows | What violates the same property |
|---|---|---|---|
| `case_decisions` | `PHASE3_COMPLIANCE_CASES.md`: approved cases release the payment, rejected cases keep it out of settlement | two reviewers decide a case, and a save writes back the HELD that was loaded before; the case is APPROVED, terminal, and cannot be approved again | two reviewers read an open case; after an approval settled the payment the other's rejection is recorded on the case |
| `rejections` | `PHASE1_RELEASE.md`: a rejection is persisted and has its `TRANSACTION_REJECTED` event | status and event are two statements; a pass that fails between them leaves a rejection no later pass returns to | without any fault, the pass that rejected a transaction writes PENDING back, and a later pass settles it |
| `registry_changes` | `PHASE3_INSTITUTION_MODEL.md`: suspensions and changes of limits are audited requests | a process that starts on a database it found empty saves its institutions over a suspension | the save of a pass that loaded before restores a status or a limit |
| `seeding` | `PHASE3_INSTITUTION_MODEL.md`: old databases get the missing institutions, balances are not overwritten | a process that dies between two of the upserts leaves some, and no later start adds the others | two processes find the database empty; the slower one saves its zero balances over deposits that were settled meanwhile, and the blocks stay |

Three more have no run of their own. `/v1/blocks/latest` reads transactions before blocks (`ReadPayments`,
`ReadLatest` of `Evidence`), so that a block settled in between is answered without its transactions,
against the stability of block hashes in `PHASE5A_LEDGER_REPLAY_FINALITY.md`; `EvidenceReconciles` says when the
latest block is whole. The advisory lock excludes duplicate processes only while its
session lives: `dead_session_chain` shows what is left then. A reviewer's decision and its audit
event are separate awaits, and a handler dropped between them leaves a decision without an event
(`LoseDecision` of `SandboxNode`).

What is open by design: the cost guard remembers no message, so a redelivered notification pauses
a job that the operator has resumed, and no document says that a resume lasts.

Worth knowing: within one account the index on nonces alone would already prevent two payments
under one reference, because both attempts draw nonces from the same sequence; the index on
references matters across accounts. What fails on Postgres about cases holds in memory
(`CasesAgree`), where deciding is one section of the mutex. In memory an approved payment stays
PENDING for ever: no loop settles it.

## 6. Not modelled, and the plan

Not modelled (`PROJECT.json` gives the reasons): the text of pacs.008 and pacs.002, cryptography,
API keys and their storage, the searches of payments, audit events and journal entries by filters,
the compliance report, configuration, migrations as a process, infrastructure and scripts. They
parse, format or read without deciding anything; what a search returns while rows change is the
walk of `Evidence` again, with one difference that no document speaks about: the list of
pending transactions shrinks at its front while a client pages through it, so that a page may skip
rows. The status in a pacs.002 is the status column, which may go back from REJECTED to PENDING
for the second reason of `rejections`.

Also out of reach: a suspension between admission and insertion (the code promises nothing
about it), overflow of i128 and NUMERIC(38), f64 ratios at the threshold of the cost guard.

Order of work, done first what carries the money: (1) ledger rules, settlement path, atomic
ledger; (2) submission and its abstract specification; (3) consensus, compliance and the
in-memory node; (4) BFT certificates and the cost guard; (5) start-up, registry and evidence;
(6) the sums of the ledger rules, conservation of money, the refinement by the settlement path and
the evidence pack, as proofs. What could come next: what the settlement tables still promise
about balances when the session of the lock dies, beyond the chain of `dead_session_chain`.
