---------------------- MODULE KaniSettlementProperties ----------------------
(***************************************************************************)
(* What the settlement path promises.  The properties of the first part    *)
(* hold of the code as long as Postgres keeps the session that holds the   *)
(* advisory lock alive; the second part states what the repository's       *)
(* documents say and the code does not do.                                 *)
(***************************************************************************)
EXTENDS KaniSettlement

HashSet == {GenesisHash} \cup (Nat \X Validators \X Seq(Txs))
Block   == [validator : Validators, txs : Seq(Txs), prev : HashSet]
Snapshot ==
  [institution : [Institutions -> {"APPROVED", "SUSPENDED"}],
   balance     : [Slots -> Int],
   status      : [Txs -> Statuses \cup {NoRow}],
   height      : [Txs -> Nat],
   caseStatus  : [Txs -> CaseStatuses \cup {NoRow}],
   blocks      : Seq(Block)]

\* Type invariant of every table and of every local of a pass.
TypeOK ==
  /\ institution \in [Institutions -> {"APPROVED", "SUSPENDED"}]
  /\ balance \in [Slots -> Int]
  /\ status \in [Txs -> Statuses \cup {NoRow}]
  /\ nonce \in [Txs -> Nat]
  /\ created \in [Txs -> Nat]
  /\ height \in [Txs -> Nat]
  /\ caseStatus \in [Txs -> CaseStatuses \cup {NoRow}]
  /\ blocks \in Seq(Block)
  /\ audit \subseteq {"TRANSACTION_REJECTED", "TRANSACTION_FINALIZED"} \X Txs
  /\ lastFinal \in [Validators -> Nat]
  /\ lock \in Processes \cup {None} /\ leaked \in BOOLEAN
  /\ request \in [Txs -> {"new", "stamped", "stored", "failed"}]
  /\ review \in [Reviewers -> [tx : Txs \cup {None}, decision : {"APPROVED", "REJECTED"}]]
  /\ pc \in [Processes -> Steps]
  /\ snap \in [Processes -> Snapshot]
  /\ todo \in [Processes -> SUBSET Txs]
  /\ accepted \in [Processes -> Seq(Txs)]
  /\ work \in [Processes -> [Slots -> Int]]
  /\ faults \in Nat

-----------------------------------------------------------------------------
(* Ledger.                                                                 *)

\* README "Validators also take a Postgres advisory lock during block
\* production": at most one validator is between taking and releasing the lock,
\* whatever crashes and failing statements happen.
OneProducer ==
  \A p, q \in Processes :
    pc[p] \in LockedSteps /\ pc[q] \in LockedSteps => p = q

\* Replaying the finalized transactions from the empty ledger gives the stored
\* balances: no pass works from, or saves, balances another pass has moved on.
BalancesReplay ==
  \A slot \in Slots : balance[slot] = Replayed(Finalized, slot)

\* No account is ever overdrawn, although a batch is checked against balances
\* that were loaded several statements earlier.
Solvent == \A slot \in Slots : balance[slot] >= 0

Committed(h) == {blocks[h].txs[i] : i \in DOMAIN blocks[h].txs}

\* A transaction is FINALIZED exactly when one block committed to it: the
\* transactions table lists under a height what the block's hash covers, and no
\* transaction is in two blocks or twice in one.
BlocksMatchTransactions ==
  /\ \A t \in Txs : status[t] = "FINALIZED" <=> height[t] # 0
  /\ \A h \in DOMAIN blocks : Committed(h) = {t \in Txs : height[t] = h}
  /\ \A t \in Txs : height[t] <= Len(blocks)
  /\ \A h \in DOMAIN blocks : Cardinality(Committed(h)) = Len(blocks[h].txs)

\* Every block names the hash of its predecessor and was produced by the leader
\* of its height.
ChainIsLinked ==
  \A h \in DOMAIN blocks :
    /\ blocks[h].prev = IF h = 1 THEN GenesisHash ELSE Hash(h - 1, blocks[h - 1])
    /\ blocks[h].validator = Leader(h)

\* Position of a transaction in the chain.
Before(t, u) ==
  \/ height[t] < height[u]
  \/ /\ height[t] = height[u]
     /\ LET txs == blocks[height[t]].txs
        IN  \E i, j \in DOMAIN txs : i < j /\ txs[i] = t /\ txs[j] = u

\* Along the chain the nonces of an account strictly grow: no transaction is
\* settled after a later one of the same account.
NoncesGrow ==
  \A t, u \in Finalized :
    Tx[t].from = Tx[u].from /\ nonce[t] >= nonce[u] /\ t # u => Before(u, t)

\* Finality is for ever: a finalized transaction keeps its status and height,
\* although every save writes all transactions of its snapshot again.
FinalityStep ==
  \A t \in Txs : status[t] = "FINALIZED" =>
    status'[t] = "FINALIZED" /\ height'[t] = height[t]
FinalityIsForever == [][FinalityStep]_vars

\* Blocks are only appended, one at a time.  This does not need the advisory
\* lock: the chain has no fork even if two passes save at once.
ChainStep ==
  /\ Len(blocks') \in {Len(blocks), Len(blocks) + 1}
  /\ \A h \in DOMAIN blocks : blocks'[h] = blocks[h]
ChainGrows == [][ChainStep]_vars

\* A held payment leaves review only by a reviewer's decision, taken in the same
\* step: no save of a validator releases it into settlement.
HeldStep ==
  \A t \in Txs : status[t] = "HELD" /\ status'[t] # "HELD" =>
    \/ status'[t] = "PENDING" /\ caseStatus'[t] = "APPROVED"
    \/ status'[t] = "REJECTED" /\ caseStatus'[t] = "REJECTED"
HeldUntilDecided == [][HeldStep]_vars

\* validator_status never runs ahead of the chain, and a validator's recorded
\* height is a block it produced.
StatusFollowsChain ==
  \A v \in Validators : lastFinal[v] # 0 =>
    lastFinal[v] <= Len(blocks) /\ blocks[lastFinal[v]].validator = v

\* The tables behave like a ledger that is changed atomically: although a pass
\* loads them one SELECT at a time, every block it saves is valid on the state it
\* is saved to.
Ledger == INSTANCE AtomicLedger
            WITH chain <- [h \in DOMAIN blocks |-> blocks[h].txs]
ImplementsAtomicLedger == Ledger!Spec

-----------------------------------------------------------------------------
(* Progress, under the fairness of run_forever.                            *)

\* Once validators stop failing, every pending transaction is decided for good: a
\* rejection that a save took back is made again, and stays.  The one way out is that
\* of a reviewed payment which a save throws back to HELD, for ever if its case is
\* decided: see DecisionsAreCarriedOut.
PendingIsDecided ==
  \A t \in Txs :
    status[t] = "PENDING" ~> \/ [](status[t] \in {"FINALIZED", "REJECTED"})
                             \/ Decision(t) = "Review" /\ status[t] = "HELD"

\* The advisory lock comes back however a pass ends, also when its unlock statement
\* fails and leaves the lock with a connection of the pool.
LockIsReleased ==
  \A p \in Processes : lock = p ~> lock # p

-----------------------------------------------------------------------------
(* What the documents say and the code does not do.                        *)

\* PHASE3_COMPLIANCE_CASES: "Approved cases release the held transaction to PENDING,
\* where the existing validator path can finalize it.  Rejected cases mark the payment
\* REJECTED and keep it out of settlement."  Neither half holds: two reviewers may
\* decide the same case, and a save brings back the payment as it was before.
DecisionsAreCarriedOut ==
  \A t \in Txs :
    /\ caseStatus[t] = "APPROVED" => status[t] # "HELD"
    /\ caseStatus[t] = "REJECTED" => status[t] # "FINALIZED"

\* PHASE1_RELEASE: "Pending transaction rejection with persisted REJECTED status,
\* failure reason, and TRANSACTION_REJECTED audit events."  A payment no reviewer
\* saw is rejected by a validator, which goes on to record the event; and what was
\* recorded as rejected does not settle.
RejectionsStand ==
  \A t \in Txs :
    /\ status[t] = "REJECTED" /\ Decision(t) # "Review" =>
         \/ <<"TRANSACTION_REJECTED", t>> \in audit
         \/ \E p \in Processes : pc[p] = "audit" /\ t \in todo[p]
    /\ <<"TRANSACTION_REJECTED", t>> \in audit => status[t] # "FINALIZED"
=============================================================================
