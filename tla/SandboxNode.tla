----------------------------- MODULE SandboxNode -----------------------------
(***************************************************************************)
(* The default deployment: one API process that keeps the ledger in memory *)
(* and settles every payment in a block of its own.  The ledger sits       *)
(* behind a mutex.  A handler takes it several times, and between two      *)
(* sections other handlers run; when its client disconnects, the handler   *)
(* is dropped where it waits.  Each section of a handler is one action.    *)
(*                                                                         *)
(* A call is named by the transaction it would create; found is the        *)
(* payment it answers with.  Nothing survives the process, so a restart is *)
(* a new behavior.                                                         *)
(***************************************************************************)
EXTENDS Compliance, Consensus

CONSTANTS
  Institutions,
  Owner,        \* [Accounts -> Institutions]
  Caller,       \* [Txs -> Institutions]: the institution a call authenticates as
  References,
  Ref,          \* [Txs -> client references or NoRef]
  NoRef,
  Admins,       \* concurrent requests of administrators
  Administered, \* institutions administrators suspend or onboard again
  None

ASSUME OwnerAssumption == Owner \in [Accounts -> Institutions]
ASSUME CallerAssumption == Caller \in [Txs -> Institutions]
ASSUME RefAssumption ==
  /\ Ref \in [Txs -> References \cup {NoRef}]
  /\ \A t \in Txs : Tx[t].kind # "TRANSFER" => Ref[t] = NoRef   \* only payments have one
ASSUME NoneAssumption == None \notin Txs /\ NoRef \notin References

NoRow == "NONE"

VARIABLES
  institution,  \* institutions: their status
  balance,      \* balances
  lastNonce,    \* nonces: of the last transaction applied for an account
  status,       \* payments: their status, NoRow if there is none
  nonce,        \* payments: the nonce of their transaction
  height,       \* payments: block_height, 0 for None
  caseStatus,   \* compliance_cases, by payment
  blocks,
  audit,        \* audit_events about payments: pairs <<event type, payment>>
  pc, found,    \* progress of a call
  admin         \* what a reviewer's request has decided and not yet recorded

ledger == <<institution, balance, lastNonce, status, nonce, height, caseStatus, blocks>>
vars   == <<ledger, audit, pc, found, admin>>

Answers == {"paid", "denied", "failed", "conflict", "no case", "lost"}
Steps   == {"new", "submit", "hold", "opened", "answer"}

Rows      == {t \in Txs : status[t] # NoRow}
Finalized == {t \in Txs : status[t] = "FINALIZED"}

Goto(t, step) == pc' = [pc EXCEPT ![t] = step]
Record(event, t) == audit' = audit \cup {<<event, t>>}

-----------------------------------------------------------------------------
(* Admission of a payment or a mint.                                       *)

\* authorize_account_control; the institution is read, once.
Authorized(t) ==
  Caller[t] = Owner[Tx[t].from] /\ institution[Caller[t]] = "APPROVED"

\* submit_validated_payment; enforce_payment_compliance reads no state.
AdmitPayment(t) ==
  /\ pc[t] = "new" /\ Tx[t].kind = "TRANSFER"
  /\ Goto(t, IF ~Authorized(t) \/ Decision(t) = "Reject" THEN "denied"
             ELSE IF Decision(t) = "Review" THEN "hold" ELSE "submit")
  /\ UNCHANGED <<ledger, audit, found, admin>>

\* sandbox_mint wants a treasury account, and screens nothing.
AdmitMint(t) ==
  /\ pc[t] = "new" /\ Tx[t].kind = "MINT"
  /\ Goto(t, IF Authorized(t) /\ Tx[t].from \in Treasuries THEN "submit" ELSE "denied")
  /\ UNCHANGED <<ledger, audit, found, admin>>

-----------------------------------------------------------------------------
(* KaniNode, each operation in one section of the mutex.                   *)

\* Faulty variant: finalized payments are not looked at.
UnderRefUnsettled(t) == {u \in Rows \ Finalized : Ref[t] # NoRef /\ Ref[u] = Ref[t]}

\* get_payment_by_client_reference_id
UnderRef(t) == {u \in Rows : Ref[t] # NoRef /\ Ref[u] = Ref[t]}

\* Faulty variant: the nonces of payments under review count, too.
NextNonceOfRows(t) ==
  1 + Cardinality({u \in Rows : Tx[u].from = Tx[t].from})

\* next_nonce: nothing is reserved for payments under review.
NextNonce(t) == lastNonce[Tx[t].from] + 1

\* ensure_idempotent_retry, and for a payment under review the search for its case.
Retry(t) ==
  /\ pc[t] \in {"submit", "hold"}
  /\ \E p \in UnderRef(t) :
       IF Tx[p] = Tx[t]
         THEN /\ found' = [found EXCEPT ![t] = p]
              /\ Goto(t, IF pc[t] = "submit" THEN "answer"
                         ELSE IF caseStatus[p] # NoRow THEN "opened" ELSE "no case")
         ELSE Goto(t, "conflict") /\ UNCHANGED found
  /\ UNCHANGED <<ledger, audit, admin>>

\* submit_payment and mint_sandbox behind the API; burn_sandbox has no handler.
Submits(t) ==
  /\ pc[t] = IF Tx[t].kind = "BURN" THEN "new" ELSE "submit"
  /\ UnderRef(t) = {}

NewBlock(t) ==
  LET h == Len(blocks) + 1
  IN  [validator |-> Leader(h), tx |-> t, votes |-> FinalityVotes(h)]

\* Faulty variant: the transactions of the block are not validated.
VerifiedBlind(b, nonces) ==
  /\ b.validator = Leader(Len(blocks) + 1)
  /\ IsQuorum(b.votes)
  /\ b.validator \in Voters(b.votes)

\* verify_phase1_block
Verified(b, nonces) ==
  /\ b.validator = Leader(Len(blocks) + 1)
  /\ IsQuorum(b.votes)
  /\ b.validator \in Voters(b.votes)
  /\ Valid(b.tx, balance, Finalized, nonces)

\* produce_and_apply_locked: build a block, verify it, apply it to a copy of the
\* ledger and put the copy in place.
Settle(t) ==
  LET drawn == [nonce EXCEPT ![t] = NextNonce(t)]
      block == NewBlock(t)
  IN  /\ Submits(t)
      /\ Verified(block, drawn)
      /\ balance' = Apply(t, balance)
      /\ nonce' = drawn
      /\ lastNonce' = [lastNonce EXCEPT ![Tx[t].from] = NextNonce(t)]
      /\ status' = [status EXCEPT ![t] = "FINALIZED"]
      /\ height' = [height EXCEPT ![t] = Len(blocks) + 1]
      /\ blocks' = Append(blocks, block)
      /\ Record("TRANSACTION_FINALIZED", t)
      /\ found' = [found EXCEPT ![t] = t]
      /\ Goto(t, "answer")
      /\ UNCHANGED <<institution, caseStatus, admin>>

\* The block does not verify: the ledger is as it was.
SettleFails(t) ==
  /\ Submits(t)
  /\ ~Verified(NewBlock(t), [nonce EXCEPT ![t] = NextNonce(t)])
  /\ Goto(t, "failed")
  /\ UNCHANGED <<ledger, audit, found, admin>>

\* hold_payment_for_review
Hold(t) ==
  /\ pc[t] = "hold"
  /\ UnderRef(t) = {}
  /\ nonce' = [nonce EXCEPT ![t] = NextNonce(t)]
  /\ status' = [status EXCEPT ![t] = "HELD"]
  /\ caseStatus' = [caseStatus EXCEPT ![t] = "OPENED"]
  /\ found' = [found EXCEPT ![t] = t]
  /\ Goto(t, "opened")
  /\ UNCHANGED <<institution, balance, lastNonce, height, blocks, audit, admin>>

AuditOpened(t) ==
  /\ pc[t] = "opened"
  /\ Record("COMPLIANCE_CASE_OPENED", found[t])
  /\ Goto(t, "answer")
  /\ UNCHANGED <<ledger, found, admin>>

Answer(t) ==
  /\ pc[t] = "answer"
  /\ Goto(t, "paid")
  /\ UNCHANGED <<ledger, audit, found, admin>>

\* The client disconnects and the server drops the handler.
Lose(t) ==
  /\ pc[t] \in Steps
  /\ Goto(t, "lost")
  /\ UNCHANGED <<ledger, audit, found, admin>>

-----------------------------------------------------------------------------
(* Administrators.                                                         *)

\* Faulty variant: the case is not looked at again.
DecidableAgain(t) == caseStatus[t] # NoRow

\* ensure_case_not_terminal
Decidable(t) == caseStatus[t] = "OPENED"

\* Faulty variants: the payment takes the status of its case; a rejection
\* releases it.
DecidedAsCase(decision) == decision
DecidedPending(decision) == "PENDING"

\* mark_pending, mark_rejected
Decided(decision) == IF decision = "APPROVED" THEN "PENDING" ELSE "REJECTED"

\* approve_ and reject_compliance_case: the payment takes the new status whatever
\* its status was.
ResolveCase(a, t, decision) ==
  /\ admin[a] = None
  /\ Decidable(t)
  /\ caseStatus' = [caseStatus EXCEPT ![t] = decision]
  /\ status' = [status EXCEPT ![t] = Decided(decision)]
  /\ admin' = [admin EXCEPT ![a] = <<decision, t>>]
  /\ UNCHANGED <<institution, balance, lastNonce, nonce, height, blocks, audit, pc, found>>

\* The event is recorded in a section of its own.
AuditDecision(a) ==
  /\ admin[a] # None
  /\ audit' = audit \cup {admin[a]}
  /\ admin' = [admin EXCEPT ![a] = None]
  /\ UNCHANGED <<ledger, pc, found>>

LoseDecision(a) ==
  /\ admin[a] # None
  /\ admin' = [admin EXCEPT ![a] = None]
  /\ UNCHANGED <<ledger, audit, pc, found>>

\* suspend_institution, and create_institution for an id that exists: the record
\* is replaced, its status is REQUESTED.
ChangeInstitution(i, newStatus) ==
  /\ i \in Administered
  /\ institution' = [institution EXCEPT ![i] = newStatus]
  /\ UNCHANGED <<balance, lastNonce, status, nonce, height, caseStatus, blocks, audit, pc,
                 found, admin>>

-----------------------------------------------------------------------------
Init ==
  /\ institution = [i \in Institutions |-> "APPROVED"]
  /\ balance = [slot \in Slots |-> 0]
  /\ lastNonce = [x \in Accounts |-> 0]
  /\ status = [t \in Txs |-> NoRow]
  /\ nonce = [t \in Txs |-> 0]
  /\ height = [t \in Txs |-> 0]
  /\ caseStatus = [t \in Txs |-> NoRow]
  /\ blocks = << >>
  /\ audit = {}
  /\ pc = [t \in Txs |-> "new"]
  /\ found = [t \in Txs |-> None]
  /\ admin = [a \in Admins |-> None]

CallStep(t) ==
  \/ AdmitPayment(t) \/ AdmitMint(t) \/ Retry(t) \/ Settle(t) \/ SettleFails(t)
  \/ Hold(t) \/ AuditOpened(t) \/ Answer(t) \/ Lose(t)

AdminStep(a) ==
  \/ \E t \in Txs, d \in {"APPROVED", "REJECTED"} : ResolveCase(a, t, d)
  \/ AuditDecision(a) \/ LoseDecision(a)

Next ==
  \/ \E t \in Txs : CallStep(t)
  \/ \E a \in Admins : AdminStep(a)
  \/ \E i \in Institutions, s \in {"SUSPENDED", "REQUESTED"} : ChangeInstitution(i, s)

Spec == Init /\ [][Next]_vars
=============================================================================
