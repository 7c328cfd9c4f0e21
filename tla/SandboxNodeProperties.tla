------------------------ MODULE SandboxNodeProperties ------------------------
(***************************************************************************)
(* What the in-memory node promises.  Several of these do not hold of the  *)
(* Postgres deployment, whose handlers have no mutex.                      *)
(***************************************************************************)
EXTENDS SandboxNode

Statuses == {NoRow, "HELD", "PENDING", "REJECTED", "FINALIZED"}
Decisions == {"APPROVED", "REJECTED"}

\* Type invariant of the ledger and of the handlers' locals.
TypeOK ==
  /\ institution \in [Institutions -> {"APPROVED", "SUSPENDED", "REQUESTED"}]
  /\ balance \in [Slots -> Int]
  /\ lastNonce \in [Accounts -> Nat]
  /\ status \in [Txs -> Statuses]
  /\ nonce \in [Txs -> Nat]
  /\ height \in [Txs -> Nat]
  /\ caseStatus \in [Txs -> {NoRow, "OPENED"} \cup Decisions]
  /\ blocks \in Seq([validator : Active, tx : Txs, votes : Seq(Active)])
  /\ pc \in [Txs -> Steps \cup Answers]
  /\ found \in [Txs -> Txs \cup {None}]
  /\ \A t \in Txs : pc[t] \in {"opened", "answer", "paid"} => found[t] \in Rows
  /\ admin \in [Admins -> (Decisions \X Txs) \cup {None}]

\* A case and its payment always agree: under review while the case is open,
\* released by an approval, rejected by a rejection.  approve_compliance_case
\* does not look at the payment's status, so this needs that a case is decided
\* once and that nothing else moves a payment that has a case.
CasesAgree ==
  \A t \in Txs :
    /\ caseStatus[t] = "OPENED"   <=> status[t] = "HELD"
    /\ caseStatus[t] = "APPROVED" <=> status[t] = "PENDING"
    /\ caseStatus[t] = "REJECTED" <=> status[t] = "REJECTED"

\* One payment per client reference, and a client that is answered, its own
\* request or a retry, is answered with a payment of exactly what it asked for.
RetriesAreSafe ==
  /\ \A t, u \in Rows : Ref[t] # NoRef /\ Ref[t] = Ref[u] => t = u
  /\ \A t \in Txs : pc[t] = "paid" => Tx[found[t]] = Tx[t] /\ Ref[found[t]] = Ref[t]

\* The finalized nonces of an account are 1, 2, 3, ... in the order of the chain,
\* although payments under review hold nonces that were never reserved.
NoncesFollowChain ==
  \A h \in DOMAIN blocks :
    LET from == Tx[blocks[h].tx].from
    IN  nonce[blocks[h].tx] = Cardinality({k \in 1..h : Tx[blocks[k].tx].from = from})

\* The units of an asset in all accounts are the units issued and not burnt.
SupplyIsBacked ==
  \A asset \in Assets :
    MapThenSumSet(LAMBDA x : balance[<<x, asset>>], Accounts) = Issued(Finalized, asset)

\* Any two blocks share more voters than may be faulty: one honest validator
\* voted for both.
QuorumsOverlap ==
  \A h, k \in DOMAIN blocks :
    Cardinality(Voters(blocks[h].votes) \cap Voters(blocks[k].votes)) > Tolerated

\* What the audit trail says of a case or a settlement is so, and stays so.
AuditIsTrue ==
  \A t \in Txs :
    /\ <<"TRANSACTION_FINALIZED", t>> \in audit <=> status[t] = "FINALIZED"
    /\ <<"COMPLIANCE_CASE_OPENED", t>> \in audit => caseStatus[t] # NoRow
    /\ \A d \in Decisions : <<d, t>> \in audit => caseStatus[t] = d

\* The node behaves like the ledger that is changed atomically.
Ledger == INSTANCE AtomicLedger
            WITH chain <- [h \in DOMAIN blocks |-> <<blocks[h].tx>>]
ImplementsAtomicLedger == Ledger!Spec
=============================================================================
