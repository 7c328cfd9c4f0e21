-------------------------- MODULE SandboxNodeProofs --------------------------
(***************************************************************************)
(* The in-memory node, for every set of calls, accounts, institutions,     *)
(* administrators and validators.                                          *)
(*                                                                         *)
(* The invariant says what the sections of a handler leave to one another: *)
(* a call that has not reached the ledger has no payment, a call that has  *)
(* found one found a payment of what it asked for, and a decision that is  *)
(* still to be recorded is the one on the case.                            *)
(***************************************************************************)
EXTENDS SandboxNodeProperties, ConsensusProofs, LedgerRulesProofs

Waiting   == {"new", "submit", "hold"}
Answering == {"opened", "answer", "paid"}

\* What a call knows.
CallInv ==
  \A t \in Txs :
    /\ pc[t] \in Waiting => status[t] = NoRow
    /\ pc[t] \in Answering => Tx[found[t]] = Tx[t] /\ Ref[found[t]] = Ref[t]
    /\ pc[t] = "opened" => caseStatus[found[t]] # NoRow

\* One payment per client reference.
OnePerRef == \A t, u \in Rows : Ref[t] # NoRef /\ Ref[t] = Ref[u] => t = u

\* A decision to be recorded stands.
AdminInv == \A a \in Admins : admin[a] # None => caseStatus[admin[a][2]] = admin[a][1]

\* The blocks of bs up to h that settle a transaction of account x.
Of(bs, x, h) == {k \in 1..h : Tx[bs[k].tx].from = x}

\* Blocks are certified and hold finalized transactions; the ledger's nonces
\* count them.
ChainInv ==
  /\ \A h \in DOMAIN blocks : status[blocks[h].tx] = "FINALIZED" /\ IsQuorum(blocks[h].votes)
  /\ \A x \in Accounts : lastNonce[x] = Cardinality(Of(blocks, x, Len(blocks)))
  /\ \A h \in DOMAIN blocks :
       nonce[blocks[h].tx] = Cardinality(Of(blocks, Tx[blocks[h].tx].from, h))

IInv == TypeOK /\ CallInv /\ OnePerRef /\ CasesAgree /\ AuditIsTrue /\ AdminInv /\ ChainInv

-----------------------------------------------------------------------------
(* Types.                                                                  *)

\* Transactions belong to accounts, and the next nonce is a nonce.
LEMMA FromType ==
  ASSUME NEW t \in Txs, TypeOK
  PROVE  Tx[t].from \in Accounts /\ NextNonce(t) \in Nat
BY TxAssumption DEF TypeOK, NextNonce

\* build_block gives a well-formed block.
LEMMA NewBlockType ==
  ASSUME NEW t \in Txs, TypeOK
  PROVE  /\ NewBlock(t) \in [validator : Active, tx : Txs, votes : Seq(Active)]
         /\ NewBlock(t).tx = t
         /\ IsQuorum(NewBlock(t).votes)
<1>1. Len(blocks) + 1 \in Nat \ {0}
  BY DEF TypeOK
<1> QED
  BY <1>1, VotesType, VotesAreQuorum DEF NewBlock

\* A block of the chain is well-formed.
LEMMA BlockType ==
  ASSUME TypeOK
  PROVE  /\ Len(blocks) \in Nat /\ DOMAIN blocks = 1..Len(blocks)
         /\ \A h \in 1..Len(blocks) : blocks[h].tx \in Txs /\ blocks[h].votes \in Seq(Active)
<1> DEFINE B == [validator : Active, tx : Txs, votes : Seq(Active)]
<1>1. blocks \in Seq(B)
  BY DEF TypeOK
<1>2. \A b \in B : b.tx \in Txs /\ b.votes \in Seq(Active)
  OBVIOUS
<1> HIDE DEF B
<1>3. Len(blocks) \in Nat /\ DOMAIN blocks = 1..Len(blocks)
      /\ \A h \in 1..Len(blocks) : blocks[h] \in B
  BY <1>1
<1> QED
  BY <1>2, <1>3

\* The three parts of the type invariant: the ledger, the handlers of payments
\* and the handlers of administrators.
LedgerTypes ==
  /\ institution \in [Institutions -> {"APPROVED", "SUSPENDED", "REQUESTED"}]
  /\ balance \in [Slots -> Int]
  /\ lastNonce \in [Accounts -> Nat]
  /\ status \in [Txs -> Statuses]
  /\ nonce \in [Txs -> Nat]
  /\ height \in [Txs -> Nat]
  /\ caseStatus \in [Txs -> {NoRow, "OPENED"} \cup Decisions]
  /\ blocks \in Seq([validator : Active, tx : Txs, votes : Seq(Active)])

CallTypes ==
  /\ pc \in [Txs -> Steps \cup Answers]
  /\ found \in [Txs -> Txs \cup {None}]
  /\ \A t \in Txs : pc[t] \in {"opened", "answer", "paid"} => found[t] \in Rows

AdminTypes == admin \in [Admins -> (Decisions \X Txs) \cup {None}]

\* They are the type invariant, now and in the next state.
LEMMA TypeParts ==
  /\ TypeOK <=> LedgerTypes /\ CallTypes /\ AdminTypes
  /\ TypeOK' <=> LedgerTypes' /\ CallTypes' /\ AdminTypes'
BY DEF TypeOK, LedgerTypes, CallTypes, AdminTypes

\* Init gives every variable its type.
LEMMA TypeInit == Init => TypeOK
<1> SUFFICES ASSUME Init PROVE LedgerTypes /\ CallTypes /\ AdminTypes
  BY TypeParts
<1>1. LedgerTypes
  BY DEF Init, LedgerTypes, Statuses, NoRow
<1>2. CallTypes
  BY DEF Init, CallTypes, Steps, Answers
<1>3. AdminTypes
  BY DEF Init, AdminTypes
<1> QED
  BY <1>1, <1>2, <1>3

\* A step that leaves the ledger alone leaves its types and its payments alone.
LEMMA SameLedger ==
  ASSUME LedgerTypes, UNCHANGED ledger
  PROVE  LedgerTypes' /\ Rows' = Rows
BY DEF LedgerTypes, ledger, Rows

\* A handler that has no answer to keep moves on.
LEMMA MoveOn ==
  ASSUME CallTypes, NEW t \in Txs, NEW step \in Steps \cup Answers,
         step \notin {"opened", "answer", "paid"} \/ found[t] \in Rows,
         Goto(t, step), found' = found, Rows \subseteq Rows'
  PROVE  CallTypes'
BY DEF CallTypes, Goto

\* A handler that has found a payment moves on.
LEMMA MoveOnWith ==
  ASSUME CallTypes, NEW t \in Txs, NEW step \in Steps \cup Answers, NEW p \in Txs,
         p \in Rows', Goto(t, step), found' = [found EXCEPT ![t] = p], Rows \subseteq Rows'
  PROVE  CallTypes'
BY DEF CallTypes, Goto

\* Every action keeps the types.
LEMMA TypeStep == TypeOK /\ [Next]_vars => TypeOK'
<1> SUFFICES ASSUME TypeOK, [Next]_vars
             PROVE  LedgerTypes' /\ CallTypes' /\ AdminTypes'
  BY TypeParts
<1>0. LedgerTypes /\ CallTypes /\ AdminTypes
  BY TypeParts
<1>1. ASSUME NEW t \in Txs, AdmitPayment(t) \/ AdmitMint(t)
      PROVE  LedgerTypes' /\ CallTypes' /\ AdminTypes'
  <2>1. UNCHANGED ledger /\ UNCHANGED admin /\ UNCHANGED found
    BY <1>1 DEF AdmitPayment, AdmitMint
  <2>2. PICK step \in {"denied", "hold", "submit"} : Goto(t, step)
    BY <1>1 DEF AdmitPayment, AdmitMint
  <2>3. step \in Steps \cup Answers /\ step \notin {"opened", "answer", "paid"}
    BY <2>2 DEF Steps, Answers
  <2> QED
    BY <1>0, <2>1, <2>2, <2>3, SameLedger, MoveOn DEF AdminTypes
<1>2. ASSUME NEW t \in Txs, Retry(t)
      PROVE  LedgerTypes' /\ CallTypes' /\ AdminTypes'
  <2>1. UNCHANGED ledger /\ UNCHANGED admin
    BY <1>2 DEF Retry
  <2>2. LedgerTypes' /\ AdminTypes' /\ Rows' = Rows
    BY <1>0, <2>1, SameLedger DEF AdminTypes
  <2>3. PICK p \in UnderRef(t) :
          \/ /\ found' = [found EXCEPT ![t] = p]
             /\ \E step \in {"answer", "opened", "no case"} : Goto(t, step)
          \/ Goto(t, "conflict") /\ UNCHANGED found
    BY <1>2 DEF Retry
  <2>4. p \in Rows /\ p \in Txs
    BY DEF UnderRef, Rows
  <2>5. "conflict" \in Answers /\ {"answer", "opened", "no case"} \subseteq Steps \cup Answers
    BY DEF Steps, Answers
  <2>6. CASE Goto(t, "conflict") /\ UNCHANGED found
    BY <1>0, <2>2, <2>5, <2>6, MoveOn
  <2>7. CASE /\ found' = [found EXCEPT ![t] = p]
             /\ \E step \in {"answer", "opened", "no case"} : Goto(t, step)
    <3>1. PICK step \in {"answer", "opened", "no case"} : Goto(t, step)
      BY <2>7
    <3> QED
      BY <1>0, <2>2, <2>4, <2>5, <2>7, <3>1, MoveOnWith
  <2> QED
    BY <2>2, <2>3, <2>6, <2>7
<1>3. ASSUME NEW t \in Txs, Settle(t)
      PROVE  LedgerTypes' /\ CallTypes' /\ AdminTypes'
  <2>1. Rows \subseteq Rows' /\ t \in Rows'
    BY <1>0, <1>3 DEF Settle, LedgerTypes, Rows, NoRow
  <2>2. blocks' \in Seq([validator : Active, tx : Txs, votes : Seq(Active)])
    <3> DEFINE B == [validator : Active, tx : Txs, votes : Seq(Active)]
    <3>1. blocks \in Seq(B) /\ NewBlock(t) \in B /\ blocks' = Append(blocks, NewBlock(t))
      BY <1>0, <1>3, NewBlockType DEF Settle, LedgerTypes
    <3> HIDE DEF B
    <3>2. blocks' \in Seq(B)
      BY <3>1
    <3> QED
      BY <3>2 DEF B
  <2>3. /\ balance' \in [Slots -> Int]
        /\ lastNonce' \in [Accounts -> Nat]
        /\ nonce' \in [Txs -> Nat]
    BY <1>3, ApplyType, FromType DEF Settle, TypeOK
  <2>4. Len(blocks) + 1 \in Nat
    BY DEF TypeOK
  <2>5. status' \in [Txs -> Statuses] /\ height' \in [Txs -> Nat]
    BY <1>0, <1>3, <2>4 DEF Settle, LedgerTypes, Statuses
  <2>6. LedgerTypes' /\ AdminTypes'
    BY <1>0, <1>3, <2>2, <2>3, <2>5 DEF Settle, LedgerTypes, AdminTypes
  <2>7. Goto(t, "answer") /\ found' = [found EXCEPT ![t] = t] /\ "answer" \in Steps
    BY <1>3 DEF Settle, Steps
  <2> QED
    BY <1>0, <2>1, <2>6, <2>7, MoveOnWith
<1>4. ASSUME NEW t \in Txs, SettleFails(t) \/ Lose(t)
      PROVE  LedgerTypes' /\ CallTypes' /\ AdminTypes'
  <2>1. /\ UNCHANGED ledger /\ UNCHANGED admin /\ UNCHANGED found
        /\ \E step \in {"failed", "lost"} : Goto(t, step)
    BY <1>4 DEF SettleFails, Lose
  <2>2. {"failed", "lost"} \subseteq Answers
    BY DEF Answers
  <2> QED
    BY <1>0, <2>1, <2>2, SameLedger, MoveOn DEF AdminTypes
<1>5. ASSUME NEW t \in Txs, Hold(t)
      PROVE  LedgerTypes' /\ CallTypes' /\ AdminTypes'
  <2>1. Rows \subseteq Rows' /\ t \in Rows'
    BY <1>0, <1>5 DEF Hold, LedgerTypes, Rows, NoRow
  <2>2. nonce' \in [Txs -> Nat] /\ status' \in [Txs -> Statuses]
    BY <1>0, <1>5, FromType DEF Hold, LedgerTypes, Statuses
  <2>3. caseStatus' \in [Txs -> {NoRow, "OPENED"} \cup Decisions]
    BY <1>0, <1>5 DEF Hold, LedgerTypes
  <2>4. LedgerTypes' /\ AdminTypes'
    BY <1>0, <1>5, <2>2, <2>3 DEF Hold, LedgerTypes, AdminTypes
  <2>5. Goto(t, "opened") /\ found' = [found EXCEPT ![t] = t] /\ "opened" \in Steps
    BY <1>5 DEF Hold, Steps
  <2> QED
    BY <1>0, <2>1, <2>4, <2>5, MoveOnWith
<1>6. ASSUME NEW t \in Txs, AuditOpened(t) \/ Answer(t)
      PROVE  LedgerTypes' /\ CallTypes' /\ AdminTypes'
  <2>1. /\ UNCHANGED ledger /\ UNCHANGED admin /\ UNCHANGED found
        /\ pc[t] \in {"opened", "answer"}
        /\ \E step \in {"answer", "paid"} : Goto(t, step)
    BY <1>6 DEF AuditOpened, Answer
  <2>2. {"answer", "paid"} \subseteq Steps \cup Answers
    BY DEF Steps, Answers
  <2>3. found[t] \in Rows
    BY <1>0, <2>1 DEF CallTypes
  <2> QED
    BY <1>0, <2>1, <2>2, <2>3, SameLedger, MoveOn DEF AdminTypes
<1>7. ASSUME NEW a \in Admins, NEW t \in Txs, NEW d \in Decisions, ResolveCase(a, t, d)
      PROVE  LedgerTypes' /\ CallTypes' /\ AdminTypes'
  <2>1. Rows \subseteq Rows'
    BY <1>0, <1>7 DEF ResolveCase, LedgerTypes, Rows, NoRow, Decided
  <2>2. CallTypes'
    BY <1>0, <1>7, <2>1 DEF ResolveCase, CallTypes
  <2>3. AdminTypes'
    BY <1>0, <1>7 DEF ResolveCase, AdminTypes
  <2>4. status' \in [Txs -> Statuses]
    BY <1>0, <1>7 DEF ResolveCase, LedgerTypes, Statuses, Decided
  <2>5. LedgerTypes'
    BY <1>0, <1>7, <2>4 DEF ResolveCase, LedgerTypes
  <2> QED
    BY <2>2, <2>3, <2>5
<1>8. ASSUME NEW a \in Admins, AuditDecision(a) \/ LoseDecision(a)
      PROVE  LedgerTypes' /\ CallTypes' /\ AdminTypes'
  <2>1. UNCHANGED ledger /\ UNCHANGED <<pc, found>>
    BY <1>8 DEF AuditDecision, LoseDecision
  <2>2. AdminTypes'
    BY <1>0, <1>8 DEF AuditDecision, LoseDecision, AdminTypes
  <2> QED
    BY <1>0, <2>1, <2>2, SameLedger DEF CallTypes
<1>9. ASSUME NEW i \in Institutions, NEW s \in {"SUSPENDED", "REQUESTED"},
             ChangeInstitution(i, s)
      PROVE  LedgerTypes' /\ CallTypes' /\ AdminTypes'
  <2>1. LedgerTypes' /\ Rows' = Rows
    BY <1>0, <1>9 DEF ChangeInstitution, LedgerTypes, Rows
  <2> QED
    BY <1>0, <1>9, <2>1 DEF ChangeInstitution, CallTypes, AdminTypes
<1>10. CASE UNCHANGED vars
  <2>1. UNCHANGED ledger /\ UNCHANGED <<pc, found, admin>>
    BY <1>10 DEF vars
  <2> QED
    BY <1>0, <2>1, SameLedger DEF CallTypes, AdminTypes
<1> QED
  BY <1>1, <1>2, <1>3, <1>4, <1>5, <1>6, <1>7, <1>8, <1>9, <1>10
  DEF Next, CallStep, AdminStep, Decisions

-----------------------------------------------------------------------------
(* What leaves most of the ledger alone.                                   *)

\* The steps that touch neither payments nor cases.
Quiet ==
  \/ \E t \in Txs : \/ AdmitPayment(t) \/ AdmitMint(t) \/ Retry(t)
                    \/ SettleFails(t) \/ AuditOpened(t) \/ Answer(t) \/ Lose(t)
  \/ \E a \in Admins : AuditDecision(a) \/ LoseDecision(a)
  \/ \E i \in Institutions, s \in {"SUSPENDED", "REQUESTED"} : ChangeInstitution(i, s)
  \/ UNCHANGED vars

\* They do not.
LEMMA QuietFrame ==
  ASSUME Quiet
  PROVE  UNCHANGED <<balance, status, caseStatus, nonce, lastNonce, blocks>>
BY DEF Quiet, AdmitPayment, AdmitMint, Retry, SettleFails, AuditOpened, Answer, Lose, AuditDecision,
       LoseDecision, ChangeInstitution, vars, ledger

\* A call reaches the ledger once: it has no payment when it settles or is held.
LEMMA Fresh ==
  ASSUME CallInv, NEW t \in Txs, Settle(t) \/ Hold(t)
  PROVE  status[t] = NoRow /\ UnderRef(t) = {}
BY DEF CallInv, Settle, Hold, Submits, Waiting

\* A case that may be decided is that of a payment under review.
LEMMA UnderReview ==
  ASSUME CasesAgree, NEW a, NEW t \in Txs, NEW d, ResolveCase(a, t, d)
  PROVE  status[t] = "HELD" /\ caseStatus[t] = "OPENED"
BY DEF CasesAgree, ResolveCase, Decidable

-----------------------------------------------------------------------------
(* Payments and cases.                                                     *)

\* No handler gives a second payment to a reference.
LEMMA RefStep == TypeOK /\ CallInv /\ CasesAgree /\ OnePerRef /\ [Next]_vars => OnePerRef'
<1> SUFFICES ASSUME TypeOK, CallInv, CasesAgree, OnePerRef, [Next]_vars
             PROVE  OnePerRef'
  OBVIOUS
<1>1. ASSUME NEW t \in Txs, Settle(t) \/ Hold(t)
      PROVE  OnePerRef'
  <2>1. Rows' = Rows \cup {t}
    BY <1>1 DEF Settle, Hold, Rows, TypeOK, NoRow
  <2> QED
    BY <1>1, <2>1, Fresh DEF OnePerRef, UnderRef
<1>2. ASSUME NEW a \in Admins, NEW t \in Txs, NEW d \in Decisions, ResolveCase(a, t, d)
      PROVE  OnePerRef'
  <2>1. Rows' = Rows
    BY <1>2, UnderReview DEF ResolveCase, Rows, TypeOK, NoRow, Decided
  <2> QED
    BY <2>1 DEF OnePerRef
<1>3. CASE Quiet
  BY <1>3, QuietFrame DEF OnePerRef, Rows
<1> QED
  BY <1>1, <1>2, <1>3 DEF Next, CallStep, AdminStep, Decisions, Quiet

\* Cases and payments move together.
LEMMA CasesStep == TypeOK /\ CallInv /\ CasesAgree /\ [Next]_vars => CasesAgree'
<1> SUFFICES ASSUME TypeOK, CallInv, CasesAgree, [Next]_vars
             PROVE  CasesAgree'
  OBVIOUS
<1>1. ASSUME NEW t \in Txs, Settle(t) \/ Hold(t)
      PROVE  CasesAgree'
  BY <1>1, Fresh DEF Settle, Hold, TypeOK, CasesAgree, NoRow
<1>2. ASSUME NEW a \in Admins, NEW t \in Txs, NEW d \in Decisions, ResolveCase(a, t, d)
      PROVE  CasesAgree'
  BY <1>2, UnderReview DEF ResolveCase, TypeOK, CasesAgree, Decided, Decisions
<1>3. CASE Quiet
  BY <1>3, QuietFrame DEF CasesAgree
<1> QED
  BY <1>1, <1>2, <1>3 DEF Next, CallStep, AdminStep, Decisions, Quiet

\* What a call knows stays true whatever other handlers do.
LEMMA CallStepInv == TypeOK /\ CallInv /\ CasesAgree /\ [Next]_vars => CallInv'
<1> SUFFICES ASSUME TypeOK, CallInv, CasesAgree, [Next]_vars
             PROVE  CallInv'
  OBVIOUS
<1> USE DEF Goto, Waiting, Answering
<1>1. ASSUME NEW t \in Txs, AdmitPayment(t) \/ AdmitMint(t)
      PROVE  CallInv'
  BY <1>1 DEF AdmitPayment, AdmitMint, CallInv, TypeOK, ledger
<1>2. ASSUME NEW t \in Txs, Retry(t)
      PROVE  CallInv'
  <2>1. PICK p \in UnderRef(t) :
          IF Tx[p] = Tx[t]
            THEN /\ found' = [found EXCEPT ![t] = p]
                 /\ pc' = [pc EXCEPT ![t] = IF pc[t] = "submit" THEN "answer"
                             ELSE IF caseStatus[p] # NoRow THEN "opened" ELSE "no case"]
            ELSE pc' = [pc EXCEPT ![t] = "conflict"] /\ UNCHANGED found
    BY <1>2 DEF Retry
  <2>2. UNCHANGED <<status, caseStatus>>
    BY <1>2 DEF Retry, ledger
  <2>3. p \in Txs /\ Ref[p] = Ref[t]
    BY DEF UnderRef, Rows
  <2>4. ASSUME NEW u \in Txs, u # t
        PROVE  pc'[u] = pc[u] /\ found'[u] = found[u]
    BY <2>1, <2>4 DEF TypeOK
  <2>5. CASE Tx[p] = Tx[t]
    <3>1. found'[t] = p /\ pc'[t] \in {"answer", "opened", "no case"}
          /\ (pc'[t] = "opened" => caseStatus[p] # NoRow)
      BY <2>1, <2>5 DEF TypeOK
    <3>2. \A u \in Txs \ {t} :
            /\ pc'[u] \in Waiting => status'[u] = NoRow
            /\ pc'[u] \in Answering => Tx[found'[u]] = Tx[u] /\ Ref[found'[u]] = Ref[u]
            /\ pc'[u] = "opened" => caseStatus'[found'[u]] # NoRow
      BY <2>2, <2>4 DEF CallInv
    <3>3. /\ pc'[t] \notin Waiting
          /\ Tx[found'[t]] = Tx[t] /\ Ref[found'[t]] = Ref[t]
          /\ pc'[t] = "opened" => caseStatus'[found'[t]] # NoRow
      BY <2>2, <2>3, <2>5, <3>1
    <3> QED
      BY <3>2, <3>3 DEF CallInv
  <2>6. CASE Tx[p] # Tx[t]
    <3>1. pc'[t] = "conflict"
      BY <2>1, <2>6 DEF TypeOK
    <3> QED
      BY <2>2, <2>4, <3>1 DEF CallInv
  <2> QED
    BY <2>5, <2>6
<1>3. ASSUME NEW t \in Txs, Settle(t) \/ Hold(t)
      PROVE  CallInv'
  <2>1. /\ pc'[t] \in {"answer", "opened"} /\ found'[t] = t
        /\ pc'[t] = "opened" => caseStatus'[t] = "OPENED"
    BY <1>3 DEF Settle, Hold, TypeOK
  <2>2. ASSUME NEW u \in Txs, u # t
        PROVE  pc'[u] = pc[u] /\ found'[u] = found[u] /\ status'[u] = status[u]
    BY <1>3, <2>2 DEF Settle, Hold, TypeOK
  <2>3. \A u \in Txs : caseStatus[u] # NoRow => caseStatus'[u] # NoRow
    BY <1>3 DEF Settle, Hold, TypeOK, NoRow
  <2>4. \A u \in Txs : pc[u] = "opened" => found[u] \in Txs
    BY DEF TypeOK, Rows
  <2> QED
    BY <2>1, <2>2, <2>3, <2>4 DEF CallInv, NoRow
<1>4. ASSUME NEW t \in Txs, SettleFails(t) \/ AuditOpened(t) \/ Answer(t) \/ Lose(t)
      PROVE  CallInv'
  BY <1>4 DEF SettleFails, AuditOpened, Answer, Lose, CallInv, TypeOK, ledger
<1>5. ASSUME NEW a \in Admins, NEW t \in Txs, NEW d \in Decisions, ResolveCase(a, t, d)
      PROVE  CallInv'
  <2>1. UNCHANGED <<pc, found>> /\ \A u \in Txs : status[u] = NoRow => status'[u] = NoRow
    BY <1>5, UnderReview DEF ResolveCase, TypeOK, NoRow
  <2>2. \A u \in Txs : caseStatus[u] # NoRow => caseStatus'[u] # NoRow
    BY <1>5 DEF ResolveCase, TypeOK, NoRow, Decisions
  <2>3. \A u \in Txs : pc[u] = "opened" => found[u] \in Txs
    BY DEF TypeOK, Rows
  <2> QED
    BY <2>1, <2>2, <2>3 DEF CallInv
<1>6. ASSUME NEW a \in Admins, AuditDecision(a) \/ LoseDecision(a)
      PROVE  CallInv'
  BY <1>6 DEF AuditDecision, LoseDecision, CallInv, ledger
<1>7. ASSUME NEW i \in Institutions, NEW s \in {"SUSPENDED", "REQUESTED"},
             ChangeInstitution(i, s)
      PROVE  CallInv'
  BY <1>7 DEF ChangeInstitution, CallInv
<1>8. CASE UNCHANGED vars
  BY <1>8 DEF vars, ledger, CallInv
<1> QED
  BY <1>1, <1>2, <1>3, <1>4, <1>5, <1>6, <1>7, <1>8
  DEF Next, CallStep, AdminStep, Decisions

-----------------------------------------------------------------------------
(* The audit trail.                                                        *)

\* A decision to be recorded is not overtaken by another on the same case.
LEMMA AdminStepInv == TypeOK /\ CallInv /\ CasesAgree /\ AdminInv /\ [Next]_vars => AdminInv'
<1> SUFFICES ASSUME TypeOK, CallInv, CasesAgree, AdminInv, [Next]_vars
             PROVE  AdminInv'
  OBVIOUS
<1>1. ASSUME NEW t \in Txs, CallStep(t)
      PROVE  admin' = admin
  BY <1>1 DEF CallStep, AdmitPayment, AdmitMint, Retry, Settle, SettleFails, Hold, AuditOpened, Answer, Lose
<1>2. ASSUME NEW a \in Admins, admin[a] # None
      PROVE  admin[a] \in Decisions \X Txs /\ caseStatus[admin[a][2]] \in Decisions
  BY <1>2 DEF TypeOK, AdminInv
<1>3. ASSUME NEW t \in Txs, Settle(t) \/ Hold(t)
      PROVE  AdminInv'
  <2>1. \A u \in Txs : caseStatus[u] \in Decisions => caseStatus'[u] = caseStatus[u]
    BY <1>3, Fresh DEF Settle, Hold, TypeOK, CasesAgree, Decisions, NoRow
  <2> QED
    BY <1>1, <1>2, <1>3, <2>1 DEF CallStep, AdminInv
<1>4. ASSUME NEW a \in Admins, NEW t \in Txs, NEW d \in Decisions, ResolveCase(a, t, d)
      PROVE  AdminInv'
  <2>1. admin' = [admin EXCEPT ![a] = <<d, t>>] /\ caseStatus' = [caseStatus EXCEPT ![t] = d]
        /\ caseStatus[t] \notin Decisions
    BY <1>4, UnderReview DEF ResolveCase, Decisions
  <2>2. ASSUME NEW b \in Admins, admin'[b] # None
        PROVE  caseStatus'[admin'[b][2]] = admin'[b][1]
    <3>1. CASE b = a
      BY <2>1, <3>1 DEF TypeOK
    <3>2. CASE b # a
      <4>1. admin'[b] = admin[b] /\ admin[b] # None
        BY <2>1, <2>2, <3>2 DEF TypeOK
      <4>2. admin[b][2] \in Txs /\ admin[b][2] # t
        BY <1>2, <2>1, <4>1
      <4> QED
        BY <2>1, <4>1, <4>2 DEF TypeOK, AdminInv
    <3> QED
      BY <3>1, <3>2
  <2> QED
    BY <2>2 DEF AdminInv
<1>5. ASSUME NEW a \in Admins, AuditDecision(a) \/ LoseDecision(a)
      PROVE  AdminInv'
  BY <1>5 DEF AuditDecision, LoseDecision, AdminInv, TypeOK, ledger
<1>6. CASE Quiet /\ admin' = admin
  BY <1>6, QuietFrame DEF AdminInv
<1>7. ASSUME NEW i \in Institutions, NEW s \in {"SUSPENDED", "REQUESTED"},
             ChangeInstitution(i, s)
      PROVE  admin' = admin
  BY <1>7 DEF ChangeInstitution
<1> QED
  BY <1>1, <1>3, <1>4, <1>5, <1>6, <1>7
  DEF Next, CallStep, AdminStep, Decisions, Quiet, vars

\* Events are recorded only when they are so, and stay so.
LEMMA AuditStep ==
  TypeOK /\ CallInv /\ CasesAgree /\ AdminInv /\ AuditIsTrue /\ [Next]_vars => AuditIsTrue'
<1> SUFFICES ASSUME TypeOK, CallInv, CasesAgree, AdminInv, AuditIsTrue, [Next]_vars
             PROVE  AuditIsTrue'
  OBVIOUS
<1> USE DEF Record
<1>1. ASSUME NEW t \in Txs, Settle(t)
      PROVE  AuditIsTrue'
  BY <1>1, Fresh DEF Settle, TypeOK, AuditIsTrue, Decisions
<1>2. ASSUME NEW t \in Txs, Hold(t)
      PROVE  AuditIsTrue'
  <2>1. status[t] = NoRow /\ caseStatus[t] \notin Decisions
    BY <1>2, Fresh DEF CasesAgree, Decisions, NoRow
  <2> QED
    BY <1>2, <2>1 DEF Hold, TypeOK, AuditIsTrue, Decisions, NoRow
<1>3. ASSUME NEW t \in Txs, AuditOpened(t)
      PROVE  AuditIsTrue'
  <2>1. found[t] \in Txs /\ caseStatus[found[t]] # NoRow
    BY <1>3 DEF AuditOpened, TypeOK, Rows, CallInv
  <2> QED
    BY <1>3, <2>1 DEF AuditOpened, AuditIsTrue, Decisions, ledger
<1>4. ASSUME NEW a \in Admins, NEW t \in Txs, NEW d \in Decisions, ResolveCase(a, t, d)
      PROVE  AuditIsTrue'
  <2>1. status[t] = "HELD" /\ caseStatus[t] = "OPENED"
    BY <1>4, UnderReview
  <2> QED
    BY <1>4, <2>1 DEF ResolveCase, TypeOK, AuditIsTrue, Decisions, Decided, NoRow
<1>5. ASSUME NEW a \in Admins, AuditDecision(a)
      PROVE  AuditIsTrue'
  <2>1. PICK d \in Decisions, t \in Txs : admin[a] = <<d, t>>
    BY <1>5 DEF AuditDecision, TypeOK
  <2>2. caseStatus[t] = d
    BY <1>5, <2>1 DEF AuditDecision, AdminInv
  <2>3. audit' = audit \cup {<<d, t>>} /\ UNCHANGED <<status, caseStatus>>
    BY <1>5, <2>1 DEF AuditDecision, ledger
  <2>4. \A u \in Txs : \A e : e \notin Decisions => (<<e, u>> \in audit' <=> <<e, u>> \in audit)
    BY <2>3
  <2>5. \A u \in Txs, e \in Decisions : <<e, u>> \in audit' => caseStatus[u] = e
    BY <2>2, <2>3 DEF AuditIsTrue
  <2>6. "TRANSACTION_FINALIZED" \notin Decisions /\ "COMPLIANCE_CASE_OPENED" \notin Decisions
    BY DEF Decisions
  <2> QED
    BY <2>3, <2>4, <2>5, <2>6 DEF AuditIsTrue
<1>6. CASE audit' = audit /\ Quiet
  BY <1>6, QuietFrame DEF AuditIsTrue
<1>7. ASSUME NEW t \in Txs,
             AdmitPayment(t) \/ AdmitMint(t) \/ Retry(t) \/ SettleFails(t) \/ Answer(t) \/ Lose(t)
      PROVE  audit' = audit
  BY <1>7 DEF AdmitPayment, AdmitMint, Retry, SettleFails, Answer, Lose
<1>8. ASSUME NEW a \in Admins, LoseDecision(a)
      PROVE  audit' = audit
  BY <1>8 DEF LoseDecision
<1>9. ASSUME NEW i \in Institutions, NEW s \in {"SUSPENDED", "REQUESTED"},
             ChangeInstitution(i, s)
      PROVE  audit' = audit
  BY <1>9 DEF ChangeInstitution
<1> QED
  BY <1>1, <1>2, <1>3, <1>4, <1>5, <1>6, <1>7, <1>8, <1>9
  DEF Next, CallStep, AdminStep, Decisions, Quiet, vars

-----------------------------------------------------------------------------
(* The chain.                                                              *)

\* The blocks of an account up to a height can be counted.
LEMMA OfFinite ==
  ASSUME NEW bs, NEW x, NEW h \in Nat
  PROVE  IsFiniteSet(Of(bs, x, h)) /\ Cardinality(Of(bs, x, h)) \in Nat
<1>1. Of(bs, x, h) \in SUBSET (1..h)
  BY DEF Of
<1>2. IsFiniteSet(1..h)
  BY FS_Interval
<1> QED
  BY <1>1, <1>2, FS_Subset, FS_CardinalityType

\* A block is appended with the next nonce of its account; a payment that is
\* held, released or rejected is in no block.
LEMMA ChainStep == TypeOK /\ CallInv /\ CasesAgree /\ ChainInv /\ [Next]_vars => ChainInv'
<1> SUFFICES ASSUME TypeOK, CallInv, CasesAgree, ChainInv, [Next]_vars
             PROVE  ChainInv'
  OBVIOUS
<1> DEFINE n == Len(blocks)
<1>1. n \in Nat /\ DOMAIN blocks = 1..n /\ \A h \in 1..n : blocks[h].tx \in Txs
  BY BlockType
<1>2. ASSUME NEW t \in Txs, Settle(t)
      PROVE  ChainInv'
  <2>1. /\ Len(blocks') = n + 1 /\ DOMAIN blocks' = 1..(n + 1)
        /\ \A k \in 1..n : blocks'[k] = blocks[k]
        /\ blocks'[n + 1].tx = t /\ IsQuorum(blocks'[n + 1].votes)
    <3>1. blocks' = Append(blocks, NewBlock(t))
      BY <1>2 DEF Settle
    <3>2. blocks \in Seq([validator : Active, tx : Txs, votes : Seq(Active)])
      BY DEF TypeOK
    <3> QED
      BY <1>1, <3>1, <3>2, NewBlockType
  <2>2. \A h \in 1..n : blocks[h].tx # t
    BY <1>1, <1>2, Fresh DEF ChainInv, NoRow
  <2>3. /\ status' = [status EXCEPT ![t] = "FINALIZED"]
        /\ nonce' = [nonce EXCEPT ![t] = lastNonce[Tx[t].from] + 1]
        /\ lastNonce' = [lastNonce EXCEPT ![Tx[t].from] = lastNonce[Tx[t].from] + 1]
    BY <1>2 DEF Settle, NextNonce
  <2>4. ASSUME NEW x, NEW h \in 1..n
        PROVE  Of(blocks', x, h) = Of(blocks, x, h)
    BY <1>1, <2>1 DEF Of
  <2>5. ASSUME NEW x
        PROVE  Of(blocks', x, n + 1) = IF Tx[t].from = x THEN Of(blocks, x, n) \cup {n + 1}
                                                         ELSE Of(blocks, x, n)
    BY <1>1, <2>1 DEF Of
  <2>6. ASSUME NEW x \in Accounts
        PROVE  lastNonce'[x] = Cardinality(Of(blocks', x, n + 1))
    <3> DEFINE S == Of(blocks, x, n)
    <3>1. lastNonce[x] = Cardinality(S)
      BY DEF ChainInv
    <3>2. IsFiniteSet(S)
      BY <1>1, OfFinite
    <3>3. n + 1 \notin S
      BY <1>1 DEF Of
    <3>4. Cardinality(S \cup {n + 1}) = Cardinality(S) + 1
      BY <3>2, <3>3, FS_AddElement
    <3>5. lastNonce'[x] = IF Tx[t].from = x THEN lastNonce[x] + 1 ELSE lastNonce[x]
      BY <2>3 DEF TypeOK
    <3>6. Of(blocks', x, n + 1) = IF Tx[t].from = x THEN S \cup {n + 1} ELSE S
      BY <2>5
    <3> HIDE DEF S
    <3> QED
      BY <3>1, <3>4, <3>5, <3>6
  <2>7. nonce'[t] = Cardinality(Of(blocks', Tx[t].from, n + 1))
    BY <2>3, <2>6, FromType DEF TypeOK
  <2>8. ASSUME NEW h \in 1..(n + 1)
        PROVE  /\ status'[blocks'[h].tx] = "FINALIZED" /\ IsQuorum(blocks'[h].votes)
               /\ nonce'[blocks'[h].tx] = Cardinality(Of(blocks', Tx[blocks'[h].tx].from, h))
    <3>1. CASE h = n + 1
      <4>1. blocks'[h].tx = t /\ IsQuorum(blocks'[h].votes) /\ status'[t] = "FINALIZED"
        BY <2>1, <2>3, <3>1 DEF TypeOK
      <4> QED
        BY <2>7, <3>1, <4>1
    <3>2. CASE h \in 1..n
      <4> DEFINE u == blocks[h].tx
      <4>1. blocks'[h] = blocks[h] /\ u \in Txs /\ u # t
        BY <1>1, <2>1, <2>2, <3>2
      <4>2. status'[u] = status[u] /\ nonce'[u] = nonce[u]
        BY <2>3, <4>1 DEF TypeOK
      <4>3. Of(blocks', Tx[u].from, h) = Of(blocks, Tx[u].from, h)
        BY <2>4, <3>2
      <4> QED
        BY <1>1, <3>2, <4>1, <4>2, <4>3 DEF ChainInv
    <3> QED
      BY <1>1, <3>1, <3>2
  <2> QED
    BY <2>1, <2>6, <2>8 DEF ChainInv
<1>3. ASSUME NEW t \in Txs, status[t] # "FINALIZED",
             UNCHANGED <<blocks, lastNonce>>,
             \A u \in Txs \ {t} : status'[u] = status[u] /\ nonce'[u] = nonce[u]
      PROVE  ChainInv'
  <2>1. \A h \in 1..n : blocks[h].tx \in Txs \ {t}
    BY <1>1, <1>3 DEF ChainInv
  <2> QED
    BY <1>1, <1>3, <2>1 DEF ChainInv, Of
<1>4. ASSUME NEW t \in Txs, Hold(t)
      PROVE  ChainInv'
  BY <1>3, <1>4, Fresh DEF Hold, TypeOK, NoRow
<1>5. ASSUME NEW a \in Admins, NEW t \in Txs, NEW d \in Decisions, ResolveCase(a, t, d)
      PROVE  ChainInv'
  BY <1>3, <1>5, UnderReview DEF ResolveCase, TypeOK
<1>6. CASE Quiet
  BY <1>6, QuietFrame DEF ChainInv, Of
<1> QED
  BY <1>2, <1>4, <1>5, <1>6 DEF Next, CallStep, AdminStep, Decisions, Quiet

-----------------------------------------------------------------------------
(* The theorems.                                                           *)

\* The invariant holds of the empty ledger.
LEMMA InvInit == Init => IInv
<1> SUFFICES ASSUME Init
             PROVE  IInv
  OBVIOUS
<1>1. TypeOK
  BY TypeInit
<1>2. CallInv /\ OnePerRef /\ CasesAgree /\ AuditIsTrue /\ AdminInv
  BY DEF Init, CallInv, Waiting, Answering, OnePerRef, Rows, CasesAgree, AuditIsTrue, AdminInv,
         Decisions, NoRow
<1>3. ChainInv
  <2>1. \A x : Of(blocks, x, 0) = {}
    BY DEF Of
  <2>2. Cardinality({}) = 0
    BY FS_EmptySet
  <2>3. blocks = << >> /\ Len(blocks) = 0 /\ DOMAIN blocks = {}
    BY DEF Init
  <2> QED
    BY <2>1, <2>2, <2>3 DEF Init, ChainInv
<1> QED
  BY <1>1, <1>2, <1>3 DEF IInv

\* Every behavior of the node satisfies the invariant.
THEOREM Invariance == Spec => []IInv
<1>1. IInv /\ [Next]_vars => IInv'
  BY TypeStep, CallStepInv, RefStep, CasesStep, AuditStep, AdminStepInv, ChainStep DEF IInv
<1> QED
  BY <1>1, InvInit, PTL DEF Spec

\* A compliance case and its payment agree at every moment, whatever reviewers,
\* clients and dropped handlers do.
THEOREM CasesAlwaysAgree == Spec => []CasesAgree
<1>1. IInv => CasesAgree
  BY DEF IInv
<1> QED
  BY <1>1, Invariance, PTL

\* A reference has one payment, and clients are answered with what they asked for.
THEOREM Retries == Spec => []RetriesAreSafe
<1>1. IInv => RetriesAreSafe
  BY DEF IInv, RetriesAreSafe, CallInv, OnePerRef, Answering
<1> QED
  BY <1>1, Invariance, PTL

\* Each account's transactions settle with the nonces 1, 2, 3, ...
THEOREM NoncesInOrder == Spec => []NoncesFollowChain
<1>1. IInv => NoncesFollowChain
  BY DEF IInv, NoncesFollowChain, ChainInv, Of
<1> QED
  BY <1>1, Invariance, PTL

\* The audit trail never says what is not so.
THEOREM AuditHolds == Spec => []AuditIsTrue
<1>1. IInv => AuditIsTrue
  BY DEF IInv
<1> QED
  BY <1>1, Invariance, PTL

\* Any two blocks of the chain have an honest validator in common, for every
\* number of validators and for both engines.
THEOREM Overlap == Spec => []QuorumsOverlap
<1>1. IInv => QuorumsOverlap
  <2> SUFFICES ASSUME IInv, NEW h \in DOMAIN blocks, NEW k \in DOMAIN blocks
               PROVE  Cardinality(Voters(blocks[h].votes) \cap Voters(blocks[k].votes)) > Tolerated
    BY DEF QuorumsOverlap
  <2>1. blocks[h].votes \in Seq(Active) /\ blocks[k].votes \in Seq(Active)
    BY BlockType DEF IInv
  <2>2. IsQuorum(blocks[h].votes) /\ IsQuorum(blocks[k].votes)
    BY DEF IInv, ChainInv
  <2> QED
    BY <2>1, <2>2, QuorumsIntersect
<1> QED
  BY <1>1, Invariance, PTL

\* The ledger, the handlers' locals and the reviewers' keep their types.
THEOREM TypeCorrect == Spec => []TypeOK
<1>1. IInv => TypeOK
  BY DEF IInv
<1> QED
  BY <1>1, Invariance, PTL

-----------------------------------------------------------------------------
(* The units of every asset.                                               *)

\* The property, now and in the next state.
LEMMA SupplyParts ==
  /\ SupplyIsBacked <=> \A asset \in Assets : Held(balance, asset) = Issued(Finalized, asset)
  /\ SupplyIsBacked' <=> \A asset \in Assets : Held(balance', asset) = Issued(Finalized', asset)
BY DEF SupplyIsBacked, Held, Issued, MapThenSumSet, MapThenFoldSet

\* A settlement moves the units held by as much as it issues, and nothing else moves
\* balances or finalizes.
LEMMA SupplyStep ==
  TypeOK /\ CallInv /\ CasesAgree /\ SupplyIsBacked /\ [Next]_vars => SupplyIsBacked'
<1> SUFFICES ASSUME TypeOK, CallInv, CasesAgree, SupplyIsBacked, [Next]_vars
             PROVE  SupplyIsBacked'
  OBVIOUS
<1>1. ASSUME NEW t \in Txs, Settle(t)
      PROVE  SupplyIsBacked'
  <2>1. balance \in [Slots -> Int] /\ balance' = Apply(t, balance)
    BY <1>1 DEF TypeOK, Settle
  <2>2. Finalized' = Finalized \cup {t} /\ t \in Txs \ Finalized /\ Finalized \in SUBSET Txs
    BY <1>1, Fresh DEF Settle, Finalized, TypeOK, NoRow
  <2>3. ASSUME NEW asset \in Assets
        PROVE  Held(balance', asset) = Issued(Finalized', asset)
    <3> DEFINE issued == IF Tx[t].asset = asset THEN Supply(t) ELSE 0
    <3>1. Held(balance, asset) = Issued(Finalized, asset)
      BY SupplyParts
    <3>2. Held(balance', asset) = Held(balance, asset) + issued
      BY <2>1, HeldSteps
    <3>3. Issued(Finalized', asset) = Issued(Finalized, asset) + issued
      BY <2>2, IssuedSteps
    <3> QED
      BY <3>1, <3>2, <3>3
  <2> QED
    BY <2>3, SupplyParts
<1>2. ASSUME UNCHANGED <<balance, Finalized>>
      PROVE  SupplyIsBacked'
  BY <1>2, SupplyParts
<1>3. ASSUME NEW t \in Txs, Hold(t)
      PROVE  SupplyIsBacked'
  <2>1. Finalized' = Finalized /\ balance' = balance
    BY <1>3, Fresh DEF Hold, Finalized, TypeOK, NoRow
  <2> QED
    BY <1>2, <2>1
<1>4. ASSUME NEW a \in Admins, NEW t \in Txs, NEW d \in Decisions, ResolveCase(a, t, d)
      PROVE  SupplyIsBacked'
  <2>1. Finalized' = Finalized /\ balance' = balance
    BY <1>4, UnderReview DEF ResolveCase, Decided, Finalized, TypeOK
  <2> QED
    BY <1>2, <2>1
<1>5. CASE Quiet
  BY <1>2, <1>5, QuietFrame DEF Finalized
<1> QED
  BY <1>1, <1>3, <1>4, <1>5 DEF Next, CallStep, AdminStep, Decisions, Quiet

\* All accounts together hold what was issued and not burnt, of every asset: no
\* settlement creates or destroys units.
THEOREM SupplyHolds == Spec => []SupplyIsBacked
<1>1. Init => SupplyIsBacked
  <2> SUFFICES ASSUME Init, NEW asset \in Assets
               PROVE  Held(balance, asset) = Issued(Finalized, asset)
    BY SupplyParts
  <2>1. Finalized = {} /\ balance = [slot \in Slots |-> 0]
    BY DEF Init, Finalized, NoRow
  <2>2. Issued({}, asset) = 0
    BY IssuedSteps
  <2> QED
    BY <2>1, <2>2, HeldOfNothing
<1>2. IInv /\ SupplyIsBacked /\ [Next]_vars => SupplyIsBacked'
  BY SupplyStep DEF IInv
<1> QED
  BY <1>1, <1>2, Invariance, PTL DEF Spec

-----------------------------------------------------------------------------
(* The node implements the ledger that changes atomically.  On top of the  *)
(* invariant this needs that a call without a payment has drawn no nonce,  *)
(* that the blocks are exactly the finalized payments, and that nonces are *)
(* not larger than what the account has settled.                           *)

\* The transactions of account x that settled.
SettledOf(x) == {u \in Finalized : Tx[u].from = x}

\* A call without a payment has no nonce, a finalized payment is in a block, and the
\* nonce of an account is at most the number of its settled transactions.
DrawInv ==
  /\ \A t \in Txs : status[t] = NoRow => nonce[t] = 0
  /\ \A t \in Finalized : \E h \in DOMAIN blocks : blocks[h].tx = t
  /\ \A x \in Accounts : lastNonce[x] = Cardinality(SettledOf(x))

\* Only Settle finalizes, with a block.
LEMMA DrawStep == TypeOK /\ CallInv /\ CasesAgree /\ DrawInv /\ [Next]_vars => DrawInv'
<1> SUFFICES ASSUME TypeOK, CallInv, CasesAgree, DrawInv, [Next]_vars
             PROVE  DrawInv'
  OBVIOUS
<1>1. ASSUME NEW t \in Txs, Settle(t)
      PROVE  DrawInv'
  <2>1. /\ status' = [status EXCEPT ![t] = "FINALIZED"]
        /\ nonce' = [nonce EXCEPT ![t] = NextNonce(t)]
        /\ lastNonce' = [lastNonce EXCEPT ![Tx[t].from] = lastNonce[Tx[t].from] + 1]
    BY <1>1 DEF Settle, NextNonce
  <2>2. Finalized' = Finalized \cup {t} /\ t \notin Finalized
    BY <1>1, <2>1, Fresh DEF Finalized, TypeOK, NoRow
  <2>3. \A u \in Txs : status'[u] = NoRow => nonce'[u] = 0
    BY <2>1 DEF TypeOK, DrawInv, NoRow
  <2>4. \A u \in Finalized' : \E h \in DOMAIN blocks' : blocks'[h].tx = u
    <3>1. blocks' = Append(blocks, NewBlock(t))
      BY <1>1 DEF Settle
    <3>2. blocks \in Seq([validator : Active, tx : Txs, votes : Seq(Active)])
      BY DEF TypeOK
    <3>3. /\ DOMAIN blocks' = 1..(Len(blocks) + 1)
          /\ \A k \in 1..Len(blocks) : blocks'[k] = blocks[k]
          /\ blocks'[Len(blocks) + 1].tx = t
      BY <3>1, <3>2, NewBlockType, BlockType
    <3> QED
      BY <2>2, <3>3, BlockType DEF DrawInv
  <2>5. ASSUME NEW x \in Accounts
        PROVE  lastNonce'[x] = Cardinality(SettledOf(x)')
    <3> DEFINE S == SettledOf(x)
    <3>1. S \in SUBSET Txs /\ t \notin S /\ lastNonce[x] = Cardinality(S)
      BY <2>2 DEF SettledOf, Finalized, DrawInv
    <3>2. IsFiniteSet(S)
      BY <3>1, TxsAssumption, FS_Subset
    <3>3. Cardinality(S \cup {t}) = Cardinality(S) + 1
      BY <3>1, <3>2, FS_AddElement
    <3>4. S' = IF Tx[t].from = x THEN S \cup {t} ELSE S
      BY <2>2 DEF SettledOf
    <3>5. lastNonce'[x] = IF Tx[t].from = x THEN lastNonce[x] + 1 ELSE lastNonce[x]
      BY <2>1 DEF TypeOK
    <3> HIDE DEF S
    <3>6. lastNonce'[x] = Cardinality(S')
      BY <3>1, <3>3, <3>4, <3>5
    <3> QED
      BY <3>6 DEF S
  <2> QED
    BY <2>3, <2>4, <2>5 DEF DrawInv
<1>2. ASSUME NEW t \in Txs, status[t] # "FINALIZED", status'[t] \notin {"FINALIZED", NoRow},
             UNCHANGED <<blocks, lastNonce>>,
             \A u \in Txs \ {t} : status'[u] = status[u] /\ nonce'[u] = nonce[u]
      PROVE  DrawInv'
  <2>1. Finalized' = Finalized
    BY <1>2 DEF Finalized
  <2> QED
    BY <1>2, <2>1 DEF DrawInv, SettledOf
<1>3. ASSUME NEW t \in Txs, Hold(t)
      PROVE  DrawInv'
  <2>1. status[t] # "FINALIZED" /\ status'[t] = "HELD"
    BY <1>3, Fresh DEF Hold, TypeOK, NoRow
  <2>2. \A u \in Txs \ {t} : status'[u] = status[u] /\ nonce'[u] = nonce[u]
    BY <1>3 DEF Hold, TypeOK
  <2> QED
    BY <1>2, <1>3, <2>1, <2>2 DEF Hold, NoRow
<1>4. ASSUME NEW a \in Admins, NEW t \in Txs, NEW d \in Decisions, ResolveCase(a, t, d)
      PROVE  DrawInv'
  <2>1. status[t] # "FINALIZED" /\ status'[t] \in {"PENDING", "REJECTED"}
    BY <1>4, UnderReview DEF ResolveCase, Decided, TypeOK
  <2>2. \A u \in Txs \ {t} : status'[u] = status[u] /\ nonce'[u] = nonce[u]
    BY <1>4 DEF ResolveCase, TypeOK
  <2> QED
    BY <1>2, <1>4, <2>1, <2>2 DEF ResolveCase, NoRow
<1>5. CASE Quiet
  BY <1>5, QuietFrame DEF DrawInv, SettledOf, Finalized
<1> QED
  BY <1>1, <1>3, <1>4, <1>5 DEF Next, CallStep, AdminStep, Decisions, Quiet

\* The next nonce of an account is one the atomic ledger may draw.
LEMMA NextNonceBound ==
  ASSUME TypeOK, DrawInv, NEW t \in Txs
  PROVE  NextNonce(t) \in 1..(Cardinality(Txs) + 1)
<1> DEFINE S == SettledOf(Tx[t].from)
<1>1. S \in SUBSET Txs
  BY DEF SettledOf, Finalized
<1>2. Cardinality(S) <= Cardinality(Txs) /\ Cardinality(S) \in Nat /\ Cardinality(Txs) \in Nat
  BY <1>1, TxsAssumption, FS_Subset, FS_CardinalityType
<1>3. NextNonce(t) = Cardinality(S) + 1
  BY FromType DEF DrawInv, NextNonce
<1> HIDE DEF S
<1> QED
  BY <1>2, <1>3

\* The rules of the instance are the rules of the node.
LEMMA SameApply ==
  ASSUME NEW t, NEW bal
  PROVE  Ledger!Apply(t, bal) = Apply(t, bal)
BY DEF Ledger!Apply, Apply, Ledger!Effect, Effect, Ledger!Debit, Debit, Ledger!Credit, Credit,
       Ledger!Source, Source, Ledger!Target, Target, Ledger!Slots, Slots

\* The same supply.
LEMMA SameIssued ==
  ASSUME NEW S, NEW asset
  PROVE  Ledger!Issued(S, asset) = Issued(S, asset)
BY DEF Ledger!Issued, Issued, Ledger!Supply, Supply, Ledger!MapThenSumSet, MapThenSumSet,
       Ledger!MapThenFoldSet, MapThenFoldSet

\* The same validity.
LEMMA SameValid ==
  ASSUME NEW t, NEW bal, NEW final, NEW nonces
  PROVE  Ledger!Valid(t, bal, final, nonces) <=> Valid(t, bal, final, nonces)
BY SameIssued DEF Ledger!Valid, Valid, Ledger!Funded, Funded, Ledger!Source, Source,
                  Ledger!NonceIsFresh, NonceIsFresh

\* The balances along a block of one transaction.
LEMMA OneTransaction ==
  ASSUME NEW t
  PROVE  /\ Ledger!Balances(<<t>>)[0] = balance
         /\ Ledger!Balances(<<t>>)[1] = Apply(t, balance)
<1> DEFINE g == [i \in 0..1 |-> IF i = 0 THEN balance ELSE Apply(t, balance)]
           B == Ledger!Balances(<<t>>)
<1>1. g = [i \in 0..1 |-> IF i = 0 THEN balance ELSE Apply(<<t>>[i], g[i - 1])]
  OBVIOUS
<1>2. Len(<<t>>) = 1
  OBVIOUS
<1>3. B = [i \in 0..Len(<<t>>) |->
             IF i = 0 THEN balance ELSE Ledger!Apply(<<t>>[i], B[i - 1])]
  <2>1. \E f : f = [i \in 0..Len(<<t>>) |->
                      IF i = 0 THEN balance ELSE Ledger!Apply(<<t>>[i], f[i - 1])]
    BY <1>1, <1>2, SameApply
  <2> QED
    BY <2>1 DEF Ledger!Balances
<1>4. B[0] = balance
  BY <1>2, <1>3
<1>5. B[1] = Ledger!Apply(t, B[0])
  BY <1>2, <1>3
<1> QED
  BY <1>4, <1>5, SameApply

\* The chain of the atomic ledger.
Chain == [h \in DOMAIN blocks |-> <<blocks[h].tx>>]

\* What it has settled are the finalized payments.
LEMMA SameSettled ==
  ASSUME TypeOK, ChainInv, DrawInv
  PROVE  Ledger!Settled = Finalized
<1>1. \A h \in DOMAIN Chain : {Chain[h][i] : i \in DOMAIN Chain[h]} = {blocks[h].tx}
  BY DEF Chain
<1>2. Ledger!Settled = UNION {{Chain[h][i] : i \in DOMAIN Chain[h]} : h \in DOMAIN Chain}
  BY DEF Ledger!Settled, Chain
<1>3. DOMAIN Chain = DOMAIN blocks
  BY DEF Chain
<1>4. Ledger!Settled = {blocks[h].tx : h \in DOMAIN blocks}
  <2>1. ASSUME NEW x \in Ledger!Settled
        PROVE  \E h \in DOMAIN blocks : x = blocks[h].tx
    <3>1. PICK h \in DOMAIN Chain : x \in {Chain[h][i] : i \in DOMAIN Chain[h]}
      BY <1>2
    <3>2. x \in {blocks[h].tx}
      BY <1>1, <3>1
    <3> QED
      BY <1>3, <3>2
  <2>2. ASSUME NEW h \in DOMAIN blocks
        PROVE  blocks[h].tx \in Ledger!Settled
    <3>1. h \in DOMAIN Chain
      BY <1>3
    <3>2. blocks[h].tx \in {Chain[h][i] : i \in DOMAIN Chain[h]}
      BY <1>1, <3>1
    <3> QED
      BY <1>2, <3>1, <3>2
  <2> QED
    BY <2>1, <2>2
<1>5. \A h \in DOMAIN blocks : blocks[h].tx \in Finalized
  BY BlockType DEF ChainInv, Finalized
<1> QED
  BY <1>4, <1>5 DEF DrawInv

\* Giving an unsettled transaction the next nonce of its account is drawing one.
LEMMA DrawsNext ==
  ASSUME TypeOK, ChainInv, DrawInv, NEW t \in Txs, t \notin Finalized, nonce[t] = 0,
         nonce' = [nonce EXCEPT ![t] = NextNonce(t)]
  PROVE  Ledger!Draw(t)
<1>1. t \notin Ledger!Settled
  BY SameSettled
<1>2. Ledger!Cardinality(Txs) = Cardinality(Txs)
  BY DEF Ledger!Cardinality, Cardinality
<1>3. NextNonce(t) \in 1..(Ledger!Cardinality(Txs) + 1)
  BY <1>2, NextNonceBound
<1> QED
  BY <1>1, <1>3 DEF Ledger!Draw

\* A step of the node is a step of the atomic ledger or none.
LEMMA LedgerStep ==
  ASSUME IInv, DrawInv, [Next]_vars
  PROVE  [Ledger!Next]_<<Chain, balance, nonce>>
<1> USE DEF IInv
<1>1. ASSUME NEW t \in Txs, Settle(t)
      PROVE  Ledger!DrawAndAppend(t)
  <2>1. status[t] = NoRow /\ nonce[t] = 0 /\ t \notin Finalized
    BY <1>1, Fresh DEF DrawInv, Finalized, NoRow
  <2>2. nonce' = [nonce EXCEPT ![t] = NextNonce(t)] /\ balance' = Apply(t, balance)
        /\ Valid(t, balance, Finalized, nonce')
    BY <1>1, NewBlockType DEF Settle, Verified
  <2>3. Ledger!Draw(t)
    BY <2>1, <2>2, DrawsNext
  <2>4. Chain' = Append(Chain, <<t>>)
    <3> DEFINE n == Len(blocks)
    <3>1. n \in Nat /\ DOMAIN blocks = 1..n
      BY BlockType
    <3>2. blocks' = Append(blocks, NewBlock(t)) /\ NewBlock(t).tx = t
      BY <1>1, NewBlockType DEF Settle
    <3>3. blocks \in Seq([validator : Active, tx : Txs, votes : Seq(Active)])
      BY DEF TypeOK
    <3>4. /\ DOMAIN blocks' = 1..(n + 1)
          /\ \A k \in 1..n : blocks'[k] = blocks[k]
          /\ blocks'[n + 1].tx = t
      BY <3>2, <3>3, NewBlockType
    <3>5. Chain \in Seq(Seq(Txs)) /\ Len(Chain) = n
      BY <3>1, BlockType DEF Chain
    <3>6. Append(Chain, <<t>>) = [k \in 1..(n + 1) |-> IF k = n + 1 THEN <<t>> ELSE Chain[k]]
      BY <3>1, <3>5
    <3>7. Chain' = [k \in 1..(n + 1) |-> <<blocks'[k].tx>>]
      BY <3>4 DEF Chain
    <3>8. ASSUME NEW k \in 1..(n + 1)
          PROVE  <<blocks'[k].tx>> = IF k = n + 1 THEN <<t>> ELSE Chain[k]
      BY <3>1, <3>4 DEF Chain
    <3> QED
      BY <3>6, <3>7, <3>8
  <2>5. Ledger!ValidBatch(<<t>>, nonce')
    <3>1. DOMAIN <<t>> = {1} /\ <<t>>[1] = t
      OBVIOUS
    <3>2. Ledger!Settled \cup {<<t>>[j] : j \in 1..(1 - 1)} = Finalized
      BY SameSettled
    <3>3. Ledger!Valid(t, Ledger!Balances(<<t>>)[1 - 1], Finalized, nonce')
      BY <2>2, OneTransaction, SameValid
    <3> QED
      BY <3>1, <3>2, <3>3 DEF Ledger!ValidBatch
  <2>6. balance' = Ledger!Balances(<<t>>)[Len(<<t>>)]
    BY <2>2, OneTransaction
  <2> QED
    BY <2>3, <2>4, <2>5, <2>6 DEF Ledger!DrawAndAppend, Ledger!Extend, Chain
<1>2. ASSUME NEW t \in Txs, Hold(t)
      PROVE  Ledger!DrawNonce(t)
  <2>1. status[t] = NoRow /\ nonce[t] = 0 /\ t \notin Finalized
    BY <1>2, Fresh DEF DrawInv, Finalized, NoRow
  <2>2. Ledger!Draw(t)
    BY <1>2, <2>1, DrawsNext DEF Hold
  <2> QED
    BY <1>2, <2>2 DEF Ledger!DrawNonce, Hold
<1>3. ASSUME NEW a \in Admins, NEW t \in Txs, NEW d \in Decisions, ResolveCase(a, t, d)
      PROVE  UNCHANGED <<Chain, balance, nonce>>
  BY <1>3 DEF ResolveCase, Chain
<1>4. CASE Quiet
  <2>1. UNCHANGED <<blocks, balance, nonce>>
    BY <1>4 DEF Quiet, AdmitPayment, AdmitMint, Retry, SettleFails, AuditOpened, Answer, Lose, AuditDecision,
                LoseDecision, ChangeInstitution, vars, ledger
  <2> QED
    BY <2>1 DEF Chain
<1> QED
  BY <1>1, <1>2, <1>3, <1>4 DEF Next, CallStep, AdminStep, Decisions, Quiet, Ledger!Next

\* The node implements the ledger that changes atomically: what handlers do between
\* their sections never shows in the chain, the balances or the nonces.
THEOREM Refinement == Spec => ImplementsAtomicLedger
<1>1. Init => DrawInv
  <2> SUFFICES ASSUME Init
               PROVE  DrawInv
    OBVIOUS
  <2>1. Finalized = {}
    BY DEF Init, Finalized, NoRow
  <2>2. \A x : SettledOf(x) = {}
    BY <2>1 DEF SettledOf
  <2>3. Cardinality({}) = 0
    BY FS_EmptySet
  <2> QED
    BY <2>1, <2>2, <2>3 DEF Init, DrawInv
<1>2. IInv /\ DrawInv /\ [Next]_vars => DrawInv'
  BY DrawStep DEF IInv
<1>3. Init => Ledger!Init
  <2> SUFFICES ASSUME Init
               PROVE  Ledger!Init
    OBVIOUS
  <2>1. [h \in DOMAIN blocks |-> <<blocks[h].tx>>] = << >>
    BY DEF Init
  <2> QED
    BY <2>1 DEF Init, Ledger!Init, Slots, Ledger!Slots
<1>4. IInv /\ DrawInv /\ [Next]_vars => [Ledger!Next]_<<Chain, balance, nonce>>
  BY LedgerStep
<1> QED
  BY <1>1, <1>2, <1>3, <1>4, Invariance, PTL
     DEF Spec, ImplementsAtomicLedger, Ledger!Spec, Chain
=============================================================================
