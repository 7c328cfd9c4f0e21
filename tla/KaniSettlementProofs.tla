------------------------ MODULE KaniSettlementProofs ------------------------
(***************************************************************************)
(* Why the settlement path is safe, for every number of transactions,      *)
(* processes, validators, reviewers and faults.                            *)
(*                                                                         *)
(* The properties speak of the tables alone and are not inductive.  What   *)
(* carries them is the agreement between the tables and the snapshot of    *)
(* the one pass that holds the lock: nobody else finalizes a transaction,  *)
(* holds one anew under the snapshot's nose or appends a block meanwhile.  *)
(***************************************************************************)
EXTENDS KaniSettlementProperties, LedgerRulesProofs, TLAPS

-----------------------------------------------------------------------------
(* Types: what the operators return.                                       *)

\* Sets of transactions have a size.
LEMMA CardinalityType ==
  ASSUME NEW S, S \subseteq Txs
  PROVE  Cardinality(S) \in Nat
BY TxsAssumption, FS_Subset, FS_CardinalityType

\* Every height has a leader.
LEMMA ScheduleType ==
  ASSUME NEW h \in Nat \ {0}
  PROVE  Leader(h) \in Validators
<1>1. ((h - 1) % Len(Schedule)) + 1 \in 1..Len(Schedule)
  BY ScheduleAssumption
<1> QED
  BY <1>1, ScheduleAssumption DEF Leader, LeaderIndex

\* The hash of the last block is a hash.
LEMMA LastHashType ==
  ASSUME NEW bs \in Seq(Block)
  PROVE  LastHash(bs) \in HashSet
<1>1. CASE bs = << >>
  BY <1>1 DEF LastHash, HashSet
<1>2. CASE bs # << >>
  <2>1. Len(bs) \in Nat /\ bs[Len(bs)] \in Block
    BY <1>2
  <2> QED
    BY <1>2, <2>1 DEF LastHash, HashSet, Hash, Block
<1> QED
  BY <1>1, <1>2

\* A pass begins with a well-formed snapshot.
LEMMA EmptySnapType == EmptySnap \in Snapshot
<1>1. << >> \in Seq(Block)
  OBVIOUS
<1> QED
  BY <1>1 DEF EmptySnap, Snapshot, Statuses, CaseStatuses

-----------------------------------------------------------------------------
(* Types.                                                                  *)

\* The empty ledger is well typed.
LEMMA TypeInit == Init => TypeOK
<1> SUFFICES ASSUME Init PROVE TypeOK
  OBVIOUS
<1>1. blocks \in Seq(Block) /\ accepted \in [Processes -> Seq(Txs)]
  BY DEF Init
<1>2. snap \in [Processes -> Snapshot]
  BY EmptySnapType DEF Init
<1>3. pc \in [Processes -> Steps]
  BY DEF Init, Steps
<1>4. leaked \in BOOLEAN
  BY DEF Init
<1>5. /\ institution \in [Institutions -> {"APPROVED", "SUSPENDED"}]
      /\ balance \in [Slots -> Int]
      /\ height \in [Txs -> Nat] /\ nonce \in [Txs -> Nat] /\ created \in [Txs -> Nat]
      /\ lastFinal \in [Validators -> Nat]
      /\ work \in [Processes -> [Slots -> Int]]
  BY DEF Init
<1> QED
  BY <1>1, <1>2, <1>3, <1>4, <1>5 DEF Init, TypeOK, Statuses, CaseStatuses

\* What a pass has loaded and worked out.
LocalTypes ==
  /\ snap \in [Processes -> Snapshot]
  /\ todo \in [Processes -> SUBSET Txs]
  /\ accepted \in [Processes -> Seq(Txs)]
  /\ work \in [Processes -> [Slots -> Int]]

\* The tables and the requests.
StoreTypes ==
  /\ institution \in [Institutions -> {"APPROVED", "SUSPENDED"}]
  /\ balance \in [Slots -> Int]
  /\ status \in [Txs -> Statuses \cup {NoRow}]
  /\ nonce \in [Txs -> Nat]
  /\ created \in [Txs -> Nat]
  /\ height \in [Txs -> Nat]
  /\ caseStatus \in [Txs -> CaseStatuses \cup {NoRow}]
  /\ blocks \in Seq(Block)
  /\ audit \subseteq {"TRANSACTION_REJECTED", "TRANSACTION_FINALIZED"} \X Txs
  /\ request \in [Txs -> {"new", "stamped", "stored", "failed"}]
  /\ review \in [Reviewers -> [tx : Txs \cup {None}, decision : {"APPROVED", "REJECTED"}]]

\* The progress of the processes, and what they have reported.
ControlTypes ==
  /\ lastFinal \in [Validators -> Nat]
  /\ lock \in Processes \cup {None}
  /\ leaked \in BOOLEAN
  /\ pc \in [Processes -> Steps]
  /\ faults \in Nat

\* They are the type invariant, now and in the next state.
LEMMA TypeParts ==
  /\ TypeOK <=> StoreTypes /\ ControlTypes /\ LocalTypes
  /\ TypeOK' <=> StoreTypes' /\ ControlTypes' /\ LocalTypes'
BY DEF TypeOK, StoreTypes, ControlTypes, LocalTypes

\* A step that leaves the tables and the requests alone.
LEMMA SameStore ==
  ASSUME StoreTypes,
         UNCHANGED <<institution, balance, status, nonce, created, height, caseStatus,
                     blocks, audit, request, review>>
  PROVE  StoreTypes'
BY DEF StoreTypes


\* The locals of a pass that is left.
LEMMA ClearPassType ==
  ASSUME TypeOK, NEW p \in Processes, ClearPass(p)
  PROVE  LocalTypes'
<1>1. << >> \in Seq(Txs) /\ [slot \in Slots |-> 0] \in [Slots -> Int]
  OBVIOUS
<1>2. LocalTypes
  BY DEF TypeOK, LocalTypes
<1> QED
  BY <1>1, <1>2, EmptySnapType DEF ClearPass, LocalTypes

\* Every step, faults included, keeps the types.
LEMMA TypeStep == TypeOK /\ [Next]_vars => TypeOK'
<1> SUFFICES ASSUME TypeOK, [Next]_vars PROVE TypeOK'
  OBVIOUS
<1> USE DEF vars, tables, apiVars, passVars
<1>1. ASSUME NEW t \in Txs, BeginRequest(t) PROVE TypeOK'
  <2>1. Cardinality(Stamped) \in Nat /\ Cardinality(Txs) \in Nat
    BY CardinalityType DEF Stamped
  <2> QED
    BY <1>1, <2>1 DEF BeginRequest, TypeOK
<1>2. ASSUME NEW t \in Txs, InsertTransaction(t) PROVE TypeOK'
  BY <1>2 DEF InsertTransaction, TypeOK, Statuses, CaseStatuses
<1>3. ASSUME NEW t \in Txs, InsertConflicts(t) PROVE TypeOK'
  BY <1>3 DEF InsertConflicts, TypeOK
<1>4. ASSUME NEW r \in Reviewers, NEW t \in Txs, NEW d \in {"APPROVED", "REJECTED"},
             ReadCase(r, t, d)
      PROVE  TypeOK'
  BY <1>4 DEF ReadCase, TypeOK
<1>5. ASSUME NEW r \in Reviewers, ResolveCase(r) PROVE TypeOK'
  <2>1. review[r].tx \in Txs /\ review[r].decision \in {"APPROVED", "REJECTED"}
    BY <1>5 DEF ResolveCase, TypeOK
  <2>2. review' \in [Reviewers -> [tx : Txs \cup {None}, decision : {"APPROVED", "REJECTED"}]]
    BY <1>5 DEF ResolveCase, TypeOK
  <2> QED
    BY <1>5, <2>1, <2>2 DEF ResolveCase, TypeOK, Statuses, CaseStatuses, Released
<1>6. ASSUME NEW i \in Institutions, SuspendInstitution(i) PROVE TypeOK'
  BY <1>6 DEF SuspendInstitution, TypeOK
<1>7. ASSUME NEW p \in Processes, BeginPass(p) PROVE TypeOK'
  BY <1>7 DEF BeginPass, Goto, TypeOK, Steps
<1>8. ASSUME NEW p \in Processes, TryLock(p) PROVE TypeOK'
  BY <1>8 DEF TryLock, Goto, TypeOK, Steps, LockedSteps, LoadSteps
<1>9. ASSUME NEW p \in Processes, LoadSnapshot(p) PROVE TypeOK'
  <2>1. snap' \in [Processes -> Snapshot]
    <3> DEFINE s == snap[p]
    <3>1. s \in Snapshot
      BY DEF TypeOK
    <3>2. /\ [s EXCEPT !.institution = institution] \in Snapshot
          /\ [s EXCEPT !.balance = balance] \in Snapshot
          /\ [s EXCEPT !.status = status, !.height = height] \in Snapshot
          /\ [s EXCEPT !.caseStatus = caseStatus] \in Snapshot
          /\ [s EXCEPT !.blocks = blocks] \in Snapshot
      BY <3>1 DEF TypeOK, Snapshot
    <3> HIDE DEF s
    <3>3. \E ns \in Snapshot : snap' = [snap EXCEPT ![p] = ns]
      BY <1>9, <3>2 DEF s, LoadSnapshot, LoadStep, LoadInstitutions, LoadBalances,
                        LoadPayments, LoadCases, LoadBlocks
    <3> QED
      BY <3>3 DEF TypeOK
  <2>2. pc' \in [Processes -> Steps]
    <3>1. \E to \in {"balances", "payments", "cases", "blocks", "fetch"} : Goto(p, to)
      BY <1>9 DEF LoadSnapshot, LoadStep, LoadInstitutions, LoadBalances, LoadPayments,
                  LoadCases, LoadBlocks
    <3>2. {"balances", "payments", "cases", "blocks", "fetch"} \subseteq Steps
      BY DEF Steps, LockedSteps, LoadSteps
    <3> QED
      BY <3>1, <3>2 DEF TypeOK, Goto
  <2>3. UNCHANGED <<tables, lock, leaked, apiVars, todo, accepted, work, faults>>
    BY <1>9 DEF LoadSnapshot, LoadStep, LoadInstitutions, LoadBalances, LoadPayments,
                LoadCases, LoadBlocks
  <2> QED
    BY <2>1, <2>2, <2>3 DEF TypeOK
<1>10. ASSUME NEW p \in Processes, FetchPending(p) PROVE TypeOK'
  <2>1. UNCHANGED <<tables, lock, leaked, apiVars, faults>>
    BY <1>10 DEF FetchPending
  <2>2. StoreTypes' /\ LocalTypes
    BY <2>1, SameStore, TypeParts
  <2>3. ASSUME NEW step \in Steps, Goto(p, step) PROVE ControlTypes'
    BY <2>1, <2>3, TypeParts DEF ControlTypes, Goto
  <2>4. CASE ClearPass(p) /\ Goto(p, "release")
    <3>1. ControlTypes'
      BY <2>3, <2>4 DEF Steps, LockedSteps
    <3>2. LocalTypes'
      BY <2>4, ClearPassType
    <3> QED
      BY <2>2, <3>1, <3>2, TypeParts
  <2>5. ASSUME NEW batch \in SUBSET Txs,
               todo' = [todo EXCEPT ![p] = batch],
               work' = [work EXCEPT ![p] = snap[p].balance],
               Goto(p, "validate"),
               UNCHANGED <<snap, accepted>>
        PROVE  TypeOK'
    <3>1. ControlTypes'
      BY <2>3, <2>5 DEF Steps, LockedSteps
    <3>2. LocalTypes'
      BY <2>2, <2>5 DEF LocalTypes, Snapshot
    <3> QED
      BY <2>2, <3>1, <3>2, TypeParts
  <2> QED
    BY <1>10, <2>4, <2>5 DEF FetchPending, Pending
<1>11. ASSUME NEW p \in Processes, AcceptNext(p) PROVE TypeOK'
  <2>1. PICK t \in todo[p] :
          /\ accepted' = [accepted EXCEPT ![p] = Append(@, t)]
          /\ work' = [work EXCEPT ![p] = Apply(t, @)]
          /\ todo' = [todo EXCEPT ![p] = @ \ {t}]
    BY <1>11 DEF AcceptNext
  <2>2. t \in Txs
    BY <2>1 DEF TypeOK
  <2>3. Apply(t, work[p]) \in [Slots -> Int]
    BY <2>2, ApplyType DEF TypeOK
  <2>4. StoreTypes' /\ ControlTypes'
    BY <1>11, SameStore, TypeParts DEF AcceptNext, ControlTypes
  <2>5. LocalTypes'
    BY <1>11, <2>1, <2>2, <2>3, TypeParts DEF AcceptNext, LocalTypes
  <2> QED
    BY <2>4, <2>5, TypeParts
<1>12. ASSUME NEW p \in Processes, RejectNext(p) PROVE TypeOK'
  BY <1>12 DEF RejectNext, TypeOK, Statuses, Goto, Steps, LockedSteps
<1>13. ASSUME NEW p \in Processes, AuditRejection(p) PROVE TypeOK'
  BY <1>13 DEF AuditRejection, TypeOK, Goto, Steps, LockedSteps
<1>14. ASSUME NEW p \in Processes, EndBatch(p) PROVE TypeOK'
  <2>1. UNCHANGED <<tables, lock, leaked, apiVars, faults>>
    BY <1>14 DEF EndBatch
  <2>2. PICK step \in Steps : Goto(p, step)
    BY <1>14 DEF EndBatch, Steps, LockedSteps
  <2>3. StoreTypes' /\ ControlTypes'
    BY <2>1, <2>2, SameStore, TypeParts DEF ControlTypes, Goto
  <2>4. ClearPass(p) \/ UNCHANGED <<snap, todo, accepted, work>>
    BY <1>14 DEF EndBatch
  <2>5. LocalTypes'
    <3>1. CASE ClearPass(p)
      BY <3>1, ClearPassType
    <3>2. CASE UNCHANGED <<snap, todo, accepted, work>>
      BY <3>2, TypeParts DEF LocalTypes
    <3> QED
      BY <2>4, <3>1, <3>2
  <2> QED
    BY <2>3, <2>5, TypeParts
<1>15. ASSUME NEW p \in Processes, SaveSnapshot(p) PROVE TypeOK'
  <2> DEFINE s == snap[p]
             h == NextHeight(p)
             block == [validator |-> ValidatorOf[p], txs |-> accepted[p],
                       prev |-> LastHash(s.blocks)]
  <2>1. s \in Snapshot /\ h \in Nat
    BY DEF TypeOK, NextHeight, Snapshot
  <2>2. block \in Block
    BY <2>1, LastHashType, ProcessAssumption DEF Snapshot, Block, TypeOK
  <2>3. blocks' \in Seq(Block)
    <3>1. blocks' = Append(blocks, block) \/ blocks' = blocks
      BY <1>15 DEF SaveSnapshot, BlockInserted
    <3>2. blocks \in Seq(Block)
      BY DEF TypeOK
    <3> HIDE DEF block
    <3> QED
      BY <2>2, <3>1, <3>2
  <2>4. status' \in [Txs -> Statuses \cup {NoRow}]
    BY <1>15, <2>1 DEF SaveSnapshot, SavedStatus, TypeOK, Snapshot, Statuses
  <2>5. height' \in [Txs -> Nat]
    BY <1>15, <2>1 DEF SaveSnapshot, SavedHeight, TypeOK, Snapshot
  <2>6. caseStatus' \in [Txs -> CaseStatuses \cup {NoRow}]
    BY <1>15, <2>1 DEF SaveSnapshot, SavedCases, TypeOK, Snapshot
  <2>7. institution' \in [Institutions -> {"APPROVED", "SUSPENDED"}]
    BY <1>15, <2>1 DEF SaveSnapshot, Snapshot
  <2>8. balance' \in [Slots -> Int]
    BY <1>15 DEF SaveSnapshot, TypeOK
  <2>9. audit' \subseteq {"TRANSACTION_REJECTED", "TRANSACTION_FINALIZED"} \X Txs
    BY <1>15 DEF SaveSnapshot, SavedAudit, TypeOK, InBlock
  <2>10. pc' \in [Processes -> Steps]
    BY <1>15 DEF SaveSnapshot, TypeOK, Goto, Steps, LockedSteps
  <2>11. UNCHANGED <<nonce, created, lastFinal, lock, leaked, apiVars, snap, todo, accepted, work, faults>>
    BY <1>15 DEF SaveSnapshot
  <2>12. StoreTypes'
    BY <2>3, <2>4, <2>5, <2>6, <2>7, <2>8, <2>9, <2>11, TypeParts DEF StoreTypes
  <2>13. ControlTypes' /\ LocalTypes'
    BY <2>10, <2>11, TypeParts DEF ControlTypes, LocalTypes
  <2> QED
    BY <2>12, <2>13, TypeParts
<1>16. ASSUME NEW p \in Processes, RecordFinalized(p) PROVE TypeOK'
  <2>1. NextHeight(p) \in Nat
    BY DEF TypeOK, NextHeight, Snapshot
  <2>2. lastFinal' \in [Validators -> Nat]
    BY <1>16, <2>1, ProcessAssumption DEF RecordFinalized, TypeOK
  <2>3. ControlTypes'
    BY <1>16, <2>2, TypeParts DEF RecordFinalized, ControlTypes, Goto, Steps, LockedSteps
  <2>4. StoreTypes'
    BY <1>16, SameStore, TypeParts DEF RecordFinalized
  <2>5. LocalTypes'
    BY <1>16, ClearPassType DEF RecordFinalized
  <2> QED
    BY <2>3, <2>4, <2>5, TypeParts
<1>17. ASSUME NEW p \in Processes, ReleaseLock(p) PROVE TypeOK'
  BY <1>17 DEF ReleaseLock, Unlocked, TypeOK, Goto, Steps
<1>18. ASSUME NEW p \in Processes, StepFails(p) PROVE TypeOK'
  <2>1. /\ ClearPass(p) /\ Goto(p, "release") /\ faults' = faults + 1
        /\ UNCHANGED <<tables, lock, leaked, apiVars>>
    BY <1>18 DEF StepFails, Fault
  <2>2. ControlTypes'
    BY <2>1, TypeParts DEF ControlTypes, Goto, Steps, LockedSteps
  <2>3. StoreTypes' /\ LocalTypes'
    BY <2>1, SameStore, ClearPassType, TypeParts
  <2> QED
    BY <2>2, <2>3, TypeParts
<1>19. ASSUME NEW p \in Processes, Crash(p) PROVE TypeOK'
  <2>1. /\ ClearPass(p) /\ Goto(p, "idle") /\ faults' = faults + 1
        /\ lock' \in {lock, None} /\ leaked' \in BOOLEAN
        /\ UNCHANGED <<tables, apiVars>>
    BY <1>19 DEF Crash, Fault, SessionEnds, Unlocked, TypeOK
  <2>2. ControlTypes'
    BY <2>1, TypeParts DEF ControlTypes, Goto, Steps, LockedSteps
  <2>3. StoreTypes' /\ LocalTypes'
    BY <2>1, SameStore, ClearPassType, TypeParts
  <2> QED
    BY <2>2, <2>3, TypeParts
<1>20. ASSUME NEW p \in Processes, SessionDies(p) PROVE TypeOK'
  BY <1>20 DEF SessionDies, SessionEnds, Unlocked, Fault, TypeOK
<1>21. ASSUME NEW p \in Processes, UnlockFails(p) PROVE TypeOK'
  BY <1>21 DEF UnlockFails, Fault, TypeOK, Goto, Steps
<1>22. ASSUME NEW p \in Processes, RetireSession(p) PROVE TypeOK'
  BY <1>22 DEF RetireSession, SessionEnds, Unlocked, TypeOK
<1>23. CASE UNCHANGED vars
  BY <1>23 DEF TypeOK
<1> QED
  BY <1>1, <1>2, <1>3, <1>4, <1>5, <1>6, <1>7, <1>8, <1>9, <1>10, <1>11, <1>12, <1>13,
     <1>14, <1>15, <1>16, <1>17, <1>18, <1>19, <1>20, <1>21, <1>22, <1>23
     DEF Next, ClientStep, ReviewerStep, ValidatorStep, FaultStep

\* The tables and the locals of every pass keep their types.
THEOREM TypeCorrect == Spec => []TypeOK
<1> QED
  BY TypeInit, TypeStep, PTL DEF Spec

-----------------------------------------------------------------------------
(* The inductive invariant.                                                *)

HasBatch    == {"validate", "audit", "save"}
HasBlocks   == HasBatch \cup {"fetch"}
HasPayments == HasBlocks \cup {"cases", "blocks"}
HasBalances == HasPayments \cup {"payments"}

\* A pass that is under way holds the lock.  Not the other way round: a leaked lock is
\* held by a process that is in no pass.
Exclusion == \A p \in Processes : pc[p] \in LockedSteps => lock = p

\* A transaction that was not stored has no row.
RequestInv == \A t \in Txs : request[t] # "stored" => status[t] = NoRow

SameSource(t, u) == Tx[t].from = Tx[u].from

\* What pass p has loaded so far is still so.
SnapshotCurrent(p) ==
  /\ pc[p] \in HasBalances => snap[p].balance = balance
  /\ pc[p] \in HasPayments =>
       /\ snap[p].height = height
       /\ \A t \in Txs :
            /\ snap[p].status[t] = "FINALIZED" <=> status[t] = "FINALIZED"
            /\ status[t] = "HELD" => snap[p].status[t] \in {"HELD", NoRow}
            /\ snap[p].status[t] # NoRow => status[t] # NoRow
  /\ pc[p] \in HasBlocks => snap[p].blocks = blocks

\* What pass p has accepted extends the chain.
Extends(p) ==
  /\ \A t \in todo[p] \cup InBlock(p) : status[t] \in {"PENDING", "REJECTED"}
  /\ todo[p] \cap InBlock(p) = {}
  /\ \A i, j \in DOMAIN accepted[p] : accepted[p][i] = accepted[p][j] => i = j
  /\ \A i, j \in DOMAIN accepted[p] :
       i < j /\ SameSource(accepted[p][i], accepted[p][j]) =>
         nonce[accepted[p][i]] < nonce[accepted[p][j]]
  /\ \A t \in InBlock(p), u \in Finalized : SameSource(t, u) => nonce[u] < nonce[t]
  /\ \A slot \in Slots : work[p][slot] >= 0

BatchCurrent(p) ==
  /\ pc[p] \in HasBatch => Extends(p)
  /\ pc[p] \notin HasBatch \cup {"record"} => accepted[p] = << >>
  /\ pc[p] = "record" =>
       NextHeight(p) = Len(blocks) /\ blocks[Len(blocks)].validator = ValidatorOf[p]

PassInv == \A p \in Processes : SnapshotCurrent(p) /\ BatchCurrent(p)

\* No transaction is twice in a block.
BlocksInjective ==
  \A h \in DOMAIN blocks : \A i, j \in DOMAIN blocks[h].txs :
    blocks[h].txs[i] = blocks[h].txs[j] => i = j

BlocksAgree ==
  /\ \A t \in Txs : status[t] = "FINALIZED" <=> height[t] # 0
  /\ \A h \in DOMAIN blocks : Committed(h) = {t \in Txs : height[t] = h}
  /\ \A t \in Txs : height[t] <= Len(blocks)
  /\ BlocksInjective

TableInv == BlocksAgree /\ NoncesGrow /\ StatusFollowsChain /\ Solvent

\* The inductive invariant of the settlement path.
IInv == TypeOK /\ Exclusion /\ RequestInv /\ PassInv /\ TableInv

-----------------------------------------------------------------------------
(* Mutual exclusion.  It needs Postgres to keep the session of a pass.      *)

\* At first nobody is in a pass and the lock is free.
LEMMA ExclusionInit == Init => Exclusion
BY NoneAssumption DEF Init, Exclusion, LockedSteps, LoadSteps

\* Only the holder of the lock leaves a locked step, and only a free lock is taken.
LEMMA ExclusionStep ==
  ASSUME ~SessionsCanDie, TypeOK, Exclusion, [Next]_vars
  PROVE  Exclusion'
<1> USE DEF tables, apiVars, passVars
<1>1. CASE UNCHANGED <<pc, lock>>
  BY <1>1 DEF Exclusion
<1>2. ASSUME NEW p \in Processes, NEW step \in Steps, Goto(p, step), lock' = lock,
             pc[p] \in LockedSteps <=> step \in LockedSteps
      PROVE  Exclusion'
  BY <1>2 DEF Exclusion, TypeOK, Goto
<1>3. ASSUME NEW p \in Processes, TryLock(p) PROVE Exclusion'
  BY <1>3, NoneAssumption
     DEF TryLock, Exclusion, TypeOK, Goto, LockIsFree, LockedSteps, LoadSteps
<1>4. ASSUME NEW p \in Processes, lock' \in {lock, Unlocked(p)}, pc'[p] \notin LockedSteps,
             \A q \in Processes \ {p} : pc'[q] = pc[q]
      PROVE  Exclusion'
  BY <1>4 DEF Exclusion, Unlocked
<1>14. ASSUME NEW p \in Processes, ReleaseLock(p) \/ UnlockFails(p) \/ Crash(p)
       PROVE  Exclusion'
  <2>1. Goto(p, "idle") /\ lock' \in {lock, Unlocked(p)}
    BY <1>14 DEF ReleaseLock, UnlockFails, Crash, SessionEnds
  <2>2. pc'[p] = "idle" /\ \A q \in Processes \ {p} : pc'[q] = pc[q]
    BY <2>1 DEF Goto, TypeOK
  <2> QED
    BY <1>4, <2>1, <2>2 DEF LockedSteps, LoadSteps
<1>15. ASSUME NEW p \in Processes, RetireSession(p) PROVE Exclusion'
  BY <1>4, <1>15 DEF RetireSession, SessionEnds
<1>5. ASSUME NEW p \in Processes, BeginPass(p) PROVE Exclusion'
  BY <1>5, <1>2 DEF BeginPass, Steps, LockedSteps, LoadSteps
<1>6. ASSUME NEW p \in Processes, LoadSnapshot(p) PROVE Exclusion'
  BY <1>6, <1>2 DEF LoadSnapshot, LoadStep, LoadInstitutions, LoadBalances, LoadPayments,
                    LoadCases, LoadBlocks, Steps, LockedSteps, LoadSteps
<1>7. ASSUME NEW p \in Processes,
             \/ FetchPending(p) \/ RejectNext(p) \/ AuditRejection(p) \/ SaveSnapshot(p)
             \/ RecordFinalized(p) \/ StepFails(p)
      PROVE  Exclusion'
  BY <1>7, <1>2 DEF FetchPending, RejectNext, AuditRejection, SaveSnapshot,
                    RecordFinalized, StepFails, Steps, LockedSteps
<1>8. ASSUME NEW p \in Processes, EndBatch(p) PROVE Exclusion'
  BY <1>8, <1>2 DEF EndBatch, Steps, LockedSteps
<1>9. ASSUME NEW p \in Processes, AcceptNext(p) PROVE Exclusion'
  BY <1>9, <1>1 DEF AcceptNext
<1>10. ASSUME NEW t \in Txs, ClientStep(t) PROVE Exclusion'
  BY <1>10, <1>1 DEF ClientStep, BeginRequest, InsertTransaction, InsertConflicts
<1>11. ASSUME NEW r \in Reviewers, ReviewerStep(r) PROVE Exclusion'
  BY <1>11, <1>1 DEF ReviewerStep, ReadCase, ResolveCase
<1>12. ASSUME NEW i \in Institutions, SuspendInstitution(i) PROVE Exclusion'
  BY <1>12, <1>1 DEF SuspendInstitution
<1>13. CASE UNCHANGED vars
  BY <1>13, <1>1 DEF vars
<1> QED
  BY <1>3, <1>14, <1>15, <1>5, <1>6, <1>7, <1>8, <1>9, <1>10, <1>11, <1>12, <1>13
     DEF Next, ValidatorStep, FaultStep, SessionDies

\* While one pass is under way, no other is.
LEMMA OthersIdle ==
  ASSUME Exclusion, NEW p \in Processes, NEW q \in Processes,
         pc[p] \in LockedSteps, p # q
  PROVE  pc[q] \notin LockedSteps
BY DEF Exclusion

\* At most one validator works between taking and releasing the advisory lock.
THEOREM MutualExclusion ==
  ASSUME ~SessionsCanDie
  PROVE  Spec => []OneProducer
<1>1. Exclusion => OneProducer
  BY DEF Exclusion, OneProducer
<1> QED
  BY <1>1, ExclusionInit, ExclusionStep, TypeCorrect, PTL DEF Spec

-----------------------------------------------------------------------------
(* Frames: what a step that leaves some variables alone cannot break.       *)

\* TableInv speaks of these tables only.
LEMMA TableFrame ==
  ASSUME TableInv, UNCHANGED <<balance, status, nonce, height, blocks, lastFinal>>
  PROVE  TableInv'
BY DEF TableInv, BlocksAgree, BlocksInjective, Committed, NoncesGrow, Finalized, Before, StatusFollowsChain, Solvent

\* A transaction that is not finalized does not matter to the chain.
LEMMA StatusFrame ==
  ASSUME TypeOK, TableInv,
         UNCHANGED <<balance, nonce, height, blocks, lastFinal>>,
         NEW t \in Txs, status[t] # "FINALIZED",
         NEW new \in Statuses \ {"FINALIZED"}, status' = [status EXCEPT ![t] = new]
  PROVE  TableInv'
<1>1. \A u \in Txs : status'[u] = "FINALIZED" <=> status[u] = "FINALIZED"
  BY DEF TypeOK
<1>2. Finalized' = Finalized
  BY <1>1 DEF Finalized
<1> QED
  BY <1>1, <1>2
     DEF TableInv, BlocksAgree, BlocksInjective, Committed, NoncesGrow,
         Before, StatusFollowsChain, Solvent

\* A step of p within its pass changes no other pass.
LEMMA OtherPasses ==
  ASSUME TypeOK, Exclusion, PassInv,
         NEW p \in Processes, NEW q \in Processes, q # p,
         pc[p] \in LockedSteps, pc'[q] = pc[q], accepted'[q] = accepted[q]
  PROVE  SnapshotCurrent(q)' /\ BatchCurrent(q)'
<1>1. pc'[q] \notin HasBalances \cup HasPayments \cup HasBlocks \cup HasBatch \cup {"record"}
  BY OthersIdle DEF HasBatch, HasBlocks, HasPayments, HasBalances, LockedSteps, LoadSteps
<1>2. accepted'[q] = << >>
  BY <1>1 DEF PassInv, BatchCurrent
<1> QED
  BY <1>1, <1>2 DEF SnapshotCurrent, BatchCurrent

\* A pass whose locals and whose view of the tables do not change.
LEMMA UntouchedPass ==
  ASSUME PassInv, NEW q \in Processes,
         UNCHANGED <<balance, status, nonce, height, blocks>>,
         UNCHANGED <<pc[q], snap[q], todo[q], accepted[q], work[q]>>
  PROVE  SnapshotCurrent(q)' /\ BatchCurrent(q)'
<1>1. SnapshotCurrent(q) /\ BatchCurrent(q)
  BY DEF PassInv
<1>2. InBlock(q)' = InBlock(q) /\ Finalized' = Finalized
  BY DEF InBlock, Finalized
<1> QED
  BY <1>1, <1>2 DEF SnapshotCurrent, BatchCurrent, Extends, NextHeight

\* No pass notices a step that leaves these tables and the locals of passes alone.
LEMMA UntouchedPasses ==
  ASSUME PassInv, UNCHANGED <<balance, status, nonce, height, blocks, passVars>>
  PROVE  PassInv'
BY UntouchedPass DEF PassInv, passVars

-----------------------------------------------------------------------------
(* API processes preserve the invariant.                                    *)

\* A request whose transaction has no row changes nothing a pass has seen.
LEMMA BeginRequestStep ==
  ASSUME IInv, NEW t \in Txs, BeginRequest(t)
  PROVE  RequestInv' /\ PassInv' /\ TableInv'
<1> USE DEF BeginRequest, IInv, passVars
<1>1. status[t] = NoRow
  BY DEF RequestInv
<1>2. \A u \in Txs : u # t => nonce'[u] = nonce[u]
  BY DEF TypeOK
<1>3. RequestInv'
  BY DEF RequestInv, TypeOK
<1>4. ASSUME NEW p \in Processes PROVE SnapshotCurrent(p)'
  BY DEF PassInv, SnapshotCurrent
<1>5. ASSUME NEW p \in Processes PROVE BatchCurrent(p)'
  <2>1. CASE pc[p] \in HasBatch
    <3>1. Extends(p)
      BY <2>1 DEF PassInv, BatchCurrent
    <3>2. InBlock(p)' = InBlock(p) /\ Finalized' = Finalized
      BY DEF InBlock, Finalized
    <3>3. \A u \in InBlock(p) \cup Finalized : nonce'[u] = nonce[u]
      <4>1. InBlock(p) \cup Finalized \subseteq Txs
        BY DEF InBlock, Finalized, TypeOK
      <4>2. \A u \in InBlock(p) \cup Finalized : status[u] # NoRow
        BY <3>1 DEF Extends, Finalized, NoRow
      <4> QED
        BY <1>1, <1>2, <4>1, <4>2
    <3>4. \A i \in DOMAIN accepted[p] : accepted[p][i] \in InBlock(p)
      BY DEF InBlock
    <3>5. Extends(p)'
      BY <3>1, <3>2, <3>3, <3>4 DEF Extends
    <3> QED
      BY <2>1, <3>5 DEF BatchCurrent, HasBatch
  <2>2. CASE pc[p] \notin HasBatch
    BY <2>2 DEF PassInv, BatchCurrent, NextHeight
  <2> QED
    BY <2>1, <2>2
<1>6. TableInv'
  <2>1. \A u \in Finalized : nonce'[u] = nonce[u]
    BY <1>1, <1>2 DEF Finalized, NoRow
  <2>2. NoncesGrow'
    BY <2>1 DEF TableInv, NoncesGrow, Finalized, Before
  <2> QED
    BY <2>2 DEF TableInv, BlocksAgree, BlocksInjective, Committed,
                StatusFollowsChain, Solvent
<1> QED
  BY <1>3, <1>4, <1>5, <1>6 DEF PassInv

\* So does the change of the status of a transaction that no pass works on.
LEMMA StatusStep ==
  ASSUME TypeOK, PassInv, TableInv, NEW t \in Txs,
         status[t] \in {NoRow, "HELD"}, NEW new \in {"PENDING", "HELD", "REJECTED"},
         new = "HELD" => status[t] = NoRow,
         status' = [status EXCEPT ![t] = new],
         UNCHANGED <<balance, nonce, height, blocks, lastFinal, passVars>>
  PROVE  PassInv' /\ TableInv'
<1> USE DEF passVars
<1>1. TableInv'
  BY StatusFrame DEF Statuses, NoRow
<1>2. \A u \in Txs : status'[u] = IF u = t THEN new ELSE status[u]
  BY DEF TypeOK
<1>3. ASSUME NEW p \in Processes PROVE SnapshotCurrent(p)'
  BY <1>2 DEF PassInv, SnapshotCurrent, NoRow
<1>4. ASSUME NEW p \in Processes PROVE BatchCurrent(p)'
  <2>1. CASE pc[p] \in HasBatch
    <3>1. Extends(p)
      BY <2>1 DEF PassInv, BatchCurrent
    <3>2. InBlock(p)' = InBlock(p)
      BY DEF InBlock
    <3>3. Finalized' = Finalized
      BY <1>2 DEF Finalized, NoRow
    <3>4. todo[p] \cup InBlock(p) \subseteq Txs
      BY DEF TypeOK, InBlock
    <3>5. \A u \in todo[p] \cup InBlock(p) : status'[u] = status[u]
      BY <1>2, <3>1, <3>4 DEF Extends, NoRow
    <3>6. Extends(p)'
      BY <3>1, <3>2, <3>3, <3>5 DEF Extends
    <3> QED
      BY <2>1, <3>6 DEF BatchCurrent, HasBatch
  <2>2. CASE pc[p] \notin HasBatch
    BY <2>2 DEF PassInv, BatchCurrent, NextHeight
  <2> QED
    BY <2>1, <2>2
<1> QED
  BY <1>1, <1>3, <1>4 DEF PassInv

\* Requests add rows that no pass has accepted and that are not finalized.
LEMMA ClientSteps ==
  ASSUME IInv, NEW t \in Txs, ClientStep(t)
  PROVE  RequestInv' /\ PassInv' /\ TableInv'
<1>1. CASE BeginRequest(t)
  BY <1>1, BeginRequestStep
<1>2. CASE InsertTransaction(t)
  <2>1. status[t] = NoRow
    BY <1>2 DEF InsertTransaction, IInv, RequestInv
  <2>2. RequestInv'
    BY <1>2 DEF InsertTransaction, IInv, RequestInv, TypeOK
  <2>3. \E new \in {"PENDING", "HELD"} : status' = [status EXCEPT ![t] = new]
    BY <1>2 DEF InsertTransaction
  <2>4. PassInv' /\ TableInv'
    BY <1>2, <2>1, <2>3, StatusStep DEF InsertTransaction, IInv
  <2> QED
    BY <2>2, <2>4
<1>3. CASE InsertConflicts(t)
  BY <1>3, TableFrame, UntouchedPasses
     DEF InsertConflicts, IInv, RequestInv, TypeOK, tables, passVars
<1> QED
  BY <1>1, <1>2, <1>3 DEF ClientStep

\* Reviewers move only rows that are HELD, which no pass has in its batch.
LEMMA ReviewerSteps ==
  ASSUME IInv, NEW r \in Reviewers, ReviewerStep(r)
  PROVE  RequestInv' /\ PassInv' /\ TableInv'
<1>1. ASSUME NEW t \in Txs, NEW d \in {"APPROVED", "REJECTED"}, ReadCase(r, t, d)
      PROVE  RequestInv' /\ PassInv' /\ TableInv'
  BY <1>1, TableFrame, UntouchedPasses
     DEF ReadCase, IInv, RequestInv, tables, passVars
<1>2. ASSUME ResolveCase(r)
      PROVE  RequestInv' /\ PassInv' /\ TableInv'
  <2> DEFINE t == review[r].tx
             new == Released(review[r].decision)
  <2>1. t \in Txs /\ new \in {"PENDING", "REJECTED"}
    BY <1>2 DEF ResolveCase, IInv, TypeOK, Released
  <2>2. CASE status[t] = "HELD"
    <3>1. status' = [status EXCEPT ![t] = new]
      BY <1>2, <2>1, <2>2 DEF ResolveCase
    <3>2. PassInv' /\ TableInv'
      BY <1>2, <2>1, <2>2, <3>1, StatusStep DEF ResolveCase, IInv
    <3>3. RequestInv'
      BY <1>2, <2>1, <2>2, <3>1 DEF ResolveCase, IInv, RequestInv, TypeOK, NoRow
    <3> QED
      BY <3>2, <3>3
  <2>3. CASE status[t] # "HELD"
    <3>1. status' = status
      BY <1>2, <2>1, <2>3 DEF ResolveCase, IInv, TypeOK
    <3> QED
      BY <1>2, <3>1, TableFrame, UntouchedPasses DEF ResolveCase, IInv, RequestInv
  <2> QED
    BY <2>2, <2>3
<1> QED
  BY <1>1, <1>2 DEF ReviewerStep

\* Suspensions do not touch the ledger.
LEMMA SuspensionSteps ==
  ASSUME IInv, NEW i \in Institutions, SuspendInstitution(i)
  PROVE  RequestInv' /\ PassInv' /\ TableInv'
BY TableFrame, UntouchedPasses DEF SuspendInstitution, IInv, RequestInv, apiVars

-----------------------------------------------------------------------------
(* Validators preserve the invariant.                                       *)

\* A process that has loaded nothing yet, or is done.
LEMMA OutsidePass ==
  ASSUME NEW p, pc'[p] \in {"idle", "lock", "institutions", "balances", "release"},
         accepted'[p] = << >>
  PROVE  SnapshotCurrent(p)' /\ BatchCurrent(p)'
BY DEF SnapshotCurrent, BatchCurrent, HasBalances, HasPayments, HasBlocks, HasBatch

\* A step of p that leaves the tables alone, if it is right for p itself.
LEMMA LocalStep ==
  ASSUME IInv, NEW p \in Processes, NEW step, Goto(p, step) \/ pc' = pc,
         UNCHANGED <<balance, status, nonce, height, blocks>>,
         \A q \in Processes \ {p} :
           UNCHANGED <<snap[q], todo[q], accepted[q], work[q]>>,
         SnapshotCurrent(p)' /\ BatchCurrent(p)'
  PROVE  PassInv'
<1>1. ASSUME NEW q \in Processes \ {p} PROVE pc'[q] = pc[q]
  BY DEF IInv, TypeOK, Goto
<1>2. ASSUME NEW q \in Processes \ {p} PROVE SnapshotCurrent(q)' /\ BatchCurrent(q)'
  BY <1>1, UntouchedPass DEF IInv
<1> QED
  BY <1>2 DEF PassInv

\* A pass that drops its locals owes nothing.
LEMMA LeavePass ==
  ASSUME IInv, NEW p \in Processes, ClearPass(p),
         NEW step \in {"idle", "release"}, Goto(p, step),
         UNCHANGED <<balance, status, nonce, height, blocks>>
  PROVE  PassInv'
<1>1. pc'[p] = step /\ accepted'[p] = << >>
  BY DEF IInv, TypeOK, Goto, ClearPass
<1>2. \A q \in Processes \ {p} : UNCHANGED <<snap[q], todo[q], accepted[q], work[q]>>
  BY DEF IInv, TypeOK, ClearPass
<1>3. SnapshotCurrent(p)' /\ BatchCurrent(p)'
  BY <1>1, OutsidePass
<1> QED
  BY <1>2, <1>3, LocalStep

\* Between passes nothing is loaded.
LEMMA LockSteps ==
  ASSUME IInv, NEW p \in Processes,
         BeginPass(p) \/ TryLock(p) \/ ReleaseLock(p) \/ UnlockFails(p)
  PROVE  RequestInv' /\ PassInv' /\ TableInv'
<1> USE DEF BeginPass, TryLock, ReleaseLock, UnlockFails, tables, apiVars
<1>1. /\ pc[p] \in {"idle", "lock", "release"}
      /\ \E step \in {"lock", "institutions", "idle"} : Goto(p, step)
      /\ UNCHANGED <<tables, apiVars, snap, todo, accepted, work>>
  OBVIOUS
<1>2. pc'[p] \in {"lock", "institutions", "idle"}
  BY <1>1 DEF IInv, TypeOK, Goto
<1>3. accepted[p] = << >>
  BY <1>1 DEF IInv, PassInv, BatchCurrent, HasBatch
<1>4. SnapshotCurrent(p)' /\ BatchCurrent(p)'
  BY <1>1, <1>2, <1>3, OutsidePass
<1>5. PassInv'
  BY <1>1, <1>4, LocalStep
<1>6. RequestInv' /\ TableInv'
  BY <1>1, TableFrame DEF IInv, RequestInv
<1> QED
  BY <1>5, <1>6

\* A SELECT of load_snapshot brings what the table holds.
LEMMA SelectSteps ==
  ASSUME IInv, NEW p \in Processes, LoadSnapshot(p)
  PROVE  RequestInv' /\ PassInv' /\ TableInv'
<1>1. /\ UNCHANGED <<tables, lock, leaked, apiVars, todo, accepted, work, faults>>
      /\ pc[p] \in {"institutions", "balances", "payments", "cases", "blocks"}
      /\ \E step, ns : Goto(p, step) /\ snap' = [snap EXCEPT ![p] = ns]
  BY DEF LoadSnapshot, LoadStep, LoadInstitutions, LoadBalances, LoadPayments, LoadCases,
         LoadBlocks
<1>2. RequestInv' /\ TableInv'
  BY <1>1, TableFrame DEF IInv, RequestInv, tables, apiVars
<1>3. accepted'[p] = << >>
  BY <1>1 DEF IInv, PassInv, BatchCurrent, HasBatch
<1>4. SnapshotCurrent(p)
  BY DEF IInv, PassInv
<1>5. /\ pc \in [Processes -> Steps] /\ snap \in [Processes -> Snapshot]
      /\ snap[p] \in Snapshot
  BY DEF IInv, TypeOK
<1>6. SnapshotCurrent(p)' /\ BatchCurrent(p)'
  <2>1. CASE LoadInstitutions(p)
    BY <2>1, <1>3, <1>5, OutsidePass DEF LoadInstitutions, LoadStep, Goto
  <2>2. CASE LoadBalances(p)
    <3>1. pc'[p] = "payments" /\ snap'[p].balance = balance'
      BY <2>2, <1>5 DEF LoadBalances, LoadStep, Goto, tables, Snapshot
    <3> QED
      BY <3>1, <1>3
         DEF SnapshotCurrent, BatchCurrent, HasPayments, HasBlocks, HasBatch
  <2>3. CASE LoadPayments(p)
    <3>1. /\ pc[p] = "payments" /\ pc'[p] = "cases"
          /\ snap'[p].balance = snap[p].balance
          /\ snap'[p].status = status /\ snap'[p].height = height
          /\ UNCHANGED <<balance, status, height>>
      BY <2>3, <1>5 DEF LoadPayments, LoadStep, Goto, tables, Snapshot
    <3> QED
      BY <3>1, <1>3, <1>4
         DEF SnapshotCurrent, BatchCurrent, HasBalances, HasPayments, HasBlocks, HasBatch
  <2>4. CASE LoadCases(p)
    <3>1. /\ pc[p] = "cases" /\ pc'[p] = "blocks"
          /\ snap'[p].balance = snap[p].balance
          /\ snap'[p].status = snap[p].status /\ snap'[p].height = snap[p].height
          /\ UNCHANGED <<balance, status, height>>
      BY <2>4, <1>5 DEF LoadCases, LoadStep, Goto, tables, Snapshot
    <3> QED
      BY <3>1, <1>3, <1>4
         DEF SnapshotCurrent, BatchCurrent, HasBalances, HasPayments, HasBlocks, HasBatch
  <2>5. CASE LoadBlocks(p)
    <3>1. /\ pc[p] = "blocks" /\ pc'[p] = "fetch"
          /\ snap'[p].balance = snap[p].balance /\ snap'[p].blocks = blocks
          /\ snap'[p].status = snap[p].status /\ snap'[p].height = snap[p].height
          /\ UNCHANGED <<balance, status, height, blocks>>
      BY <2>5, <1>5 DEF LoadBlocks, LoadStep, Goto, tables, Snapshot
    <3> QED
      BY <3>1, <1>3, <1>4
         DEF SnapshotCurrent, BatchCurrent, HasBalances, HasPayments, HasBlocks, HasBatch
  <2> QED
    BY <2>1, <2>2, <2>3, <2>4, <2>5 DEF LoadSnapshot
<1>7. \A q \in Processes \ {p} : UNCHANGED <<snap[q], todo[q], accepted[q], work[q]>>
  BY <1>1, <1>5
<1>8. PassInv'
  BY <1>1, <1>6, <1>7, LocalStep DEF tables
<1> QED
  BY <1>2, <1>8

\* The batch is taken from rows that are PENDING now, so none is finalized.
LEMMA FetchStep ==
  ASSUME IInv, NEW p \in Processes, FetchPending(p)
  PROVE  RequestInv' /\ PassInv' /\ TableInv'
<1>1. UNCHANGED <<tables, lock, leaked, apiVars, faults>> /\ pc[p] = "fetch"
  BY DEF FetchPending
<1>2. RequestInv' /\ TableInv'
  BY <1>1, TableFrame DEF IInv, RequestInv, tables, apiVars
<1>3. CASE ClearPass(p) /\ Goto(p, "release")
  BY <1>1, <1>2, <1>3, LeavePass DEF tables
<1>4. ASSUME NEW batch \in SUBSET Pending,
             todo' = [todo EXCEPT ![p] = batch],
             work' = [work EXCEPT ![p] = snap[p].balance],
             Goto(p, "validate"),
             UNCHANGED <<snap, accepted>>
      PROVE  PassInv'
  <2>1. /\ pc'[p] = "validate" /\ todo'[p] = batch /\ work'[p] = snap[p].balance
        /\ \A q \in Processes \ {p} : UNCHANGED <<snap[q], todo[q], accepted[q], work[q]>>
    BY <1>4 DEF IInv, TypeOK, Goto
  <2>2. SnapshotCurrent(p) /\ accepted[p] = << >>
    BY <1>1 DEF IInv, PassInv, BatchCurrent, HasBatch
  <2>3. SnapshotCurrent(p)'
    BY <1>1, <1>4, <2>1, <2>2
       DEF SnapshotCurrent, HasBalances, HasPayments, HasBlocks, HasBatch, tables
  <2>4. InBlock(p)' = {} /\ accepted'[p] = << >>
    BY <1>4, <2>2 DEF InBlock
  <2>5. \A slot \in Slots : work'[p][slot] >= 0
    BY <1>1, <2>1, <2>2
       DEF IInv, TableInv, Solvent, SnapshotCurrent, HasBalances, HasPayments, HasBlocks
  <2>6. Extends(p)'
    BY <1>1, <1>4, <2>1, <2>4, <2>5 DEF Extends, Pending, tables
  <2> QED
    BY <1>1, <1>4, <2>1, <2>3, <2>6, LocalStep DEF BatchCurrent, HasBatch, tables
<1> QED
  BY <1>2, <1>3, <1>4 DEF FetchPending

\* What a funded transaction leaves is not overdrawn.
LEMMA ApplySolvent ==
  ASSUME NEW t \in Txs, NEW bal \in [Slots -> Int],
         \A slot \in Slots : bal[slot] >= 0,
         Tx[t].kind \in {"TRANSFER", "BURN"} => Funded(t, bal)
  PROVE  \A slot \in Slots : Apply(t, bal)[slot] >= 0
<1>1. Tx[t].amount \in Nat /\ Tx[t].kind \in Kinds
  BY TxAssumption
<1>2. ASSUME NEW slot \in Slots PROVE bal[slot] + Effect(t, slot) >= 0
  <2>1. bal[slot] \in Int /\ bal[slot] >= 0
    OBVIOUS
  <2>2. CASE Tx[t].kind # "MINT" /\ slot = Source(t)
    BY <1>1, <2>1, <2>2 DEF Funded, Effect, Credit, Debit, Kinds
  <2>3. CASE ~(Tx[t].kind # "MINT" /\ slot = Source(t))
    BY <1>1, <2>1, <2>3 DEF Effect, Credit, Debit
  <2> QED
    BY <2>2, <2>3
<1> QED
  BY <1>2 DEF Apply

\* What passes validation extends the chain, on the balances accepted so far.
LEMMA AcceptStep ==
  ASSUME IInv, NEW p \in Processes, AcceptNext(p)
  PROVE  RequestInv' /\ PassInv' /\ TableInv'
<1>1. /\ UNCHANGED <<tables, lock, leaked, apiVars, pc, snap, faults>>
      /\ pc[p] = "validate"
  BY DEF AcceptNext
<1>2. RequestInv' /\ TableInv'
  BY <1>1, TableFrame DEF IInv, RequestInv, tables, apiVars
<1>3. PICK t \in todo[p] :
        /\ Accepts(p, t)
        /\ accepted' = [accepted EXCEPT ![p] = Append(@, t)]
        /\ work' = [work EXCEPT ![p] = Apply(t, @)]
        /\ todo' = [todo EXCEPT ![p] = @ \ {t}]
  BY DEF AcceptNext
<1>4. /\ accepted[p] \in Seq(Txs) /\ t \in Txs /\ work[p] \in [Slots -> Int]
      /\ todo[p] \subseteq Txs
  BY DEF IInv, TypeOK
<1>5. /\ accepted'[p] = Append(accepted[p], t)
      /\ work'[p] = Apply(t, work[p])
      /\ todo'[p] = todo[p] \ {t}
      /\ \A q \in Processes \ {p} : UNCHANGED <<snap[q], todo[q], accepted[q], work[q]>>
  BY <1>1, <1>3 DEF IInv, TypeOK
<1>6. SnapshotCurrent(p) /\ Extends(p)
  BY <1>1 DEF IInv, PassInv, BatchCurrent, HasBatch
<1>7. SnapshotCurrent(p)'
  BY <1>1, <1>6 DEF SnapshotCurrent, tables
<1>8. InBlock(p)' = InBlock(p) \cup {t}
  <2> DEFINE seq == accepted[p]
             new == accepted'[p]
  <2>1. /\ DOMAIN new = DOMAIN seq \cup {Len(seq) + 1}
        /\ \A i \in DOMAIN seq : new[i] = seq[i]
        /\ new[Len(seq) + 1] = t
    BY <1>4, <1>5
  <2> HIDE DEF seq, new
  <2>2. {new[i] : i \in DOMAIN new} = {seq[i] : i \in DOMAIN seq} \cup {t}
    BY <2>1
  <2> QED
    BY <2>2 DEF InBlock, seq, new
<1>9. SnapFinal(p) = Finalized
  BY <1>1, <1>6 DEF SnapshotCurrent, SnapFinal, Finalized, HasPayments, HasBlocks, HasBatch
<1>10. \A u \in Finalized \cup InBlock(p) : SameSource(t, u) => nonce[u] < nonce[t]
  BY <1>3, <1>9 DEF Accepts, Valid, NonceIsFresh, SameSource
<1>11. Extends(p)'
  <2>1. \A slot \in Slots : work'[p][slot] >= 0
    BY <1>3, <1>4, <1>5, <1>6, ApplySolvent DEF Accepts, Valid, WorkingBalances, Extends
  <2>2. /\ DOMAIN accepted'[p] = DOMAIN accepted[p] \cup {Len(accepted[p]) + 1}
        /\ \A i \in DOMAIN accepted[p] :
             /\ accepted'[p][i] = accepted[p][i] /\ accepted[p][i] \in InBlock(p)
             /\ i \in Int /\ i < Len(accepted[p]) + 1
        /\ accepted'[p][Len(accepted[p]) + 1] = t
        /\ Len(accepted[p]) + 1 \in Int
    BY <1>4, <1>5 DEF InBlock
  <2>3. t \notin InBlock(p)
    BY <1>6 DEF Extends
  <2>4. \A i, j \in DOMAIN accepted'[p] : accepted'[p][i] = accepted'[p][j] => i = j
    BY <1>6, <2>2, <2>3 DEF Extends
  <2>5. \A i, j \in DOMAIN accepted'[p] :
          i < j /\ SameSource(accepted'[p][i], accepted'[p][j]) =>
            nonce[accepted'[p][i]] < nonce[accepted'[p][j]]
    <3> SUFFICES ASSUME NEW i \in DOMAIN accepted'[p], NEW j \in DOMAIN accepted'[p],
                        i < j, SameSource(accepted'[p][i], accepted'[p][j])
                 PROVE  nonce[accepted'[p][i]] < nonce[accepted'[p][j]]
      OBVIOUS
    <3>1. i \in DOMAIN accepted[p]
      BY <2>2
    <3>2. CASE j \in DOMAIN accepted[p]
      BY <1>6, <2>2, <3>1, <3>2 DEF Extends
    <3>3. CASE j = Len(accepted[p]) + 1
      BY <1>10, <2>2, <3>1, <3>3 DEF SameSource
    <3> QED
      BY <2>2, <3>2, <3>3
  <2>6. \A u \in InBlock(p)', v \in Finalized : SameSource(u, v) => nonce[v] < nonce[u]
    BY <1>6, <1>8, <1>10 DEF Extends
  <2>7. /\ Finalized' = Finalized /\ nonce' = nonce /\ status' = status
    BY <1>1, <1>6 DEF Finalized, Extends, tables
  <2>8. /\ \A u \in todo'[p] \cup InBlock(p)' : status[u] \in {"PENDING", "REJECTED"}
        /\ todo'[p] \cap InBlock(p)' = {}
    BY <1>5, <1>6, <1>8 DEF Extends
  <2> QED
    BY <2>1, <2>4, <2>5, <2>6, <2>7, <2>8 DEF Extends
<1>12. PassInv'
  BY <1>1, <1>5, <1>7, <1>11, LocalStep DEF BatchCurrent, HasBatch, tables
<1> QED
  BY <1>2, <1>12

\* A rejected transaction was pending, hence not final, and stays in the batch.
LEMMA RejectStep ==
  ASSUME IInv, NEW p \in Processes, RejectNext(p)
  PROVE  RequestInv' /\ PassInv' /\ TableInv'
<1>1. /\ UNCHANGED <<balance, nonce, height, blocks, lastFinal, request>>
      /\ UNCHANGED <<snap, todo, accepted, work>>
      /\ pc[p] = "validate" /\ Goto(p, "audit")
  BY DEF RejectNext, apiVars
<1>2. PICK t \in todo[p] :
        status' = [status EXCEPT ![t] = IF @ = "PENDING" THEN "REJECTED" ELSE @]
  BY DEF RejectNext
<1>3. SnapshotCurrent(p) /\ Extends(p)
  BY <1>1 DEF IInv, PassInv, BatchCurrent, HasBatch
<1>4. t \in Txs /\ status[t] \in {"PENDING", "REJECTED"}
  BY <1>3 DEF Extends, IInv, TypeOK
<1>5. \A u \in Txs : status'[u] = IF u = t THEN "REJECTED" ELSE status[u]
  BY <1>2, <1>4 DEF IInv, TypeOK
<1>6. status' = [status EXCEPT ![t] = "REJECTED"]
  BY <1>2, <1>4
<1>7. RequestInv'
  BY <1>1, <1>4, <1>5 DEF IInv, RequestInv, NoRow
<1>8. TableInv'
  BY <1>1, <1>4, <1>6, StatusFrame DEF IInv, Statuses
<1>9. pc' = [pc EXCEPT ![p] = "audit"] /\ pc'[p] = "audit"
  BY <1>1 DEF Goto, IInv, TypeOK
<1>10. SnapshotCurrent(p)'
  BY <1>1, <1>3, <1>4, <1>5, <1>9
     DEF SnapshotCurrent, HasBalances, HasPayments, HasBlocks, HasBatch, NoRow
<1>11. Extends(p)'
  <2>1. InBlock(p)' = InBlock(p) /\ Finalized' = Finalized
    BY <1>1, <1>4, <1>5 DEF InBlock, Finalized
  <2>2. todo[p] \cup InBlock(p) \subseteq Txs
    BY DEF IInv, TypeOK, InBlock
  <2>3. \A u \in todo[p] \cup InBlock(p) : status'[u] \in {"PENDING", "REJECTED"}
    BY <1>3, <1>5, <2>2 DEF Extends
  <2> QED
    BY <1>1, <1>3, <2>1, <2>3 DEF Extends
<1>12. BatchCurrent(p)'
  BY <1>9, <1>11 DEF BatchCurrent, HasBatch
<1>13. ASSUME NEW q \in Processes \ {p} PROVE SnapshotCurrent(q)' /\ BatchCurrent(q)'
  BY <1>1, <1>9, OtherPasses DEF IInv, LockedSteps
<1> QED
  BY <1>7, <1>8, <1>10, <1>12, <1>13 DEF PassInv

\* The audit trail of a rejection takes the transaction from the batch.
LEMMA AuditStep ==
  ASSUME IInv, NEW p \in Processes, AuditRejection(p)
  PROVE  RequestInv' /\ PassInv' /\ TableInv'
<1>1. /\ UNCHANGED <<balance, status, nonce, height, blocks, lastFinal, request>>
      /\ UNCHANGED <<snap, accepted, work>>
      /\ pc[p] = "audit" /\ Goto(p, "validate")
      /\ \E t : todo' = [todo EXCEPT ![p] = @ \ {t}]
  BY DEF AuditRejection, apiVars
<1>2. RequestInv' /\ TableInv'
  BY <1>1, TableFrame DEF IInv, RequestInv
<1>3. /\ pc'[p] = "validate" /\ todo'[p] \subseteq todo[p]
      /\ \A q \in Processes \ {p} : UNCHANGED <<snap[q], todo[q], accepted[q], work[q]>>
  BY <1>1 DEF IInv, TypeOK, Goto
<1>4. SnapshotCurrent(p) /\ Extends(p)
  BY <1>1 DEF IInv, PassInv, BatchCurrent, HasBatch
<1>5. SnapshotCurrent(p)'
  BY <1>1, <1>3, <1>4
     DEF SnapshotCurrent, HasBalances, HasPayments, HasBlocks, HasBatch
<1>6. Extends(p)'
  <2>1. InBlock(p)' = InBlock(p) /\ Finalized' = Finalized
    BY <1>1 DEF InBlock, Finalized
  <2> QED
    BY <1>1, <1>3, <1>4, <2>1 DEF Extends
<1>7. PassInv'
  BY <1>1, <1>3, <1>5, <1>6, LocalStep DEF BatchCurrent, HasBatch
<1> QED
  BY <1>2, <1>7

\* Ending a batch changes no table.
LEMMA EndBatchStep ==
  ASSUME IInv, NEW p \in Processes, EndBatch(p)
  PROVE  RequestInv' /\ PassInv' /\ TableInv'
<1>1. UNCHANGED <<tables, lock, leaked, apiVars, faults>> /\ pc[p] = "validate"
  BY DEF EndBatch
<1>2. RequestInv' /\ TableInv'
  BY <1>1, TableFrame DEF IInv, RequestInv, tables, apiVars
<1>3. CASE ClearPass(p) /\ Goto(p, "release")
  BY <1>1, <1>2, <1>3, LeavePass DEF tables
<1>4. CASE Goto(p, "save") /\ UNCHANGED <<snap, todo, accepted, work>>
  <2>1. pc'[p] = "save"
    BY <1>4 DEF IInv, TypeOK, Goto
  <2>2. SnapshotCurrent(p) /\ Extends(p)
    BY <1>1 DEF IInv, PassInv, BatchCurrent, HasBatch
  <2>3. SnapshotCurrent(p)'
    BY <1>1, <1>4, <2>1, <2>2
       DEF SnapshotCurrent, HasBalances, HasPayments, HasBlocks, HasBatch, tables
  <2>4. InBlock(p)' = InBlock(p) /\ Finalized' = Finalized
    BY <1>1, <1>4 DEF InBlock, Finalized, tables
  <2>5. Extends(p)'
    BY <1>1, <1>4, <2>2, <2>4 DEF Extends, tables
  <2>6. PassInv'
    BY <1>1, <1>4, <2>1, <2>3, <2>5, LocalStep DEF BatchCurrent, HasBatch, tables
  <2> QED
    BY <1>2, <2>6
<1> QED
  BY <1>3, <1>4 DEF EndBatch

\* validator_status is set to the block the pass has just appended.
LEMMA RecordStep ==
  ASSUME IInv, NEW p \in Processes, RecordFinalized(p)
  PROVE  RequestInv' /\ PassInv' /\ TableInv'
<1>1. /\ UNCHANGED <<balance, status, nonce, height, blocks, request>>
      /\ pc[p] = "record" /\ ClearPass(p) /\ Goto(p, "release")
      /\ lastFinal' = [lastFinal EXCEPT ![ValidatorOf[p]] = NextHeight(p)]
  BY DEF RecordFinalized, apiVars
<1>2. PassInv'
  BY <1>1, LeavePass
<1>3. StatusFollowsChain'
  <2>1. NextHeight(p) = Len(blocks) /\ blocks[Len(blocks)].validator = ValidatorOf[p]
    BY <1>1 DEF IInv, PassInv, BatchCurrent
  <2>2. Len(blocks) \in Nat
    BY DEF IInv, TypeOK
  <2>3. ASSUME NEW v \in Validators, lastFinal'[v] # 0
        PROVE  lastFinal'[v] <= Len(blocks) /\ blocks[lastFinal'[v]].validator = v
    <3>1. CASE v = ValidatorOf[p]
      BY <1>1, <2>1, <2>2, <3>1 DEF IInv, TypeOK
    <3>2. CASE v # ValidatorOf[p]
      BY <1>1, <2>3, <3>2 DEF IInv, TypeOK, TableInv, StatusFollowsChain
    <3> QED
      BY <3>1, <3>2
  <2> QED
    BY <1>1, <2>3 DEF StatusFollowsChain
<1>4. RequestInv' /\ TableInv'
  BY <1>1, <1>3
     DEF IInv, RequestInv, TableInv, BlocksAgree, BlocksInjective, Committed,
         NoncesGrow, Finalized, Before, Solvent
<1> QED
  BY <1>2, <1>4

\* Failing statements and crashes drop the locals of a pass and no row.
LEMMA FaultSteps ==
  ASSUME IInv, NEW p \in Processes, FaultStep(p)
  PROVE  RequestInv' /\ PassInv' /\ TableInv'
<1>1. UNCHANGED <<tables, apiVars>>
  BY DEF FaultStep, StepFails, UnlockFails, RetireSession, Crash, SessionDies
<1>2. RequestInv' /\ TableInv'
  BY <1>1, TableFrame DEF IInv, RequestInv, tables, apiVars
<1>3. CASE StepFails(p) \/ Crash(p)
  <2>1. ClearPass(p) /\ (Goto(p, "release") \/ Goto(p, "idle"))
    BY <1>3 DEF StepFails, Crash
  <2> QED
    BY <1>1, <1>2, <2>1, LeavePass DEF tables
<1>4. CASE SessionDies(p) \/ RetireSession(p)
  BY <1>1, <1>2, <1>4, UntouchedPasses DEF SessionDies, RetireSession, IInv, tables
<1>5. CASE UnlockFails(p)
  BY <1>5, LockSteps
<1> QED
  BY <1>3, <1>4, <1>5 DEF FaultStep

\* What a save changes in the tables, given that the snapshot is current: it
\* appends the block, and finalizes the block's transactions and no other.
LEMMA SaveEffect ==
  ASSUME IInv, NEW p \in Processes, SaveSnapshot(p)
  PROVE  /\ blocks' = Append(blocks, [validator |-> ValidatorOf[p], txs |-> accepted[p],
                                      prev |-> LastHash(blocks)])
         /\ \A t \in InBlock(p) : status[t] \in {"PENDING", "REJECTED"} /\ height[t] = 0
         /\ \A t \in Txs :
              /\ height'[t] = IF t \in InBlock(p) THEN Len(blocks) + 1 ELSE height[t]
              /\ status'[t] = "FINALIZED" <=> t \in InBlock(p) \/ status[t] = "FINALIZED"
              /\ status[t] = "HELD" => status'[t] = "HELD"
              /\ status[t] = NoRow => status'[t] = NoRow
<1>1. pc[p] = "save"
  BY DEF SaveSnapshot
<1>2. SnapshotCurrent(p) /\ Extends(p)
  BY <1>1 DEF IInv, PassInv, BatchCurrent, HasBatch
<1>3. /\ snap[p].blocks = blocks /\ snap[p].height = height
      /\ \A t \in Txs :
           /\ snap[p].status[t] = "FINALIZED" <=> status[t] = "FINALIZED"
           /\ status[t] = "HELD" => snap[p].status[t] \in {"HELD", NoRow}
           /\ snap[p].status[t] # NoRow => status[t] # NoRow
  BY <1>1, <1>2 DEF SnapshotCurrent, HasPayments, HasBlocks, HasBatch
<1>4. Len(blocks) \in Nat /\ NextHeight(p) = Len(blocks) + 1 /\ Len(blocks) < NextHeight(p)
  BY <1>3 DEF NextHeight, IInv, TypeOK
<1>5. \A t \in InBlock(p) :
        t \in Txs /\ status[t] \in {"PENDING", "REJECTED"} /\ height[t] = 0
  <2>1. InBlock(p) \subseteq Txs
    BY DEF InBlock, IInv, TypeOK
  <2> QED
    BY <1>2, <2>1 DEF Extends, IInv, TableInv, BlocksAgree
<1>6. ASSUME NEW t \in Txs
      PROVE  /\ height'[t] = IF t \in InBlock(p) THEN Len(blocks) + 1
                             ELSE IF snap[p].status[t] # NoRow THEN snap[p].height[t]
                             ELSE height[t]
             /\ status'[t] = IF t \in InBlock(p) THEN "FINALIZED"
                             ELSE IF snap[p].status[t] # NoRow THEN snap[p].status[t]
                             ELSE status[t]
  BY <1>4 DEF SaveSnapshot, SavedStatus, SavedHeight
<1>7. blocks' = Append(blocks, [validator |-> ValidatorOf[p], txs |-> accepted[p],
                                prev |-> LastHash(blocks)])
  BY <1>3, <1>4 DEF SaveSnapshot, BlockInserted
<1> QED
  BY <1>3, <1>5, <1>6, <1>7 DEF NoRow

\* The save writes what was loaded and accepted, which is still current: the heart
\* of the argument.
LEMMA SaveStep ==
  ASSUME IInv, TypeOK', NEW p \in Processes, SaveSnapshot(p)
  PROVE  RequestInv' /\ PassInv' /\ TableInv'
<1> DEFINE H == Len(blocks) + 1
           block == [validator |-> ValidatorOf[p], txs |-> accepted[p],
                     prev |-> LastHash(blocks)]
<1>1. /\ UNCHANGED <<nonce, lastFinal, request, snap, todo, accepted, work>>
      /\ pc[p] = "save" /\ Goto(p, "record") /\ balance' = work[p]
  BY DEF SaveSnapshot, apiVars
<1>2. pc' = [pc EXCEPT ![p] = "record"] /\ pc'[p] = "record"
  BY <1>1 DEF Goto, IInv, TypeOK
<1>3. SnapshotCurrent(p) /\ Extends(p)
  BY <1>1 DEF IInv, PassInv, BatchCurrent, HasBatch
<1>4. blocks' = Append(blocks, block)
  BY SaveEffect
<1>5. \A t \in InBlock(p) :
        t \in Txs /\ status[t] \in {"PENDING", "REJECTED"} /\ height[t] = 0
  <2>1. InBlock(p) \subseteq Txs
    BY DEF IInv, TypeOK, InBlock
  <2> QED
    BY <2>1, SaveEffect
<1>6. \A t \in Txs :
        /\ height'[t] = IF t \in InBlock(p) THEN H ELSE height[t]
        /\ status'[t] = "FINALIZED" <=> t \in InBlock(p) \/ status[t] = "FINALIZED"
        /\ status[t] = NoRow => status'[t] = NoRow
  BY SaveEffect
<1>7. /\ Len(blocks) \in Nat /\ H \in Nat /\ Len(blocks') = H /\ H # 0
      /\ DOMAIN blocks = 1..Len(blocks) /\ DOMAIN blocks' = DOMAIN blocks \cup {H}
      /\ \A h \in DOMAIN blocks : blocks'[h] = blocks[h] /\ h \in Nat /\ h < H
      /\ blocks'[H] = block
  BY <1>4 DEF IInv, TypeOK
<1>8. \A t \in Txs : height[t] \in Nat /\ height[t] < H /\ nonce[t] \in Nat
  BY <1>7 DEF IInv, TypeOK, TableInv, BlocksAgree
<1>9. block.txs = accepted[p] /\ block.validator = ValidatorOf[p]
  OBVIOUS
<1> HIDE DEF H, block
<1>10. RequestInv'
  BY <1>1, <1>6 DEF IInv, RequestInv
<1>11. PassInv'
  <2>1. SnapshotCurrent(p)'
    BY <1>2 DEF SnapshotCurrent, HasBalances, HasPayments, HasBlocks, HasBatch
  <2>2. NextHeight(p)' = H
    BY <1>1, <1>3 DEF NextHeight, SnapshotCurrent, HasBlocks, HasBatch, H
  <2>3. BatchCurrent(p)'
    BY <1>2, <1>7, <1>9, <2>2 DEF BatchCurrent, HasBatch
  <2>4. ASSUME NEW q \in Processes \ {p} PROVE SnapshotCurrent(q)' /\ BatchCurrent(q)'
    BY <1>1, <1>2, OtherPasses DEF IInv, LockedSteps
  <2> QED
    BY <2>1, <2>3, <2>4 DEF PassInv
<1>12. BlocksAgree'
  <2>1. \A t \in Txs : status'[t] = "FINALIZED" <=> height'[t] # 0
    BY <1>6, <1>7 DEF IInv, TableInv, BlocksAgree
  <2>2. \A t \in Txs : height'[t] <= Len(blocks')
    BY <1>6, <1>7, <1>8
  <2>3. ASSUME NEW h \in DOMAIN blocks'
        PROVE  Committed(h)' = {t \in Txs : height'[t] = h}
    <3>1. CASE h \in DOMAIN blocks
      <4>1. Committed(h)' = Committed(h)
        BY <1>7, <3>1 DEF Committed
      <4>2. Committed(h) = {t \in Txs : height[t] = h}
        BY <3>1 DEF IInv, TableInv, BlocksAgree
      <4>3. \A t \in Txs : height'[t] = h <=> height[t] = h
        BY <1>5, <1>6, <1>7, <3>1
      <4> QED
        BY <4>1, <4>2, <4>3
    <3>2. CASE h = H
      <4>1. Committed(h)' = InBlock(p)
        BY <1>7, <1>9, <3>2 DEF Committed, InBlock
      <4>2. \A t \in Txs : height'[t] = h <=> t \in InBlock(p)
        BY <1>6, <1>7, <1>8, <3>2
      <4> QED
        BY <1>5, <4>1, <4>2
    <3> QED
      BY <1>7, <3>1, <3>2
  <2>4. BlocksInjective'
    BY <1>3, <1>7, <1>9 DEF Extends, IInv, TableInv, BlocksAgree, BlocksInjective
  <2> QED
    BY <2>1, <2>2, <2>3, <2>4 DEF BlocksAgree
<1>13. NoncesGrow'
  <2> SUFFICES ASSUME NEW t \in Txs, NEW u \in Txs,
                      status'[t] = "FINALIZED", status'[u] = "FINALIZED",
                      SameSource(t, u), nonce[t] >= nonce[u], t # u
               PROVE  Before(u, t)'
    BY <1>1 DEF NoncesGrow, Finalized, SameSource
  <2>1. CASE t \in InBlock(p) /\ u \in InBlock(p)
    <3>1. height'[t] = H /\ height'[u] = H
      BY <1>6, <2>1
    <3>2. PICK i \in DOMAIN accepted[p], j \in DOMAIN accepted[p] :
            accepted[p][i] = u /\ accepted[p][j] = t
      BY <2>1 DEF InBlock
    <3>3. i \in Int /\ j \in Int
      <4>1. accepted[p] \in Seq(Txs)
        BY DEF IInv, TypeOK
      <4> QED
        BY <3>2, <4>1
    <3>4. ~(j < i)
      BY <1>3, <1>8, <3>2 DEF Extends, SameSource
    <3>5. i < j
      BY <3>2, <3>3, <3>4
    <3> QED
      BY <1>7, <1>9, <3>1, <3>2, <3>5 DEF Before
  <2>2. CASE t \in InBlock(p) /\ u \notin InBlock(p)
    BY <1>6, <1>8, <2>2 DEF Before
  <2>3. CASE t \notin InBlock(p) /\ u \in InBlock(p)
    <3>1. nonce[t] < nonce[u]
      BY <1>3, <1>6, <2>3 DEF Extends, SameSource, Finalized
    <3> QED
      BY <1>8, <3>1
  <2>4. CASE t \notin InBlock(p) /\ u \notin InBlock(p)
    <3>1. t \in Finalized /\ u \in Finalized
      BY <1>6, <2>4 DEF Finalized
    <3>2. Before(u, t)
      BY <3>1 DEF IInv, TableInv, NoncesGrow, SameSource
    <3>3. height'[t] = height[t] /\ height'[u] = height[u] /\ height[u] \in DOMAIN blocks
      <4>1. height[u] # 0
        BY <3>1 DEF Finalized, IInv, TableInv, BlocksAgree
      <4> QED
        BY <1>6, <1>7, <1>8, <2>4, <4>1 DEF H
    <3> QED
      BY <1>7, <3>2, <3>3 DEF Before
  <2> QED
    BY <2>1, <2>2, <2>3, <2>4
<1>14. StatusFollowsChain'
  <2>1. ASSUME NEW v \in Validators, lastFinal[v] # 0
        PROVE  lastFinal[v] <= Len(blocks') /\ blocks'[lastFinal[v]].validator = v
    <3>1. lastFinal[v] <= Len(blocks) /\ blocks[lastFinal[v]].validator = v
      BY <2>1 DEF IInv, TableInv, StatusFollowsChain
    <3>2. lastFinal[v] \in Nat
      BY DEF IInv, TypeOK
    <3>3. lastFinal[v] \in DOMAIN blocks
      BY <1>7, <2>1, <3>1, <3>2
    <3> QED
      BY <1>7, <3>1, <3>2, <3>3
  <2> QED
    BY <1>1, <2>1 DEF StatusFollowsChain
<1>15. Solvent'
  BY <1>1, <1>3 DEF Extends, Solvent
<1> QED
  BY <1>10, <1>11, <1>12, <1>13, <1>14, <1>15 DEF TableInv

-----------------------------------------------------------------------------
(* The invariant holds.                                                     *)

\* The invariant holds of the empty ledger.
LEMMA InvInit == Init => IInv
<1> SUFFICES ASSUME Init PROVE IInv
  OBVIOUS
<1>1. TypeOK /\ Exclusion
  BY TypeInit, ExclusionInit
<1>2. RequestInv /\ Finalized = {}
  BY DEF Init, RequestInv, Finalized, NoRow
<1>3. PassInv
  BY DEF Init, PassInv, SnapshotCurrent, BatchCurrent, HasBalances, HasPayments, HasBlocks,
         HasBatch
<1>4. DOMAIN blocks = {} /\ Len(blocks) = 0
  BY DEF Init
<1>5. BlocksAgree
  BY <1>4 DEF Init, BlocksAgree, BlocksInjective, NoRow
<1>6. TableInv
  BY <1>2, <1>4, <1>5
     DEF Init, TableInv, NoncesGrow, StatusFollowsChain, Solvent
<1> QED
  BY <1>1, <1>2, <1>3, <1>6 DEF IInv

\* Every step keeps the invariant, as long as sessions do not die.
LEMMA InvStep ==
  ASSUME ~SessionsCanDie, IInv, [Next]_vars
  PROVE  IInv'
<1>1. TypeOK' /\ Exclusion'
  BY TypeStep, ExclusionStep DEF IInv
<1>2. ASSUME NEW p \in Processes, ValidatorStep(p)
      PROVE  RequestInv' /\ PassInv' /\ TableInv'
  BY <1>1, <1>2, LockSteps, SelectSteps, FetchStep, AcceptStep, RejectStep, AuditStep,
     EndBatchStep, SaveStep, RecordStep
     DEF ValidatorStep
<1>3. CASE UNCHANGED vars
  <2>1. UNCHANGED <<balance, status, nonce, height, blocks, lastFinal, request, passVars>>
    BY <1>3 DEF vars, tables, apiVars
  <2> QED
    BY <1>1, <2>1, TableFrame, UntouchedPasses DEF IInv, RequestInv
<1> QED
  BY <1>1, <1>2, <1>3, ClientSteps, ReviewerSteps, SuspensionSteps, FaultSteps
     DEF Next, IInv

\* The invariant holds of every reachable state.
LEMMA InvHolds ==
  ASSUME ~SessionsCanDie
  PROVE  Spec => []IInv
<1> QED
  BY InvInit, InvStep, PTL DEF Spec

-----------------------------------------------------------------------------
(* What it gives.                                                           *)

\* The transactions table and the blocks tell the same story, and no transaction
\* settles twice.
THEOREM BlocksMatch ==
  ASSUME ~SessionsCanDie
  PROVE  Spec => []BlocksMatchTransactions
<1>1. ASSUME IInv, NEW h \in DOMAIN blocks
      PROVE  Cardinality(Committed(h)) = Len(blocks[h].txs)
  <2> DEFINE f == blocks[h].txs
             n == Len(f)
  <2>1. f \in Seq(Txs)
    <3>1. blocks \in Seq(Block)
      BY <1>1 DEF IInv, TypeOK
    <3>2. blocks[h] \in Block
      BY <1>1, <3>1
    <3> QED
      BY <3>2 DEF Block
  <2>2. DOMAIN f = 1..n /\ n \in Nat
    BY <2>1
  <2>3. \A i, j \in 1..n : f[i] = f[j] => i = j
    BY <1>1, <2>2 DEF IInv, TableInv, BlocksAgree, BlocksInjective
  <2>4. Committed(h) = {f[i] : i \in 1..n}
    BY <2>2 DEF Committed
  <2>5. f \in [1..n -> Committed(h)]
    BY <2>1, <2>2, <2>4
  <2> HIDE DEF f, n
  <2>6. f \in Bijection(1..n, Committed(h))
    <3>1. f \in Injection(1..n, Committed(h))
      BY <2>3, <2>5 DEF Injection, IsInjective
    <3>2. f \in Surjection(1..n, Committed(h))
      BY <2>4, <2>5 DEF Surjection
    <3> QED
      BY <3>1, <3>2 DEF Bijection
  <2>7. IsFiniteSet(1..n) /\ Cardinality(1..n) = n
    BY <2>2, FS_Interval
  <2>8. Cardinality(Committed(h)) = n
    BY <2>6, <2>7, FS_Bijection DEF ExistsBijection
  <2> QED
    BY <2>8 DEF n, f
<1>2. IInv => BlocksMatchTransactions
  BY <1>1 DEF BlocksMatchTransactions, IInv, TableInv, BlocksAgree
<1> QED
  BY <1>2, InvHolds, PTL

\* An account's transactions settle in the order of their nonces.
THEOREM NoncesInOrder ==
  ASSUME ~SessionsCanDie
  PROVE  Spec => []NoncesGrow
<1>1. IInv => NoncesGrow
  BY DEF IInv, TableInv
<1> QED
  BY <1>1, InvHolds, PTL

\* No account is overdrawn.
THEOREM NeverOverdrawn ==
  ASSUME ~SessionsCanDie
  PROVE  Spec => []Solvent
<1>1. IInv => Solvent
  BY DEF IInv, TableInv
<1> QED
  BY <1>1, InvHolds, PTL

\* The status of a validator reports a block it produced.
THEOREM StatusIsTrue ==
  ASSUME ~SessionsCanDie
  PROVE  Spec => []StatusFollowsChain
<1>1. IInv => StatusFollowsChain
  BY DEF IInv, TableInv
<1> QED
  BY <1>1, InvHolds, PTL

\* A step that may touch the status or the height: the insertion and
\* the review of a transaction, its rejection by a validator, a save.
LEMMA WritingSteps ==
  ASSUME TypeOK, [Next]_vars
  PROVE  \/ UNCHANGED <<status, height>>
         \/ \E t \in Txs : InsertTransaction(t)
         \/ \E r \in Reviewers : ResolveCase(r)
         \/ \E p \in Processes : RejectNext(p) \/ SaveSnapshot(p)
BY DEF Next, vars, tables, ClientStep, BeginRequest, InsertConflicts, ReviewerStep, ReadCase,
       SuspendInstitution, ValidatorStep, BeginPass, TryLock, LoadSnapshot, LoadStep,
       LoadInstitutions, LoadBalances, LoadPayments, LoadCases, LoadBlocks, FetchPending,
       AcceptNext, AuditRejection, EndBatch, RecordFinalized, ReleaseLock, FaultStep,
       StepFails, UnlockFails, RetireSession, Crash, SessionDies

\* What is final stays final.
THEOREM Finality ==
  ASSUME ~SessionsCanDie
  PROVE  Spec => FinalityIsForever
<1>1. ASSUME IInv, [Next]_vars PROVE FinalityStep
  <2>1. CASE UNCHANGED <<status, height>>
    BY <2>1 DEF FinalityStep
  <2>2. ASSUME NEW t \in Txs, InsertTransaction(t) PROVE FinalityStep
    BY <1>1, <2>2 DEF InsertTransaction, FinalityStep, IInv, RequestInv, TypeOK, NoRow
  <2>3. ASSUME NEW r \in Reviewers, ResolveCase(r) PROVE FinalityStep
    BY <1>1, <2>3 DEF ResolveCase, FinalityStep, IInv, TypeOK
  <2>4. ASSUME NEW p \in Processes, RejectNext(p) PROVE FinalityStep
    BY <1>1, <2>4 DEF RejectNext, FinalityStep, IInv, TypeOK
  <2>5. ASSUME NEW p \in Processes, SaveSnapshot(p) PROVE FinalityStep
    <3>1. \A t \in Txs : status[t] = "FINALIZED" => t \notin InBlock(p)
      BY <1>1, <2>5, SaveEffect
    <3> QED
      BY <1>1, <2>5, <3>1, SaveEffect DEF FinalityStep
  <2> QED
    BY <1>1, <2>1, <2>2, <2>3, <2>4, <2>5, WritingSteps DEF IInv
<1> QED
  BY <1>1, InvHolds, PTL DEF Spec, FinalityIsForever

\* Only a reviewer takes a payment out of review.
THEOREM ReviewDecides ==
  ASSUME ~SessionsCanDie
  PROVE  Spec => HeldUntilDecided
<1>1. ASSUME IInv, [Next]_vars PROVE HeldStep
  <2>1. CASE UNCHANGED <<status, height>>
    BY <2>1 DEF HeldStep
  <2>2. ASSUME NEW t \in Txs, InsertTransaction(t) PROVE HeldStep
    BY <1>1, <2>2 DEF InsertTransaction, HeldStep, IInv, RequestInv, TypeOK, NoRow
  <2>3. ASSUME NEW r \in Reviewers, ResolveCase(r) PROVE HeldStep
    <3> DEFINE t == review[r].tx
    <3>1. t \in Txs /\ review[r].decision \in {"APPROVED", "REJECTED"}
      BY <1>1, <2>3 DEF ResolveCase, IInv, TypeOK
    <3>2. /\ \A u \in Txs \ {t} : status'[u] = status[u]
          /\ status[t] = "HELD" => status'[t] = Released(review[r].decision)
          /\ caseStatus'[t] = review[r].decision
      BY <1>1, <2>3, <3>1 DEF ResolveCase, IInv, TypeOK
    <3> QED
      BY <3>1, <3>2 DEF HeldStep, Released
  <2>4. ASSUME NEW p \in Processes, RejectNext(p) PROVE HeldStep
    BY <1>1, <2>4 DEF RejectNext, HeldStep, IInv, TypeOK
  <2>5. ASSUME NEW p \in Processes, SaveSnapshot(p) PROVE HeldStep
    BY <1>1, <2>5, SaveEffect DEF HeldStep
  <2> QED
    BY <1>1, <2>1, <2>2, <2>3, <2>4, <2>5, WritingSteps DEF IInv
<1> QED
  BY <1>1, InvHolds, PTL DEF Spec, HeldUntilDecided

-----------------------------------------------------------------------------
(* The chain of blocks has no fork and no gap even if the advisory lock    *)
(* fails: the argument needs no mutual exclusion.  What it needs is that   *)
(* blocks are only inserted, so what a pass has loaded of them stays a     *)
(* prefix of the table, and that a save whose height is taken adds none.   *)

IsPrefixOf(bs, cs) == Len(bs) <= Len(cs) /\ \A h \in DOMAIN bs : cs[h] = bs[h]

\* What pass p knows of the chain.
ViewOfChain(p) ==
  /\ pc[p] \in HasBlocks => IsPrefixOf(snap[p].blocks, blocks)
  /\ pc[p] \in HasBatch => MayProduce(p)

ChainInv == ChainIsLinked /\ \A p \in Processes : ViewOfChain(p)

\* A step of p that leaves the blocks alone, if it is right for p itself.
LEMMA ViewFrame ==
  ASSUME TypeOK, ChainInv, NEW p \in Processes, NEW step,
         Goto(p, step) \/ pc' = pc, UNCHANGED blocks,
         \A q \in Processes \ {p} : snap'[q] = snap[q],
         ViewOfChain(p)'
  PROVE  ChainInv'
<1>1. \A q \in Processes \ {p} : pc'[q] = pc[q]
  BY DEF TypeOK, Goto
<1>2. \A q \in Processes \ {p} : ViewOfChain(q)'
  BY <1>1 DEF ChainInv, ViewOfChain, MayProduce
<1>3. ChainIsLinked'
  BY DEF ChainInv, ChainIsLinked
<1> QED
  BY <1>2, <1>3 DEF ChainInv

\* A save leaves the blocks alone or appends the successor of the last one.
LEMMA SaveKeepsChain ==
  ASSUME TypeOK, ChainInv, NEW p \in Processes, SaveSnapshot(p)
  PROVE  /\ ChainInv'
         /\ ChainStep
<1> DEFINE bs == snap[p].blocks
           block == [validator |-> ValidatorOf[p], txs |-> accepted[p], prev |-> LastHash(bs)]
<1>1. pc[p] = "save" /\ Goto(p, "record") /\ UNCHANGED snap
  BY DEF SaveSnapshot
<1>2. IsPrefixOf(bs, blocks) /\ Leader(Len(bs) + 1) = ValidatorOf[p]
  BY <1>1 DEF ChainInv, ViewOfChain, HasBlocks, HasBatch, MayProduce
<1>3. blocks' = IF Len(blocks) < Len(bs) + 1 THEN Append(blocks, block) ELSE blocks
  BY DEF SaveSnapshot, BlockInserted, NextHeight
<1>4. blocks \in Seq(Block) /\ bs \in Seq(Block)
  BY DEF TypeOK, Snapshot
<1>5. pc'[p] = "record" /\ \A q \in Processes \ {p} : pc'[q] = pc[q]
  BY <1>1 DEF TypeOK, Goto
<1>6. block.validator = ValidatorOf[p] /\ block.prev = LastHash(bs)
  OBVIOUS
<1> HIDE DEF block, bs
<1>7. CASE blocks' = blocks
  <2>1. ViewOfChain(p)'
    BY <1>5 DEF ViewOfChain, HasBlocks, HasBatch
  <2>2. ChainInv'
    BY <1>1, <1>7, <2>1, ViewFrame
  <2> QED
    BY <1>4, <1>7, <2>2 DEF ChainStep
<1>8. CASE blocks' = Append(blocks, block) /\ Len(blocks) < Len(bs) + 1
  <2> DEFINE H == Len(blocks) + 1
  <2>1. Len(bs) = Len(blocks) /\ \A h \in DOMAIN blocks : blocks[h] = bs[h]
    BY <1>2, <1>4, <1>8 DEF IsPrefixOf
  <2>2. LastHash(bs) = LastHash(blocks)
    BY <1>4, <2>1 DEF LastHash
  <2>3. /\ DOMAIN blocks' = DOMAIN blocks \cup {H} /\ Len(blocks') = H /\ H \in Nat
        /\ \A h \in DOMAIN blocks : blocks'[h] = blocks[h] /\ h \in Nat /\ h < H
        /\ blocks'[H] = block
    BY <1>4, <1>8
  <2>4. ASSUME NEW h \in DOMAIN blocks'
        PROVE  /\ blocks'[h].prev = IF h = 1 THEN GenesisHash ELSE Hash(h - 1, blocks'[h - 1])
               /\ blocks'[h].validator = Leader(h)
    <3>1. CASE h \in DOMAIN blocks
      <4>1. h # 1 => h - 1 \in DOMAIN blocks
        BY <1>4, <3>1
      <4> QED
        BY <2>3, <3>1, <4>1 DEF ChainInv, ChainIsLinked
    <3>2. CASE h = H
      <4>1. H = 1 <=> blocks = << >>
        BY <1>4
      <4>2. H - 1 = Len(blocks) /\ (H # 1 => H - 1 \in DOMAIN blocks)
        BY <1>4
      <4>3. block.prev = IF H = 1 THEN GenesisHash ELSE Hash(H - 1, blocks[H - 1])
        BY <1>6, <2>2, <4>1, <4>2 DEF LastHash
      <4>4. block.validator = Leader(H)
        BY <1>2, <1>6, <2>1
      <4> QED
        BY <2>3, <3>2, <4>2, <4>3, <4>4
    <3> QED
      BY <2>3, <3>1, <3>2
  <2>5. ASSUME NEW q \in Processes PROVE ViewOfChain(q)'
    <3>1. CASE q = p
      BY <1>5, <3>1 DEF ViewOfChain, HasBlocks, HasBatch
    <3>2. CASE q # p
      <4>1. snap[q].blocks \in Seq(Block)
        BY DEF TypeOK, Snapshot
      <4>2. IsPrefixOf(snap[q].blocks, blocks) => IsPrefixOf(snap[q].blocks, blocks')
        BY <1>4, <2>3, <4>1 DEF IsPrefixOf
      <4> QED
        BY <1>1, <1>5, <3>2, <4>2 DEF ChainInv, ViewOfChain, MayProduce
    <3> QED
      BY <3>1, <3>2
  <2> QED
    BY <2>3, <2>4, <2>5 DEF ChainInv, ChainIsLinked, ChainStep
<1> QED
  BY <1>3, <1>7, <1>8

\* Every step but a save leaves the blocks alone.
LEMMA ChainInvStep ==
  ASSUME TypeOK, ChainInv, [Next]_vars
  PROVE  ChainInv' /\ ChainStep
<1> USE DEF tables, passVars
<1>1. Len(blocks) \in Nat
  BY DEF TypeOK
<1>2. ASSUME UNCHANGED <<blocks, pc, snap>> PROVE ChainInv' /\ ChainStep
  BY <1>1, <1>2 DEF ChainInv, ChainIsLinked, ViewOfChain, MayProduce, ChainStep
<1>3. ASSUME NEW p \in Processes, NEW step, Goto(p, step), UNCHANGED blocks,
             \A q \in Processes \ {p} : snap'[q] = snap[q],
             ViewOfChain(p)'
      PROVE  ChainInv' /\ ChainStep
  BY <1>1, <1>3, ViewFrame DEF ChainStep
<1>4. ASSUME NEW p \in Processes, NEW step \in Steps \ HasBlocks, Goto(p, step),
             UNCHANGED blocks, \A q \in Processes \ {p} : snap'[q] = snap[q]
      PROVE  ChainInv' /\ ChainStep
  <2>1. pc'[p] \notin HasBlocks /\ pc'[p] \notin HasBatch
    BY <1>4 DEF TypeOK, Goto, HasBlocks
  <2> QED
    BY <1>3, <1>4, <2>1 DEF ViewOfChain
<1>5. ASSUME NEW p \in Processes, NEW step \in HasBatch, Goto(p, step),
             UNCHANGED <<blocks, snap>>, pc[p] \in HasBlocks, MayProduce(p)
      PROVE  ChainInv' /\ ChainStep
  <2>1. ViewOfChain(p)'
    BY <1>5 DEF ChainInv, ViewOfChain, MayProduce
  <2> QED
    BY <1>3, <1>5, <2>1
<1>6. ASSUME NEW p \in Processes, ClearPass(p)
      PROVE  \A q \in Processes \ {p} : snap'[q] = snap[q]
  BY <1>6 DEF ClearPass, TypeOK
<1>7. ASSUME NEW p \in Processes,
             BeginPass(p) \/ TryLock(p) \/ RecordFinalized(p) \/ ReleaseLock(p)
      PROVE  ChainInv' /\ ChainStep
  BY <1>4, <1>6, <1>7
     DEF BeginPass, TryLock, RecordFinalized, ReleaseLock, Steps, LockedSteps, LoadSteps,
         HasBlocks, HasBatch
<1>8. ASSUME NEW p \in Processes, LoadSnapshot(p) PROVE ChainInv' /\ ChainStep
  <2>1. \A q \in Processes \ {p} : snap'[q] = snap[q]
    BY <1>8 DEF LoadSnapshot, LoadStep, LoadInstitutions, LoadBalances, LoadPayments,
                LoadCases, LoadBlocks, TypeOK
  <2>2. CASE LoadBlocks(p)
    <3>1. pc'[p] = "fetch" /\ snap'[p].blocks = blocks /\ UNCHANGED blocks
      BY <2>2 DEF LoadBlocks, LoadStep, TypeOK, Goto, Snapshot
    <3>2. ViewOfChain(p)'
      BY <1>1, <3>1 DEF ViewOfChain, IsPrefixOf, HasBatch
    <3> QED
      BY <1>3, <2>1, <2>2, <3>1, <3>2 DEF LoadBlocks, LoadStep
  <2>3. CASE ~LoadBlocks(p)
    BY <1>4, <1>8, <2>1, <2>3
       DEF LoadSnapshot, LoadStep, LoadInstitutions, LoadBalances, LoadPayments, LoadCases,
           Steps, LockedSteps, LoadSteps, HasBlocks, HasBatch
  <2> QED
    BY <2>2, <2>3
<1>9. ASSUME NEW p \in Processes, FetchPending(p) PROVE ChainInv' /\ ChainStep
  <2>1. pc[p] = "fetch" /\ UNCHANGED blocks
    BY <1>9 DEF FetchPending
  <2>2. CASE Goto(p, "validate") /\ UNCHANGED snap /\ MayProduce(p)
    BY <1>5, <2>1, <2>2 DEF HasBlocks, HasBatch
  <2>3. CASE Goto(p, "release") /\ ClearPass(p)
    BY <1>4, <1>6, <2>1, <2>3 DEF Steps, LockedSteps, HasBlocks, HasBatch
  <2> QED
    BY <1>9, <2>2, <2>3 DEF FetchPending
<1>10. ASSUME NEW p \in Processes, RejectNext(p) \/ AuditRejection(p)
       PROVE  ChainInv' /\ ChainStep
  <2>1. /\ pc[p] \in HasBatch /\ UNCHANGED <<blocks, snap>>
        /\ \E step \in HasBatch : Goto(p, step)
    BY <1>10 DEF RejectNext, AuditRejection, HasBatch
  <2> QED
    BY <1>5, <2>1 DEF ChainInv, ViewOfChain, HasBlocks
<1>11. ASSUME NEW p \in Processes, EndBatch(p) PROVE ChainInv' /\ ChainStep
  <2>1. pc[p] \in HasBatch /\ UNCHANGED blocks /\ MayProduce(p)
    BY <1>11 DEF EndBatch, HasBatch, ChainInv, ViewOfChain
  <2>2. CASE Goto(p, "save") /\ UNCHANGED snap
    BY <1>5, <2>1, <2>2 DEF HasBlocks, HasBatch
  <2>3. CASE Goto(p, "release") /\ ClearPass(p)
    BY <1>4, <1>6, <2>1, <2>3 DEF Steps, LockedSteps, HasBlocks, HasBatch
  <2> QED
    BY <1>11, <2>2, <2>3 DEF EndBatch
<1>12. ASSUME NEW p \in Processes, FaultStep(p) PROVE ChainInv' /\ ChainStep
  BY <1>2, <1>4, <1>6, <1>12
     DEF FaultStep, StepFails, UnlockFails, RetireSession, Crash, SessionDies, Steps,
         LockedSteps, HasBlocks, HasBatch
<1>13. ASSUME NEW p \in Processes, AcceptNext(p) PROVE ChainInv' /\ ChainStep
  BY <1>2, <1>13 DEF AcceptNext
<1>14. ASSUME NEW t \in Txs, ClientStep(t) PROVE ChainInv' /\ ChainStep
  BY <1>2, <1>14 DEF ClientStep, BeginRequest, InsertTransaction, InsertConflicts
<1>15. ASSUME NEW r \in Reviewers, ReviewerStep(r) PROVE ChainInv' /\ ChainStep
  BY <1>2, <1>15 DEF ReviewerStep, ReadCase, ResolveCase
<1>16. ASSUME NEW i \in Institutions, SuspendInstitution(i) PROVE ChainInv' /\ ChainStep
  BY <1>2, <1>16 DEF SuspendInstitution
<1>17. CASE UNCHANGED vars
  BY <1>2, <1>17 DEF vars
<1> QED
  BY <1>7, <1>8, <1>9, <1>10, <1>11, <1>12, <1>13, <1>14, <1>15, <1>16, <1>17, SaveKeepsChain
     DEF Next, ValidatorStep

\* The empty chain is linked and no pass has seen anything else.
LEMMA ChainInvInit == Init => ChainInv
BY DEF Init, ChainInv, ChainIsLinked, ViewOfChain, HasBlocks, HasBatch

\* Every block names the hash of its predecessor and was produced by the leader of
\* its height, even if Postgres ends the session that holds the advisory lock.
THEOREM ChainLinked == Spec => []ChainIsLinked
<1>1. ChainInv => ChainIsLinked
  BY DEF ChainInv
<1> QED
  BY <1>1, TypeCorrect, ChainInvInit, ChainInvStep, PTL DEF Spec

\* Blocks are only appended, one at a time, whatever happens to the lock.
THEOREM NoFork == Spec => ChainGrows
BY TypeCorrect, ChainInvInit, ChainInvStep, PTL DEF Spec, ChainGrows

-----------------------------------------------------------------------------
(* Balances and refinement: the tables change like a ledger that is        *)
(* changed atomically.  What a pass has accepted is a valid batch on the   *)
(* balances and transactions of this moment, not only on those it loaded,  *)
(* and its working balances are what the batch leaves.                     *)

\* What pass p has accepted before its i-th transaction.
AcceptedBefore(p, i) == {accepted[p][j] : j \in 1..(i - 1)}

BatchReplays(p) ==
  \A slot \in Slots : work[p][slot] = Replayed(Finalized \cup InBlock(p), slot)

BatchValid(p) ==
  /\ work[p] = Along(balance, accepted[p])[Len(accepted[p])]
  /\ \A i \in DOMAIN accepted[p] :
       Valid(accepted[p][i], Along(balance, accepted[p])[i - 1],
             Finalized \cup AcceptedBefore(p, i), nonce)

BatchInv(p) ==
  /\ pc[p] \in HasBatch => BatchReplays(p) /\ BatchValid(p)
  /\ pc[p] = "save" => accepted[p] # << >>

\* The invariant of the refinement: on top of IInv, the batches, the balances, and
\* that a request draws its nonce once.
AtomicInv ==
  /\ \A p \in Processes : BatchInv(p)
  /\ BalancesReplay
  /\ \A t \in Txs : request[t] = "new" => nonce[t] = 0

\* A batch does not notice a step that leaves the balances, the finalized
\* transactions and the nonces of stored transactions alone.
LEMMA BatchFrame ==
  ASSUME IInv, NEW p \in Processes, BatchInv(p),
         pc'[p] \in HasBatch => pc[p] \in HasBatch,
         pc'[p] = "save" => pc[p] = "save" \/ accepted[p] # << >>,
         UNCHANGED <<balance, accepted[p], work[p], Finalized>>,
         \A u \in Txs : status[u] # NoRow => nonce'[u] = nonce[u]
  PROVE  BatchInv(p)'
<1> SUFFICES ASSUME pc'[p] \in HasBatch
             PROVE  BatchReplays(p)' /\ BatchValid(p)'
  BY DEF BatchInv
<1>1. pc[p] \in HasBatch
  OBVIOUS
<1>2. BatchReplays(p) /\ BatchValid(p) /\ Extends(p)
  BY <1>1 DEF BatchInv, IInv, PassInv, BatchCurrent
<1>3. accepted[p] \in Seq(Txs) /\ InBlock(p) \subseteq Txs /\ Finalized \subseteq Txs
  BY DEF IInv, TypeOK, InBlock, Finalized
<1>4. \A u \in Finalized \cup InBlock(p) : nonce'[u] = nonce[u]
  BY <1>2, <1>3 DEF Extends, Finalized, NoRow
<1>5. BatchReplays(p)'
  BY <1>2 DEF BatchReplays, InBlock
<1>6. ASSUME NEW i \in DOMAIN accepted[p]
      PROVE  Valid(accepted[p][i], Along(balance, accepted[p])[i - 1],
                   Finalized \cup AcceptedBefore(p, i), nonce')
  <2> DEFINE t == accepted[p][i]
             bal == Along(balance, accepted[p])[i - 1]
             final == Finalized \cup AcceptedBefore(p, i)
  <2>1. Valid(t, bal, final, nonce)
    BY <1>2 DEF BatchValid
  <2>2. t \in InBlock(p) /\ final \subseteq Finalized \cup InBlock(p)
    BY <1>3 DEF InBlock, AcceptedBefore
  <2>3. nonce'[t] = nonce[t] /\ \A u \in final : nonce'[u] = nonce[u]
    BY <1>4, <2>2
  <2> HIDE DEF t, bal, final
  <2>4. Valid(t, bal, final, nonce')
    BY <2>1, <2>3 DEF Valid, NonceIsFresh
  <2> QED
    BY <2>4 DEF t, bal, final
<1>7. BatchValid(p)'
  BY <1>2, <1>6 DEF BatchValid, AcceptedBefore
<1> QED
  BY <1>5, <1>7

\* Nor do the other parts of the invariant.
LEMMA AtomicFrame ==
  ASSUME IInv, AtomicInv,
         \A p \in Processes :
           /\ pc'[p] \in HasBatch => pc[p] \in HasBatch /\ UNCHANGED <<accepted[p], work[p]>>
           /\ pc'[p] = "save" => pc[p] = "save" \/ accepted[p] # << >>,
         UNCHANGED <<balance, Finalized>>,
         \A t \in Txs : /\ status[t] # NoRow => nonce'[t] = nonce[t]
                        /\ request'[t] = "new" => request[t] = "new" /\ nonce'[t] = nonce[t]
  PROVE  AtomicInv'
<1>1. ASSUME NEW p \in Processes PROVE BatchInv(p)'
  <2>1. CASE pc'[p] \in HasBatch
    BY <1>1, <2>1, BatchFrame DEF AtomicInv
  <2>2. CASE pc'[p] \notin HasBatch
    BY <2>2 DEF BatchInv, HasBatch
  <2> QED
    BY <2>1, <2>2
<1>2. BalancesReplay'
  BY DEF AtomicInv, BalancesReplay
<1> QED
  BY <1>1, <1>2 DEF AtomicInv

\* Pass q, not p, has no batch while p is in its pass.
LEMMA OtherBatches ==
  ASSUME IInv, NEW p \in Processes, pc[p] \in LockedSteps, NEW q \in Processes, q # p,
         pc'[q] = pc[q]
  PROVE  BatchInv(q)'
BY OthersIdle DEF IInv, BatchInv, HasBatch, LockedSteps

\* An empty batch leaves the loaded balances, which are those of the table.
LEMMA FetchBatch ==
  ASSUME IInv, AtomicInv, NEW p \in Processes, FetchPending(p)
  PROVE  AtomicInv'
<1>1. UNCHANGED <<tables, lock, leaked, apiVars, faults>> /\ pc[p] = "fetch"
  BY DEF FetchPending
<1>2. UNCHANGED <<balance, status, nonce, request>> /\ Finalized' = Finalized
  BY <1>1 DEF tables, apiVars, Finalized
<1>3. BalancesReplay' /\ \A t \in Txs : request'[t] = "new" => nonce'[t] = 0
  BY <1>2 DEF AtomicInv, BalancesReplay
<1>4. \E step : Goto(p, step)
  BY DEF FetchPending
<1>5. ASSUME NEW q \in Processes, q # p PROVE BatchInv(q)'
  BY <1>1, <1>4, <1>5, OtherBatches DEF Goto, IInv, TypeOK, LockedSteps
<1>6. BatchInv(p)'
  <2>1. CASE Goto(p, "release")
    BY <2>1 DEF Goto, IInv, TypeOK, BatchInv, HasBatch
  <2>2. CASE /\ Goto(p, "validate") /\ UNCHANGED accepted
             /\ work' = [work EXCEPT ![p] = snap[p].balance]
    <3>1. SnapshotCurrent(p) /\ accepted[p] = << >>
      BY <1>1 DEF IInv, PassInv, BatchCurrent, HasBatch
    <3>2. /\ pc'[p] = "validate" /\ accepted'[p] = << >> /\ balance' = balance
          /\ work'[p] = balance
      BY <1>1, <1>2, <2>2, <3>1
         DEF Goto, IInv, TypeOK, SnapshotCurrent, HasBalances, HasPayments, HasBlocks
    <3>3. InBlock(p)' = {} /\ DOMAIN accepted'[p] = {} /\ Len(accepted'[p]) = 0
      BY <3>2 DEF InBlock
    <3>4. Along(balance, << >>)[0] = balance
      <4>1. balance \in [Slots -> Int] /\ << >> \in Seq(Txs)
        BY DEF IInv, TypeOK
      <4> QED
        BY <4>1, AlongSteps
    <3>5. BatchValid(p)'
      BY <3>2, <3>3, <3>4 DEF BatchValid
    <3>6. BatchReplays(p)'
      <4>1. Finalized' \cup InBlock(p)' = Finalized
        BY <1>2, <3>3
      <4>2. \A slot \in Slots : work'[p][slot] = Replayed(Finalized, slot)
        BY <3>2 DEF AtomicInv, BalancesReplay
      <4> QED
        BY <4>1, <4>2 DEF BatchReplays
    <3> QED
      BY <3>2, <3>5, <3>6 DEF BatchInv
  <2> QED
    BY <2>1, <2>2 DEF FetchPending
<1> QED
  BY <1>3, <1>5, <1>6 DEF AtomicInv

\* A transaction that is accepted is valid on what the batch leaves so far, and the
\* finalized transactions of the snapshot are those of the table.
LEMMA AcceptBatch ==
  ASSUME IInv, AtomicInv, NEW p \in Processes, AcceptNext(p)
  PROVE  AtomicInv'
<1>1. /\ UNCHANGED <<tables, lock, leaked, apiVars, pc, snap, faults>>
      /\ pc[p] = "validate"
  BY DEF AcceptNext
<1>2. UNCHANGED <<balance, status, nonce, request, pc>> /\ Finalized' = Finalized
  BY <1>1 DEF tables, apiVars, Finalized
<1>3. BalancesReplay' /\ \A t \in Txs : request'[t] = "new" => nonce'[t] = 0
  BY <1>2 DEF AtomicInv, BalancesReplay
<1>4. ASSUME NEW q \in Processes, q # p PROVE BatchInv(q)'
  BY <1>1, <1>4, OtherBatches DEF LockedSteps
<1>5. PICK t \in todo[p] :
        /\ Accepts(p, t)
        /\ accepted' = [accepted EXCEPT ![p] = Append(@, t)]
        /\ work' = [work EXCEPT ![p] = Apply(t, @)]
  BY DEF AcceptNext
<1> DEFINE seq == accepted[p]
           n == Len(seq)
           new == Append(seq, t)
<1>6. /\ seq \in Seq(Txs) /\ n \in Nat /\ t \in Txs /\ balance \in [Slots -> Int]
      /\ work[p] \in [Slots -> Int]
  BY DEF IInv, TypeOK
<1>7. accepted'[p] = new /\ work'[p] = Apply(t, work[p])
  BY <1>5 DEF IInv, TypeOK
<1>8. /\ SnapshotCurrent(p) /\ Extends(p) /\ BatchReplays(p) /\ BatchValid(p)
  BY <1>1 DEF IInv, PassInv, BatchCurrent, AtomicInv, BatchInv, HasBatch
<1>9. SnapFinal(p) = Finalized
  BY <1>1, <1>8 DEF SnapshotCurrent, SnapFinal, Finalized, HasPayments, HasBlocks, HasBatch
<1>10. /\ DOMAIN new = 1..(n + 1) /\ DOMAIN seq = 1..n /\ Len(new) = n + 1
       /\ \A i \in 1..n : new[i] = seq[i]
       /\ new[n + 1] = t
  BY <1>6
<1>11. InBlock(p) = {seq[i] : i \in 1..n} /\ InBlock(p)' = {new[i] : i \in 1..(n + 1)}
  BY <1>7, <1>10 DEF InBlock
<1> HIDE DEF seq, n, new
<1>12. InBlock(p)' = InBlock(p) \cup {t}
  BY <1>6, <1>10, <1>11
<1>13. BatchReplays(p)'
  <2>1. t \notin Finalized /\ t \notin InBlock(p)
    BY <1>8 DEF Extends, Finalized
  <2>2. Finalized \cup InBlock(p) \in SUBSET Txs
    BY <1>6, <1>10, <1>11 DEF Finalized, seq
  <2>3. Finalized' \cup InBlock(p)' = (Finalized \cup InBlock(p)) \cup {t}
    BY <1>2, <1>12
  <2>4. ASSUME NEW slot \in Slots
        PROVE  work'[p][slot] = Replayed((Finalized \cup InBlock(p)) \cup {t}, slot)
    <3>1. work'[p][slot] = work[p][slot] + Effect(t, slot)
      BY <1>7 DEF Apply
    <3>2. work[p][slot] = Replayed(Finalized \cup InBlock(p), slot)
      BY <1>8 DEF BatchReplays
    <3> QED
      BY <1>6, <2>1, <2>2, <3>1, <3>2, ReplayedSteps
  <2> QED
    BY <2>3, <2>4 DEF BatchReplays
<1>14. BatchValid(p)'
  <2>1. /\ \A i \in 0..n : Along(balance, new)[i] = Along(balance, seq)[i]
        /\ Along(balance, new)[n + 1] = Apply(t, Along(balance, seq)[n])
    BY <1>6, AlongAppend DEF seq, n, new
  <2>2. work[p] = Along(balance, seq)[n]
    BY <1>8 DEF BatchValid, seq, n
  <2>3. work'[p] = Along(balance, new)[Len(new)]
    BY <1>7, <1>10, <2>1, <2>2
  <2>4. \A i \in 1..(n + 1) : AcceptedBefore(p, i)' = {new[j] : j \in 1..(i - 1)}
    BY <1>7 DEF AcceptedBefore
  <2>5. ASSUME NEW i \in 1..(n + 1)
        PROVE  Valid(new[i], Along(balance, new)[i - 1],
                     Finalized \cup {new[j] : j \in 1..(i - 1)}, nonce)
    <3>1. CASE i \in 1..n
      <4>1. Valid(seq[i], Along(balance, seq)[i - 1], Finalized \cup AcceptedBefore(p, i), nonce)
        BY <1>8, <1>10, <3>1 DEF BatchValid, seq
      <4>2. new[i] = seq[i] /\ i - 1 \in 0..n
        BY <1>6, <1>10, <3>1
      <4>3. Along(balance, new)[i - 1] = Along(balance, seq)[i - 1]
        BY <2>1, <4>2
      <4>4. {new[j] : j \in 1..(i - 1)} = AcceptedBefore(p, i)
        BY <1>6, <1>10, <3>1 DEF AcceptedBefore, seq
      <4> QED
        BY <4>1, <4>2, <4>3, <4>4
    <3>2. CASE i = n + 1
      <4>1. Valid(t, work[p], Finalized \cup InBlock(p), nonce)
        BY <1>5, <1>9 DEF Accepts, WorkingBalances
      <4>2. i - 1 = n /\ n \in 0..n /\ new[i] = t
        BY <1>6, <1>10, <3>2
      <4>3. Along(balance, new)[i - 1] = work[p]
        BY <2>1, <2>2, <4>2
      <4>4. {new[j] : j \in 1..(i - 1)} = InBlock(p)
        BY <1>10, <1>11, <4>2
      <4> QED
        BY <4>1, <4>2, <4>3, <4>4
    <3> QED
      BY <1>6, <3>1, <3>2
  <2>6. balance' = balance /\ nonce' = nonce /\ Finalized' = Finalized
    BY <1>2
  <2> QED
    BY <1>7, <1>10, <2>3, <2>4, <2>5, <2>6 DEF BatchValid
<1>15. BatchInv(p)'
  BY <1>1, <1>13, <1>14 DEF BatchInv
<1> QED
  BY <1>3, <1>4, <1>15 DEF AtomicInv

\* A save makes the working balances the balances of the table and the batch final.
LEMMA SaveBatch ==
  ASSUME IInv, AtomicInv, NEW p \in Processes, SaveSnapshot(p)
  PROVE  AtomicInv'
<1>1. /\ pc[p] = "save" /\ Goto(p, "record") /\ balance' = work[p]
      /\ UNCHANGED <<nonce, request>>
  BY DEF SaveSnapshot, apiVars
<1>2. \A q \in Processes : pc'[q] = IF q = p THEN "record" ELSE pc[q]
  BY <1>1 DEF Goto, IInv, TypeOK
<1>3. Finalized' = Finalized \cup InBlock(p)
  <2>1. InBlock(p) \subseteq Txs
    BY DEF IInv, TypeOK, InBlock
  <2> QED
    BY <2>1, SaveEffect DEF Finalized
<1>4. BatchReplays(p)
  BY <1>1 DEF AtomicInv, BatchInv, HasBatch
<1>5. BalancesReplay'
  BY <1>1, <1>3, <1>4 DEF BatchReplays, BalancesReplay
<1>6. BatchInv(p)'
  BY <1>2 DEF BatchInv, HasBatch
<1>7. ASSUME NEW q \in Processes, q # p PROVE BatchInv(q)'
  BY <1>1, <1>2, <1>7, OtherBatches DEF LockedSteps
<1>8. \A t \in Txs : request'[t] = "new" => nonce'[t] = 0
  BY <1>1 DEF AtomicInv
<1> QED
  BY <1>5, <1>6, <1>7, <1>8 DEF AtomicInv

\* The steps that finalize nothing and leave the batches alone.
LEMMA QuietStep ==
  ASSUME IInv, AtomicInv, [Next]_vars,
         ~\E p \in Processes : FetchPending(p) \/ AcceptNext(p) \/ SaveSnapshot(p)
  PROVE  AtomicInv' /\ UNCHANGED <<balance, blocks>>
<1> USE DEF tables, apiVars, passVars
<1>1. ASSUME NEW t \in Txs, ClientStep(t)
      PROVE  AtomicInv' /\ UNCHANGED <<balance, blocks>>
  <2>1. UNCHANGED <<balance, blocks, pc, accepted, work>>
    BY <1>1 DEF ClientStep, BeginRequest, InsertTransaction, InsertConflicts
  <2>2. request[t] # "stored" /\ status[t] = NoRow
    BY <1>1 DEF ClientStep, BeginRequest, InsertTransaction, InsertConflicts, IInv, RequestInv
  <2>3. Finalized' = Finalized
    BY <1>1, <2>2 DEF ClientStep, BeginRequest, InsertTransaction, InsertConflicts, Finalized,
                      IInv, TypeOK, NoRow
  <2>4. \A u \in Txs : /\ status[u] # NoRow => nonce'[u] = nonce[u]
                       /\ request'[u] = "new" => request[u] = "new" /\ nonce'[u] = nonce[u]
    BY <1>1, <2>2 DEF ClientStep, BeginRequest, InsertTransaction, InsertConflicts,
                      IInv, TypeOK
  <2>5. \A p \in Processes :
          /\ pc'[p] \in HasBatch => pc[p] \in HasBatch /\ UNCHANGED <<accepted[p], work[p]>>
          /\ pc'[p] = "save" => pc[p] = "save" \/ accepted[p] # << >>
    BY <2>1
  <2>6. UNCHANGED <<balance, Finalized>>
    BY <2>1, <2>3
  <2>7. AtomicInv'
    BY <2>4, <2>5, <2>6, AtomicFrame
  <2> QED
    BY <2>1, <2>7
<1>2. ASSUME UNCHANGED <<balance, blocks, nonce, request>>, Finalized' = Finalized,
             NEW p \in Processes, NEW step, Goto(p, step),
             step \notin HasBatch,
             \A q \in Processes \ {p} : UNCHANGED <<accepted[q], work[q]>>
      PROVE  AtomicInv' /\ UNCHANGED <<balance, blocks>>
  <2>1. \A q \in Processes : pc'[q] = IF q = p THEN step ELSE pc[q]
    BY <1>2 DEF Goto, IInv, TypeOK
  <2> QED
    BY <1>2, <2>1, AtomicFrame DEF HasBatch
<1>3. ASSUME UNCHANGED <<balance, blocks, nonce, request, pc, accepted, work>>,
             Finalized' = Finalized
      PROVE  AtomicInv' /\ UNCHANGED <<balance, blocks>>
  BY <1>3, AtomicFrame
<1>4. ASSUME NEW r \in Reviewers, ReviewerStep(r)
      PROVE  AtomicInv' /\ UNCHANGED <<balance, blocks>>
  <2>1. UNCHANGED <<balance, blocks, nonce, request, pc, accepted, work>>
    BY <1>4 DEF ReviewerStep, ReadCase, ResolveCase
  <2>2. Finalized' = Finalized
    BY <1>4 DEF ReviewerStep, ReadCase, ResolveCase, Released, Finalized, IInv, TypeOK
  <2> QED
    BY <1>3, <2>1, <2>2
<1>5. ASSUME NEW i \in Institutions, SuspendInstitution(i)
      PROVE  AtomicInv' /\ UNCHANGED <<balance, blocks>>
  BY <1>3, <1>5 DEF SuspendInstitution, Finalized
<1>6. ASSUME NEW p \in Processes, FaultStep(p) \/ RecordFinalized(p), ~UnlockFails(p)
      PROVE  AtomicInv' /\ UNCHANGED <<balance, blocks>>
  <2>1. UNCHANGED <<balance, blocks, nonce, request>> /\ Finalized' = Finalized
    BY <1>6 DEF FaultStep, StepFails, UnlockFails, RetireSession, Crash, SessionDies,
                RecordFinalized, Finalized
  <2>2. CASE SessionDies(p) \/ RetireSession(p)
    BY <1>3, <2>1, <2>2 DEF SessionDies, RetireSession
  <2>3. CASE ~(SessionDies(p) \/ RetireSession(p))
    <3>1. PICK step \in {"release", "idle"} : Goto(p, step) /\ ClearPass(p)
      BY <1>6, <2>3 DEF FaultStep, StepFails, Crash, RecordFinalized
    <3>2. \A q \in Processes \ {p} : UNCHANGED <<accepted[q], work[q]>>
      BY <3>1 DEF ClearPass, IInv, TypeOK
    <3> QED
      BY <1>2, <2>1, <3>1, <3>2 DEF HasBatch
  <2> QED
    BY <2>2, <2>3
<1>7. ASSUME NEW p \in Processes,
             \/ BeginPass(p) \/ TryLock(p) \/ LoadSnapshot(p) \/ ReleaseLock(p)
             \/ UnlockFails(p)
      PROVE  AtomicInv' /\ UNCHANGED <<balance, blocks>>
  <2>1. /\ UNCHANGED <<balance, blocks, nonce, request, accepted, work>>
        /\ Finalized' = Finalized
    BY <1>7 DEF BeginPass, TryLock, LoadSnapshot, LoadStep, LoadInstitutions, LoadBalances,
                LoadPayments, LoadCases, LoadBlocks, ReleaseLock, UnlockFails, Finalized
  <2>2. \E step \in Steps \ HasBatch : Goto(p, step)
    BY <1>7 DEF BeginPass, TryLock, LoadSnapshot, LoadStep, LoadInstitutions, LoadBalances,
                LoadPayments, LoadCases, LoadBlocks, ReleaseLock, UnlockFails, Steps,
                LockedSteps, LoadSteps, HasBatch
  <2> QED
    BY <1>2, <2>1, <2>2
<1>8. ASSUME NEW p \in Processes, RejectNext(p) \/ AuditRejection(p)
      PROVE  AtomicInv' /\ UNCHANGED <<balance, blocks>>
  <2>1. UNCHANGED <<balance, blocks, nonce, request, accepted, work>>
    BY <1>8 DEF RejectNext, AuditRejection
  <2>2. Finalized' = Finalized
    BY <1>8 DEF RejectNext, AuditRejection, Finalized, IInv, TypeOK
  <2>3. pc[p] \in HasBatch /\ \E step \in {"audit", "validate"} : Goto(p, step)
    BY <1>8 DEF RejectNext, AuditRejection, HasBatch
  <2>4. \A q \in Processes : /\ pc'[q] \in HasBatch => pc[q] \in HasBatch
                             /\ pc'[q] = "save" => pc[q] = "save"
    BY <2>3 DEF Goto, IInv, TypeOK
  <2>5. \A q \in Processes :
          /\ pc'[q] \in HasBatch => pc[q] \in HasBatch /\ UNCHANGED <<accepted[q], work[q]>>
          /\ pc'[q] = "save" => pc[q] = "save" \/ accepted[q] # << >>
    BY <2>1, <2>4
  <2>6. \A t \in Txs : /\ status[t] # NoRow => nonce'[t] = nonce[t]
                       /\ request'[t] = "new" => request[t] = "new" /\ nonce'[t] = nonce[t]
    BY <2>1
  <2>7. UNCHANGED <<balance, Finalized>>
    BY <2>1, <2>2
  <2>8. AtomicInv'
    BY <2>5, <2>6, <2>7, AtomicFrame
  <2> QED
    BY <2>1, <2>8
<1>9. ASSUME NEW p \in Processes, EndBatch(p)
      PROVE  AtomicInv' /\ UNCHANGED <<balance, blocks>>
  <2>1. UNCHANGED <<balance, blocks, nonce, request>> /\ Finalized' = Finalized
    BY <1>9 DEF EndBatch, Finalized
  <2>2. CASE Goto(p, "save") /\ UNCHANGED <<accepted, work>> /\ accepted[p] # << >>
    <3>1. pc[p] = "validate"
      BY <1>9 DEF EndBatch
    <3>2. \A q \in Processes : pc'[q] = IF q = p THEN "save" ELSE pc[q]
      BY <2>2 DEF Goto, IInv, TypeOK
    <3> QED
      BY <2>1, <2>2, <3>1, <3>2, AtomicFrame DEF HasBatch
  <2>3. CASE Goto(p, "release") /\ ClearPass(p)
    <3>1. \A q \in Processes \ {p} : UNCHANGED <<accepted[q], work[q]>>
      BY <2>3 DEF ClearPass, IInv, TypeOK
    <3> QED
      BY <1>2, <2>1, <2>3, <3>1 DEF HasBatch
  <2> QED
    BY <1>9, <2>2, <2>3 DEF EndBatch
<1>10. CASE UNCHANGED vars
  BY <1>3, <1>10 DEF vars, Finalized
<1> QED
  BY <1>1, <1>4, <1>5, <1>6, <1>7, <1>8, <1>9, <1>10 DEF Next, ValidatorStep

\* The invariant holds of the empty ledger, and every step keeps it.
LEMMA AtomicInit == Init => AtomicInv
<1> SUFFICES ASSUME Init
             PROVE  AtomicInv
  OBVIOUS
<1>1. Finalized = {}
  BY DEF Init, Finalized, NoRow
<1>2. BalancesReplay
  BY <1>1, ReplayedSteps DEF Init, BalancesReplay
<1> QED
  BY <1>2 DEF Init, AtomicInv, BatchInv, HasBatch

LEMMA AtomicStep ==
  ASSUME IInv, AtomicInv, [Next]_vars
  PROVE  AtomicInv'
BY FetchBatch, AcceptBatch, SaveBatch, QuietStep

\* Replaying the finalized transactions gives the stored balances, whatever passes,
\* crashes and reviewers' decisions come between.
THEOREM BalancesAreReplayed ==
  ASSUME ~SessionsCanDie
  PROVE  Spec => []BalancesReplay
<1>1. AtomicInv => BalancesReplay
  BY DEF AtomicInv
<1> QED
  BY <1>1, InvHolds, AtomicInit, AtomicStep, PTL DEF Spec

\* All accounts together hold what was issued and not burnt, although every pass saves
\* the balances of its own copy of the ledger.
THEOREM SettlementConserves ==
  ASSUME ~SessionsCanDie
  PROVE  Spec => [](\A asset \in Assets : Held(balance, asset) = Issued(Finalized, asset))
<1>1. ASSUME TypeOK, BalancesReplay, NEW asset \in Assets
      PROVE  Held(balance, asset) = Issued(Finalized, asset)
  <2>1. balance = [slot \in Slots |-> Replayed(Finalized, slot)]
    BY <1>1 DEF TypeOK, BalancesReplay
  <2>2. Finalized \in SUBSET Txs
    BY DEF Finalized
  <2> QED
    BY <2>1, <2>2, MoneyIsConserved
<1>2. TypeOK /\ BalancesReplay
        => \A asset \in Assets : Held(balance, asset) = Issued(Finalized, asset)
  BY <1>1
<1> QED
  BY <1>2, TypeCorrect, BalancesAreReplayed, PTL

\* The rules of the instance are the rules of the network.
LEMMA SameApply ==
  ASSUME NEW t, NEW bal
  PROVE  Ledger!Apply(t, bal) = Apply(t, bal)
BY DEF Ledger!Apply, Apply, Ledger!Effect, Effect, Ledger!Debit, Debit, Ledger!Credit, Credit,
       Ledger!Source, Source, Ledger!Target, Target, Ledger!Slots, Slots

\* The same supply.
LEMMA SameIssued ==
  ASSUME NEW S, NEW asset
  PROVE  Ledger!Issued(S, asset) = Issued(S, asset)
BY DEF Ledger!Issued, Issued, Ledger!Supply, Supply, Ledger!MapThenSumSet, MapThenSumSet,
       Ledger!MapThenFoldSet, MapThenFoldSet

\* The same validity.
LEMMA SameValid ==
  ASSUME NEW t, NEW bal, NEW final, NEW nonces
  PROVE  Ledger!Valid(t, bal, final, nonces) <=> Valid(t, bal, final, nonces)
BY SameIssued DEF Ledger!Valid, Valid, Ledger!Funded, Funded, Ledger!Source, Source,
                  Ledger!NonceIsFresh, NonceIsFresh

\* The same balances along a batch.
LEMMA SameBalances ==
  ASSUME NEW txs
  PROVE  Ledger!Balances(txs) = Along(balance, txs)
BY SameApply DEF Ledger!Balances, Along

\* The chain of the atomic ledger.
Chain == [h \in DOMAIN blocks |-> blocks[h].txs]

\* What it has settled are the finalized transactions.
LEMMA SameSettled ==
  ASSUME TypeOK, BlocksAgree
  PROVE  Ledger!Settled = Finalized
<1>1. \A h \in DOMAIN blocks :
        {Chain[h][i] : i \in DOMAIN Chain[h]} = {t \in Txs : height[t] = h}
  BY DEF Chain, BlocksAgree, Committed
<1>2. DOMAIN Chain = DOMAIN blocks
  BY DEF Chain
<1>3. Ledger!Settled = UNION {{Chain[h][i] : i \in DOMAIN Chain[h]} : h \in DOMAIN Chain}
  BY DEF Ledger!Settled, Chain
<1>4. Ledger!Settled = UNION {{t \in Txs : height[t] = h} : h \in DOMAIN blocks}
  BY <1>1, <1>2, <1>3
<1>5. DOMAIN blocks = 1..Len(blocks) /\ Len(blocks) \in Nat
  BY DEF TypeOK
<1>6. \A t \in Txs : height[t] # 0 <=> height[t] \in DOMAIN blocks
  BY <1>5 DEF TypeOK, BlocksAgree
<1> QED
  BY <1>4, <1>6 DEF Finalized, BlocksAgree

\* A nonempty sequence without repetition over S is one of the batches over S.
LEMMA BatchShape ==
  ASSUME NEW S \in SUBSET Txs, NEW txs \in Seq(Txs), txs # << >>,
         \A i \in DOMAIN txs : txs[i] \in S,
         \A i, j \in DOMAIN txs : txs[i] = txs[j] => i = j
  PROVE  txs \in Ledger!Batches(S)
<1> DEFINE n == Len(txs)
<1>1. n \in Nat \ {0} /\ DOMAIN txs = 1..n /\ txs \in [1..n -> S]
  OBVIOUS
<1>2. IsFiniteSet(S) /\ Cardinality(S) \in Nat
  BY TxsAssumption, FS_Subset, FS_CardinalityType
<1>3. Cardinality(1..n) = n
  <2> HIDE DEF n
  <2> QED
    BY <1>1, FS_Interval
<1>4. txs \in Injection(1..n, S)
  BY <1>1 DEF Injection, IsInjective
<1>5. n \in 1..Cardinality(S)
  <2> HIDE DEF n
  <2>1. Cardinality(1..n) <= Cardinality(S)
    BY <1>2, <1>4, FS_Injection
  <2> QED
    BY <1>1, <1>2, <1>3, <2>1
<1>6. Ledger!Cardinality(S) = Cardinality(S)
  BY DEF Ledger!Cardinality, Cardinality
<1> QED
  BY <1>1, <1>5, <1>6 DEF Ledger!Batches

\* Saving a block is appending it: the batch is valid on the tables as they are, not
\* only on those the pass has loaded.
LEMMA SaveAppends ==
  ASSUME IInv, AtomicInv, NEW p \in Processes, SaveSnapshot(p)
  PROVE  Ledger!AppendBlock
<1> DEFINE txs == accepted[p]
           n == Len(blocks)
           block == [validator |-> ValidatorOf[p], txs |-> txs, prev |-> LastHash(blocks)]
<1>1. pc[p] = "save" /\ balance' = work[p] /\ UNCHANGED nonce
  BY DEF SaveSnapshot
<1>2. Extends(p) /\ BatchValid(p) /\ txs # << >>
  BY <1>1 DEF IInv, PassInv, BatchCurrent, AtomicInv, BatchInv, HasBatch
<1>3. txs \in Seq(Txs) /\ blocks \in Seq(Block) /\ n \in Nat /\ DOMAIN blocks = 1..n
  BY DEF IInv, TypeOK
<1>4. Ledger!Settled = Finalized
  BY SameSettled DEF IInv, TableInv
<1>5. txs \in Ledger!Batches(Txs \ Ledger!Settled)
  <2>1. \A i \in DOMAIN txs : txs[i] \in InBlock(p) /\ txs[i] \in Txs
    BY <1>3 DEF InBlock
  <2>2. \A i \in DOMAIN txs : txs[i] \in Txs \ Finalized
    BY <1>2, <2>1 DEF Extends, Finalized
  <2>3. \A i, j \in DOMAIN txs : txs[i] = txs[j] => i = j
    BY <1>2 DEF Extends
  <2>4. Txs \ Finalized \in SUBSET Txs
    OBVIOUS
  <2> HIDE DEF txs
  <2> QED
    BY <1>2, <1>3, <1>4, <2>2, <2>3, <2>4, BatchShape
<1>6. Ledger!ValidBatch(txs, nonce')
  BY <1>1, <1>2, <1>4, SameBalances, SameValid DEF Ledger!ValidBatch, BatchValid, AcceptedBefore
<1>7. balance' = Ledger!Balances(txs)[Len(txs)]
  BY <1>1, <1>2, SameBalances DEF BatchValid
<1>8. Chain' = Append(Chain, txs) /\ Len(Chain') = Len(Chain) + 1
  <2>1. blocks' = Append(blocks, block) /\ block.txs = txs
    BY SaveEffect
  <2>2. /\ DOMAIN blocks' = 1..(n + 1)
        /\ \A k \in 1..n : blocks'[k] = blocks[k]
        /\ blocks'[n + 1].txs = txs
    BY <1>3, <2>1
  <2>3. \A k \in 1..n : blocks[k].txs \in Seq(Txs)
    <3>1. \A k \in 1..n : blocks[k] \in Block
      BY <1>3
    <3> QED
      BY <3>1 DEF Block
  <2>4. Chain \in Seq(Seq(Txs)) /\ Len(Chain) = n
    BY <1>3, <2>3 DEF Chain
  <2> HIDE DEF txs, n, block
  <2>5. Append(Chain, txs) = [k \in 1..(n + 1) |-> IF k = n + 1 THEN txs ELSE Chain[k]]
    <3> DEFINE new == Append(Chain, txs)
    <3>1. new \in Seq(Seq(Txs)) /\ Len(new) = n + 1
      BY <1>3, <2>4
    <3>2. new[n + 1] = txs /\ \A k \in 1..n : new[k] = Chain[k]
      BY <1>3, <2>4
    <3> HIDE DEF new
    <3>3. new = [k \in 1..(n + 1) |-> new[k]]
      BY <3>1
    <3>4. \A k \in 1..(n + 1) : new[k] = IF k = n + 1 THEN txs ELSE Chain[k]
      BY <1>3, <3>2
    <3>5. new = [k \in 1..(n + 1) |-> IF k = n + 1 THEN txs ELSE Chain[k]]
      BY <3>3, <3>4
    <3> QED
      BY <3>5 DEF new
  <2>6. Chain' = [k \in 1..(n + 1) |-> blocks'[k].txs]
    BY <2>2 DEF Chain
  <2>7. \A k \in 1..(n + 1) : blocks'[k].txs = IF k = n + 1 THEN txs ELSE Chain[k]
    BY <1>3, <2>2 DEF Chain
  <2>8. Chain' = Append(Chain, txs)
    BY <2>5, <2>6, <2>7
  <2>9. Len(Chain') = n + 1
    BY <1>3, <2>6
  <2> QED
    BY <2>4, <2>8, <2>9
<1> QED
  BY <1>1, <1>5, <1>6, <1>7, <1>8 DEF Ledger!AppendBlock, Ledger!Extend, Chain

\* A request draws its nonce before its transaction has a row.
LEMMA RequestDraws ==
  ASSUME IInv, AtomicInv, NEW t \in Txs, BeginRequest(t)
  PROVE  Ledger!DrawNonce(t)
<1>1. t \notin Ledger!Settled
  BY SameSettled DEF BeginRequest, IInv, RequestInv, TableInv, Finalized, NoRow
<1>2. nonce[t] = 0
  BY DEF BeginRequest, AtomicInv
<1>3. Ledger!Cardinality(Txs) = Cardinality(Txs)
  BY DEF Ledger!Cardinality, Cardinality
<1>4. \E n \in 1..(Ledger!Cardinality(Txs) + 1) : nonce' = [nonce EXCEPT ![t] = n]
  BY <1>3 DEF BeginRequest
<1>5. UNCHANGED <<Chain, balance>>
  BY DEF BeginRequest, Chain
<1> QED
  BY <1>1, <1>2, <1>4, <1>5 DEF Ledger!DrawNonce, Ledger!Draw, Chain

\* Nothing else touches a nonce.
LEMMA NoncesStay ==
  ASSUME [Next]_vars, ~\E t \in Txs : BeginRequest(t)
  PROVE  UNCHANGED nonce
BY DEF Next, ClientStep, InsertTransaction, InsertConflicts, ReviewerStep, ReadCase, ResolveCase,
       SuspendInstitution, ValidatorStep, BeginPass, TryLock, LoadSnapshot, LoadStep,
       LoadInstitutions, LoadBalances, LoadPayments, LoadCases, LoadBlocks, FetchPending,
       AcceptNext, RejectNext, AuditRejection, EndBatch, SaveSnapshot, RecordFinalized,
       ReleaseLock, FaultStep, StepFails, UnlockFails, RetireSession, Crash, SessionDies,
       tables, vars

\* A step of the network is a step of the atomic ledger or none.
LEMMA LedgerStep ==
  ASSUME IInv, AtomicInv, [Next]_vars
  PROVE  [Ledger!Next]_<<Chain, balance, nonce>>
<1>1. ASSUME NEW p \in Processes, SaveSnapshot(p)
      PROVE  Ledger!Next
  BY <1>1, SaveAppends DEF Ledger!Next
<1>2. ASSUME NEW t \in Txs, BeginRequest(t)
      PROVE  Ledger!Next
  BY <1>2, RequestDraws DEF Ledger!Next
<1>3. ASSUME NEW p \in Processes, FetchPending(p) \/ AcceptNext(p)
      PROVE  UNCHANGED <<balance, blocks>>
  BY <1>3 DEF FetchPending, AcceptNext, tables
<1>4. ASSUME ~\E p \in Processes : SaveSnapshot(p), ~\E t \in Txs : BeginRequest(t)
      PROVE  UNCHANGED <<Chain, balance, nonce>>
  <2>1. UNCHANGED nonce
    BY <1>4, NoncesStay
  <2>2. UNCHANGED <<balance, blocks>>
    BY <1>3, <1>4, QuietStep
  <2> QED
    BY <2>1, <2>2 DEF Chain
<1> QED
  BY <1>1, <1>2, <1>4

\* The tables change like a ledger that is changed atomically: loading them one SELECT
\* at a time, rejections, reviews, failed steps and crashes never show in the chain,
\* the balances or the nonces.
THEOREM Refinement ==
  ASSUME ~SessionsCanDie
  PROVE  Spec => ImplementsAtomicLedger
<1>1. Init => Ledger!Init
  <2> SUFFICES ASSUME Init
               PROVE  Ledger!Init
    OBVIOUS
  <2>1. [h \in DOMAIN blocks |-> blocks[h].txs] = << >>
    BY DEF Init
  <2> QED
    BY <2>1 DEF Init, Ledger!Init, Slots, Ledger!Slots
<1>2. IInv /\ AtomicInv /\ [Next]_vars => [Ledger!Next]_<<Chain, balance, nonce>>
  BY LedgerStep
<1> QED
  BY <1>1, <1>2, InvHolds, AtomicInit, AtomicStep, PTL
     DEF Spec, ImplementsAtomicLedger, Ledger!Spec, Chain
=============================================================================
