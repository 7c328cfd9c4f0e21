--------------------------- MODULE RegistryProofs ---------------------------
(***************************************************************************)
(* The registry, for every set of institutions, requests and processes and *)
(* any number of deposits and faults.                                      *)
(*                                                                         *)
(* A save writes rows that were read several statements earlier.  The      *)
(* invariant therefore speaks of what the processes have read as well as   *)
(* of the tables: everything in a snapshot has been authorized, and nobody *)
(* else settles a deposit between a load and its save.                     *)
(***************************************************************************)
EXTENDS Registry, TLAPS

Rows == [Institutions -> Row \cup {NoRow}]

Loading    == {"load institutions", "load credentials", "load limits", "load balances", "save"}
InPass     == Loading \cup {"release", "failed"}
Starting   == {"off", "accounts", "institutions", "seed"}

\* Who is in a pass has the lock, a deposit is waiting until the save, and what a pass
\* has read of the funds is what a save may still add to.
PassInv ==
  /\ \A v \in Validators : pc[v] \in InPass <=> lock = v
  /\ \A v \in Validators : pc[v] \in Loading => settled < Deposits
  /\ \A v \in Validators : pc[v] = "save" => snap[v].settled = settled
  /\ funds <= settled
  /\ \A p \in Processes : snap[p].funds <= snap[p].settled
  /\ pc[Api] \notin InPass

-----------------------------------------------------------------------------
(* Types.                                                                  *)

TableTypes ==
  /\ origin \in {"empty", "old"} /\ accounts \in BOOLEAN
  /\ funds \in 0..Deposits /\ settled \in 0..Deposits
  /\ institution \in Rows
  /\ credentials \subseteq Institutions \X Fingerprints
  /\ limits \in [Institutions -> Limits \cup {NoRow}]

ControlTypes ==
  /\ audit \subseteq {"ALLOWED", "DENIED", "RECORDED"} \X Requests
  /\ lock \in Validators \cup {None}
  /\ pc \in [Processes -> Steps]
  /\ todo \in [Processes -> SUBSET Seeds]
  /\ handler \in [Requests -> {"new", "refused", "stopped", "done"} \cup InProgress]
  /\ faults \in 0..MaxFaults

SnapTypes == snap \in [Processes -> Snapshot]

\* TypeOK in three parts.
LEMMA TypeParts == TypeOK <=> TableTypes /\ ControlTypes /\ SnapTypes
  BY DEF TypeOK, TableTypes, ControlTypes, SnapTypes, Rows

\* The same with primes.
LEMMA TypePartsPrime == TypeOK' <=> TableTypes' /\ ControlTypes' /\ SnapTypes'
  BY DEF TypeOK, TableTypes, ControlTypes, SnapTypes, Rows

\* A process that has read nothing has a snapshot too.
LEMMA EmptySnapType == EmptySnap \in Snapshot
<1>1. EmptySnap.institution \in Rows /\ EmptySnap.limits \in [Institutions -> Limits \cup {NoRow}]
  BY DEF EmptySnap, Rows
<1> QED
  BY <1>1, BoundAssumption DEF EmptySnap, Snapshot, Rows

\* The rows of the sandbox are rows.
LEMMA SeedType ==
  /\ \A i \in Seeds : SeedRow(i) \in Row /\ SeedRow(i) # NoRow
  /\ SandboxRows \in Rows
<1>1. \A i \in Seeds : SeedRow(i) \in Row
  BY InstitutionAssumption DEF SeedRow, Row
<1>2. \A i \in Seeds : SeedRow(i) # NoRow
  BY <1>1, NoRowAssumption
<1> QED
  BY <1>1, <1>2 DEF SandboxRows, Rows

\* Upserting rows gives rows, and keeps the rows that are there.
LEMMA UpsertedType ==
  ASSUME NEW new \in Rows, NEW rows \in Rows
  PROVE  /\ Upserted(new, rows) \in Rows
         /\ \A i \in Institutions : rows[i] # NoRow \/ new[i] # NoRow =>
              Upserted(new, rows)[i] # NoRow
  BY DEF Upserted, Rows

\* A snapshot stays one when a table is read into it.
LEMMA ReadType ==
  ASSUME NEW s \in Snapshot, TableTypes
  PROVE  /\ [s EXCEPT !.accounts = accounts] \in Snapshot
         /\ [s EXCEPT !.institution = institution] \in Snapshot
         /\ [s EXCEPT !.credentials = credentials] \in Snapshot
         /\ [s EXCEPT !.limits = limits] \in Snapshot
         /\ [s EXCEPT !.funds = funds, !.settled = settled] \in Snapshot
  BY DEF TableTypes, Snapshot, Rows

\* The tables have their types at the start.
LEMMA TypeInit == Init => TypeOK
<1> SUFFICES ASSUME Init PROVE TypeOK
  OBVIOUS
<1>1. EmptySnap.institution \in Rows /\ EmptySnap.limits \in [Institutions -> Limits \cup {NoRow}]
  BY DEF EmptySnap, Rows
<1>2. origin \in {"empty", "old"} /\ accounts \in BOOLEAN
  BY DatabaseAssumption DEF Init
<1>3. funds \in 0..Deposits /\ settled \in 0..Deposits
  BY <1>2, BoundAssumption DEF Init
<1>4. TableTypes
  BY <1>1, <1>2, <1>3 DEF Init, TableTypes
<1>5. ControlTypes
  BY BoundAssumption DEF Init, ControlTypes, Steps
<1>6. SnapTypes
  BY EmptySnapType DEF Init, SnapTypes
<1> QED
  BY <1>4, <1>5, <1>6, TypeParts

\* What every step does to the snapshots: at most one process reads a table or
\* forgets everything.
LEMMA SnapStep == TypeOK /\ [Next]_vars => SnapTypes'
<1> SUFFICES ASSUME TypeOK, [Next]_vars PROVE SnapTypes'
  OBVIOUS
<1> USE DEF SnapTypes
<1>1. TableTypes /\ SnapTypes
  BY TypeParts
<1>2. CASE UNCHANGED snap
  BY <1>1, <1>2
<1>3. ASSUME NEW p \in Processes, snap' = [snap EXCEPT ![p] = EmptySnap] PROVE SnapTypes'
  BY <1>1, <1>3, EmptySnapType
<1>4. ASSUME NEW p \in Processes, ReadAccounts(p) PROVE SnapTypes'
  BY <1>1, <1>4, ReadType DEF ReadAccounts
<1>5. ASSUME NEW v \in Validators,
             LoadInstitutions(v) \/ LoadCredentials(v) \/ LoadLimits(v) \/ LoadBalances(v)
      PROVE  SnapTypes'
  <2>1. snap[v] \in Snapshot
    BY <1>1 DEF Processes
  <2>2. CASE LoadInstitutions(v)
    BY <1>1, <2>1, <2>2, ReadType DEF LoadInstitutions
  <2>3. CASE LoadCredentials(v)
    BY <1>1, <2>1, <2>3, ReadType DEF LoadCredentials
  <2>4. CASE LoadLimits(v)
    BY <1>1, <2>1, <2>4, ReadType DEF LoadLimits
  <2>5. CASE LoadBalances(v)
    BY <1>1, <2>1, <2>5, ReadType DEF LoadBalances
  <2> QED
    BY <1>5, <2>2, <2>3, <2>4, <2>5
<1>6. CASE UNCHANGED vars
  BY <1>2, <1>6 DEF vars
<1>7. ASSUME NEW p \in Processes, StartUp(p) \/ Crash(p) PROVE SnapTypes'
  <2>1. CASE Start(p) \/ SeedDatabase(p) \/ UpgradeNext(p)
    BY <1>2, <2>1 DEF Start, SeedDatabase, UpgradeNext
  <2>2. CASE ReadInstitutions(p) \/ Crash(p)
    BY <1>3, <2>2 DEF ReadInstitutions, Crash
  <2> QED
    BY <1>4, <1>7, <2>1, <2>2 DEF StartUp
<1>8. ASSUME NEW v \in Validators, Pass(v) \/ PassFails(v) PROVE SnapTypes'
  <2>1. CASE TakeLock(v) \/ NoPass(v) \/ EndPass(v)
    BY <1>2, <2>1 DEF TakeLock, NoPass, EndPass
  <2>2. CASE SaveSnapshot(v) \/ SaveConflicts(v) \/ PassFails(v)
    BY <1>3, <2>2 DEF SaveSnapshot, SaveConflicts, PassFails, Processes
  <2> QED
    BY <1>5, <1>8, <2>1, <2>2 DEF Pass
<1>9. ASSUME NEW r \in Requests, Handle(r) \/ HandlerStops(r) PROVE SnapTypes'
  BY <1>2, <1>9 DEF Handle, HandlerStops, Authorize, CheckInstitution, CreateInstitution,
                    SuspendInstitution, InsertCredential, UpsertLimit, AuditAndAnswer
<1> QED
  BY <1>6, <1>7, <1>8, <1>9 DEF Next

\* Every step keeps the types of what is not a table.
LEMMA ControlStep == TypeOK /\ [Next]_vars => ControlTypes'
<1> SUFFICES ASSUME TypeOK, [Next]_vars PROVE ControlTypes'
  OBVIOUS
<1>1. ControlTypes
  BY TypeParts
<1>0. faults < MaxFaults => faults + 1 \in 0..MaxFaults
  BY <1>1, BoundAssumption DEF ControlTypes
<1> USE DEF ControlTypes, Processes, Steps, InProgress, Goto, Advance
<1>2. CASE UNCHANGED vars
  BY <1>1, <1>2 DEF vars
<1>3. ASSUME NEW p \in Processes, StartUp(p) \/ Crash(p) PROVE ControlTypes'
  <2>1. CASE Start(p) \/ ReadAccounts(p) \/ SeedDatabase(p)
    BY <1>1, <2>1 DEF Start, ReadAccounts, SeedDatabase
  <2>2. CASE ReadInstitutions(p)
    BY <1>1, <2>2 DEF ReadInstitutions
  <2>3. CASE UpgradeNext(p)
    <3>1. todo' \in [Processes -> SUBSET Seeds]
      <4>1. \/ todo' = [todo EXCEPT ![p] = {}]
            \/ \E i \in todo[p] : todo' = [todo EXCEPT ![p] = todo[p] \ {i}]
        BY <1>1, <2>3 DEF UpgradeNext
      <4> QED
        BY <1>1, <4>1
    <3>2. pc' \in [Processes -> Steps]
      BY <1>1, <2>3 DEF UpgradeNext
    <3>3. UNCHANGED <<audit, lock, handler, faults>>
      BY <2>3 DEF UpgradeNext
    <3> QED
      BY <1>1, <3>1, <3>2, <3>3
  <2>4. CASE Crash(p)
    <3>1. handler' \in [Requests -> {"new", "refused", "stopped", "done"} \cup InProgress]
      BY <1>1, <2>4 DEF Crash
    <3>2. lock' \in Validators \cup {None} /\ todo' \in [Processes -> SUBSET Seeds]
      BY <1>1, <2>4 DEF Crash
    <3>3. pc' \in [Processes -> Steps] /\ UNCHANGED audit
      BY <1>1, <2>4 DEF Crash
    <3>4. faults' \in 0..MaxFaults
      BY <1>0, <2>4 DEF Crash
    <3> QED
      BY <1>1, <3>1, <3>2, <3>3, <3>4
  <2> QED
    BY <1>3, <2>1, <2>2, <2>3, <2>4 DEF StartUp
<1>4. ASSUME NEW v \in Validators, Pass(v) \/ PassFails(v) PROVE ControlTypes'
  <2>1. CASE LoadInstitutions(v) \/ LoadCredentials(v) \/ LoadLimits(v) \/ LoadBalances(v)
    BY <1>1, <2>1 DEF LoadInstitutions, LoadCredentials, LoadLimits, LoadBalances
  <2>2. CASE SaveSnapshot(v) \/ SaveConflicts(v)
    BY <1>1, <2>2 DEF SaveSnapshot, SaveConflicts
  <2>3. CASE TakeLock(v)
    BY <1>1, <2>3 DEF TakeLock
  <2>4. AfterPass(v) \subseteq Steps
    BY ModeAssumption DEF AfterPass
  <2>5. CASE NoPass(v)
    BY <1>1, <2>4, <2>5 DEF NoPass
  <2>6. CASE EndPass(v)
    <3>1. PICK step \in Steps : pc' = [pc EXCEPT ![v] = step]
      BY <2>4, <2>6 DEF EndPass
    <3>2. lock' \in Validators \cup {None} /\ UNCHANGED <<audit, todo, handler, faults>>
      BY <1>1, <2>6 DEF EndPass
    <3> QED
      BY <1>1, <3>1, <3>2
  <2>7. CASE PassFails(v)
    <3>1. faults' \in 0..MaxFaults
      BY <1>0, <2>7 DEF PassFails
    <3>2. pc' \in [Processes -> Steps] /\ UNCHANGED <<audit, lock, todo, handler>>
      BY <1>1, <2>7 DEF PassFails
    <3> QED
      BY <1>1, <3>1, <3>2
  <2> QED
    BY <1>4, <2>1, <2>2, <2>3, <2>5, <2>6, <2>7 DEF Pass
<1>5. ASSUME NEW r \in Requests, Handle(r) \/ HandlerStops(r) PROVE ControlTypes'
  <2>1. CASE Authorize(r) \/ AuditAndAnswer(r)
    <3>1. PICK step \in {"refused", "allowed", "done"} : handler' = [handler EXCEPT ![r] = step]
      BY <2>1 DEF Authorize, AuditAndAnswer
    <3>2. \/ UNCHANGED audit
          \/ \E e \in {"ALLOWED", "DENIED", "RECORDED"} : audit' = audit \cup {<<e, r>>}
      BY <2>1 DEF Authorize, AuditAndAnswer, Record
    <3>3. audit' \subseteq {"ALLOWED", "DENIED", "RECORDED"} \X Requests
      <4> DEFINE Events == {"ALLOWED", "DENIED", "RECORDED"} \X Requests
      <4>1. audit \subseteq Events
        BY <1>1
      <4>2. \A e \in {"ALLOWED", "DENIED", "RECORDED"} : <<e, r>> \in Events
        OBVIOUS
      <4> HIDE DEF Events
      <4>3. audit' \subseteq Events
        BY <3>2, <4>1, <4>2
      <4> QED
        BY <4>3 DEF Events
    <3>4. UNCHANGED <<lock, pc, todo, faults>>
      BY <2>1 DEF Authorize, AuditAndAnswer
    <3> QED
      BY <1>1, <3>1, <3>3, <3>4
  <2>2. CASE CheckInstitution(r)
    BY <1>1, <2>2 DEF CheckInstitution
  <2>3. CASE CreateInstitution(r) \/ SuspendInstitution(r)
    BY <1>1, <2>3 DEF CreateInstitution, SuspendInstitution
  <2>4. CASE InsertCredential(r) \/ UpsertLimit(r)
    BY <1>1, <2>4 DEF InsertCredential, UpsertLimit
  <2>5. CASE HandlerStops(r)
    <3>1. faults' \in 0..MaxFaults
      BY <1>0, <2>5 DEF HandlerStops
    <3>2. handler' = [handler EXCEPT ![r] = "stopped"] /\ UNCHANGED <<audit, lock, pc, todo>>
      BY <2>5 DEF HandlerStops
    <3> QED
      BY <1>1, <3>1, <3>2
  <2> QED
    BY <1>5, <2>1, <2>2, <2>3, <2>4, <2>5 DEF Handle
<1> QED
  BY <1>2, <1>3, <1>4, <1>5 DEF Next

\* The steps that leave the tables alone.
LEMMA QuietSteps ==
  /\ \A p \in Processes :
       Start(p) \/ ReadAccounts(p) \/ ReadInstitutions(p) \/ Crash(p) => UNCHANGED <<origin, tables>>
  /\ \A v \in Validators :
       TakeLock(v) \/ NoPass(v) \/ LoadInstitutions(v) \/ LoadCredentials(v) \/ LoadLimits(v)
         \/ LoadBalances(v) \/ SaveConflicts(v) \/ EndPass(v) \/ PassFails(v) =>
         UNCHANGED <<origin, tables>>
  /\ \A r \in Requests :
       Authorize(r) \/ CheckInstitution(r) \/ AuditAndAnswer(r) \/ HandlerStops(r) =>
         UNCHANGED <<origin, tables>>
<1>1. \A p \in Processes :
       Start(p) \/ ReadAccounts(p) \/ ReadInstitutions(p) \/ Crash(p) => UNCHANGED <<origin, tables>>
  BY DEF Start, ReadAccounts, ReadInstitutions, Crash
<1>2. \A v \in Validators :
        TakeLock(v) \/ NoPass(v) \/ LoadInstitutions(v) \/ LoadCredentials(v) \/ LoadLimits(v)
          \/ LoadBalances(v) \/ SaveConflicts(v) \/ EndPass(v) \/ PassFails(v) =>
          UNCHANGED <<origin, tables>>
  BY DEF TakeLock, NoPass, LoadInstitutions, LoadCredentials, LoadLimits, LoadBalances,
         SaveConflicts, EndPass, PassFails
<1>3. \A r \in Requests :
        Authorize(r) \/ CheckInstitution(r) \/ AuditAndAnswer(r) \/ HandlerStops(r) =>
          UNCHANGED <<origin, tables>>
  BY DEF Authorize, CheckInstitution, AuditAndAnswer, HandlerStops
<1> QED
  BY <1>1, <1>2, <1>3

\* A step leaves the tables alone, or it is one of seven that write.
LEMMA WritingSteps ==
  ASSUME [Next]_vars
  PROVE  \/ UNCHANGED <<origin, tables>>
         \/ \E p \in Processes : SeedDatabase(p) \/ UpgradeNext(p)
         \/ \E v \in Validators : SaveSnapshot(v)
         \/ \E r \in Requests : \/ CreateInstitution(r) \/ SuspendInstitution(r)
                                \/ InsertCredential(r) \/ UpsertLimit(r)
<1>1. CASE UNCHANGED vars
  BY <1>1 DEF vars
<1>2. CASE Next
  BY <1>2, QuietSteps DEF Next, StartUp, Pass, Handle
<1> QED
  BY <1>1, <1>2

\* Every step keeps the types of the tables; a save counts one deposit more, which
\* was waiting.
LEMMA TableStep == TypeOK /\ PassInv /\ [Next]_vars => TableTypes'
<1> SUFFICES ASSUME TypeOK, PassInv, [Next]_vars PROVE TableTypes'
  OBVIOUS
<1>1. TableTypes /\ ControlTypes /\ SnapTypes
  BY TypeParts
<1> USE DEF TableTypes
<1>2. CASE UNCHANGED <<origin, tables>>
  BY <1>1, <1>2 DEF tables
<1>3. ASSUME NEW p \in Processes, SeedDatabase(p) PROVE TableTypes'
  <2>1. institution' \in Rows
    BY <1>1, <1>3, SeedType, UpsertedType DEF SeedDatabase
  <2>2. accounts' \in BOOLEAN
    BY <1>1, <1>3 DEF SeedDatabase
  <2>3. funds' \in 0..Deposits
    BY <1>1, <1>3, BoundAssumption DEF SeedDatabase
  <2>4. UNCHANGED <<origin, settled, credentials, limits>>
    BY <1>3 DEF SeedDatabase
  <2> QED
    BY <1>1, <2>1, <2>2, <2>3, <2>4
<1>4. ASSUME NEW p \in Processes, UpgradeNext(p) PROVE TableTypes'
  <2>1. institution' \in Rows
    <3>1. todo[p] \subseteq Seeds
      BY <1>1 DEF ControlTypes
    <3>2. \/ UNCHANGED institution
          \/ \E i \in todo[p] : institution' = [institution EXCEPT ![i] = SeedRow(i)]
      BY <1>4 DEF UpgradeNext
    <3> QED
      BY <1>1, <3>1, <3>2, SeedType, InstitutionAssumption DEF Rows
  <2>2. UNCHANGED <<origin, accounts, funds, settled, credentials, limits>>
    BY <1>4 DEF UpgradeNext
  <2> QED
    BY <1>1, <2>1, <2>2
<1>5. ASSUME NEW v \in Validators, SaveSnapshot(v) PROVE TableTypes'
  <2>1. snap[v] \in Snapshot /\ v \in Processes
    BY <1>1 DEF SnapTypes, Processes
  <2>2. /\ snap[v].institution \in Rows
        /\ snap[v].credentials \subseteq Institutions \X Fingerprints
        /\ snap[v].limits \in [Institutions -> Limits \cup {NoRow}]
        /\ snap[v].funds \in Nat /\ snap[v].settled \in Nat
    BY <2>1 DEF Snapshot, Rows
  <2>3. institution' \in Rows
    BY <1>1, <1>5, <2>2, UpsertedType DEF SaveSnapshot
  <2>4. limits' \in [Institutions -> Limits \cup {NoRow}]
    BY <1>1, <1>5, <2>2 DEF SaveSnapshot, SavedLimits
  <2>5. credentials' \subseteq Institutions \X Fingerprints
    BY <1>1, <1>5, <2>2 DEF SaveSnapshot
  <2>6. /\ snap[v].settled = settled /\ settled < Deposits /\ settled \in Nat
        /\ snap[v].funds <= snap[v].settled
    <3>1. pc[v] = "save" /\ pc[v] \in Loading
      BY <1>5 DEF SaveSnapshot, Loading
    <3>2. settled \in Nat
      BY <1>1, BoundAssumption
    <3> QED
      BY <2>1, <3>1, <3>2 DEF PassInv
  <2>7. funds' \in 0..Deposits /\ settled' \in 0..Deposits
    BY <1>5, <2>2, <2>6, BoundAssumption DEF SaveSnapshot
  <2>8. UNCHANGED <<origin, accounts>>
    BY <1>5 DEF SaveSnapshot
  <2> QED
    BY <1>1, <2>3, <2>4, <2>5, <2>7, <2>8
<1>6. ASSUME NEW r \in Requests, CreateInstitution(r) \/ SuspendInstitution(r) PROVE TableTypes'
  <2>1. Request[r].code \in Codes /\ Request[r].institution \in Institutions
    BY RequestAssumption
  <2>2. CASE CreateInstitution(r)
    <3>1. [code |-> Request[r].code, status |-> "REQUESTED"] \in Row
      BY <2>1 DEF Row
    <3> QED
      BY <1>1, <2>1, <2>2, <3>1 DEF CreateInstitution, Rows
  <2>3. CASE SuspendInstitution(r)
    <3>1. institution[Request[r].institution] # NoRow =>
            Suspended(institution[Request[r].institution]) \in Row
      BY <1>1, <2>1 DEF Suspended, Rows, Row
    <3> QED
      BY <1>1, <2>1, <2>3, <3>1 DEF SuspendInstitution, Rows
  <2> QED
    BY <1>6, <2>2, <2>3
<1>7. ASSUME NEW r \in Requests, InsertCredential(r) \/ UpsertLimit(r) PROVE TableTypes'
  <2>1. /\ Request[r].fingerprint \in Fingerprints /\ Request[r].institution \in Institutions
        /\ Request[r].limit \in Limits
    BY RequestAssumption
  <2>2. CASE InsertCredential(r)
    BY <1>1, <2>1, <2>2 DEF InsertCredential, CredentialInserted
  <2>3. CASE UpsertLimit(r)
    BY <1>1, <2>1, <2>3 DEF UpsertLimit, LimitUpserted
  <2> QED
    BY <1>7, <2>2, <2>3
<1> QED
  BY <1>2, <1>3, <1>4, <1>5, <1>6, <1>7, WritingSteps

-----------------------------------------------------------------------------
(* One pass at a time.                                                     *)

\* One process moves to another step; if it is in a pass, it has the lock.
LEMMA Moved ==
  ASSUME TypeOK, PassInv, NEW p \in Processes, NEW step \in Steps,
         pc' = [pc EXCEPT ![p] = step],
         p \in Validators => (step \in InPass <=> lock' = p),
         p = Api => step \notin InPass,
         \A w \in Validators \ {p} : lock' = w <=> lock = w,
         settled' = settled \/ (p \in Validators /\ lock = p),
         p \in Validators /\ step \in Loading => settled' < Deposits,
         p \in Validators /\ step = "save" => snap'[p].settled = settled',
         funds' <= settled',
         \A q \in Processes \ {p} : snap'[q] = snap[q],
         snap'[p].funds <= snap'[p].settled
  PROVE  PassInv'
<1>1. pc'[p] = step /\ \A q \in Processes \ {p} : pc'[q] = pc[q]
  BY TypeParts DEF ControlTypes
<1>2. \A v \in Validators : pc'[v] \in InPass <=> lock' = v
  BY <1>1 DEF PassInv, Processes
<1>3. Loading \subseteq InPass /\ "save" \in Loading
  BY DEF InPass, Loading
<1>4. \A v \in Validators \ {p} : pc[v] \in Loading => settled' = settled
  BY <1>3 DEF PassInv
<1>5. \A v \in Validators : pc'[v] \in Loading => settled' < Deposits
  BY <1>1, <1>4 DEF PassInv, Processes
<1>6. \A v \in Validators : pc'[v] = "save" => snap'[v].settled = settled'
  BY <1>1, <1>3, <1>4 DEF PassInv, Processes
<1>7. \A q \in Processes : snap'[q].funds <= snap'[q].settled
  BY DEF PassInv
<1>8. pc'[Api] \notin InPass
  BY <1>1 DEF PassInv, Processes
<1> QED
  BY <1>2, <1>5, <1>6, <1>7, <1>8 DEF PassInv

\* A pass takes the funds and the number of blocks from the tables.
LEMMA BalancesAreRead ==
  ASSUME SnapTypes, NEW v \in Processes, LoadBalances(v)
  PROVE  /\ snap'[v].settled = settled /\ snap'[v].funds = funds
         /\ snap'[v] = [[snap[v] EXCEPT !.funds = funds] EXCEPT !.settled = settled]
         /\ \A q \in Processes \ {v} : snap'[q] = snap[q]
<1> DEFINE half == [snap EXCEPT ![v] = [snap[v] EXCEPT !.funds = funds]]
           read == [[snap[v] EXCEPT !.funds = funds] EXCEPT !.settled = settled]
<1>1. snap[v] \in Snapshot
  BY DEF SnapTypes
<1>2. read.settled = settled /\ read.funds = funds
  BY <1>1 DEF Snapshot
<1>3. half[v] = [snap[v] EXCEPT !.funds = funds]
  BY DEF SnapTypes
<1>4. snap' = [half EXCEPT ![v] = [half[v] EXCEPT !.settled = settled]]
  BY DEF LoadBalances
<1>5. snap'[v] = read
  BY <1>3, <1>4 DEF SnapTypes
<1>6. \A q \in Processes \ {v} : snap'[q] = snap[q]
  BY <1>4 DEF SnapTypes
<1> QED
  BY <1>2, <1>5, <1>6

\* The validators take turns.
LEMMA PassStep == TypeOK /\ PassInv /\ [Next]_vars => PassInv'
<1> SUFFICES ASSUME TypeOK, PassInv, [Next]_vars PROVE PassInv'
  OBVIOUS
<1>1. TableTypes /\ ControlTypes /\ SnapTypes
  BY TypeParts
<1>2. CASE UNCHANGED <<lock, pc, snap, settled, funds>>
  BY <1>2 DEF PassInv
<1>3. settled \in Nat /\ funds \in Nat /\ funds <= settled
  BY <1>1, BoundAssumption DEF TableTypes, PassInv
<1>4. \A q \in Processes : snap[q].funds <= snap[q].settled
  BY DEF PassInv
<1>5. EmptySnap.funds <= EmptySnap.settled
  BY DEF EmptySnap
<1>6. \A v \in Validators : v # None /\ v # Api /\ v \in Processes
  BY NoneAssumption, ModeAssumption DEF Processes
<1>7. Api \in Processes /\ Api # None
  BY NoneAssumption DEF Processes
<1>8. \A v \in Validators : pc[v] \in InPass <=> lock = v
  BY DEF PassInv
<1>9. ASSUME NEW p \in Processes, StartUp(p) PROVE PassInv'
  <2>1. pc[p] \notin InPass /\ lock # p
    <3>1. pc[p] \notin InPass
      BY <1>9 DEF StartUp, Start, ReadAccounts, ReadInstitutions, SeedDatabase, UpgradeNext, InPass,
                  Loading
    <3> QED
      BY <1>1, <1>6, <1>7, <1>8, <3>1, ModeAssumption DEF ControlTypes, Processes
  <2>2. PICK step \in Steps \ InPass : pc' = [pc EXCEPT ![p] = step]
    <3>1. {"accounts", "institutions", "seed", "upgrade", "up", "off"} \subseteq Steps \ InPass
      BY DEF Steps, InPass, Loading
    <3>2. \E step \in {"accounts", "institutions", "seed", "upgrade", "up", "off"} :
            pc' = [pc EXCEPT ![p] = step]
      <4>1. CASE Start(p) \/ ReadAccounts(p)
        BY <4>1 DEF Start, ReadAccounts, Goto
      <4>2. CASE ReadInstitutions(p)
        BY <4>2 DEF ReadInstitutions, Goto
      <4>3. CASE SeedDatabase(p)
        BY <4>3 DEF SeedDatabase, Goto
      <4>4. CASE UpgradeNext(p)
        BY <4>4 DEF UpgradeNext, Goto
      <4> QED
        BY <1>9, <4>1, <4>2, <4>3, <4>4 DEF StartUp
    <3> QED
      BY <3>1, <3>2
  <2>3. UNCHANGED <<lock, settled>>
    BY <1>9 DEF StartUp, Start, ReadAccounts, ReadInstitutions, SeedDatabase, UpgradeNext, tables
  <2>4. funds' <= settled'
    BY <1>3, <1>9, <2>3 DEF StartUp, Start, ReadAccounts, ReadInstitutions, SeedDatabase,
                            UpgradeNext, tables
  <2>5. (\A q \in Processes \ {p} : snap'[q] = snap[q]) /\ snap'[p].funds <= snap'[p].settled
    <3>1. CASE UNCHANGED snap
      BY <1>4, <3>1
    <3>2. CASE snap' = [snap EXCEPT ![p] = EmptySnap]
      BY <1>1, <1>5, <3>2 DEF SnapTypes
    <3>3. CASE snap' = [snap EXCEPT ![p].accounts = accounts]
      BY <1>1, <1>4, <3>3 DEF SnapTypes, Snapshot
    <3> QED
      BY <1>9, <3>1, <3>2, <3>3
         DEF StartUp, Start, ReadAccounts, ReadInstitutions, SeedDatabase, UpgradeNext
  <2> QED
    BY <2>1, <2>2, <2>3, <2>4, <2>5, Moved DEF Loading, InPass
<1>10. ASSUME NEW p \in Processes, Crash(p) PROVE PassInv'
  <2>1. pc' = [pc EXCEPT ![p] = "off"] /\ snap' = [snap EXCEPT ![p] = EmptySnap]
    BY <1>10 DEF Crash, Goto
  <2>2. lock' = (IF lock = p THEN None ELSE lock) /\ UNCHANGED <<settled, funds>>
    BY <1>10 DEF Crash, tables
  <2>3. (\A q \in Processes \ {p} : snap'[q] = snap[q]) /\ snap'[p].funds <= snap'[p].settled
    BY <1>1, <1>5, <2>1 DEF SnapTypes
  <2>4. "off" \in Steps /\ "off" \notin InPass /\ "off" \notin Loading /\ "off" # "save"
    BY DEF Steps, InPass, Loading
  <2>5. lock' # p /\ \A w \in Validators \ {p} : lock' = w <=> lock = w
    BY <1>6, <1>7, <2>2, NoneAssumption
  <2> QED
    BY <1>3, <2>1, <2>2, <2>3, <2>4, <2>5, Moved
<1>11. ASSUME NEW v \in Validators, Pass(v) \/ PassFails(v) PROVE PassInv'
  <2>1. v \in Processes /\ v # Api /\ v # None
    BY <1>6
  <2>2. snap[v] \in Snapshot
    BY <1>1, <2>1 DEF SnapTypes
  <2>3. CASE TakeLock(v)
    <3>1. /\ pc' = [pc EXCEPT ![v] = "load institutions"]
          /\ lock = None /\ lock' = v /\ settled < Deposits
          /\ UNCHANGED <<settled, funds, snap>>
      BY <2>3 DEF TakeLock, Goto, Leads, tables
    <3>2. "load institutions" \in Steps /\ "load institutions" \in InPass
      BY DEF Steps, InPass, Loading
    <3> QED
      BY <1>3, <1>4, <1>6, <2>1, <3>1, <3>2, Moved
  <2>4. CASE NoPass(v)
    <3>1. pc[v] = "up" /\ UNCHANGED <<lock, settled, funds, snap>>
      BY <2>4 DEF NoPass, tables
    <3>2. PICK step \in {"up", "off", "accounts"} : pc' = [pc EXCEPT ![v] = step]
      BY <2>4, ModeAssumption DEF NoPass, AfterPass, Goto
    <3>3. step \in Steps /\ step \notin InPass /\ step \notin Loading /\ lock # v
      BY <1>8, <3>1 DEF Steps, InPass, Loading
    <3> QED
      BY <1>3, <1>4, <2>1, <3>1, <3>2, <3>3, Moved DEF Loading
  <2>5. CASE LoadInstitutions(v) \/ LoadCredentials(v) \/ LoadLimits(v) \/ LoadBalances(v)
    <3>1. pc[v] \in Loading /\ UNCHANGED <<lock, settled, funds>>
      BY <2>5 DEF LoadInstitutions, LoadCredentials, LoadLimits, LoadBalances, Loading, tables
    <3>2. lock = v /\ settled < Deposits
      BY <1>8, <3>1 DEF PassInv, InPass
    <3>3. PICK step \in {"load credentials", "load limits", "load balances", "save"} :
            /\ pc' = [pc EXCEPT ![v] = step]
            /\ step = "save" => LoadBalances(v)
      BY <2>5 DEF LoadInstitutions, LoadCredentials, LoadLimits, LoadBalances, Goto
    <3>4. step \in Steps /\ step \in InPass
      BY DEF Steps, InPass, Loading
    <3>5. LoadBalances(v) => snap'[v].settled = settled /\ snap'[v].funds = funds
      BY <1>1, <2>1, BalancesAreRead
    <3>6. snap'[v].funds <= snap'[v].settled
      <4>1. CASE LoadBalances(v)
        BY <1>3, <3>5, <4>1
      <4>2. CASE LoadInstitutions(v)
        BY <1>1, <1>4, <2>1, <2>2, <4>2 DEF LoadInstitutions, SnapTypes, Snapshot
      <4>3. CASE LoadCredentials(v)
        BY <1>1, <1>4, <2>1, <2>2, <4>3 DEF LoadCredentials, SnapTypes, Snapshot
      <4>4. CASE LoadLimits(v)
        BY <1>1, <1>4, <2>1, <2>2, <4>4 DEF LoadLimits, SnapTypes, Snapshot
      <4> QED
        BY <2>5, <4>1, <4>2, <4>3, <4>4
    <3>7. \A q \in Processes \ {v} : snap'[q] = snap[q]
      BY <1>1, <2>5 DEF LoadInstitutions, LoadCredentials, LoadLimits, LoadBalances, SnapTypes
    <3> QED
      BY <1>3, <2>1, <3>1, <3>2, <3>3, <3>4, <3>5, <3>6, <3>7, Moved
  <2>6. CASE SaveSnapshot(v) \/ SaveConflicts(v) \/ PassFails(v)
    <3>1. pc[v] \in Loading /\ lock' = lock
      BY <2>6 DEF SaveSnapshot, SaveConflicts, PassFails, Loading
    <3>2. lock = v
      BY <1>8, <3>1 DEF InPass
    <3>3. PICK step \in {"release", "failed"} : pc' = [pc EXCEPT ![v] = step]
      BY <2>6 DEF SaveSnapshot, SaveConflicts, PassFails, Goto
    <3>4. step \in Steps /\ step \in InPass /\ step \notin Loading /\ step # "save"
      BY DEF Steps, InPass, Loading
    <3>5. snap' = [snap EXCEPT ![v] = EmptySnap]
      BY <2>6 DEF SaveSnapshot, SaveConflicts, PassFails
    <3>6. (\A q \in Processes \ {v} : snap'[q] = snap[q]) /\ snap'[v].funds <= snap'[v].settled
      BY <1>1, <1>5, <2>1, <3>5 DEF SnapTypes
    <3>7. funds' <= settled'
      <4>1. snap[v].funds \in Nat /\ snap[v].settled \in Nat
        BY <2>2, BoundAssumption DEF Snapshot
      <4>2. CASE SaveSnapshot(v)
        BY <1>4, <2>1, <4>1, <4>2 DEF SaveSnapshot
      <4>3. CASE SaveConflicts(v) \/ PassFails(v)
        BY <1>3, <4>3 DEF SaveConflicts, PassFails, tables
      <4> QED
        BY <2>6, <4>2, <4>3
    <3> QED
      BY <2>1, <3>1, <3>2, <3>3, <3>4, <3>6, <3>7, Moved
  <2>7. CASE EndPass(v)
    <3>1. pc[v] \in InPass /\ UNCHANGED <<settled, funds, snap>>
      BY <2>7 DEF EndPass, InPass, tables
    <3>2. lock = v /\ lock' = None
      BY <1>8, <2>7, <3>1 DEF EndPass
    <3>3. PICK step \in {"up", "off", "accounts"} : pc' = [pc EXCEPT ![v] = step]
      BY <2>7, ModeAssumption DEF EndPass, AfterPass, Goto
    <3>4. step \in Steps /\ step \notin InPass /\ step \notin Loading /\ step # "save"
      BY DEF Steps, InPass, Loading
    <3> QED
      BY <1>3, <1>4, <1>6, <2>1, <3>1, <3>2, <3>3, <3>4, Moved
  <2> QED
    BY <1>11, <2>3, <2>4, <2>5, <2>6, <2>7 DEF Pass
<1>12. ASSUME NEW r \in Requests, Handle(r) \/ HandlerStops(r) PROVE PassInv'
  BY <1>2, <1>12 DEF Handle, HandlerStops, Authorize, CheckInstitution, CreateInstitution,
                     SuspendInstitution, InsertCredential, UpsertLimit, AuditAndAnswer, tables
<1>13. CASE UNCHANGED vars
  BY <1>2, <1>13 DEF vars, tables
<1> QED
  BY <1>9, <1>10, <1>11, <1>12, <1>13 DEF Next

\* Nobody is in a pass at the start.
LEMMA PassInit == Init => PassInv
<1> SUFFICES ASSUME Init PROVE PassInv
  OBVIOUS
<1>1. \A p \in Processes : pc[p] = "off" /\ snap[p] = EmptySnap
  BY DEF Init
<1>2. "off" \notin InPass /\ "off" \notin Loading /\ EmptySnap.funds <= EmptySnap.settled
  BY DEF InPass, Loading, EmptySnap
<1>3. funds <= settled
  BY TypeInit, BoundAssumption DEF Init, TypeOK
<1>4. \A v \in Validators : v \in Processes /\ lock # v
  BY NoneAssumption DEF Init, Processes
<1>5. Api \in Processes
  BY DEF Processes
<1> QED
  BY <1>1, <1>2, <1>3, <1>4, <1>5 DEF PassInv

\* Both together are inductive.
LEMMA TypeStep == TypeOK /\ PassInv /\ [Next]_vars => TypeOK' /\ PassInv'
  BY TableStep, ControlStep, SnapStep, TypePartsPrime, PassStep

\* What TypeOK says holds in every state: the rows that a pass writes back have their
\* types, and no deposit is settled twice.
THEOREM TypeCorrect == Spec => []TypeOK
<1>1. Init => TypeOK /\ PassInv
  BY TypeInit, PassInit
<1>2. TypeOK /\ PassInv /\ [Next]_vars => (TypeOK /\ PassInv)'
  BY TypeStep
<1> QED
  BY <1>1, <1>2, PTL DEF Spec

\* Between a load and its save nobody else settles a deposit.
THEOREM PassesTakeTurns == Spec => []PassInv
<1>1. Init => TypeOK /\ PassInv
  BY TypeInit, PassInit
<1>2. TypeOK /\ PassInv /\ [Next]_vars => (TypeOK /\ PassInv)'
  BY TypeStep
<1> QED
  BY <1>1, <1>2, PTL DEF Spec

-----------------------------------------------------------------------------
(* Nothing is deleted.                                                     *)

\* A step takes no row out of a table.
Kept ==
  /\ origin' = origin
  /\ accounts => accounts'
  /\ \A i \in Institutions : institution[i] # NoRow => institution'[i] # NoRow
  /\ credentials \subseteq credentials'
  /\ \A i \in Institutions : limits[i] # NoRow => limits'[i] # NoRow

\* No step of the model deletes.
LEMMA NothingIsDeleted == TypeOK /\ [Next]_vars => Kept
<1> SUFFICES ASSUME TypeOK, [Next]_vars PROVE Kept
  OBVIOUS
<1>1. TableTypes /\ ControlTypes /\ SnapTypes
  BY TypeParts
<1>2. CASE UNCHANGED <<origin, tables>>
  BY <1>2 DEF tables, Kept
<1>3. ASSUME NEW p \in Processes, SeedDatabase(p) PROVE Kept
  <2>1. origin' = origin /\ UNCHANGED <<credentials, limits>> /\ (accounts => accounts')
    BY <1>3 DEF SeedDatabase
  <2>2. institution' = institution \/ institution' = Upserted(SandboxRows, institution)
    BY <1>3 DEF SeedDatabase
  <2>3. \A i \in Institutions : institution[i] # NoRow => institution'[i] # NoRow
    BY <1>1, <2>2, UpsertedType, SeedType DEF TableTypes
  <2> QED
    BY <2>1, <2>3 DEF Kept
<1>4. ASSUME NEW p \in Processes, UpgradeNext(p) PROVE Kept
  <2>1. origin' = origin /\ UNCHANGED <<accounts, credentials, limits>>
    BY <1>4 DEF UpgradeNext
  <2>2. \/ institution' = institution
        \/ \E i \in todo[p] : institution' = [institution EXCEPT ![i] = SeedRow(i)]
    BY <1>4 DEF UpgradeNext
  <2>3. todo[p] \subseteq Seeds
    BY <1>1 DEF ControlTypes
  <2>4. \A i \in Institutions : institution[i] # NoRow => institution'[i] # NoRow
    BY <1>1, <2>2, <2>3, SeedType DEF TableTypes, Rows
  <2> QED
    BY <2>1, <2>4 DEF Kept
<1>5. ASSUME NEW v \in Validators, SaveSnapshot(v) PROVE Kept
  <2>1. snap[v] \in Snapshot
    BY <1>1 DEF SnapTypes, Processes
  <2>2. origin' = origin /\ UNCHANGED accounts /\ credentials \subseteq credentials'
    BY <1>5 DEF SaveSnapshot
  <2>3. institution' = Upserted(snap[v].institution, institution) /\ snap[v].institution \in Rows
    BY <1>5, <2>1 DEF SaveSnapshot, Snapshot, Rows
  <2>4. \A i \in Institutions : institution[i] # NoRow => institution'[i] # NoRow
    BY <1>1, <2>3, UpsertedType DEF TableTypes
  <2>5. \A i \in Institutions : limits[i] # NoRow => limits'[i] # NoRow
    BY <1>5 DEF SaveSnapshot, SavedLimits
  <2> QED
    BY <2>2, <2>4, <2>5 DEF Kept
<1>6. ASSUME NEW r \in Requests, CreateInstitution(r) \/ SuspendInstitution(r) PROVE Kept
  <2>1. origin' = origin /\ UNCHANGED <<accounts, credentials, limits>>
    BY <1>6 DEF CreateInstitution, SuspendInstitution
  <2>2. Request[r].institution \in Institutions /\ Request[r].code \in Codes
    BY RequestAssumption
  <2>3. CASE institution' = institution
    BY <2>1, <2>3 DEF Kept
  <2>4. CASE institution' = [institution EXCEPT ![Request[r].institution] =
                               [code |-> Request[r].code, status |-> "REQUESTED"]]
    <3>1. [code |-> Request[r].code, status |-> "REQUESTED"] # NoRow
      BY <2>2, NoRowAssumption DEF Row
    <3>2. \A i \in Institutions : institution[i] # NoRow => institution'[i] # NoRow
      BY <1>1, <2>2, <2>4, <3>1 DEF TableTypes, Rows
    <3> QED
      BY <2>1, <3>2 DEF Kept
  <2>5. CASE SuspendInstitution(r) /\ institution[Request[r].institution] # NoRow
    <3>1. institution[Request[r].institution] \in Row
      BY <1>1, <2>2, <2>5 DEF TableTypes, Rows
    <3>2. Suspended(institution[Request[r].institution]) # NoRow
      BY <3>1, NoRowAssumption DEF Suspended, Row
    <3>3. institution' = [institution EXCEPT ![Request[r].institution] =
                            Suspended(institution[Request[r].institution])]
      BY <2>5 DEF SuspendInstitution
    <3>4. \A i \in Institutions : institution[i] # NoRow => institution'[i] # NoRow
      BY <1>1, <2>2, <3>2, <3>3 DEF TableTypes, Rows
    <3> QED
      BY <2>1, <3>4 DEF Kept
  <2> QED
    BY <1>6, <2>3, <2>4, <2>5 DEF CreateInstitution, SuspendInstitution
<1>7. ASSUME NEW r \in Requests, InsertCredential(r) \/ UpsertLimit(r) PROVE Kept
  <2>1. origin' = origin /\ UNCHANGED <<accounts, institution>> /\ credentials \subseteq credentials'
    BY <1>7 DEF InsertCredential, UpsertLimit, CredentialInserted
  <2>2. Request[r].limit # NoRow /\ Request[r].institution \in Institutions
    BY RequestAssumption, NoRowAssumption
  <2>3. \A i \in Institutions : limits[i] # NoRow => limits'[i] # NoRow
    BY <1>1, <1>7, <2>2 DEF InsertCredential, UpsertLimit, LimitUpserted, TableTypes
  <2> QED
    BY <2>1, <2>3 DEF Kept
<1> QED
  BY <1>2, <1>3, <1>4, <1>5, <1>6, <1>7, WritingSteps

-----------------------------------------------------------------------------
(* The seed.                                                               *)

\* Who is past the load of ensure_sandbox_seed, or has seen accounts, can rely on
\* them; accounts and institutions of an empty database come together; a database
\* with accounts is never seeded, so that its funds follow its blocks.
SeedInv ==
  /\ \A p \in Processes : pc[p] \notin Starting => accounts
  /\ \A p \in Processes : snap[p].accounts => accounts
  /\ accounts /\ origin = "empty" => \A i \in Seeds : institution[i] # NoRow
  /\ origin = "old" =>
       /\ accounts /\ funds = settled
       /\ \A p \in Processes : /\ pc[p] # "seed"
                               /\ pc[p] = "institutions" => snap[p].accounts
       /\ \A v \in Validators : pc[v] = "save" => snap[v].funds = funds

\* The invariant gives the property.
LEMMA SeedSuffices == SeedInv => SeedIsWhole
  BY InstitutionAssumption DEF SeedInv, SeedIsWhole, Starting, Stored

\* No process has read anything at the start.
LEMMA SeedInit == Init => SeedInv
<1> SUFFICES ASSUME Init PROVE SeedInv
  OBVIOUS
<1>1. \A p \in Processes : pc[p] = "off" /\ snap[p] = EmptySnap
  BY DEF Init
<1>2. "off" \in Starting /\ ~EmptySnap.accounts
  BY DEF Starting, EmptySnap
<1>3. accounts => origin = "old"
  BY DEF Init
<1>4. origin = "old" => accounts /\ funds = settled
  BY DEF Init
<1>5. \A v \in Validators : pc[v] = "off"
  BY <1>1 DEF Processes
<1> QED
  BY <1>1, <1>2, <1>3, <1>4, <1>5 DEF SeedInv

\* One process moves and keeps the rules.
LEMMA SeedMoved ==
  ASSUME TypeOK, SeedInv, Kept, NEW p \in Processes, NEW step \in Steps,
         pc' = [pc EXCEPT ![p] = step],
         step \in Starting \/ accounts',
         \A q \in Processes \ {p} : snap'[q] = snap[q],
         snap'[p].accounts => accounts',
         accounts' /\ ~accounts => \A i \in Seeds : institution'[i] # NoRow,
         origin = "old" =>
           /\ funds' = settled' /\ step # "seed"
           /\ step = "institutions" => snap'[p].accounts
           /\ p \in Validators /\ step = "save" => snap'[p].funds = funds'
           /\ \A w \in Validators \ {p} : pc[w] = "save" => funds' = funds
  PROVE  SeedInv'
<1>1. pc'[p] = step /\ \A q \in Processes \ {p} : pc'[q] = pc[q]
  BY TypeParts DEF ControlTypes
<1>2. \A q \in Processes : pc'[q] \notin Starting => accounts'
  BY <1>1 DEF SeedInv, Kept
<1>3. \A q \in Processes : snap'[q].accounts => accounts'
  BY DEF SeedInv, Kept
<1>4. accounts' /\ origin' = "empty" => \A i \in Seeds : institution'[i] # NoRow
  BY InstitutionAssumption DEF SeedInv, Kept
<1>5. ASSUME origin = "old"
      PROVE  /\ accounts'
             /\ \A q \in Processes : /\ pc'[q] # "seed"
                                     /\ pc'[q] = "institutions" => snap'[q].accounts
             /\ \A v \in Validators : pc'[v] = "save" => snap'[v].funds = funds'
  <2>1. accounts' /\ \A q \in Processes : /\ pc'[q] # "seed"
                                          /\ pc'[q] = "institutions" => snap'[q].accounts
    BY <1>1, <1>5 DEF SeedInv, Kept
  <2>2. \A v \in Validators \ {p} : pc'[v] = "save" => snap'[v].funds = funds'
    BY <1>1, <1>5 DEF SeedInv, Processes
  <2>3. p \in Validators /\ pc'[p] = "save" => snap'[p].funds = funds'
    BY <1>1, <1>5
  <2> QED
    BY <2>1, <2>2, <2>3
<1> QED
  BY <1>2, <1>3, <1>4, <1>5 DEF SeedInv, Kept

\* Every step keeps the rules.
LEMMA SeedStep == TypeOK /\ PassInv /\ SeedInv /\ [Next]_vars => SeedInv'
<1> SUFFICES ASSUME TypeOK, PassInv, SeedInv, [Next]_vars PROVE SeedInv'
  OBVIOUS
<1>1. TableTypes /\ ControlTypes /\ SnapTypes
  BY TypeParts
<1>2. Kept
  BY NothingIsDeleted
<1>3. CASE UNCHANGED <<pc, snap, accounts, funds, settled>>
  BY <1>2, <1>3, InstitutionAssumption DEF SeedInv, Kept
<1>4. ~EmptySnap.accounts
  BY DEF EmptySnap
<1>5. \A p \in Processes : snap' = [snap EXCEPT ![p] = EmptySnap] =>
        (\A q \in Processes \ {p} : snap'[q] = snap[q]) /\ ~snap'[p].accounts
  BY <1>1, <1>4 DEF SnapTypes
<1>6. /\ {"off", "accounts", "institutions", "seed", "upgrade", "up", "load institutions",
          "load credentials", "load limits", "load balances", "save", "release", "failed"}
           \subseteq Steps
      /\ {"off", "accounts", "institutions", "seed"} \subseteq Starting
  BY DEF Steps, Starting
<1>7. \A p \in Processes : pc[p] \notin Starting => accounts
  BY DEF SeedInv
<1>8. \A p \in Processes : snap[p].accounts => accounts
  BY DEF SeedInv
<1>9. origin = "old" => funds = settled /\ accounts
  BY DEF SeedInv
<1>10. ASSUME NEW p \in Processes, Start(p) PROVE SeedInv'
  <2>1. pc' = [pc EXCEPT ![p] = "accounts"] /\ UNCHANGED <<tables, snap>>
    BY <1>10 DEF Start, Goto
  <2> QED
    BY <1>2, <1>6, <1>8, <1>9, <2>1, SeedMoved DEF tables
<1>11. ASSUME NEW p \in Processes, ReadAccounts(p) PROVE SeedInv'
  <2>1. pc' = [pc EXCEPT ![p] = "institutions"] /\ UNCHANGED tables
    BY <1>11 DEF ReadAccounts, Goto
  <2>2. snap'[p].accounts = accounts /\ \A q \in Processes \ {p} : snap'[q] = snap[q]
    BY <1>1, <1>11 DEF ReadAccounts, SnapTypes, Snapshot
  <2> QED
    BY <1>2, <1>6, <1>9, <2>1, <2>2, SeedMoved DEF tables
<1>12. ASSUME NEW p \in Processes, ReadInstitutions(p) PROVE SeedInv'
  <2>1. UNCHANGED tables /\ snap' = [snap EXCEPT ![p] = EmptySnap] /\ pc[p] = "institutions"
    BY <1>12 DEF ReadInstitutions
  <2>2. PICK step \in {"seed", "upgrade", "up"} :
          /\ pc' = [pc EXCEPT ![p] = step]
          /\ IF step = "seed" THEN ~snap[p].accounts ELSE snap[p].accounts
    BY <1>12 DEF ReadInstitutions, Goto
  <2>3. origin = "old" => snap[p].accounts
    BY <2>1 DEF SeedInv
  <2>4. step \in Steps /\ (step \in Starting \/ accounts)
    BY <1>6, <1>8, <2>2
  <2>5. step # "save" /\ step # "institutions" /\ (origin = "old" => step # "seed")
    BY <2>2, <2>3
  <2>6. (\A q \in Processes \ {p} : snap'[q] = snap[q]) /\ ~snap'[p].accounts
    BY <1>5, <2>1
  <2>7. UNCHANGED <<accounts, funds, settled>>
    BY <2>1 DEF tables
  <2> HIDE <2>1
  <2> QED
    BY <1>2, <1>9, <2>2, <2>4, <2>5, <2>6, <2>7, SeedMoved
<1>13. ASSUME NEW p \in Processes, SeedDatabase(p) PROVE SeedInv'
  <2>1. pc[p] = "seed" /\ UNCHANGED <<snap, settled>>
    BY <1>13 DEF SeedDatabase
  <2>2. origin # "old"
    BY <2>1 DEF SeedInv
  <2>3. CASE accounts' /\ pc' = [pc EXCEPT ![p] = "up"]
                /\ institution' = Upserted(SandboxRows, institution)
    <3>1. \A i \in Seeds : institution'[i] # NoRow
      <4>1. \A i \in Seeds : i \in Institutions /\ SandboxRows[i] # NoRow
        BY SeedType, InstitutionAssumption DEF SandboxRows
      <4> QED
        BY <1>1, <2>3, <4>1, SeedType, UpsertedType DEF TableTypes
    <3> QED
      BY <1>2, <1>6, <2>1, <2>2, <2>3, <3>1, SeedMoved
  <2>4. CASE pc' = [pc EXCEPT ![p] = "off"] /\ UNCHANGED accounts
    BY <1>2, <1>6, <1>8, <2>1, <2>2, <2>4, SeedMoved
  <2> QED
    BY <1>13, <2>3, <2>4 DEF SeedDatabase, Goto
<1>14. ASSUME NEW p \in Processes, UpgradeNext(p) PROVE SeedInv'
  <2>1. pc[p] = "upgrade" /\ UNCHANGED <<snap, accounts, funds, settled>>
    BY <1>14 DEF UpgradeNext
  <2>2. accounts
    BY <1>7, <2>1 DEF Starting
  <2>3. PICK step \in {"up", "upgrade", "off"} : pc' = [pc EXCEPT ![p] = step]
    BY <1>14 DEF UpgradeNext, Goto
  <2>4. step \in Steps /\ step # "seed" /\ step # "institutions" /\ step # "save"
    BY <1>6
  <2> QED
    BY <1>2, <1>9, <2>1, <2>2, <2>3, <2>4, SeedMoved
<1>15. ASSUME NEW p \in Processes, Crash(p) PROVE SeedInv'
  <2>1. /\ pc' = [pc EXCEPT ![p] = "off"] /\ snap' = [snap EXCEPT ![p] = EmptySnap]
        /\ UNCHANGED <<accounts, funds, settled>>
    BY <1>15 DEF Crash, Goto, tables
  <2> QED
    BY <1>2, <1>5, <1>6, <1>9, <2>1, SeedMoved
<1>16. ASSUME NEW v \in Validators, Pass(v) \/ PassFails(v) PROVE SeedInv'
  <2>1. v \in Processes
    BY DEF Processes
  <2>2. pc[v] \notin Starting
    BY <1>16 DEF Pass, PassFails, TakeLock, NoPass, LoadInstitutions, LoadCredentials, LoadLimits,
                 LoadBalances, SaveSnapshot, SaveConflicts, EndPass, Starting
  <2>3. accounts /\ accounts'
    BY <1>2, <1>7, <2>1, <2>2 DEF Kept
  <2>4. AfterPass(v) \subseteq {"up", "off", "accounts"}
    BY ModeAssumption DEF AfterPass
  <2>5. CASE TakeLock(v) \/ NoPass(v) \/ EndPass(v)
    <3>1. PICK step \in {"load institutions", "up", "off", "accounts"} :
            pc' = [pc EXCEPT ![v] = step]
      BY <2>4, <2>5 DEF TakeLock, NoPass, EndPass, Goto
    <3>2. UNCHANGED <<snap, funds, settled>>
      BY <2>5 DEF TakeLock, NoPass, EndPass, tables
    <3>3. step \in Steps /\ step # "seed" /\ step # "institutions" /\ step # "save"
      BY <1>6
    <3> QED
      BY <1>2, <1>9, <2>1, <2>3, <3>1, <3>2, <3>3, SeedMoved
  <2>6. CASE LoadInstitutions(v) \/ LoadCredentials(v) \/ LoadLimits(v)
    <3>1. PICK step \in {"load credentials", "load limits", "load balances"} :
            pc' = [pc EXCEPT ![v] = step]
      BY <2>6 DEF LoadInstitutions, LoadCredentials, LoadLimits, Goto
    <3>2. UNCHANGED <<funds, settled>>
      BY <2>6 DEF LoadInstitutions, LoadCredentials, LoadLimits, tables
    <3>3. \A q \in Processes \ {v} : snap'[q] = snap[q]
      BY <1>1, <2>6 DEF LoadInstitutions, LoadCredentials, LoadLimits, SnapTypes
    <3>4. step \in Steps /\ step # "seed" /\ step # "institutions" /\ step # "save"
      BY <1>6
    <3> QED
      BY <1>2, <1>9, <2>1, <2>3, <3>1, <3>2, <3>3, <3>4, SeedMoved
  <2>7. CASE LoadBalances(v)
    <3>1. pc' = [pc EXCEPT ![v] = "save"] /\ UNCHANGED <<funds, settled>>
      BY <2>7 DEF LoadBalances, Goto, tables
    <3>2. snap'[v].funds = funds /\ \A q \in Processes \ {v} : snap'[q] = snap[q]
      BY <1>1, <2>1, <2>7, BalancesAreRead
    <3>3. "save" \in Steps /\ "save" # "seed" /\ "save" # "institutions"
      BY <1>6
    <3> QED
      BY <1>2, <1>9, <2>1, <2>3, <3>1, <3>2, <3>3, SeedMoved
  <2>8. CASE SaveConflicts(v) \/ PassFails(v)
    <3>1. /\ pc' = [pc EXCEPT ![v] = "failed"] /\ snap' = [snap EXCEPT ![v] = EmptySnap]
          /\ UNCHANGED <<funds, settled>>
      BY <2>8 DEF SaveConflicts, PassFails, Goto, tables
    <3>2. \A q \in Processes \ {v} : snap'[q] = snap[q]
      BY <1>5, <2>1, <3>1
    <3>3. "failed" \in Steps
      BY <1>6
    <3> QED
      BY <1>2, <1>9, <2>1, <2>3, <3>1, <3>2, <3>3, SeedMoved
  <2>9. CASE SaveSnapshot(v)
    <3>1. pc' = [pc EXCEPT ![v] = "release"] /\ snap' = [snap EXCEPT ![v] = EmptySnap]
      BY <2>9 DEF SaveSnapshot, Goto
    <3>2. \A q \in Processes \ {v} : snap'[q] = snap[q]
      BY <1>5, <2>1, <3>1
    <3>3. pc[v] = "save" /\ funds' = snap[v].funds + 1 /\ settled' = snap[v].settled + 1
      BY <2>9 DEF SaveSnapshot
    <3>4. origin = "old" => funds' = settled'
      BY <1>9, <3>3 DEF SeedInv, PassInv
    <3>5. \A w \in Validators \ {v} : pc[w] # "save"
      BY <3>3 DEF PassInv, InPass, Loading
    <3>6. "release" \in Steps
      BY <1>6
    <3> QED
      BY <1>2, <2>1, <2>3, <3>1, <3>2, <3>4, <3>5, <3>6, SeedMoved
  <2> QED
    BY <1>16, <2>5, <2>6, <2>7, <2>8, <2>9 DEF Pass
<1>17. ASSUME NEW r \in Requests, Handle(r) \/ HandlerStops(r) PROVE SeedInv'
  BY <1>3, <1>17 DEF Handle, HandlerStops, Authorize, CheckInstitution, CreateInstitution,
                     SuspendInstitution, InsertCredential, UpsertLimit, AuditAndAnswer, tables
<1>18. CASE UNCHANGED vars
  BY <1>3, <1>18 DEF vars, tables
<1> QED
  BY <1>10, <1>11, <1>12, <1>13, <1>14, <1>15, <1>16, <1>17, <1>18 DEF Next, StartUp

\* However the processes' starts interleave, crash and repeat, who gets past
\* ensure_sandbox_seed finds the accounts and, in a database that was empty, all the
\* institutions; and a database that had accounts keeps its balances.
THEOREM SeedWhole == Spec => []SeedIsWhole
<1>1. Init => TypeOK /\ PassInv /\ SeedInv
  BY TypeInit, PassInit, SeedInit
<1>2. TypeOK /\ PassInv /\ SeedInv /\ [Next]_vars => (TypeOK /\ PassInv /\ SeedInv)'
  BY TypeStep, SeedStep
<1> QED
  BY <1>1, <1>2, SeedSuffices, PTL DEF Spec

-----------------------------------------------------------------------------
(* What is in the tables, and in what a pass has read of them.             *)

AllowedIn(log, kind, i) ==
  {r \in Requests : /\ <<"ALLOWED", r>> \in log /\ Request[r].admin
                    /\ Request[r].kind = kind /\ Request[r].institution = i}

RowOK(log, row, i) ==
  /\ \/ i \in Seeds /\ row.code = SeedCode[i]
     \/ \E r \in AllowedIn(log, "create", i) : Request[r].code = row.code
  /\ row.status = "APPROVED" => i \in Seeds
  /\ row.status = "REQUESTED" => AllowedIn(log, "create", i) # {}
  /\ row.status = "SUSPENDED" => AllowedIn(log, "suspend", i) # {}

RowsOK(log, rows) == \A i \in Institutions : rows[i] # NoRow => RowOK(log, rows[i], i)

CredentialsOK(log, rows, creds) ==
  \A c \in creds : /\ rows[c[1]] # NoRow
                   /\ \E r \in AllowedIn(log, "credential", c[1]) : Request[r].fingerprint = c[2]

LimitOK(log, rows, limit, i) ==
  rows[i] # NoRow /\ \E r \in AllowedIn(log, "limit", i) : Request[r].limit = limit

LimitsOK(log, rows, lims) ==
  \A i \in Institutions : lims[i] # NoRow => LimitOK(log, rows, lims[i], i)

SnapOK(log, rows, s) ==
  RowsOK(log, s.institution) /\ CredentialsOK(log, rows, s.credentials) /\ LimitsOK(log, rows, s.limits)

\* The tables hold what was allowed, and so does all that will be written back.
AuthInv ==
  /\ RowsOK(audit, institution)
  /\ CredentialsOK(audit, institution, credentials)
  /\ LimitsOK(audit, institution, limits)
  /\ \A p \in Processes : SnapOK(audit, institution, snap[p])

Written == {"written", "done"}

\* A handler past the authorization was allowed, one past the check has its
\* institution, one past the write has its row, and an answer is recorded.
HandlerInv ==
  /\ \A r \in Requests : handler[r] \in InProgress \cup {"done"} =>
       <<"ALLOWED", r>> \in audit /\ Request[r].admin
  /\ \A r \in Requests : handler[r] \in {"checked"} \cup Written =>
       institution[Request[r].institution] # NoRow
  /\ \A r \in Requests : handler[r] = "done" => <<"RECORDED", r>> \in audit
  /\ \A r \in Requests : handler[r] \in Written =>
       /\ Request[r].kind = "credential" =>
            <<Request[r].institution, Request[r].fingerprint>> \in credentials
       /\ Request[r].kind = "limit" => limits[Request[r].institution] # NoRow
  /\ \A r, q \in Requests :
       /\ handler[r] \in Written /\ handler[q] \in Written
       /\ Request[r].kind = "credential" /\ Request[q].kind = "credential"
       /\ Request[r].institution = Request[q].institution
       /\ Request[r].fingerprint = Request[q].fingerprint
       => r = q

\* The invariants give the properties.
LEMMA AuthSuffices == AuthInv /\ TypeOK => TablesAreAuthorized
<1> SUFFICES ASSUME AuthInv, TypeOK PROVE TablesAreAuthorized
  OBVIOUS
<1>1. \A kind, i : AllowedIn(audit, kind, i) = Allowed(kind, i)
  BY DEF AllowedIn, Allowed
<1>2. \A i \in Stored(institution) : RowOK(audit, institution[i], i)
  BY DEF AuthInv, RowsOK, Stored
<1>3. \A i \in Stored(limits) : LimitOK(audit, institution, limits[i], i)
  BY DEF AuthInv, LimitsOK, Stored
<1>4. \A c \in credentials : /\ institution[c[1]] # NoRow
                             /\ \E r \in Allowed("credential", c[1]) : Request[r].fingerprint = c[2]
  BY <1>1 DEF AuthInv, CredentialsOK
<1>5. \A i \in Stored(institution) :
        /\ \/ i \in Seeds /\ institution[i].code = SeedCode[i]
           \/ \E r \in Allowed("create", i) : Request[r].code = institution[i].code
        /\ institution[i].status = "APPROVED" => i \in Seeds
        /\ institution[i].status = "REQUESTED" => Allowed("create", i) # {}
        /\ institution[i].status = "SUSPENDED" => Allowed("suspend", i) # {}
  BY <1>1, <1>2 DEF RowOK
<1>6. \A i \in Stored(limits) : /\ institution[i] # NoRow
                                /\ \E r \in Allowed("limit", i) : Request[r].limit = limits[i]
  BY <1>1, <1>3 DEF LimitOK
<1> QED
  BY <1>4, <1>5, <1>6 DEF TablesAreAuthorized

\* The same for the answers.
LEMMA HandlerSuffices == HandlerInv => AnswersAreBacked
  BY DEF HandlerInv, AnswersAreBacked, Written

\* What was allowed stays allowed, and a row that was there still is.
LEMMA MoreAllowed ==
  ASSUME NEW log, NEW more, log \subseteq more
  PROVE  /\ \A kind, i : AllowedIn(log, kind, i) \subseteq AllowedIn(more, kind, i)
         /\ \A row, i : RowOK(log, row, i) => RowOK(more, row, i)
<1>1. \A kind, i : AllowedIn(log, kind, i) \subseteq AllowedIn(more, kind, i)
  BY DEF AllowedIn
<1> QED
  BY <1>1 DEF RowOK

\* So rows, credentials and limits that were in order still are.
LEMMA Carried ==
  ASSUME NEW log, NEW more, log \subseteq more, NEW rows, NEW later,
         \A i \in Institutions : rows[i] # NoRow => later[i] # NoRow
  PROVE  /\ \A s : RowsOK(log, s) => RowsOK(more, s)
         /\ \A creds \in SUBSET (Institutions \X Fingerprints) :
              CredentialsOK(log, rows, creds) => CredentialsOK(more, later, creds)
         /\ \A lims : LimitsOK(log, rows, lims) => LimitsOK(more, later, lims)
<1>1. \A kind, i : AllowedIn(log, kind, i) \subseteq AllowedIn(more, kind, i)
  BY MoreAllowed
<1>2. \A row, i : RowOK(log, row, i) => RowOK(more, row, i)
  BY MoreAllowed
<1>3. \A s : RowsOK(log, s) => RowsOK(more, s)
  BY <1>2 DEF RowsOK
<1>4. ASSUME NEW creds \in SUBSET (Institutions \X Fingerprints), CredentialsOK(log, rows, creds)
      PROVE  CredentialsOK(more, later, creds)
  <2> SUFFICES ASSUME NEW c \in creds
               PROVE  /\ later[c[1]] # NoRow
                      /\ \E r \in AllowedIn(more, "credential", c[1]) : Request[r].fingerprint = c[2]
    BY DEF CredentialsOK
  <2>1. c[1] \in Institutions
    BY <1>4
  <2> QED
    BY <1>1, <1>4, <2>1 DEF CredentialsOK
<1>5. ASSUME NEW limit, NEW i \in Institutions, LimitOK(log, rows, limit, i)
      PROVE  LimitOK(more, later, limit, i)
  BY <1>1, <1>5 DEF LimitOK
<1>6. \A lims : LimitsOK(log, rows, lims) => LimitsOK(more, later, lims)
  BY <1>5 DEF LimitsOK
<1> QED
  BY <1>3, <1>4, <1>6

\* The rows of the sandbox need nobody.
LEMMA SandboxIsOK ==
  ASSUME NEW log
  PROVE  /\ \A i \in Seeds : RowOK(log, SeedRow(i), i)
         /\ RowsOK(log, SandboxRows)
<1>1. \A i \in Seeds : RowOK(log, SeedRow(i), i)
  BY DEF RowOK, SeedRow
<1> QED
  BY <1>1 DEF RowsOK, SandboxRows

\* Nothing is written back from an empty snapshot.
LEMMA EmptyIsOK == \A log, rows : SnapOK(log, rows, EmptySnap)
  BY DEF SnapOK, EmptySnap, RowsOK, CredentialsOK, LimitsOK

\* Events are never taken back.
LEMMA AuditGrows == [Next]_vars => audit \subseteq audit'
<1> SUFFICES ASSUME [Next]_vars PROVE audit \subseteq audit'
  OBVIOUS
<1>1. ASSUME NEW p \in Processes, StartUp(p) \/ Crash(p) PROVE audit' = audit
  BY <1>1 DEF StartUp, Crash, Start, ReadAccounts, ReadInstitutions, SeedDatabase, UpgradeNext
<1>2. ASSUME NEW v \in Validators, Pass(v) \/ PassFails(v) PROVE audit' = audit
  BY <1>2 DEF Pass, PassFails, TakeLock, NoPass, LoadInstitutions, LoadCredentials, LoadLimits,
              LoadBalances, SaveSnapshot, SaveConflicts, EndPass
<1>3. ASSUME NEW r \in Requests, Handle(r) \/ HandlerStops(r) PROVE audit \subseteq audit'
  <2>1. CASE Authorize(r) \/ AuditAndAnswer(r)
    BY <2>1 DEF Authorize, AuditAndAnswer, Record
  <2>2. CASE ~(Authorize(r) \/ AuditAndAnswer(r))
    BY <1>3, <2>2 DEF Handle, HandlerStops, CheckInstitution, CreateInstitution,
                      SuspendInstitution, InsertCredential, UpsertLimit
  <2> QED
    BY <2>1, <2>2
<1>4. CASE UNCHANGED vars
  BY <1>4 DEF vars
<1> QED
  BY <1>1, <1>2, <1>3, <1>4 DEF Next

\* Whatever a process has in its snapshot after a step it had before, has read from
\* a table, or is nothing.
LEMMA SnapFields ==
  ASSUME TypeOK, [Next]_vars, NEW q \in Processes
  PROVE  \/ snap'[q] = EmptySnap
         \/ /\ snap'[q].institution \in {snap[q].institution, institution}
            /\ snap'[q].credentials \in {snap[q].credentials, credentials}
            /\ snap'[q].limits \in {snap[q].limits, limits}
<1> DEFINE Fields == \/ snap'[q] = EmptySnap
                     \/ /\ snap'[q].institution \in {snap[q].institution, institution}
                        /\ snap'[q].credentials \in {snap[q].credentials, credentials}
                        /\ snap'[q].limits \in {snap[q].limits, limits}
<1>1. TableTypes /\ SnapTypes
  BY TypeParts
<1>2. CASE UNCHANGED snap
  BY <1>2
<1>3. ASSUME NEW p \in Processes, snap' = [snap EXCEPT ![p] = EmptySnap] PROVE Fields
  BY <1>1, <1>3 DEF SnapTypes
<1>4. snap[q] \in Snapshot
  BY <1>1 DEF SnapTypes
<1>5. ASSUME NEW p \in Processes, ReadAccounts(p) PROVE Fields
  BY <1>1, <1>4, <1>5 DEF ReadAccounts, SnapTypes, Snapshot
<1>6. ASSUME NEW v \in Validators, LoadInstitutions(v) PROVE Fields
  BY <1>1, <1>4, <1>6 DEF LoadInstitutions, SnapTypes, Snapshot
<1>7. ASSUME NEW v \in Validators, LoadCredentials(v) PROVE Fields
  BY <1>1, <1>4, <1>7 DEF LoadCredentials, SnapTypes, Snapshot
<1>8. ASSUME NEW v \in Validators, LoadLimits(v) PROVE Fields
  BY <1>1, <1>4, <1>8 DEF LoadLimits, SnapTypes, Snapshot
<1>9. ASSUME NEW v \in Validators, LoadBalances(v) PROVE Fields
  <2>1. v \in Processes
    BY DEF Processes
  <2>2. CASE q # v
    BY <1>1, <1>9, <2>1, <2>2, BalancesAreRead
  <2>3. CASE q = v
    <3> DEFINE read == [[snap[q] EXCEPT !.funds = funds] EXCEPT !.settled = settled]
    <3>1. /\ read.institution = snap[q].institution
          /\ read.credentials = snap[q].credentials
          /\ read.limits = snap[q].limits
      BY <1>4 DEF Snapshot
    <3>2. snap'[q] = read
      BY <1>1, <1>9, <2>1, <2>3, BalancesAreRead
    <3> HIDE DEF read
    <3> QED
      BY <3>1, <3>2
  <2> QED
    BY <2>2, <2>3
<1>10. ASSUME NEW p \in Processes, StartUp(p) \/ Crash(p) PROVE Fields
  BY <1>2, <1>3, <1>5, <1>10 DEF StartUp, Crash, Start, ReadInstitutions, SeedDatabase, UpgradeNext
<1>11. ASSUME NEW v \in Validators, Pass(v) \/ PassFails(v) PROVE Fields
  <2>1. v \in Processes
    BY DEF Processes
  <2> QED
    BY <1>2, <1>3, <1>6, <1>7, <1>8, <1>9, <1>11, <2>1
       DEF Pass, PassFails, TakeLock, NoPass, SaveSnapshot, SaveConflicts, EndPass
<1>12. ASSUME NEW r \in Requests, Handle(r) \/ HandlerStops(r) PROVE Fields
  BY <1>2, <1>12 DEF Handle, HandlerStops, Authorize, CheckInstitution, CreateInstitution,
                     SuspendInstitution, InsertCredential, UpsertLimit, AuditAndAnswer
<1>13. CASE UNCHANGED vars
  BY <1>2, <1>13 DEF vars
<1> QED
  BY <1>10, <1>11, <1>12, <1>13 DEF Next

\* Nothing has happened at the start.
LEMMA AuthInit == Init => AuthInv /\ HandlerInv
<1> SUFFICES ASSUME Init PROVE AuthInv /\ HandlerInv
  OBVIOUS
<1>1. SnapOK(audit, institution, EmptySnap)
  BY EmptyIsOK
<1>2. \A p \in Processes : snap[p] = EmptySnap
  BY DEF Init
<1>3. institution = EmptySnap.institution /\ credentials = {} /\ limits = EmptySnap.limits
  BY DEF Init
<1>4. EmptySnap.credentials = {}
  BY DEF EmptySnap
<1>5. AuthInv
  BY <1>1, <1>2, <1>3, <1>4 DEF AuthInv, SnapOK
<1>6. \A r \in Requests : handler[r] \notin InProgress /\ handler[r] \notin Written
                          /\ handler[r] \notin {"checked", "done"}
  BY DEF Init, InProgress, Written
<1>7. HandlerInv
  BY <1>6 DEF HandlerInv
<1> QED
  BY <1>5, <1>7

\* A handler that writes was allowed to.
LEMMA Licence ==
  ASSUME HandlerInv, NEW r \in Requests, handler[r] \in InProgress
  PROVE  r \in AllowedIn(audit, Request[r].kind, Request[r].institution)
  BY DEF HandlerInv, AllowedIn

\* Writing back what was allowed, or what an administrator asks for, leaves rows
\* that were allowed.
LEMMA RowsStep ==
  ASSUME TypeOK, AuthInv, HandlerInv, [Next]_vars
  PROVE  RowsOK(audit', institution')
<1>1. TableTypes /\ ControlTypes /\ SnapTypes
  BY TypeParts
<1>2. audit \subseteq audit'
  BY AuditGrows
<1>3. \A s : RowsOK(audit, s) => RowsOK(audit', s)
  BY <1>2, MoreAllowed DEF RowsOK
<1>4. RowsOK(audit', institution)
  BY <1>3 DEF AuthInv
<1>5. ASSUME NEW new, RowsOK(audit', new), institution' = Upserted(new, institution)
      PROVE  RowsOK(audit', institution')
  BY <1>4, <1>5 DEF RowsOK, Upserted
<1>6. ASSUME NEW i \in Institutions, NEW row, RowOK(audit', row, i),
             institution' = [institution EXCEPT ![i] = row]
      PROVE  RowsOK(audit', institution')
  <2>1. institution'[i] = row /\ \A j \in Institutions \ {i} : institution'[j] = institution[j]
    BY <1>1, <1>6 DEF TableTypes, Rows
  <2> QED
    BY <1>4, <1>6, <2>1 DEF RowsOK
<1>7. CASE UNCHANGED <<origin, tables>>
  BY <1>4, <1>7 DEF tables
<1>8. ASSUME NEW p \in Processes, SeedDatabase(p) PROVE RowsOK(audit', institution')
  BY <1>4, <1>5, <1>8, SandboxIsOK DEF SeedDatabase
<1>9. ASSUME NEW p \in Processes, UpgradeNext(p) PROVE RowsOK(audit', institution')
  <2>1. todo[p] \subseteq Seeds /\ Seeds \subseteq Institutions
    BY <1>1, InstitutionAssumption DEF ControlTypes
  <2>2. \/ institution' = institution
        \/ \E i \in todo[p] : institution' = [institution EXCEPT ![i] = SeedRow(i)]
    BY <1>9 DEF UpgradeNext
  <2> QED
    BY <1>4, <1>6, <2>1, <2>2, SandboxIsOK
<1>10. ASSUME NEW v \in Validators, SaveSnapshot(v) PROVE RowsOK(audit', institution')
  <2>1. RowsOK(audit, snap[v].institution)
    BY DEF AuthInv, SnapOK, Processes
  <2>2. institution' = Upserted(snap[v].institution, institution)
    BY <1>10 DEF SaveSnapshot
  <2> QED
    BY <1>3, <1>5, <2>1, <2>2
<1>11. ASSUME NEW r \in Requests, CreateInstitution(r) PROVE RowsOK(audit', institution')
  <2> DEFINE row == [code |-> Request[r].code, status |-> "REQUESTED"]
             i   == Request[r].institution
  <2>1. CASE institution' = institution
    BY <1>4, <2>1
  <2>2. i \in Institutions
    BY RequestAssumption
  <2>3. r \in AllowedIn(audit', "create", i)
    BY <1>2, <1>11, Licence, MoreAllowed DEF CreateInstitution, At, InProgress
  <2>4. RowOK(audit', row, i)
    BY <2>3 DEF RowOK
  <2>5. institution' = institution \/ institution' = [institution EXCEPT ![i] = row]
    BY <1>11 DEF CreateInstitution
  <2> HIDE DEF row, i
  <2> QED
    BY <1>6, <2>1, <2>2, <2>4, <2>5
<1>12. ASSUME NEW r \in Requests, SuspendInstitution(r) PROVE RowsOK(audit', institution')
  <2> DEFINE i == Request[r].institution
  <2>1. CASE institution' = institution
    BY <1>4, <2>1
  <2>2. i \in Institutions
    BY RequestAssumption
  <2>3. r \in AllowedIn(audit', "suspend", i)
    BY <1>2, <1>12, Licence, MoreAllowed DEF SuspendInstitution, At, InProgress
  <2>4. institution[i] # NoRow => RowOK(audit', institution[i], i)
    BY <1>4, <2>2 DEF RowsOK
  <2>5. institution[i] # NoRow => RowOK(audit', Suspended(institution[i]), i)
    BY <2>3, <2>4 DEF RowOK, Suspended
  <2>6. \/ institution' = institution
        \/ /\ institution[i] # NoRow
           /\ institution' = [institution EXCEPT ![i] = Suspended(institution[i])]
    BY <1>12 DEF SuspendInstitution
  <2> HIDE DEF i
  <2> QED
    BY <1>6, <2>1, <2>2, <2>5, <2>6
<1>13. ASSUME NEW r \in Requests, InsertCredential(r) \/ UpsertLimit(r)
       PROVE  RowsOK(audit', institution')
  BY <1>4, <1>13 DEF InsertCredential, UpsertLimit
<1> QED
  BY <1>7, <1>8, <1>9, <1>10, <1>11, <1>12, <1>13, WritingSteps

\* The same for the credentials and the limits, which need their institution as well.
LEMMA AttachedStep ==
  ASSUME TypeOK, AuthInv, HandlerInv, [Next]_vars
  PROVE  /\ CredentialsOK(audit', institution', credentials')
         /\ LimitsOK(audit', institution', limits')
<1> DEFINE Attached == /\ CredentialsOK(audit', institution', credentials')
                       /\ LimitsOK(audit', institution', limits')
<1>1. TableTypes /\ ControlTypes /\ SnapTypes
  BY TypeParts
<1>2. audit \subseteq audit' /\ Kept
  BY AuditGrows, NothingIsDeleted
<1>3. \A i \in Institutions : institution[i] # NoRow => institution'[i] # NoRow
  BY <1>2 DEF Kept
<1>0. /\ \A creds \in SUBSET (Institutions \X Fingerprints) :
            CredentialsOK(audit, institution, creds) => CredentialsOK(audit', institution', creds)
      /\ \A lims : LimitsOK(audit, institution, lims) => LimitsOK(audit', institution', lims)
  BY <1>2, <1>3, Carried
<1>4. CredentialsOK(audit', institution', credentials) /\ LimitsOK(audit', institution', limits)
  BY <1>0, <1>1 DEF AuthInv, TableTypes
<1>5. CASE UNCHANGED <<credentials, limits>>
  BY <1>4, <1>5
<1>6. ASSUME NEW v \in Validators, SaveSnapshot(v) PROVE Attached
  <2>1. v \in Processes /\ snap[v] \in Snapshot
    BY <1>1 DEF SnapTypes, Processes
  <2>2. snap[v].credentials \in SUBSET (Institutions \X Fingerprints)
    BY <2>1 DEF Snapshot
  <2>3. /\ CredentialsOK(audit, institution, snap[v].credentials)
        /\ LimitsOK(audit, institution, snap[v].limits)
    BY <2>1 DEF AuthInv, SnapOK
  <2>4. /\ CredentialsOK(audit', institution', snap[v].credentials)
        /\ LimitsOK(audit', institution', snap[v].limits)
    BY <1>0, <2>2, <2>3
  <2>5. credentials' = credentials \cup snap[v].credentials
    BY <1>6 DEF SaveSnapshot
  <2>6. CredentialsOK(audit', institution', credentials')
    BY <1>4, <2>4, <2>5 DEF CredentialsOK
  <2>7. \A i \in Institutions :
          limits'[i] = IF snap[v].limits[i] # NoRow THEN snap[v].limits[i] ELSE limits[i]
    BY <1>6 DEF SaveSnapshot, SavedLimits
  <2>8. LimitsOK(audit', institution', limits')
    BY <1>4, <2>4, <2>7 DEF LimitsOK
  <2> QED
    BY <2>6, <2>8
<1>7. ASSUME NEW r \in Requests, InsertCredential(r) PROVE Attached
  <2> DEFINE c == <<Request[r].institution, Request[r].fingerprint>>
  <2>1. credentials' = credentials \/ credentials' = credentials \cup {c}
    BY <1>7 DEF InsertCredential, CredentialInserted
  <2>2. limits' = limits /\ handler[r] = "checked" /\ Request[r].kind = "credential"
    BY <1>7 DEF InsertCredential, At
  <2>3. Request[r].institution \in Institutions
    BY RequestAssumption
  <2>4. institution'[Request[r].institution] # NoRow
    BY <1>3, <2>2, <2>3 DEF HandlerInv
  <2>5. r \in AllowedIn(audit', "credential", Request[r].institution)
    BY <1>2, <2>2, Licence, MoreAllowed DEF InProgress
  <2>6. CredentialsOK(audit', institution', {c})
    BY <2>4, <2>5 DEF CredentialsOK
  <2> HIDE DEF c
  <2>7. CredentialsOK(audit', institution', credentials')
    BY <1>4, <2>1, <2>6 DEF CredentialsOK
  <2> QED
    BY <1>4, <2>2, <2>7
<1>8. ASSUME NEW r \in Requests, UpsertLimit(r) PROVE Attached
  <2> DEFINE i == Request[r].institution
  <2>1. /\ limits' = [limits EXCEPT ![i] = Request[r].limit] /\ credentials' = credentials
        /\ handler[r] = "checked" /\ Request[r].kind = "limit"
    BY <1>8 DEF UpsertLimit, LimitUpserted, At
  <2>2. i \in Institutions
    BY RequestAssumption
  <2>3. institution'[i] # NoRow
    BY <1>3, <2>1, <2>2 DEF HandlerInv
  <2>4. r \in AllowedIn(audit', "limit", i)
    BY <1>2, <2>1, Licence, MoreAllowed DEF InProgress
  <2>5. LimitOK(audit', institution', Request[r].limit, i)
    BY <2>3, <2>4 DEF LimitOK
  <2> HIDE DEF i
  <2>6. limits'[i] = Request[r].limit /\ \A j \in Institutions \ {i} : limits'[j] = limits[j]
    BY <1>1, <2>1, <2>2 DEF TableTypes
  <2>7. LimitsOK(audit', institution', limits')
    BY <1>4, <2>5, <2>6 DEF LimitsOK
  <2> QED
    BY <1>4, <2>1, <2>7
<1>9. ASSUME NEW p \in Processes, SeedDatabase(p) \/ UpgradeNext(p) PROVE Attached
  BY <1>5, <1>9 DEF SeedDatabase, UpgradeNext
<1>10. ASSUME NEW r \in Requests, CreateInstitution(r) \/ SuspendInstitution(r) PROVE Attached
  BY <1>5, <1>10 DEF CreateInstitution, SuspendInstitution
<1>11. CASE UNCHANGED <<origin, tables>>
  BY <1>5, <1>11 DEF tables
<1> QED
  BY <1>6, <1>7, <1>8, <1>9, <1>10, <1>11, WritingSteps

\* What the processes have read stays in order, whoever writes meanwhile.
LEMMA SnapsStep ==
  ASSUME TypeOK, AuthInv, [Next]_vars
  PROVE  \A p \in Processes : SnapOK(audit', institution', snap'[p])
<1> SUFFICES ASSUME NEW p \in Processes PROVE SnapOK(audit', institution', snap'[p])
  OBVIOUS
<1>1. TableTypes /\ SnapTypes /\ snap[p] \in Snapshot
  BY TypeParts DEF SnapTypes
<1>2. audit \subseteq audit' /\ Kept
  BY AuditGrows, NothingIsDeleted
<1>3. \A i \in Institutions : institution[i] # NoRow => institution'[i] # NoRow
  BY <1>2 DEF Kept
<1>4. snap[p].credentials \in SUBSET (Institutions \X Fingerprints)
  BY <1>1 DEF Snapshot
<1>5. credentials \in SUBSET (Institutions \X Fingerprints)
  BY <1>1 DEF TableTypes
<1>6. RowsOK(audit', institution) /\ RowsOK(audit', snap[p].institution)
  <2>1. \A rows : RowsOK(audit, rows) => RowsOK(audit', rows)
    BY <1>2, MoreAllowed DEF RowsOK
  <2> QED
    BY <2>1 DEF AuthInv, SnapOK
<1>7. /\ CredentialsOK(audit', institution', credentials)
      /\ CredentialsOK(audit', institution', snap[p].credentials)
  <2>1. \A creds \in SUBSET (Institutions \X Fingerprints) :
          CredentialsOK(audit, institution, creds) => CredentialsOK(audit', institution', creds)
    BY <1>2, <1>3, Carried
  <2> QED
    BY <1>4, <1>5, <2>1 DEF AuthInv, SnapOK
<1>8. LimitsOK(audit', institution', limits) /\ LimitsOK(audit', institution', snap[p].limits)
  <2>1. \A lims : LimitsOK(audit, institution, lims) => LimitsOK(audit', institution', lims)
    BY <1>2, <1>3, Carried
  <2> QED
    BY <2>1 DEF AuthInv, SnapOK
<1>9. CASE snap'[p] = EmptySnap
  BY <1>9, EmptyIsOK
<1>10. CASE /\ snap'[p].institution \in {snap[p].institution, institution}
            /\ snap'[p].credentials \in {snap[p].credentials, credentials}
            /\ snap'[p].limits \in {snap[p].limits, limits}
  BY <1>6, <1>7, <1>8, <1>10 DEF SnapOK
<1> QED
  BY <1>9, <1>10, SnapFields

\* Authorization, check, write and event come one after the other, and what a
\* handler has left behind stays.
LEMMA HandlerStep ==
  ASSUME TypeOK, HandlerInv, [Next]_vars
  PROVE  HandlerInv'
<1>1. TableTypes /\ ControlTypes
  BY TypeParts
<1>2. audit \subseteq audit' /\ Kept
  BY AuditGrows, NothingIsDeleted
<1>3. \A r \in Requests : Request[r].institution \in Institutions
  BY RequestAssumption
<1>4. ASSUME \A r \in Requests : handler'[r] \in {handler[r], "refused", "stopped", "new"}
      PROVE  HandlerInv'
  <2>1. \A r \in Requests : \A S \in {InProgress \cup {"done"}, {"checked"} \cup Written, Written, {"done"}} :
          handler'[r] \in S => handler[r] \in S
    BY <1>4 DEF InProgress, Written
  <2>2. \A r \in Requests : handler'[r] \in InProgress \cup {"done"} =>
          <<"ALLOWED", r>> \in audit' /\ Request[r].admin
    BY <1>2, <2>1 DEF HandlerInv
  <2>3. \A r \in Requests : handler'[r] \in {"checked"} \cup Written =>
          institution'[Request[r].institution] # NoRow
    BY <1>2, <1>3, <2>1 DEF HandlerInv, Kept
  <2>4. \A r \in Requests : handler'[r] = "done" => <<"RECORDED", r>> \in audit'
    BY <1>2, <1>4 DEF HandlerInv
  <2>5. \A r \in Requests : handler'[r] \in Written =>
          /\ Request[r].kind = "credential" =>
               <<Request[r].institution, Request[r].fingerprint>> \in credentials'
          /\ Request[r].kind = "limit" => limits'[Request[r].institution] # NoRow
    BY <1>2, <1>3, <2>1 DEF HandlerInv, Kept
  <2>6. \A r, q \in Requests :
          /\ handler'[r] \in Written /\ handler'[q] \in Written
          /\ Request[r].kind = "credential" /\ Request[q].kind = "credential"
          /\ Request[r].institution = Request[q].institution
          /\ Request[r].fingerprint = Request[q].fingerprint
          => r = q
    BY <2>1 DEF HandlerInv
  <2> QED
    BY <2>2, <2>3, <2>4, <2>5, <2>6 DEF HandlerInv
<1>5. ASSUME NEW r \in Requests, NEW step \in InProgress \cup {"done"},
             handler' = [handler EXCEPT ![r] = step],
             <<"ALLOWED", r>> \in audit' /\ Request[r].admin,
             step # "allowed" => institution'[Request[r].institution] # NoRow,
             step = "done" => handler[r] = "written" /\ <<"RECORDED", r>> \in audit',
             step = "written" =>
               /\ Request[r].kind = "credential" =>
                    /\ <<Request[r].institution, Request[r].fingerprint>> \in credentials'
                    /\ <<Request[r].institution, Request[r].fingerprint>> \notin credentials
               /\ Request[r].kind = "limit" => limits'[Request[r].institution] # NoRow
      PROVE  HandlerInv'
  <2>1. handler'[r] = step /\ \A q \in Requests \ {r} : handler'[q] = handler[q]
    BY <1>1, <1>5 DEF ControlTypes
  <2>2. \A q \in Requests : handler'[q] \in InProgress \cup {"done"} =>
          <<"ALLOWED", q>> \in audit' /\ Request[q].admin
    BY <1>2, <1>5, <2>1 DEF HandlerInv
  <2>3. \A q \in Requests : handler'[q] \in {"checked"} \cup Written =>
          institution'[Request[q].institution] # NoRow
    BY <1>2, <1>3, <1>5, <2>1 DEF HandlerInv, Kept, Written
  <2>4. \A q \in Requests : handler'[q] = "done" => <<"RECORDED", q>> \in audit'
    BY <1>2, <1>5, <2>1 DEF HandlerInv
  <2>5. \A q \in Requests : handler'[q] \in Written =>
          /\ Request[q].kind = "credential" =>
               <<Request[q].institution, Request[q].fingerprint>> \in credentials'
          /\ Request[q].kind = "limit" => limits'[Request[q].institution] # NoRow
    <3>1. \A q \in Requests : handler[q] \in Written =>
            /\ Request[q].kind = "credential" =>
                 <<Request[q].institution, Request[q].fingerprint>> \in credentials'
            /\ Request[q].kind = "limit" => limits'[Request[q].institution] # NoRow
      BY <1>2, <1>3 DEF HandlerInv, Kept
    <3>2. CASE step \in Written /\ step # "written"
      BY <1>5, <2>1, <3>1, <3>2 DEF Written
    <3>3. CASE step = "written"
      BY <1>5, <2>1, <3>1, <3>3
    <3>4. CASE step \notin Written
      BY <2>1, <3>1, <3>4
    <3> QED
      BY <3>2, <3>3, <3>4
  <2>6. \A q, o \in Requests :
          /\ handler'[q] \in Written /\ handler'[o] \in Written
          /\ Request[q].kind = "credential" /\ Request[o].kind = "credential"
          /\ Request[q].institution = Request[o].institution
          /\ Request[q].fingerprint = Request[o].fingerprint
          => q = o
    <3>1. CASE step \notin Written \/ handler[r] \in Written
      <4>1. \A q \in Requests : handler'[q] \in Written => handler[q] \in Written
        BY <2>1, <3>1
      <4> QED
        BY <4>1 DEF HandlerInv
    <3>2. CASE step = "written"
      <4>1. Request[r].kind = "credential" =>
              \A q \in Requests \ {r} :
                 /\ handler'[q] \in Written /\ Request[q].kind = "credential"
                 /\ Request[q].institution = Request[r].institution
                 => Request[q].fingerprint # Request[r].fingerprint
        BY <1>5, <2>1, <3>2 DEF HandlerInv
      <4>2. \A q \in Requests \ {r} : handler'[q] \in Written => handler[q] \in Written
        BY <2>1
      <4> QED
        BY <4>1, <4>2 DEF HandlerInv
    <3>3. step = "written" \/ step \notin Written \/ handler[r] \in Written
      BY <1>5 DEF Written
    <3> QED
      BY <3>1, <3>2, <3>3
  <2> QED
    BY <2>2, <2>3, <2>4, <2>5, <2>6 DEF HandlerInv
<1>6. CASE UNCHANGED handler
  BY <1>4, <1>6
<1>7. ASSUME NEW r \in Requests, NEW step \in {"refused", "stopped"},
             handler' = [handler EXCEPT ![r] = step]
      PROVE  HandlerInv'
  <2>1. \A q \in Requests : handler'[q] \in {handler[q], "refused", "stopped", "new"}
    BY <1>1, <1>7 DEF ControlTypes
  <2> QED
    BY <1>4, <2>1
<1>8. ASSUME NEW p \in Processes, StartUp(p) PROVE HandlerInv'
  BY <1>6, <1>8 DEF StartUp, Start, ReadAccounts, ReadInstitutions, SeedDatabase, UpgradeNext
<1>9. ASSUME NEW p \in Processes, Crash(p) PROVE HandlerInv'
  <2>1. \A q \in Requests : handler'[q] \in {handler[q], "refused", "stopped", "new"}
    BY <1>9 DEF Crash
  <2> QED
    BY <1>4, <2>1
<1>10. ASSUME NEW v \in Validators, Pass(v) \/ PassFails(v) PROVE HandlerInv'
  BY <1>6, <1>10 DEF Pass, PassFails, TakeLock, NoPass, LoadInstitutions, LoadCredentials,
                     LoadLimits, LoadBalances, SaveSnapshot, SaveConflicts, EndPass
<1>11. ASSUME NEW r \in Requests, handler[r] \in InProgress
       PROVE  <<"ALLOWED", r>> \in audit' /\ Request[r].admin
  BY <1>2, <1>11 DEF HandlerInv
<1>12. ASSUME NEW r \in Requests, Authorize(r) PROVE HandlerInv'
  <2>1. CASE handler' = [handler EXCEPT ![r] = "refused"]
    BY <1>7, <2>1
  <2>2. CASE /\ handler' = [handler EXCEPT ![r] = "allowed"]
             /\ Administrator(r) /\ audit' = audit \cup {<<"ALLOWED", r>>}
    <3>1. <<"ALLOWED", r>> \in audit' /\ Request[r].admin
      BY <2>2 DEF Administrator
    <3>2. "allowed" \in InProgress \cup {"done"} /\ "allowed" # "done" /\ "allowed" # "written"
      BY DEF InProgress
    <3> QED
      BY <1>5, <2>2, <3>1, <3>2
  <2> QED
    BY <1>12, <2>1, <2>2 DEF Authorize, Advance, Record
<1>13. ASSUME NEW r \in Requests, CheckInstitution(r) PROVE HandlerInv'
  <2>1. handler[r] \in InProgress /\ UNCHANGED institution
    BY <1>13 DEF CheckInstitution, At, InProgress, tables
  <2>2. CASE handler' = [handler EXCEPT ![r] = "refused"]
    BY <1>7, <2>2
  <2>3. CASE /\ handler' = [handler EXCEPT ![r] = "checked"]
             /\ institution[Request[r].institution] # NoRow
    <3>1. "checked" \in InProgress \cup {"done"} /\ "checked" # "done" /\ "checked" # "written"
      BY DEF InProgress
    <3> QED
      BY <1>5, <1>11, <2>1, <2>3, <3>1
  <2> QED
    BY <1>13, <2>2, <2>3 DEF CheckInstitution, Advance
<1>14. ASSUME NEW r \in Requests,
              \/ CreateInstitution(r) \/ SuspendInstitution(r)
              \/ InsertCredential(r) \/ UpsertLimit(r)
       PROVE  HandlerInv'
  <2>1. handler[r] \in InProgress
    BY <1>14 DEF CreateInstitution, SuspendInstitution, InsertCredential, UpsertLimit, At, InProgress
  <2>2. CASE handler' = [handler EXCEPT ![r] = "refused"]
    BY <1>7, <2>2
  <2>3. "written" \in InProgress \cup {"done"} /\ "written" # "done" /\ "written" # "allowed"
    BY DEF InProgress
  <2>4. ASSUME handler' = [handler EXCEPT ![r] = "written"],
               institution'[Request[r].institution] # NoRow,
               Request[r].kind = "credential" =>
                 /\ <<Request[r].institution, Request[r].fingerprint>> \in credentials'
                 /\ <<Request[r].institution, Request[r].fingerprint>> \notin credentials,
               Request[r].kind = "limit" => limits'[Request[r].institution] # NoRow
        PROVE  HandlerInv'
    BY <1>5, <1>11, <2>1, <2>3, <2>4
  <2>5. CASE CreateInstitution(r)
    <3>1. CASE handler' = [handler EXCEPT ![r] = "written"]
               /\ institution' = [institution EXCEPT ![Request[r].institution] =
                                    [code |-> Request[r].code, status |-> "REQUESTED"]]
      <4>1. [code |-> Request[r].code, status |-> "REQUESTED"] # NoRow
        BY RequestAssumption, NoRowAssumption DEF Row
      <4>2. institution'[Request[r].institution] # NoRow
        BY <1>1, <1>3, <3>1, <4>1 DEF TableTypes, Rows
      <4> QED
        BY <2>4, <2>5, <3>1, <4>2 DEF CreateInstitution
    <3> QED
      BY <2>2, <2>5, <3>1 DEF CreateInstitution, Advance
  <2>6. CASE SuspendInstitution(r)
    <3>1. CASE handler' = [handler EXCEPT ![r] = "written"] /\ institution[Request[r].institution] # NoRow
      <4>1. institution'[Request[r].institution] # NoRow
        BY <1>2, <1>3, <3>1 DEF Kept
      <4> QED
        BY <2>4, <2>6, <3>1, <4>1 DEF SuspendInstitution
    <3> QED
      BY <2>2, <2>6, <3>1 DEF SuspendInstitution, Advance
  <2>7. CASE InsertCredential(r) \/ UpsertLimit(r)
    <3>1. handler[r] = "checked"
      BY <2>7 DEF InsertCredential, UpsertLimit, At
    <3>2. institution'[Request[r].institution] # NoRow
      BY <1>2, <1>3, <3>1 DEF HandlerInv, Kept
    <3>3. CASE InsertCredential(r)
      BY <2>2, <2>4, <3>2, <3>3 DEF InsertCredential, CredentialInserted, Advance
    <3>4. CASE UpsertLimit(r)
      <4>1. Request[r].limit # NoRow
        BY RequestAssumption, NoRowAssumption
      <4>2. limits'[Request[r].institution] # NoRow
        BY <1>1, <1>3, <3>4, <4>1 DEF UpsertLimit, LimitUpserted, TableTypes
      <4> QED
        BY <2>4, <3>2, <3>4, <4>2 DEF UpsertLimit, Advance
    <3> QED
      BY <2>7, <3>3, <3>4
  <2> QED
    BY <1>14, <2>5, <2>6, <2>7
<1>15. ASSUME NEW r \in Requests, AuditAndAnswer(r) PROVE HandlerInv'
  <2>1. /\ handler[r] = "written" /\ handler' = [handler EXCEPT ![r] = "done"]
        /\ audit' = audit \cup {<<"RECORDED", r>>} /\ UNCHANGED institution
    BY <1>15 DEF AuditAndAnswer, At, Advance, Record, tables
  <2>2. handler[r] \in InProgress /\ institution[Request[r].institution] # NoRow
    BY <2>1 DEF InProgress, Written, HandlerInv
  <2>3. "done" \in InProgress \cup {"done"} /\ "done" # "written" /\ "done" # "allowed"
    OBVIOUS
  <2> QED
    BY <1>5, <1>11, <2>1, <2>2, <2>3
<1>16. ASSUME NEW r \in Requests, HandlerStops(r) PROVE HandlerInv'
  BY <1>7, <1>16 DEF HandlerStops, Advance
<1>17. CASE UNCHANGED vars
  BY <1>6, <1>17 DEF vars
<1> QED
  BY <1>8, <1>9, <1>10, <1>12, <1>13, <1>14, <1>15, <1>16, <1>17 DEF Next, Handle

\* All of it is inductive.
LEMMA RegistryStep ==
  TypeOK /\ PassInv /\ AuthInv /\ HandlerInv /\ [Next]_vars =>
    TypeOK' /\ PassInv' /\ AuthInv' /\ HandlerInv'
<1> SUFFICES ASSUME TypeOK, PassInv, AuthInv, HandlerInv, [Next]_vars
             PROVE  TypeOK' /\ PassInv' /\ AuthInv' /\ HandlerInv'
  OBVIOUS
<1>1. TypeOK' /\ PassInv'
  BY TypeStep
<1>2. HandlerInv'
  BY HandlerStep
<1>3. RowsOK(audit', institution')
  BY RowsStep
<1>4. CredentialsOK(audit', institution', credentials') /\ LimitsOK(audit', institution', limits')
  BY AttachedStep
<1>5. \A p \in Processes : SnapOK(audit', institution', snap'[p])
  BY SnapsStep
<1>6. AuthInv'
  BY <1>3, <1>4, <1>5 DEF AuthInv
<1> QED
  BY <1>1, <1>2, <1>6

\* However long ago a pass has loaded the rows that it writes back, the tables only
\* hold what the sandbox or an allowed request of an administrator has put there.
THEOREM Authorized == Spec => []TablesAreAuthorized
<1>1. Init => TypeOK /\ PassInv /\ AuthInv /\ HandlerInv
  BY TypeInit, PassInit, AuthInit
<1>2. TypeOK /\ PassInv /\ AuthInv /\ HandlerInv /\ [Next]_vars =>
        (TypeOK /\ PassInv /\ AuthInv /\ HandlerInv)'
  BY RegistryStep
<1> QED
  BY <1>1, <1>2, AuthSuffices, PTL DEF Spec

\* What the administration has been told is done is recorded and still there.
THEOREM Backed == Spec => []AnswersAreBacked
<1>1. Init => TypeOK /\ PassInv /\ AuthInv /\ HandlerInv
  BY TypeInit, PassInit, AuthInit
<1>2. TypeOK /\ PassInv /\ AuthInv /\ HandlerInv /\ [Next]_vars =>
        (TypeOK /\ PassInv /\ AuthInv /\ HandlerInv)'
  BY RegistryStep
<1> QED
  BY <1>1, <1>2, HandlerSuffices, PTL DEF Spec

\* No step takes a row away: a save writes what it has loaded next to what has come
\* since.
THEOREM RowsStay == Spec => [][Kept]_vars
<1>1. TypeOK /\ [Next]_vars => [Kept]_vars
  BY NothingIsDeleted
<1> QED
  BY <1>1, TypeCorrect, PTL DEF Spec
=============================================================================
