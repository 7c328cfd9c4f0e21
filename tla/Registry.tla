------------------------------ MODULE Registry ------------------------------
(***************************************************************************)
(* The institutions in Postgres: how the processes seed the database when  *)
(* they start, how the API's administration handlers change institutions,  *)
(* credentials and limits, and what the validators' passes, which save     *)
(* every row they have loaded, do to those changes.                        *)
(*                                                                         *)
(* Every SELECT and every write outside a transaction is a step of its     *)
(* own.  Of the ledger, which KaniSettlement models, a pass keeps here one *)
(* deposit of one unit: the funds in the sandbox accounts and the number   *)
(* of blocks.  The columns of an institution are its code, which is        *)
(* UNIQUE, and its status; a fingerprint is a value.                       *)
(***************************************************************************)
EXTENDS Integers, FiniteSets

CONSTANTS
  Institutions,   \* ids; ORDER BY id is their order as numbers
  Seeds,          \* the institutions of InMemoryLedger::sandbox
  Codes,
  SeedCode,       \* [Seeds -> Codes]
  Fingerprints,
  Limits,         \* pairs of a daily and a per-transaction limit
  Requests,       \* requests to the administration endpoints
  Request,        \* [Requests -> what they ask for, and whether an administrator asks]
  Api,            \* the API process
  Validators,     \* the validator processes
  Mode,           \* KANI_VALIDATOR_RUN_MODE of each
  LeaderAt,       \* [heights -> Validators]: the process of the leader
  Databases,      \* what the first process may find
  Deposits,       \* bound: deposits that are waiting to be settled
  MaxRequests,    \* bound: requests that are sent
  MaxFaults,      \* bound: crashes, failing statements
  NoRow, None

Kinds     == {"create", "credential", "suspend", "limit"}
Processes == Validators \cup {Api}
Row       == [code : Codes, status : {"REQUESTED", "APPROVED", "SUSPENDED"}]

ASSUME InstitutionAssumption ==
  /\ Institutions \subseteq Nat /\ IsFiniteSet(Institutions)
  /\ Seeds \subseteq Institutions /\ Seeds # {}
  /\ SeedCode \in [Seeds -> Codes]
  /\ \A i, j \in Seeds : SeedCode[i] = SeedCode[j] => i = j
ASSUME RequestAssumption ==
  Request \in [Requests -> [kind : Kinds, institution : Institutions, code : Codes,
                            fingerprint : Fingerprints, limit : Limits,
                            admin : BOOLEAN]]
ASSUME LimitAssumption == Limits \subseteq Nat \X Nat
ASSUME ModeAssumption ==
  Api \notin Validators /\ Mode \in [Validators -> {"forever", "once", "sweep"}]
ASSUME DatabaseAssumption == Databases \subseteq {"empty", "old"}
ASSUME BoundAssumption == Deposits \in Nat \ {0} /\ MaxRequests \in Nat /\ MaxFaults \in Nat
ASSUME LeaderAssumption == LeaderAt \in [1..Deposits -> Validators]
ASSUME NoRowAssumption == NoRow \notin Row /\ NoRow \notin Limits
ASSUME NoneAssumption == None \notin Processes

VARIABLES
  origin,       \* what the first process found: never changes
  accounts,     \* whether the sandbox accounts are there
  funds,        \* the sum of their balances
  settled,      \* the number of blocks, each with one deposit
  institution,  \* institutions
  credentials,  \* institution_credentials
  limits,       \* institution_limits
  audit,        \* audit_events of the administration endpoints
  lock,         \* the advisory lock of block production
  pc,           \* where each process is
  snap,         \* what it has read
  todo,         \* the institutions ensure_sandbox_seed has still to insert
  handler,      \* where the handler of each request is
  faults

tables == <<accounts, funds, settled, institution, credentials, limits>>
vars   == <<origin, tables, audit, lock, pc, snap, todo, handler, faults>>

-----------------------------------------------------------------------------
(* The tables.                                                             *)

Stored(rows) == {i \in Institutions : rows[i] # NoRow}

\* Faulty variant: the sandbox starts with institutions that are not approved yet.
SeedRowPending(i) == [code |-> SeedCode[i], status |-> "DUE_DILIGENCE"]

\* The institutions InMemoryLedger::sandbox knows.
SeedRow(i) == [code |-> SeedCode[i], status |-> "APPROVED"]
SandboxRows == [i \in Institutions |-> IF i \in Seeds THEN SeedRow(i) ELSE NoRow]

\* UNIQUE (institution_code): row i cannot take a code that another row has.
CodeIsFree(code, i, rows) == \A j \in Stored(rows) \ {i} : rows[j].code # code

\* INSERT ... ON CONFLICT (id) DO UPDATE for every row of new, in the order of
\* the ids.  Upserts tells whether all of them go through, Upserted what they
\* leave behind.
UpsertedBelow(i, new, rows) ==
  [j \in Institutions |-> IF j < i /\ new[j] # NoRow THEN new[j] ELSE rows[j]]
Upserts(new, rows) ==
  \A i \in Stored(new) : CodeIsFree(new[i].code, i, UpsertedBelow(i, new, rows))
Upserted(new, rows) == [i \in Institutions |-> IF new[i] # NoRow THEN new[i] ELSE rows[i]]

EmptySnap ==
  [accounts |-> FALSE, funds |-> 0, settled |-> 0,
   institution |-> [i \in Institutions |-> NoRow],
   credentials |-> {},
   limits |-> [i \in Institutions |-> NoRow]]

\* A new database, or one of the time before there were institutions.
Init ==
  /\ origin \in Databases
  /\ accounts = (origin = "old")
  /\ settled \in IF origin = "old" THEN 0..Deposits ELSE {0}
  /\ funds = settled
  /\ institution = EmptySnap.institution
  /\ credentials = {}
  /\ limits = EmptySnap.limits
  /\ audit = {}
  /\ lock = None
  /\ pc = [p \in Processes |-> "off"]
  /\ snap = [p \in Processes |-> EmptySnap]
  /\ todo = [p \in Processes |-> {}]
  /\ handler = [r \in Requests |-> "new"]
  /\ faults = 0

Goto(p, step) == pc' = [pc EXCEPT ![p] = step]

-----------------------------------------------------------------------------
(* Start-up: KaniNode::postgres and ValidatorRuntime::connect.             *)

\* The process starts, connects and runs the migrations.
Start(p) ==
  /\ pc[p] = "off"
  /\ Goto(p, "accounts")
  /\ UNCHANGED <<origin, tables, audit, lock, snap, todo, handler, faults>>

\* ensure_sandbox_seed loads a snapshot; of all it reads, it uses whether there
\* are accounts and whether there are institutions.
ReadAccounts(p) ==
  /\ pc[p] = "accounts"
  /\ snap' = [snap EXCEPT ![p].accounts = accounts]
  /\ Goto(p, "institutions")
  /\ UNCHANGED <<origin, tables, audit, lock, todo, handler, faults>>

\* Faulty variant: an empty table of accounts alone does not make a seed.
SeedWithoutAccounts(p) ==
  /\ pc[p] = "institutions"
  /\ IF Stored(institution) = {}
       THEN Goto(p, "upgrade") /\ todo' = [todo EXCEPT ![p] = Seeds]
       ELSE Goto(p, "up") /\ UNCHANGED todo
  /\ snap' = [snap EXCEPT ![p] = EmptySnap]
  /\ UNCHANGED <<origin, tables, audit, lock, handler, faults>>

ReadInstitutions(p) ==
  /\ pc[p] = "institutions"
  /\ \/ ~snap[p].accounts /\ Goto(p, "seed") /\ UNCHANGED todo
     \/ /\ snap[p].accounts /\ Stored(institution) = {}
        /\ Goto(p, "upgrade") /\ todo' = [todo EXCEPT ![p] = Seeds]
     \/ /\ snap[p].accounts /\ Stored(institution) # {}
        /\ Goto(p, "up") /\ UNCHANGED todo
  /\ snap' = [snap EXCEPT ![p] = EmptySnap]
  /\ UNCHANGED <<origin, tables, audit, lock, handler, faults>>

\* save_snapshot of the sandbox ledger, which has balance rows of zero, in one
\* transaction.  When it fails the process ends.
SeedDatabase(p) ==
  /\ pc[p] = "seed"
  /\ \/ /\ Upserts(SandboxRows, institution)
        /\ institution' = Upserted(SandboxRows, institution)
        /\ accounts' = TRUE
        /\ funds' = 0
        /\ Goto(p, "up")
     \/ /\ ~Upserts(SandboxRows, institution)
        /\ Goto(p, "off")
        /\ UNCHANGED <<institution, accounts, funds>>
  /\ UNCHANGED <<origin, settled, credentials, limits, audit, lock, snap, todo, handler, faults>>

\* upsert_institution for each institution of the sandbox, each on its own.
UpgradeNext(p) ==
  /\ pc[p] = "upgrade"
  /\ \/ \E i \in todo[p] :
          /\ \A j \in todo[p] : i <= j
          /\ CodeIsFree(SeedCode[i], i, institution)
          /\ institution' = [institution EXCEPT ![i] = SeedRow(i)]
          /\ todo' = [todo EXCEPT ![p] = @ \ {i}]
          /\ Goto(p, IF todo[p] = {i} THEN "up" ELSE "upgrade")
     \/ \E i \in todo[p] :
          /\ \A j \in todo[p] : i <= j
          /\ ~CodeIsFree(SeedCode[i], i, institution)
          /\ todo' = [todo EXCEPT ![p] = {}]
          /\ Goto(p, "off")
          /\ UNCHANGED institution
  /\ UNCHANGED <<origin, accounts, funds, settled, credentials, limits, audit, lock, snap, handler,
                 faults>>

-----------------------------------------------------------------------------
(* The passes of the validators.                                           *)

\* A deposit waits for the next block, and v leads it.
Leads(v) == settled < Deposits /\ LeaderAt[settled + 1] = v

\* run_once: the leader takes the advisory lock.  It looks at the height before and
\* again after it has the lock, and without a pending deposit goes no further.
TakeLock(v) ==
  /\ pc[v] = "up"
  /\ Leads(v)
  /\ lock = None
  /\ lock' = v
  /\ Goto(v, "load institutions")
  /\ UNCHANGED <<origin, tables, audit, snap, todo, handler, faults>>

\* Where a pass leaves a process: one that runs for ever polls again, one that
\* runs once ends, and one that sweeps connects for its next validator.
AfterPass(v) ==
  CASE Mode[v] = "forever" -> {"up"}
    [] Mode[v] = "once"    -> {"off"}
    [] Mode[v] = "sweep"   -> {"accounts", "off"}

\* Another validator leads, the lock is busy, or nothing is pending.
NoPass(v) ==
  /\ pc[v] = "up" /\ Mode[v] # "forever"
  /\ ~Leads(v) \/ lock # None
  /\ \E step \in AfterPass(v) : Goto(v, step)
  /\ UNCHANGED <<origin, tables, audit, lock, snap, todo, handler, faults>>

\* load_snapshot, one SELECT after the other.
LoadInstitutions(v) ==
  /\ pc[v] = "load institutions"
  /\ snap' = [snap EXCEPT ![v].institution = institution]
  /\ Goto(v, "load credentials")
  /\ UNCHANGED <<origin, tables, audit, lock, todo, handler, faults>>

LoadCredentials(v) ==
  /\ pc[v] = "load credentials"
  /\ snap' = [snap EXCEPT ![v].credentials = credentials]
  /\ Goto(v, "load limits")
  /\ UNCHANGED <<origin, tables, audit, lock, todo, handler, faults>>

LoadLimits(v) ==
  /\ pc[v] = "load limits"
  /\ snap' = [snap EXCEPT ![v].limits = limits]
  /\ Goto(v, "load balances")
  /\ UNCHANGED <<origin, tables, audit, lock, todo, handler, faults>>

LoadBalances(v) ==
  /\ pc[v] = "load balances"
  /\ snap' = [snap EXCEPT ![v].funds = funds, ![v].settled = settled]
  /\ Goto(v, "save")
  /\ UNCHANGED <<origin, tables, audit, lock, todo, handler, faults>>

\* ON CONFLICT (institution_id, asset) DO UPDATE for the limits that were loaded.
SavedLimits(new) == [i \in Institutions |-> IF new[i] # NoRow THEN new[i] ELSE limits[i]]

\* Faulty variant: the tables are replaced by what was loaded.
SaveReplaces(v) ==
  /\ pc[v] = "save"
  /\ institution' = snap[v].institution
  /\ credentials' = snap[v].credentials
  /\ limits' = snap[v].limits
  /\ funds' = snap[v].funds + 1
  /\ settled' = snap[v].settled + 1
  /\ snap' = [snap EXCEPT ![v] = EmptySnap]
  /\ Goto(v, "release")
  /\ UNCHANGED <<origin, accounts, audit, lock, todo, handler, faults>>

\* save_snapshot of the ledger with the deposit: every row that was loaded is
\* written back, credentials only if they are missing.
SaveSnapshot(v) ==
  /\ pc[v] = "save"
  /\ Upserts(snap[v].institution, institution)
  /\ institution' = Upserted(snap[v].institution, institution)
  /\ credentials' = credentials \cup snap[v].credentials
  /\ limits' = SavedLimits(snap[v].limits)
  /\ funds' = snap[v].funds + 1
  /\ settled' = snap[v].settled + 1
  /\ snap' = [snap EXCEPT ![v] = EmptySnap]
  /\ Goto(v, "release")
  /\ UNCHANGED <<origin, accounts, audit, lock, todo, handler, faults>>

\* Faulty variant: the save is tried again with the rows of the same load.
SaveAgain(v) ==
  /\ pc[v] = "save"
  /\ ~Upserts(snap[v].institution, institution)
  /\ UNCHANGED vars

\* The transaction is rolled back for a code that an administrator has given to
\* another institution since, and the pass fails.
SaveConflicts(v) ==
  /\ pc[v] = "save"
  /\ ~Upserts(snap[v].institution, institution)
  /\ snap' = [snap EXCEPT ![v] = EmptySnap]
  /\ Goto(v, "failed")
  /\ UNCHANGED <<origin, tables, audit, lock, todo, handler, faults>>

\* BlockProductionLock::release, and what main does with the result: an error ends
\* a process that does not run for ever.
EndPass(v) ==
  /\ pc[v] \in {"release", "failed"}
  /\ lock' = IF lock = v THEN None ELSE lock
  /\ \E step \in IF pc[v] = "failed" /\ Mode[v] # "forever" THEN {"off"} ELSE AfterPass(v) :
       Goto(v, step)
  /\ UNCHANGED <<origin, tables, audit, snap, todo, handler, faults>>

-----------------------------------------------------------------------------
(* The administration handlers of the API.                                 *)

At(r, step)      == pc[Api] = "up" /\ handler[r] = step
Advance(r, step) == handler' = [handler EXCEPT ![r] = step]

\* SetInstitutionLimitRequest::validate; a daily limit of zero is no limit.
Validates(r) ==
  Request[r].kind = "limit" =>
    Request[r].limit[2] <= Request[r].limit[1] \/ Request[r].limit[1] = 0

\* Faulty variant: the role is not looked at.
AnyRole(r) == TRUE

\* authorize_admin
Administrator(r) == Request[r].admin

\* audit_authorization_decision and record_audit_event: one more row.
Record(event, r) == audit' = audit \cup {<<event, r>>}

Sent == {r \in Requests : handler[r] # "new"}

\* validate, then authorize_admin_request with the event that records its decision.
Authorize(r) ==
  /\ At(r, "new") /\ Cardinality(Sent) < MaxRequests
  /\ \/ ~Validates(r) /\ Advance(r, "refused") /\ UNCHANGED audit
     \/ /\ Validates(r) /\ ~Administrator(r)
        /\ Record("DENIED", r)
        /\ Advance(r, "refused")
     \/ /\ Validates(r) /\ Administrator(r)
        /\ Record("ALLOWED", r)
        /\ Advance(r, "allowed")
  /\ UNCHANGED <<origin, tables, lock, pc, snap, todo, faults>>

\* get_institution, for the two requests whose rows refer to one.  For a credential
\* the handler and the node both call it; institutions are never deleted, so that
\* one look stands for both.
CheckInstitution(r) ==
  /\ At(r, "allowed") /\ Request[r].kind \in {"credential", "limit"}
  /\ Advance(r, IF institution[Request[r].institution] # NoRow THEN "checked" ELSE "refused")
  /\ UNCHANGED <<origin, tables, audit, lock, pc, snap, todo, faults>>

\* create_institution: a new row, or a new start for an existing one.
CreateInstitution(r) ==
  LET i == Request[r].institution IN
  /\ At(r, "allowed") /\ Request[r].kind = "create"
  /\ \/ /\ CodeIsFree(Request[r].code, i, institution)
        /\ institution' = [institution EXCEPT ![i] =
                             [code |-> Request[r].code, status |-> "REQUESTED"]]
        /\ Advance(r, "written")
     \/ /\ ~CodeIsFree(Request[r].code, i, institution)
        /\ Advance(r, "refused")
        /\ UNCHANGED institution
  /\ UNCHANGED <<origin, accounts, funds, settled, credentials, limits, audit, lock, pc, snap,
                 todo, faults>>

\* Institution::suspended
Suspended(row) == [code |-> row.code, status |-> "SUSPENDED"]

\* suspend_institution: UPDATE ... RETURNING, which may find no row.
SuspendInstitution(r) ==
  LET i == Request[r].institution IN
  /\ At(r, "allowed") /\ Request[r].kind = "suspend"
  /\ \/ /\ institution[i] # NoRow
        /\ institution' = [institution EXCEPT ![i] = Suspended(@)]
        /\ Advance(r, "written")
     \/ institution[i] = NoRow /\ Advance(r, "refused") /\ UNCHANGED institution
  /\ UNCHANGED <<origin, accounts, funds, settled, credentials, limits, audit, lock, pc, snap,
                 todo, faults>>

\* insert_institution_credential; UNIQUE (institution_id, credential_type,
\* fingerprint) refuses a second one.
CredentialInserted(c) == c \notin credentials /\ credentials' = credentials \cup {c}

\* create_institution_credential, after the check.
InsertCredential(r) ==
  LET c == <<Request[r].institution, Request[r].fingerprint>> IN
  /\ At(r, "checked") /\ Request[r].kind = "credential"
  /\ \/ CredentialInserted(c) /\ Advance(r, "written")
     \/ c \in credentials /\ Advance(r, "refused") /\ UNCHANGED credentials
  /\ UNCHANGED <<origin, accounts, funds, settled, institution, limits, audit, lock, pc, snap,
                 todo, faults>>

\* upsert_institution_limit
LimitUpserted(i, limit) == limits' = [limits EXCEPT ![i] = limit]

\* set_institution_limit, after the check.
UpsertLimit(r) ==
  /\ At(r, "checked") /\ Request[r].kind = "limit"
  /\ LimitUpserted(Request[r].institution, Request[r].limit)
  /\ Advance(r, "written")
  /\ UNCHANGED <<origin, accounts, funds, settled, institution, credentials, audit, lock, pc,
                 snap, todo, faults>>

\* audit_institution_event, then the answer.
AuditAndAnswer(r) ==
  /\ At(r, "written")
  /\ Record("RECORDED", r)
  /\ Advance(r, "done")
  /\ UNCHANGED <<origin, tables, lock, pc, snap, todo, faults>>

-----------------------------------------------------------------------------
(* Faults.                                                                 *)

InProgress == {"allowed", "checked", "written"}

\* A statement fails, or the client goes away: the handler stops where it is.
HandlerStops(r) ==
  /\ pc[Api] = "up" /\ handler[r] \in InProgress
  /\ faults < MaxFaults /\ faults' = faults + 1
  /\ Advance(r, "stopped")
  /\ UNCHANGED <<origin, tables, audit, lock, pc, snap, todo>>

\* A process ends: it crashes, or a statement fails while it starts.  Postgres
\* takes back its session's lock, and the handlers go with the API.
Crash(p) ==
  /\ pc[p] # "off"
  /\ faults < MaxFaults /\ faults' = faults + 1
  /\ Goto(p, "off")
  /\ lock' = IF lock = p THEN None ELSE lock
  /\ snap' = [snap EXCEPT ![p] = EmptySnap]
  /\ todo' = [todo EXCEPT ![p] = {}]
  /\ handler' = IF p # Api THEN handler
                ELSE [r \in Requests |-> IF handler[r] \in InProgress THEN "stopped"
                                         ELSE handler[r]]
  /\ UNCHANGED <<origin, tables, audit>>

\* A statement of a pass fails; run_forever logs it and polls again.
PassFails(v) ==
  /\ pc[v] \in {"load institutions", "load credentials", "load limits", "load balances", "save"}
  /\ faults < MaxFaults /\ faults' = faults + 1
  /\ snap' = [snap EXCEPT ![v] = EmptySnap]
  /\ Goto(v, "failed")
  /\ UNCHANGED <<origin, tables, audit, lock, todo, handler>>

-----------------------------------------------------------------------------

StartUp(p) ==
  \/ Start(p) \/ ReadAccounts(p) \/ ReadInstitutions(p) \/ SeedDatabase(p) \/ UpgradeNext(p)

Pass(v) ==
  \/ TakeLock(v) \/ NoPass(v) \/ LoadInstitutions(v) \/ LoadCredentials(v) \/ LoadLimits(v)
  \/ LoadBalances(v) \/ SaveSnapshot(v) \/ SaveConflicts(v) \/ EndPass(v)

Handle(r) ==
  \/ Authorize(r) \/ CheckInstitution(r) \/ CreateInstitution(r) \/ SuspendInstitution(r)
  \/ InsertCredential(r) \/ UpsertLimit(r) \/ AuditAndAnswer(r)

Next ==
  \/ \E p \in Processes : StartUp(p) \/ Crash(p)
  \/ \E v \in Validators : Pass(v) \/ PassFails(v)
  \/ \E r \in Requests : Handle(r) \/ HandlerStops(r)

Spec == Init /\ [][Next]_vars

\* Processes that end are started again, and validators go through their passes.
FairSpec ==
  /\ Spec
  /\ \A v \in Validators : WF_vars(StartUp(v)) /\ WF_vars(Pass(v))

-----------------------------------------------------------------------------
(* Properties.                                                             *)

Steps == {"off", "accounts", "institutions", "seed", "upgrade", "up", "load institutions",
          "load credentials", "load limits", "load balances", "save", "release", "failed"}

\* What a process may have read.
Snapshot == [accounts : BOOLEAN, funds : 0..Deposits, settled : 0..Deposits,
             institution : [Institutions -> Row \cup {NoRow}],
             credentials : SUBSET (Institutions \X Fingerprints),
             limits : [Institutions -> Limits \cup {NoRow}]]

\* Every table and every local keeps its type, and no more deposits are settled than
\* there are.
TypeOK ==
  /\ origin \in {"empty", "old"} /\ accounts \in BOOLEAN
  /\ funds \in 0..Deposits /\ settled \in 0..Deposits
  /\ institution \in [Institutions -> Row \cup {NoRow}]
  /\ credentials \subseteq Institutions \X Fingerprints
  /\ limits \in [Institutions -> Limits \cup {NoRow}]
  /\ audit \subseteq {"ALLOWED", "DENIED", "RECORDED"} \X Requests
  /\ lock \in Validators \cup {None}
  /\ pc \in [Processes -> Steps]
  /\ snap \in [Processes -> Snapshot]
  /\ todo \in [Processes -> SUBSET Seeds]
  /\ handler \in [Requests -> {"new", "refused", "stopped", "done"} \cup InProgress]
  /\ faults \in 0..MaxFaults

\* A process that gets past ensure_sandbox_seed finds the sandbox accounts and, in
\* a database that was empty, every sandbox institution, whichever processes start
\* and stop at the same time; and upgrading a database of the time before there
\* were institutions leaves the balances of its accounts alone
\* (PHASE3_INSTITUTION_MODEL.md, Storage).
SeedIsWhole ==
  /\ \A p \in Processes :
       pc[p] \notin {"off", "accounts", "institutions", "seed", "upgrade"} =>
         accounts /\ (origin = "empty" => Seeds \subseteq Stored(institution))
  /\ origin = "old" => accounts /\ funds = settled

Allowed(kind, i) ==
  {r \in Requests : /\ <<"ALLOWED", r>> \in audit /\ Request[r].admin
                    /\ Request[r].kind = kind /\ Request[r].institution = i}

\* Whatever the passes write back, no table ever holds what neither the sandbox nor
\* an administrator whose request was recorded as allowed has put there: no code or
\* status of an institution, no credential and no limit; and credentials and limits
\* belong to institutions that exist.
TablesAreAuthorized ==
  /\ \A i \in Stored(institution) :
       /\ \/ i \in Seeds /\ institution[i].code = SeedCode[i]
          \/ \E r \in Allowed("create", i) : Request[r].code = institution[i].code
       /\ institution[i].status = "APPROVED" => i \in Seeds
       /\ institution[i].status = "REQUESTED" => Allowed("create", i) # {}
       /\ institution[i].status = "SUSPENDED" => Allowed("suspend", i) # {}
  /\ \A c \in credentials :
       /\ institution[c[1]] # NoRow
       /\ \E r \in Allowed("credential", c[1]) : Request[r].fingerprint = c[2]
  /\ \A i \in Stored(limits) :
       /\ institution[i] # NoRow
       /\ \E r \in Allowed("limit", i) : Request[r].limit = limits[i]

\* PHASE3_INSTITUTION_MODEL.md "Credential creation, institution suspension, and
\* limit updates are audit logged as admin events": what a handler has answered is
\* in the audit log and still has its row, whatever a pass that had loaded the
\* tables before saves afterwards; and of two requests for the same credential only
\* one is answered.
AnswersAreBacked ==
  /\ \A r \in Requests : handler[r] = "done" =>
       /\ <<"ALLOWED", r>> \in audit /\ <<"RECORDED", r>> \in audit
       /\ institution[Request[r].institution] # NoRow
       /\ Request[r].kind = "credential" =>
            <<Request[r].institution, Request[r].fingerprint>> \in credentials
       /\ Request[r].kind = "limit" => limits[Request[r].institution] # NoRow
  /\ \A r, q \in Requests :
       /\ handler[r] = "done" /\ handler[q] = "done"
       /\ Request[r].kind = "credential" /\ Request[q].kind = "credential"
       /\ Request[r].institution = Request[q].institution
       /\ Request[r].fingerprint = Request[q].fingerprint
       => r = q

\* A pass that cannot save, for a code that has gone to another institution since
\* its load, fails; the next one loads again, so that all deposits are settled.
DepositsSettle == <>(settled = Deposits)

-----------------------------------------------------------------------------
(* What the documents say and the code does not do.                        *)

\* PHASE3_INSTITUTION_MODEL.md "Credential creation, institution suspension, and
\* limit updates are audit logged as admin events": the status of an institution and
\* its limit change by the statement of a request an administrator was allowed to
\* make, whose event follows, and by nothing else; in particular a suspension stays.
ByRequest(kinds, i) ==
  \E kind \in kinds : \E r \in Allowed(kind, i) :
    handler[r] # "written" /\ handler'[r] = "written"

RegistryChangesByRequest ==
  [][\A i \in Stored(institution) :
       /\ institution'[i].status # institution[i].status => ByRequest({"create", "suspend"}, i)
       /\ limits'[i] # limits[i] => ByRequest({"limit"}, i)]_vars

\* PHASE3_INSTITUTION_MODEL.md "Existing sandbox databases are upgraded by seeding
\* missing institution records without overwriting account balances", README "seeds
\* sandbox accounts when the database is empty": seeding leaves the accounts what the
\* finalized blocks have put there, and once a process has got past
\* ensure_sandbox_seed and none is upgrading any more, every institution is there.
SeedingCompletesAndKeeps ==
  /\ funds = settled
  /\ /\ \E p \in Processes :
          pc[p] \notin {"off", "accounts", "institutions", "seed", "upgrade"}
     /\ \A p \in Processes : pc[p] # "upgrade"
     => Seeds \subseteq Stored(institution)
=============================================================================
