----------------------------- MODULE Submission -----------------------------
(***************************************************************************)
(* Submission of payments to a ledger kept in Postgres, one autocommitted  *)
(* statement or database transaction at a time: KaniNode::submit_payment   *)
(* and hold_payment_for_review with the store's functions of the same      *)
(* names.  Many API processes run it at once, and clients repeat requests. *)
(*                                                                         *)
(* A request makes at most one row of the transactions table, which bears  *)
(* the request's name.  What validators and reviewers later do to a row    *)
(* does not change its reference, payload, account or nonce, and no row is *)
(* ever deleted.                                                           *)
(***************************************************************************)
EXTENDS Naturals, FiniteSets

CONSTANTS
  Requests,
  References, Ref, NoRef,
  Payloads, Body,
  Accounts, From,
  Screened,   \* payloads the compliance policy answers REVIEW for
  None

ASSUME RequestsAssumption == IsFiniteSet(Requests) /\ None \notin Requests
ASSUME RefAssumption == Ref \in [Requests -> References \cup {NoRef}]
ASSUME BodyAssumption == Body \in [Requests -> Payloads]
ASSUME FromAssumption == From \in [Payloads -> Accounts]

VARIABLES
  rows,    \* requests that have a row in transactions
  nonce,   \* nonce of a request's transaction, 0 before it is read
  cases,   \* rows that have a compliance case
  opened,  \* rows with a COMPLIANCE_CASE_OPENED audit event
  found,   \* the payment a request will be answered with
  pc

vars == <<rows, nonce, cases, opened, found, pc>>

Answers == {"paid", "conflict", "refused", "no case", "lost"}
Steps   == {"new", "lookup", "insert", "again", "case", "audit", "answer"}

Account(r)  == From[Body[r]]
Reviewed(r) == Body[r] \in Screened

Goto(r, step) == pc' = [pc EXCEPT ![r] = step]

\* MAX(nonce) + 1 over the rows of the account.
IsNextNonce(n, account) ==
  LET used == {nonce[s] : s \in {s \in rows : Account(s) = account}}
  IN  /\ \A m \in used : m < n
      /\ n = 1 \/ n - 1 \in used

\* next_nonce_for_account; without a client reference there is nothing to look up.
ReadNonce(r) ==
  /\ pc[r] = "new"
  /\ \E n \in 1..(Cardinality(Requests) + 1) :
       IsNextNonce(n, Account(r)) /\ nonce' = [nonce EXCEPT ![r] = n]
  /\ Goto(r, IF Ref[r] = NoRef THEN "insert" ELSE "lookup")
  /\ UNCHANGED <<rows, cases, opened, found>>

UnderRef(r) == {p \in rows : Ref[r] # NoRef /\ Ref[p] = Ref[r]}

\* Faulty variant: any retry is taken for a retry of the same payment.
AnyRetry(p, r) == TRUE

\* ensure_idempotent_retry: both fingerprints are there, and they cover kind,
\* accounts, asset and amount.
SamePayload(p, r) == Body[p] = Body[r]

\* Faulty variant: the payment that was found is dropped.
AnswerWithNothing(p, r) ==
  Goto(r, IF Reviewed(r) THEN "case" ELSE "answer") /\ UNCHANGED found

\* A payment is there under the reference: answer with it, for a payment under
\* review after its case was read; a different payload is a conflict.
AnswerWith(p, r) ==
  IF SamePayload(p, r)
    THEN /\ found' = [found EXCEPT ![r] = p]
         /\ Goto(r, IF Reviewed(r) THEN "case" ELSE "answer")
    ELSE Goto(r, "conflict") /\ UNCHANGED found

\* payment_by_client_reference_id
Lookup(r) ==
  /\ pc[r] = "lookup"
  /\ IF UnderRef(r) = {}
       THEN Goto(r, "insert") /\ UNCHANGED found
       ELSE \E p \in UnderRef(r) : AnswerWith(p, r)
  /\ UNCHANGED <<rows, nonce, cases, opened>>

\* Faulty variant: no unique index on client_reference_id.
RefAlwaysFree(r) == FALSE

\* The two unique indexes of transactions.
RefTaken(r)   == UnderRef(r) # {}

\* Faulty variant: no unique index on (from_account, nonce).
NonceAlwaysFree(r) == FALSE

NonceTaken(r) == \E p \in rows : Account(p) = Account(r) /\ nonce[p] = nonce[r]

\* Faulty variant: the payment is held, the case is left out.
NoCase(r) == cases

CasesWith(r) == IF Reviewed(r) THEN cases \cup {r} ELSE cases

\* INSERT INTO transactions ... ON CONFLICT (client_reference_id) DO NOTHING,
\* for a payment under review together with the INSERT of its case.
Insert(r) ==
  /\ pc[r] = "insert"
  /\ ~RefTaken(r) /\ ~NonceTaken(r)
  /\ rows' = rows \cup {r}
  /\ cases' = CasesWith(r)
  /\ found' = [found EXCEPT ![r] = r]
  /\ Goto(r, IF Reviewed(r) THEN "audit" ELSE "answer")
  /\ UNCHANGED <<nonce, opened>>

\* No row is inserted: the reference was taken after it was looked up.
InsertNothing(r) ==
  /\ pc[r] = "insert"
  /\ RefTaken(r)
  /\ Goto(r, "again")
  /\ UNCHANGED <<rows, nonce, cases, opened, found>>

\* The nonce was taken after it was read.  Postgres checks ON CONFLICT before it
\* inserts, but two statements that overlap may both pass that check, and then
\* the index on the nonce answers first: RefTaken does not prevent this.
InsertRefused(r) ==
  /\ pc[r] = "insert"
  /\ NonceTaken(r)
  /\ Goto(r, "refused")
  /\ UNCHANGED <<rows, nonce, cases, opened, found>>

\* The row that was in the way is looked up.  Should it not be there, submission
\* answers with a payment it has not stored, and review with a conflict.
LookupAgain(r) ==
  /\ pc[r] = "again"
  /\ IF UnderRef(r) # {}
       THEN \E p \in UnderRef(r) : AnswerWith(p, r)
       ELSE /\ found' = [found EXCEPT ![r] = r]
            /\ Goto(r, IF Reviewed(r) THEN "conflict" ELSE "answer")
  /\ UNCHANGED <<rows, nonce, cases, opened>>

\* compliance_case_by_payment_id
FindCase(r) ==
  /\ pc[r] = "case"
  /\ Goto(r, IF found[r] \in cases THEN "audit" ELSE "no case")
  /\ UNCHANGED <<rows, nonce, cases, opened, found>>

\* submit_validated_payment records COMPLIANCE_CASE_OPENED, for retries again.
AuditCase(r) ==
  /\ pc[r] = "audit"
  /\ opened' = opened \cup {found[r]}
  /\ Goto(r, "answer")
  /\ UNCHANGED <<rows, nonce, cases, found>>

Answer(r) ==
  /\ pc[r] = "answer"
  /\ Goto(r, "paid")
  /\ UNCHANGED <<rows, nonce, cases, opened, found>>

\* The API process dies, a statement fails or the client gives up.
Lose(r) ==
  /\ pc[r] \in Steps
  /\ Goto(r, "lost")
  /\ UNCHANGED <<rows, nonce, cases, opened, found>>

Init ==
  /\ rows = {}
  /\ nonce = [r \in Requests |-> 0]
  /\ cases = {}
  /\ opened = {}
  /\ found = [r \in Requests |-> None]
  /\ pc = [r \in Requests |-> "new"]

Step(r) ==
  \/ ReadNonce(r) \/ Lookup(r) \/ Insert(r) \/ InsertNothing(r) \/ InsertRefused(r)
  \/ LookupAgain(r) \/ FindCase(r) \/ AuditCase(r) \/ Answer(r) \/ Lose(r)

Next == \E r \in Requests : Step(r)

Spec == Init /\ [][Next]_vars
=============================================================================
