--------------------------- MODULE SubmissionProofs ---------------------------
(***************************************************************************)
(* The promises of SubmissionProperties hold of submission for any number  *)
(* of requests, references, payloads and accounts.  IInv says what a       *)
(* request knows at each of its steps; since rows only grow, what it has   *)
(* read stays true whatever other requests do meanwhile.                   *)
(***************************************************************************)
EXTENDS SubmissionProperties, FiniteSetTheorems, TLAPS

\* A request has no row before its own INSERT.
BeforeInsert == {"new", "lookup", "insert", "again"}
NoRowYet == \A r \in Requests : pc[r] \in BeforeInsert => r \notin rows

\* The payment a request answers with is its own or one under its reference, and
\* has its payload.
FoundIsRight ==
  \A r \in Requests : pc[r] \in Knowing =>
    /\ found[r] \in rows
    /\ Body[found[r]] = Body[r]
    /\ \/ found[r] = r
       \/ Ref[r] # NoRef /\ Ref[found[r]] = Ref[r]

\* The row that kept a request from inserting is still there.
ConflictStands == \A r \in Requests : pc[r] = "again" => UnderRef(r) # {}

\* A nonce that was read follows one that is stored.
NonceFollows ==
  \A r \in Requests : pc[r] \in {"lookup", "insert", "again"} =>
    nonce[r] # 0 /\ (nonce[r] # 1 =>
      \E s \in rows : Account(s) = Account(r) /\ nonce[s] = nonce[r] - 1)

\* Cases are read only for payments under review, and answers about them come
\* after the audit event.
ReviewSteps ==
  \A r \in Requests :
    /\ pc[r] = "case" => Reviewed(r)
    /\ pc[r] \in {"answer", "paid"} /\ Reviewed(r) => found[r] \in opened

CasesMatch == cases = {r \in rows : Reviewed(r)}

IInv ==
  /\ TypeOK
  /\ NoRowYet
  /\ FoundIsRight
  /\ ConflictStands
  /\ NonceFollows
  /\ NoncesAreDense
  /\ OnePaymentPerReference
  /\ ReviewSteps
  /\ CasesMatch

-----------------------------------------------------------------------------
\* Nothing is stored and nobody has begun.
LEMMA Start == Init => IInv
  BY RequestsAssumption DEF Init, IInv, TypeOK, NoRowYet, FoundIsRight, ConflictStands,
     NonceFollows, NoncesAreDense, OnePaymentPerReference, ReviewSteps, CasesMatch,
     Steps, Answers, Knowing, BeforeInsert

\* The nonce is new to r alone, and it follows the largest one stored.
LEMMA ReadNonceKeeps ==
  ASSUME IInv, NEW r \in Requests, ReadNonce(r) PROVE IInv'
  <1> USE DEF IInv, TypeOK, Goto, ReadNonce
  <1>a. PICK n \in 1..(Cardinality(Requests) + 1) :
          IsNextNonce(n, Account(r)) /\ nonce' = [nonce EXCEPT ![r] = n]
    OBVIOUS
  <1>b. n \in Nat /\ n # 0
    BY FS_CardinalityType, RequestsAssumption
  <1>c. r \notin rows  BY DEF NoRowYet, BeforeInsert
  <1>d. n # 1 => \E s \in rows : Account(s) = Account(r) /\ nonce[s] = n - 1
    BY <1>a DEF IsNextNonce
  <1>e. PICK step \in {"insert", "lookup"} : pc' = [pc EXCEPT ![r] = step]
    OBVIOUS
  <1> USE <1>a, <1>b, <1>c
  <1>1. TypeOK'
    <2>1. nonce' \in [Requests -> Nat]
      BY <1>b
    <2>2. pc' \in [Requests -> Steps \cup Answers] /\ pc'[r] \notin Knowing
      BY <1>e DEF Steps, Answers, Knowing
    <2>3. \A q \in Requests : pc'[q] \in Knowing => found[q] \in Requests
      BY <1>e, <2>2
    <2> HIDE DEF IInv, Goto
    <2> QED
      BY <2>1, <2>2, <2>3 DEF IInv
  <1>2. NoRowYet'  BY DEF NoRowYet, BeforeInsert
  <1>3. FoundIsRight'  BY DEF FoundIsRight, NoRowYet, BeforeInsert, Knowing
  <1>4. ConflictStands'  BY DEF ConflictStands, UnderRef
  <1>5. NonceFollows'  BY <1>d DEF NonceFollows, NoRowYet, BeforeInsert
  <1>6. NoncesAreDense'  BY DEF NoncesAreDense, NonceFollows, NoRowYet, BeforeInsert
  <1>7. OnePaymentPerReference'  BY DEF OnePaymentPerReference
  <1>8. ReviewSteps'  BY DEF ReviewSteps, Knowing
  <1>9. CasesMatch'  BY DEF CasesMatch
  <1> QED  BY <1>1, <1>2, <1>3, <1>4, <1>5, <1>6, <1>7, <1>8, <1>9

\* A payment that is there under the reference of r is the right answer for r.
LEMMA AnswerWithKeeps ==
  ASSUME IInv, NEW r \in Requests, NEW p \in UnderRef(r), pc[r] \in {"lookup", "again"},
         AnswerWith(p, r), UNCHANGED <<rows, nonce, cases, opened>>
  PROVE  IInv'
  <1> USE DEF IInv, TypeOK, Goto, AnswerWith, SamePayload, UnderRef
  <1>a. PICK step \in {"case", "answer", "conflict"} :
          /\ pc' = [pc EXCEPT ![r] = step]
          /\ step # "conflict" => found' = [found EXCEPT ![r] = p]
          /\ step = "conflict" => found' = found
    BY Zenon
  <1>1. TypeOK'
    <2>1. p \in Requests
      OBVIOUS
    <2>2. found' \in [Requests -> Requests \cup {None}]
      BY <1>a, <2>1
    <2>3. pc' \in [Requests -> Steps \cup Answers]
      BY <1>a DEF Steps, Answers
    <2>4. \A q \in Requests : pc'[q] \in Knowing => found'[q] \in Requests
      BY <1>a, <2>1 DEF Knowing
    <2> HIDE DEF AnswerWith, SamePayload, UnderRef, Goto
    <2> QED
      BY <2>2, <2>3, <2>4
  <1>2. NoRowYet'  BY DEF NoRowYet, BeforeInsert
  <1>3. FoundIsRight'  BY DEF FoundIsRight, NoRowYet, BeforeInsert, Knowing
  <1>4. ConflictStands'  BY DEF ConflictStands, UnderRef
  <1>5. NonceFollows'  BY DEF NonceFollows, NoRowYet, BeforeInsert
  <1>6. NoncesAreDense'  BY DEF NoncesAreDense, NonceFollows, NoRowYet, BeforeInsert
  <1>7. OnePaymentPerReference'  BY DEF OnePaymentPerReference
  <1>8. ReviewSteps'  BY DEF ReviewSteps, Knowing
  <1>9. CasesMatch'  BY DEF CasesMatch
  <1> QED  BY <1>1, <1>2, <1>3, <1>4, <1>5, <1>6, <1>7, <1>8, <1>9

\* Either there is no payment under the reference, or r answers with it.
LEMMA LookupKeeps ==
  ASSUME IInv, NEW r \in Requests, Lookup(r) PROVE IInv'
  <1> USE DEF Lookup
  <1>1. CASE UnderRef(r) # {}
    BY <1>1, AnswerWithKeeps
  <1>2. CASE UnderRef(r) = {}
    <2> USE <1>2 DEF IInv, TypeOK, Goto
    <2>1. TypeOK'  BY DEF Steps, Answers, Knowing
    <2>2. NoRowYet'  BY DEF NoRowYet, BeforeInsert
    <2>3. FoundIsRight'  BY DEF FoundIsRight, NoRowYet, BeforeInsert, Knowing
    <2>4. ConflictStands'  BY DEF ConflictStands, UnderRef
    <2>5. NonceFollows'  BY DEF NonceFollows, NoRowYet, BeforeInsert
    <2>6. NoncesAreDense'  BY DEF NoncesAreDense, NonceFollows, NoRowYet, BeforeInsert
    <2>7. OnePaymentPerReference'  BY DEF OnePaymentPerReference
    <2>8. ReviewSteps'  BY DEF ReviewSteps, Knowing
    <2>9. CasesMatch'  BY DEF CasesMatch
    <2> QED  BY <2>1, <2>2, <2>3, <2>4, <2>5, <2>6, <2>7, <2>8, <2>9
  <1> QED  BY <1>1, <1>2

\* The row that was in the way is still there.
LEMMA LookupAgainKeeps ==
  ASSUME IInv, NEW r \in Requests, LookupAgain(r) PROVE IInv'
  <1>1. UnderRef(r) # {}  BY DEF IInv, ConflictStands, LookupAgain
  <1> QED  BY <1>1, AnswerWithKeeps DEF LookupAgain

\* The unique indexes are what keeps references and nonces apart.
LEMMA InsertKeeps ==
  ASSUME IInv, NEW r \in Requests, Insert(r) PROVE IInv'
  <1> USE DEF IInv, TypeOK, Goto, Insert, CasesWith, RefTaken, NonceTaken, UnderRef
  <1>1. TypeOK'  BY DEF Steps, Answers, Knowing
  <1>2. NoRowYet'  BY DEF NoRowYet, BeforeInsert
  <1>3. FoundIsRight'  BY DEF FoundIsRight, NoRowYet, BeforeInsert, Knowing
  <1>4. ConflictStands'  BY DEF ConflictStands, UnderRef
  <1>5. NonceFollows'  BY DEF NonceFollows, NoRowYet, BeforeInsert
  <1>6. NoncesAreDense'  BY DEF NoncesAreDense, NonceFollows, NoRowYet, BeforeInsert
  <1>7. OnePaymentPerReference'  BY DEF OnePaymentPerReference
  <1>8. ReviewSteps'  BY DEF ReviewSteps, Knowing
  <1>9. CasesMatch'  BY DEF CasesMatch
  <1> QED  BY <1>1, <1>2, <1>3, <1>4, <1>5, <1>6, <1>7, <1>8, <1>9

\* The reference is taken by a row that stays.
LEMMA InsertNothingKeeps ==
  ASSUME IInv, NEW r \in Requests, InsertNothing(r) PROVE IInv'
  <1> USE DEF IInv, TypeOK, Goto, InsertNothing, RefTaken
  <1>1. TypeOK'  BY DEF Steps, Answers, Knowing
  <1>2. NoRowYet'  BY DEF NoRowYet, BeforeInsert
  <1>3. FoundIsRight'  BY DEF FoundIsRight, NoRowYet, BeforeInsert, Knowing
  <1>4. ConflictStands'  BY DEF ConflictStands, UnderRef
  <1>5. NonceFollows'  BY DEF NonceFollows, NoRowYet, BeforeInsert
  <1>6. NoncesAreDense'  BY DEF NoncesAreDense, NonceFollows, NoRowYet, BeforeInsert
  <1>7. OnePaymentPerReference'  BY DEF OnePaymentPerReference
  <1>8. ReviewSteps'  BY DEF ReviewSteps, Knowing
  <1>9. CasesMatch'  BY DEF CasesMatch
  <1> QED  BY <1>1, <1>2, <1>3, <1>4, <1>5, <1>6, <1>7, <1>8, <1>9

\* A refused request leaves nothing behind.
LEMMA InsertRefusedKeeps ==
  ASSUME IInv, NEW r \in Requests, InsertRefused(r) PROVE IInv'
  <1> USE DEF IInv, TypeOK, Goto, InsertRefused
  <1>1. TypeOK'  BY DEF Steps, Answers, Knowing
  <1>2. NoRowYet'  BY DEF NoRowYet, BeforeInsert
  <1>3. FoundIsRight'  BY DEF FoundIsRight, NoRowYet, BeforeInsert, Knowing
  <1>4. ConflictStands'  BY DEF ConflictStands, UnderRef
  <1>5. NonceFollows'  BY DEF NonceFollows, NoRowYet, BeforeInsert
  <1>6. NoncesAreDense'  BY DEF NoncesAreDense, NonceFollows, NoRowYet, BeforeInsert
  <1>7. OnePaymentPerReference'  BY DEF OnePaymentPerReference
  <1>8. ReviewSteps'  BY DEF ReviewSteps, Knowing
  <1>9. CasesMatch'  BY DEF CasesMatch
  <1> QED  BY <1>1, <1>2, <1>3, <1>4, <1>5, <1>6, <1>7, <1>8, <1>9

\* The case of a payment under review is there.
LEMMA FindCaseKeeps ==
  ASSUME IInv, NEW r \in Requests, FindCase(r) PROVE IInv'
  <1> USE DEF IInv, TypeOK, Goto, FindCase
  <1>1. TypeOK'  BY DEF Steps, Answers, Knowing
  <1>2. NoRowYet'  BY DEF NoRowYet, BeforeInsert
  <1>3. FoundIsRight'  BY DEF FoundIsRight, NoRowYet, BeforeInsert, Knowing
  <1>4. ConflictStands'  BY DEF ConflictStands, UnderRef
  <1>5. NonceFollows'  BY DEF NonceFollows, NoRowYet, BeforeInsert
  <1>6. NoncesAreDense'  BY DEF NoncesAreDense, NonceFollows, NoRowYet, BeforeInsert
  <1>7. OnePaymentPerReference'  BY DEF OnePaymentPerReference
  <1>8. ReviewSteps'  BY DEF ReviewSteps, FoundIsRight, Knowing, CasesMatch, Reviewed
  <1>9. CasesMatch'  BY DEF CasesMatch
  <1> QED  BY <1>1, <1>2, <1>3, <1>4, <1>5, <1>6, <1>7, <1>8, <1>9

\* The answer about a payment under review comes after its audit event.
LEMMA AuditCaseKeeps ==
  ASSUME IInv, NEW r \in Requests, AuditCase(r) PROVE IInv'
  <1> USE DEF IInv, TypeOK, Goto, AuditCase
  <1>1. TypeOK'  BY DEF Steps, Answers, Knowing
  <1>2. NoRowYet'  BY DEF NoRowYet, BeforeInsert
  <1>3. FoundIsRight'  BY DEF FoundIsRight, NoRowYet, BeforeInsert, Knowing
  <1>4. ConflictStands'  BY DEF ConflictStands, UnderRef
  <1>5. NonceFollows'  BY DEF NonceFollows, NoRowYet, BeforeInsert
  <1>6. NoncesAreDense'  BY DEF NoncesAreDense, NonceFollows, NoRowYet, BeforeInsert
  <1>7. OnePaymentPerReference'  BY DEF OnePaymentPerReference
  <1>8. ReviewSteps'  BY DEF ReviewSteps, Knowing
  <1>9. CasesMatch'  BY DEF CasesMatch
  <1> QED  BY <1>1, <1>2, <1>3, <1>4, <1>5, <1>6, <1>7, <1>8, <1>9

\* What r knew at its answer it knows after it.
LEMMA AnswerKeeps ==
  ASSUME IInv, NEW r \in Requests, Answer(r) PROVE IInv'
  <1> USE DEF IInv, TypeOK, Goto, Answer
  <1>1. TypeOK'  BY DEF Steps, Answers, Knowing
  <1>2. NoRowYet'  BY DEF NoRowYet, BeforeInsert
  <1>3. FoundIsRight'  BY DEF FoundIsRight, NoRowYet, BeforeInsert, Knowing
  <1>4. ConflictStands'  BY DEF ConflictStands, UnderRef
  <1>5. NonceFollows'  BY DEF NonceFollows, NoRowYet, BeforeInsert
  <1>6. NoncesAreDense'  BY DEF NoncesAreDense, NonceFollows, NoRowYet, BeforeInsert
  <1>7. OnePaymentPerReference'  BY DEF OnePaymentPerReference
  <1>8. ReviewSteps'  BY DEF ReviewSteps, Knowing
  <1>9. CasesMatch'  BY DEF CasesMatch
  <1> QED  BY <1>1, <1>2, <1>3, <1>4, <1>5, <1>6, <1>7, <1>8, <1>9

\* A lost request takes nothing back.
LEMMA LoseKeeps ==
  ASSUME IInv, NEW r \in Requests, Lose(r) PROVE IInv'
  <1> USE DEF IInv, TypeOK, Goto, Lose
  <1>1. TypeOK'  BY DEF Steps, Answers, Knowing
  <1>2. NoRowYet'  BY DEF NoRowYet, BeforeInsert
  <1>3. FoundIsRight'  BY DEF FoundIsRight, NoRowYet, BeforeInsert, Knowing
  <1>4. ConflictStands'  BY DEF ConflictStands, UnderRef
  <1>5. NonceFollows'  BY DEF NonceFollows, NoRowYet, BeforeInsert
  <1>6. NoncesAreDense'  BY DEF NoncesAreDense, NonceFollows, NoRowYet, BeforeInsert
  <1>7. OnePaymentPerReference'  BY DEF OnePaymentPerReference
  <1>8. ReviewSteps'  BY DEF ReviewSteps, Knowing
  <1>9. CasesMatch'  BY DEF CasesMatch
  <1> QED  BY <1>1, <1>2, <1>3, <1>4, <1>5, <1>6, <1>7, <1>8, <1>9

\* Every step of a request keeps what requests know.
LEMMA StepKeeps == IInv /\ [Next]_vars => IInv'
  <1> SUFFICES ASSUME IInv, [Next]_vars PROVE IInv'
    OBVIOUS
  <1>1. CASE UNCHANGED vars
    BY <1>1 DEF vars, IInv, TypeOK, NoRowYet, FoundIsRight, ConflictStands, NonceFollows,
       NoncesAreDense, OnePaymentPerReference, ReviewSteps, CasesMatch, UnderRef
  <1>2. CASE Next
    <2>1. PICK r \in Requests : Step(r)
      BY <1>2 DEF Next
    <2> QED
      BY <2>1, ReadNonceKeeps, LookupKeeps, InsertKeeps, InsertNothingKeeps,
         InsertRefusedKeeps, LookupAgainKeeps, FindCaseKeeps, AuditCaseKeeps, AnswerKeeps,
         LoseKeeps DEF Step
  <1> QED  BY <1>1, <1>2

\* What requests know holds of every reachable state.
THEOREM Invariance == Spec => []IInv
  BY Start, StepKeeps, PTL DEF Spec

\* The tables and the locals of a request keep their types, and a request answers
\* only with a payment it has found.
THEOREM TypeCorrect == Spec => []TypeOK
  <1>1. IInv => TypeOK  BY DEF IInv
  <1> QED  BY <1>1, Invariance, PTL

\* Under a client reference enqueue_pending_transaction and
\* hold_payment_for_review make one payment, however many requests race.
THEOREM OnePayment == Spec => []OnePaymentPerReference
  <1>1. IInv => OnePaymentPerReference  BY DEF IInv
  <1> QED  BY <1>1, Invariance, PTL

\* next_nonce_for_account reads long before the INSERT, and still the stored nonces
\* of an account have neither a gap nor a repetition.
THEOREM Nonces == Spec => []NoncesAreDense
  <1>1. IInv => NoncesAreDense  BY DEF IInv
  <1> QED  BY <1>1, Invariance, PTL

\* Payments under review have their case, and their clients are answered after
\* COMPLIANCE_CASE_OPENED was recorded.
THEOREM Review == Spec => []ReviewIsOpen
  <1>1. IInv => ReviewIsOpen
    <2> SUFFICES ASSUME IInv PROVE ReviewIsOpen
      OBVIOUS
    <2>1. ASSUME NEW r \in Requests, pc[r] = "paid", Reviewed(r)
          PROVE  found[r] \in cases \cap opened
      BY <2>1 DEF IInv, FoundIsRight, Knowing, ReviewSteps, CasesMatch, Reviewed
    <2> QED  BY <2>1 DEF IInv, CasesMatch, ReviewIsOpen
  <1> QED  BY <1>1, Invariance, PTL

-----------------------------------------------------------------------------
(* Submission implements IdempotentSubmission: a row appears in the step that *)
(* makes the payment, an answer in the step that ends the request, and every  *)
(* other step is a stutter.                                                   *)

\* A request that goes on to another of its steps has told its client nothing.
LEMMA GoingOn ==
  ASSUME TypeOK, NEW r \in Requests, pc[r] \in Steps,
         NEW step \in Steps, pc' = [pc EXCEPT ![r] = step],
         \A s \in Requests \ {r} : found'[s] = found[s]
  PROVE  told' = told /\ given' = given
  BY DEF TypeOK, told, given, Steps, Answers

\* A request that ends has told its client what it ended with.
LEMMA Ending ==
  ASSUME TypeOK, NEW r \in Requests, pc[r] \in Steps,
         NEW a \in Answers, pc' = [pc EXCEPT ![r] = a], found' = found
  PROVE  /\ told[r] = "none"
         /\ told' = [told EXCEPT ![r] = a]
         /\ given' = IF a = "paid" THEN [given EXCEPT ![r] = found[r]] ELSE given
  BY DEF TypeOK, told, given, Steps, Answers

\* The step of r, seen by the abstract specification.
LEMMA StepMaps ==
  ASSUME IInv, NEW r \in Requests, Step(r)
  PROVE  [Idempotent!Next]_<<rows, told, given>>
  <1> DEFINE Stutter == rows' = rows /\ told' = told /\ given' = given
  <1>0. TypeOK  BY DEF IInv
  <1> USE <1>0 DEF Goto
  <1>1. CASE ReadNonce(r)
    <2>1. PICK step \in {"insert", "lookup"} : pc' = [pc EXCEPT ![r] = step]
      BY <1>1 DEF ReadNonce
    <2> QED  BY <1>1, <2>1, GoingOn DEF ReadNonce, Steps
  <1>2. ASSUME NEW p \in UnderRef(r), AnswerWith(p, r), UNCHANGED rows,
               pc[r] \in {"lookup", "again"}
        PROVE  Stutter \/ Idempotent!Next
    <2>1. CASE SamePayload(p, r)
      <3>1. PICK step \in {"case", "answer"} :
              pc' = [pc EXCEPT ![r] = step] /\ found' = [found EXCEPT ![r] = p]
        BY <1>2, <2>1, Zenon DEF AnswerWith
      <3> QED  BY <1>2, <3>1, GoingOn DEF Steps, TypeOK
    <2>2. CASE ~SamePayload(p, r)
      <3>1. pc' = [pc EXCEPT ![r] = "conflict"] /\ found' = found
        BY <1>2, <2>2 DEF AnswerWith
      <3>2. Idempotent!Conflict(r, p)
        BY <1>2, <2>2, <3>1, Ending
        DEF Steps, Answers, SamePayload, UnderRef, Idempotent!Conflict, Idempotent!SameRef,
            Idempotent!Tell
      <3> QED  BY <1>2, <3>2 DEF Idempotent!Next, UnderRef
    <2> QED  BY <2>1, <2>2
  <1>3. CASE Lookup(r)
    <2>1. CASE UnderRef(r) = {}
      BY <1>3, <2>1, GoingOn DEF Lookup, Steps
    <2>2. CASE UnderRef(r) # {}
      BY <1>3, <2>2, <1>2 DEF Lookup
    <2> QED  BY <2>1, <2>2
  <1>4. CASE Insert(r)
    <2>1. PICK step \in {"audit", "answer"} : pc' = [pc EXCEPT ![r] = step]
      BY <1>4 DEF Insert
    <2>2. told' = told /\ given' = given
      BY <1>4, <2>1, GoingOn DEF Insert, Steps, TypeOK
    <2>3. told[r] = "none"
      BY <1>4 DEF told, Insert, Answers
    <2>4. Idempotent!Make(r)
      BY <1>4, <2>2, <2>3
      DEF Insert, IInv, NoRowYet, BeforeInsert, RefTaken, UnderRef, Idempotent!Make,
          Idempotent!SameRef
    <2> QED  BY <2>4 DEF Idempotent!Next
  <1>5. CASE InsertNothing(r)
    BY <1>5, GoingOn DEF InsertNothing, Steps
  <1>6. CASE InsertRefused(r)
    <2>1. PICK p \in rows : Account(p) = Account(r)
      BY <1>6 DEF InsertRefused, NonceTaken
    <2>2. Idempotent!Refuse(r, p)
      BY <1>6, <2>1, Ending
      DEF InsertRefused, IInv, NoRowYet, BeforeInsert, Account, Steps, Answers,
          Idempotent!Refuse, Idempotent!Tell
    <2> QED  BY <2>2 DEF Idempotent!Next
  <1>7. CASE LookupAgain(r)
    <2>1. UnderRef(r) # {}
      BY <1>7 DEF IInv, ConflictStands, LookupAgain
    <2> QED  BY <1>7, <2>1, <1>2 DEF LookupAgain
  <1>8. CASE FindCase(r)
    <2>1. found[r] \in cases
      BY <1>8 DEF FindCase, IInv, FoundIsRight, Knowing, ReviewSteps, CasesMatch, Reviewed
    <2> QED  BY <1>8, <2>1, GoingOn DEF FindCase, Steps
  <1>9. CASE AuditCase(r)
    BY <1>9, GoingOn DEF AuditCase, Steps
  <1>10. CASE Answer(r)
    <2>1. Idempotent!Pay(r, found[r])
      BY <1>10, Ending
      DEF Answer, IInv, FoundIsRight, Knowing, Steps, Answers, Idempotent!Pay,
          Idempotent!SameRef, Idempotent!Tell
    <2>2. found[r] \in rows
      BY <1>10 DEF Answer, IInv, FoundIsRight, Knowing
    <2> QED  BY <2>1, <2>2 DEF Idempotent!Next
  <1>11. CASE Lose(r)
    <2>1. Idempotent!Lose(r)
      BY <1>11, Ending DEF Lose, Answers, Idempotent!Lose, Idempotent!Tell
    <2> QED  BY <2>1 DEF Idempotent!Next
  <1> QED
    BY <1>1, <1>3, <1>4, <1>5, <1>6, <1>7, <1>8, <1>9, <1>10, <1>11 DEF Step

\* Submission behaves as if each request were handled at once: README "retries
\* with the same value return the original payment record".
THEOREM Refinement == Spec => ImplementsIdempotentSubmission
  <1>1. Init => Idempotent!Init
    BY DEF Init, Idempotent!Init, told, given, Answers
  <1>2. IInv /\ [Next]_vars => [Idempotent!Next]_<<rows, told, given>>
    <2> SUFFICES ASSUME IInv, [Next]_vars PROVE [Idempotent!Next]_<<rows, told, given>>
      OBVIOUS
    <2>1. CASE UNCHANGED vars
      BY <2>1 DEF vars, told, given
    <2>2. CASE Next
      BY <2>2, StepMaps DEF Next
    <2> QED  BY <2>1, <2>2
  <1> QED
    BY <1>1, <1>2, Invariance, PTL DEF Spec, ImplementsIdempotentSubmission, Idempotent!Spec
=============================================================================
