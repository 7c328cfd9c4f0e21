------------------------ MODULE SubmissionProperties ------------------------
(***************************************************************************)
(* What submission promises, whatever requests race and whichever of them  *)
(* are lost half way.                                                      *)
(***************************************************************************)
EXTENDS Submission

\* From here on a request knows the payment it answers with.
Knowing == {"case", "audit", "answer", "paid"}

\* Type invariant of the tables and of the locals of a request: found is set by
\* the time it is used.
TypeOK ==
  /\ rows \subseteq Requests
  /\ nonce \in [Requests -> Nat]
  /\ cases \subseteq Requests
  /\ opened \subseteq Requests
  /\ found \in [Requests -> Requests \cup {None}]
  /\ pc \in [Requests -> Steps \cup Answers]
  /\ \A r \in Requests : pc[r] \in Knowing => found[r] \in Requests

\* README "retries with the same value return the original payment record": two
\* requests that check and then insert at the same time still make one payment.
OnePaymentPerReference ==
  \A r, s \in rows : Ref[r] # NoRef /\ Ref[r] = Ref[s] => r = s

\* An account's stored nonces are 1, 2, 3, ... each used once, although every
\* request reads MAX(nonce) long before it inserts, and lost requests leave no gap.
NoncesAreDense ==
  \A r \in rows :
    /\ \A s \in rows : Account(r) = Account(s) /\ nonce[r] = nonce[s] => r = s
    /\ nonce[r] # 1 => \E s \in rows : Account(s) = Account(r) /\ nonce[s] = nonce[r] - 1

\* No payment waits for a reviewer without a case to decide, none has a case that
\* needs none, and a client that was told of a payment under review was told of
\* one whose case is on the audit trail.
ReviewIsOpen ==
  /\ cases = {r \in rows : Reviewed(r)}
  /\ \A r \in Requests : pc[r] = "paid" /\ Reviewed(r) => found[r] \in cases \cap opened

\* What the client of a request was told, and the payment it was given.
told  == [r \in Requests |-> IF pc[r] \in Answers THEN pc[r] ELSE "none"]
given == [r \in Requests |-> IF pc[r] = "paid" THEN found[r] ELSE None]

\* Requests behave as if each were handled at once: a payment is made when its
\* row is inserted, and every answer agrees with the payments of that moment.
Idempotent == INSTANCE IdempotentSubmission
                WITH payments <- rows, answer <- told, paid <- given
ImplementsIdempotentSubmission == Idempotent!Spec
=============================================================================
