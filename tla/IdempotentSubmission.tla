------------------------- MODULE IdempotentSubmission -------------------------
(***************************************************************************)
(* What the payment API promises a client that repeats its requests: under *)
(* a client reference at most one payment is ever made, every request that *)
(* is paid under it is given that payment, and a request is turned down    *)
(* only for a reason that is in the ledger.  Submission implements this.   *)
(***************************************************************************)
CONSTANTS
  Requests,
  Ref,       \* [Requests -> references]: client_reference_id of a request
  NoRef,     \* the reference of requests without one
  Body,      \* [Requests -> payloads]: from, to, asset, amount and kind
  From,      \* [payloads -> accounts]
  None

VARIABLES
  payments,  \* requests whose payment was made; it carries the request's name
  answer,    \* what a request's client was told
  paid       \* the payment it was given

SameRef(r, s) == Ref[r] # NoRef /\ Ref[r] = Ref[s]

Init ==
  /\ payments = {}
  /\ answer = [r \in Requests |-> "none"]
  /\ paid = [r \in Requests |-> None]

Make(r) ==
  /\ answer[r] = "none"
  /\ r \notin payments
  /\ \A p \in payments : ~SameRef(p, r)
  /\ payments' = payments \cup {r}
  /\ UNCHANGED <<answer, paid>>

Tell(r, a) == answer[r] = "none" /\ answer' = [answer EXCEPT ![r] = a] /\ UNCHANGED payments

\* Its own payment, or the one made under its reference for the same payload.
Pay(r, p) ==
  /\ \/ p = r
     \/ SameRef(p, r) /\ Body[p] = Body[r]
  /\ Tell(r, "paid")
  /\ paid' = [paid EXCEPT ![r] = p]

Conflict(r, p) ==
  /\ SameRef(p, r) /\ Body[p] # Body[r]
  /\ Tell(r, "conflict")
  /\ UNCHANGED paid

\* Only another payment of the same account can be in the way.
Refuse(r, p) ==
  /\ r \notin payments
  /\ From[Body[p]] = From[Body[r]]
  /\ Tell(r, "refused")
  /\ UNCHANGED paid

\* The client gets no answer; the payment may or may not have been made.
Lose(r) == Tell(r, "lost") /\ UNCHANGED paid

Next ==
  \E r \in Requests :
    \/ Make(r)
    \/ \E p \in payments : Pay(r, p) \/ Conflict(r, p) \/ Refuse(r, p)
    \/ Lose(r)

Spec == Init /\ [][Next]_<<payments, answer, paid>>
=============================================================================
