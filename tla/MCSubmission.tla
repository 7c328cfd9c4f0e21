---------------------------- MODULE MCSubmission ----------------------------
(***************************************************************************)
(* A payment of account a under review that is sent twice, a payment of    *)
(* account b under the same reference, and a payment of each account       *)
(* without a reference.                                                    *)
(***************************************************************************)
EXTENDS SubmissionProperties, TLC

CONSTANTS first, retry, other, plainA, plainB, ref, large, small, foreign, a, b

MCRef == [r \in Requests |-> IF r \in {plainA, plainB} THEN NoRef ELSE ref]
MCBody ==
  (first :> large) @@ (retry :> large) @@ (other :> foreign) @@
  (plainA :> small) @@ (plainB :> foreign)
MCFrom == [p \in Payloads |-> IF p = foreign THEN b ELSE a]
=============================================================================
