----------------------------- MODULE MCEvidence -----------------------------
(***************************************************************************)
(* A ledger of four transactions and an operator who collects evidence.    *)
(***************************************************************************)
EXTENDS Evidence, TLC

CONSTANTS treasury, a, b, t1, t2, t3, t4, kcad, v1, v2, v3

Transaction(kind, from, to, amount) ==
  [kind |-> kind, from |-> from, to |-> to, asset |-> kcad, amount |-> amount]

\* Two mints for account a, which pays b and gives back the rest.
MCTx ==
  (t1 :> Transaction("MINT", treasury, a, 2)) @@
  (t2 :> Transaction("TRANSFER", a, b, 1)) @@
  (t3 :> Transaction("MINT", treasury, a, 4)) @@
  (t4 :> Transaction("BURN", a, treasury, 1))

MCDrawn == (t1 :> 1) @@ (t2 :> 1) @@ (t3 :> 2) @@ (t4 :> 2)
MCSchedule == <<v1, v2, v3>>
=============================================================================
