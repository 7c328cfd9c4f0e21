---------------------------- MODULE MCSettlement ----------------------------
(***************************************************************************)
(* Small instances of the settlement path.                                 *)
(***************************************************************************)
EXTENDS KaniSettlementProperties, TLC

CONSTANTS treasury, a, b, t1, t2, t3, kcad, bank, v1, v2, v3, p1, p2, p3, p4, r1, r2

Transaction(kind, from, to, amount) ==
  [kind |-> kind, from |-> from, to |-> to, asset |-> kcad, amount |-> amount]

\* The treasury mints funds units for account a; a hands two back and, under
\* review, pays two to b.
MCTx(funds) ==
  (t1 :> Transaction("MINT", treasury, a, funds)) @@
  (t2 :> Transaction("BURN", a, treasury, 2)) @@
  (t3 :> Transaction("TRANSFER", a, b, 2))

MCScarce == MCTx(2)   \* only one of the two can settle
MCAmple  == MCTx(4)   \* both can, in whatever order they leave review

MCOwner == [x \in Accounts |-> bank]
MCSchedule == <<v1, v2, v3>>

\* p1 and p2 are two processes of validator v1.
MCValidatorOf ==
  [p \in Processes |-> CASE p = p3 -> v2 [] p = p4 -> v3 [] OTHER -> v1]

TwinProcesses == Permutations({p1, p2})
=============================================================================
