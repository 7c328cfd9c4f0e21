---------------------------- MODULE MCSandboxNode ----------------------------
(***************************************************************************)
(* The treasury mints two units for a.  a pays one unit to b and, under    *)
(* the same reference and under review, two; both requests are repeated.   *)
(* One unit is handed back.                                                *)
(***************************************************************************)
EXTENDS SandboxNodeProperties, TLC

CONSTANTS treasury, a, b, kcad, central, bank, mint, pay, retry, big, bigRetry, burn,
          ref, v1, v2, v3, v4

Transaction(kind, from, to, amount) ==
  [kind |-> kind, from |-> from, to |-> to, asset |-> kcad, amount |-> amount]

MCTx == [t \in Txs |->
  CASE t = mint             -> Transaction("MINT", treasury, a, 2)
    [] t \in {pay, retry}   -> Transaction("TRANSFER", a, b, 1)
    [] t \in {big, bigRetry} -> Transaction("TRANSFER", a, b, 2)
    [] t = burn             -> Transaction("BURN", a, treasury, 1)]

MCOwner  == [x \in Accounts |-> IF x = treasury THEN central ELSE bank]
MCCaller == [t \in Txs |-> Owner[Tx[t].from]]
MCRef    == [t \in Txs |-> IF t \in {mint, burn} THEN NoRef ELSE ref]
MCSchedule == <<v1, v2, v3, v4>>

Retries == Permutations({pay, retry}) \cup Permutations({big, bigRetry})
=============================================================================
