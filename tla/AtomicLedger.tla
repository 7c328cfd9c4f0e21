---------------------------- MODULE AtomicLedger ----------------------------
(***************************************************************************)
(* What the network promises about its ledger, whatever happens inside:    *)
(* there is one chain of blocks; a block is appended in one step, and its  *)
(* transactions are valid one after the other on the balances of that very *)
(* moment.  KaniSettlement and SandboxNode implement this specification.   *)
(***************************************************************************)
EXTENDS LedgerRules, Sequences

VARIABLES
  chain,    \* the transactions of each block
  balance,
  nonce     \* drawn for a transaction before it settles

Settled == UNION {{chain[h][i] : i \in DOMAIN chain[h]} : h \in DOMAIN chain}

\* The sequences without repetition over S.
Batches(S) ==
  {txs \in UNION {[1..n -> S] : n \in 1..Cardinality(S)} :
     \A i, j \in DOMAIN txs : txs[i] = txs[j] => i = j}

\* Balances after the first i transactions of txs.
Balances(txs) ==
  LET after[i \in 0..Len(txs)] == IF i = 0 THEN balance ELSE Apply(txs[i], after[i - 1])
  IN  after

ValidBatch(txs, nonces) ==
  \A i \in DOMAIN txs :
    Valid(txs[i], Balances(txs)[i - 1], Settled \cup {txs[j] : j \in 1..(i - 1)}, nonces)

Init ==
  /\ chain = << >>
  /\ balance = [slot \in Slots |-> 0]
  /\ nonce = [t \in Txs |-> 0]

Draw(t) ==
  /\ t \notin Settled
  /\ nonce[t] = 0
  /\ \E n \in 1..(Cardinality(Txs) + 1) : nonce' = [nonce EXCEPT ![t] = n]

Extend(txs) ==
  /\ ValidBatch(txs, nonce')
  /\ chain' = Append(chain, txs)
  /\ balance' = Balances(txs)[Len(txs)]

DrawNonce(t) == Draw(t) /\ UNCHANGED <<chain, balance>>

AppendBlock ==
  /\ UNCHANGED nonce
  /\ Len(chain') = Len(chain) + 1
  /\ \E txs \in Batches(Txs \ Settled) : Extend(txs)

\* The nonce is drawn for a transaction that settles at once.
DrawAndAppend(t) == Draw(t) /\ Extend(<<t>>)

Next ==
  \/ \E t \in Txs : DrawNonce(t) \/ DrawAndAppend(t)
  \/ AppendBlock

Spec == Init /\ [][Next]_<<chain, balance, nonce>>
=============================================================================
