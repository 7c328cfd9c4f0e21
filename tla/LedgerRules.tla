----------------------------- MODULE LedgerRules -----------------------------
(***************************************************************************)
(* The rules of the KANI ledger as pure operators: what a transaction does *)
(* to balances and to the issued supply, and when it may be applied.  They *)
(* are shared by the modules that keep a ledger.                           *)
(*                                                                         *)
(* A balance belongs to a slot, a pair of an account and an asset.  Tx     *)
(* gives the immutable columns of a transaction; its nonce is drawn when   *)
(* it is created and is passed where it matters.                           *)
(***************************************************************************)
EXTENDS Integers, FiniteSets, FiniteSetsExt

CONSTANTS
  Txs,        \* transaction ids
  Tx,         \* [Txs -> [kind, from, to, asset, amount]]
  Accounts,
  Assets,
  Treasuries  \* the accounts of type TREASURY

Kinds == {"TRANSFER", "MINT", "BURN"}

ASSUME TxAssumption ==
  Tx \in [Txs -> [kind : Kinds, from : Accounts, to : Accounts, asset : Assets,
                  amount : Nat \ {0}]]
ASSUME TxsAssumption == IsFiniteSet(Txs)
ASSUME AccountsAssumption == IsFiniteSet(Accounts)
ASSUME TreasuryAssumption == Treasuries \subseteq Accounts

Slots     == Accounts \X Assets
Source(t) == <<Tx[t].from, Tx[t].asset>>
Target(t) == <<Tx[t].to, Tx[t].asset>>

\* Burns take from their source only, mints give to their target only.
Debit(t, slot)  == IF Tx[t].kind # "MINT" /\ slot = Source(t) THEN Tx[t].amount ELSE 0
Credit(t, slot) == IF Tx[t].kind # "BURN" /\ slot = Target(t) THEN Tx[t].amount ELSE 0
Effect(t, slot) == Credit(t, slot) - Debit(t, slot)

\* Faulty variant, to test the properties: a burn is booked as a transfer.
ApplyBurnAsTransfer(t, bal) ==
  [slot \in Slots |-> bal[slot] - Debit(t, slot)
                      + IF slot = Target(t) THEN Tx[t].amount ELSE 0]

Apply(t, bal) == [slot \in Slots |-> bal[slot] + Effect(t, slot)]

\* Units of an asset issued and not burnt by the transactions of S.
Supply(t)        == CASE Tx[t].kind = "MINT" -> Tx[t].amount
                      [] Tx[t].kind = "BURN" -> -Tx[t].amount
                      [] OTHER -> 0
Issued(S, asset) == MapThenSumSet(Supply, {t \in S : Tx[t].asset = asset})

\* The replayed balance of a slot: what the transactions of S leave in it.
Replayed(S, slot) == MapThenSumSet(LAMBDA t : Effect(t, slot), S)

\* Faulty variant: the nonce is not checked.
AnyNonce(t, final, nonce) == TRUE

\* The ledger keeps for each account the largest nonce it finalized, of whatever
\* asset; "above the largest" is "above every one".
NonceIsFresh(t, final, nonce) ==
  \A u \in final : Tx[u].from = Tx[t].from => nonce[u] < nonce[t]

\* Faulty variant: the balance is not checked.
FundedOnCredit(t, bal) == TRUE

Funded(t, bal) == bal[Source(t)] >= Tx[t].amount

\* InMemoryLedger::validate_transaction, against balances bal and the set final
\* of transactions applied so far.
Valid(t, bal, final, nonce) ==
  /\ Tx[t].amount > 0
  /\ NonceIsFresh(t, final, nonce)
  /\ Tx[t].kind \in {"TRANSFER", "BURN"} => Funded(t, bal)
  /\ Tx[t].kind = "MINT" => Tx[t].from \in Treasuries
  /\ Tx[t].kind = "BURN" => /\ Tx[t].to \in Treasuries
                            /\ Issued(final, Tx[t].asset) >= Tx[t].amount
=============================================================================
