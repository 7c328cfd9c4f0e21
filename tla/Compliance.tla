------------------------------ MODULE Compliance ------------------------------
(***************************************************************************)
(* screen_sandbox_payment_with_policy: the answer of the compliance policy *)
(* to a payment.                                                           *)
(***************************************************************************)
EXTENDS LedgerRules

CONSTANTS
  AllowedAccounts,    \* allowed_accounts
  AllowedAssets,      \* the assets that match allowed_asset_prefixes
  MaxPaymentAmount,   \* max_payment_amount
  AllowSelfTransfers  \* allow_self_transfers

ASSUME PolicyAssumption == MaxPaymentAmount \in Int /\ AllowSelfTransfers \in BOOLEAN

\* The rules in the order the policy applies them: the first that does not pass
\* decides.  Accounts and assets of a transaction are never empty.
Acceptable(t) ==
  /\ Tx[t].amount > 0
  /\ AllowSelfTransfers \/ Tx[t].from # Tx[t].to
  /\ {Tx[t].from, Tx[t].to} \subseteq AllowedAccounts
  /\ Tx[t].asset \in AllowedAssets

Screen(t) ==
  IF ~Acceptable(t) THEN "Reject"
  ELSE IF Tx[t].amount > MaxPaymentAmount THEN "Review" ELSE "Allow"

\* Mints and burns are not screened.
Decision(t) == IF Tx[t].kind = "TRANSFER" THEN Screen(t) ELSE "Allow"
=============================================================================
