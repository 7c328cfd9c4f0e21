---------------------------- MODULE MCCostGuard ----------------------------
(***************************************************************************)
(* The configured budget, spent below and exactly up to its threshold of   *)
(* 80%, or set to zero, and another budget on the same topic that is       *)
(* beyond its threshold.                                                   *)
(***************************************************************************)
EXTENDS CostGuard

CONSTANTS sandbox, other

Of(cost, amount) == [cost |-> cost, amount |-> amount]

MCFigures == [b \in Budgets |-> IF b = sandbox THEN {Of(3, 5), Of(4, 5), Of(1, 0)}
                                               ELSE {Of(4, 5)}]
=============================================================================
