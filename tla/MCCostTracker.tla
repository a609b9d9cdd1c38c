--------------------------- MODULE MCCostTracker ---------------------------
(* Instance of CostTracker for TLC: limits that two transactions reach,    *)
(* one limit for each pair.                                                *)
EXTENDS CostTracker

CONSTANTS x, y, t1, t2, t3, v1, w1, w2

MCTxs == {t1, t2, t3, v1}
MCWritableOf == t1 :> {x} @@ t2 :> {x, y} @@ t3 :> {y} @@ v1 :> {}
MCExecutionCost == t1 :> 2 @@ t2 :> 1 @@ t3 :> 2 @@ v1 :> 1
MCOtherCost == t1 :> 1 @@ t2 :> 1 @@ t3 :> 1 @@ v1 :> 1
MCDataSize == t1 :> 1 @@ t2 :> 0 @@ t3 :> 1 @@ v1 :> 0
=============================================================================
