--------------------------- MODULE MCAccountLocks ---------------------------
(* Instance of AccountLocks for TLC: two accounts; transactions that write *)
(* one and read the other, write both, and only read.                      *)
EXTENDS AccountLocks, TLC

CONSTANTS x, y, t1, t2, t3, t4, w1, w2

MCTxs == {t1, t2, t3, t4}
MCWritable == t1 :> {x} @@ t2 :> {x, y} @@ t3 :> {} @@ t4 :> {}
MCReadonly == t1 :> {y} @@ t2 :> {} @@ t3 :> {x, y} @@ t4 :> {y}
=============================================================================
