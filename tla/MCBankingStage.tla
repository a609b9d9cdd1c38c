--------------------------- MODULE MCBankingStage ---------------------------
EXTENDS BankingStage, TLC

CONSTANTS w1, w2, t1, t2, payer1, payer2, shared

(* Two transactions with payers of their own and an account that one       *)
(* writes and the other reads.                                             *)
MCWritable == (t1 :> {payer1, shared}) @@ (t2 :> {payer2})
MCReadonly == (t1 :> {}) @@ (t2 :> {shared})

(* Two conflicting transactions in one leader slot, or one transaction,    *)
(* which every worker may take, over two of them.                          *)
MCLoads == {<<{t1, t2}, 1>>, <<{t1}, 2>>}
=============================================================================
