----------------------- MODULE MCTransactionScheduler -----------------------
(* Instance of TransactionScheduler for TLC.  The highest transaction      *)
(* writes two accounts; the others write or read one of them each.         *)
EXTENDS TransactionScheduler, TLC

CONSTANTS x, y

MCKeys == {x, y}
MCTxs == 1 .. 4
MCWritable == 1 :> {x} @@ 2 :> {} @@ 3 :> {} @@ 4 :> {x, y}
MCReadonly == 1 :> {} @@ 2 :> {y} @@ 3 :> {y} @@ 4 :> {}
=============================================================================
