---------------------------- MODULE CostTracker ----------------------------
(***************************************************************************)
(* The costs of a block: CostTracker (cost-model/src/cost_tracker.rs), the *)
(* QosService of the workers that produce the block                        *)
(* (core/src/banking_stage/qos_service.rs), and the check of the same      *)
(* limits where the block is replayed (ledger/src/blockstore_processor.rs).*)
(*                                                                         *)
(* A worker adds the estimated costs of a batch before it is executed, and *)
(* later removes those of transactions that were not committed and adjusts *)
(* the others.  Each of the three takes the tracker's write lock.          *)
(***************************************************************************)
EXTENDS Integers, FiniteSets, Sequences, FiniteSetsExt, SequencesExt

CONSTANTS
  Keys,          \* writable accounts
  Txs,           \* transactions
  WritableOf,    \* TransactionCost::writable_accounts
  ExecutionCost, \* programs_execution_cost, the estimate
  OtherCost,     \* signatures, write locks, data bytes, loaded accounts
  DataSize,      \* account_data_size
  SimpleVotes,   \* is_simple_vote
  Units,         \* compute units a committed transaction may have used
  BlockLimit, VoteLimit, AccountLimit, DataLimit,
  Workers, NoWorker

ASSUME CostAssumption ==
  /\ WritableOf \in [Txs -> SUBSET Keys] /\ IsFiniteSet(Txs)
  /\ {ExecutionCost, OtherCost, DataSize} \subseteq [Txs -> Nat]
  /\ SimpleVotes \subseteq Txs /\ Units \subseteq Nat
  /\ {BlockLimit, VoteLimit, AccountLimit, DataLimit} \subseteq Nat
  /\ AccountLimit <= BlockLimit /\ VoteLimit <= BlockLimit
  /\ NoWorker \notin Workers

VARIABLES
  applyDuringReplay, \* whether the bank has the feature apply_cost_tracker_during_replay
  tracker,   \* the CostTracker of the bank that is produced
  writer,    \* the worker inside write_cost_tracker(), or NoWorker
  pc,        \* what each worker is doing with its batch
  batch,     \* transactions it has still to select
  selected,  \* transactions whose cost result is Ok and whose cost is not settled
  committed, \* of them, the ones that were recorded and committed
  units,     \* compute units of committed transactions
  ledger,    \* transactions in the order they were recorded
  replay,    \* the CostTracker of a bank that replays the ledger
  replayed   \* how much of it has been replayed

vars == <<applyDuringReplay, tracker, writer, pc, batch, selected, committed, units, ledger,
          replay, replayed>>

Cost(t) == ExecutionCost[t] + OtherCost[t]
Monus(a, b) == IF a >= b THEN a - b ELSE 0   \* saturating_sub

EmptyTracker == [block_cost |-> 0, vote_cost |-> 0,
                 cost_by_writable_accounts |-> [k \in Keys |-> 0],
                 account_data_size |-> 0, transaction_count |-> 0]

Init ==
  /\ applyDuringReplay \in BOOLEAN
  /\ tracker = EmptyTracker /\ replay = EmptyTracker
  /\ writer = NoWorker
  /\ pc = [w \in Workers |-> "idle"]
  /\ batch = [w \in Workers |-> {}]
  /\ selected = [w \in Workers |-> {}]
  /\ committed = [w \in Workers |-> {}]
  /\ units = [t \in Txs |-> 0]
  /\ ledger = <<>> /\ replayed = 0

-----------------------------------------------------------------------------
(* CostTracker.                                                            *)
WouldFit(tr, t) ==
  /\ t \in SimpleVotes => tr.vote_cost + Cost(t) <= VoteLimit
  /\ tr.block_cost + Cost(t) <= BlockLimit
  /\ Cost(t) <= AccountLimit
  /\ tr.account_data_size + DataSize[t] <= DataLimit
  /\ \A k \in WritableOf[t] : tr.cost_by_writable_accounts[k] + Cost(t) <= AccountLimit

(* add_transaction_execution_cost and sub_transaction_execution_cost       *)
AddExecution(tr, t, n) ==
  [tr EXCEPT !.block_cost = @ + n,
             !.vote_cost = IF t \in SimpleVotes THEN @ + n ELSE @,
             !.cost_by_writable_accounts =
               [k \in Keys |-> IF k \in WritableOf[t] THEN @[k] + n ELSE @[k]]]
SubExecution(tr, t, n) ==
  [tr EXCEPT !.block_cost = Monus(@, n),
             !.vote_cost = IF t \in SimpleVotes THEN Monus(@, n) ELSE @,
             !.cost_by_writable_accounts =
               [k \in Keys |-> IF k \in WritableOf[t] THEN Monus(@[k], n) ELSE @[k]]]

AddTransaction(tr, t) ==
  [AddExecution(tr, t, Cost(t)) EXCEPT !.account_data_size = @ + DataSize[t],
                                       !.transaction_count = @ + 1]
RemoveTransaction(tr, t) ==
  [SubExecution(tr, t, Cost(t)) EXCEPT !.account_data_size = Monus(@, DataSize[t]),
                                       !.transaction_count = Monus(@, 1)]

UpdateExecution(tr, t, actual) ==
  IF actual >= ExecutionCost[t] THEN AddExecution(tr, t, actual - ExecutionCost[t])
                                ELSE SubExecution(tr, t, ExecutionCost[t] - actual)

(* The tracker after an operation on every transaction of a set, in any    *)
(* order: no operation of the set can saturate (CostsAccounted).           *)
RemoveAll(tr, S) == FoldSet(LAMBDA t, acc : RemoveTransaction(acc, t), tr, S)
UpdateAll(tr, S) == FoldSet(LAMBDA t, acc : UpdateExecution(acc, t, units[t]), tr, S)

-----------------------------------------------------------------------------
Busy == UNION {batch[w] \cup selected[w] : w \in Workers}
Recorded == {ledger[i] : i \in 1 .. Len(ledger)}

(* select_and_accumulate_transaction_costs: the lock is held while the     *)
(* transactions of the batch are tried one after the other.                *)
StartSelect(w, txs) ==
  /\ pc[w] = "idle" /\ writer = NoWorker
  /\ txs # {} /\ txs \cap (Busy \cup Recorded) = {}
  /\ writer' = w
  /\ batch' = [batch EXCEPT ![w] = txs]
  /\ pc' = [pc EXCEPT ![w] = "select"]
  /\ UNCHANGED <<tracker, selected, committed, units, ledger, replay, replayed>>

SelectNext(w, t) ==
  /\ pc[w] = "select" /\ t \in batch[w]
  /\ batch' = [batch EXCEPT ![w] = @ \ {t}]
  /\ IF WouldFit(tracker, t)
     THEN /\ tracker' = AddTransaction(tracker, t)
          /\ selected' = [selected EXCEPT ![w] = @ \cup {t}]
     ELSE UNCHANGED <<tracker, selected>>
  /\ UNCHANGED <<writer, pc, committed, units, ledger, replay, replayed>>

EndSelect(w) ==
  /\ pc[w] = "select" /\ batch[w] = {}
  /\ writer' = NoWorker
  /\ pc' = [pc EXCEPT ![w] = "execute"]
  /\ UNCHANGED <<tracker, batch, selected, committed, units, ledger, replay, replayed>>

(* execute_and_commit_transactions_locked: transactions that could not be  *)
(* locked or loaded are not executed; the others are recorded together and *)
(* committed, or the record fails and none is.                             *)
Execute(w, order, used) ==
  /\ pc[w] = "execute"
  /\ LET done == {order[i] : i \in 1 .. Len(order)}
     IN  /\ done \subseteq selected[w] /\ Cardinality(done) = Len(order)
         /\ committed' = [committed EXCEPT ![w] = done]
         /\ units' = [t \in Txs |-> IF t \in done THEN used[t] ELSE units[t]]
  /\ ledger' = ledger \o order
  /\ pc' = [pc EXCEPT ![w] = "remove"]
  /\ UNCHANGED <<tracker, writer, batch, selected, replay, replayed>>

(* remove_costs                                                            *)
RemoveCostsOfErrors(w) ==   \* mutant: only a failed record gives costs back
  /\ pc[w] = "remove" /\ writer = NoWorker
  /\ tracker' = IF committed[w] = {} THEN RemoveAll(tracker, selected[w]) ELSE tracker
  /\ selected' = [selected EXCEPT ![w] = committed[w]]
  /\ pc' = [pc EXCEPT ![w] = "update"]
  /\ UNCHANGED <<writer, batch, committed, units, ledger, replay, replayed>>
RemoveCostsAll(w) ==   \* mutant: committed transactions give their cost back as well
  /\ pc[w] = "remove" /\ writer = NoWorker
  /\ tracker' = RemoveAll(tracker, selected[w])
  /\ selected' = [selected EXCEPT ![w] = committed[w]]
  /\ pc' = [pc EXCEPT ![w] = "update"]
  /\ UNCHANGED <<writer, batch, committed, units, ledger, replay, replayed>>
RemoveCosts(w) ==
  /\ pc[w] = "remove" /\ writer = NoWorker
  /\ tracker' = RemoveAll(tracker, selected[w] \ committed[w])
  /\ selected' = [selected EXCEPT ![w] = committed[w]]
  /\ pc' = [pc EXCEPT ![w] = "update"]
  /\ UNCHANGED <<writer, batch, committed, units, ledger, replay, replayed>>

(* update_costs, left out once replay checks the estimated costs.          *)
UpdateCosts(w) ==
  /\ pc[w] = "update" /\ (applyDuringReplay \/ writer = NoWorker)
  /\ tracker' = IF applyDuringReplay THEN tracker ELSE UpdateAll(tracker, committed[w])
  /\ selected' = [selected EXCEPT ![w] = {}]
  /\ committed' = [committed EXCEPT ![w] = {}]
  /\ pc' = [pc EXCEPT ![w] = "idle"]
  /\ UNCHANGED <<writer, batch, units, ledger, replay, replayed>>

(* rebatch_and_execute_batches: with the feature, a transaction that does  *)
(* not fit makes the block invalid and the replay stops.                   *)
ReplayNext ==
  /\ replayed < Len(ledger)
  /\ LET t == ledger[replayed + 1]
     IN  /\ applyDuringReplay => WouldFit(replay, t)
         /\ replay' = IF applyDuringReplay THEN AddTransaction(replay, t) ELSE replay
  /\ replayed' = replayed + 1
  /\ UNCHANGED <<tracker, writer, pc, batch, selected, committed, units, ledger>>

WorkerStep(w) ==
  \/ \E txs \in SUBSET Txs : StartSelect(w, txs)
  \/ \E t \in Txs : SelectNext(w, t)
  \/ EndSelect(w)
  \/ \E S \in SUBSET selected[w] :
       \E order \in SetToSeqs(S), used \in [S -> Units] : Execute(w, order, used)
  \/ RemoveCosts(w)
  \/ UpdateCosts(w)

Next ==
  /\ ReplayNext \/ \E w \in Workers : WorkerStep(w)
  /\ UNCHANGED applyDuringReplay

Spec == Init /\ [][Next]_vars

-----------------------------------------------------------------------------
(* What a transaction costs the block now: the estimate while a worker has *)
(* it, and what it was settled for once it is committed.                   *)
Unsettled == UNION {selected[w] : w \in Workers}
Charged == Unsettled \cup Recorded
Charge(t) == IF applyDuringReplay \/ t \in Unsettled THEN Cost(t) ELSE OtherCost[t] + units[t]

(* The tracker holds exactly the charges of transactions that are in the   *)
(* block or may still enter it: whatever workers add, remove and adjust    *)
(* concurrently, no cost is lost, kept or counted twice, and no subtraction*)
(* saturates (try_add, remove_costs, update_costs).                        *)
CostsAccounted ==
  /\ tracker.block_cost = MapThenSumSet(Charge, Charged)
  /\ tracker.vote_cost = MapThenSumSet(Charge, Charged \cap SimpleVotes)
  /\ \A k \in Keys : tracker.cost_by_writable_accounts[k]
                       = MapThenSumSet(Charge, {t \in Charged : k \in WritableOf[t]})
  /\ tracker.account_data_size = MapThenSumSet(LAMBDA t : DataSize[t], Charged)
  /\ tracker.transaction_count = Cardinality(Charged)

(* A block that this leader produced is never refused by the cost limits   *)
(* when it is replayed, in the order it was recorded, although the leader  *)
(* admitted transactions in another order and next to others that left     *)
(* again (would_fit of producer and replayer).                             *)
ReplayAccepts ==
  applyDuringReplay /\ replayed < Len(ledger) => WouldFit(replay, ledger[replayed + 1])
=============================================================================
