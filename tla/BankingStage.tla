---------------------------- MODULE BankingStage ----------------------------
(***************************************************************************)
(* The leader: worker threads of BankingStage execute transactions, have   *)
(* them recorded by the PoH service and commit them; the PoH service ticks *)
(* and completes the working bank; ReplayStage freezes complete banks,     *)
(* resets PoH and starts the next leader bank                              *)
(* (core/src/banking_stage/consumer.rs, poh/src/poh_recorder.rs,           *)
(* core/src/replay_stage.rs, runtime/src/bank.rs).                         *)
(*                                                                         *)
(* A batch has one transaction, which any worker may take at any time, also*)
(* twice.  Account locks are those LockTable promises, one table per bank. *)
(* The blockhash that the bank of slot s registers is s.                   *)
(***************************************************************************)
EXTENDS Integers, Sequences, FiniteSets

CONSTANTS
  Workers, Txs, Keys,
  Writable, Readonly,   \* the accounts of each transaction
  NoSlot, NoTx,
  TicksPerSlot,
  MaxSlot,              \* bound: the last slot
  Loads                 \* what clients send: pairs of transactions and of the last slot

ASSUME BoundsAssumption ==
  MaxSlot \in Nat /\ TicksPerSlot \in Nat \ {0} /\ Loads \subseteq (SUBSET Txs) \X (0 .. MaxSlot)

VARIABLES
  \* PohRecorder, behind its lock
  tick_height, tick_cache, working, start_bank,
  pohPc,        \* "free", or where the PoH thread is inside flush_cache
  \* banks, by slot
  parent, bankTicks, lastHash, frozen,
  version,      \* of each account: how many transactions have written it
  results,      \* of each committed transaction: the versions and blockhashes it saw
  ledger,       \* history: the transactions recorded for each slot, in order
  \* workers
  pc, tx, bank, saw, seen,
  \* ReplayStage
  replayPc, tpu_has_bank, active, last_reset,
  leader,       \* <<poh_slot, parent_slot>> that maybe_start_leader read
  \* the environment, chosen once
  offered, lastSlot

pohVars == <<tick_height, tick_cache, working, start_bank, pohPc>>
bankVars == <<parent, bankTicks, lastHash, frozen, version, results>>
workerVars == <<pc, tx, bank, saw, seen>>
replayVars == <<replayPc, tpu_has_bank, active, last_reset, leader>>
load == <<offered, lastSlot>>
vars == <<pohVars, bankVars, ledger, workerVars, replayVars, load>>

Slots == 0 .. MaxSlot
Banks == {s \in Slots : s = 0 \/ parent[s] # NoSlot}
MinTick(s) == (parent[s] + 1) * TicksPerSlot   \* WorkingBank::min_tick_height
MaxTick(s) == (s + 1) * TicksPerSlot           \* Bank::max_tick_height
IsComplete(s) == bankTicks[s] = MaxTick(s)
Accts(t) == Writable[t] \cup Readonly[t]

Conflicts(t, u) ==
  \/ Writable[t] \cap (Writable[u] \cup Readonly[u]) # {}
  \/ Readonly[t] \cap Writable[u] # {}

(* The slots of a chain, to the first bank.                                *)
RECURSIVE Chain(_)
Chain(s) == IF s = 0 THEN {0} ELSE {s} \cup Chain(parent[s])

Init ==
  /\ tick_height = TicksPerSlot /\ tick_cache = {} /\ working = NoSlot /\ start_bank = 0
  /\ pohPc = "free"
  /\ parent = [s \in Slots |-> NoSlot] /\ lastHash = [s \in Slots |-> 0]
  /\ bankTicks = [s \in Slots |-> IF s = 0 THEN TicksPerSlot ELSE 0]
  /\ frozen = {0}
  /\ version = [s \in Slots |-> [k \in Keys |-> 0]]
  /\ results = [s \in Slots |-> <<>>]
  /\ ledger = [s \in Slots |-> <<>>]
  /\ pc = [w \in Workers |-> "idle"] /\ tx = [w \in Workers |-> NoTx]
  /\ bank = [w \in Workers |-> NoSlot]
  /\ saw = [w \in Workers |-> <<>>] /\ seen = [w \in Workers |-> {}]
  /\ replayPc = "top" /\ tpu_has_bank = FALSE /\ active = {}
  /\ last_reset = NoSlot /\ leader = <<>>
  /\ \E l \in Loads : offered = l[1] /\ lastSlot = l[2]

-----------------------------------------------------------------------------
(* PoH: tick pushes a tick and flushes the cache; flush_cache hands cached *)
(* ticks to the working bank and clears it when it is complete.  Its lock  *)
(* is held throughout, but the bank is visible to everyone.                *)
Flushable == {h \in tick_cache : h <= MaxTick(working)}

Tick ==
  /\ pohPc = "free"
  /\ tick_height < MaxTick(lastSlot)
  /\ tick_height' = tick_height + 1
  /\ tick_cache' = tick_cache \cup {tick_height'}
  /\ pohPc' = IF working # NoSlot /\ tick_height' > MinTick(working) THEN "flush" ELSE "free"
  /\ UNCHANGED <<working, start_bank, bankVars, ledger, workerVars, replayVars>>

(* Bank::register_tick.  The last tick first registers the blockhash, then *)
(* the tick height is raised.                                              *)
FirstCached(h) == h \in Flushable /\ \A g \in Flushable : h <= g
IsBlockBoundary == bankTicks[working] + 1 = MaxTick(working)

RegisterBlockhash ==
  /\ pohPc = "flush" /\ Flushable # {} /\ IsBlockBoundary
  /\ lastHash' = [lastHash EXCEPT ![working] = working]
  /\ pohPc' = "boundary"
  /\ UNCHANGED <<tick_height, tick_cache, working, start_bank, parent, bankTicks, frozen, version,
                 results, ledger, workerVars, replayVars>>

RaiseTickHeight ==
  /\ \/ pohPc = "flush" /\ Flushable # {} /\ ~IsBlockBoundary
     \/ pohPc = "boundary"
  /\ bankTicks' = [bankTicks EXCEPT ![working] = @ + 1]
  /\ \E h \in tick_cache : FirstCached(h) /\ tick_cache' = tick_cache \ {h}
  /\ pohPc' = "flush"
  /\ UNCHANGED <<tick_height, working, start_bank, parent, lastHash, frozen, version, results,
                 ledger, workerVars, replayVars>>

FlushDone ==
  /\ pohPc = "flush" /\ Flushable = {}
  /\ IF tick_height >= MaxTick(working)
     THEN start_bank' = working /\ working' = NoSlot
     ELSE UNCHANGED <<start_bank, working>>
  /\ pohPc' = "free"
  /\ UNCHANGED <<tick_height, tick_cache, bankVars, ledger, workerVars, replayVars>>

-----------------------------------------------------------------------------
(* Workers: process_and_record_transactions.                               *)
Goto(w, to) == pc' = [pc EXCEPT ![w] = to]

TakeTx(w, t) ==
  /\ pc[w] = "idle"
  /\ pohPc = "free" /\ working # NoSlot
  /\ tx' = [tx EXCEPT ![w] = t]
  /\ bank' = [bank EXCEPT ![w] = working]
  /\ Goto(w, "lock")
  /\ UNCHANGED <<pohVars, bankVars, ledger, saw, seen, replayVars, load>>

(* The transaction's accounts are locked, or it stays in the buffer.       *)
Holds(w) == pc[w] \notin {"idle", "lock"}
FinishBatch(w) ==
  /\ Goto(w, "idle")
  /\ tx' = [tx EXCEPT ![w] = NoTx] /\ bank' = [bank EXCEPT ![w] = NoSlot]
  /\ saw' = [saw EXCEPT ![w] = <<>>] /\ seen' = [seen EXCEPT ![w] = {}]

LockFree(w) ==   \* mutant: no account locks
  /\ pc[w] = "lock"
  /\ Goto(w, "check")
  /\ UNCHANGED <<tx, bank, saw, seen, pohVars, bankVars, ledger, replayVars>>
LockAccounts(w) ==
  /\ pc[w] = "lock"
  /\ IF \E v \in Workers : Holds(v) /\ bank[v] = bank[w] /\ Conflicts(tx[w], tx[v])
     THEN FinishBatch(w)
     ELSE Goto(w, "check") /\ UNCHANGED <<tx, bank, saw, seen>>
  /\ UNCHANGED <<pohVars, bankVars, ledger, replayVars>>

(* check_transactions: the age check reads the last blockhash, the status  *)
(* cache knows what the bank and its ancestors committed.                  *)
AlreadyProcessed(s, t) == \E a \in Chain(s) : t \in DOMAIN results[a]
CheckBankOnly(w) ==   \* mutant: the ancestors' statuses are not looked at
  /\ pc[w] = "check"
  /\ Goto(w, IF tx[w] \in DOMAIN results[bank[w]] THEN "unlock" ELSE "execute")
  /\ seen' = [seen EXCEPT ![w] = {lastHash[bank[w]]}]
  /\ UNCHANGED <<tx, bank, saw, pohVars, bankVars, ledger, replayVars>>
Check(w) ==
  /\ pc[w] = "check"
  /\ Goto(w, IF AlreadyProcessed(bank[w], tx[w]) THEN "unlock" ELSE "execute")
  /\ seen' = [seen EXCEPT ![w] = {lastHash[bank[w]]}]
  /\ UNCHANGED <<tx, bank, saw, pohVars, bankVars, ledger, replayVars>>

Execute(w) ==
  /\ pc[w] = "execute"
  /\ saw' = [saw EXCEPT ![w] = [k \in Accts(tx[w]) |-> version[bank[w]][k]]]
  /\ seen' = [seen EXCEPT ![w] = @ \cup {lastHash[bank[w]]}]
  /\ Goto(w, "freezelock")
  /\ UNCHANGED <<tx, bank, pohVars, bankVars, ledger, replayVars>>

(* Bank::freeze_lock, then the last blockhash, then record_transactions.   *)
FreezeLock(w) ==
  /\ pc[w] = "freezelock"
  /\ seen' = [seen EXCEPT ![w] = @ \cup {lastHash[bank[w]]}]
  /\ Goto(w, "record")
  /\ UNCHANGED <<tx, bank, saw, pohVars, bankVars, ledger, replayVars>>
HoldsFreezeLock(w) == pc[w] \in {"record", "commit"}

(* PohRecorder::record, in the PoH thread, while the worker waits.         *)
Record(w) ==
  /\ pc[w] = "record" /\ pohPc = "free"
  /\ IF working = NoSlot \/ working # bank[w]
     THEN Goto(w, "unlock") /\ UNCHANGED ledger
     ELSE ledger' = [ledger EXCEPT ![working] = Append(@, tx[w])] /\ Goto(w, "commit")
  /\ UNCHANGED <<tx, bank, saw, seen, pohVars, bankVars, replayVars>>

(* Bank::commit_transactions with the blockhash read before the record.    *)
CommitRereads(w) ==   \* mutant: the last blockhash is read after the record
  /\ pc[w] = "commit"
  /\ version' = [version EXCEPT ![bank[w]] =
                   [k \in Keys |-> IF k \in Writable[tx[w]] THEN saw[w][k] + 1 ELSE @[k]]]
  /\ results' = [results EXCEPT ![bank[w]] =
                   [t \in DOMAIN @ \cup {tx[w]} |->
                      IF t = tx[w] THEN [saw |-> saw[w], seen |-> seen[w] \cup {lastHash[bank[w]]}]
                                   ELSE @[t]]]
  /\ Goto(w, "unlock")
  /\ UNCHANGED <<tx, bank, saw, seen, pohVars, parent, bankTicks, lastHash, frozen, ledger, replayVars>>
Commit(w) ==
  /\ pc[w] = "commit"
  /\ version' = [version EXCEPT ![bank[w]] =
                   [k \in Keys |-> IF k \in Writable[tx[w]] THEN saw[w][k] + 1 ELSE @[k]]]
  /\ results' = [results EXCEPT ![bank[w]] =
                   [t \in DOMAIN @ \cup {tx[w]} |->
                      IF t = tx[w] THEN [saw |-> saw[w], seen |-> seen[w]] ELSE @[t]]]
  /\ Goto(w, "unlock")
  /\ UNCHANGED <<tx, bank, saw, seen, pohVars, parent, bankTicks, lastHash, frozen, ledger, replayVars>>

(* The freeze lock is dropped with the commit or the failed record, then   *)
(* the batch releases its accounts.                                        *)
Unlock(w) ==
  /\ pc[w] = "unlock"
  /\ FinishBatch(w)
  /\ UNCHANGED <<pohVars, bankVars, ledger, replayVars>>

-----------------------------------------------------------------------------
(* ReplayStage: one round of its loop reads whether PoH has a bank,        *)
(* freezes the active banks that are complete, may reset PoH onto a frozen *)
(* bank, and starts a leader bank if PoH had none.                         *)
LoopTopWorkingOnly ==   \* mutant: only the bank PoH is on is looked at
  /\ replayPc = "top" /\ pohPc = "free"
  /\ tpu_has_bank' = (working # NoSlot)
  /\ active' = {working} \ {NoSlot}
  /\ replayPc' = "replay"
  /\ UNCHANGED <<pohVars, bankVars, ledger, workerVars, last_reset, leader>>
LoopTop ==
  /\ replayPc = "top" /\ pohPc = "free"
  /\ tpu_has_bank' = (working # NoSlot)
  /\ active' = Banks \ frozen
  /\ replayPc' = "replay"
  /\ UNCHANGED <<pohVars, bankVars, ledger, workerVars, last_reset, leader>>

(* process_replay_results, with Bank::freeze: it waits for the workers     *)
(* that hold the freeze lock.                                              *)
FreezeAtOnce(s) == frozen' = frozen \cup {s}   \* mutant: freeze does not take the lock
FreezeBank(s) ==
  /\ \A w \in Workers : bank[w] = s => ~HoldsFreezeLock(w)
  /\ frozen' = frozen \cup {s}

ReplayBank(s) ==
  /\ replayPc = "replay" /\ s \in active
  /\ IF IsComplete(s) THEN FreezeBank(s) ELSE UNCHANGED frozen
  /\ active' = active \ {s}
  /\ UNCHANGED <<pohVars, parent, bankTicks, lastHash, version, results, ledger, workerVars,
                 replayPc, tpu_has_bank, last_reset, leader>>

(* reset_poh_recorder, when fork choice picked a bank PoH is not on.       *)
ResetPoh(s) ==
  /\ replayPc = "replay" /\ active = {} /\ pohPc = "free"
  /\ s \in frozen /\ s # last_reset
  /\ last_reset' = s
  /\ working' = NoSlot /\ start_bank' = s
  /\ tick_cache' = {} /\ tick_height' = MaxTick(s)
  /\ tpu_has_bank' = FALSE
  /\ replayPc' = "start"
  /\ UNCHANGED <<pohPc, bankVars, ledger, workerVars, active, leader>>

KeepPohRereads ==   \* mutant: has_bank is read after the banks were replayed
  /\ replayPc = "replay" /\ active = {} /\ pohPc = "free"
  /\ replayPc' = "start" /\ tpu_has_bank' = (working # NoSlot)
  /\ UNCHANGED <<pohVars, bankVars, ledger, workerVars, active, last_reset, leader>>
KeepPoh ==
  /\ replayPc = "replay" /\ active = {}
  /\ replayPc' = "start"
  /\ UNCHANGED <<pohVars, bankVars, ledger, workerVars, tpu_has_bank, active, last_reset, leader>>

(* maybe_start_leader: the slot PoH has reached, on top of the bank PoH    *)
(* started from.  PoH may tick before the new bank is set.                 *)
PohSlot == tick_height \div TicksPerSlot
StartLeader ==
  /\ replayPc = "start" /\ pohPc = "free"
  /\ ~tpu_has_bank
  /\ PohSlot \in (0 .. lastSlot) \ Banks
  /\ parent' = [parent EXCEPT ![PohSlot] = start_bank]
  /\ bankTicks' = [bankTicks EXCEPT ![PohSlot] = bankTicks[start_bank]]
  /\ lastHash' = [lastHash EXCEPT ![PohSlot] = lastHash[start_bank]]
  /\ version' = [version EXCEPT ![PohSlot] = version[start_bank]]
  /\ leader' = <<PohSlot, start_bank>>
  /\ replayPc' = "setbank"
  /\ UNCHANGED <<pohVars, frozen, results, ledger, workerVars, tpu_has_bank, active, last_reset>>

(* PohRecorder::set_bank, which flushes the cache.                         *)
SetBank ==
  /\ replayPc = "setbank" /\ pohPc = "free"
  /\ working' = leader[1]
  /\ pohPc' = IF tick_height >= MinTick(leader[1]) THEN "flush" ELSE "free"
  /\ leader' = <<>>
  /\ replayPc' = "top"
  /\ UNCHANGED <<tick_height, tick_cache, start_bank, bankVars, ledger, workerVars,
                 tpu_has_bank, active, last_reset>>

NotLeader ==
  /\ replayPc = "start"
  /\ replayPc' = "top" /\ tpu_has_bank' = FALSE   \* a variable of the round
  /\ UNCHANGED <<pohVars, bankVars, ledger, workerVars, active, last_reset, leader>>

-----------------------------------------------------------------------------
Poh == (Tick \/ RegisterBlockhash \/ RaiseTickHeight \/ FlushDone) /\ UNCHANGED load
Worker(w) ==
  /\ \/ LockAccounts(w) \/ Check(w) \/ Execute(w) \/ FreezeLock(w) \/ Record(w)
     \/ Commit(w) \/ Unlock(w)
  /\ UNCHANGED load
Replay ==
  /\ \/ LoopTop \/ KeepPoh \/ StartLeader \/ SetBank \/ NotLeader
     \/ \E s \in Slots : ReplayBank(s) \/ ResetPoh(s)
  /\ UNCHANGED load

Next ==
  \/ Poh
  \/ \E w \in Workers : Worker(w) \/ \E t \in offered : TakeTx(w, t)
  \/ Replay

Spec == Init /\ [][Next]_vars
(* Every step of a thread changes the variables named below its WF.        *)
FairSpec == Spec /\ WF_pohVars(Poh) /\ WF_replayVars(Replay) /\ \A w \in Workers : WF_pc(Worker(w))

-----------------------------------------------------------------------------
Recorded(s) == {ledger[s][i] : i \in DOMAIN ledger[s]}

(* A frozen bank holds exactly what the ledger says of its slot: every     *)
(* recorded transaction is committed before Bank::freeze gets the lock, and*)
(* nothing is committed that was not recorded.                             *)
FrozenMatchesLedger ==
  \A s \in Banks :
    /\ DOMAIN results[s] \subseteq Recorded(s)
    /\ s \in frozen => Recorded(s) = DOMAIN results[s]

(* What a leader committed is what a validator computes that replays the   *)
(* ledger in order: each transaction saw the accounts as the transactions  *)
(* recorded before it left them.                                           *)
WritesBefore(s, i, k) ==
  version[parent[s]][k] + Cardinality({j \in 1 .. i - 1 : k \in Writable[ledger[s][j]]})
ReplayAgrees ==
  \A s \in Banks \ {0} : \A i \in DOMAIN ledger[s] :
    ledger[s][i] \in DOMAIN results[s] =>
      \A k \in Accts(ledger[s][i]) : results[s][ledger[s][i]].saw[k] = WritesBefore(s, i, k)

(* The blockhash a committed transaction was checked, executed and stored  *)
(* with is the one of the slot's start, as it is in replay, although the   *)
(* PoH thread registers the next one without a lock the workers hold.      *)
BlockhashOfSlotStart ==
  \A s \in Banks \ {0} : \A t \in DOMAIN results[s] :
    results[s][t].seen = {lastHash[parent[s]]}

(* No transaction is recorded twice on a chain, although workers may hold  *)
(* the same transaction, retry it, and carry it over to the next bank.     *)
RecordedOnce ==
  \A s \in Banks :
    /\ Cardinality(Recorded(s)) = Len(ledger[s])
    /\ \A a \in Chain(s) \ {s} : Recorded(a) \cap Recorded(s) = {}

(* The assertions of the leader's path: maybe_start_leader finds no bank in*)
(* PoH and a frozen parent, set_bank finds no working bank.                *)
LeaderAssertions ==
  /\ replayPc = "start" /\ ~tpu_has_bank => working = NoSlot /\ start_bank \in frozen
  /\ replayPc = "setbank" => working = NoSlot /\ tick_height >= MinTick(leader[1])

(* Complete banks are frozen in the end, whatever the workers are doing:   *)
(* again and again no complete bank is left that is not.                   *)
CompleteBanksFreeze ==
  []<>(\A s \in Banks : IsComplete(s) => s \in frozen)

=============================================================================
