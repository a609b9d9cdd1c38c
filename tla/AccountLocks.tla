---------------------------- MODULE AccountLocks ----------------------------
(***************************************************************************)
(* AccountLocks (accounts-db/src/accounts.rs) and TransactionBatch         *)
(* (runtime/src/transaction_batch.rs).  Worker threads prepare batches of  *)
(* transactions against one bank.  The table of locks is behind a mutex;   *)
(* a batch takes the mutex to lock all its transactions, and again to      *)
(* unlock those it holds.                                                  *)
(*                                                                         *)
(* A batch is processed in the order of a vector that may be any order, so *)
(* a batch here is a set whose elements are processed in any order.        *)
(***************************************************************************)
EXTENDS Naturals, FiniteSets

CONSTANTS
  Keys,       \* account addresses
  Txs,        \* transactions
  Writable,   \* the writable and the readonly accounts of a transaction
  Readonly,   \*   (SanitizedTransaction::get_account_locks_unchecked)
  Workers,    \* threads that prepare batches
  NoWorker,
  MaxBatch    \* bound: transactions of a batch

(* validate_account_locks refuses a transaction that names a key twice.    *)
ASSUME TxsAssumption ==
  /\ IsFiniteSet(Txs)
  /\ Writable \in [Txs -> SUBSET Keys] /\ Readonly \in [Txs -> SUBSET Keys]
  /\ \A t \in Txs : Writable[t] \cap Readonly[t] = {}
ASSUME WorkersAssumption == NoWorker \notin Workers

VARIABLES
  write_locks,     \* AccountLocks::write_locks
  readonly_locks,  \* AccountLocks::readonly_locks, 0 for a key that is absent
  mutex,           \* the worker inside account_locks.lock(), or NoWorker
  pc,              \* what each worker is doing with its batch
  owner,           \* the worker whose batch a transaction is in
  result,          \* TransactionBatch::lock_results
  release,         \* transactions that unlock_accounts has still to unlock
  unlocked,        \* those it has unlocked, while their result still says Ok
  refused          \* history: transactions of live batches refused with AccountInUse

vars == <<write_locks, readonly_locks, mutex, pc, owner, result, release, unlocked, refused>>
lockVars == <<write_locks, readonly_locks>>

PCs == {"idle", "lock", "locking", "locked", "fail", "drop", "failing", "dropping"}

TypeOK ==
  /\ write_locks \subseteq Keys
  /\ readonly_locks \in [Keys -> Nat]
  /\ mutex \in Workers \cup {NoWorker}
  /\ pc \in [Workers -> PCs]
  /\ owner \in [Txs -> Workers \cup {NoWorker}]
  /\ result \in [Txs -> {"none", "pending", "ok", "err"}]
  /\ release \in [Workers -> SUBSET Txs]
  /\ unlocked \subseteq Txs /\ refused \subseteq Txs

Init ==
  /\ write_locks = {} /\ readonly_locks = [k \in Keys |-> 0]
  /\ mutex = NoWorker
  /\ pc = [w \in Workers |-> "idle"]
  /\ owner = [t \in Txs |-> NoWorker]
  /\ result = [t \in Txs |-> "none"]
  /\ release = [w \in Workers |-> {}]
  /\ unlocked = {} /\ refused = {}

-----------------------------------------------------------------------------
Batch(w) == {t \in Txs : owner[t] = w}
Held == {t \in Txs : result[t] = "ok" /\ t \notin unlocked}
Conflicts(t, u) ==
  \/ Writable[t] \cap (Writable[u] \cup Readonly[u]) # {}
  \/ Readonly[t] \cap Writable[u] # {}

(* prepare_sanitized_batch_with_results: some transactions come with an    *)
(* error, from the cost model or from get_account_locks.                   *)
Prepare(w, txs, errs) ==
  /\ pc[w] = "idle"
  /\ txs # {} /\ Cardinality(txs) <= MaxBatch /\ errs \subseteq txs
  /\ \A t \in txs : owner[t] = NoWorker
  /\ owner' = [t \in Txs |-> IF t \in txs THEN w ELSE owner[t]]
  /\ result' = [t \in Txs |-> IF t \in errs THEN "err"
                              ELSE IF t \in txs THEN "pending" ELSE result[t]]
  /\ pc' = [pc EXCEPT ![w] = "lock"]
  /\ UNCHANGED <<lockVars, mutex, release, unlocked, refused>>

Acquire(w) ==
  /\ mutex = NoWorker
  /\ \/ pc[w] = "lock" /\ pc' = [pc EXCEPT ![w] = "locking"]
     \/ pc[w] = "fail" /\ pc' = [pc EXCEPT ![w] = "failing"]
     \/ pc[w] = "drop" /\ pc' = [pc EXCEPT ![w] = "dropping"]
  /\ mutex' = w
  /\ UNCHANGED <<lockVars, owner, result, release, unlocked, refused>>

(* Accounts::lock_account                                                  *)
IsLockedReadonly(k) == readonly_locks[k] > 0
IsLockedWrite(k) == k \in write_locks
LockableWritesOnly(t) ==   \* mutant: readers are not looked at
  \A k \in Writable[t] \cup Readonly[t] : ~IsLockedWrite(k)
Lockable(t) ==
  /\ \A k \in Writable[t] : ~IsLockedWrite(k) /\ ~IsLockedReadonly(k)
  /\ \A k \in Readonly[t] : ~IsLockedWrite(k)

LockNextPartial(w, t) ==   \* mutant: writable accounts are locked before readonly ones are checked
  /\ pc[w] = "locking"
  /\ owner[t] = w /\ result[t] = "pending"
  /\ write_locks' = write_locks \cup Writable[t]
  /\ IF Lockable(t)
     THEN /\ readonly_locks' = [k \in Keys |-> IF k \in Readonly[t] THEN readonly_locks[k] + 1
                                                                    ELSE readonly_locks[k]]
          /\ result' = [result EXCEPT ![t] = "ok"]
          /\ UNCHANGED refused
     ELSE /\ result' = [result EXCEPT ![t] = "err"]
          /\ refused' = refused \cup {t}
          /\ UNCHANGED readonly_locks
  /\ UNCHANGED <<mutex, pc, owner, release, unlocked>>
LockNext(w, t) ==
  /\ pc[w] = "locking"
  /\ owner[t] = w /\ result[t] = "pending"
  /\ IF Lockable(t)
     THEN /\ write_locks' = write_locks \cup Writable[t]
          /\ readonly_locks' = [k \in Keys |-> IF k \in Readonly[t] THEN readonly_locks[k] + 1
                                                                    ELSE readonly_locks[k]]
          /\ result' = [result EXCEPT ![t] = "ok"]
          /\ UNCHANGED refused
     ELSE /\ result' = [result EXCEPT ![t] = "err"]
          /\ refused' = refused \cup {t}
          /\ UNCHANGED lockVars
  /\ UNCHANGED <<mutex, pc, owner, release, unlocked>>

LockDone(w) ==
  /\ pc[w] = "locking"
  /\ \A t \in Batch(w) : result[t] # "pending"
  /\ mutex' = NoWorker
  /\ pc' = [pc EXCEPT ![w] = "locked"]
  /\ UNCHANGED <<lockVars, owner, result, release, unlocked, refused>>

-----------------------------------------------------------------------------
(* TransactionBatch::unlock_failures: locked transactions turned out to be *)
(* errors.  Their results are overwritten after they are unlocked.         *)
UnlockFailures(w, failures) ==
  /\ pc[w] = "locked"
  /\ failures # {} /\ failures \subseteq {t \in Batch(w) : result[t] = "ok"}
  /\ release' = [release EXCEPT ![w] = failures]
  /\ pc' = [pc EXCEPT ![w] = "fail"]
  /\ UNCHANGED <<lockVars, mutex, owner, result, unlocked, refused>>

(* Drop for TransactionBatch.  unlock_accounts does not take the mutex     *)
(* when no transaction is locked.                                          *)
EndBatch(w) ==
  /\ owner' = [t \in Txs |-> IF owner[t] = w THEN NoWorker ELSE owner[t]]
  /\ result' = [t \in Txs |-> IF owner[t] = w THEN "none" ELSE result[t]]
  /\ refused' = refused \ Batch(w)
  /\ pc' = [pc EXCEPT ![w] = "idle"]

DropBatchAll(w) ==   \* mutant: transactions with an error are unlocked as well
  /\ pc[w] = "locked"
  /\ release' = [release EXCEPT ![w] = Batch(w)]
  /\ pc' = [pc EXCEPT ![w] = "drop"]
  /\ UNCHANGED <<lockVars, mutex, owner, result, unlocked, refused>>
DropBatch(w) ==
  /\ pc[w] = "locked"
  /\ LET locked == {t \in Batch(w) : result[t] = "ok"}
     IN  IF locked = {}
         THEN EndBatch(w) /\ UNCHANGED release
         ELSE /\ release' = [release EXCEPT ![w] = locked]
              /\ pc' = [pc EXCEPT ![w] = "drop"]
              /\ UNCHANGED <<owner, result, refused>>
  /\ UNCHANGED <<lockVars, mutex, unlocked>>

(* Accounts::unlock_account, which skips locks that are not there (a       *)
(* debug_assert in unlock_write and unlock_readonly).                      *)
UnlockNext(w, t) ==
  /\ pc[w] \in {"failing", "dropping"}
  /\ t \in release[w]
  /\ write_locks' = write_locks \ Writable[t]
  /\ readonly_locks' = [k \in Keys |-> IF k \in Readonly[t] /\ IsLockedReadonly(k)
                                       THEN readonly_locks[k] - 1 ELSE readonly_locks[k]]
  /\ release' = [release EXCEPT ![w] = @ \ {t}]
  /\ unlocked' = unlocked \cup {t}
  /\ UNCHANGED <<mutex, pc, owner, result, refused>>

UnlockDone(w) ==
  /\ release[w] = {}
  /\ mutex' = NoWorker
  /\ \/ /\ pc[w] = "failing"
        /\ result' = [t \in Txs |-> IF t \in unlocked THEN "err" ELSE result[t]]
        /\ pc' = [pc EXCEPT ![w] = "locked"]
        /\ UNCHANGED <<owner, refused>>
     \/ pc[w] = "dropping" /\ EndBatch(w)
  /\ unlocked' = {}
  /\ UNCHANGED <<lockVars, release>>

Next ==
  \E w \in Workers :
    \/ \E txs \in SUBSET Txs : \E errs \in SUBSET txs : Prepare(w, txs, errs)
    \/ Acquire(w)
    \/ \E t \in Txs : LockNext(w, t) \/ UnlockNext(w, t)
    \/ LockDone(w)
    \/ \E failures \in SUBSET Txs : UnlockFailures(w, failures)
    \/ DropBatch(w)
    \/ UnlockDone(w)

Spec == Init /\ [][Next]_vars

-----------------------------------------------------------------------------
(* The table is exactly the locks of the transactions that hold them: a    *)
(* key in write_locks has a holder, and the count of a readonly key is the *)
(* number of its readers, however batches of several workers lock, fail    *)
(* and are dropped (lock_account, unlock_account, unlock_failures, drop).  *)
LocksMirrorHolders ==
  /\ write_locks = UNION {Writable[t] : t \in Held}
  /\ \A k \in Keys : readonly_locks[k] = Cardinality({t \in Held : k \in Readonly[t]})

(* Two transactions that hold their accounts at the same time do not       *)
(* conflict, in one batch or in two (lock_account).                        *)
HoldersExclusive == \A t, u \in Held : t # u => ~Conflicts(t, u)

(* unlock_write and unlock_readonly always find the lock they remove, so   *)
(* that their debug assertions never fire and no count goes below zero.    *)
UnlocksFindTheirLock ==
  \A w \in Workers : \A t \in release[w] :
    Writable[t] \subseteq write_locks /\ \A k \in Readonly[t] : IsLockedReadonly(k)

(* The locks implement LockTable: all accounts of a transaction or none,   *)
(* never against a holder, and refused only because of a holder.           *)
Table == INSTANCE LockTable WITH held <- Held
TableSpec == Table!Spec
=============================================================================
