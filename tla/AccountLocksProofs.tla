------------------------ MODULE AccountLocksProofs ------------------------
(***************************************************************************)
(* Proofs about AccountLocks: for any accounts, transactions, workers and  *)
(* batch size, the table mirrors the holders of locks, holders do not      *)
(* conflict, and the locks implement LockTable.                            *)
(***************************************************************************)
EXTENDS AccountLocks, FiniteSetTheorems, TLAPS

Inside == {"locking", "failing", "dropping"}
Unlocking == {"failing", "dropping"}

(* What ties workers to transactions.  The mutex is held exactly inside a  *)
(* critical section; what a worker has still to unlock is its own, is      *)
(* locked and is unlocked nowhere else; a dropped batch unlocks all it     *)
(* holds.                                                                  *)
Bookkeeping ==
  /\ \A w \in Workers : pc[w] \in Inside <=> mutex = w
  /\ \A w \in Workers : \A t \in release[w] : owner[t] = w /\ t \in Held
  /\ \A w \in Workers : release[w] # {} => pc[w] \in {"fail", "drop", "failing", "dropping"}
  /\ \A t \in Txs : owner[t] = NoWorker => result[t] = "none"
  /\ \A t \in unlocked : result[t] = "ok" /\ owner[t] \in Workers /\ pc[owner[t]] \in Unlocking
  /\ \A w \in Workers : pc[w] \in {"drop", "dropping"} =>
       \A t \in Batch(w) : result[t] = "ok" => t \in release[w] \cup unlocked

(* The inductive invariant.                                                *)
LocksInv == TypeOK /\ Bookkeeping /\ LocksMirrorHolders /\ HoldersExclusive

Readers(k, txs) == {t \in txs : k \in Readonly[t]}

-----------------------------------------------------------------------------
(* Counting readers: one more transaction, and whether there is one.       *)
LEMMA ReadersCount ==
  ASSUME NEW txs \in SUBSET Txs, NEW k
  PROVE  /\ Cardinality(Readers(k, txs)) \in Nat
         /\ Cardinality(Readers(k, txs)) = 0 <=> \A t \in txs : k \notin Readonly[t]
<1>1. IsFiniteSet(Readers(k, txs))
  BY TxsAssumption, FS_Subset DEF Readers
<1> QED BY <1>1, FS_CardinalityType, FS_EmptySet DEF Readers

LEMMA ReadersAdd ==
  ASSUME NEW txs \in SUBSET Txs, NEW t \in Txs \ txs, NEW k
  PROVE  Cardinality(Readers(k, txs \cup {t})) =
           IF k \in Readonly[t] THEN Cardinality(Readers(k, txs)) + 1
                                ELSE Cardinality(Readers(k, txs))
<1>1. IsFiniteSet(Readers(k, txs)) /\ t \notin Readers(k, txs)
  BY TxsAssumption, FS_Subset DEF Readers
<1>2. CASE k \in Readonly[t]
  <2>1. Readers(k, txs \cup {t}) = Readers(k, txs) \cup {t}
    BY <1>2 DEF Readers
  <2> QED BY <1>1, <1>2, <2>1, FS_AddElement
<1>3. CASE k \notin Readonly[t]
  <2>1. Readers(k, txs \cup {t}) = Readers(k, txs)
    BY <1>3 DEF Readers
  <2> QED BY <1>3, <2>1
<1> QED BY <1>2, <1>3

(* The mirror in terms of Readers.                                         *)
LEMMA MirrorReaders ==
  LocksMirrorHolders <=>
    /\ write_locks = UNION {Writable[t] : t \in Held}
    /\ \A k \in Keys : readonly_locks[k] = Cardinality(Readers(k, Held))
BY DEF LocksMirrorHolders, Readers

(* lock_account succeeds exactly when no holder conflicts.                 *)
LEMMA LockableExact ==
  ASSUME LocksMirrorHolders, NEW t \in Txs
  PROVE  Lockable(t) <=> \A u \in Held : ~Conflicts(t, u)
<1>1. \A k \in Keys : IsLockedReadonly(k) <=> \E u \in Held : k \in Readonly[u]
  <2> TAKE k \in Keys
  <2>1. Held \in SUBSET Txs
    BY DEF Held
  <2>2. readonly_locks[k] = Cardinality(Readers(k, Held))
    BY MirrorReaders
  <2> QED BY <2>1, <2>2, ReadersCount DEF IsLockedReadonly
<1>2. \A k \in Keys : IsLockedWrite(k) <=> \E u \in Held : k \in Writable[u]
  BY DEF LocksMirrorHolders, IsLockedWrite
<1>3. Writable[t] \subseteq Keys /\ Readonly[t] \subseteq Keys
  BY TxsAssumption
<1>4. Lockable(t) <=>
        /\ \A k \in Writable[t] : ~(\E u \in Held : k \in Writable[u])
                                  /\ ~(\E u \in Held : k \in Readonly[u])
        /\ \A k \in Readonly[t] : ~\E u \in Held : k \in Writable[u]
  BY <1>1, <1>2, <1>3 DEF Lockable
<1> QED BY <1>4 DEF Conflicts

(* Steps that touch neither the table nor who holds locks.                 *)
LEMMA SameHolders ==
  ASSUME LocksMirrorHolders, HoldersExclusive, Held' = Held, UNCHANGED lockVars
  PROVE  LocksMirrorHolders' /\ HoldersExclusive'
BY DEF lockVars, LocksMirrorHolders, HoldersExclusive, Conflicts

(* A transaction that conflicts with no holder is locked.                  *)
LEMMA AddHolder ==
  ASSUME LocksMirrorHolders, HoldersExclusive, NEW t \in Txs, t \notin Held,
         \A u \in Held : ~Conflicts(t, u), Held' = Held \cup {t},
         write_locks' = write_locks \cup Writable[t],
         readonly_locks' = [k \in Keys |-> IF k \in Readonly[t] THEN readonly_locks[k] + 1
                                                                ELSE readonly_locks[k]]
  PROVE  LocksMirrorHolders' /\ HoldersExclusive'
<1>1. write_locks' = UNION {Writable[u] : u \in Held'}
  BY DEF LocksMirrorHolders
<1>2. Held \in SUBSET Txs
  BY DEF Held
<1>3. \A k \in Keys : readonly_locks'[k] = Cardinality(Readers(k, Held \cup {t}))
  BY <1>2, MirrorReaders, ReadersAdd
<1>4. \A k \in Keys : readonly_locks'[k] = Cardinality({u \in Held' : k \in Readonly[u]})
  BY <1>3 DEF Readers
<1>5. HoldersExclusive'
  <2>1. \A u \in Held : ~Conflicts(u, t) /\ ~Conflicts(t, u)
    BY DEF Conflicts
  <2>2. \A u, v \in Held \cup {t} : u # v => ~Conflicts(u, v)
    BY <2>1 DEF HoldersExclusive
  <2> QED BY <2>2 DEF HoldersExclusive, Conflicts
<1> QED BY <1>1, <1>4, <1>5 DEF LocksMirrorHolders

(* A holder is unlocked.  No other holder has its writable accounts, and   *)
(* the counts of its readonly accounts are positive.                       *)
LEMMA RemoveHolder ==
  ASSUME TypeOK, LocksMirrorHolders, HoldersExclusive, NEW t \in Held, Held' = Held \ {t},
         write_locks' = write_locks \ Writable[t],
         readonly_locks' = [k \in Keys |-> IF k \in Readonly[t] /\ IsLockedReadonly(k)
                                           THEN readonly_locks[k] - 1 ELSE readonly_locks[k]]
  PROVE  LocksMirrorHolders' /\ HoldersExclusive'
<1> DEFINE rest == Held \ {t}
<1>1. rest \in SUBSET Txs /\ t \in Txs \ rest /\ Held = rest \cup {t}
  BY DEF Held
<1>2. \A u \in rest : Writable[u] \cap Writable[t] = {}
  BY DEF HoldersExclusive, Conflicts
<1>3. write_locks' = UNION {Writable[u] : u \in Held'}
  BY <1>2 DEF LocksMirrorHolders
<1>4. ASSUME NEW k \in Keys PROVE readonly_locks'[k] = Cardinality(Readers(k, rest))
  <2>1. readonly_locks[k] = IF k \in Readonly[t] THEN Cardinality(Readers(k, rest)) + 1
                                                 ELSE Cardinality(Readers(k, rest))
    <3>1. readonly_locks[k] = Cardinality(Readers(k, rest \cup {t}))
      BY <1>1, MirrorReaders
    <3> HIDE DEF rest
    <3> QED BY <1>1, <3>1, ReadersAdd
  <2>2. Cardinality(Readers(k, rest)) \in Nat
    BY <1>1, ReadersCount
  <2> HIDE DEF rest
  <2> QED BY <2>1, <2>2 DEF IsLockedReadonly
<1>5. \A k \in Keys : readonly_locks'[k] = Cardinality({u \in Held' : k \in Readonly[u]})
  BY <1>4 DEF Readers
<1>6. HoldersExclusive'
  BY DEF HoldersExclusive, Conflicts
<1> QED BY <1>3, <1>5, <1>6 DEF LocksMirrorHolders

-----------------------------------------------------------------------------
(* Every step keeps the invariant and is a step of LockTable, or leaves    *)
(* the abstract state alone.                                               *)
TableStep == Table!Next \/ UNCHANGED <<Held, refused>>
StepOK == LocksInv' /\ TableStep

LEMMA QuietStep ==
  ASSUME LocksInv, TypeOK', Bookkeeping', Held' = Held, UNCHANGED lockVars, UNCHANGED refused
  PROVE  StepOK
BY SameHolders DEF LocksInv, StepOK, TableStep

LEMMA PrepareStep ==
  ASSUME LocksInv, NEW w \in Workers, NEW txs \in SUBSET Txs, NEW errs \in SUBSET txs,
         Prepare(w, txs, errs)
  PROVE  StepOK
<1> USE DEF LocksInv
<1>1. \A t \in txs : result[t] = "none" /\ result'[t] \in {"err", "pending"} /\ t \notin unlocked
  BY DEF Prepare, Bookkeeping, TypeOK
<1>2. \A t \in Txs \ txs : result'[t] = result[t] /\ owner'[t] = owner[t]
  BY DEF Prepare
<1>3. Held' = Held
  BY <1>1, <1>2 DEF Held, Prepare
<1>4. TypeOK'
  <2>1. owner' \in [Txs -> Workers \cup {NoWorker}]
    BY DEF TypeOK, Prepare
  <2>2. result' \in [Txs -> {"none", "pending", "ok", "err"}]
    BY DEF TypeOK, Prepare
  <2>3. pc' \in [Workers -> PCs]
    BY DEF TypeOK, Prepare, PCs
  <2> QED BY <2>1, <2>2, <2>3 DEF TypeOK, Prepare, PCs, lockVars
<1>5. Bookkeeping'
  <2>1. \A v \in Workers : pc'[v] = IF v = w THEN "lock" ELSE pc[v]
    BY DEF Prepare, TypeOK
  <2>2. \A t \in Txs : t \in unlocked \/ t \in Held => t \notin txs
    BY <1>1 DEF Held
  <2>3. \A v \in Workers : \A t \in release[v] : t \in Txs /\ t \notin txs
    BY <1>1, <2>2 DEF Bookkeeping, TypeOK
  <2>4. \A t \in Txs : t \in txs => owner'[t] = w
    BY DEF Prepare
  <2>5. \A v \in Workers : pc'[v] \in Inside <=> mutex' = v
    BY <2>1 DEF Bookkeeping, Inside, Prepare
  <2>6. \A v \in Workers : \A t \in release'[v] : owner'[t] = v /\ t \in Held'
    BY <1>2, <1>3, <2>3 DEF Bookkeeping, Prepare
  <2>7. \A v \in Workers : release'[v] # {} => pc'[v] \in {"fail", "drop", "failing", "dropping"}
    BY <2>1 DEF Bookkeeping, Prepare
  <2>8. \A t \in Txs : owner'[t] = NoWorker => result'[t] = "none"
    BY <1>2, <2>4, WorkersAssumption DEF Bookkeeping
  <2>9. \A t \in unlocked' : result'[t] = "ok" /\ owner'[t] \in Workers /\ pc'[owner'[t]] \in Unlocking
    BY <1>2, <2>1, <2>2 DEF Bookkeeping, Prepare, TypeOK, Unlocking
  <2>10. ASSUME NEW v \in Workers, pc'[v] \in {"drop", "dropping"}, NEW t \in Txs,
                owner'[t] = v, result'[t] = "ok"
         PROVE  t \in release'[v] \cup unlocked'
    BY <2>10, <1>1, <1>2, <2>1 DEF Bookkeeping, Prepare, Batch
  <2> QED BY <2>5, <2>6, <2>7, <2>8, <2>9, <2>10 DEF Bookkeeping, Batch
<1> QED BY <1>3, <1>4, <1>5, QuietStep DEF Prepare

LEMMA AcquireStep ==
  ASSUME LocksInv, NEW w \in Workers, Acquire(w)
  PROVE  StepOK
<1> USE DEF LocksInv
<1>1. Held' = Held
  BY DEF Held, Acquire
<1>2. TypeOK'
  <2>1. pc' \in [Workers -> PCs]
    BY DEF TypeOK, Acquire, PCs
  <2> QED BY <2>1 DEF TypeOK, Acquire, PCs, lockVars
<1>3. \A v \in Workers : v # w => pc'[v] = pc[v]
  BY DEF Acquire, TypeOK
<1>4. \/ pc[w] = "lock" /\ pc'[w] = "locking"
      \/ pc[w] = "fail" /\ pc'[w] = "failing"
      \/ pc[w] = "drop" /\ pc'[w] = "dropping"
  BY DEF Acquire, TypeOK
<1>5. \A v \in Workers : pc'[v] \in Inside <=> mutex' = v
  BY <1>3, <1>4, WorkersAssumption DEF Bookkeeping, Inside, Acquire
<1>6. \A t \in unlocked' : result'[t] = "ok" /\ owner'[t] \in Workers /\ pc'[owner'[t]] \in Unlocking
  BY <1>3, <1>4 DEF Bookkeeping, Unlocking, Acquire
<1>7. Bookkeeping'
  BY <1>1, <1>3, <1>4, <1>5, <1>6 DEF Bookkeeping, Batch, Acquire
<1> QED BY <1>1, <1>2, <1>7, QuietStep DEF Acquire

LEMMA LockNextStep ==
  ASSUME LocksInv, NEW w \in Workers, NEW t \in Txs, LockNext(w, t)
  PROVE  StepOK
<1> USE DEF LocksInv
<1>1. /\ result[t] = "pending" /\ owner[t] = w /\ t \notin Held /\ t \notin unlocked
      /\ pc[w] = "locking"
  BY DEF LockNext, Held, Bookkeeping
<1>2. /\ result'[t] \in {"ok", "err"}
      /\ \A u \in Txs : u # t => result'[u] = result[u]
      /\ UNCHANGED <<mutex, pc, owner, release, unlocked>>
  BY DEF LockNext, TypeOK
<1>3. TypeOK'
  <2>1. readonly_locks' \in [Keys -> Nat]
    BY DEF LockNext, TypeOK, lockVars
  <2>2. write_locks' \subseteq Keys
    BY TxsAssumption DEF LockNext, TypeOK, lockVars
  <2> QED BY <2>1, <2>2, <1>2 DEF LockNext, TypeOK
<1>4. Held' = Held \cup (IF result'[t] = "ok" THEN {t} ELSE {})
  BY <1>1, <1>2 DEF Held
<1>5. Bookkeeping'
  <2>1. \A v \in Workers : \A u \in release'[v] : owner'[u] = v /\ u \in Held'
    BY <1>2, <1>4 DEF Bookkeeping
  <2>2. \A u \in Txs : owner'[u] = NoWorker => result'[u] = "none"
    BY <1>1, <1>2, WorkersAssumption DEF Bookkeeping
  <2>3. \A u \in unlocked' : result'[u] = "ok" /\ owner'[u] \in Workers /\ pc'[owner'[u]] \in Unlocking
    BY <1>1, <1>2 DEF Bookkeeping, TypeOK
  <2>4. ASSUME NEW v \in Workers, pc'[v] \in {"drop", "dropping"}, NEW u \in Txs,
               owner'[u] = v, result'[u] = "ok"
        PROVE  u \in release'[v] \cup unlocked'
    BY <2>4, <1>1, <1>2 DEF Bookkeeping, Batch
  <2> QED BY <2>1, <2>2, <2>3, <2>4, <1>2 DEF Bookkeeping, Batch
<1>6. CASE Lockable(t)
  <2>1. \A u \in Held : ~Conflicts(t, u)
    BY <1>6, LockableExact
  <2>2. /\ Held' = Held \cup {t} /\ refused' = refused
        /\ write_locks' = write_locks \cup Writable[t]
        /\ readonly_locks' = [k \in Keys |-> IF k \in Readonly[t] THEN readonly_locks[k] + 1
                                                                  ELSE readonly_locks[k]]
    BY <1>4, <1>6 DEF LockNext, TypeOK
  <2>3. LocksMirrorHolders' /\ HoldersExclusive'
    BY <1>1, <2>1, <2>2, AddHolder
  <2>4. Table!Lock(t)
    BY <1>1, <2>1, <2>2 DEF Table!Lock
  <2> QED BY <1>3, <1>5, <2>3, <2>4 DEF StepOK, TableStep, Table!Next
<1>7. CASE ~Lockable(t)
  <2>1. \E u \in Held : Conflicts(t, u)
    BY <1>7, LockableExact
  <2>2. Held' = Held /\ refused' = refused \cup {t} /\ UNCHANGED lockVars
    BY <1>4, <1>7 DEF LockNext, TypeOK
  <2>3. LocksMirrorHolders' /\ HoldersExclusive'
    BY <2>2, SameHolders
  <2>4. Table!Refuse(t)
    BY <2>1, <2>2 DEF Table!Refuse
  <2> QED BY <1>3, <1>5, <2>3, <2>4 DEF StepOK, TableStep, Table!Next
<1> QED BY <1>6, <1>7

LEMMA LockDoneStep ==
  ASSUME LocksInv, NEW w \in Workers, LockDone(w)
  PROVE  StepOK
<1> USE DEF LocksInv
<1>1. Held' = Held
  BY DEF Held, LockDone
<1>2. TypeOK'
  <2>1. pc' \in [Workers -> PCs]
    BY DEF TypeOK, LockDone, PCs
  <2> QED BY <2>1 DEF TypeOK, LockDone, lockVars
<1>3. \A v \in Workers : pc'[v] = IF v = w THEN "locked" ELSE pc[v]
  BY DEF LockDone, TypeOK
<1>4. mutex = w /\ release[w] = {} /\ \A t \in unlocked : owner[t] # w
  BY DEF LockDone, Bookkeeping, Inside, Unlocking
<1>5. \A v \in Workers : pc'[v] \in Inside <=> mutex' = v
  BY <1>3, <1>4, WorkersAssumption DEF Bookkeeping, Inside, LockDone
<1>6. \A t \in unlocked' : result'[t] = "ok" /\ owner'[t] \in Workers /\ pc'[owner'[t]] \in Unlocking
  BY <1>3, <1>4 DEF Bookkeeping, LockDone
<1>7. Bookkeeping'
  BY <1>1, <1>3, <1>4, <1>5, <1>6 DEF Bookkeeping, Batch, LockDone
<1> QED BY <1>1, <1>2, <1>7, QuietStep DEF LockDone

LEMMA UnlockFailuresStep ==
  ASSUME LocksInv, NEW w \in Workers, NEW failures \in SUBSET Txs, UnlockFailures(w, failures)
  PROVE  StepOK
<1> USE DEF LocksInv
<1>1. Held' = Held
  BY DEF Held, UnlockFailures
<1>2. TypeOK'
  <2>1. pc' \in [Workers -> PCs] /\ release' \in [Workers -> SUBSET Txs]
    BY DEF TypeOK, UnlockFailures, PCs
  <2> QED BY <2>1 DEF TypeOK, UnlockFailures, lockVars
<1>3. \A v \in Workers : /\ pc'[v] = IF v = w THEN "fail" ELSE pc[v]
                         /\ release'[v] = IF v = w THEN failures ELSE release[v]
  BY DEF UnlockFailures, TypeOK
<1>4. pc[w] = "locked" /\ \A t \in unlocked : owner[t] # w
  BY DEF UnlockFailures, Bookkeeping, Unlocking
<1>5. \A t \in failures : owner[t] = w /\ t \in Held
  BY <1>4 DEF UnlockFailures, Batch, Held
<1>6. \A v \in Workers : pc'[v] \in Inside <=> mutex' = v
  BY <1>3, <1>4 DEF Bookkeeping, Inside, UnlockFailures
<1>7. \A v \in Workers : \A t \in release'[v] : owner'[t] = v /\ t \in Held'
  BY <1>1, <1>3, <1>5 DEF Bookkeeping, UnlockFailures
<1>8. \A t \in unlocked' : result'[t] = "ok" /\ owner'[t] \in Workers /\ pc'[owner'[t]] \in Unlocking
  BY <1>3, <1>4 DEF Bookkeeping, UnlockFailures
<1>9. Bookkeeping'
  BY <1>3, <1>6, <1>7, <1>8 DEF Bookkeeping, Batch, UnlockFailures
<1> QED BY <1>1, <1>2, <1>9, QuietStep DEF UnlockFailures

(* The end of a batch that holds nothing: no holder is lost.               *)
LEMMA EndBatchStep ==
  ASSUME LocksInv, NEW w \in Workers, EndBatch(w), release' = release, release[w] = {},
         \A t \in Batch(w) : result[t] = "ok" => t \in unlocked, UNCHANGED lockVars,
         \/ pc[w] = "locked" /\ UNCHANGED <<mutex, unlocked>>
         \/ pc[w] = "dropping" /\ mutex' = NoWorker /\ unlocked' = {}
  PROVE  StepOK
<1> USE DEF LocksInv
<1>1. \A t \in Txs : /\ owner[t] = w => owner'[t] = NoWorker /\ result'[t] = "none"
                     /\ owner[t] # w => owner'[t] = owner[t] /\ result'[t] = result[t]
  BY DEF EndBatch, TypeOK
<1>2. \A v \in Workers : pc'[v] = IF v = w THEN "idle" ELSE pc[v]
  BY DEF EndBatch, TypeOK
<1>3. \A t \in unlocked : t \in Txs /\ result[t] = "ok" /\ owner[t] \in Workers
                          /\ pc[owner[t]] \in Unlocking
  BY DEF Bookkeeping, TypeOK
<1>4. pc[w] = "dropping" => \A t \in unlocked : owner[t] = w
  BY <1>3 DEF Bookkeeping, Inside, Unlocking
<1>5. pc[w] = "locked" => \A t \in unlocked : owner[t] # w
  BY <1>3 DEF Unlocking
<1>6. Held' = Held
  <2>1. \A t \in Held : owner[t] # w /\ t \in Txs
    BY DEF Batch, Held
  <2>2. \A t \in Txs : owner[t] # w => (t \in unlocked <=> t \in unlocked')
    BY <1>4
  <2> QED BY <1>1, <2>1, <2>2 DEF Held
<1>7. TypeOK'
  <2>1. pc' \in [Workers -> PCs]
    BY DEF TypeOK, EndBatch, PCs
  <2>2. owner' \in [Txs -> Workers \cup {NoWorker}]
    BY DEF TypeOK, EndBatch
  <2>3. result' \in [Txs -> {"none", "pending", "ok", "err"}]
    BY DEF TypeOK, EndBatch
  <2> QED BY <2>1, <2>2, <2>3 DEF TypeOK, EndBatch, lockVars
<1>8. Bookkeeping'
  <2>1. \A v \in Workers : pc'[v] \in Inside <=> mutex' = v
    BY <1>2, WorkersAssumption DEF Bookkeeping, Inside
  <2>2. \A v \in Workers : \A t \in release'[v] : owner'[t] = v /\ t \in Held'
    BY <1>1, <1>6 DEF Bookkeeping, TypeOK
  <2>3. \A v \in Workers : release'[v] # {} => pc'[v] \in {"fail", "drop", "failing", "dropping"}
    BY <1>2 DEF Bookkeeping
  <2>4. \A t \in Txs : owner'[t] = NoWorker => result'[t] = "none"
    BY <1>1 DEF Bookkeeping
  <2>5. \A t \in unlocked' : result'[t] = "ok" /\ owner'[t] \in Workers /\ pc'[owner'[t]] \in Unlocking
    BY <1>1, <1>2, <1>3, <1>5
  <2>6. ASSUME NEW v \in Workers, pc'[v] \in {"drop", "dropping"}, NEW t \in Txs,
               owner'[t] = v, result'[t] = "ok"
        PROVE  t \in release'[v] \cup unlocked'
    <3>1. v # w /\ pc[v] = pc'[v] /\ owner[t] = v /\ result[t] = "ok"
      BY <2>6, <1>1, <1>2, WorkersAssumption
    <3>2. t \in release[v] \cup unlocked
      BY <3>1, <2>6 DEF Bookkeeping, Batch
    <3>3. t \in unlocked => t \in unlocked'
      BY <3>1, <1>4
    <3> QED BY <3>2, <3>3
  <2> QED BY <2>1, <2>2, <2>3, <2>4, <2>5, <2>6 DEF Bookkeeping, Batch
<1>9. LocksMirrorHolders' /\ HoldersExclusive'
  BY <1>6, SameHolders
<1>10. Table!Report(Batch(w)) /\ Batch(w) \in SUBSET Txs
  BY <1>6 DEF Table!Report, EndBatch, Batch
<1> QED BY <1>7, <1>8, <1>9, <1>10 DEF StepOK, TableStep, Table!Next

LEMMA DropBatchStep ==
  ASSUME LocksInv, NEW w \in Workers, DropBatch(w)
  PROVE  StepOK
<1> USE DEF LocksInv
<1> DEFINE locked == {t \in Batch(w) : result[t] = "ok"}
<1>1. pc[w] = "locked" /\ release[w] = {} /\ \A t \in unlocked : owner[t] # w
  BY DEF DropBatch, Bookkeeping, Unlocking
<1>2. CASE locked = {}
  BY <1>1, <1>2, EndBatchStep DEF DropBatch
<1>3. CASE locked # {}
  <2>1. /\ release' = [release EXCEPT ![w] = locked] /\ pc' = [pc EXCEPT ![w] = "drop"]
        /\ UNCHANGED <<lockVars, mutex, owner, result, unlocked, refused>>
    BY <1>3 DEF DropBatch
  <2>2. Held' = Held
    BY <2>1 DEF Held
  <2>3. locked \in SUBSET Txs /\ \A t \in locked : owner[t] = w /\ t \in Held
    BY <1>1 DEF Batch, Held
  <2>4. \A t \in Batch(w) : result[t] = "ok" => t \in locked
    OBVIOUS
  <2> HIDE DEF locked
  <2>5. TypeOK'
    <3>1. pc' \in [Workers -> PCs] /\ release' \in [Workers -> SUBSET Txs]
      BY <2>1, <2>3 DEF TypeOK, PCs
    <3> QED BY <2>1, <3>1 DEF TypeOK, lockVars
  <2>6. \A v \in Workers : /\ pc'[v] = IF v = w THEN "drop" ELSE pc[v]
                           /\ release'[v] = IF v = w THEN locked ELSE release[v]
    BY <2>1 DEF TypeOK
  <2>7. \A v \in Workers : pc'[v] \in Inside <=> mutex' = v
    BY <1>1, <2>1, <2>6 DEF Bookkeeping, Inside
  <2>8. \A v \in Workers : \A t \in release'[v] : owner'[t] = v /\ t \in Held'
    BY <2>1, <2>2, <2>3, <2>6 DEF Bookkeeping
  <2>9. \A t \in unlocked' : result'[t] = "ok" /\ owner'[t] \in Workers /\ pc'[owner'[t]] \in Unlocking
    BY <1>1, <2>1, <2>6 DEF Bookkeeping
  <2>10. \A v \in Workers : release'[v] # {} => pc'[v] \in {"fail", "drop", "failing", "dropping"}
    BY <2>6 DEF Bookkeeping
  <2>11. \A x \in Txs : owner'[x] = NoWorker => result'[x] = "none"
    BY <2>1 DEF Bookkeeping
  <2>12. ASSUME NEW v \in Workers, pc'[v] \in {"drop", "dropping"},
                NEW x \in Txs, owner[x] = v, result[x] = "ok"
         PROVE  x \in release'[v] \cup unlocked
    <3>1. CASE v = w
      BY <2>4, <2>6, <2>12, <3>1 DEF Batch
    <3>2. CASE v # w
      BY <2>6, <2>12, <3>2 DEF Bookkeeping, Batch
    <3> QED BY <3>1, <3>2
  <2>13. Bookkeeping'
    BY <2>1, <2>7, <2>8, <2>9, <2>10, <2>11, <2>12 DEF Bookkeeping, Batch
  <2> QED BY <2>1, <2>2, <2>5, <2>13, QuietStep
<1> QED BY <1>2, <1>3

LEMMA UnlockNextStep ==
  ASSUME LocksInv, NEW w \in Workers, NEW t \in Txs, UnlockNext(w, t)
  PROVE  StepOK
<1> USE DEF LocksInv
<1>1. t \in Held /\ result[t] = "ok" /\ owner[t] = w /\ pc[w] \in Unlocking /\ mutex = w
  BY DEF UnlockNext, Bookkeeping, Held, Unlocking, Inside
<1>2. UNCHANGED <<mutex, pc, owner, result, refused>> /\ unlocked' = unlocked \cup {t}
  BY DEF UnlockNext
<1>3. Held' = Held \ {t}
  BY <1>2 DEF Held
<1>4. \A v \in Workers : release'[v] = IF v = w THEN release[v] \ {t} ELSE release[v]
  BY DEF UnlockNext, TypeOK
<1>5. TypeOK'
  <2>1. readonly_locks' \in [Keys -> Nat]
    BY DEF UnlockNext, TypeOK, IsLockedReadonly
  <2>2. release' \in [Workers -> SUBSET Txs]
    BY DEF UnlockNext, TypeOK
  <2> QED BY <2>1, <2>2, <1>2 DEF UnlockNext, TypeOK
<1>6. Bookkeeping'
  <2>1. ASSUME NEW v \in Workers, NEW u \in release'[v] PROVE owner'[u] = v /\ u \in Held'
    <3>1. u \in release[v] /\ (v = w => u # t)
      BY <1>4
    <3>2. owner[u] = v /\ u \in Held
      BY <3>1 DEF Bookkeeping
    <3> QED BY <3>1, <3>2, <1>1, <1>2, <1>3
  <2>2. \A v \in Workers : release'[v] # {} => pc'[v] \in {"fail", "drop", "failing", "dropping"}
    BY <1>2, <1>4 DEF Bookkeeping
  <2>3. \A u \in unlocked' : result'[u] = "ok" /\ owner'[u] \in Workers /\ pc'[owner'[u]] \in Unlocking
    BY <1>1, <1>2 DEF Bookkeeping
  <2>4. ASSUME NEW v \in Workers, pc'[v] \in {"drop", "dropping"}, NEW u \in Txs,
               owner'[u] = v, result'[u] = "ok"
        PROVE  u \in release'[v] \cup unlocked'
    <3>1. u \in release[v] \cup unlocked
      BY <2>4, <1>2 DEF Bookkeeping, Batch
    <3> QED BY <3>1, <1>2, <1>4
  <2> QED BY <2>1, <2>2, <2>3, <2>4, <1>2 DEF Bookkeeping, Batch
<1>7. LocksMirrorHolders' /\ HoldersExclusive'
  BY <1>1, <1>3, RemoveHolder DEF UnlockNext
<1>8. Table!Unlock(t)
  BY <1>1, <1>2, <1>3 DEF Table!Unlock
<1> QED BY <1>5, <1>6, <1>7, <1>8 DEF StepOK, TableStep, Table!Next

LEMMA UnlockDoneStep ==
  ASSUME LocksInv, NEW w \in Workers, UnlockDone(w)
  PROVE  StepOK
<1> USE DEF LocksInv
<1>1. CASE pc[w] = "dropping"
  <2>1. \A t \in Batch(w) : result[t] = "ok" => t \in unlocked
    BY <1>1 DEF UnlockDone, Bookkeeping
  <2> QED BY <1>1, <2>1, EndBatchStep DEF UnlockDone
<1>2. CASE pc[w] = "failing"
  <2>1. /\ release[w] = {} /\ mutex' = NoWorker /\ unlocked' = {}
        /\ UNCHANGED <<lockVars, owner, release, refused>>
        /\ pc' = [pc EXCEPT ![w] = "locked"]
        /\ result' = [t \in Txs |-> IF t \in unlocked THEN "err" ELSE result[t]]
    BY <1>2 DEF UnlockDone
  <2>2. \A v \in Workers : pc'[v] = IF v = w THEN "locked" ELSE pc[v]
    BY <2>1 DEF TypeOK
  <2>3. Held' = Held
    BY <2>1 DEF Held
  <2>4. TypeOK'
    <3>1. pc' \in [Workers -> PCs] /\ result' \in [Txs -> {"none", "pending", "ok", "err"}]
      BY <2>1 DEF TypeOK, PCs
    <3> QED BY <2>1, <3>1 DEF TypeOK, lockVars
  <2>5. \A t \in unlocked : t \in Txs /\ owner[t] = w
    BY <1>2 DEF Bookkeeping, Inside, Unlocking, TypeOK
  <2>6. Bookkeeping'
    <3>1. \A v \in Workers : pc'[v] \in Inside <=> mutex' = v
      BY <1>2, <2>1, <2>2, WorkersAssumption DEF Bookkeeping, Inside
    <3>2. \A v \in Workers : \A t \in release'[v] : owner'[t] = v /\ t \in Held'
      BY <2>1, <2>3 DEF Bookkeeping
    <3>3. \A v \in Workers : release'[v] # {} => pc'[v] \in {"fail", "drop", "failing", "dropping"}
      BY <2>1, <2>2 DEF Bookkeeping
    <3>4. \A t \in Txs : owner'[t] = NoWorker => result'[t] = "none"
      BY <2>1, <2>5, WorkersAssumption DEF Bookkeeping
    <3>5. ASSUME NEW v \in Workers, pc'[v] \in {"drop", "dropping"}, NEW t \in Txs,
                 owner'[t] = v, result'[t] = "ok"
          PROVE  t \in release'[v] \cup unlocked'
      <4>1. v # w /\ pc[v] = pc'[v] /\ owner[t] = v /\ result[t] = "ok" /\ t \notin unlocked
        BY <3>5, <2>1, <2>2, <2>5
      <4> QED BY <4>1, <3>5, <2>1 DEF Bookkeeping, Batch
    <3> QED BY <3>1, <3>2, <3>3, <3>4, <3>5, <2>1 DEF Bookkeeping, Batch
  <2> QED BY <2>1, <2>3, <2>4, <2>6, QuietStep
<1> QED BY <1>1, <1>2 DEF UnlockDone

-----------------------------------------------------------------------------
(* Initially the table is empty and nothing is held.                       *)
LEMMA InitLocks == Init => LocksInv /\ Table!Init
<1> SUFFICES ASSUME Init PROVE LocksInv /\ Table!Init
  OBVIOUS
<1>1. Held = {}
  BY DEF Init, Held
<1>2. \A k \in Keys : readonly_locks[k] = Cardinality({t \in Held : k \in Readonly[t]})
  BY <1>1, FS_EmptySet DEF Init
<1>3. TypeOK
  BY DEF Init, TypeOK, PCs
<1>4. Bookkeeping
  BY WorkersAssumption DEF Init, Bookkeeping, Inside, Batch
<1> QED BY <1>1, <1>2, <1>3, <1>4 DEF Init, LocksInv, LocksMirrorHolders, HoldersExclusive, Table!Init

(* Every step of the specification.                                        *)
LEMMA NextLocks == LocksInv /\ [Next]_vars => StepOK
<1> SUFFICES ASSUME LocksInv, [Next]_vars PROVE StepOK
  OBVIOUS
<1>1. CASE UNCHANGED vars
  <2>1. Held' = Held /\ TypeOK' /\ Bookkeeping' /\ UNCHANGED lockVars /\ UNCHANGED refused
    BY <1>1 DEF vars, lockVars, Held, TypeOK, Bookkeeping, Batch, LocksInv
  <2> QED BY <2>1, QuietStep
<1>2. CASE Next
  BY <1>2, PrepareStep, AcquireStep, LockNextStep, LockDoneStep, UnlockFailuresStep,
     DropBatchStep, UnlockNextStep, UnlockDoneStep DEF Next
<1> QED BY <1>1, <1>2

(* Transactions that hold their accounts at the same time do not conflict, *)
(* and the table of lock_account and unlock_account mirrors the holders.   *)
THEOREM LocksCorrect == Spec => [](TypeOK /\ LocksMirrorHolders /\ HoldersExclusive)
<1>1. LocksInv /\ [Next]_vars => LocksInv'
  BY NextLocks DEF StepOK
<1>2. LocksInv => TypeOK /\ LocksMirrorHolders /\ HoldersExclusive
  BY DEF LocksInv
<1> QED BY <1>1, <1>2, InitLocks, PTL DEF Spec

(* unlock_account removes only locks that are there: the debug assertions  *)
(* of unlock_write and unlock_readonly hold.                               *)
THEOREM UnlocksSafe == Spec => []UnlocksFindTheirLock
<1>1. LocksInv /\ [Next]_vars => LocksInv'
  BY NextLocks DEF StepOK
<1>2. LocksInv => UnlocksFindTheirLock
  <2> SUFFICES ASSUME LocksInv, NEW w \in Workers, NEW t \in release[w]
               PROVE  Writable[t] \subseteq write_locks /\ \A k \in Readonly[t] : IsLockedReadonly(k)
    BY DEF UnlocksFindTheirLock
  <2>1. t \in Held /\ t \in Txs /\ Held \in SUBSET Txs
    BY DEF LocksInv, Bookkeeping, Held
  <2>2. Writable[t] \subseteq write_locks
    BY <2>1 DEF LocksInv, LocksMirrorHolders
  <2>3. ASSUME NEW k \in Readonly[t] PROVE IsLockedReadonly(k)
    <3>1. k \in Keys
      BY <2>1, TxsAssumption
    <3>2. readonly_locks[k] = Cardinality(Readers(k, Held))
      BY <3>1, MirrorReaders DEF LocksInv
    <3> QED BY <2>1, <3>2, ReadersCount DEF IsLockedReadonly
  <2> QED BY <2>2, <2>3
<1> QED BY <1>1, <1>2, InitLocks, PTL DEF Spec

(* The locks, with their mutex, their batches and their failures,          *)
(* implement LockTable.                                                    *)
THEOREM LocksRefineTable == Spec => TableSpec
<1>1. LocksInv /\ [Next]_vars => LocksInv' /\ [Table!Next]_<<Held, refused>>
  BY NextLocks DEF StepOK, TableStep
<1> QED BY <1>1, InitLocks, PTL DEF Spec, TableSpec, Table!Spec
=============================================================================
