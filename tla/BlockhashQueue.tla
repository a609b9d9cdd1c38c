--------------------------- MODULE BlockhashQueue ---------------------------
(***************************************************************************)
(* accounts-db/src/blockhash_queue.rs: the queue of recent blockhashes of  *)
(* a bank.  `ages' maps a hash to its index.  Registering a hash drops the *)
(* hashes that have become older than max_age, but only once the queue is  *)
(* full.                                                                   *)
(***************************************************************************)
EXTENDS Integers, FiniteSets

CONSTANT MaxQueueAge   \* MAX_RECENT_BLOCKHASHES

(* genesis_hash on an empty queue.                                         *)
GenesisQueue(hash) == [last_hash_index |-> 0, last_hash |-> hash, ages |-> [h \in {hash} |-> 0]]

IsHashIndexValid(last_hash_index, max_age, hash_index) == last_hash_index - hash_index <= max_age

IsHashValidForAge(q, hash, max_age) ==
  hash \in DOMAIN q.ages /\ IsHashIndexValid(q.last_hash_index, max_age, q.ages[hash])

RegisterHash(q, hash) ==
  LET last == q.last_hash_index + 1
      kept == IF Cardinality(DOMAIN q.ages) >= MaxQueueAge
              THEN {h \in DOMAIN q.ages : IsHashIndexValid(last, MaxQueueAge, q.ages[h])}
              ELSE DOMAIN q.ages
  IN  [last_hash_index |-> last,
       last_hash       |-> hash,
       ages            |-> [h \in kept \cup {hash} |-> IF h = hash THEN last ELSE q.ages[h]]]
=============================================================================
