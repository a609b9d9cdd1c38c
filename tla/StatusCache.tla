---------------------------- MODULE StatusCache ----------------------------
(***************************************************************************)
(* runtime/src/status_cache.rs: which transactions were processed, by      *)
(* blockhash and slot.  One cache is shared by all banks.                  *)
(*                                                                         *)
(* `cache' and `slot_deltas' hold triples <<blockhash, key, slot>>, the    *)
(* same facts indexed by blockhash and by slot.  A key is the slice of a   *)
(* message hash; slices of different messages are taken to differ.         *)
(***************************************************************************)
EXTENDS Integers, FiniteSets

CONSTANTS
  Slots,        \* slot numbers
  Hashes,       \* blockhashes
  MsgKeys,      \* message hashes
  MaxEntries    \* MAX_CACHE_ENTRIES

ASSUME SlotsAssumption == Slots \subseteq Nat /\ 0 \in Slots
ASSUME MaxEntriesAssumption == MaxEntries \in Nat \ {0}

VARIABLES
  cache,        \* StatusCache::cache, the key maps
  highest,      \* StatusCache::cache, the highest slot by blockhash; -1: no entry
  roots,        \* StatusCache::roots
  slot_deltas   \* StatusCache::slot_deltas

cacheVars == <<cache, highest, roots, slot_deltas>>

Statuses == Hashes \X MsgKeys \X Slots

CacheTypeOK ==
  /\ cache \subseteq Statuses /\ slot_deltas \subseteq Statuses
  /\ highest \in [Hashes -> Slots \cup {-1}]
  /\ roots \subseteq Slots

(* StatusCache::default: slot 0 is always a root.                          *)
DefaultCache(c, h, r, d) == c = {} /\ h = [b \in Hashes |-> -1] /\ r = {0} /\ d = {}
CacheInit == DefaultCache(cache, highest, roots, slot_deltas)

(* get_status                                                              *)
GetStatusUnrooted(hash, key, ancestors) ==   \* mutant: roots are not looked at
  {s \in Slots : <<hash, key, s>> \in cache /\ s \in ancestors}
GetStatus(hash, key, ancestors) ==
  {s \in Slots : <<hash, key, s>> \in cache /\ s \in ancestors \cup roots}

InsertHighest(hash, slot) == [highest EXCEPT ![hash] = IF slot > @ THEN slot ELSE @]

(* insert and insert_with_slice                                            *)
Insert(hash, key, slot) ==
  /\ cache' = cache \cup {<<hash, key, slot>>}
  /\ highest' = InsertHighest(hash, slot)
  /\ slot_deltas' = slot_deltas \cup {<<hash, key, slot>>}
  /\ UNCHANGED roots

(* add_root and purge_roots on the maps c, h, d.                           *)
IsMin(min, rts) == min \in rts /\ \A r \in rts : min <= r
AddRootToEarly(c, h, d, slot) ==   \* mutant: purges one root too early
  LET rts == roots \cup {slot}
  IN  IF Cardinality(rts) >= MaxEntries
      THEN \E min \in rts :
             /\ IsMin(min, rts)
             /\ roots' = rts \ {min}
             /\ cache' = {e \in c : h[e[1]] > min}
             /\ highest' = [b \in Hashes |-> IF h[b] > min THEN h[b] ELSE -1]
             /\ slot_deltas' = {e \in d : e[3] > min}
      ELSE roots' = rts /\ cache' = c /\ highest' = h /\ slot_deltas' = d
AddRootTo(c, h, d, slot) ==
  LET rts == roots \cup {slot}
  IN  IF Cardinality(rts) > MaxEntries
      THEN \E min \in rts :
             /\ IsMin(min, rts)
             /\ roots' = rts \ {min}
             /\ cache' = {e \in c : h[e[1]] > min}
             /\ highest' = [b \in Hashes |-> IF h[b] > min THEN h[b] ELSE -1]
             /\ slot_deltas' = {e \in d : e[3] > min}
      ELSE roots' = rts /\ cache' = c /\ highest' = h /\ slot_deltas' = d
AddRoot(slot) == AddRootTo(cache, highest, slot_deltas, slot)

(* clear_slot_entries, which panics on a delta without cache entry.        *)
ClearSlotEntries(slot) ==
  LET cleared == {b \in Hashes : \E e \in slot_deltas : e[1] = b /\ e[3] = slot}
      kept    == cache \ {e \in slot_deltas : e[3] = slot}
  IN  /\ cache' = kept
      /\ highest' = [b \in Hashes |-> IF b \in cleared /\ ~\E e \in kept : e[1] = b
                                      THEN -1 ELSE highest[b]]
      /\ slot_deltas' = {e \in slot_deltas : e[3] # slot}
      /\ UNCHANGED roots

(* append, for the delta of one root: its statuses are inserted, then the  *)
(* slot is added to the roots.                                             *)
AppendDelta(slot, delta) ==
  AddRootTo(cache \cup delta,
            [b \in Hashes |-> IF (\E e \in delta : e[1] = b) /\ slot > highest[b]
                              THEN slot ELSE highest[b]],
            slot_deltas \cup delta, slot)

(* from_slot_deltas starts from an empty cache.                            *)
Restore == DefaultCache(cache', highest', roots', slot_deltas')

CacheNext ==
  \/ \E hash \in Hashes, key \in MsgKeys, slot \in Slots : Insert(hash, key, slot)
  \/ \E slot \in Slots : AddRoot(slot) \/ ClearSlotEntries(slot)
  \/ \E slot \in Slots : \E delta \in SUBSET (Hashes \X MsgKeys \X {slot}) : AppendDelta(slot, delta)
  \/ Restore

CacheSpec == CacheInit /\ [][CacheNext]_cacheVars

-----------------------------------------------------------------------------
(* clear_slot_entries finds a cache entry for everything in slot_deltas,   *)
(* so that neither of its panics is reachable, however inserts, purges of  *)
(* old roots, clears and restores follow each other ("Blockhash must exist *)
(* if it exists in self.slot_deltas").                                     *)
DeltasAreCached == \A e \in slot_deltas : e \in cache /\ highest[e[1]] >= e[3]

(* A blockhash has a highest slot exactly when it has entries, none of     *)
(* them above it: purge_roots drops a blockhash only when everything known *)
(* of it is at or below the purged root.                                   *)
HighestBoundsEntries ==
  \A b \in Hashes :
    /\ \A e \in cache : e[1] = b => e[3] <= highest[b]
    /\ highest[b] # -1 => \E e \in cache : e[1] = b
=============================================================================
