------------------------- MODULE StatusCacheProofs -------------------------
(***************************************************************************)
(* Proofs about StatusCache: its two invariants hold for any sets of slots,*)
(* blockhashes and keys, and any capacity.                                 *)
(***************************************************************************)
EXTENDS StatusCache, TLAPS

(* The three facts are inductive together.  That a blockhash without       *)
(* highest slot has no entries follows from slots being natural numbers.   *)
CacheInv == CacheTypeOK /\ DeltasAreCached /\ HighestBoundsEntries

(* Slots, and the -1 that stands for no slot, are integers.                *)
LEMMA SlotsAreInts ==
  /\ Slots \cup {-1} \subseteq Int /\ Slots \subseteq Nat
  /\ \A e \in Statuses : e[1] \in Hashes /\ e[3] \in Slots
<1>1. \A e \in Statuses : e[1] \in Hashes /\ e[3] \in Slots
  BY DEF Statuses
<1> QED BY <1>1, SlotsAssumption

(* StatusCache::default satisfies the invariant.                           *)
LEMMA InitCacheInv == CacheInit => CacheInv
  BY SlotsAssumption DEF CacheInit, DefaultCache, CacheInv, CacheTypeOK, DeltasAreCached,
     HighestBoundsEntries, Statuses

(* insert keeps it: the new status is in both maps, and the highest slot   *)
(* of its blockhash is raised if need be.                                  *)
LEMMA InsertCacheInv ==
  ASSUME CacheInv, NEW hash \in Hashes, NEW key \in MsgKeys, NEW slot \in Slots,
         Insert(hash, key, slot)
  PROVE  CacheInv'
<1> DEFINE new == <<hash, key, slot>>
<1>1. new \in Statuses /\ new[1] = hash /\ new[3] = slot
  BY DEF Statuses
<1>2. CacheTypeOK'
  BY <1>1, SlotsAssumption DEF CacheInv, CacheTypeOK, Insert, InsertHighest
<1>3. \A b \in Hashes : highest[b] \in Int
  BY SlotsAreInts DEF CacheInv, CacheTypeOK
<1>4. slot \in Int /\ highest \in [Hashes -> Int]
  BY SlotsAreInts DEF CacheInv, CacheTypeOK
<1>5. \A e \in Statuses : e[1] \in Hashes /\ e[3] \in Int
  BY SlotsAreInts
<1>6. /\ highest' = [highest EXCEPT ![hash] = IF slot > highest[hash] THEN slot ELSE highest[hash]]
      /\ \A b \in Hashes : highest'[b] \in Int /\ highest'[b] >= highest[b]
                          /\ (b # hash => highest'[b] = highest[b])
      /\ highest'[hash] >= slot
  <2>1. highest' = [highest EXCEPT ![hash] = IF slot > highest[hash] THEN slot ELSE highest[hash]]
    BY DEF Insert, InsertHighest
  <2> QED BY <2>1, <1>3, <1>4
<1>7. DeltasAreCached'
  <2> SUFFICES ASSUME NEW e \in slot_deltas' PROVE e \in cache' /\ highest'[e[1]] >= e[3]
    BY DEF DeltasAreCached
  <2>1. CASE e = new
    BY <2>1, <1>1, <1>6 DEF Insert
  <2>2. CASE e \in slot_deltas
    BY <2>2, <1>3, <1>5, <1>6 DEF CacheInv, CacheTypeOK, DeltasAreCached, Insert
  <2> QED BY <2>1, <2>2 DEF Insert
<1>8. HighestBoundsEntries'
  <2> SUFFICES ASSUME NEW b \in Hashes
               PROVE  /\ \A e \in cache' : e[1] = b => e[3] <= highest'[b]
                      /\ highest'[b] # -1 => \E e \in cache' : e[1] = b
    BY DEF HighestBoundsEntries
  <2>1. ASSUME NEW e \in cache', e[1] = b PROVE e[3] <= highest'[b]
    <3>1. CASE e = new
      BY <3>1, <2>1, <1>1, <1>4, <1>6
    <3>2. CASE e \in cache
      BY <3>2, <2>1, <1>3, <1>5, <1>6 DEF CacheInv, CacheTypeOK, HighestBoundsEntries
    <3> QED BY <3>1, <3>2 DEF Insert
  <2>2. ASSUME highest'[b] # -1 PROVE \E e \in cache' : e[1] = b
    <3>1. CASE b = hash
      BY <3>1, <1>1 DEF Insert
    <3>2. CASE b # hash
      BY <3>2, <2>2, <1>6 DEF CacheInv, HighestBoundsEntries, Insert
    <3> QED BY <3>1, <3>2
  <2> QED BY <2>1, <2>2
<1> QED BY <1>2, <1>7, <1>8 DEF CacheInv

(* A purge at a root keeps it: a delta that stays has a slot above the     *)
(* purged root, so its blockhash has a highest slot above it and is kept   *)
(* with all its entries.  c, h and d are the maps before the purge.        *)
LEMMA AddRootToCacheInv ==
  ASSUME NEW c \in SUBSET Statuses, NEW d \in SUBSET Statuses,
         NEW h \in [Hashes -> Slots \cup {-1}],
         roots \subseteq Slots,
         \A e \in d : e \in c /\ h[e[1]] >= e[3],
         \A b \in Hashes : (\A e \in c : e[1] = b => e[3] <= h[b])
                           /\ (h[b] # -1 => \E e \in c : e[1] = b),
         NEW slot \in Slots, AddRootTo(c, h, d, slot)
  PROVE  CacheInv'
<1>1. \A e \in Statuses : e[1] \in Hashes /\ e[3] \in Nat
  BY SlotsAreInts
<1>2. \A b \in Hashes : h[b] \in Int
  BY SlotsAreInts
<1>3. CASE roots' = roots \cup {slot} /\ cache' = c /\ highest' = h /\ slot_deltas' = d
  BY <1>3 DEF CacheInv, CacheTypeOK, DeltasAreCached, HighestBoundsEntries
<1>4. ASSUME NEW min \in roots \cup {slot},
             roots' = (roots \cup {slot}) \ {min},
             cache' = {e \in c : h[e[1]] > min},
             highest' = [b \in Hashes |-> IF h[b] > min THEN h[b] ELSE -1],
             slot_deltas' = {e \in d : e[3] > min}
      PROVE  CacheInv'
  <2>1. min \in Nat
    BY SlotsAreInts
  <2>2. CacheTypeOK'
    BY <1>4 DEF CacheTypeOK
  <2>3. DeltasAreCached'
    <3> SUFFICES ASSUME NEW e \in slot_deltas' PROVE e \in cache' /\ highest'[e[1]] >= e[3]
      BY DEF DeltasAreCached
    <3>1. e \in d /\ e \in c /\ e[1] \in Hashes /\ e[3] \in Nat /\ e[3] > min /\ h[e[1]] >= e[3]
      BY <1>4, <1>1
    <3>2. h[e[1]] > min
      BY <3>1, <1>2, <2>1
    <3> QED BY <3>1, <3>2, <1>4
  <2>4. HighestBoundsEntries'
    <3> SUFFICES ASSUME NEW b \in Hashes
                 PROVE  /\ \A e \in cache' : e[1] = b => e[3] <= highest'[b]
                        /\ highest'[b] # -1 => \E e \in cache' : e[1] = b
      BY DEF HighestBoundsEntries
    <3>1. ASSUME NEW e \in cache', e[1] = b PROVE e[3] <= highest'[b]
      BY <3>1, <1>4
    <3>2. ASSUME highest'[b] # -1 PROVE \E e \in cache' : e[1] = b
      <4>1. h[b] > min
        BY <3>2, <1>4
      <4>2. PICK e \in c : e[1] = b
        BY <4>1, <1>2, <2>1
      <4> QED BY <4>1, <4>2, <1>4
    <3> QED BY <3>1, <3>2
  <2> QED BY <2>2, <2>3, <2>4 DEF CacheInv
<1> QED BY <1>3, <1>4 DEF AddRootTo

(* add_root on the cache itself.                                           *)
LEMMA AddRootCacheInv ==
  ASSUME CacheInv, NEW slot \in Slots, AddRoot(slot)
  PROVE  CacheInv'
<1>1. \A e \in slot_deltas : e \in cache /\ highest[e[1]] >= e[3]
  BY DEF CacheInv, DeltasAreCached
<1>2. \A b \in Hashes : (\A e \in cache : e[1] = b => e[3] <= highest[b])
                        /\ (highest[b] # -1 => \E e \in cache : e[1] = b)
  BY DEF CacheInv, HighestBoundsEntries
<1>3. AddRootTo(cache, highest, slot_deltas, slot)
  BY DEF AddRoot
<1>4. /\ cache \in SUBSET Statuses /\ slot_deltas \in SUBSET Statuses
      /\ highest \in [Hashes -> Slots \cup {-1}] /\ roots \subseteq Slots
  BY DEF CacheInv, CacheTypeOK
<1> QED BY <1>1, <1>2, <1>3, <1>4, AddRootToCacheInv

(* append: the delta of a root is inserted, then the root is added.        *)
LEMMA AppendDeltaCacheInv ==
  ASSUME CacheInv, NEW slot \in Slots, NEW delta \in SUBSET (Hashes \X MsgKeys \X {slot}),
         AppendDelta(slot, delta)
  PROVE  CacheInv'
<1> DEFINE c == cache \cup delta
           d == slot_deltas \cup delta
           h == [b \in Hashes |-> IF (\E e \in delta : e[1] = b) /\ slot > highest[b]
                                  THEN slot ELSE highest[b]]
<1>1. \A e \in delta : e \in Statuses /\ e[1] \in Hashes /\ e[3] = slot
  BY DEF Statuses
<1>2. c \in SUBSET Statuses /\ d \in SUBSET Statuses /\ roots \subseteq Slots
  BY <1>1 DEF CacheInv, CacheTypeOK
<1>3. h \in [Hashes -> Slots \cup {-1}]
  BY DEF CacheInv, CacheTypeOK
<1>4. \A b \in Hashes : highest[b] \in Int /\ slot \in Int
  BY SlotsAreInts DEF CacheInv, CacheTypeOK
<1>5. \A b \in Hashes : h[b] \in Int /\ h[b] >= highest[b]
  BY <1>4
<1>6. \A e \in delta : h[e[1]] >= slot
  BY <1>1, <1>4
<1>7. \A e \in Statuses : e[1] \in Hashes /\ e[3] \in Int
  BY SlotsAreInts
<1>8. \A e \in d : e \in c /\ h[e[1]] >= e[3]
  <2> TAKE e \in d
  <2>1. CASE e \in delta
    BY <2>1, <1>1, <1>6
  <2>2. CASE e \in slot_deltas
    <3>1. e \in cache /\ highest[e[1]] >= e[3] /\ e \in Statuses
      BY <2>2 DEF CacheInv, CacheTypeOK, DeltasAreCached
    <3> QED BY <3>1, <1>4, <1>5, <1>7
  <2> QED BY <2>1, <2>2
<1>9. ASSUME NEW b \in Hashes
      PROVE  (\A e \in c : e[1] = b => e[3] <= h[b]) /\ (h[b] # -1 => \E e \in c : e[1] = b)
  <2>1. ASSUME NEW e \in c, e[1] = b PROVE e[3] <= h[b]
    <3>1. CASE e \in delta
      BY <3>1, <2>1, <1>1, <1>4, <1>5, <1>6
    <3>2. CASE e \in cache
      <4>1. e[3] <= highest[b] /\ e \in Statuses
        BY <3>2, <2>1 DEF CacheInv, CacheTypeOK, HighestBoundsEntries
      <4> QED BY <4>1, <1>4, <1>5, <1>7
    <3> QED BY <3>1, <3>2
  <2>2. ASSUME h[b] # -1 PROVE \E e \in c : e[1] = b
    <3>1. CASE \E e \in delta : e[1] = b
      BY <3>1
    <3>2. CASE ~\E e \in delta : e[1] = b
      <4>1. highest[b] # -1
        BY <3>2, <2>2
      <4> QED BY <4>1 DEF CacheInv, HighestBoundsEntries
    <3> QED BY <3>1, <3>2
  <2> QED BY <2>1, <2>2
<1>10. AddRootTo(c, h, d, slot)
  BY DEF AppendDelta
<1> HIDE DEF c, d, h
<1> QED BY <1>2, <1>3, <1>8, <1>9, <1>10, AddRootToCacheInv

(* clear_slot_entries: entries of other slots stay with their blockhash.   *)
LEMMA ClearSlotCacheInv ==
  ASSUME CacheInv, NEW slot \in Slots, ClearSlotEntries(slot)
  PROVE  CacheInv'
<1> DEFINE cleared == {b \in Hashes : \E e \in slot_deltas : e[1] = b /\ e[3] = slot}
           kept == cache \ {e \in slot_deltas : e[3] = slot}
<1>1. /\ cache' = kept
      /\ highest' = [b \in Hashes |-> IF b \in cleared /\ ~\E e \in kept : e[1] = b
                                      THEN -1 ELSE highest[b]]
      /\ slot_deltas' = {e \in slot_deltas : e[3] # slot} /\ roots' = roots
  BY DEF ClearSlotEntries
<1>2. kept \subseteq cache /\ cache \subseteq Statuses /\ slot_deltas \subseteq Statuses
  BY DEF CacheInv, CacheTypeOK
<1>3. \A e \in kept : e[1] \in Hashes /\ highest'[e[1]] = highest[e[1]]
  BY <1>1, <1>2, SlotsAreInts
<1>4. CacheTypeOK'
  BY <1>1, <1>2 DEF CacheInv, CacheTypeOK
<1>5. DeltasAreCached'
  <2> SUFFICES ASSUME NEW e \in slot_deltas' PROVE e \in cache' /\ highest'[e[1]] >= e[3]
    BY DEF DeltasAreCached
  <2>1. e \in cache /\ e \in kept /\ highest[e[1]] >= e[3]
    BY <1>1 DEF CacheInv, DeltasAreCached
  <2> QED BY <2>1, <1>1, <1>3
<1>6. HighestBoundsEntries'
  <2> SUFFICES ASSUME NEW b \in Hashes
               PROVE  /\ \A e \in cache' : e[1] = b => e[3] <= highest'[b]
                      /\ highest'[b] # -1 => \E e \in cache' : e[1] = b
    BY DEF HighestBoundsEntries
  <2>1. ASSUME NEW e \in cache', e[1] = b PROVE e[3] <= highest'[b]
    BY <2>1, <1>1, <1>2, <1>3 DEF CacheInv, HighestBoundsEntries
  <2>2. ASSUME highest'[b] # -1 PROVE \E e \in cache' : e[1] = b
    <3>1. CASE b \in cleared
      BY <3>1, <2>2, <1>1
    <3>2. CASE b \notin cleared
      <4>1. PICK e \in cache : e[1] = b
        BY <3>2, <2>2, <1>1 DEF CacheInv, HighestBoundsEntries
      <4>2. e \in kept
        BY <3>2, <4>1
      <4> QED BY <4>1, <4>2, <1>1
    <3> QED BY <3>1, <3>2
  <2> QED BY <2>1, <2>2
<1> QED BY <1>4, <1>5, <1>6 DEF CacheInv

-----------------------------------------------------------------------------
(* The panics of clear_slot_entries are unreachable, and purge_roots never *)
(* drops a blockhash that has a status above the purged root, whatever the *)
(* callers of the cache do.                                                *)
THEOREM StatusCacheCorrect == CacheSpec => [](DeltasAreCached /\ HighestBoundsEntries)
<1>1. CacheInv /\ [CacheNext]_cacheVars => CacheInv'
  <2> SUFFICES ASSUME CacheInv, [CacheNext]_cacheVars PROVE CacheInv'
    OBVIOUS
  <2>1. ASSUME NEW hash \in Hashes, NEW key \in MsgKeys, NEW slot \in Slots, Insert(hash, key, slot)
        PROVE  CacheInv'
    BY <2>1, InsertCacheInv
  <2>2. ASSUME NEW slot \in Slots, AddRoot(slot) PROVE CacheInv'
    BY <2>2, AddRootCacheInv
  <2>3. ASSUME NEW slot \in Slots, ClearSlotEntries(slot) PROVE CacheInv'
    BY <2>3, ClearSlotCacheInv
  <2>4. ASSUME NEW slot \in Slots, NEW delta \in SUBSET (Hashes \X MsgKeys \X {slot}),
               AppendDelta(slot, delta)
        PROVE  CacheInv'
    BY <2>4, AppendDeltaCacheInv
  <2>5. CASE Restore
    BY <2>5, SlotsAssumption DEF Restore, DefaultCache, CacheInv, CacheTypeOK, DeltasAreCached,
       HighestBoundsEntries, Statuses
  <2>6. CASE UNCHANGED cacheVars
    BY <2>6 DEF cacheVars, CacheInv, CacheTypeOK, DeltasAreCached, HighestBoundsEntries
  <2> QED BY <2>1, <2>2, <2>3, <2>4, <2>5, <2>6 DEF CacheNext
<1>2. CacheInv => DeltasAreCached /\ HighestBoundsEntries
  BY DEF CacheInv
<1> QED BY <1>1, <1>2, InitCacheInv, PTL DEF CacheSpec
=============================================================================
