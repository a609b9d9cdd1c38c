----------------------------- MODULE AccountsDb -----------------------------
(***************************************************************************)
(* The accounts database under its background service: banks write into    *)
(* the write cache, the service flushes rooted slots to storages, cleans   *)
(* and shrinks storages, purges dropped banks and takes snapshots, while   *)
(* transactions and RPC load and scan accounts without a common lock.      *)
(*                                                                         *)
(* An account version is the slot that wrote it and whether it left the    *)
(* account with lamports ("live") or without ("zero").  Slot 1 is the bank *)
(* of the full snapshot the validator started from.                        *)
(***************************************************************************)
EXTENDS Integers, Sequences, FiniteSets, FiniteSetsExt, SequencesExt, Functions, TLC

CONSTANTS
  Keys,      \* the addresses of accounts
  Sysvar,    \* the address every bank writes when it is made
  MaxSlot,   \* bound: the last slot
  Worlds     \* the environments, one per behaviour: writes (what the bank of each
             \* slot stores), forks (whether there are any), loads (the keys that
             \* are loaded), scans and snapshots (whether there are any), backlog
             \* (whether requests may wait in the channel together) and floods
             \* (the rounds of flushing that the write cache's limit may cause)

ASSUME SysvarAssumption == Sysvar \in Keys

VARIABLES
  world,     \* what the environment does: see Worlds
  parent,    \* the parent slot of every bank, 0 when there is no bank
  frozen,    \* the slots of frozen banks
  root,      \* BankForks::root
  squash,    \* the set_root in progress
  requests,  \* the snapshot request channel
  pruned,    \* dropped banks the background service has not purged yet
  purged,    \* dropped banks
  written,   \* ghost: what every bank stored
  db,        \* AccountsDb, its index, write cache and storages
  abs,       \* the background service's thread
  reader,    \* one load or scan
  full       \* the last full snapshot archive

vars == <<world, parent, frozen, root, squash, requests, pruned, purged, written,
          db, abs, reader, full>>
forks == <<parent, frozen, root, squash, requests, pruned, purged, written>>

Slots == 1..MaxSlot
NoStore == [id |-> 0, accounts |-> <<>>, count |-> 0]
Idle == [op |-> "idle"]
NoSquash == [to |-> 0, steps |-> <<>>, ask |-> 0, kind |-> "none"]

Banks == {1} \cup {s \in Slots : parent[s] # 0}

(* A bank's slot and those of its ancestors. *)
Ancestors(s) ==
  LET chain[t \in 0..MaxSlot] == IF t = 0 THEN {} ELSE {t} \cup chain[parent[t]]
  IN  chain[s]

(* The banks of BankForks: the root and its descendants. *)
Live == {s \in Banks : root \in Ancestors(s)}

(* The value of a key in a bank: the slot that wrote it last on its fork,  *)
(* 0 when no slot did or the account was left without lamports.            *)
Truth(s, k) ==
  LET wrote == {t \in Ancestors(s) : k \in DOMAIN written[t]}
  IN  IF wrote = {} THEN 0
      ELSE IF written[Max(wrote)][k] = "zero" THEN 0 ELSE Max(wrote)

-----------------------------------------------------------------------------
(* The index: for every key its slot list and its reference count. *)

Entries(d, k) == DOMAIN d.index[k]

(* The storage id a slot list has for a slot; 0 is the write cache. *)
StoreId(d, k, s) == d.index[k][s].id

Upsert(d, s, k, val, id) ==
  LET fresh == s \notin Entries(d, k) \/ StoreId(d, k, s) = 0
  IN  [d EXCEPT !.index[k] = (s :> [id |-> id, val |-> val]) @@ @,
                !.refs[k] = IF id # 0 /\ fresh THEN @ + 1 ELSE @]

UpsertAll(d, s, accounts, id) ==
  FoldSet(LAMBDA k, e : Upsert(e, s, k, accounts[k], id), d, DOMAIN accounts)

(* purge_exact and handle_dead_keys: a key without slots leaves the index, *)
(* and its reference count with it.                                        *)
PurgeExact(d, k, gone) ==
  LET left == Restrict(d.index[k], Entries(d, k) \ gone)
  IN  [d EXCEPT !.index[k] = left, !.refs[k] = IF DOMAIN left = {} THEN 0 ELSE @]

PurgeKeys(d, goneOf) ==
  FoldSet(LAMBDA k, e : PurgeExact(e, k, goneOf[k]), d, DOMAIN goneOf)

(* What purging takes out of storages: the reclaims. *)
Reclaims(d, goneOf) ==
  {r \in (DOMAIN goneOf) \X Slots : r[2] \in goneOf[r[1]] \cap Entries(d, r[1])
                                      /\ StoreId(d, r[1], r[2]) # 0}

Removed(d, goneOf) == {k \in DOMAIN goneOf : Entries(d, k) = {}}

(* The newest version visible to a view: the view's own slots, and roots   *)
(* up to a limit.  0 when there is none.                                   *)
LatestSlot(d, k, ancestors, maxRoot) ==
  Max({0} \cup {s \in Entries(d, k) : s \in ancestors \/ (s \in d.roots /\ s <= maxRoot)})

CleanDeadSlot(d, dead) ==
  [d EXCEPT !.roots = @ \ dead, !.uncleanedRoots = @ \ dead]

-----------------------------------------------------------------------------
(* Storages *)

Stored(d, s) == d.store[s].id # 0

(* get_account_storage_entry: the slot's storage or the one that is about  *)
(* to replace it.                                                          *)
Storage(d, s, id) ==
  CASE d.store[s].id = id -> d.store[s]
    [] d.store[s].id # id /\ d.shrinking[s].id = id -> d.shrinking[s]
    [] OTHER -> NoStore

Accounts(d, k, s, id) == IF id = 0 THEN d.cache[s] ELSE Storage(d, s, id).accounts
Found(d, k, s, id) == k \in DOMAIN Accounts(d, k, s, id)

ReclaimedAt(reclaims, s) == Cardinality({r \in reclaims : r[2] = s})

(* remove_dead_accounts: the storages whose last account is reclaimed. *)
DeadSlots(d, reclaims) ==
  {s \in Slots : ReclaimedAt(reclaims, s) > 0 /\ d.store[s].count = ReclaimedAt(reclaims, s)}

(* clean_stored_dead_slots: one reference less for every dead storage a    *)
(* key is in, unless the key has left the index.                           *)
UnrefDead(d, dead, removed) ==
  [k \in Keys |->
     IF k \in removed \/ Entries(d, k) = {} THEN d.refs[k]
     ELSE d.refs[k] - Cardinality({s \in dead : k \in DOMAIN d.store[s].accounts})]

HandleReclaims(d, reclaims, removed) ==
  LET dead == DeadSlots(d, reclaims)
      touched == {r[2] : r \in reclaims}
  IN  CleanDeadSlot(
        [d EXCEPT
          !.refs = UnrefDead(d, dead, removed),
          !.store = [s \in Slots |->
                       IF s \in dead THEN NoStore
                       ELSE [@[s] EXCEPT !.count = @ - ReclaimedAt(reclaims, s)]],
          !.dirty = [s \in Slots |-> IF s \in dead THEN DOMAIN d.store[s].accounts ELSE @[s]],
          !.candidates = (@ \cup touched) \ dead],
        dead)

-----------------------------------------------------------------------------
(* Banks: replay and banking *)

AddRootTo(d, s) ==
  [d EXCEPT !.roots = @ \cup {s},
            !.unflushed = IF s > d.maxFlushed THEN @ \cup {s} ELSE @,
            !.dirty[s] = IF Stored(d, s) THEN DOMAIN d.store[s].accounts ELSE @]

(* store_cached: into the write cache, then into the index. *)
StoreCached(d, s, k, val) ==
  Upsert([d EXCEPT !.cache[s] = (k :> val) @@ @], s, k, val, 0)

NewFromParent(s, p) ==
  /\ s \in DOMAIN world.writes \ Banks /\ p < s
  /\ p \in frozen \cap Live
  /\ squash = NoSquash
  /\ world.forks \/ p = Max(Banks)
  /\ parent' = [parent EXCEPT ![s] = p]
  /\ written' = [written EXCEPT ![s] = Sysvar :> "live"]
  /\ db' = StoreCached(db, s, Sysvar, "live")
  /\ UNCHANGED <<world, frozen, root, squash, requests, pruned, purged, abs, reader, full>>

(* What the bank's transactions still have to store. *)
Unwritten(s) == DOMAIN world.writes[s] \ DOMAIN written[s]

Loading(s, k) ==
  reader.op \in {"access", "retry", "got"} /\ reader.bank = s /\ reader.key = k

(* A transaction commits; its account locks keep loads of the key away. *)
Store(s, k, val) ==
  /\ s \in Banks \ (frozen \cup purged)
  /\ k \in Unwritten(s) /\ val = world.writes[s][k]
  /\ ~Loading(s, k)
  /\ written' = [written EXCEPT ![s] = (k :> val) @@ @]
  /\ db' = StoreCached(db, s, k, val)
  /\ UNCHANGED <<world, parent, frozen, root, squash, requests, pruned, purged,
                 abs, reader, full>>

(* Freezing marks the slot's cache frozen and, with the delta hash, its    *)
(* keys uncleaned.  Replay has finished the bank's transactions by then.   *)
Freeze(s) ==
  /\ s \in Live \ frozen /\ Unwritten(s) = {}
  /\ ~(reader.op \in {"access", "retry"} /\ reader.fixed /\ reader.bank = s)
  /\ frozen' = frozen \cup {s}
  /\ db' = [db EXCEPT !.uncleanedKeys[s] = DOMAIN db.cache[s]]
  /\ UNCHANGED <<world, parent, root, squash, requests, pruned, purged, written,
                 abs, reader, full>>

-----------------------------------------------------------------------------
(* set_root *)

(* The slots squash() adds as roots, oldest first: from the bank whose     *)
(* parent an earlier squash() forgot up to the bank itself.                *)
Path(from, to) == SetToSortSeq({s \in Ancestors(to) : s >= from}, <)

(* set_root(r), with a snapshot request for the bank ask on the way (0: no *)
(* request).  The bank that is snapshotted is squashed first, and its      *)
(* request, the step 0, sent before the rest of the path.                  *)
SetRoot(r, ask, kind) ==
  /\ squash = NoSquash
  /\ r \in frozen \cap Live /\ r # root
  /\ ask # 0 => world.snapshots /\ (requests = {} \/ world.backlog)
  /\ squash' = [to |-> r, ask |-> ask, kind |-> kind,
                steps |-> CASE ask = 0 -> Path(root, r)
                            [] ask = r -> Append(Path(root, r), 0)
                            [] OTHER -> Append(Path(root, ask), 0) \o Path(ask, r)]
  /\ UNCHANGED <<world, parent, frozen, root, requests, pruned, purged, written,
                 db, abs, reader, full>>

AddRoot ==
  /\ squash.steps # <<>> /\ Head(squash.steps) # 0
  /\ db' = AddRootTo(db, Head(squash.steps))
  /\ squash' = [squash EXCEPT !.steps = Tail(@)]
  /\ UNCHANGED <<world, parent, frozen, root, requests, pruned, purged, written,
                 abs, reader, full>>

SendRequest ==
  /\ squash.steps # <<>> /\ Head(squash.steps) = 0
  /\ requests' = requests \cup {[slot |-> squash.ask, kind |-> squash.kind]}
  /\ squash' = [squash EXCEPT !.steps = Tail(@)]
  /\ UNCHANGED <<world, parent, frozen, root, pruned, purged, written,
                 db, abs, reader, full>>

(* BankForks is unlocked with its new root, without the banks that do not  *)
(* descend from it.                                                        *)
RootSet ==
  /\ squash # NoSquash /\ squash.steps = <<>>
  /\ root' = squash.to
  /\ squash' = NoSquash
  /\ UNCHANGED <<world, parent, frozen, requests, pruned, purged, written,
                 db, abs, reader, full>>

Reading(s) == reader.op # "idle" /\ s \in Ancestors(reader.bank)

(* The last reference to a bank off the rooted fork goes away; children    *)
(* and readers keep a bank.  Banks that are rooted are not purged.         *)
DropBank(s) ==
  /\ s \in Banks \ (Live \cup purged \cup Ancestors(root))
  /\ \A t \in Banks \ (purged \cup {s}) : s \notin Ancestors(t)
  /\ ~Reading(s)
  /\ purged' = purged \cup {s}
  /\ pruned' = pruned \cup {s}
  /\ UNCHANGED <<world, parent, frozen, root, squash, requests, written,
                 db, abs, reader, full>>

-----------------------------------------------------------------------------
(* The background service's loop *)

(* purge_slots: a dropped bank's accounts, in the write cache or, after an *)
(* early flush, in a storage.                                              *)
PurgeSlot(s, d) ==
  LET goneOf == [k \in Keys |-> IF s \in Entries(d, k) THEN {s} ELSE {}]
      e == PurgeKeys(d, goneOf)
  IN  IF DOMAIN d.cache[s] # {}
        THEN CleanDeadSlot([e EXCEPT !.cache[s] = <<>>], {s})
        ELSE HandleReclaims(e, Reclaims(d, goneOf), Removed(e, goneOf))

Work(todo) == [abs EXCEPT !.pc = "next", !.todo = todo]
Task(op, s) == [op |-> op, slot |-> s, kind |-> "none"]

(* The top of the loop reads the root bank and purges the dropped banks. *)
LoopTop ==
  /\ abs.pc = "top"
  /\ squash = NoSquash
  /\ abs' = [abs EXCEPT !.pc = "requests", !.bank = root]
  /\ db' = FoldSet(PurgeSlot, db, pruned)
  /\ pruned' = {}
  /\ UNCHANGED <<world, parent, frozen, root, squash, requests, purged, written, reader, full>>

(* cmp_requests_by_priority: full snapshots first, then later slots. *)
HasPriority(q, p) == \/ q.kind = "full" /\ p.kind # "full"
                     \/ q.kind = p.kind /\ q.slot >= p.slot

(* handle_snapshot_request, and the rest of the loop. *)
SnapshotTasks(q) ==
  <<Task("flush", q.slot), Task("clean", q.slot), Task("shrink", 0),
    [op |-> "archive", slot |-> q.slot, kind |-> q.kind], Task("ifNeeded", abs.bank)>>

(* The loop without a request; cleaning is due every 100 blocks or so. *)
OtherTasks(cleans) ==
  <<Task("ifNeeded", abs.bank)>>
    \o (IF cleans THEN <<Task("flush", abs.bank), Task("clean", abs.bank)>> ELSE <<>>)
    \o <<Task("shrink", 0)>>

(* handle_snapshot_requests takes the request with the highest priority    *)
(* and puts those for later slots back into the channel.                   *)
TakeRequest(q) ==
  /\ abs.pc = "requests"
  /\ q \in requests /\ \A p \in requests : HasPriority(q, p)
  /\ requests' = {p \in requests : p.slot > q.slot}
  /\ abs' = [Work(SnapshotTasks(q)) EXCEPT !.lastFull = IF q.kind = "full" THEN q.slot ELSE @]
  /\ UNCHANGED <<world, parent, frozen, root, squash, pruned, purged, written, db, reader, full>>

NoRequest(cleans) ==
  /\ abs.pc = "requests"
  /\ requests = {}
  /\ abs' = Work(OtherTasks(cleans))
  /\ UNCHANGED <<world, forks, db, reader, full>>

Doing(op) == abs.pc = "next" /\ abs.todo # <<>> /\ Head(abs.todo).op = op
Done == [abs EXCEPT !.pc = "next", !.todo = Tail(@)]

LoopEnd ==
  /\ abs.pc = "next" /\ abs.todo = <<>>
  /\ abs' = [abs EXCEPT !.pc = "top"]
  /\ UNCHANGED <<world, forks, db, reader, full>>

\* mutant: ongoing scans are not looked at
MaxCleanRootAny(proposed) == proposed

(* ongoing_scan_roots bounds what flush and clean may drop. *)
MaxCleanRoot(proposed) ==
  IF reader.op = "scan" THEN Min({proposed, reader.maxRoot}) ELSE proposed

-----------------------------------------------------------------------------
(* flush_accounts_cache *)

(* The write cache is below its limit. *)
FlushNotNeeded ==
  /\ Doing("ifNeeded")
  /\ abs' = Done
  /\ UNCHANGED <<world, forks, db, reader, full>>

(* A round of flushes: the slots left, all of them, what later roots wrote *)
(* and up to which root older versions need not be written (0: all are).   *)
Round(stage, slots, clean) ==
  [stage |-> stage, left |-> slots, all |-> slots, seen |-> {}, clean |-> clean]

FlushRoots ==
  /\ Doing("flush") \/ (Doing("ifNeeded") /\ "roots" \in world.floods)
  /\ LET upTo == Head(abs.todo).slot
         slots == {s \in db.unflushed : s <= upTo}
     IN  /\ abs' = [abs EXCEPT !.pc = "flush",
                               !.flush = Round("roots", slots, MaxCleanRoot(upTo))]
         /\ db' = [db EXCEPT !.unflushed = @ \ slots]
  /\ UNCHANGED <<world, forks, reader, full>>

(* Rooted slots are flushed from the newest to the oldest, frozen ones     *)
(* from the oldest to the newest.                                          *)
Flushing == IF abs.flush.stage = "frozen" THEN Min(abs.flush.left) ELSE Max(abs.flush.left)

(* should_flush_f: what a later root of the round wrote is not written     *)
(* again.                                                                  *)
Outdated(s) ==
  IF s <= abs.flush.clean THEN DOMAIN db.cache[s] \cap abs.flush.seen ELSE {}

(* max_flush_root after a slot of the round. *)
Flushed(d, s) ==
  IF abs.flush.stage = "frozen" THEN d ELSE [d EXCEPT !.maxFlushed = Max({@, s})]

FlushSkip ==
  /\ abs.pc = "flush" /\ abs.flush.left # {}
  /\ DOMAIN db.cache[Flushing] = {} \/ abs.flush.stage = "frozen"
  /\ abs' = [abs EXCEPT !.flush.left = @ \ {Flushing}]
  /\ db' = Flushed(db, Flushing)
  /\ UNCHANGED <<world, forks, reader, full>>

(* do_flush_slot_cache up to the new storage: outdated versions leave the  *)
(* index, the others are written.                                          *)
FlushWrite ==
  /\ abs.pc = "flush" /\ abs.flush.left # {}
  /\ DOMAIN db.cache[Flushing] # {}
  /\ LET s == Flushing
         keep == Restrict(db.cache[s], DOMAIN db.cache[s] \ Outdated(s))
         d == PurgeKeys(db, [k \in Outdated(s) |-> {s}])
     IN  /\ db' = IF DOMAIN keep = {} THEN CleanDeadSlot(d, {s})
                  ELSE [d EXCEPT !.store[s] = [id |-> 1, accounts |-> keep,
                                               count |-> Cardinality(DOMAIN keep)]]
         /\ abs' = [abs EXCEPT !.pc = "flushIndex",
                               !.flush.seen = IF s <= abs.flush.clean THEN @ \cup DOMAIN keep
                                                                      ELSE @]
  /\ UNCHANGED <<world, forks, reader, full>>

FlushIndex ==
  /\ abs.pc = "flushIndex"
  /\ db' = UpsertAll(db, Flushing, db.store[Flushing].accounts, 1)
  /\ abs' = [abs EXCEPT !.pc = "flushRemove"]
  /\ UNCHANGED <<world, forks, reader, full>>

FlushRemove ==
  /\ abs.pc = "flushRemove"
  /\ db' = Flushed([db EXCEPT !.cache[Flushing] = <<>>], Flushing)
  /\ abs' = [abs EXCEPT !.pc = "flush", !.flush.left = @ \ {Flushing}]
  /\ UNCHANGED <<world, forks, reader, full>>

(* The round is over.  While the cache is above its limit, a round over    *)
(* all roots follows that drops nothing, then one over frozen slots that   *)
(* may still be rooted.                                                    *)
NextRound(stage) ==
  /\ abs.pc = "flush" /\ abs.flush.left = {}
  /\ stage \in {"done"} \cup world.floods
  /\ LET d == IF abs.flush.stage = "frozen" THEN db
              ELSE [db EXCEPT !.uncleanedRoots = @ \cup abs.flush.all]
         frozenSlots == {s \in frozen : DOMAIN d.cache[s] # {} /\ s > d.maxFlushed}
     IN  \/ /\ stage = "done"
            /\ abs' = [Done EXCEPT !.flush = Round("done", {}, 0)]
            /\ db' = d
         \/ /\ stage = "excess" /\ abs.flush.stage = "roots"
            /\ abs' = [abs EXCEPT !.flush = Round("excess", d.unflushed, 0)]
            /\ db' = [d EXCEPT !.unflushed = {}]
         \/ /\ stage = "frozen" /\ abs.flush.stage \in {"roots", "excess"}
            /\ frozenSlots # {}
            /\ abs' = [abs EXCEPT !.flush = Round("frozen", frozenSlots, 0)]
            /\ db' = d
  /\ UNCHANGED <<world, forks, reader, full>>

-----------------------------------------------------------------------------
(* clean_accounts *)

NoClean == [max |-> 0, zero |-> <<>>, reclaims |-> {}, removed |-> {}]

(* construct_candidate_clean_keys *)
CandidateKeys(d, max, lastFull) ==
  UNION {d.dirty[s] \cup d.uncleanedKeys[s] : s \in 1..max}
    \cup {l[2] : l \in {m \in d.later : m[1] <= max /\ m[1] <= lastFull}}

TakeCandidates(d, max, lastFull) ==
  [d EXCEPT !.dirty = [s \in Slots |-> IF s <= max THEN {} ELSE @[s]],
            !.uncleanedKeys = [s \in Slots |-> IF s <= max THEN {} ELSE @[s]],
            !.later = {l \in @ : ~(l[1] <= max /\ l[1] <= lastFull)}]

RootedEntries(d, k, max) == {s \in Entries(d, k) : s \in d.roots /\ s <= max}

(* purge_older_root_entries: all older than the limit except the newest    *)
(* rooted one and those in the write cache.                                *)
OlderEntries(d, k, max) ==
  LET newest == Max({0} \cup RootedEntries(d, k, max))
  IN  {s \in Entries(d, k) : s < max /\ s # newest /\ StoreId(d, k, s) # 0}

(* clean_accounts_older_than_root *)
OldOf(d, keys, max) == [k \in keys |-> OlderEntries(d, k, max)]

(* The first half of clean_accounts: the candidates' slot lists are        *)
(* scanned, and old entries leave the index.                               *)
CleanOld ==
  /\ Doing("clean")
  /\ LET max == MaxCleanRoot(Head(abs.todo).slot - 1)
         keys == {k \in CandidateKeys(db, max, abs.lastFull) : Entries(db, k) # {}}
         newest(k) == LatestSlot(db, k, {}, max)
         old == {k \in keys : newest(k) = 0 \/ newest(k) \in db.uncleanedRoots}
         zero == {k \in keys : newest(k) # 0 /\ db.index[k][newest(k)].val = "zero"}
         goneOf == OldOf(db, old, max)
         d == PurgeKeys(TakeCandidates(db, max, abs.lastFull), goneOf)
     IN  /\ db' = d
         /\ abs' = [abs EXCEPT !.pc = "cleanReclaim",
                               !.clean = [max |-> max,
                                          zero |-> [k \in zero |-> RootedEntries(db, k, max)],
                                          reclaims |-> Reclaims(db, goneOf),
                                          removed |-> Removed(d, goneOf)]]
  /\ UNCHANGED <<world, forks, reader, full>>

(* What handle_reclaims took away is no longer to be purged. *)
CleanReclaim ==
  /\ abs.pc = "cleanReclaim"
  /\ LET c == abs.clean
         dead == DeadSlots(db, c.reclaims)
     IN  /\ db' = [HandleReclaims(db, c.reclaims, c.removed)
                   EXCEPT !.uncleanedRoots = {s \in @ : s > c.max}]
         /\ abs' = [abs EXCEPT
                     !.pc = "cleanZero",
                     !.clean.zero = [k \in DOMAIN @ |->
                        {s \in @[k] : <<k, s>> \notin c.reclaims
                                        /\ ~(s \in dead /\ k \in DOMAIN db.store[s].accounts)}]]
  /\ UNCHANGED <<world, forks, reader, full>>

(* Accounts a storage keeps when all of zero is purged from it. *)
CountAfter(zero, s) == db.store[s].count - Cardinality({k \in DOMAIN zero : s \in zero[k]})

(* Not every storage that holds the key would go. *)
Kept(zero, k) ==
  \/ Cardinality(zero[k]) # db.refs[k]
  \/ \E s \in zero[k] : CountAfter(zero, s) # 0

(* calc_delete_dependencies: a storage that stays keeps every key in it,   *)
(* and with the key all other storages of the key.                         *)
Deletable(zero) ==
  LET grow[n \in Nat] ==
        IF n = 0 THEN {k \in DOMAIN zero : Kept(zero, k)}
        ELSE LET slots == UNION {zero[k] : k \in grow[n - 1]}
             IN  {k \in DOMAIN zero : k \in grow[n - 1] \/ zero[k] \cap slots # {}}
  IN  DOMAIN zero \ grow[Cardinality(Keys)]

\* mutant: zero-lamport accounts are purged without regard to full snapshots
PostponedNever(keys, zero) == {}

(* filter_zero_lamport_clean_for_incremental_snapshots: the deletion of an *)
(* account must stay for the incremental snapshots when the last full one  *)
(* is older than it.                                                       *)
Postponed(keys, zero) ==
  {k \in keys : abs.clean.max > abs.lastFull /\ zero[k] # {} /\ Max(zero[k]) > abs.lastFull}

CleanZero ==
  /\ abs.pc = "cleanZero"
  /\ LET zero == abs.clean.zero
         deletable == Deletable(zero)
         later == Postponed(deletable, zero)
         goneOf == Restrict(zero, deletable \ later)
         d == PurgeKeys(db, goneOf)
     IN  /\ db' = [d EXCEPT !.later = @ \cup {<<Max(zero[k]), k>> : k \in later}]
         /\ abs' = [abs EXCEPT !.pc = "cleanEnd",
                               !.clean.reclaims = Reclaims(db, goneOf),
                               !.clean.removed = @ \cup Removed(d, goneOf)]
  /\ UNCHANGED <<world, forks, reader, full>>

CleanEnd ==
  /\ abs.pc = "cleanEnd"
  /\ db' = HandleReclaims(db, abs.clean.reclaims, abs.clean.removed)
  /\ abs' = [Done EXCEPT !.clean = NoClean]
  /\ UNCHANGED <<world, forks, reader, full>>

-----------------------------------------------------------------------------
(* shrink_candidate_slots, any of them: sizes decide which are worth it. *)

ShrinkNone ==
  /\ Doing("shrink")
  /\ abs' = Done
  /\ UNCHANGED <<world, forks, db, reader, full>>

AliveIn(d, s) == {k \in DOMAIN d.store[s].accounts : s \in Entries(d, k)}

\* mutant: the accounts a shrink leaves behind keep their references
DeadInForgotten(d, s) == {}

(* The accounts of a storage whose key has only other entries. *)
DeadIn(d, s) ==
  {k \in DOMAIN d.store[s].accounts : s \notin Entries(d, k) /\ Entries(d, k) # {}}

UnrefKeys(refs, keys) == [k \in Keys |-> IF k \in keys THEN refs[k] - 1 ELSE refs[k]]

(* The alive accounts go into a new storage, the others lose a reference.  *)
ShrinkStart(s) ==
  /\ Doing("shrink")
  /\ s \in db.candidates
  /\ LET alive == AliveIn(db, s)
         d == [db EXCEPT !.candidates = @ \ {s}]
     IN  IF ~Stored(db, s) \/ DOMAIN db.cache[s] # {}
           THEN db' = d /\ UNCHANGED abs
           ELSE /\ db' = [d EXCEPT
                          !.refs = UnrefKeys(@, DeadIn(db, s)),
                          !.shrinking[s] =
                             IF alive = {} THEN NoStore
                             ELSE [id |-> db.store[s].id + 1,
                                   accounts |-> Restrict(db.store[s].accounts, alive),
                                   count |-> Cardinality(alive)]]
                /\ abs' = IF alive = {} THEN abs
                          ELSE [abs EXCEPT !.pc = "shrinkIndex", !.shrink = s,
                                           !.unrefed = DeadIn(db, s)]
  /\ UNCHANGED <<world, forks, reader, full>>

ShrinkIndex ==
  /\ abs.pc = "shrinkIndex"
  /\ db' = UpsertAll(db, abs.shrink, db.shrinking[abs.shrink].accounts, db.shrinking[abs.shrink].id)
  /\ abs' = [abs EXCEPT !.pc = "shrinkSwap"]
  /\ UNCHANGED <<world, forks, reader, full>>

(* remove_old_stores_shrink: the new storage takes the old one's place,    *)
(* and what may now be cleaned is remembered.                              *)
ShrinkSwap ==
  /\ abs.pc = "shrinkSwap"
  /\ LET s == abs.shrink
         accounts == db.shrinking[s].accounts
         allZero == \A k \in DOMAIN accounts : accounts[k] = "zero"
     IN  db' = [db EXCEPT
                 !.store[s] = db.shrinking[s],
                 !.shrinking[s] = NoStore,
                 !.candidates = @ \ {s},
                 !.dirty[s] = IF allZero THEN DOMAIN db.store[s].accounts ELSE @,
                 !.uncleanedKeys[s] = IF allZero THEN @ ELSE @ \cup abs.unrefed]
  /\ abs' = [abs EXCEPT !.pc = "next", !.shrink = 0, !.unrefed = {}]
  /\ UNCHANGED <<world, forks, reader, full>>

-----------------------------------------------------------------------------
(* Snapshots *)

(* get_snapshot_storages: the storages of rooted slots. *)
SnapshotStorages(upTo) ==
  [s \in {t \in db.roots : t <= upTo /\ Stored(db, t) /\ db.store[t].count > 0}
     |-> db.store[s].accounts]

(* What is in the archives a restart would use: the full snapshot, and in  *)
(* an incremental one the storages above its slot.                         *)
Archived(task) ==
  IF task.kind = "full" THEN SnapshotStorages(task.slot)
  ELSE LET storages == SnapshotStorages(task.slot)
       IN  Restrict(storages, {s \in DOMAIN storages : s > full.slot}) @@ full.storages

(* generate_index makes every storage's slot a root; the account is the    *)
(* version of the newest one.                                              *)
Restored(storages, k) ==
  LET slots == {s \in DOMAIN storages : k \in DOMAIN storages[s]}
  IN  IF slots = {} THEN 0 ELSE IF storages[Max(slots)][k] = "zero" THEN 0 ELSE Max(slots)

Archive ==
  /\ Doing("archive")
  /\ LET task == Head(abs.todo)
     IN  full' = IF task.kind = "full"
                   THEN [slot |-> task.slot, storages |-> Archived(task)] ELSE full
  /\ abs' = Done
  /\ UNCHANGED <<world, forks, db, reader>>

-----------------------------------------------------------------------------
(* Loads and scans *)

MaxRoot == Max(db.roots)

(* The two outcomes of reading the index: nothing, or a place to look.     *)
AfterIndex(r) ==
  LET s == LatestSlot(db, r.key, Ancestors(r.bank), MaxSlot)
  IN  IF s = 0 THEN [r EXCEPT !.op = "got", !.got = 0]
      ELSE [r EXCEPT !.op = "access", !.slot = s, !.id = StoreId(db, r.key, s)]

(* do_load: transactions load from a bank at the tip of a live fork, RPC   *)
(* from any bank it holds.                                                 *)
StartLoad(b, k, fixed) ==
  /\ reader = Idle
  /\ k \in world.loads
  /\ b \in Banks \ purged
  /\ fixed => b \in Live \ frozen
  /\ reader' = AfterIndex([op |-> "access", bank |-> b, key |-> k, fixed |-> fixed,
                           fails |-> 0, slot |-> 0, id |-> 0, got |-> 0])
  /\ UNCHANGED <<world, forks, db, abs, full>>

(* The account is taken from the write cache or the storage, if it is      *)
(* still there.                                                            *)
Access ==
  /\ reader.op = "access"
  /\ LET k == reader.key  s == reader.slot
     IN  reader' = IF Found(db, k, s, reader.id)
                     THEN [reader EXCEPT !.op = "got",
                             !.got = IF Accounts(db, k, s, reader.id)[k] = "zero" THEN 0 ELSE s]
                     ELSE [reader EXCEPT !.op = "retry",
                             !.fails = IF reader.fixed /\ reader.id = 0 THEN @ + 1 ELSE @]
  /\ UNCHANGED <<world, forks, db, abs, full>>

(* The index is read again.  The same place, or a second flush under a     *)
(* fixed root, fails an assertion.                                         *)
Retry ==
  /\ reader.op = "retry"
  /\ LET r == AfterIndex(reader)
     IN  reader' = IF reader.fails > 1 \/ (r.op = "access" /\ r.slot = reader.slot /\ r.id = reader.id)
                     THEN [reader EXCEPT !.op = "panic"] ELSE r
  /\ UNCHANGED <<world, forks, db, abs, full>>

(* do_checked_scan_accounts registers the greatest root; a bank that does  *)
(* not descend from it is read as that root.                               *)
StartScan(b) ==
  /\ reader = Idle
  /\ world.scans
  /\ b \in (Banks \cap frozen) \ purged
  /\ reader' = [op |-> "scan", bank |-> b, maxRoot |-> MaxRoot, left |-> Keys,
                key |-> "none", got |-> 0]
  /\ UNCHANGED <<world, forks, db, abs, full>>

ScanView == IF reader.maxRoot \in Ancestors(reader.bank) THEN Ancestors(reader.bank) ELSE {}

(* A key is read under its lock in the index. *)
ScanKey(k) ==
  /\ reader.op = "scan" /\ k \in reader.left
  /\ LET s == LatestSlot(db, k, ScanView, reader.maxRoot)
         id == StoreId(db, k, s)
     IN  reader' = [reader EXCEPT !.left = @ \ {k}, !.key = k,
                      !.got = IF s = 0 THEN 0
                              ELSE IF ~Found(db, k, s, id) THEN -1
                              ELSE IF Accounts(db, k, s, id)[k] = "zero" THEN 0 ELSE s]
  /\ UNCHANGED <<world, forks, db, abs, full>>

ReaderEnds ==
  /\ reader.op = "got" \/ (reader.op = "scan" /\ reader.left = {})
  /\ reader' = Idle
  /\ UNCHANGED <<world, forks, db, abs, full>>

-----------------------------------------------------------------------------
(* The validator starts from a full snapshot of slot 1. *)
Init ==
  /\ world \in Worlds
  /\ parent = [s \in Slots |-> 0]
  /\ frozen = {1}
  /\ root = 1
  /\ squash = NoSquash
  /\ requests = {} /\ pruned = {} /\ purged = {}
  /\ written = [s \in Slots |-> IF s = 1 THEN [k \in Keys |-> "live"] ELSE <<>>]
  /\ db = [index |-> [k \in Keys |-> 1 :> [id |-> 1, val |-> "live"]],
           refs |-> [k \in Keys |-> 1],
           cache |-> [s \in Slots |-> <<>>],
           store |-> [s \in Slots |->
                        IF s = 1 THEN [id |-> 1, accounts |-> written[1], count |-> Cardinality(Keys)]
                        ELSE NoStore],
           shrinking |-> [s \in Slots |-> NoStore],
           roots |-> {1}, uncleanedRoots |-> {}, unflushed |-> {}, maxFlushed |-> 0,
           dirty |-> [s \in Slots |-> {}], uncleanedKeys |-> [s \in Slots |-> {}],
           later |-> {}, candidates |-> {}]
  /\ abs = [pc |-> "top", bank |-> 1, todo |-> <<>>, lastFull |-> 1,
            flush |-> Round("done", {}, 0), clean |-> NoClean, shrink |-> 0, unrefed |-> {}]
  /\ reader = Idle
  /\ full = [slot |-> 1, storages |-> 1 :> written[1]]

Replay ==
  \/ \E s, p \in Slots : NewFromParent(s, p)
  \/ \E s \in Slots, k \in Keys, val \in {"live", "zero"} : Store(s, k, val)
  \/ \E s \in Slots : Freeze(s) \/ DropBank(s)
  \/ \E r \in Slots : SetRoot(r, 0, "none")
  \/ \E r, ask \in Slots, kind \in {"full", "incremental"} :
       ask \in Ancestors(r) /\ ask > root /\ SetRoot(r, ask, kind)
  \/ AddRoot \/ SendRequest \/ RootSet

Background ==
  \/ LoopTop \/ (\E q \in requests : TakeRequest(q)) \/ (\E c \in BOOLEAN : NoRequest(c)) \/ LoopEnd
  \/ FlushNotNeeded \/ FlushRoots \/ FlushSkip \/ FlushWrite \/ FlushIndex \/ FlushRemove
  \/ \E stage \in {"done", "excess", "frozen"} : NextRound(stage)
  \/ CleanOld \/ CleanReclaim \/ CleanZero \/ CleanEnd
  \/ ShrinkNone \/ (\E s \in Slots : ShrinkStart(s)) \/ ShrinkIndex \/ ShrinkSwap
  \/ Archive

Read ==
  \/ \E b \in Slots, k \in Keys, fixed \in BOOLEAN : StartLoad(b, k, fixed)
  \/ Access \/ Retry \/ (\E b \in Slots : StartScan(b)) \/ (\E k \in Keys : ScanKey(k)) \/ ReaderEnds

Next == Replay \/ Background \/ Read

Spec == Init /\ [][Next]_vars

-----------------------------------------------------------------------------
(* Properties *)

(* No load fails an assertion, a load from a bank that descends from all   *)
(* roots returns the bank's own value, and a scan returns for every key    *)
(* the value of the one view it registered, whatever is flushed, cleaned,  *)
(* shrunk, rooted or purged meanwhile.                                     *)
ReadsRight ==
  /\ reader.op # "panic"
  /\ reader.op = "got" /\ MaxRoot \in Ancestors(reader.bank)
       => reader.got = Truth(reader.bank, reader.key)
  /\ reader.op = "scan" /\ reader.key # "none"
       => reader.got = Truth(IF ScanView # {} THEN reader.bank ELSE reader.maxRoot, reader.key)

(* A snapshot restores the snapshotted bank: no version is missing and no  *)
(* deleted account comes back, whatever was cleaned before it and in       *)
(* between it and the full snapshot it extends.                            *)
SnapshotRestores ==
  Doing("archive") => \A k \in Keys : Restored(Archived(Head(abs.todo)), k)
                                        = Truth(Head(abs.todo).slot, k)

(* Between the background service's tasks a key's reference count is the   *)
(* number of storages that hold it, and a storage's count the number of    *)
(* its accounts the index still points to: the counts that decide what may *)
(* be deleted.                                                             *)
CountsExact ==
  abs.pc \in {"top", "requests", "next"} =>
    /\ \A k \in Keys : Entries(db, k) # {} =>
         db.refs[k] = Cardinality({s \in Slots : k \in DOMAIN db.store[s].accounts})
    /\ \A s \in Slots :
         db.store[s].count = Cardinality({k \in Keys : s \in Entries(db, k)
                                                        /\ StoreId(db, k, s) = db.store[s].id
                                                        /\ Stored(db, s)})
=============================================================================
