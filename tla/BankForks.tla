----------------------------- MODULE BankForks -----------------------------
(***************************************************************************)
(* A tree of banks that share a status cache: new_from_parent, the checks  *)
(* of check_transactions for a transaction with a recent blockhash, freeze,*)
(* BankForks::set_root with Bank::squash, purge_unconfirmed_duplicate_slot,*)
(* and a restart from a snapshot.                                          *)
(*                                                                         *)
(* Banks are created, rooted and purged by one thread (ReplayStage); other *)
(* threads process transactions meanwhile.  The blockhash of the bank of   *)
(* slot s is s.                                                            *)
(***************************************************************************)
EXTENDS StatusCache, BlockhashQueue, Sequences

CONSTANTS
  NoSlot,
  MaxAge,    \* MAX_PROCESSING_AGE
  HashOf     \* the recent blockhash of each message

ASSUME AgesAssumption == MaxAge \in Nat /\ MaxAge <= MaxEntries /\ MaxAge <= MaxQueueAge
ASSUME MessagesAssumption == HashOf \in [MsgKeys -> Slots] /\ Hashes = Slots

VARIABLES
  banks,       \* BankForks::banks
  parent,      \* Bank::parent_slot
  ancestors,   \* Bank::ancestors
  queue,       \* Bank::blockhash_queue
  frozen,      \* banks with a hash
  root,        \* BankForks::root
  squashing,   \* the slots that squash has still to add as roots, in order
  purging,     \* the slots whose signatures are still to be cleared
  snapshot,    \* root, roots and slot deltas of the last snapshot
  restoring,   \* the roots whose deltas are still to be appended after a restart
  used,        \* slots whose bank exists, or was pruned: they are not replayed again
  committed    \* history: the messages committed by the bank of a slot

bankVars == <<banks, parent, ancestors, queue, frozen, used>>
threadVars == <<root, squashing, purging, snapshot, restoring>>
vars == <<cacheVars, bankVars, threadVars, committed>>

RECURSIVE Chain(_)
Chain(s) == IF s = NoSlot THEN {} ELSE {s} \cup Chain(parent[s])

Init ==
  /\ CacheInit
  /\ banks = {0} /\ frozen = {0} /\ used = {0} /\ root = 0
  /\ parent = [s \in Slots |-> NoSlot]
  /\ ancestors = [s \in Slots |-> IF s = 0 THEN {0} ELSE {}]
  /\ queue = [s \in Slots |-> GenesisQueue(0)]
  /\ squashing = <<>> /\ purging = {} /\ restoring = {}
  /\ snapshot = [slot |-> 0, roots |-> {0}, deltas |-> {}]
  /\ committed = [s \in Slots |-> {}]

-----------------------------------------------------------------------------
(* What is kept of a slot whose bank is dropped from memory.               *)
Forget(gone) ==
  /\ parent' = [s \in Slots |-> IF s \in gone THEN NoSlot ELSE parent[s]]
  /\ ancestors' = [s \in Slots |-> IF s \in gone THEN {} ELSE ancestors[s]]
  /\ queue' = [s \in Slots |-> IF s \in gone THEN GenesisQueue(0) ELSE queue[s]]
  /\ committed' = [s \in Slots |-> IF s \in gone THEN {} ELSE committed[s]]
  /\ frozen' = frozen \ gone

ReplayIdle == squashing = <<>> /\ purging = {} /\ restoring = {}

(* Bank::parents reaches back to the last bank that was squashed.          *)
RootPath(s) == {f \in Chain(s) : f >= root}
Descendants(s) == {d \in banks : d # s /\ s \in Chain(d)}

(* The banks prune_non_rooted keeps.                                       *)
RootedBanks == {root} \cup Descendants(root)

NewBank(s, p) ==
  /\ ReplayIdle
  /\ p \in banks /\ p \in frozen /\ s > p /\ s \notin used
  /\ banks' = banks \cup {s} /\ used' = used \cup {s}
  /\ parent' = [parent EXCEPT ![s] = p]
  /\ ancestors' = [ancestors EXCEPT ![s] = {s} \cup RootPath(p)]
  /\ queue' = [queue EXCEPT ![s] = queue[p]]
  /\ UNCHANGED <<cacheVars, frozen, threadVars, committed>>

(* check_transactions, then commit_transactions with                       *)
(* update_transaction_statuses.  Account locks keep two copies of a        *)
(* message from being between the two at the same time.                    *)
Process(s, key) ==
  /\ restoring = {}
  /\ s \in banks \ (frozen \cup purging)
  /\ IsHashValidForAge(queue[s], HashOf[key], MaxAge)
  /\ GetStatus(HashOf[key], key, ancestors[s]) = {}
  /\ Insert(HashOf[key], key, s)
  /\ committed' = [committed EXCEPT ![s] = @ \cup {key}]
  /\ UNCHANGED <<bankVars, threadVars>>

(* The last tick registers the blockhash of the slot; then the bank is     *)
(* frozen.                                                                 *)
Freeze(s) ==
  /\ restoring = {}
  /\ s \in banks \ frozen
  /\ queue' = [queue EXCEPT ![s] = RegisterHash(queue[s], s)]
  /\ frozen' = frozen \cup {s}
  /\ UNCHANGED <<cacheVars, banks, parent, ancestors, used, threadVars, committed>>

-----------------------------------------------------------------------------
(* set_root: squash adds the new root and its parents to the status cache, *)
(* newest first, taking its lock for each; then other forks are pruned.    *)
RECURSIVE RootsFrom(_)
RootsFrom(s) == IF s = NoSlot \/ s < root THEN <<>> ELSE <<s>> \o RootsFrom(parent[s])

SetRoot(r) ==
  /\ ReplayIdle
  /\ r \in banks \cap frozen /\ r > root
  /\ squashing' = RootsFrom(r)
  /\ root' = r
  /\ UNCHANGED <<cacheVars, bankVars, purging, snapshot, restoring, committed>>

SquashNext ==
  /\ squashing # <<>>
  /\ AddRoot(Head(squashing))
  /\ squashing' = Tail(squashing)
  /\ IF Len(squashing) = 1
     THEN /\ banks' = RootedBanks
          /\ Forget(Slots \ (banks' \cup Chain(root)))
     ELSE UNCHANGED <<banks, parent, ancestors, queue, committed, frozen>>
  /\ UNCHANGED <<used, root, purging, snapshot, restoring>>

(* purge_unconfirmed_duplicate_slot: the bank and its descendants go, then *)
(* their signatures are cleared, slot by slot.  The slot may be replayed   *)
(* in another version.                                                     *)
PurgeDuplicate(s) ==
  /\ ReplayIdle
  /\ s \in banks /\ s > root
  /\ purging' = {s} \cup Descendants(s)
  /\ banks' = banks \ purging'
  /\ used' = used \ purging'
  /\ Forget(purging')
  /\ UNCHANGED <<cacheVars, root, squashing, snapshot, restoring>>

PurgeNext(s) ==
  /\ s \in purging
  /\ ClearSlotEntries(s)
  /\ purging' = purging \ {s}
  /\ UNCHANGED <<bankVars, root, squashing, snapshot, restoring, committed>>

-----------------------------------------------------------------------------
(* A snapshot keeps root_slot_deltas.  The node may stop at any time and   *)
(* start again from its last snapshot, which it appends to a new cache     *)
(* root by root, in the order of a hash map.                               *)
TakeSnapshot ==
  /\ ReplayIdle
  /\ snapshot' = [slot |-> root, roots |-> roots, deltas |-> {e \in slot_deltas : e[3] \in roots}]
  /\ UNCHANGED <<cacheVars, bankVars, root, squashing, purging, restoring, committed>>

Restart ==
  /\ Restore
  /\ restoring' = snapshot.roots
  /\ root' = snapshot.slot
  /\ banks' = {snapshot.slot}
  /\ used' = Chain(snapshot.slot)
  /\ Forget(Slots \ Chain(snapshot.slot))
  /\ squashing' = <<>> /\ purging' = {}
  /\ UNCHANGED snapshot

RestoreNext(s) ==
  /\ s \in restoring
  /\ AppendDelta(s, {e \in snapshot.deltas : e[3] = s})
  /\ restoring' = restoring \ {s}
  /\ UNCHANGED <<bankVars, root, squashing, purging, snapshot, committed>>

Next ==
  \/ \E s, p \in Slots : NewBank(s, p)
  \/ \E s \in Slots, key \in MsgKeys : Process(s, key)
  \/ \E s \in Slots : Freeze(s) \/ SetRoot(s) \/ PurgeDuplicate(s) \/ PurgeNext(s) \/ RestoreNext(s)
  \/ SquashNext
  \/ TakeSnapshot
  \/ Restart

Spec == Init /\ [][Next]_vars

-----------------------------------------------------------------------------
(* No message is committed twice on a fork, over pruned forks, purged and  *)
(* replayed slots, purges of old roots and restarts (check_status_cache,   *)
(* check_transaction_age).                                                 *)
AtMostOnce ==
  \A s \in RootedBanks, key \in MsgKeys : Cardinality({f \in Chain(s) : key \in committed[f]}) <= 1

(* A bank that still accepts the blockhash of a message finds the message  *)
(* if an ancestor committed it, also while set_root is adding roots: the   *)
(* cache keeps statuses for as long as the blockhash queue accepts hashes. *)
StatusVisible ==
  restoring = {} =>
    \A s \in RootedBanks \ frozen, key \in MsgKeys :
      /\ IsHashValidForAge(queue[s], HashOf[key], MaxAge)
      /\ \E f \in Chain(s) : key \in committed[f]
      => GetStatus(HashOf[key], key, ancestors[s]) # {}

=============================================================================
