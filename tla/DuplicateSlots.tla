--------------------------- MODULE DuplicateSlots ---------------------------
(***************************************************************************)
(* The replay loop's handling of forks with duplicate blocks: the banks in *)
(* BankForks, the fork choice tree, and the state machine of               *)
(* core/src/repair/cluster_slot_state_verifier.rs that excludes, restores  *)
(* and dumps the versions of a slot.                                       *)
(*                                                                         *)
(* One iteration of ReplayStage's loop is a walk through the phases below; *)
(* each handler may find its channel empty.  A block is a key <<slot,      *)
(* version>>, the version standing for the bank hash its replay gives.     *)
(*                                                                         *)
(* Environment: the cluster settles on one version of each slot            *)
(* ("cluster") and confirms, by votes or by the answers to ancestor hashes *)
(* requests, only blocks all of whose ancestors are its versions.  The     *)
(* root is a block that fork choice holds for duplicate confirmed.         *)
(***************************************************************************)
EXTENDS ForkTree

CONSTANT Worlds     \* the environments tried: each block's parent (blocks), the
                    \* vote accounts that vote (voters), the slots ancestor hashes
                    \* requests are about (sampled), and bounds on restarts and on
                    \* the slots one bank's votes confirm (restarts, batch), and
                    \* whether repair is assumed to make progress (repairs)

VARIABLE world

Blocks == world.blocks
Validators == world.voters

Genesis == <<0, 1>>
AllSlots == UNION {{k[1] : k \in DOMAIN w.blocks} : w \in Worlds}
Slots == {Slot(k) : k \in DOMAIN Blocks}
Versions(s) == {k[2] : k \in {b \in DOMAIN Blocks : Slot(b) = s}}

ASSUME BlocksAssumption ==
    \A w \in Worlds : \A k \in DOMAIN w.blocks :
        /\ Slot(k) > 0 /\ w.blocks[k] \in DOMAIN w.blocks \cup {Genesis}
        /\ Slot(w.blocks[k]) < Slot(k)

VARIABLES
    tree,           \* heaviest_subtree_fork_choice
    bank,           \* BankForks and progress: status and version per slot
    listed,         \* the banks the loop's ancestors and descendants maps hold
    phase,          \* the handler the loop is at
    tracker,        \* duplicate_slots_tracker
    confirmed,      \* duplicate_confirmed_slots, 0 for none
    sampled,        \* epoch_slots_frozen_slots, 0 for none
    repair,         \* duplicate_slots_to_repair, 0 for none
    proofs,         \* slots with a duplicate proof in the blockstore
    maxVotes,       \* max_replay_frozen_votes
    dirty,          \* fork_choice_dirty_set
    cluster,        \* environment: the version the cluster settles on
    restarts, panic

vars == <<tree, bank, listed, phase, tracker, confirmed, sampled, repair,
          proofs, maxVotes, dirty, cluster, restarts, panic, world>>

New == 0            \* generate_new_bank_forks
Replay == 1         \* replay_active_banks
Samples == 2        \* process_ancestor_hashes_duplicate_slots
Confirmations == 3  \* process_duplicate_confirmed_slots
Duplicates == 4     \* process_duplicate_slots
Stats == 5          \* compute_bank_stats, mark_slots_confirmed
Rooting == 6        \* handle_votable_bank
Dumping == 7        \* dump_then_repair_correct_slots

NoBank == [status |-> "none", version |-> 0]
NoVote == [slot |-> -1, hashes |-> {}]
Zero == [s \in Slots |-> 0]

Root == Slot(tree.root)
Frozen(s) == bank[s].status = "frozen"
Key(s) == <<s, bank[s].version>>
IsFrozenKey(k) == k = tree.root \/ (Slot(k) \in Slots /\ Frozen(Slot(k)) /\ Key(Slot(k)) = k)

\* The blocks under a block, itself included, up to the genesis block
ChainOf(k) ==
    LET chain[b \in DOMAIN Blocks \cup {Genesis}] ==
            IF b = Genesis THEN {b} ELSE {b} \cup chain[Blocks[b]]
    IN  chain[k]

\* The cluster may confirm its version of the slot.
Agreed(s) == \A k \in ChainOf(<<s, cluster[s]>>) :
                 k # Genesis => k[2] = cluster[Slot(k)]

Init ==
    /\ world \in Worlds
    /\ tree = NewTree(Genesis)
    /\ bank = [s \in Slots |-> NoBank]
    /\ listed = Zero
    /\ phase = New
    /\ tracker = {} /\ proofs = {}
    /\ confirmed = Zero /\ sampled = Zero /\ repair = Zero
    /\ maxVotes = [v \in Validators |-> NoVote]
    /\ dirty = [v \in Validators |-> NoVote]
    /\ cluster \in {c \in [Slots -> UNION {Versions(s) : s \in Slots}] :
                        \A s \in Slots : c[s] \in Versions(s)}
    /\ restarts = 0
    /\ panic = ""

\* The loop is at a handler no later than the given one.
At(p) == panic = "" /\ phase <= p /\ \A v \in Validators : dirty[v] = NoVote

-----------------------------------------------------------------------------
(***************************************************************************)
(* The state machine.  Its state changes act on the tree and on the slots  *)
(* to repair; "ok" is FALSE once the assertion of mark_fork_invalid fails. *)
(***************************************************************************)
Changes == [tree |-> tree, repair |-> repair, ok |-> TRUE]

\* ResultingStateChange::MarkSlotDuplicate
MarkSlotDuplicate(c, k) ==
    [c EXCEPT !.ok = @ /\ MayMarkInvalid(c.tree, k),
              !.tree = IF MayMarkInvalid(c.tree, k) THEN MarkForkInvalid(@, k) ELSE @]

\* ResultingStateChange::RepairDuplicateConfirmedVersion
RepairVersion(c, s, h) == [c EXCEPT !.repair[s] = h]

\* ResultingStateChange::DuplicateConfirmedSlotMatchesCluster
MatchesCluster(c, k) ==
    [c EXCEPT !.tree = MarkForkValid(@, k), !.repair[Slot(k)] = 0]

\* get_duplicate_confirmed_hash: what fork choice has confirmed of our own
\* version comes before what the cluster's votes said.
DuplicateConfirmedHash(t, s, frozenHash) ==
    IF frozenHash # 0 /\ IsConfirmed(t, <<s, frozenHash>>)
    THEN frozenHash ELSE confirmed[s]

\* mutant: a mismatch only asks for the repair
RepairOnly(c, s, h, frozenHash) ==
    IF frozenHash = h THEN MatchesCluster(c, <<s, h>>) ELSE RepairVersion(c, s, h)

\* check_duplicate_confirmed_hash_against_bank_status of a frozen bank, or of
\* a dead one (frozenHash 0)
AgainstConfirmed(c, s, h, frozenHash) ==
    IF frozenHash = h
    THEN MatchesCluster(c, <<s, h>>)
    ELSE IF frozenHash = 0
         THEN RepairVersion(c, s, h)
         ELSE RepairVersion(MarkSlotDuplicate(c, <<s, frozenHash>>), s, h)

\* check_epoch_slots_hash_against_bank_status; frozenHash 0 for a dead bank
\* or, if the fork was pruned, for one that was never replayed
AgainstSample(c, s, h, frozenHash, pruned) ==
    IF frozenHash = h
    THEN c
    ELSE IF frozenHash = 0 \/ pruned
         THEN RepairVersion(c, s, h)
         ELSE RepairVersion(MarkSlotDuplicate(c, <<s, frozenHash>>), s, h)

OnFrozenSlot(c, s, h) ==
    LET d == DuplicateConfirmedHash(c.tree, s, h)
    IN  IF d # 0 THEN AgainstConfirmed(c, s, d, h)
        ELSE IF sampled[s] # 0 THEN AgainstSample(c, s, sampled[s], h, FALSE)
        ELSE IF s \in tracker THEN MarkSlotDuplicate(c, <<s, h>>)
        ELSE c

OnDeadSlot(c, s) ==
    LET d == confirmed[s]
    IN  IF d # 0 THEN AgainstConfirmed(c, s, d, 0)
        ELSE IF sampled[s] # 0 THEN AgainstSample(c, s, sampled[s], 0, FALSE)
        ELSE c

OnDuplicate(c, s, frozenHash) ==
    IF frozenHash # 0 /\ DuplicateConfirmedHash(c.tree, s, frozenHash) = 0
    THEN MarkSlotDuplicate(c, <<s, frozenHash>>) ELSE c

Apply(c) ==
    /\ tree' = c.tree
    /\ repair' = c.repair
    /\ panic' = IF c.ok THEN "" ELSE "mark"

\* check_slot_agrees_with_cluster with a duplicate proof: once per slot
DuplicateUpdate(c, s, frozenHash) ==
    IF s \in tracker \/ s <= Root THEN c ELSE OnDuplicate(c, s, frozenHash)

-----------------------------------------------------------------------------
(***************************************************************************)
(* Banks.                                                                  *)
(***************************************************************************)
\* generate_new_bank_forks: a bank for a block whose parent is frozen.
NewBank(k) ==
    /\ At(New)
    /\ bank[Slot(k)] = NoBank /\ Slot(k) > Root
    /\ IsFrozenKey(Blocks[k])
    /\ bank' = [bank EXCEPT ![Slot(k)] = [status |-> "active", version |-> k[2]]]
    /\ UNCHANGED <<tree, listed, phase, tracker, confirmed, sampled, repair,
                   proofs, maxVotes, dirty, cluster, world, restarts, panic>>

\* The ancestors and descendants maps are copied from BankForks.
StartReplay ==
    /\ At(New)
    /\ phase' = Replay
    /\ listed' = [s \in Slots |-> bank[s].version]
    /\ UNCHANGED <<tree, bank, tracker, confirmed, sampled, repair, proofs,
                   maxVotes, dirty, cluster, world, restarts, panic>>

\* process_replay_results of a completed bank: freeze, the new leaf, the
\* BankFrozen update, and the proof the blockstore may already hold.
FreezeBank(s) ==
    /\ At(Replay) /\ phase = Replay
    /\ bank[s].status = "active"
    /\ bank' = [bank EXCEPT ![s].status = "frozen"]
    /\ LET k == Key(s)
           added == [Changes EXCEPT !.tree = AddNewLeafSlot(@, k, Blocks[k])]
           frozen == OnFrozenSlot(added, s, k[2])
       IN  Apply(IF s \in proofs THEN DuplicateUpdate(frozen, s, k[2]) ELSE frozen)
    /\ tracker' = IF s \in proofs THEN tracker \cup {s} ELSE tracker
    /\ UNCHANGED <<listed, phase, confirmed, sampled, proofs, maxVotes, dirty,
                   cluster, world, restarts>>

\* mark_dead_slot
MarkDeadSlot(s) ==
    /\ At(Replay) /\ phase = Replay
    /\ bank[s].status = "active"
    /\ bank' = [bank EXCEPT ![s].status = "dead"]
    /\ Apply(OnDeadSlot(Changes, s))
    /\ tracker' = IF s \in proofs THEN tracker \cup {s} ELSE tracker
    /\ UNCHANGED <<listed, phase, confirmed, sampled, proofs, maxVotes, dirty,
                   cluster, world, restarts>>

-----------------------------------------------------------------------------
(***************************************************************************)
(* Signals from the cluster.                                               *)
(***************************************************************************)
Within(p) == At(p) /\ phase >= Replay
Advance(p) == Within(p) /\ phase' = p

\* frozen_hash or 0; Unprocessed and Dead told apart by the status
HashOf(s) == IF Frozen(s) THEN bank[s].version ELSE 0
Unprocessed(s) == bank[s].status \in {"none", "active"}

\* An answer to an ancestor hashes request names the cluster's version of a
\* slot; a pruned request is about a slot that BankForks does not hold.
EpochSlotsFrozen(s, pruned) ==
    /\ Advance(Samples)
    /\ Agreed(s) /\ s > Root
    /\ pruned => bank[s] = NoBank
    /\ sampled' = [sampled EXCEPT ![s] = cluster[s]]
    /\ LET h == cluster[s]
           known == ~pruned /\ DuplicateConfirmedHash(tree, s, HashOf(s)) # 0
           skip == \/ sampled[s] = h
                   \/ Unprocessed(s) /\ ~pruned
                   \/ known
       IN  Apply(IF skip THEN Changes
                 ELSE AgainstSample(Changes, s, h, HashOf(s), pruned))
    /\ UNCHANGED <<bank, listed, tracker, confirmed, proofs, maxVotes, dirty,
                   cluster, world, restarts>>

\* One slot of a batch: [confirmed, changes, stop]
ConfirmOne(st, s) ==
    IF st.stop \/ s <= Root THEN st
    ELSE IF st.confirmed[s] # 0 THEN [st EXCEPT !.stop = TRUE]
    ELSE LET h == cluster[s]
             own == HashOf(s) # 0 /\ IsConfirmed(st.changes.tree, Key(s))
         IN  [st EXCEPT
                !.confirmed[s] = h,
                !.changes = IF Unprocessed(s) \/ own THEN @
                            ELSE AgainstConfirmed(@, s, h, HashOf(s))]

ConfirmBatch(batch) ==
    FoldLeft(ConfirmOne,
             [confirmed |-> confirmed, changes |-> Changes, stop |-> FALSE], batch)

Batches(ss) == {q \in UNION {[1..n -> ss] : n \in 1..world.batch} :
                    \A i, j \in DOMAIN q : i # j => q[i] # q[j]}

\* process_duplicate_confirmed_slots: the version more than half of the stake
\* voted for; the vote listener sends one slot per message
DuplicateConfirmed(s) ==
    /\ Advance(Confirmations)
    /\ Agreed(s)
    /\ confirmed' = ConfirmBatch(<<s>>).confirmed
    /\ Apply(ConfirmBatch(<<s>>).changes)
    /\ UNCHANGED <<bank, listed, tracker, sampled, proofs, maxVotes, dirty,
                   cluster, world, restarts>>

\* WindowService stores the proof before it sends the slot.  The proof is
\* read by the replay of the slot and by the handlers after it: a proof that
\* comes later in the loop is as good as one that comes now.
StoreProof(s) ==
    /\ panic = "" /\ phase = Replay
    /\ s \notin proofs /\ Cardinality(Versions(s)) > 1
    /\ proofs' = proofs \cup {s}
    /\ UNCHANGED <<tree, bank, listed, phase, tracker, confirmed, sampled,
                   repair, maxVotes, dirty, cluster, world, restarts, panic>>

\* process_duplicate_slots
Duplicate(s) ==
    /\ Advance(Duplicates)
    /\ s \in proofs /\ s > Root
    /\ Apply(IF Unprocessed(s) THEN Changes
             ELSE DuplicateUpdate(Changes, s, HashOf(s)))
    /\ tracker' = tracker \cup {s}
    /\ UNCHANGED <<bank, listed, confirmed, sampled, proofs, maxVotes, dirty,
                   cluster, world, restarts>>

-----------------------------------------------------------------------------
(***************************************************************************)
(* Votes and local confirmation.                                           *)
(***************************************************************************)
\* check_add_vote of a replayed vote for slot s, frozen with hash h
CheckAddVote(v, s) ==
    LET old == maxVotes[v]
        h == IF s = Root THEN tree.root[2] ELSE bank[s].version
        new == [slot |-> s, hashes |-> {h}]
    IN  IF s > old.slot
        THEN [max |-> new, dirty |-> new]
        ELSE IF s = old.slot /\ h \notin old.hashes
             THEN [max |-> [old EXCEPT !.hashes = @ \cup {h}],
                   dirty |-> [slot |-> 0, hashes |-> {h}]]
             ELSE [max |-> old, dirty |-> NoVote]

\* collect_vote_lockouts of one bank: the last vote each voter landed in it,
\* for a slot the progress map holds as frozen
CollectVoteLockouts(landed) ==
    /\ Advance(Stats)
    /\ maxVotes' = [v \in Validators |->
           IF v \in DOMAIN landed THEN CheckAddVote(v, landed[v]).max ELSE maxVotes[v]]
    /\ dirty' = [v \in Validators |->
           IF v \in DOMAIN landed THEN CheckAddVote(v, landed[v]).dirty ELSE NoVote]
    /\ UNCHANGED <<tree, bank, listed, tracker, confirmed, sampled, repair,
                   proofs, cluster, world, restarts, panic>>

\* take_votes_dirty_set, without the votes below the root
TakeVotesDirtySet ==
    LET taken == {v \in Validators : dirty[v] # NoVote /\ dirty[v].slot >= Root}
    IN  [v \in taken |-> <<dirty[v].slot, CHOOSE h \in dirty[v].hashes : TRUE>>]

\* compute_bank_stats of fork choice, right after the votes were collected
ComputeBankStats ==
    /\ panic = "" /\ \E v \in Validators : dirty[v] # NoVote
    /\ tree' = AddVotes(tree, TakeVotesDirtySet)
    /\ dirty' = [v \in Validators |-> NoVote]
    /\ panic' = IF \A v \in Validators : Cardinality(dirty[v].hashes) <= 1
                THEN "" ELSE "votes"
    /\ UNCHANGED <<bank, listed, phase, tracker, confirmed, sampled, repair,
                   proofs, maxVotes, cluster, world, restarts>>

\* mark_slots_confirmed: the slots a bank's votes confirm, with the version
\* it was replayed on
MarkSlotsConfirmed(batch) ==
    /\ Advance(Stats)
    /\ \A s \in ToSet(batch) : Agreed(s) /\ Frozen(s) /\ bank[s].version = cluster[s]
    /\ confirmed' = ConfirmBatch(batch).confirmed
    /\ Apply(ConfirmBatch(batch).changes)
    /\ UNCHANGED <<bank, listed, tracker, sampled, proofs, maxVotes, dirty,
                   cluster, world, restarts>>

-----------------------------------------------------------------------------
(***************************************************************************)
(* Root and dump.                                                          *)
(***************************************************************************)
\* The slots of the bank map b whose block descends from block k
Descendants(b, k) ==
    {s \in Slots : b[s] # 0 /\ <<s, b[s]>> # k /\ k \in ChainOf(<<s, b[s]>>)}

FromSlot(f, s) == [x \in Slots |-> IF x >= s THEN f[x] ELSE 0]

\* handle_new_root: BankForks drops the banks that do not descend from the
\* root; duplicate_slots_to_repair is left as it is.
SetRoot(s) ==
    /\ Advance(Rooting) /\ phase < Rooting
    /\ s > Root /\ Frozen(s) /\ tree.root \in ChainOf(Key(s))
    /\ IsConfirmed(tree, Key(s))
    /\ tree' = SetTreeRoot(tree, Key(s))
    /\ LET keep == Descendants([x \in Slots |-> bank[x].version], Key(s)) \cup {s}
       IN  bank' = [x \in Slots |-> IF x \in keep THEN bank[x] ELSE NoBank]
    /\ tracker' = {x \in tracker : x >= s}
    /\ confirmed' = FromSlot(confirmed, s)
    /\ sampled' = FromSlot(sampled, s)
    /\ UNCHANGED <<listed, repair, proofs, maxVotes, dirty, cluster, world, restarts, panic>>

\* mutant: a slot that PoH is building on is not tried again
DumpGivesUp(d, s, poh) ==
    LET b == d.bank[s]
        building == poh # Genesis /\ <<s, d.listed[s]>> \in ChainOf(poh)
        done == [d EXCEPT !.repair[s] = 0]
        gone == Descendants(d.listed, <<s, d.listed[s]>>) \cup {s}
    IN  IF \/ building \/ d.listed[s] = 0 \/ b.status = "active"
           \/ b.status = "frozen" /\ b.version = d.repair[s]
           \/ \E x \in gone : d.bank[x] = NoBank
        THEN done
        ELSE [done EXCEPT !.bank = [x \in Slots |-> IF x \in gone THEN NoBank ELSE d.bank[x]],
                          !.listed = [x \in Slots |-> IF x \in gone THEN 0 ELSE d.listed[x]]]

\* One slot of dump_then_repair_correct_slots, with the parent of the bank
\* that PoH is building: d = [bank, listed, repair, panic].
DumpOne(d, s, poh) ==
    LET b == d.bank[s]
        building == poh # Genesis /\ <<s, d.listed[s]>> \in ChainOf(poh)
        done == [d EXCEPT !.repair[s] = 0]
        gone == Descendants(d.listed, <<s, d.listed[s]>>) \cup {s}
    IN  IF d.panic # "" \/ building THEN d
        ELSE IF \/ b.status = "frozen" /\ b.version = d.repair[s]
                \/ b.status = "active"
             THEN done
        ELSE IF d.listed[s] = 0
             THEN done
        ELSE IF \E x \in gone : d.bank[x] = NoBank
             THEN [d EXCEPT !.panic = "purge"]
        ELSE [done EXCEPT !.bank = [x \in Slots |-> IF x \in gone THEN NoBank ELSE d.bank[x]],
                          !.listed = [x \in Slots |-> IF x \in gone THEN 0 ELSE d.listed[x]]]

\* dump_then_repair_correct_slots over the slots to repair, in any order; the
\* next iteration begins.
DumpThenRepair(order, poh) ==
    /\ Within(Dumping)
    /\ phase' = New /\ listed' = Zero
    /\ LET d == FoldLeft(LAMBDA acc, s : DumpOne(acc, s, poh),
                         [bank |-> bank, listed |-> listed, repair |-> repair,
                          panic |-> ""], order)
       IN  /\ bank' = d.bank
           /\ repair' = d.repair
           /\ panic' = d.panic
    /\ UNCHANGED <<tree, tracker, confirmed, sampled, proofs, maxVotes, dirty,
                   cluster, world, restarts>>

\* The order in which the map is walked
Orders == LET ss == {s \in Slots : repair[s] # 0}
          IN  {q \in [1..Cardinality(ss) -> ss] : \A s \in ss : \E i \in DOMAIN q : q[i] = s}

-----------------------------------------------------------------------------
(***************************************************************************)
(* Restart: the banks the blockstore still holds are replayed from the     *)
(* root, fork choice is built from them, and the versions of the slots     *)
(* with a duplicate proof are marked (initialize_progress_and_fork_choice).*)
(* Everything else is forgotten.                                           *)
(***************************************************************************)
Ascending(ss) == SetToSortSeq(ss, LAMBDA x, y : x < y)

NewFromFrozenBanks ==
    FoldLeft(LAMBDA t, s : AddNewLeafSlot(t, Key(s), Blocks[Key(s)]),
             NewTree(tree.root),
             Ascending({s \in Slots : s > Root /\ Frozen(s)}))

\* Keys of the slots from the root on that have a bank and a proof
DuplicateSlotHashes ==
    {IF s = Root THEN tree.root ELSE Key(s) :
        s \in {x \in proofs : x = Root \/ (x > Root /\ Frozen(x))}}

Restart ==
    /\ restarts < world.restarts
    /\ restarts' = restarts + 1
    /\ LET start == [tree |-> NewFromFrozenBanks, repair |-> Zero, ok |-> TRUE]
           c == FoldSet(LAMBDA k, acc : MarkSlotDuplicate(acc, k), start, DuplicateSlotHashes)
       IN  /\ tree' = c.tree
           /\ panic' = IF c.ok THEN "" ELSE "startup"
    /\ bank' = [s \in Slots |-> IF Frozen(s) THEN bank[s] ELSE NoBank]
    /\ listed' = Zero /\ phase' = New
    /\ tracker' = {} /\ confirmed' = Zero /\ sampled' = Zero /\ repair' = Zero
    /\ maxVotes' = [v \in Validators |-> NoVote]
    /\ dirty' = [v \in Validators |-> NoVote]
    /\ UNCHANGED <<proofs, cluster, world>>

-----------------------------------------------------------------------------
\* The last votes the voters have landed in one bank, for frozen slots
Landings == UNION {[vs -> {s \in Slots : Frozen(s)} \cup {Root}] :
                   vs \in (SUBSET Validators) \ {{}}}

Next ==
    \/ \E k \in DOMAIN Blocks : NewBank(k)
    \/ StartReplay
    \/ \E s \in Slots : FreezeBank(s)
    \/ \E s \in Slots : MarkDeadSlot(s)
    \/ \E s \in world.sampled, pruned \in BOOLEAN : EpochSlotsFrozen(s, pruned)
    \/ \E s \in Slots : DuplicateConfirmed(s)
    \/ \E s \in Slots : StoreProof(s)
    \/ \E s \in Slots : Duplicate(s)
    \/ \E landed \in Landings : CollectVoteLockouts(landed)
    \/ ComputeBankStats
    \/ \E batch \in Batches(Slots) : MarkSlotsConfirmed(batch)
    \/ \E s \in Slots : SetRoot(s)
    \/ \E order \in Orders, poh \in {Key(s) : s \in {x \in Slots : Frozen(x)}} \cup {Genesis} :
           DumpThenRepair(order, poh)
    \/ Restart

Spec == Init /\ [][Next]_vars

\* In the worlds where repair makes progress: the loop goes round; PoH is
\* reset off an excluded fork (reset_poh_recorder comes before the dump); a
\* bank's replay ends, frozen or dead; whenever a slot stands open, repair may
\* bring the cluster's version, and the replay of that one does not fail every
\* time.  Replays(s, to) is a step of FreezeBank or MarkDeadSlot.
Replays(s, to) ==
    /\ world.repairs /\ s \in Slots
    /\ At(Replay) /\ phase = Replay
    /\ bank[s].status = "active"
    /\ bank' = [bank EXCEPT ![s].status = to]
ReplayRight(s) == Replays(s, "frozen") /\ bank[s].version = cluster[s]
ReplayEnds(s) == Replays(s, "frozen") \/ Replays(s, "dead")
LoopOn == world.repairs /\ \E order \in Orders : DumpThenRepair(order, Genesis)
ReplayOn == world.repairs /\ StartReplay
RepairOn(s) == world.repairs /\ s \in Slots /\ NewBank(<<s, cluster[s]>>)

FairSpec ==
    /\ Spec
    /\ WF_vars(ReplayOn) /\ SF_vars(LoopOn)
    /\ \A s \in AllSlots : /\ SF_vars(RepairOn(s))
                           /\ SF_bank(ReplayEnds(s)) /\ SF_bank(ReplayRight(s))

-----------------------------------------------------------------------------
(***************************************************************************)
(* Properties.                                                             *)
(***************************************************************************)
\* Every field of every node of the tree is what it stands for: the stake of
\* the validators whose latest vote is there or under it, where following the
\* heaviest candidate child leads, the height and the deepest slot of the
\* subtree; although add_votes only adds and subtracts differences, and
\* add_new_leaf_slot and the update operations touch parts of the path.
TreeExact == FieldsExact(tree)

\* select_forks unwraps the bank of the best overall slot: it is in BankForks,
\* frozen, with the hash fork choice has for it, although dumped blocks stay
\* in the tree.
BestIsReplayed == panic = "" => IsFrozenKey(tree.infos[tree.root].best)

\* The marks in fork choice are right.  A version that differs from the one
\* the cluster is known to have confirmed is excluded, and stays queued for
\* the dump, even over iterations whose dump finds a bank being built on it; a
\* replayed version of a slot with a processed duplicate proof is a candidate
\* only if it was confirmed, by votes or by the cluster's answer; and no
\* handler marks a duplicate confirmed block as invalid, which
\* mark_fork_invalid_candidate asserts.
MarksRight ==
    /\ panic \notin {"mark", "votes"}
    /\ panic = "" =>
        \A s \in {x \in Slots : Frozen(x) /\ x > Root} :
            /\ confirmed[s] \notin {0, bank[s].version} =>
                   ~IsCandidate(tree, Key(s)) /\ repair[s] = confirmed[s]
            /\ s \in tracker /\ IsCandidate(tree, Key(s)) =>
                   tree.infos[Key(s)].confirmed \/ sampled[s] = bank[s].version

\* The cluster's version of slot s and of the slots under it is known to be
\* confirmed.
ChainKnown(s) ==
    /\ world.repairs /\ s \in Slots
    /\ \A x \in ChainOf(<<s, cluster[s]>>) :
           Slot(x) > Root => confirmed[Slot(x)] # 0 /\ x[2] = cluster[Slot(x)]

\* It is replayed and confirmed in fork choice, or its fork is gone (or
\* nothing is asked of this world).
Settled(s) ==
    \/ ~world.repairs \/ s \notin Slots
    \/ LET k == <<s, cluster[s]>>
       IN  \/ IsFrozenKey(k) /\ IsConfirmed(tree, k)
           \/ Slot(k) <= Root \/ tree.root \notin ChainOf(k)
           \/ panic # ""

\* Once the cluster's version of a slot and of those under it is known to be
\* confirmed, that version is replayed and confirmed in fork choice, whatever
\* versions were replayed, failed or dumped before, unless the root leaves
\* its fork or passes it.
RepairConverges == \A s \in AllSlots : ChainKnown(s) ~> Settled(s)
=============================================================================
