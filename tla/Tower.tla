------------------------------- MODULE Tower -------------------------------
(***************************************************************************)
(* One validator's voting: the replay stage picks a bank, checks its own   *)
(* tower and votes (core/src/replay_stage.rs, core/src/consensus.rs); the  *)
(* voting service stores the tower and sends the vote                      *)
(* (core/src/voting_service.rs); the votes land, or not, in later blocks,  *)
(* on any fork (VoteState); and the validator may crash at any step and    *)
(* come back from the stored tower (load_tower,                            *)
(* adjust_lockouts_after_replay).                                          *)
(*                                                                         *)
(* What other validators decide is left open: which leaf is heaviest,      *)
(* whether the stake thresholds, the switch proof and the propagation      *)
(* check pass.  Two assumptions on them: the heaviest fork never           *)
(* excludes the root of this validator, and neither does the root it       *)
(* restarts from.  Duplicate blocks are left out.                          *)
(***************************************************************************)
EXTENDS VoteState

CONSTANTS
  Scenarios,       \* the worlds tried: the parent of each slot of a block tree,
                   \* whether the tower file can be lost in a crash, and
                   \* slot_history::MAX_ENTRIES, 2^20 in the code
  MaxCrashes,      \* bound: crashes
  MaxQueue         \* bound: votes waiting for the voting service

ASSUME TowerAssumption ==
  /\ {MaxSlotHashes, MaxQueue} \subseteq Nat \ {0} /\ MaxCrashes \in Nat
  /\ \A sc \in Scenarios :
       /\ \A s \in DOMAIN sc.parent : sc.parent[s] \in 0..(s - 1)
       /\ sc.mayLoseTower \in BOOLEAN /\ sc.historyLen \in Nat \ {0}

VARIABLES
  mayLoseTower, historyLen,   \* the scenario
  ancestors,   \* the proper ancestors of each slot of the tree
  landed,      \* the vote account at the end of each block produced so far
  frozen,      \* the banks of BankForks
  bfRoot,      \* BankForks::root
  ledgerRoot,  \* the highest root of the blockstore
  tower,       \* votes, root, last (last_vote) and stray (stray_restored_slot)
  queue,       \* VoteOps on the way to the voting service
  disk,        \* the stored tower, if any
  sent,        \* the votes that reached the network
  crashes,
  status       \* "running", "down", "panicked", or "rejected" by a restore

world == <<mayLoseTower, historyLen, ancestors>>
towerVars == <<world, landed, frozen, bfRoot, ledgerRoot, tower, queue, disk, sent, crashes, status>>

TreeSlots == DOMAIN ancestors

NoTower == [votes |-> <<>>, root |-> NoSlot]
NoVote  == [votes |-> <<>>, root |-> NoSlot]

AncestorsIn(parent) ==
  LET anc[s \in {0} \cup DOMAIN parent] == IF s = 0 THEN {} ELSE anc[parent[s]] \cup {parent[s]}
  IN  anc

Comparable(s, t) == s = t \/ s \in ancestors[t] \/ t \in ancestors[s]

-----------------------------------------------------------------------------
(* The vote account in the blocks.                                         *)

\* The SlotHashes sysvar in a bank
HashesIn(s) ==
  {a \in ancestors[s] : Cardinality({b \in ancestors[s] : b > a}) < MaxSlotHashes}

AsUpdate(u) == [votes |-> u.votes, root |-> u.root, hash |-> LastVotedSlot(u.votes)]

\* The vote u can still land in block s, whose parent state is before: newer
\* than what landed, for an ancestor whose hash is still known.
CanLand(before, u, s) ==
  /\ LastVotedSlot(u.votes) > LastVotedSlot(before.votes)
  /\ LastVotedSlot(u.votes) \in HashesIn(s)

\* The vote account after block s, which holds at most one of the votes sent
LandedStates(s) ==
  LET before == landed[Max(ancestors[s])]
  IN  {before} \cup
      {FilteredUpdate(before, AsUpdate(u), HashesIn(s)) :
         u \in {w \in sent : UpdateAccepted(before, AsUpdate(w), HashesIn(s))}}

-----------------------------------------------------------------------------
(* The tower.                                                              *)

\* bank_forks.ancestors(): nothing below the root
BankAncestors(s) == {a \in ancestors[s] : a >= bfRoot}

LastVote == LastVotedSlot(tower.last.votes)

IsStrayLastVote == tower.stray # NoSlot /\ tower.stray = LastVote

IsRecent(s) ==
  IF tower.votes # <<>> THEN s > LastVotedSlot(tower.votes) ELSE s > tower.root

\* process_slot_vote_unchecked on a copy of the tower
WithVote(s) == ProcessNextVoteSlot(tower, [slot |-> s, conf |-> 1])

IsLockedOut(s) ==
  \/ ~IsRecent(s)
  \/ \E v \in ToSet(WithVote(s).votes) : v.slot # s /\ v.slot \notin BankAncestors(s)

\* The assertion at the end of is_locked_out: BankForks only holds
\* descendants of the root
RootIsAncestor(s) ==
  IsLockedOut(s) \/ WithVote(s).root \in BankAncestors(s) \cup {s}

\* make_check_switch_threshold_decision, the outcome of the stake comparison
\* being given.  "panic" where the code says it cannot happen.
SwitchDecision(s, proof) ==
  LET known == LastVote \in frozen
  IN  IF LastVote = NoSlot THEN "SameFork"
      ELSE IF ~known /\ ~IsStrayLastVote THEN "panic"
      ELSE IF s = LastVote \/ LastVote \in BankAncestors(s) THEN "SameFork"
      ELSE IF known /\ s \in BankAncestors(LastVote)
             THEN IF IsStrayLastVote THEN "FailedSwitchThreshold" ELSE "panic"
      ELSE IF proof THEN "SwitchProof" ELSE "FailedSwitchThreshold"

\* last_vote_unable_to_land: the last vote is missing from the tip of its
\* fork and too old to land there
UnableToLand(tip) ==
  /\ landed[tip].votes # <<>>
  /\ LastVotedSlot(landed[tip].votes) < LastVote
  /\ LastVote < tip
  /\ LastVote \notin HashesIn(tip)

\* mutant: the newer state of the vote account is not adopted
AdoptNothing(t, bank) == t

\* The overwriting of the tower in compute_bank_stats: a newly frozen bank
\* holds a vote of ours that is newer than the tower.
Adopt(t, bank) ==
  LET behind == bank.root < t.root
      votes  == IF behind THEN SelectSeq(bank.votes, LAMBDA v : v.slot > t.root)
                ELSE bank.votes
      root   == IF behind THEN t.root ELSE bank.root
  IN  IF LastVotedSlot(bank.votes) <= LastVotedSlot(t.votes) THEN t
      ELSE [votes |-> votes, root |-> root,
            last |-> [votes |-> votes, root |-> root], stray |-> t.stray]

\* The assertion there: the adopted votes are on the fork of the local root
AdoptAsserted(t, bank) ==
  LET votes == SelectSeq(bank.votes, LAMBDA v : v.slot > t.root)
  IN  \/ LastVotedSlot(bank.votes) <= LastVotedSlot(t.votes)
      \/ bank.root >= t.root
      \/ votes = <<>>
      \/ t.root \in BankAncestors(Head(votes).slot)

-----------------------------------------------------------------------------
(* Restoring the tower.  r is the root replay ended with.                  *)

\* SlotHistory::check at bank r, after adding the slot extra (r or newer)
SlotHistoryCheck(r, extra, s) ==
  IF s > extra THEN "Future"
  ELSE IF s < extra + 1 - historyLen THEN "TooOld"
  ELSE IF s \in ancestors[r] \cup {r, extra} THEN "Found"
  ELSE "NotFound"

\* Tower::new_from_bankforks, from the vote account at the heaviest bank h
NewFromBankForks(r, h) ==
  [votes |-> SelectSeq(landed[h].votes, LAMBDA v : v.slot > r), root |-> r,
   last |-> NoVote, stray |-> NoSlot]

\* The history a tower is checked against in adjust_lockouts_after_replay: a
\* tower from the future is given one that contains its root.
ReplayCheck(t, r, s) ==
  SlotHistoryCheck(r, IF t.root <= r THEN r ELSE t.root, s)

\* mutant: the root is not among the slots to anchor the tower with
TowerVotesOnly(t) == VotedSlots(t.votes)

\* slots_in_tower
SlotsInTower(t) == VotedSlots(t.votes) \cup {t.root}

\* The tower has a slot in the history and nothing below diverges from it.
Anchored(t, r) ==
  \E a \in SlotsInTower(t) :
    /\ ReplayCheck(t, r, a) = "Found"
    /\ \A s \in SlotsInTower(t) : s < a => ReplayCheck(t, r, s) # "NotFound"

\* The votes newer than the newest slot found in the history
RetainedVotes(t, r) ==
  LET found == {s \in SlotsInTower(t) : ReplayCheck(t, r, s) = "Found"}
  IN  SelectSeq(t.votes, LAMBDA v : v.slot > Max(found))

\* adjust_lockouts_with_slot_history and initialize_root, for a tower that is
\* anchored; a tower from the future keeps its root.
AdjustLockouts(t, r) ==
  LET votes == RetainedVotes(t, r)
  IN  [votes |-> votes, root |-> Max({r, t.root}),
       last  |-> IF votes = <<>> THEN NoVote ELSE t.last,
       stray |-> IF votes = <<>> THEN NoSlot ELSE LastVotedSlot(t.last.votes)]

TooOldTower(t, r) ==
  /\ t.root <= r
  /\ ReplayCheck(t, r, LastVotedSlot(t.last.votes)) = "TooOld"

-----------------------------------------------------------------------------
(* Actions.                                                                *)

\* A bank is replayed and frozen, then compute_bank_stats looks at it.  The
\* block is produced now unless it was replayed before a crash.
ReplayBank(s) ==
  /\ status = "running"
  /\ s \in TreeSlots \ frozen /\ s # 0 /\ Max(ancestors[s]) \in frozen
  /\ \E after \in (IF s \in DOMAIN landed THEN {landed[s]} ELSE LandedStates(s)) :
       /\ landed' = (s :> after) @@ landed
       /\ IF AdoptAsserted(tower, after)
            THEN tower' = Adopt(tower, after) /\ UNCHANGED status
            ELSE status' = "panicked" /\ UNCHANGED tower
  /\ frozen' = frozen \cup {s}
  /\ UNCHANGED <<world, bfRoot, ledgerRoot, queue, disk, sent, crashes>>

Leaves(banks) == {s \in banks : \A t \in banks : s \notin ancestors[t]}

\* handle_new_root: BankForks keeps the root and what descends from it.
Squashed(root) == {b \in frozen : b = root \/ root \in ancestors[b]}

\* handle_votable_bank: the vote is recorded, a new root squashes the banks
\* below it, and the vote goes to the voting service.
HandleVotableBank(s) ==
  LET next  == WithVote(s)
      vote  == [votes |-> next.votes, root |-> next.root]
      voted == [next EXCEPT !.last = vote]
  IN  /\ tower' = voted
      /\ queue' = Append(queue, [vote |-> vote, tower |-> voted])
      /\ IF next.root = tower.root
           THEN UNCHANGED <<frozen, bfRoot, ledgerRoot, status>>
         ELSE IF next.root \in frozen
           THEN /\ bfRoot' = next.root
                /\ ledgerRoot' = Max({ledgerRoot, next.root})
                /\ frozen' = Squashed(next.root)
                /\ UNCHANGED status
           ELSE status' = "panicked" /\ UNCHANGED <<frozen, bfRoot, ledgerRoot>>

\* select_vote_and_reset_forks for the heaviest bank h, or, when the switch
\* threshold fails and the last vote cannot land any more, for the tip of the
\* fork last voted on
SelectVote(h, tip, proof) ==
  LET decision == SwitchDecision(h, proof)
      refresh  == /\ decision = "FailedSwitchThreshold"
                  /\ LastVote \in frozen
                  /\ tip \in Leaves(frozen)
                  /\ tip = LastVote \/ LastVote \in ancestors[tip]
                  /\ UnableToLand(tip)
      s == IF refresh THEN tip ELSE h
  IN  /\ status = "running" /\ Len(queue) < MaxQueue
      /\ h \in Leaves(frozen) /\ Comparable(h, tower.root)
      /\ tip # h => refresh
      /\ IF decision = "panic" \/ ~RootIsAncestor(s)
           THEN /\ status' = "panicked"
                /\ UNCHANGED <<frozen, bfRoot, ledgerRoot, tower, queue>>
           ELSE /\ refresh \/ decision \in {"SameFork", "SwitchProof"}
                /\ ~IsLockedOut(s)
                /\ HandleVotableBank(s)
      /\ UNCHANGED <<world, landed, disk, sent, crashes>>

\* refresh_last_vote: the last vote is sent again when it has not landed at
\* the tip of its fork.  The tower is not stored again.
RefreshLastVote(tip) ==
  /\ status = "running" /\ Len(queue) < MaxQueue
  /\ LastVote # NoSlot /\ tip \in Leaves(frozen)
  /\ tip = LastVote \/ LastVote \in ancestors[tip]
  /\ LastVotedSlot(landed[tip].votes) < LastVote
  /\ tower.last \notin sent \cup {op.vote : op \in ToSet(queue)}
  /\ queue' = Append(queue, [vote |-> tower.last, tower |-> NoTower])
  /\ UNCHANGED <<world, landed, frozen, bfRoot, ledgerRoot, tower, disk,
                 sent, crashes, status>>

\* VotingService::handle_vote: the tower of a new vote is stored ...
StoreTower ==
  /\ status = "running" /\ queue # <<>>
  /\ Head(queue).tower \notin {NoTower, disk}
  /\ disk' = Head(queue).tower
  /\ UNCHANGED <<world, landed, frozen, bfRoot, ledgerRoot, tower, queue,
                 sent, crashes, status>>

\* mutant: the vote is sent whether or not the tower is stored
SendUnstored ==
  /\ status = "running" /\ queue # <<>>
  /\ sent' = sent \cup {Head(queue).vote}
  /\ queue' = Tail(queue)
  /\ UNCHANGED <<world, landed, frozen, bfRoot, ledgerRoot, tower, disk,
                 crashes, status>>

\* ... before the vote is sent.
SendVote ==
  /\ status = "running" /\ queue # <<>>
  /\ Head(queue).tower \in {NoTower, disk}
  /\ sent' = sent \cup {Head(queue).vote}
  /\ queue' = Tail(queue)
  /\ UNCHANGED <<world, landed, frozen, bfRoot, ledgerRoot, tower, disk,
                 crashes, status>>

\* The validator stops at any point; the tower file may be lost with it.
Crash ==
  /\ status = "running" /\ crashes < MaxCrashes
  /\ crashes' = crashes + 1 /\ status' = "down"
  /\ queue' = <<>>
  /\ disk' \in IF mayLoseTower THEN {disk, NoTower} ELSE {disk}
  /\ UNCHANGED <<world, landed, frozen, bfRoot, ledgerRoot, tower, sent>>

\* The validator starts again from root bank r: usually the newer of its own
\* root and the blockstore's, but a newer root of the cluster or, with an
\* older ledger, one from before.  h is the bank a tower is rebuilt from when
\* the stored one is missing or too old.
Restart(r, h) ==
  LET own == Max({ledgerRoot, disk.root})
      rebuild == disk = NoTower \/ TooOldTower(disk, r)
  IN  /\ status = "down"
      /\ r \in DOMAIN landed /\ Comparable(r, own)
      /\ IF rebuild THEN h \in DOMAIN landed /\ (h = r \/ r \in ancestors[h]) ELSE h = r
      /\ frozen' = {r} /\ bfRoot' = r /\ ledgerRoot' = r
      /\ IF rebuild
           THEN tower' = NewFromBankForks(r, h) /\ status' = "running"
         ELSE IF Anchored(disk, r)
           THEN tower' = AdjustLockouts(disk, r) /\ status' = "running"
           ELSE status' = "rejected" /\ UNCHANGED tower
      /\ UNCHANGED <<world, landed, queue, disk, sent, crashes>>

TowerInit ==
  /\ \E sc \in Scenarios :
       /\ mayLoseTower = sc.mayLoseTower /\ historyLen = sc.historyLen
       /\ ancestors = AncestorsIn(sc.parent)
  /\ landed = (0 :> NoVote)
  /\ frozen = {0} /\ bfRoot = 0 /\ ledgerRoot = 0
  /\ tower = [votes |-> <<>>, root |-> 0, last |-> NoVote, stray |-> NoSlot]
  /\ queue = <<>> /\ disk = NoTower /\ sent = {}
  /\ crashes = 0 /\ status = "running"

TowerNext ==
  \/ \E s \in TreeSlots : ReplayBank(s) \/ RefreshLastVote(s)
  \/ \E h, tip \in TreeSlots, proof \in BOOLEAN : SelectVote(h, tip, proof)
  \/ StoreTower \/ SendVote
  \/ Crash
  \/ \E r, h \in TreeSlots : Restart(r, h)

TowerSpec == TowerInit /\ [][TowerNext]_towerVars

-----------------------------------------------------------------------------

(* No vote that was sent is contradicted before its lockout has passed: a   *)
(* later vote is for a descendant of it or for a slot after the lockout,    *)
(* crashes and restarts included, unless the tower file was lost.  This is  *)
(* what is_locked_out, the order of storing and sending, and the restored   *)
(* tower are for.                                                           *)
LockoutKept ==
  ~mayLoseTower =>
    \A u, w \in sent :
      LastVotedSlot(u.votes) < LastVotedSlot(w.votes) =>
        \A v \in ToSet(u.votes) :
          \/ v.slot \in ancestors[LastVotedSlot(w.votes)]
          \/ LastLockedOutSlot(v) < LastVotedSlot(w.votes)

(* A vote that was sent is accepted by every block it can still reach: the  *)
(* vote program never reports a lockout conflict, a roll back or a slot     *)
(* mismatch to a validator that follows its tower, whichever of its earlier *)
(* votes were lost on the way to this fork.  One exception: restarted from  *)
(* a root its stray votes do not know, a validator may vote for that very   *)
(* root, and the vote program refuses votes at or below their own root.     *)
VoteLands ==
  ~mayLoseTower =>
    \A u \in {w \in sent : w.root > 0 => w.root \notin VotedSlots(w.votes)} :
      \A s \in {t \in TreeSlots \ DOMAIN landed : Max(ancestors[t]) \in DOMAIN landed} :
        LET before == landed[Max(ancestors[s])]
        IN  CanLand(before, u, s) => UpdateAccepted(before, AsUpdate(u), HashesIn(s))

(* The tower is never behind a vote of ours that landed in a bank it knows, *)
(* even when the tower file was lost and the tower rebuilt from the vote    *)
(* account of another bank: the validator cannot vote again on a slot that  *)
(* these banks say it voted on.                                             *)
NeverBehind ==
  status = "running" =>
    \A s \in frozen :
      LastVotedSlot(landed[s].votes) <= Max({LastVotedSlot(tower.votes), tower.root})

(* None of the cases the code calls impossible happens: no assertion of     *)
(* is_locked_out, of the switch check, of the adoption of a bank's votes,   *)
(* no missing root bank; and a tower stored before a crash is consistent    *)
(* with the ledger afterwards, if the slot history reaches back to it: the  *)
(* errors "this can't happen unless we're fed with bogus snapshot" and "no  *)
(* common slot for rooted tower" do not happen.                             *)
TowerNeverFails ==
  /\ status # "panicked"
  /\ status = "rejected" => mayLoseTower
=============================================================================
