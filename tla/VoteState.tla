----------------------------- MODULE VoteState -----------------------------
(***************************************************************************)
(* The lockout stack of a vote account and of a validator's own tower:     *)
(* sdk/program/src/vote/state/mod.rs, and the two ways the vote program    *)
(* replaces it (programs/vote/src/vote_state/mod.rs): one vote at a time   *)
(* (process_vote) or a whole stack (process_new_vote_state).               *)
(*                                                                         *)
(* A vote is a record with at least the fields slot and conf (its          *)
(* confirmation_count); further fields ride along unchanged.  A vote state *)
(* is a record with at least the fields votes, oldest first, and root.     *)
(* The hash of the block of slot s is s itself: two blocks of one slot are *)
(* not told apart.                                                         *)
(***************************************************************************)
EXTENDS Integers, Sequences, SequencesExt, FiniteSetsExt

CONSTANTS
  MaxLockoutHistory,   \* MAX_LOCKOUT_HISTORY, 31 in the code
  MaxSlotHashes        \* slot_hashes::MAX_ENTRIES, 512 in the code

\* Option::None of a slot
NoSlot == -1

LastLockedOutSlot(v) == v.slot + 2 ^ v.conf

IsLockedOutAtSlot(v, s) == LastLockedOutSlot(v) >= s

LastVotedSlot(votes) == IF votes = <<>> THEN NoSlot ELSE Last(votes).slot

VotedSlots(votes) == {votes[i].slot : i \in DOMAIN votes}

\* mutant: votes are popped one slot too early
PopExpiredEarly(votes, s) ==
  LET locked == {i \in DOMAIN votes : LastLockedOutSlot(votes[i]) > s}
  IN  SubSeq(votes, 1, Max(locked \cup {0}))

\* Votes leave the top of the stack until one is met that is locked out at s.
PopExpiredVotes(votes, s) ==
  LET locked == {i \in DOMAIN votes : IsLockedOutAtSlot(votes[i], s)}
  IN  SubSeq(votes, 1, Max(locked \cup {0}))

\* A vote is confirmed once more when the stack above it is deeper than ever.
DoubleLockouts(votes) ==
  [i \in DOMAIN votes |->
     IF Len(votes) > (i - 1) + votes[i].conf
       THEN [votes[i] EXCEPT !.conf = @ + 1]
       ELSE votes[i]]

\* process_next_vote_slot: v is the new vote, with conf = 1.
ProcessNextVoteSlot(vs, v) ==
  LET live == PopExpiredVotes(vs.votes, v.slot)
      full == Len(live) = MaxLockoutHistory
  IN  IF v.slot <= LastVotedSlot(vs.votes)
        THEN vs
        ELSE [vs EXCEPT
                !.votes = DoubleLockouts(Append(IF full THEN Tail(live) ELSE live, v)),
                !.root  = IF full THEN Head(live).slot ELSE @]

-----------------------------------------------------------------------------
(* A whole stack proposed by VoteStateUpdate.  sh is the set of slots of   *)
(* the SlotHashes sysvar: the newest ancestors of the executing bank.      *)

\* The proposed root when it is older than every slot hash: the newest vote
\* of the account at or below it, or the account's root.
OverwrittenRoot(vs, root, sh) ==
  LET older == {s \in VotedSlots(vs.votes) : s <= root}
  IN  IF root = NoSlot \/ root >= Min(sh) THEN root
      ELSE IF older = {} THEN vs.root ELSE Max(older)

\* check_update_vote_state_slots_are_valid, its verdict
UpdateSlotsValid(vs, upd, sh) ==
  LET root  == OverwrittenRoot(vs, upd.root, sh)
      Known(s) == s < Min(sh) \/ s \in sh
  IN  /\ upd.votes # <<>> /\ sh # {}
      /\ upd.hash = LastVotedSlot(upd.votes)
      /\ LastVotedSlot(upd.votes) > LastVotedSlot(vs.votes)
      /\ LastVotedSlot(upd.votes) >= Min(sh)
      /\ root # NoSlot => Known(root)
      /\ \A i \in DOMAIN upd.votes :
           /\ Known(upd.votes[i].slot)
           /\ i > 1 => upd.votes[i].slot > upd.votes[i - 1].slot
           /\ root # NoSlot /\ root > Min(sh) => upd.votes[i].slot >= root

\* mutant: votes older than the slot hashes are kept as proposed
FilterNothing(vs, upd, sh) ==
  [votes |-> upd.votes, root |-> OverwrittenRoot(vs, upd.root, sh)]

\* ... and what it leaves of the proposed stack: votes older than the slot
\* hashes survive only when the account already holds them.
FilteredUpdate(vs, upd, sh) ==
  [votes |-> SelectSeq(upd.votes,
               LAMBDA v : v.slot >= Min(sh) \/ v.slot \in VotedSlots(vs.votes)),
   root  |-> OverwrittenRoot(vs, upd.root, sh)]

\* mutant: the lost vote may still be locked out at the slot that replaced it
NoConflictOffByOne(vs, new) ==
  \A i \in {j \in DOMAIN vs.votes : vs.votes[j].slot > new.root} :
    LET v     == vs.votes[i]
        later == {n \in ToSet(new.votes) : n.slot >= v.slot}
    IN  \A n \in later :
          (\A m \in later : n.slot <= m.slot) =>
            IF n.slot = v.slot THEN n.conf >= v.conf
                               ELSE LastLockedOutSlot(v) <= n.slot

\* No vote newer than the new root is lost unless it had expired, or loses
\* confirmations: the comparison of the two stacks in process_new_vote_state.
NoConflict(vs, new) ==
  \A i \in {j \in DOMAIN vs.votes : vs.votes[j].slot > new.root} :
    LET v     == vs.votes[i]
        later == {n \in ToSet(new.votes) : n.slot >= v.slot}
    IN  \A n \in later :
          (\A m \in later : n.slot <= m.slot) =>
            IF n.slot = v.slot THEN n.conf >= v.conf
                               ELSE LastLockedOutSlot(v) < n.slot

\* The checks of process_new_vote_state on the proposed stack alone
NewStateWellFormed(new) ==
  /\ Len(new.votes) <= MaxLockoutHistory
  /\ \A i \in DOMAIN new.votes :
       LET v == new.votes[i]
       IN  /\ v.conf \in 1..MaxLockoutHistory
           /\ new.root > 0 => v.slot > new.root
           /\ i > 1 => LET u == new.votes[i - 1]
                       IN  /\ u.slot < v.slot
                           /\ u.conf > v.conf
                           /\ v.slot <= LastLockedOutSlot(u)

\* process_new_vote_state accepts new; None is below every root.
NewStateAccepted(vs, new) ==
  /\ new.root >= vs.root
  /\ NewStateWellFormed(new)
  /\ NoConflict(vs, new)

\* do_process_vote_state_update
UpdateAccepted(vs, upd, sh) ==
  /\ UpdateSlotsValid(vs, upd, sh)
  /\ NewStateAccepted(vs, FilteredUpdate(vs, upd, sh))

-----------------------------------------------------------------------------
(* Single votes.                                                           *)

\* process_vote: what is left of the voted slots
RecentSlots(slots, sh) ==
  SelectSeq(slots, LAMBDA s : s >= (IF sh = {} THEN 0 ELSE Min(sh)))

\* check_slots_are_valid: the slots newer than the last vote are looked up in
\* the slot hashes, oldest first; an old slot after the newest hash is not
\* skipped any more.
SlotsValid(vs, slots, hash, sh) ==
  LET new == SelectSeq(slots, LAMBDA s : s > LastVotedSlot(vs.votes))
  IN  /\ new # <<>>
      /\ ToSet(new) \subseteq sh
      /\ \A i \in 2..Len(new) : new[i - 1] < new[i]
      /\ Last(new) = Max(sh) => Last(slots) = Last(new)
      /\ hash = Last(new)

VoteAccepted(vs, slots, hash, sh) ==
  /\ RecentSlots(slots, sh) # <<>>
  /\ SlotsValid(vs, RecentSlots(slots, sh), hash, sh)
=============================================================================
