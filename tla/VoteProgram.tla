---------------------------- MODULE VoteProgram ----------------------------
(***************************************************************************)
(* A vote account on one fork of the ledger: the banks of the fork execute *)
(* Vote and UpdateVoteState instructions signed by its authorized voter.   *)
(* programs/vote/src/vote_state/mod.rs; the stack itself is VoteState.     *)
(*                                                                         *)
(* An instruction that fails leaves the account as it was: the code works  *)
(* on a copy of the state and stores it at the end.  Only the instructions *)
(* that succeed are steps.  Timestamps are left out, and of the credits    *)
(* the total is kept, not its split by epoch.                              *)
(***************************************************************************)
EXTENDS VoteState

CONSTANTS
  MaxSlot,             \* bound: last slot of the fork
  GraceSlots,          \* VOTE_CREDITS_GRACE_SLOTS, 2 in the code
  MaxCreditsPerSlot,   \* VOTE_CREDITS_MAXIMUM_PER_SLOT, 16 in the code
  VoteInputs,          \* the slot sequences and hashes tried by Vote
  StackInputs          \* the vote stacks and hashes tried by UpdateVoteState

ASSUME VoteProgramAssumption ==
  {MaxSlot, MaxSlotHashes, MaxLockoutHistory, GraceSlots, MaxCreditsPerSlot}
    \subseteq Nat \ {0}

VARIABLES
  slot,   \* the executing bank
  fork,   \* its proper ancestors
  timely, \* whether the fork has the feature timely_vote_credits
  vs      \* the vote account: votes (with latency), root, credits

vars == <<slot, fork, timely, vs>>

Slots == 0..MaxSlot

\* The SlotHashes sysvar of the executing bank
SlotHashes == {s \in fork : Cardinality({t \in fork : t > s}) < MaxSlotHashes}

-----------------------------------------------------------------------------

\* compute_vote_latency; 0 when latencies are not recorded
Latency(s) == IF timely THEN slot - s ELSE 0

\* credits_for_vote_at_index
CreditsForVote(v) ==
  IF v.latency = 0 \/ ~timely THEN 1
  ELSE Max({1, MaxCreditsPerSlot - Max({0, v.latency - GraceSlots})})

\* mutant: a new root pays for every vote of the account, rooted or not
EarnedByAll(root) ==
  IF root = vs.root THEN 0
  ELSE FoldSeq(LAMBDA v, sum : sum + CreditsForVote(v),
               IF timely THEN 0 ELSE 1, vs.votes)

\* What a VoteStateUpdate with this root earns: the votes it roots, and before
\* timely_vote_credits one for the root itself, voted on or not.
EarnedCredits(root) ==
  LET rooted == SelectSeq(vs.votes, LAMBDA v :
                  v.slot <= root /\ (timely \/ v.slot # root))
  IN  IF root = vs.root THEN 0
      ELSE FoldSeq(LAMBDA v, sum : sum + CreditsForVote(v),
                   IF timely THEN 0 ELSE 1, rooted)

\* A slot the account already holds keeps its latency, others get it now.
WithLatency(v) ==
  LET known == {i \in DOMAIN vs.votes :
                  vs.votes[i].slot = v.slot /\ vs.votes[i].latency # 0}
  IN  [slot |-> v.slot, conf |-> v.conf,
       latency |-> IF known = {} THEN Latency(v.slot)
                   ELSE vs.votes[CHOOSE i \in known : TRUE].latency]

\* process_next_vote_slot with its credits: the vote that falls off the full
\* stack is paid for.
CastVote(state, s) ==
  LET next == ProcessNextVoteSlot(state, [slot |-> s, conf |-> 1, latency |-> Latency(s)])
  IN  [next EXCEPT !.credits =
         IF next.root = state.root THEN @ ELSE @ + CreditsForVote(Head(state.votes))]

-----------------------------------------------------------------------------

\* A bank of the fork is frozen and a child of it starts, slots in between
\* being skipped.
NextBank(s) ==
  /\ s \in (slot + 1)..MaxSlot
  /\ fork' = fork \cup {slot}
  /\ slot' = s
  /\ UNCHANGED <<timely, vs>>

\* Vote: process_vote_with_account
ProcessVote(slots, hash) ==
  /\ slots # <<>>
  /\ VoteAccepted(vs, slots, hash, SlotHashes)
  /\ vs' = FoldLeft(CastVote, vs, RecentSlots(slots, SlotHashes))
  /\ UNCHANGED <<slot, fork, timely>>

\* UpdateVoteState: process_vote_state_update
ProcessVoteStateUpdate(votes, root, hash) ==
  LET upd == [votes |-> votes, root |-> root, hash |-> hash]
      new == FilteredUpdate(vs, upd, SlotHashes)
  IN  /\ UpdateAccepted(vs, upd, SlotHashes)
      /\ vs' = [votes   |-> [i \in DOMAIN new.votes |-> WithLatency(new.votes[i])],
                root    |-> new.root,
                credits |-> vs.credits + EarnedCredits(new.root)]
      /\ UNCHANGED <<slot, fork, timely>>

\* A new vote account has no root; Tower::default gives one to a validator.
Init ==
  /\ slot = 1 /\ fork = {0} /\ timely \in BOOLEAN
  /\ vs = [votes |-> <<>>, root |-> NoSlot, credits |-> 0]

Next ==
  \/ \E s \in Slots : NextBank(s)
  \/ \E in \in VoteInputs : ProcessVote(in.slots, in.hash)
  \/ \E in \in StackInputs, root \in Slots \cup {NoSlot} :
       ProcessVoteStateUpdate(in.votes, root, in.hash)

Spec == Init /\ [][Next]_vars

-----------------------------------------------------------------------------

(* Every vote and the root of the account are blocks of this fork, although *)
(* slots older than the slot hashes cannot be looked up.                    *)
VotesOnFork ==
  /\ VotedSlots(vs.votes) \subseteq fork
  /\ vs.root \in fork \cup {NoSlot}

(* Credits are for blocks of the fork up to the root, each at most once and *)
(* for at most the maximum per slot, whatever mix of instructions is used.  *)
CreditsPerSlot ==
  vs.credits <=
    (IF timely THEN MaxCreditsPerSlot ELSE 1)
      * Cardinality({s \in fork : s <= vs.root})

(* No instruction rolls the account back: the root and the last vote never  *)
(* recede, a vote above the new root that disappears had expired by the     *)
(* time of the last vote, one that stays loses no confirmation.             *)
NoRollback ==
  [][/\ vs'.root >= vs.root
     /\ LastVotedSlot(vs'.votes) >= LastVotedSlot(vs.votes)
     /\ \A i \in DOMAIN vs.votes :
          LET v == vs.votes[i]
          IN  v.slot > vs'.root =>
                \/ LastLockedOutSlot(v) < LastVotedSlot(vs'.votes)
                \/ \E j \in DOMAIN vs'.votes :
                     /\ vs'.votes[j].slot = v.slot
                     /\ vs'.votes[j].conf >= v.conf]_vars
=============================================================================
