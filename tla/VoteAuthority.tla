--------------------------- MODULE VoteAuthority ---------------------------
(***************************************************************************)
(* Who may sign for a vote account, and what its balance must be: the      *)
(* instructions of the vote program other than the votes themselves        *)
(* (programs/vote/src/vote_state/mod.rs), the epochs of its authorized     *)
(* voters (sdk/program/src/vote/authorized_voters.rs), and the record the  *)
(* banks keep of them for the leader schedule and for gossip               *)
(* (runtime/src/epoch_stakes.rs).                                          *)
(*                                                                         *)
(* The account has stake, so that EpochStakes records it.  Of the votes    *)
(* only the signature check and the epoch of the last credits are kept.    *)
(* Instructions that fail change nothing and are no steps.  The *Checked   *)
(* and *WithSeed instructions are the same operations with other signers.  *)
(***************************************************************************)
EXTENDS Integers, Sequences, SequencesExt, FiniteSetsExt

CONSTANTS
  Keys,            \* the public keys that sign
  Nodes,           \* the node identities among them
  Commissions,     \* the commissions tried
  LastSlot,        \* bound: the last slot
  SlotsPerEpoch,   \* EpochSchedule::slots_per_epoch, after warmup
  ScheduleOffset,  \* leader_schedule_slot_offset
  MaxItems,        \* MAX_ITEMS of CircBuf, 32 in the code
  RentV1_14_11,    \* rent-exempt minimum at the size of VoteState1_14_11 ...
  RentCurrent,     \* ... and at that of the current version
  MaxLamports,     \* bound: the balance
  MaxClosed        \* bound: how often the account is closed

ASSUME VoteAuthorityAssumption ==
  /\ {LastSlot, SlotsPerEpoch, MaxItems, RentV1_14_11} \subseteq Nat \ {0}
  /\ {ScheduleOffset, RentCurrent, MaxLamports, MaxClosed} \subseteq Nat
  /\ RentV1_14_11 <= RentCurrent
  /\ Nodes \subseteq Keys /\ Commissions \subseteq Nat

NoEpoch == -1

VARIABLES
  bankSlot,     \* the executing bank
  latency,      \* feature vote_state_add_vote_latency
  account,      \* the vote account
  lamports,     \* its balance
  closed,       \* history: how often it was closed
  epochStakes,  \* the voter EpochStakes has for an epoch, and closed then
  votedBy       \* history: who signed votes in each epoch since Initialize

authorityVars == <<bankSlot, latency, account, lamports, closed, epochStakes, votedBy>>

Epoch(s) == s \div SlotsPerEpoch

\* get_leader_schedule_epoch
LeaderScheduleEpoch(s) == (s + ScheduleOffset) \div SlotsPerEpoch

\* An account that is not there, and one that waits to be initialized
NoAccount == [status |-> "none"]
Uninitialized(current) == [status |-> "uninitialized", current |-> current]

MinimumBalance(current) == IF current THEN RentCurrent ELSE RentV1_14_11

-----------------------------------------------------------------------------
(* AuthorizedVoters: a function from some epochs to keys.                  *)

\* get_authorized_voter is Some
HasAuthorizedVoter(voters, e) == \E x \in DOMAIN voters : x <= e

\* get_authorized_voter: the entry for the epoch or the latest one before it
GetAuthorizedVoter(voters, e) == voters[Max({x \in DOMAIN voters : x <= e})]

\* get_and_update_authorized_voter: the voter of epoch e is entered for e, and
\* the epochs before e go.
GetAndUpdate(voters, e) ==
  [x \in {y \in DOMAIN voters : y > e} \cup {e} |->
     IF x = e THEN GetAuthorizedVoter(voters, e) ELSE voters[x]]

\* mutant: the range of the old voter ends now and not when the new one starts
WithPriorNow(prior, key, epoch, target) ==
  LET from == IF prior = <<>> THEN 0 ELSE Last(prior).until
      item == [key |-> key, from |-> from, until |-> epoch]
  IN  Append(IF Len(prior) = MaxItems THEN Tail(prior) ELSE prior, item)

\* prior_voters.append: the oldest range is overwritten when the buffer is full
WithPrior(prior, key, epoch, target) ==
  LET from == IF prior = <<>> THEN 0 ELSE Last(prior).until
      item == [key |-> key, from |-> from, until |-> target]
  IN  Append(IF Len(prior) = MaxItems THEN Tail(prior) ELSE prior, item)

\* The epoch a new voter starts in
TargetEpoch(s) == LeaderScheduleEpoch(s) + 1

\* mutant: the account grows whether or not its balance allows it
StoredGrown(acct, balance) == [acct EXCEPT !.current = @ \/ latency]

\* set_vote_account_state: the account grows to the current version if the
\* feature is active and the balance allows it.
Stored(acct, balance) ==
  [acct EXCEPT !.current = @ \/ (latency /\ balance >= MinimumBalance(TRUE))]

-----------------------------------------------------------------------------
(* Banks.                                                                  *)

\* update_epoch_stakes: an epoch that is not there yet is recorded.
WithEpochStakes(e) ==
  IF e \in DOMAIN epochStakes \/ account.status # "initialized" THEN epochStakes
  ELSE IF ~HasAuthorizedVoter(account.voters, e) THEN epochStakes
  ELSE [x \in DOMAIN epochStakes \cup {e} |->
          IF x = e THEN [voter  |-> GetAuthorizedVoter(account.voters, e),
                         closed |-> closed]
          ELSE epochStakes[x]]

\* The next bank, at most an epoch later, and perhaps the feature with it.  An
\* epoch of the schedule is recorded by its first bank, with or without the
\* account.
NextBankAt(s) ==
  /\ s \in (bankSlot + 1)..LastSlot /\ s <= bankSlot + SlotsPerEpoch
  /\ bankSlot' = s
  /\ latency' \in IF Epoch(s) > Epoch(bankSlot) THEN {latency, TRUE} ELSE {latency}
  /\ epochStakes' =
       IF LeaderScheduleEpoch(s) = LeaderScheduleEpoch(bankSlot) THEN epochStakes
       ELSE WithEpochStakes(LeaderScheduleEpoch(s))
  /\ UNCHANGED <<account, lamports, closed, votedBy>>

\* The System program creates the account or adds to its balance.
CreateAccount(current, balance) ==
  /\ account = NoAccount /\ balance >= MinimumBalance(current)
  /\ account' = Uninitialized(current) /\ lamports' = balance
  /\ UNCHANGED <<bankSlot, latency, closed, epochStakes, votedBy>>

Deposit(amount) ==
  /\ account # NoAccount /\ lamports + amount <= MaxLamports
  /\ lamports' = lamports + amount
  /\ UNCHANGED <<bankSlot, latency, account, closed, epochStakes, votedBy>>

-----------------------------------------------------------------------------
(* Instructions.                                                           *)

InitializeAccount(node, voter, withdrawer, commission, signers) ==
  /\ account = Uninitialized(latency)
  /\ lamports >= MinimumBalance(account.current)
  /\ node \in signers
  /\ account' = [status |-> "initialized", current |-> account.current, node |-> node,
                 voters |-> [e \in {Epoch(bankSlot)} |-> voter], prior |-> <<>>,
                 withdrawer |-> withdrawer, commission |-> commission,
                 creditEpoch |-> NoEpoch]
  /\ votedBy' = [e \in {} |-> voter]
  /\ UNCHANGED <<bankSlot, latency, lamports, closed, epochStakes>>

\* Authorize(Voter): set_new_authorized_voter
AuthorizeVoter(key, signers) ==
  LET voters == GetAndUpdate(account.voters, Epoch(bankSlot))
      voter  == GetAuthorizedVoter(account.voters, Epoch(bankSlot))
      target == TargetEpoch(bankSlot)
      latest == voters[Max(DOMAIN voters)]
  IN  /\ account.status = "initialized"
      /\ {account.withdrawer, voter} \cap signers # {}
      /\ target \notin DOMAIN voters
      /\ account' = Stored(
           [account EXCEPT
              !.voters = [x \in DOMAIN voters \cup {target} |->
                            IF x = target THEN key ELSE voters[x]],
              !.prior  = IF key = latest THEN @
                         ELSE WithPrior(@, latest, Epoch(bankSlot), target)], lamports)
      /\ UNCHANGED <<bankSlot, latency, lamports, closed, epochStakes, votedBy>>

\* Authorize(Withdrawer)
AuthorizeWithdrawer(key, signers) ==
  /\ account.status = "initialized" /\ account.withdrawer \in signers
  /\ account' = Stored([account EXCEPT !.withdrawer = key], lamports)
  /\ UNCHANGED <<bankSlot, latency, lamports, closed, epochStakes, votedBy>>

UpdateValidatorIdentity(node, signers) ==
  /\ account.status = "initialized" /\ {account.withdrawer, node} \subseteq signers
  /\ account' = Stored([account EXCEPT !.node = node], lamports)
  /\ UNCHANGED <<bankSlot, latency, lamports, closed, epochStakes, votedBy>>

\* UpdateCommission: an increase only in the first half of the epoch
UpdateCommission(commission, signers) ==
  /\ account.status = "initialized" /\ account.withdrawer \in signers
  /\ commission > account.commission => (bankSlot % SlotsPerEpoch) * 2 <= SlotsPerEpoch
  /\ account' = Stored([account EXCEPT !.commission = commission], lamports)
  /\ UNCHANGED <<bankSlot, latency, lamports, closed, epochStakes, votedBy>>

\* Vote, UpdateVoteState: verify_and_get_vote_state, and the credits earned
ProcessSignedVote(credited, signers) ==
  LET voters == GetAndUpdate(account.voters, Epoch(bankSlot))
      voter  == GetAuthorizedVoter(account.voters, Epoch(bankSlot))
  IN  /\ account.status = "initialized" /\ voter \in signers
      /\ account' = Stored([account EXCEPT
                              !.voters = voters,
                              !.creditEpoch = IF credited THEN Epoch(bankSlot) ELSE @], lamports)
      /\ votedBy' = [e \in DOMAIN votedBy \cup {Epoch(bankSlot)} |->
                       IF e = Epoch(bankSlot) THEN voter ELSE votedBy[e]]
      /\ UNCHANGED <<bankSlot, latency, lamports, closed, epochStakes>>

\* Withdraw.  An account without lamports is gone at the end of the
\* transaction; an active one may not be emptied.
Withdraw(amount, signers) ==
  LET rest == lamports - amount
  IN  /\ account.status = "initialized" /\ account.withdrawer \in signers
      /\ rest >= 0
      /\ IF rest = 0
           THEN /\ closed < MaxClosed
                /\ account.creditEpoch # NoEpoch => Epoch(bankSlot) - account.creditEpoch >= 2
                /\ account' = NoAccount /\ closed' = closed + 1
           ELSE /\ rest >= MinimumBalance(account.current)
                /\ UNCHANGED <<account, closed>>
      /\ lamports' = rest
      /\ UNCHANGED <<bankSlot, latency, epochStakes, votedBy>>

\* Before the feature every account has the old size.
AuthorityInit ==
  /\ bankSlot = 0 /\ latency = FALSE
  /\ account = NoAccount /\ lamports = 0 /\ closed = 0
  /\ epochStakes = << >> /\ votedBy = << >>

AuthorityNext ==
  \/ \E s \in 0..LastSlot : NextBankAt(s)
  \/ \E current \in BOOLEAN, n \in 1..MaxLamports : CreateAccount(current, n)
  \/ \E n \in 1..MaxLamports : Deposit(n)
  \/ \E signers \in SUBSET Keys :
       \/ \E node \in Nodes, voter, withdrawer \in Keys, c \in Commissions :
            InitializeAccount(node, voter, withdrawer, c, signers)
       \/ \E key \in Keys : AuthorizeVoter(key, signers) \/ AuthorizeWithdrawer(key, signers)
       \/ \E node \in Nodes : UpdateValidatorIdentity(node, signers)
       \/ \E c \in Commissions : UpdateCommission(c, signers)
       \/ \E credited \in BOOLEAN : ProcessSignedVote(credited, signers)
       \/ \E n \in 1..MaxLamports : Withdraw(n, signers)

AuthoritySpec == AuthorityInit /\ [][AuthorityNext]_authorityVars

-----------------------------------------------------------------------------

(* What is recorded of an account's voters is true.  The voter EpochStakes  *)
(* has for an epoch, which gossip checks votes against, is the one the vote *)
(* program asks for in that epoch, however the account is reauthorized      *)
(* after the stakes were recorded.  prior_voters, kept "to support later    *)
(* slashing", tells who voted: a range that covers an epoch names the key   *)
(* that signed in it, and an epoch no range covers is older than the buffer *)
(* or belongs to the latest voter.                                          *)
VoterRecordsTrue ==
  account.status = "initialized" =>
    /\ \A e \in DOMAIN epochStakes :
         e >= Epoch(bankSlot) /\ epochStakes[e].closed = closed =>
           GetAuthorizedVoter(account.voters, e) = epochStakes[e].voter
    /\ \A e \in DOMAIN votedBy :
         LET covering == {r \in ToSet(account.prior) : r.from <= e /\ e < r.until}
         IN  IF covering # {} THEN \A r \in covering : r.key = votedBy[e]
             ELSE \/ account.prior # <<>> /\ e < Head(account.prior).from
                  \/ votedBy[e] = account.voters[Max(DOMAIN account.voters)]

(* An initialized account is rent exempt at its size, although its size and *)
(* its balance change in different instructions.                            *)
RentExempt ==
  account.status = "initialized" => lamports >= MinimumBalance(account.current)
=============================================================================
