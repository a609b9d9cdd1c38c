--------------------------- MODULE SystemAccounts ---------------------------
(***************************************************************************)
(* Accounts as the System program and the bank see them: balance, owner,   *)
(* length of the data, and what the data deserialises to as a nonce        *)
(* (sdk/program/src/nonce/state).  Rent states are those of                *)
(* svm/src/account_rent_state.rs.                                          *)
(*                                                                         *)
(* Blockhashes are numbered in the order in which they are registered.     *)
(* DurableNonce::from_blockhash hashes under a prefix, so the durable      *)
(* nonce of blockhash n and blockhash n itself are different hashes; a     *)
(* nonce is the number n together with the version that says which of the  *)
(* two hashes is stored ("Legacy": the blockhash, "Current": the durable   *)
(* nonce derived from it).                                                 *)
(***************************************************************************)
EXTENDS Integers, FiniteSets, Functions

CONSTANTS
  Keys,         \* account addresses
  NoKey,        \* the absence of an address
  System,       \* the id of the System program
  Programs,     \* the ids of other programs that own accounts
  Derivations,  \* <<base, owner, address>>: create_with_seed(base, _, owner) = address
  Lens,         \* data lengths
  TagLen,       \* bytes needed to read the two enum tags of nonce Versions
  NonceLen,     \* nonce::State::size()
  MaxLen,       \* MAX_PERMITTED_DATA_LENGTH
  MinBalance,   \* Rent::minimum_balance, by data length
  MaxResize,    \* MAX_PERMITTED_ACCOUNTS_DATA_ALLOCATIONS_PER_TRANSACTION
  Fee,          \* lamports charged for a transaction
  Amounts       \* lamport amounts an instruction may name

ASSUME KeysAssumption == NoKey \notin Keys /\ System \notin Programs
ASSUME DerivationsAssumption ==
  Derivations \subseteq Keys \X (Programs \cup {System}) \X Keys
ASSUME LensAssumption ==
  /\ Lens \subseteq Nat /\ 0 \in Lens /\ NonceLen \in Lens
  /\ TagLen \in Nat /\ NonceLen \in Nat /\ MaxLen \in Nat
  /\ 0 < TagLen /\ TagLen < NonceLen /\ NonceLen <= MaxLen
ASSUME RentAssumption == MinBalance \in [Lens -> Nat] /\ \A n \in Lens : MinBalance[n] > 0
ASSUME FeeAssumption == Fee \in Nat /\ MaxResize \in Nat /\ Amounts \subseteq Nat

Owners == Programs \cup {System}

(* What account data holds: "opaque" bytes no nonce deserialises from, or  *)
(* nonce Versions.  All zeroes read as Legacy(Uninitialized).              *)
NonceStates == [kind : {"uninit", "init", "opaque"}, version : {"Legacy", "Current"},
                authority : Keys \cup {NoKey}, nonce : Nat]
Uninitialized(v) == [kind |-> "uninit", version |-> v, authority |-> NoKey, nonce |-> 0]
Zeroed == Uninitialized("Legacy")
Opaque == [kind |-> "opaque", version |-> "Legacy", authority |-> NoKey, nonce |-> 0]
Initialized(v, key, n) == [kind |-> "init", version |-> v, authority |-> key, nonce |-> n]

(* The bytes of state s can be the data of an account of length len.       *)
FitsIn(s, len) ==
  /\ s # Zeroed => len > 0
  /\ s = Uninitialized("Current") => len >= TagLen
  /\ s.kind = "init" => len >= NonceLen

Accounts == [lamports : Nat, owner : Owners, len : Lens, state : NonceStates]
NewAccount == [lamports |-> 0, owner |-> System, len |-> 0, state |-> Zeroed]

(* BorrowedAccount::get_state: the data deserialises to nonce Versions.    *)
Deserializes(acct) == acct.len >= TagLen /\ acct.state.kind # "opaque"
IsInitialized(acct) == Deserializes(acct) /\ acct.state.kind = "init"
IsUninitialized(acct) == Deserializes(acct) /\ acct.state.kind = "uninit"

(* The account's stored hash is the durable nonce of blockhash n.          *)
HoldsNonce(acct, n) ==
  /\ acct.owner = System
  /\ IsInitialized(acct)
  /\ acct.state.version = "Current"
  /\ acct.state.nonce = n

(* get_system_account_kind                                                 *)
IsSystemKind(acct) == acct.owner = System /\ acct.len = 0
IsNonceKind(acct) == acct.owner = System /\ acct.len = NonceLen /\ IsInitialized(acct)

(* RentState::from_account, and transition_allowed_from between two of     *)
(* them.                                                                   *)
RentPaying(acct) == 0 < acct.lamports /\ acct.lamports < MinBalance[acct.len]
RentTransitionAllowed(pre, post) ==
  RentPaying(post) => /\ RentPaying(pre)
                      /\ post.len = pre.len
                      /\ post.lamports <= pre.lamports

(* An account stored with no lamports is not found by the next load, which *)
(* makes a default account of it.                                          *)
Stored(acct) == IF acct.lamports = 0 THEN NewAccount ELSE acct

TotalLamports(accts) == SumFunction([k \in Keys |-> accts[k].lamports])
=============================================================================
