-------------------------------- MODULE Bank --------------------------------
(***************************************************************************)
(* One transaction after the other through a bank: check_transactions and  *)
(* load_accounts, execution of its instructions, verification of the rent  *)
(* states, and commit_transactions.  Between two transactions the bank may *)
(* register a new blockhash.                                               *)
(*                                                                         *)
(* A transaction that uses a recent blockhash is checked against the       *)
(* status cache (module StatusCache); here any such transaction may come   *)
(* in, and the transactions of interest are those that use a durable       *)
(* nonce.                                                                  *)
(***************************************************************************)
EXTENDS SystemProgram

CONSTANTS
  MaxBlockhash,     \* bound: blockhashes registered
  MaxInstructions   \* bound: instructions per transaction

VARIABLES
  accounts,   \* the accounts stored in the bank
  phase,      \* where the transaction is
  payer,      \* its fee payer
  nonceKey,   \* the nonce account of a durable nonce transaction, else NoKey
  loaded,     \* the accounts as loaded, the fee already deducted
  count,      \* instructions executed so far
  fees,       \* Bank::collector_fees
  retired,    \* history: <<k, n>> such that account k once held nonce n, and no longer does
  consumed    \* history: <<k, n>> such that a transaction using nonce n of k was committed

txVars == <<phase, payer, signers, writable, nonceKey, loaded, work, resizeDelta, count>>
history == <<retired, consumed>>
vars == <<accounts, last, fees, txVars, history>>

Phases == {"idle", "marker", "running", "succeeded", "failed"}

TypeOK ==
  /\ accounts \in [Keys -> Accounts] /\ loaded \in [Keys -> Accounts] /\ work \in [Keys -> Accounts]
  /\ last \in Nat /\ fees \in Nat /\ count \in Nat /\ resizeDelta \in Int
  /\ phase \in Phases /\ {payer, nonceKey} \subseteq Keys \cup {NoKey}
  /\ signers \subseteq Keys /\ writable \subseteq Keys
  /\ retired \subseteq Keys \X Nat /\ consumed \subseteq Keys \X Nat

(* Genesis: system accounts, accounts of other programs, legacy nonce      *)
(* accounts created by an older release, and rent-paying accounts.         *)
GenesisAccount(acct) ==
  /\ FitsIn(acct.state, acct.len)
  /\ acct.lamports = 0 => acct = NewAccount
  /\ acct.owner = System => \/ acct.state = Zeroed
                            \/ /\ acct.state.kind = "init" /\ acct.state.version = "Legacy"
                               /\ acct.state.authority \in Keys /\ acct.state.nonce = 0
                               /\ acct.lamports >= MinBalance[acct.len]

InitWith(genesis) ==
  /\ accounts = genesis /\ loaded = genesis /\ work = genesis
  /\ last = 0 /\ fees = 0 /\ count = 0 /\ resizeDelta = 0
  /\ phase = "idle" /\ payer = NoKey /\ nonceKey = NoKey
  /\ signers = {} /\ writable = {}
  /\ retired = {} /\ consumed = {}

Init == \E genesis \in [Keys -> Accounts] :
          (\A k \in Keys : GenesisAccount(genesis[k])) /\ InitWith(genesis)

-----------------------------------------------------------------------------
(* check_transaction_for_nonce and check_message_for_nonce: the message    *)
(* names the durable nonce that account k holds, which is not the one the  *)
(* next blockhash would give.                                              *)
NonceVerifies(k, sigs, wr) ==
  /\ k \in wr
  /\ \E n \in 0 .. last : n # last /\ HoldsNonce(accounts[k], n)
  /\ accounts[k].state.authority \in sigs

(* validate_fee_payer                                                      *)
FeePayerMin(acct) == IF IsNonceKind(acct) THEN MinBalance[NonceLen] ELSE 0
FeePaid(acct) == [acct EXCEPT !.lamports = @ - Fee]
FeePayerValid(acct) ==
  /\ acct.lamports # 0
  /\ IsSystemKind(acct) \/ IsNonceKind(acct)
  /\ acct.lamports >= FeePayerMin(acct) + Fee
  /\ RentTransitionAllowed(acct, FeePaid(acct))

Load(p, sigs, wr, nk) ==
  /\ phase = "idle"
  /\ p \in sigs /\ p \in wr
  /\ nk # NoKey => NonceVerifies(nk, sigs, wr)
  /\ FeePayerValid(accounts[p])
  /\ phase' = IF nk = NoKey THEN "running" ELSE "marker"
  /\ payer' = p /\ signers' = sigs /\ writable' = wr /\ nonceKey' = nk
  /\ loaded' = [accounts EXCEPT ![p] = FeePaid(@)]
  /\ work' = loaded'
  /\ resizeDelta' = 0 /\ count' = 0
  /\ UNCHANGED <<accounts, last, fees, history>>

-----------------------------------------------------------------------------
SystemInstruction ==
  \/ \E from, to \in Keys, n \in Amounts, space \in Lens, owner \in Owners :
       \/ CreateAccount(from, to, n, space, owner)
       \/ CreateAccountWithSeed(from, to, n, space, owner)
  \/ \E k \in Keys, owner \in Owners : Assign(k, owner) \/ AssignWithSeed(k, owner)
  \/ \E from, to \in Keys, n \in Amounts :
       \/ Transfer(from, to, n)
       \/ \E owner \in Owners : TransferWithSeed(from, to, n, owner)
       \/ WithdrawNonceAccount(from, to, n)
  \/ \E k \in Keys, space \in Lens :
       \/ Allocate(k, space)
       \/ \E owner \in Owners : AllocateWithSeed(k, space, owner)
  \/ \E k \in Keys : AdvanceNonceAccount(k) \/ UpgradeNonceAccount(k)
  \/ \E k, authority \in Keys :
       InitializeNonceAccount(k, authority) \/ AuthorizeNonceAccount(k, authority)

OtherProgramInstruction ==
  \E p \in Programs, k \in Keys :
    \/ \E len \in Lens, state \in {Zeroed, Opaque, Initialized("Current", k, 0)} :
         ProgramWrite(p, k, len, state)
    \/ \E owner \in Owners : ProgramSetOwner(p, k, owner)
    \/ \E to \in Keys, n \in Amounts : ProgramMove(p, k, to, n)

(* The first instruction of a durable nonce transaction advances its nonce *)
(* (SanitizedMessage::get_durable_nonce).                                  *)
Execute ==
  /\ \/ phase = "marker" /\ AdvanceNonceAccount(nonceKey)
     \/ phase = "running" /\ (SystemInstruction \/ OtherProgramInstruction)
  /\ count < MaxInstructions
  /\ count' = count + 1
  /\ phase' = "running"
  /\ UNCHANGED <<accounts, fees, payer, nonceKey, loaded, history, envVars>>

InstructionError ==
  /\ phase \in {"marker", "running"}
  /\ \/ UNCHANGED <<work, resizeDelta>>
     \/ /\ phase = "running"
        /\ \/ \E from, to \in Keys, n \in Amounts, space \in Lens, owner \in Owners :
                \E addr \in {Plain(to)} \cup Seeded(to, owner) :
                  CreateAccountFails(from, addr, n, space, owner)
           \/ \E from, to \in Keys : WithdrawAllFails(from, to)
  /\ phase' = "failed"
  /\ UNCHANGED <<accounts, fees, payer, nonceKey, loaded, count, history, envVars>>

(* The end of execute_loaded_transaction.                                  *)
RentUnverified == TotalLamports(loaded) = TotalLamports(work)   \* mutant: no rent states
ChangesVerified ==
  /\ \A k \in writable : RentTransitionAllowed(loaded[k], work[k])
  /\ TotalLamports(loaded) = TotalLamports(work)
VerifyChanges ==
  /\ phase = "running"
  /\ phase' = IF ChangesVerified THEN "succeeded" ELSE "failed"
  /\ UNCHANGED <<accounts, fees, payer, nonceKey, loaded, work, resizeDelta, count, history, envVars>>

-----------------------------------------------------------------------------
(* commit_transactions.  A transaction that failed stores nothing it did:  *)
(* its fee payer pays, and if it used a durable nonce the nonce account is *)
(* stored as loaded, its nonce advanced (collect_accounts_to_store,        *)
(* prepare_if_nonce_account).                                              *)
NonceAdvanced(acct) ==
  [acct EXCEPT !.state = Initialized("Current", acct.state.authority, last)]

(* Bank::withdraw charges the payer of a failed transaction without nonce. *)
CanWithdraw(acct) == acct.lamports # 0 /\ FeePayerMin(acct) + Fee <= acct.lamports
Withdrawn(acct) == IF CanWithdraw(acct) THEN FeePaid(acct) ELSE acct

CommittedUnpaid(k) ==     \* mutant: the payer of a failed nonce transaction is not stored
  CASE phase = "succeeded" /\ k \in writable            -> work[k]
    [] phase = "failed" /\ k = nonceKey                  -> NonceAdvanced(loaded[k])
    [] phase = "failed" /\ k = payer /\ nonceKey = NoKey -> Withdrawn(accounts[k])
    [] OTHER                                             -> accounts[k]

(* An account as the transaction leaves it in the bank.                    *)
Committed(k) ==
  CASE phase = "succeeded" /\ k \in writable                    -> work[k]
    [] phase = "failed" /\ k = nonceKey                          -> NonceAdvanced(loaded[k])
    [] phase = "failed" /\ k = payer /\ nonceKey \notin {NoKey, k} -> loaded[k]
    [] phase = "failed" /\ k = payer /\ nonceKey = NoKey         -> Withdrawn(accounts[k])
    [] OTHER                                                     -> accounts[k]

(* filter_program_errors_and_collect_fee                                   *)
FeeCollected == phase = "succeeded" \/ nonceKey # NoKey \/ CanWithdraw(accounts[payer])

Commit ==
  /\ phase \in {"succeeded", "failed"}
  /\ accounts' = [k \in Keys |-> Stored(Committed(k))]
  /\ fees' = IF FeeCollected THEN fees + Fee ELSE fees
  /\ retired' = retired \cup {e \in Keys \X (0 .. last) :
                                HoldsNonce(accounts[e[1]], e[2]) /\ ~HoldsNonce(accounts'[e[1]], e[2])}
  /\ consumed' = consumed \cup {e \in Keys \X (0 .. last) :
                                  e[1] = nonceKey /\ HoldsNonce(accounts[e[1]], e[2])}
  /\ phase' = "idle" /\ payer' = NoKey /\ nonceKey' = NoKey
  /\ signers' = {} /\ writable' = {}
  /\ loaded' = accounts' /\ work' = accounts'
  /\ resizeDelta' = 0 /\ count' = 0
  /\ UNCHANGED last

(* register_recent_blockhash                                               *)
RegisterBlockhash ==
  /\ phase = "idle"
  /\ last < MaxBlockhash
  /\ last' = last + 1
  /\ UNCHANGED <<accounts, fees, txVars, history>>

Next ==
  \/ \E p \in Keys, sigs, wr \in SUBSET Keys, nk \in Keys \cup {NoKey} : Load(p, sigs, wr, nk)
  \/ Execute
  \/ InstructionError
  \/ VerifyChanges
  \/ Commit
  \/ RegisterBlockhash

Spec == Init /\ [][Next]_vars

-----------------------------------------------------------------------------
(* No step creates or destroys lamports: what leaves the accounts is what  *)
(* collector_fees gains, whichever way commit_transactions charges the     *)
(* payer (stored by the transaction, rolled back with the nonce, or        *)
(* withdrawn).                                                             *)
SupplyConserved == [][TotalLamports(accounts') + fees' = TotalLamports(accounts) + fees]_vars

(* A durable nonce transaction is executed at most once: committed, failed *)
(* or not, it has used up its nonce (prepare_if_nonce_account), and a      *)
(* nonce that an account no longer holds never comes back to it, although  *)
(* the account may be closed, reused, authorised away, assigned to a       *)
(* program and initialised again (NonceBlockhashNotExpired guards of       *)
(* advance_nonce_account and withdraw_nonce_account).                      *)
NonceNeverReused ==
  /\ consumed \subseteq retired
  /\ \A e \in retired : ~HoldsNonce(accounts[e[1]], e[2])

(* An initialised nonce account holds the rent-exempt minimum for its      *)
(* length, whoever withdraws from it or lets it pay fees                   *)
(* (withdraw_nonce_account, validate_fee_payer, Bank::withdraw).           *)
NonceRentExempt ==
  \A k \in Keys : accounts[k].owner = System /\ IsInitialized(accounts[k])
                   => accounts[k].lamports >= MinBalance[accounts[k].len]

(* The data of an account owned by the System program is zeroed or a nonce *)
(* it wrote itself: what another program wrote never reaches it            *)
(* (the is_zeroed check of BorrowedAccount::set_owner).                    *)
SystemDataIsNonce ==
  \A k \in Keys : accounts[k].owner = System =>
    /\ accounts[k].state.kind # "opaque"
    /\ accounts[k].state.kind = "init" => accounts[k].len >= NonceLen /\ accounts[k].state.nonce <= last

(* Execution changes no account the message did not mark writable, which   *)
(* is what the account locks rely on.                                      *)
ReadonlyUntouched == \A k \in Keys \ writable : work[k] = accounts[k]

(* No account becomes rent-paying, and one that is gets neither lamports   *)
(* nor a new length, over the whole path load, execute, commit (RentState).*)
RentPayingOnlyDrains ==
  [][\A k \in Keys : RentTransitionAllowed(accounts[k], accounts'[k])]_vars

(* Lamports leave a System account without data only if it, or the base    *)
(* its address derives from, signed; they leave a nonce account, and its   *)
(* authority or nonce changes, only if its authority signed.  Upgrading a  *)
(* legacy nonce needs no signature and changes only the version.           *)
BaseSigned(k) == \E b \in signers, owner \in Owners : <<b, owner, k>> \in Derivations
Upgraded(s) == [s EXCEPT !.version = "Current"]
SpendAuthorized ==
  [][\A k \in Keys :
       accounts[k].owner = System =>
         /\ accounts[k].len = 0 /\ accounts'[k].lamports < accounts[k].lamports
              => k \in signers \/ BaseSigned(k)
         /\ IsInitialized(accounts[k]) /\ (\/ accounts'[k].lamports < accounts[k].lamports
                                          \/ accounts'[k].state \notin
                                               {accounts[k].state, Upgraded(accounts[k].state)})
              => accounts[k].state.authority \in signers \/ k = payer]_vars
=============================================================================
