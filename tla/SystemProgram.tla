---------------------------- MODULE SystemProgram ----------------------------
(***************************************************************************)
(* The instructions of the System program (programs/system/src), executed  *)
(* on the accounts of one transaction context.  An action below is an      *)
(* instruction that returns Ok; its conjuncts are the conditions under     *)
(* which the code does not return early.  The two instructions that can    *)
(* return an error after they have already changed an account have an      *)
(* action for that too; every other error leaves `work' alone.             *)
(***************************************************************************)
EXTENDS SystemAccounts

VARIABLES
  work,         \* the accounts of the transaction context
  resizeDelta,  \* TransactionContext::accounts_resize_delta
  signers,      \* the addresses that signed the transaction
  writable,     \* the accounts the message marks writable
  last          \* number of the last registered blockhash (InvokeContext::blockhash)

envVars == <<signers, writable, last>>

(* BorrowedAccount::set_lamports and can_data_be_changed, for accounts     *)
(* borrowed by the program p.                                              *)
CanSetLamports(p, a, k, lamports) ==
  /\ a[k].owner = p \/ lamports >= a[k].lamports
  /\ k \in writable
CanChangeData(p, a, k) == k \in writable /\ a[k].owner = p
CanResize(p, a, k, len) ==
  /\ len # a[k].len => a[k].owner = p
  /\ len <= MaxLen
  /\ resizeDelta + (len - a[k].len) <= MaxResize
CanSetOwner(p, a, k) == a[k].owner = p /\ k \in writable /\ a[k].state = Zeroed

(* set_state writes the serialised state when it fits: the two tags for    *)
(* Uninitialized, NonceLen bytes for Initialized.                          *)
CanSetState(a, k, size) == CanChangeData(System, a, k) /\ size <= a[k].len

Debit(a, k, n) == [a EXCEPT ![k].lamports = @ - n]
Credit(a, k, n) == [a EXCEPT ![k].lamports = @ + n]
SetState(a, k, s) == [a EXCEPT ![k].state = s]

(* checked_sub_lamports on one account, then checked_add_lamports on       *)
(* another, which may be the same one.                                     *)
CanMove(p, a, from, to, n) ==
  /\ n <= a[from].lamports
  /\ CanSetLamports(p, a, from, a[from].lamports - n)
  /\ CanSetLamports(p, Debit(a, from, n), to, Debit(a, from, n)[to].lamports + n)
Move(a, from, to, n) == Credit(Debit(a, from, n), to, n)

-----------------------------------------------------------------------------
(* struct Address: an address, and the base it was derived from if the     *)
(* instruction names a seed.                                               *)
Plain(k) == [address |-> k, base |-> NoKey]
Seeded(k, owner) == {[address |-> k, base |-> b] : b \in {x \in Keys : <<x, owner, k>> \in Derivations}}
IsSigner(addr) ==
  IF addr.base # NoKey THEN addr.base \in signers ELSE addr.address \in signers

CanAllocate(a, addr, space) ==
  LET k == addr.address
  IN  /\ IsSigner(addr)
      /\ a[k].len = 0 /\ a[k].owner = System
      /\ space <= MaxLen
      /\ CanResize(System, a, k, space) /\ CanChangeData(System, a, k)
Allocated(a, addr, space) == [a EXCEPT ![addr.address].len = space]

CanAssign(a, addr, owner) ==
  \/ a[addr.address].owner = owner
  \/ IsSigner(addr) /\ CanSetOwner(System, a, addr.address)
Assigned(a, addr, owner) == [a EXCEPT ![addr.address].owner = owner]

CanTransferVerified(a, from, to, n) == a[from].len = 0 /\ CanMove(System, a, from, to, n)
CanTransfer(a, from, to, n) == from \in signers /\ CanTransferVerified(a, from, to, n)

AllocatedAndAssigned(addr, space, owner) == Assigned(Allocated(work, addr, space), addr, owner)
CanAllocateAndAssign(addr, space, owner) ==
  /\ CanAllocate(work, addr, space)
  /\ CanAssign(Allocated(work, addr, space), addr, owner)

CreateAccountAt(from, addr, n, space, owner) ==
  /\ work[addr.address].lamports = 0
  /\ CanAllocateAndAssign(addr, space, owner)
  /\ CanTransfer(AllocatedAndAssigned(addr, space, owner), from, addr.address, n)
  /\ work' = Move(AllocatedAndAssigned(addr, space, owner), from, addr.address, n)
  /\ resizeDelta' = resizeDelta + space

(* create_account fails in its transfer, after allocate_and_assign has     *)
(* changed the new account.                                                *)
CreateAccountFails(from, addr, n, space, owner) ==
  /\ work[addr.address].lamports = 0
  /\ CanAllocateAndAssign(addr, space, owner)
  /\ ~CanTransfer(AllocatedAndAssigned(addr, space, owner), from, addr.address, n)
  /\ work' = AllocatedAndAssigned(addr, space, owner)
  /\ resizeDelta' = resizeDelta + space

CreateAccount(from, to, n, space, owner) == CreateAccountAt(from, Plain(to), n, space, owner)
CreateAccountWithSeed(from, to, n, space, owner) ==
  \E addr \in Seeded(to, owner) : CreateAccountAt(from, addr, n, space, owner)

AssignAt(addr, owner) ==
  /\ CanAssign(work, addr, owner)
  /\ work' = Assigned(work, addr, owner)
  /\ UNCHANGED resizeDelta
Assign(k, owner) == AssignAt(Plain(k), owner)
AssignWithSeed(k, owner) == \E addr \in Seeded(k, owner) : AssignAt(addr, owner)

Transfer(from, to, n) ==
  /\ CanTransfer(work, from, to, n)
  /\ work' = Move(work, from, to, n)
  /\ UNCHANGED resizeDelta
TransferWithSeed(from, to, n, owner) ==
  /\ \E addr \in Seeded(from, owner) : IsSigner(addr)
  /\ CanTransferVerified(work, from, to, n)
  /\ work' = Move(work, from, to, n)
  /\ UNCHANGED resizeDelta

Allocate(k, space) ==
  /\ CanAllocate(work, Plain(k), space)
  /\ work' = Allocated(work, Plain(k), space)
  /\ resizeDelta' = resizeDelta + space
AllocateWithSeed(k, space, owner) ==
  \E addr \in Seeded(k, owner) :
    /\ CanAllocateAndAssign(addr, space, owner)
    /\ work' = AllocatedAndAssigned(addr, space, owner)
    /\ resizeDelta' = resizeDelta + space

-----------------------------------------------------------------------------
(* Nonce instructions.  The stored hash equals the durable nonce of the    *)
(* last blockhash.                                                         *)
NonceIsCurrent(acct) == acct.state.version = "Current" /\ acct.state.nonce = last

AdvanceNonceAccount(k) ==
  /\ k \in writable
  /\ IsInitialized(work[k])
  /\ work[k].state.authority \in signers
  /\ ~NonceIsCurrent(work[k])
  /\ CanSetState(work, k, NonceLen)
  /\ work' = SetState(work, k, Initialized("Current", work[k].state.authority, last))
  /\ UNCHANGED resizeDelta

InitializeNonceAccount(k, authority) ==
  /\ k \in writable
  /\ IsUninitialized(work[k])
  /\ work[k].lamports >= MinBalance[work[k].len]
  /\ CanSetState(work, k, NonceLen)
  /\ work' = SetState(work, k, Initialized("Current", authority, last))
  /\ UNCHANGED resizeDelta

AuthorizeNonceAccount(k, authority) ==
  /\ k \in writable
  /\ IsInitialized(work[k])
  /\ work[k].state.authority \in signers
  /\ CanSetState(work, k, NonceLen)
  /\ work' = SetState(work, k, Initialized(work[k].state.version, authority, work[k].state.nonce))
  /\ UNCHANGED resizeDelta

UpgradeNonceAccount(k) ==
  /\ work[k].owner = System
  /\ k \in writable
  /\ IsInitialized(work[k])
  /\ work[k].state.version = "Legacy"
  /\ CanSetState(work, k, NonceLen)
  /\ work' = SetState(work, k, Initialized("Current", work[k].state.authority, work[k].state.nonce))
  /\ UNCHANGED resizeDelta

WithdrawUninitialized(from, to, n) ==
  /\ from \in writable
  /\ IsUninitialized(work[from])
  /\ from \in signers
  /\ CanMove(System, work, from, to, n)
  /\ work' = Move(work, from, to, n)
  /\ UNCHANGED resizeDelta

WithdrawUnauthorized(from, to, n) ==               \* mutant: authority not checked
  /\ from \in writable
  /\ IsInitialized(work[from])
  /\ n + MinBalance[work[from].len] <= work[from].lamports
  /\ CanMove(System, work, from, to, n)
  /\ work' = Move(work, from, to, n)
  /\ UNCHANGED resizeDelta
WithdrawInitialized(from, to, n) ==
  /\ from \in writable
  /\ IsInitialized(work[from])
  /\ n # work[from].lamports
  /\ n + MinBalance[work[from].len] <= work[from].lamports
  /\ work[from].state.authority \in signers
  /\ CanMove(System, work, from, to, n)
  /\ work' = Move(work, from, to, n)
  /\ UNCHANGED resizeDelta

(* Withdrawing the whole balance uninitialises the account first.          *)
CanCloseNonceEarly(from) ==                        \* mutant: nonce may be the current one
  from \in writable /\ IsInitialized(work[from]) /\ CanSetState(work, from, TagLen)
CanCloseNonce(from) ==
  /\ from \in writable
  /\ IsInitialized(work[from])
  /\ ~NonceIsCurrent(work[from])
  /\ CanSetState(work, from, TagLen)
NonceClosed(from) == SetState(work, from, Uninitialized("Current"))

WithdrawAll(from, to) ==
  /\ CanCloseNonce(from)
  /\ work[from].state.authority \in signers
  /\ CanMove(System, NonceClosed(from), from, to, work[from].lamports)
  /\ work' = Move(NonceClosed(from), from, to, work[from].lamports)
  /\ UNCHANGED resizeDelta

(* The signature is only looked at after the state has been written.       *)
WithdrawAllFails(from, to) ==
  /\ CanCloseNonce(from)
  /\ \/ work[from].state.authority \notin signers
     \/ ~CanMove(System, NonceClosed(from), from, to, work[from].lamports)
  /\ work' = NonceClosed(from)
  /\ UNCHANGED resizeDelta

WithdrawNonceAccount(from, to, n) ==
  \/ WithdrawUninitialized(from, to, n)
  \/ WithdrawInitialized(from, to, n)
  \/ n = work[from].lamports /\ WithdrawAll(from, to)

-----------------------------------------------------------------------------
(* What another program p may do to the accounts of the transaction: the   *)
(* same BorrowedAccount rules, with p as the current program, and balanced *)
(* instructions only (TransactionContext::pop).                            *)
ProgramWrite(p, k, len, state) ==
  /\ CanResize(p, work, k, len) /\ CanChangeData(p, work, k)
  /\ FitsIn(state, len)
  /\ work' = [work EXCEPT ![k].len = len, ![k].state = state]
  /\ resizeDelta' = resizeDelta + (len - work[k].len)
ProgramSetOwner(p, k, owner) ==
  /\ CanSetOwner(p, work, k)
  /\ work' = [work EXCEPT ![k].owner = owner]
  /\ UNCHANGED resizeDelta
ProgramMove(p, from, to, n) ==
  /\ CanMove(p, work, from, to, n)
  /\ work' = Move(work, from, to, n)
  /\ UNCHANGED resizeDelta
=============================================================================
