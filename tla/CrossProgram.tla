---------------------------- MODULE CrossProgram ----------------------------
(***************************************************************************)
(* Cross-program invocation inside one transaction                         *)
(* (sdk/src/transaction_context.rs, program-runtime/src/invoke_context.rs, *)
(* programs/bpf_loader/src/{lib,serialization,syscalls/cpi}.rs).           *)
(*                                                                         *)
(* An account exists twice while an on-chain program runs: in the          *)
(* transaction context (accounts), and serialised in the memory of the     *)
(* program's virtual machine (view), where the program may write anything. *)
(* The copies are synchronised when the program invokes another one, when  *)
(* the invoked one returns, and when the program ends.                     *)
(*                                                                         *)
(* Data is Zero (empty, or all zeroes) or another value of Data; lengths   *)
(* and the limits on resizing are left to SystemProgram.  Keys are         *)
(* accounts that are not executable.  The account data is copied: the      *)
(* direct_mapping feature is off.                                          *)
(***************************************************************************)
EXTENDS Integers, SequencesExt

CONSTANTS
  Keys,         \* the transaction's accounts
  System,       \* the System program, a builtin: it works on accounts directly
  Programs,     \* on-chain programs, run by a BPF loader
  Data, Zero,   \* what account data may hold; Zero is all zeroes
  Signers,      \* the keys the transaction is signed for
  Writable,     \* the keys the message marks writable
  Derived,      \* by program, the addresses it can sign for (create_program_address)
  Instructions, \* the sets of accounts an instruction of the message names
  Flags,        \* the privileges an invocation may ask for
  Loads,        \* the accounts the transaction may start from
  MaxLamports,  \* bound: the balances a program writes
  MaxWrites,    \* bound: writes of programs to their memory, in the transaction
  MaxDepth,     \* instruction_stack_capacity
  MaxTrace      \* instruction_trace_capacity

ASSUME ProgramsAssumption == System \notin Programs /\ Zero \in Data /\ MaxLamports \in Nat

VARIABLES
  accounts,     \* TransactionContext::accounts
  loaded,       \* the accounts before the transaction
  stack,        \* instruction_stack, and the virtual machine of each instruction
  trace,        \* length of instruction_trace
  writes,       \* number of memory writes so far
  status        \* "running", "done" or "failed"

vars == <<accounts, loaded, stack, trace, writes, status>>

Owners == Programs \cup {System}
Accounts == [lamports : Nat, owner : Owners, data : Data]
Privileges == [signer : BOOLEAN, writable : BOOLEAN]

ASSUME MessageAssumption ==
  /\ Loads \subseteq [Keys -> Accounts]
  /\ Instructions \subseteq SUBSET Keys /\ Flags \subseteq Privileges

Top == Last(stack)
Running == status = "running" /\ stack # <<>>
OnChain == Running /\ Top.program \in Programs

(* instruction_accounts_lamport_sum                                        *)
LamportSum(a, ks) == FoldFunctionOnSet(LAMBDA x, n : x.lamports + n, 0, a, ks)

-----------------------------------------------------------------------------
(* BorrowedAccount::set_lamports, can_data_be_changed and set_owner, for   *)
(* the program of frame f.                                                 *)
CanSetLamports(f, k, n) ==
  /\ f.priv[k].writable
  /\ n < accounts[k].lamports => accounts[k].owner = f.program
CanChangeData(f, k) == f.priv[k].writable /\ accounts[k].owner = f.program
CanSetOwner(f, k, data) == f.priv[k].writable /\ accounts[k].owner = f.program /\ data = Zero

(* The changes the program made to its copy of account k are its to make:  *)
(* update_callee_account and deserialize_parameters.  The owner is set     *)
(* last, over the data just stored.                                        *)
CanSync(f, k) ==
  LET new == f.view[k]
      old == accounts[k]
  IN /\ new.lamports # old.lamports => CanSetLamports(f, k, new.lamports)
     /\ new.data # old.data => CanChangeData(f, k)
     /\ new.owner # old.owner => CanSetOwner(f, k, new.data)
Synced(f, ks) == [k \in Keys |-> IF k \in ks THEN f.view[k] ELSE accounts[k]]

(* An instruction starts: its balance is recorded, and for an on-chain     *)
(* program its accounts are serialised.  written is the set of accounts    *)
(* whose copy the program has changed since the copies last agreed, and    *)
(* atCall the accounts at its last invocation of another program; the code *)
(* keeps neither.                                                          *)
NewFrame(p, priv, a) ==
  [program |-> p, priv |-> priv, sum |-> LamportSum(a, DOMAIN priv),
   view |-> [k \in DOMAIN priv |-> a[k]], written |-> {}, atCall |-> a]

(* InvokeContext::push: a program may be entered again only by itself.     *)
Reentrant(p) ==
  /\ \E i \in DOMAIN stack : stack[i].program = p
  /\ Top.program # p

(* TransactionContext::push: the caller must be balanced with what it has  *)
(* just handed over, and both capacities must allow one more instruction.  *)
NoBalanceNeeded(a) == TRUE                             \* mutant: caller not compared
CallerBalanced(a) == stack # <<>> => LamportSum(a, DOMAIN Top.priv) = Top.sum
HasRoom == trace < MaxTrace /\ Len(stack) < MaxDepth

(* prepare_instruction: every account of the callee is one of the caller's *)
(* and carries no privilege the caller lacks, save signatures for the      *)
(* caller's derived addresses.                                             *)
NoWritableEscalationOnly(priv) ==                      \* mutant: signer is not checked
  \A k \in DOMAIN priv : priv[k].writable => Top.priv[k].writable
NoEscalation(priv) ==
  \A k \in DOMAIN priv :
    /\ priv[k].writable => Top.priv[k].writable
    /\ priv[k].signer => Top.priv[k].signer \/ k \in Derived[Top.program]

(* update_caller_account: the caller's copies of the accounts that were    *)
(* writable in the callee are brought up to date.                          *)
RefreshedOwned(caller, f, a) ==                        \* mutant: only what the callee owns
  [k \in DOMAIN caller.view |->
    IF k \in DOMAIN f.priv /\ a[k].owner = f.program THEN a[k] ELSE caller.view[k]]
Refreshed(caller, f, a) ==
  [k \in DOMAIN caller.view |->
    IF k \in DOMAIN f.priv /\ f.priv[k].writable THEN a[k] ELSE caller.view[k]]
Resumed(caller, f, a) == [caller EXCEPT !.view = Refreshed(caller, f, a), !.atCall = a]

-----------------------------------------------------------------------------
Init ==
  /\ accounts \in Loads /\ loaded = accounts
  /\ stack = <<>> /\ trace = 0 /\ writes = 0 /\ status = "running"

Push(p, priv, lower, a) ==
  /\ CallerBalanced(a)
  /\ HasRoom
  /\ accounts' = a
  /\ trace' = trace + 1
  /\ stack' = Append(lower, NewFrame(p, priv, a))

(* TransactionContext::pop with the accounts a, and the end of cpi_common. *)
Pop(a) ==
  /\ LamportSum(a, DOMAIN Top.priv) = Top.sum
  /\ accounts' = a
  /\ stack' = LET below == Front(stack)
              IN IF below = <<>> THEN below
                 ELSE [below EXCEPT ![Len(below)] = Resumed(@, Top, a)]
  /\ UNCHANGED <<loaded, trace, writes, status>>

(* MessageProcessor::process_message: the next instruction of the message, *)
(* with the privileges the message gives its accounts.                     *)
ProcessInstruction(p, ks) ==
  /\ status = "running" /\ stack = <<>>
  /\ Push(p, [k \in ks |-> [signer |-> k \in Signers, writable |-> k \in Writable]],
          stack, accounts)
  /\ UNCHANGED <<loaded, writes, status>>

(* The running program writes to its copy of account k.                    *)
WriteView(k, acct) ==
  /\ OnChain /\ k \in DOMAIN Top.priv /\ writes < MaxWrites
  /\ acct # Top.view[k]
  /\ writes' = writes + 1
  /\ stack' = [stack EXCEPT ![Len(stack)].view[k] = acct, ![Len(stack)].written = @ \cup {k}]
  /\ UNCHANGED <<accounts, loaded, trace, status>>

(* cpi_common up to the entry of the callee: what the caller wrote to the  *)
(* accounts it passes is stored first, then the callee is pushed.          *)
Invoke(p, priv) ==
  LET caller == [Top EXCEPT !.written = @ \ DOMAIN priv, !.atCall = Synced(Top, DOMAIN priv)]
  IN /\ OnChain
     /\ DOMAIN priv \subseteq DOMAIN Top.priv
     /\ NoEscalation(priv)
     /\ \A k \in DOMAIN priv : CanSync(Top, k)
     /\ ~Reentrant(p)
     /\ Push(p, priv, Append(Front(stack), caller), Synced(Top, DOMAIN priv))
     /\ UNCHANGED <<loaded, writes, status>>

(* The program ends: execute deserialises every account of the             *)
(* instruction, and process_instruction pops it.                           *)
Exit ==
  /\ OnChain
  /\ \A k \in DOMAIN Top.priv : CanSync(Top, k)
  /\ Pop(Synced(Top, DOMAIN Top.priv))

(* system_processor transfer and assign, run as a builtin and popped.      *)
SystemOwned(k) ==
  /\ k \in DOMAIN Top.priv
  /\ Top.priv[k].writable /\ Top.priv[k].signer
  /\ accounts[k].owner = System /\ accounts[k].data = Zero
Transfer(from, to, n) ==
  /\ Running /\ Top.program = System
  /\ SystemOwned(from) /\ n <= accounts[from].lamports
  /\ to \in DOMAIN Top.priv /\ Top.priv[to].writable
  /\ Pop([[accounts EXCEPT ![from].lamports = @ - n] EXCEPT ![to].lamports = @ + n])
Assign(k, p) ==
  /\ Running /\ Top.program = System
  /\ SystemOwned(k)
  /\ Pop([accounts EXCEPT ![k].owner = p])

(* An error anywhere ends the transaction; the bank discards the accounts. *)
Fail ==
  /\ status = "running"
  /\ status' = "failed" /\ stack' = <<>>
  /\ UNCHANGED <<accounts, loaded, trace, writes>>

Commit ==
  /\ status = "running" /\ stack = <<>> /\ trace > 0
  /\ status' = "done"
  /\ UNCHANGED <<accounts, loaded, stack, trace, writes>>

Next ==
  \/ \E p \in Owners, ks \in Instructions : ProcessInstruction(p, ks)
  \/ Running /\ \E k \in DOMAIN Top.priv :
       \/ \E n \in 0..MaxLamports : WriteView(k, [Top.view[k] EXCEPT !.lamports = n])
       \/ \E d \in Data : WriteView(k, [Top.view[k] EXCEPT !.data = d])
       \/ \E o \in Owners : WriteView(k, [Top.view[k] EXCEPT !.owner = o])
  \/ Running /\ HasRoom /\ \E p \in Owners, ks \in SUBSET DOMAIN Top.priv :
       \E priv \in [ks -> Flags] : Invoke(p, priv)
  \/ Exit
  \/ \E from, to \in Keys, n \in 1..MaxLamports : Transfer(from, to, n)
  \/ \E k \in Keys, p \in Programs : Assign(k, p)
  \/ Fail
  \/ Commit

Spec == Init /\ [][Next]_vars

-----------------------------------------------------------------------------
(* No program ever runs on accounts that hold more or fewer lamports than  *)
(* the transaction loaded: neither an instruction nor the hand-over to an  *)
(* invoked program may create or destroy any (TransactionContext::push and *)
(* pop).                                                                   *)
TotalKept == LamportSum(accounts, Keys) = LamportSum(loaded, Keys)

(* However deep the invocations nest, an account the message does not mark *)
(* writable stays as it was loaded (prepare_instruction).                  *)
ReadonlyKept == \A k \in Keys \ Writable : accounts[k] = loaded[k]

(* The copy a running program sees agrees with the transaction's account   *)
(* except where the program itself wrote to it: no change made by an       *)
(* invoked program is missed by the caller, which would undo it on its own *)
(* exit (update_caller_account).                                           *)
ViewFresh ==
  OnChain => \A k \in DOMAIN Top.view \ Top.written : Top.view[k] = accounts[k]

(* While a program waits for another one, its own accounts keep their data *)
(* and owner and lose no lamports, whatever the invoked programs call in   *)
(* turn: this is what refusing re-entrance is for (InvokeContext::push).   *)
OwnAccountsStable ==
  \A i \in 1..Len(stack) - 1 :
    stack[i + 1].program # stack[i].program =>
      \A k \in Keys :
        LET then == stack[i].atCall[k]
        IN then.owner = stack[i].program =>
             /\ accounts[k].owner = then.owner /\ accounts[k].data = then.data
             /\ accounts[k].lamports >= then.lamports

(* A System-owned account loses lamports, or its owner, only when the      *)
(* transaction is signed for it or a program under way can sign for it     *)
(* (prepare_instruction and system_processor).                             *)
SpendsSigned ==
  [][\A k \in Keys :
       /\ accounts[k].owner = System
       /\ accounts'[k].lamports < accounts[k].lamports \/ accounts'[k].owner # System
       => k \in Signers \/ \E i \in DOMAIN stack :
                              stack[i].program \in Programs /\ k \in Derived[stack[i].program]]_vars

=============================================================================
