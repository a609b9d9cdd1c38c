------------------------- MODULE AccountStepProofs --------------------------
(***************************************************************************)
(* The inductive invariant of Bank, and what the instructions that create, *)
(* allocate, assign and fund accounts do to the accounts of a transaction. *)
(***************************************************************************)
EXTENDS Bank, TLAPS

(* An initialised nonce account of the System program.                     *)
IsNonce(acct) == acct.owner = System /\ acct.state.kind = "init"

AccountOK(acct) ==
  /\ acct \in Accounts
  /\ FitsIn(acct.state, acct.len)
  /\ acct.owner = System => acct.state.kind # "opaque"
  /\ IsNonce(acct) => acct.lamports >= MinBalance[acct.len] /\ acct.state.nonce <= last

(* What instructions, and therefore transactions, may make of account k.   *)
(* The nonce of the last blockhash stays; any other nonce is advanced to   *)
(* the last blockhash, kept, upgraded or closed; readonly accounts are     *)
(* left alone.                                                             *)
AccountStep(k, a, b) ==
  /\ AccountOK(b)
  /\ HoldsNonce(a, last) => HoldsNonce(b, last)
  /\ IsNonce(b) => \/ b.state.version = "Current" /\ b.state.nonce = last
                   \/ /\ IsNonce(a) /\ b.state.nonce = a.state.nonce
                      /\ b.state.version = "Legacy" => a.state.version = "Legacy"
  /\ k \notin writable => b = a

(* A nonce that was given up is older than the last blockhash, is not the  *)
(* nonce of its account, and its account is not a legacy one, which could  *)
(* be upgraded.                                                            *)
RetiredOK ==
  /\ \A k \in Keys, n \in Nat : <<k, n>> \in retired => n < last
  /\ \A k \in Keys, n \in Nat :
       IsNonce(accounts[k]) /\ <<k, n>> \in retired =>
         accounts[k].state.version = "Current" /\ accounts[k].state.nonce # n

(* What the phases of a transaction have established.                      *)
PhaseOK ==
  /\ phase = "idle" => work = accounts
  /\ phase # "idle" => /\ payer \in Keys /\ payer \in writable
                       /\ FeePayerValid(accounts[payer])
                       /\ loaded = [accounts EXCEPT ![payer] = FeePaid(@)]
  /\ nonceKey # NoKey => /\ phase # "idle" /\ nonceKey \in writable
                         /\ \E n \in 0 .. last : n # last /\ HoldsNonce(accounts[nonceKey], n)
                         /\ phase \in {"running", "succeeded"} => HoldsNonce(work[nonceKey], last)
  /\ phase = "succeeded" => \A k \in writable : RentTransitionAllowed(loaded[k], work[k])

(* The inductive invariant.                                                *)
BankInv ==
  /\ TypeOK
  /\ \A k \in Keys : AccountOK(accounts[k]) /\ AccountStep(k, accounts[k], work[k])
  /\ RetiredOK
  /\ consumed \subseteq retired
  /\ PhaseOK

-----------------------------------------------------------------------------
(* Facts about accounts.                                                   *)
LEMMA StateTypes ==
  /\ Zeroed \in NonceStates /\ Zeroed.kind = "uninit" /\ Zeroed # Uninitialized("Current")
  /\ \A v \in {"Legacy", "Current"} :
       Uninitialized(v) \in NonceStates /\ Uninitialized(v).kind = "uninit"
  /\ \A v \in {"Legacy", "Current"}, key \in Keys \cup {NoKey}, n \in Nat :
       /\ Initialized(v, key, n) \in NonceStates
       /\ Initialized(v, key, n).kind = "init" /\ Initialized(v, key, n).version = v
       /\ Initialized(v, key, n).authority = key /\ Initialized(v, key, n).nonce = n
<1>1. /\ Zeroed.version = "Legacy" /\ Zeroed.kind = "uninit" /\ Zeroed \in NonceStates
      /\ Uninitialized("Current").version = "Current"
  BY DEF Zeroed, Uninitialized, NonceStates
<1>2. \A v \in {"Legacy", "Current"} :
        Uninitialized(v) \in NonceStates /\ Uninitialized(v).kind = "uninit"
  BY DEF Uninitialized, NonceStates
<1>3. \A v \in {"Legacy", "Current"}, key \in Keys \cup {NoKey}, n \in Nat :
        /\ Initialized(v, key, n) \in NonceStates
        /\ Initialized(v, key, n).kind = "init" /\ Initialized(v, key, n).version = v
        /\ Initialized(v, key, n).authority = key /\ Initialized(v, key, n).nonce = n
  BY DEF Initialized, NonceStates
<1> QED BY <1>1, <1>2, <1>3

LEMMA AccountFacts ==
  ASSUME NEW a, AccountOK(a)
  PROVE  /\ a.lamports \in Nat /\ a.owner \in Owners /\ a.len \in Lens /\ a.state \in NonceStates
         /\ a.len \in Nat /\ MinBalance[a.len] \in Nat /\ MinBalance[a.len] > 0
         /\ a.state.kind \in {"uninit", "init", "opaque"} /\ a.state.version \in {"Legacy", "Current"}
         /\ a.state.authority \in Keys \cup {NoKey} /\ a.state.nonce \in Nat
         /\ IsNonce(a) => a.len >= NonceLen /\ a.lamports > 0
         /\ IsNonce(a) <=> a.owner = System /\ IsInitialized(a)
         /\ \A n : HoldsNonce(a, n) <=> IsNonce(a) /\ a.state.version = "Current" /\ a.state.nonce = n
<1>1. a.lamports \in Nat /\ a.owner \in Owners /\ a.len \in Lens /\ a.state \in NonceStates
  BY DEF AccountOK, Accounts
<1>2. /\ a.state.kind \in {"uninit", "init", "opaque"} /\ a.state.version \in {"Legacy", "Current"}
      /\ a.state.authority \in Keys \cup {NoKey} /\ a.state.nonce \in Nat
  BY <1>1 DEF NonceStates
<1>3. a.len \in Nat /\ MinBalance[a.len] \in Nat /\ MinBalance[a.len] > 0
  BY <1>1, LensAssumption, RentAssumption
<1>4. IsNonce(a) => a.len >= NonceLen /\ a.lamports > 0
  BY <1>1, <1>3 DEF AccountOK, FitsIn, IsNonce
<1>5. a.len >= NonceLen => a.len >= TagLen
  BY <1>3, LensAssumption
<1>6. IsNonce(a) <=> a.owner = System /\ IsInitialized(a)
  BY <1>4, <1>5 DEF IsNonce, IsInitialized, Deserializes
<1> QED BY <1>1, <1>2, <1>3, <1>4, <1>6 DEF HoldsNonce

LEMMA EmptyIsNotNonce ==
  ASSUME NEW a, AccountOK(a), a.len = 0
  PROVE  ~IsNonce(a)
<1>1. IsNonce(a) => a.len >= NonceLen
  BY AccountFacts
<1> QED BY <1>1, LensAssumption

LEMMA NewAccountOK ==
  ASSUME last \in Nat
  PROVE  AccountOK(NewAccount) /\ ~IsNonce(NewAccount)
<1>1. /\ NewAccount \in Accounts /\ NewAccount.state = Zeroed /\ NewAccount.len = 0
      /\ NewAccount.owner = System
  BY StateTypes, LensAssumption DEF NewAccount, Accounts, Owners
<1> QED BY <1>1, StateTypes DEF AccountOK, FitsIn, IsNonce

(* Account steps compose.                                                  *)
LEMMA StepReflexive ==
  ASSUME NEW k, NEW a, AccountOK(a)
  PROVE  AccountStep(k, a, a)
BY DEF AccountStep

LEMMA StepTransitive ==
  ASSUME NEW k, NEW a, NEW b, NEW c, AccountStep(k, a, b), AccountStep(k, b, c)
  PROVE  AccountStep(k, a, c)
<1>1. IsNonce(c) => \/ c.state.version = "Current" /\ c.state.nonce = last
                    \/ /\ IsNonce(a) /\ c.state.nonce = a.state.nonce
                       /\ c.state.version = "Legacy" => a.state.version = "Legacy"
  <2>1. c.state.version \in {"Legacy", "Current"}
    BY AccountFacts DEF AccountStep
  <2> QED BY <2>1 DEF AccountStep
<1> QED BY <1>1 DEF AccountStep

-----------------------------------------------------------------------------
(* The ways in which an instruction changes one account.                   *)
LEMMA LamportsStep ==
  ASSUME NEW k \in writable, NEW a, AccountOK(a), NEW m \in Nat,
         IsNonce(a) => m >= MinBalance[a.len]
  PROVE  AccountStep(k, a, [a EXCEPT !.lamports = m])
<1> DEFINE b == [a EXCEPT !.lamports = m]
<1>1. b \in Accounts /\ b.owner = a.owner /\ b.len = a.len /\ b.state = a.state /\ b.lamports = m
  BY DEF AccountOK, Accounts
<1> HIDE DEF b
<1>2. AccountOK(b)
  BY <1>1 DEF AccountOK, IsNonce
<1>3. AccountStep(k, a, b)
  BY <1>1, <1>2 DEF AccountStep, IsNonce, HoldsNonce, IsInitialized, Deserializes
<1> QED BY <1>3 DEF b

LEMMA AllocateStep ==
  ASSUME NEW k \in writable, NEW a, AccountOK(a), a.len = 0, NEW space \in Lens
  PROVE  AccountStep(k, a, [a EXCEPT !.len = space])
<1> DEFINE b == [a EXCEPT !.len = space]
<1>1. b \in Accounts /\ b.owner = a.owner /\ b.len = space /\ b.state = a.state
  BY DEF AccountOK, Accounts
<1>2. a.state = Zeroed
  BY DEF AccountOK, FitsIn
<1> HIDE DEF b
<1>3. ~IsNonce(b) /\ ~HoldsNonce(a, last)
  BY <1>1, <1>2, StateTypes DEF IsNonce, HoldsNonce, IsInitialized
<1>4. AccountOK(b)
  BY <1>1, <1>2, <1>3, StateTypes DEF AccountOK, FitsIn
<1>5. AccountStep(k, a, b)
  BY <1>3, <1>4 DEF AccountStep
<1> QED BY <1>5 DEF b

LEMMA OwnerStep ==
  ASSUME NEW k \in writable, NEW a, AccountOK(a), a.state = Zeroed, NEW owner \in Owners
  PROVE  AccountStep(k, a, [a EXCEPT !.owner = owner])
<1> DEFINE b == [a EXCEPT !.owner = owner]
<1>1. b \in Accounts /\ b.len = a.len /\ b.state = Zeroed
  BY DEF AccountOK, Accounts
<1> HIDE DEF b
<1>2. ~IsNonce(b) /\ ~HoldsNonce(a, last)
  BY <1>1, StateTypes DEF IsNonce, HoldsNonce, IsInitialized
<1>3. AccountOK(b)
  BY <1>1, <1>2, StateTypes DEF AccountOK, FitsIn
<1>4. AccountStep(k, a, b)
  BY <1>2, <1>3 DEF AccountStep
<1> QED BY <1>4 DEF b

LEMMA StateStep ==
  ASSUME last \in Nat, NEW k \in writable, NEW a, AccountOK(a), a.owner = System,
         NEW s \in NonceStates, s.kind # "opaque", FitsIn(s, a.len),
         HoldsNonce(a, last) => s.kind = "init" /\ s.version = "Current" /\ s.nonce = last,
         s.kind = "init" =>
           /\ a.lamports >= MinBalance[a.len] /\ s.nonce <= last
           /\ \/ s.version = "Current" /\ s.nonce = last
              \/ /\ IsNonce(a) /\ s.nonce = a.state.nonce
                 /\ s.version = "Legacy" => a.state.version = "Legacy"
  PROVE  AccountStep(k, a, [a EXCEPT !.state = s])
<1> DEFINE b == [a EXCEPT !.state = s]
<1>1. b \in Accounts /\ b.owner = System /\ b.len = a.len /\ b.state = s /\ b.lamports = a.lamports
  BY DEF AccountOK, Accounts
<1> HIDE DEF b
<1>2. AccountOK(b)
  BY <1>1 DEF AccountOK, IsNonce
<1>3. HoldsNonce(a, last) => HoldsNonce(b, last)
  BY <1>1, <1>2, AccountFacts DEF IsNonce
<1>4. AccountStep(k, a, b)
  BY <1>1, <1>2, <1>3 DEF AccountStep, IsNonce
<1> QED BY <1>4 DEF b

(* A program other than System writes an account it owns.                  *)
LEMMA WriteStep ==
  ASSUME NEW k \in writable, NEW a, AccountOK(a), a.owner # System,
         NEW len \in Lens, NEW s \in NonceStates, FitsIn(s, len)
  PROVE  AccountStep(k, a, [a EXCEPT !.len = len, !.state = s])
<1> DEFINE b == [a EXCEPT !.len = len, !.state = s]
<1>1. b \in Accounts /\ b.owner = a.owner /\ b.len = len /\ b.state = s
  BY DEF AccountOK, Accounts
<1> HIDE DEF b
<1>2. ~IsNonce(b) /\ ~HoldsNonce(a, last)
  BY <1>1 DEF IsNonce, HoldsNonce
<1>3. AccountOK(b)
  BY <1>1, <1>2 DEF AccountOK
<1>4. AccountStep(k, a, b)
  BY <1>2, <1>3 DEF AccountStep
<1> QED BY <1>4 DEF b

-----------------------------------------------------------------------------
(* The same for the accounts of a transaction.                             *)
AllOK(A) == A \in [Keys -> Accounts] /\ \A k \in Keys : AccountOK(A[k])
AllStep(A, B) == AllOK(B) /\ \A k \in Keys : AccountStep(k, A[k], B[k])

LEMMA AllTransitive ==
  ASSUME NEW A, NEW B, NEW C, AllStep(A, B), AllStep(B, C)
  PROVE  AllStep(A, C)
BY StepTransitive DEF AllStep

LEMMA UpdateStep ==
  ASSUME NEW A, AllOK(A), NEW k \in Keys, NEW b, AccountStep(k, A[k], b)
  PROVE  AllStep(A, [A EXCEPT ![k] = b])
<1> DEFINE B == [A EXCEPT ![k] = b]
<1>1. b \in Accounts /\ AccountOK(b)
  BY DEF AccountStep, AccountOK
<1>2. B \in [Keys -> Accounts] /\ \A j \in Keys : B[j] = IF j = k THEN b ELSE A[j]
  BY <1>1 DEF AllOK
<1> HIDE DEF B
<1>3. AllOK(B)
  BY <1>1, <1>2 DEF AllOK
<1>4. AllStep(A, B)
  BY <1>2, <1>3, StepReflexive DEF AllStep, AllOK
<1> QED BY <1>4 DEF B

(* Lamports leave `from' for `to': a nonce account keeps its minimum.      *)
LEMMA MoveStep ==
  ASSUME NEW A, AllOK(A), NEW p, NEW from \in Keys, NEW to \in Keys, NEW n \in Nat,
         CanMove(p, A, from, to, n),
         IsNonce(A[from]) => n + MinBalance[A[from].len] <= A[from].lamports
  PROVE  AllStep(A, Move(A, from, to, n))
<1> DEFINE D == [A EXCEPT ![from] = [A[from] EXCEPT !.lamports = A[from].lamports - n]]
           E == [D EXCEPT ![to] = [D[to] EXCEPT !.lamports = D[to].lamports + n]]
<1>1. Debit(A, from, n) = D
  BY DEF Debit
<1>2. Move(A, from, to, n) = E
  BY <1>1 DEF Move, Credit
<1>3. from \in writable /\ to \in writable /\ n <= A[from].lamports
  BY DEF CanMove, CanSetLamports
<1>4. AllStep(A, D)
  <2>1. AccountOK(A[from])
    BY DEF AllOK
  <2>2. A[from].lamports \in Nat /\ MinBalance[A[from].len] \in Nat
    BY <2>1, AccountFacts
  <2>3. A[from].lamports - n \in Nat
    BY <2>2, <1>3
  <2>4. IsNonce(A[from]) => A[from].lamports - n >= MinBalance[A[from].len]
    BY <2>2
  <2> QED BY <2>1, <2>3, <2>4, <1>3, LamportsStep, UpdateStep
<1> HIDE DEF D
<1>5. AllStep(D, E)
  <2>1. AllOK(D) /\ AccountOK(D[to])
    BY <1>4 DEF AllStep, AllOK
  <2>2. D[to].lamports \in Nat /\ MinBalance[D[to].len] \in Nat
    BY <2>1, AccountFacts
  <2>3. D[to].lamports + n \in Nat
    BY <2>2
  <2>4. IsNonce(D[to]) => D[to].lamports + n >= MinBalance[D[to].len]
    BY <2>1, <2>2 DEF AccountOK
  <2> QED BY <2>1, <2>3, <2>4, <1>3, LamportsStep, UpdateStep
<1> QED BY <1>2, <1>4, <1>5, AllTransitive

-----------------------------------------------------------------------------
(* Instructions of the System program.                                     *)
Ready == AllOK(work) /\ last \in Nat /\ resizeDelta \in Int
InstructionOK == AllStep(work, work') /\ resizeDelta' \in Int

LEMMA AllocatedStep ==
  ASSUME NEW A, AllOK(A), NEW addr, addr.address \in Keys, NEW space \in Lens,
         CanAllocate(A, addr, space)
  PROVE  AllStep(A, Allocated(A, addr, space))
<1>1. PICK k \in Keys : k = addr.address
  OBVIOUS
<1>2. k \in writable /\ A[k].len = 0 /\ AccountOK(A[k])
  BY <1>1 DEF CanAllocate, CanChangeData, AllOK
<1>3. AccountStep(k, A[k], [A[k] EXCEPT !.len = space])
  BY <1>2, AllocateStep
<1>4. AllStep(A, [A EXCEPT ![k] = [A[k] EXCEPT !.len = space]])
  BY <1>3, UpdateStep
<1> QED BY <1>1, <1>4 DEF Allocated

LEMMA AssignedStep ==
  ASSUME NEW A, AllOK(A), NEW addr, addr.address \in Keys, NEW owner \in Owners,
         CanAssign(A, addr, owner)
  PROVE  AllStep(A, Assigned(A, addr, owner))
<1>1. PICK k \in Keys : k = addr.address
  OBVIOUS
<1>2. AccountOK(A[k])
  BY DEF AllOK
<1>3. AccountStep(k, A[k], [A[k] EXCEPT !.owner = owner])
  <2>1. CASE A[k].owner = owner
    <3>1. [A[k] EXCEPT !.owner = owner] = A[k]
      BY <1>2, <2>1 DEF AccountOK, Accounts
    <3> QED BY <1>2, <3>1, StepReflexive
  <2>2. CASE A[k].owner # owner
    <3>1. k \in writable /\ A[k].state = Zeroed
      BY <1>1, <2>2 DEF CanAssign, CanSetOwner
    <3> QED BY <1>2, <3>1, OwnerStep
  <2> QED BY <2>1, <2>2
<1>4. AllStep(A, [A EXCEPT ![k] = [A[k] EXCEPT !.owner = owner]])
  BY <1>3, UpdateStep
<1> QED BY <1>1, <1>4 DEF Assigned

LEMMA AllocatedAndAssignedStep ==
  ASSUME AllOK(work), NEW addr, addr.address \in Keys, NEW space \in Lens, NEW owner \in Owners,
         CanAllocateAndAssign(addr, space, owner)
  PROVE  AllStep(work, AllocatedAndAssigned(addr, space, owner))
<1>1. AllStep(work, Allocated(work, addr, space))
  BY AllocatedStep DEF CanAllocateAndAssign
<1>2. AllOK(Allocated(work, addr, space))
  BY <1>1 DEF AllStep
<1>3. AllStep(Allocated(work, addr, space), AllocatedAndAssigned(addr, space, owner))
  BY <1>2, AssignedStep DEF CanAllocateAndAssign, AllocatedAndAssigned
<1> QED BY <1>1, <1>3, AllTransitive

LEMMA AddressFacts ==
  ASSUME NEW k \in Keys, NEW owner
  PROVE  Plain(k).address = k /\ \A addr \in Seeded(k, owner) : addr.address = k
<1>1. ASSUME NEW addr \in Seeded(k, owner) PROVE addr.address = k
  <2>1. PICK b \in Keys : addr = [address |-> k, base |-> b]
    BY DEF Seeded
  <2> QED BY <2>1
<1> QED BY <1>1 DEF Plain

LEMMA SpaceIsNat == Lens \subseteq Nat /\ Amounts \subseteq Nat
BY LensAssumption, FeeAssumption

LEMMA CreateStep ==
  ASSUME Ready, NEW from \in Keys, NEW addr, addr.address \in Keys, NEW n \in Amounts,
         NEW space \in Lens, NEW owner \in Owners,
         \/ CreateAccountAt(from, addr, n, space, owner)
         \/ CreateAccountFails(from, addr, n, space, owner)
  PROVE  InstructionOK
<1> DEFINE A == AllocatedAndAssigned(addr, space, owner)
<1>1. AllStep(work, A)
  BY AllocatedAndAssignedStep DEF CreateAccountAt, CreateAccountFails, Ready
<1>2. resizeDelta' = resizeDelta + space /\ resizeDelta \in Int /\ space \in Nat
  BY SpaceIsNat DEF CreateAccountAt, CreateAccountFails, Ready
<1>3. CASE work' = A
  BY <1>1, <1>2, <1>3 DEF InstructionOK
<1>4. CASE CreateAccountAt(from, addr, n, space, owner)
  <2> HIDE DEF A
  <2>1. AllOK(A) /\ AccountOK(A[from])
    BY <1>1 DEF AllStep, AllOK
  <2>2. CanMove(System, A, from, addr.address, n) /\ A[from].len = 0
    BY <1>4 DEF CreateAccountAt, CanTransfer, CanTransferVerified, A
  <2>3. ~IsNonce(A[from])
    BY <2>1, <2>2, EmptyIsNotNonce
  <2>4. AllStep(A, Move(A, from, addr.address, n))
    BY <2>1, <2>2, <2>3, MoveStep, SpaceIsNat
  <2>5. work' = Move(A, from, addr.address, n)
    BY <1>4 DEF CreateAccountAt, A
  <2> QED BY <1>1, <1>2, <2>4, <2>5, AllTransitive DEF InstructionOK
<1> QED BY <1>3, <1>4 DEF CreateAccountFails

LEMMA AssignStep ==
  ASSUME Ready, NEW addr, addr.address \in Keys, NEW owner \in Owners, AssignAt(addr, owner)
  PROVE  InstructionOK
BY AssignedStep DEF AssignAt, Ready, InstructionOK

(* Both transfers, which ask for an account without data.                  *)
LEMMA TransferStep ==
  ASSUME Ready, NEW from \in Keys, NEW to \in Keys, NEW n \in Amounts,
         CanTransferVerified(work, from, to, n),
         work' = Move(work, from, to, n), UNCHANGED resizeDelta
  PROVE  InstructionOK
<1>1. AccountOK(work[from]) /\ work[from].len = 0
  BY DEF Ready, AllOK, CanTransferVerified
<1>2. ~IsNonce(work[from])
  BY <1>1, EmptyIsNotNonce
<1>3. AllStep(work, work')
  BY <1>2, MoveStep, SpaceIsNat DEF Ready, CanTransferVerified
<1> QED BY <1>3 DEF Ready, InstructionOK

LEMMA AllocateInstructionStep ==
  ASSUME Ready, NEW addr, addr.address \in Keys, NEW space \in Lens,
         CanAllocate(work, addr, space), work' = Allocated(work, addr, space),
         resizeDelta' = resizeDelta + space
  PROVE  InstructionOK
<1>1. AllStep(work, work')
  BY AllocatedStep DEF Ready
<1>2. resizeDelta' \in Int
  BY SpaceIsNat DEF Ready
<1> QED BY <1>1, <1>2 DEF InstructionOK

LEMMA AllocateWithSeedStep ==
  ASSUME Ready, NEW k \in Keys, NEW space \in Lens, NEW owner \in Owners,
         AllocateWithSeed(k, space, owner)
  PROVE  InstructionOK
<1>1. PICK addr \in Seeded(k, owner) :
        /\ CanAllocateAndAssign(addr, space, owner)
        /\ work' = AllocatedAndAssigned(addr, space, owner)
        /\ resizeDelta' = resizeDelta + space
  BY DEF AllocateWithSeed
<1>2. addr.address \in Keys
  BY AddressFacts
<1> QED BY <1>1, <1>2, AllocatedAndAssignedStep, SpaceIsNat DEF Ready, InstructionOK
=============================================================================
