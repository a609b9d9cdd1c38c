------------------------- MODULE InstructionProofs --------------------------
(***************************************************************************)
(* The invariant of Bank is preserved by the nonce instructions, by other  *)
(* programs, and by the steps of a transaction before it is committed.     *)
(***************************************************************************)
EXTENDS AccountStepProofs

(* Nonce instructions.                                                     *)
LEMMA SetStateStep ==
  ASSUME Ready, NEW k \in Keys, NEW s, AccountStep(k, work[k], [work[k] EXCEPT !.state = s]),
         work' = SetState(work, k, s), UNCHANGED resizeDelta
  PROVE  InstructionOK
<1>1. AllStep(work, [work EXCEPT ![k] = [work[k] EXCEPT !.state = s]])
  BY UpdateStep DEF Ready
<1>2. AllStep(work, work')
  BY <1>1 DEF SetState
<1> QED BY <1>2 DEF Ready, InstructionOK

(* The last nonce is stored in an account that has the minimum balance and *)
(* does not hold it yet.                                                   *)
LEMMA StoreLastStep ==
  ASSUME Ready, NEW k \in Keys, NEW authority \in Keys \cup {NoKey},
         CanSetState(work, k, NonceLen), work[k].lamports >= MinBalance[work[k].len],
         work' = SetState(work, k, Initialized("Current", authority, last)), UNCHANGED resizeDelta
  PROVE  InstructionOK
<1> DEFINE s == Initialized("Current", authority, last)
<1>1. k \in writable /\ work[k].owner = System /\ NonceLen <= work[k].len /\ AccountOK(work[k])
  BY DEF CanSetState, CanChangeData, Ready, AllOK
<1>2. s \in NonceStates /\ s.kind = "init" /\ s.version = "Current" /\ s.nonce = last
  BY StateTypes DEF Ready
<1> HIDE DEF s
<1>3. FitsIn(s, work[k].len)
  BY <1>1, <1>2, AccountFacts, LensAssumption, StateTypes DEF FitsIn
<1>4. AccountStep(k, work[k], [work[k] EXCEPT !.state = s])
  BY <1>1, <1>2, <1>3, StateStep DEF Ready
<1>5. work' = SetState(work, k, s)
  BY DEF s
<1> QED BY <1>4, <1>5, SetStateStep

LEMMA AdvanceStep ==
  ASSUME Ready, NEW k \in Keys, AdvanceNonceAccount(k)
  PROVE  InstructionOK /\ HoldsNonce(work'[k], last)
<1>1. AccountOK(work[k]) /\ work[k].owner = System /\ IsInitialized(work[k])
  BY DEF Ready, AllOK, AdvanceNonceAccount, CanSetState, CanChangeData
<1>2. IsNonce(work[k]) /\ work[k].state.authority \in Keys \cup {NoKey}
  BY <1>1, AccountFacts
<1>3. work[k].lamports >= MinBalance[work[k].len]
  BY <1>1, <1>2 DEF AccountOK
<1>4. InstructionOK
  BY <1>2, <1>3, StoreLastStep DEF AdvanceNonceAccount
<1>5. work'[k] = [work[k] EXCEPT !.state = Initialized("Current", work[k].state.authority, last)]
  BY DEF AdvanceNonceAccount, SetState, Ready, AllOK
<1>6. work'[k].owner = System /\ work'[k].len = work[k].len
      /\ work'[k].state = Initialized("Current", work[k].state.authority, last)
  BY <1>1, <1>5 DEF AccountOK, Accounts
<1>7. work'[k].len >= TagLen
  BY <1>1, <1>6 DEF IsInitialized, Deserializes
<1>8. HoldsNonce(work'[k], last)
  BY <1>2, <1>6, <1>7, StateTypes DEF HoldsNonce, IsInitialized, Deserializes, Ready
<1> QED BY <1>4, <1>8

LEMMA InitializeStep ==
  ASSUME Ready, NEW k \in Keys, NEW authority \in Keys, InitializeNonceAccount(k, authority)
  PROVE  InstructionOK
BY StoreLastStep DEF InitializeNonceAccount

(* authorize and upgrade keep the number of the nonce, and never make a    *)
(* current nonce a legacy one.                                             *)
LEMMA RewriteStep ==
  ASSUME Ready, NEW k \in Keys, NEW authority \in Keys \cup {NoKey}, NEW v \in {"Legacy", "Current"},
         IsInitialized(work[k]), CanSetState(work, k, NonceLen), v \in {work[k].state.version, "Current"},
         work' = SetState(work, k, Initialized(v, authority, work[k].state.nonce)), UNCHANGED resizeDelta
  PROVE  InstructionOK
<1> DEFINE s == Initialized(v, authority, work[k].state.nonce)
<1>1. k \in writable /\ work[k].owner = System /\ NonceLen <= work[k].len /\ AccountOK(work[k])
  BY DEF CanSetState, CanChangeData, Ready, AllOK
<1>2. IsNonce(work[k]) /\ work[k].state.nonce \in Nat
  BY <1>1, AccountFacts
<1>3. s \in NonceStates /\ s.kind = "init" /\ s.version = v /\ s.nonce = work[k].state.nonce
  BY <1>2, StateTypes
<1> HIDE DEF s
<1>4. FitsIn(s, work[k].len)
  BY <1>1, <1>3, AccountFacts, LensAssumption, StateTypes DEF FitsIn
<1>5. work[k].lamports >= MinBalance[work[k].len] /\ s.nonce <= last
  BY <1>1, <1>2, <1>3 DEF AccountOK
<1>6. HoldsNonce(work[k], last) => s.version = "Current" /\ s.nonce = last
  BY <1>3 DEF HoldsNonce
<1>7. AccountStep(k, work[k], [work[k] EXCEPT !.state = s])
  BY <1>1, <1>2, <1>3, <1>4, <1>5, <1>6, StateStep DEF Ready
<1>8. work' = SetState(work, k, s)
  BY DEF s
<1> QED BY <1>7, <1>8, SetStateStep

LEMMA AuthorizeStep ==
  ASSUME Ready, NEW k \in Keys, NEW authority \in Keys, AuthorizeNonceAccount(k, authority)
  PROVE  InstructionOK
<1>1. work[k].state.version \in {"Legacy", "Current"}
  BY AccountFacts DEF Ready, AllOK
<1> QED BY <1>1, RewriteStep DEF AuthorizeNonceAccount

LEMMA UpgradeStep ==
  ASSUME Ready, NEW k \in Keys, UpgradeNonceAccount(k)
  PROVE  InstructionOK
<1>1. work[k].state.authority \in Keys \cup {NoKey}
  BY AccountFacts DEF Ready, AllOK
<1> QED BY <1>1, RewriteStep DEF UpgradeNonceAccount

(* A partial withdrawal leaves the minimum balance.                        *)
LEMMA WithdrawPartStep ==
  ASSUME Ready, NEW from \in Keys, NEW to \in Keys, NEW n \in Amounts,
         WithdrawUninitialized(from, to, n) \/ WithdrawInitialized(from, to, n)
  PROVE  InstructionOK
<1>1. AccountOK(work[from])
  BY DEF Ready, AllOK
<1>2. IsNonce(work[from]) => n + MinBalance[work[from].len] <= work[from].lamports
  BY <1>1, AccountFacts DEF WithdrawUninitialized, WithdrawInitialized, IsUninitialized, IsInitialized
<1>3. CanMove(System, work, from, to, n) /\ work' = Move(work, from, to, n) /\ UNCHANGED resizeDelta
  BY DEF WithdrawUninitialized, WithdrawInitialized
<1>4. AllStep(work, work')
  BY <1>2, <1>3, MoveStep, SpaceIsNat DEF Ready
<1> QED BY <1>3, <1>4 DEF Ready, InstructionOK

(* Closing, which the nonce of the last blockhash forbids.                 *)
LEMMA CloseStep ==
  ASSUME Ready, NEW from \in Keys, CanCloseNonce(from)
  PROVE  AllStep(work, NonceClosed(from)) /\ ~IsNonce(NonceClosed(from)[from])
         /\ NonceClosed(from)[from].lamports = work[from].lamports
<1> DEFINE s == Uninitialized("Current")
<1>1. /\ from \in writable /\ work[from].owner = System /\ TagLen <= work[from].len
      /\ AccountOK(work[from])
  BY DEF CanCloseNonce, CanSetState, CanChangeData, Ready, AllOK
<1>2. s \in NonceStates /\ s.kind = "uninit"
  BY StateTypes
<1>3. FitsIn(s, work[from].len)
  BY <1>1, <1>2, AccountFacts, LensAssumption DEF FitsIn
<1>4. ~HoldsNonce(work[from], last)
  BY DEF CanCloseNonce, NonceIsCurrent, HoldsNonce
<1> HIDE DEF s
<1>5. AccountStep(from, work[from], [work[from] EXCEPT !.state = s])
  BY <1>1, <1>2, <1>3, <1>4, StateStep DEF Ready
<1>6. NonceClosed(from) = [work EXCEPT ![from] = [work[from] EXCEPT !.state = s]]
  BY DEF NonceClosed, SetState, s
<1>7. AllStep(work, NonceClosed(from))
  <2>1. AllStep(work, [work EXCEPT ![from] = [work[from] EXCEPT !.state = s]])
    BY <1>5, UpdateStep DEF Ready
  <2> QED BY <1>6, <2>1
<1>8. NonceClosed(from)[from] = [work[from] EXCEPT !.state = s]
  BY <1>6 DEF Ready, AllOK
<1>9. /\ NonceClosed(from)[from].state = s
      /\ NonceClosed(from)[from].lamports = work[from].lamports
  BY <1>1, <1>8 DEF AccountOK, Accounts
<1> QED BY <1>2, <1>7, <1>9 DEF IsNonce

LEMMA WithdrawAllStep ==
  ASSUME Ready, NEW from \in Keys, NEW to \in Keys,
         WithdrawAll(from, to) \/ WithdrawAllFails(from, to)
  PROVE  InstructionOK
<1> DEFINE A == NonceClosed(from)
<1>1. /\ AllStep(work, A) /\ AllOK(A) /\ ~IsNonce(A[from]) /\ resizeDelta' = resizeDelta
      /\ resizeDelta \in Int /\ work[from].lamports \in Nat
  <2>1. AllStep(work, A) /\ ~IsNonce(A[from])
    BY CloseStep DEF WithdrawAll, WithdrawAllFails
  <2>2. work[from].lamports \in Nat
    BY AccountFacts DEF Ready, AllOK
  <2> QED BY <2>1, <2>2 DEF WithdrawAll, WithdrawAllFails, AllStep, Ready
<1>2. CASE WithdrawAllFails(from, to)
  BY <1>1, <1>2 DEF WithdrawAllFails, InstructionOK
<1>3. CASE WithdrawAll(from, to)
  <2>1. CanMove(System, A, from, to, work[from].lamports)
        /\ work' = Move(A, from, to, work[from].lamports)
    BY <1>3 DEF WithdrawAll
  <2> HIDE DEF A
  <2>2. AllStep(A, work')
    BY <1>1, <2>1, MoveStep
  <2> QED BY <1>1, <2>2, AllTransitive DEF InstructionOK
<1> QED BY <1>2, <1>3

-----------------------------------------------------------------------------
(* Instructions of other programs.                                         *)
LEMMA ProgramStep ==
  ASSUME Ready, NEW p \in Programs, NEW k \in Keys,
         \/ \E len \in Lens, state \in {Zeroed, Opaque, Initialized("Current", k, 0)} :
              ProgramWrite(p, k, len, state)
         \/ \E owner \in Owners : ProgramSetOwner(p, k, owner)
         \/ \E to \in Keys, n \in Amounts : ProgramMove(p, k, to, n)
  PROVE  InstructionOK
<1>1. p # System /\ AccountOK(work[k])
  BY KeysAssumption DEF Ready, AllOK
<1>2. ASSUME NEW len \in Lens, NEW state \in {Zeroed, Opaque, Initialized("Current", k, 0)},
             ProgramWrite(p, k, len, state)
      PROVE  InstructionOK
  <2>1. state \in NonceStates
    <3>1. Opaque \in NonceStates
      BY DEF Opaque, NonceStates
    <3> QED BY <3>1, StateTypes
  <2>2. k \in writable /\ work[k].owner = p /\ FitsIn(state, len)
    BY <1>2 DEF ProgramWrite, CanChangeData
  <2>3. AccountStep(k, work[k], [work[k] EXCEPT !.len = len, !.state = state])
    BY Zenon, <1>1, <2>1, <2>2, WriteStep
  <2>4. work' = [work EXCEPT ![k] = [work[k] EXCEPT !.len = len, !.state = state]]
    BY Zenon, <1>2 DEF ProgramWrite, Ready, AllOK
  <2>5. AllStep(work, work')
    BY <2>3, <2>4, UpdateStep DEF Ready
  <2>6. resizeDelta' \in Int
    <3>1. work[k].len \in Nat /\ len \in Nat
      BY <1>1, AccountFacts, SpaceIsNat
    <3>2. resizeDelta' = resizeDelta + (len - work[k].len) /\ resizeDelta \in Int
      BY <1>2 DEF ProgramWrite, Ready
    <3> QED BY <3>1, <3>2
  <2> QED BY <2>5, <2>6 DEF InstructionOK
<1>3. ASSUME NEW owner \in Owners, ProgramSetOwner(p, k, owner) PROVE InstructionOK
  <2>1. k \in writable /\ work[k].state = Zeroed
    BY <1>3 DEF ProgramSetOwner, CanSetOwner
  <2>2. AccountStep(k, work[k], [work[k] EXCEPT !.owner = owner])
    BY <1>1, <2>1, OwnerStep
  <2>3. work' = [work EXCEPT ![k] = [work[k] EXCEPT !.owner = owner]]
    BY <1>3 DEF ProgramSetOwner
  <2>4. AllStep(work, work')
    BY <2>2, <2>3, UpdateStep DEF Ready
  <2> QED BY <1>3, <2>4 DEF InstructionOK, ProgramSetOwner, Ready
<1>4. ASSUME NEW to \in Keys, NEW n \in Amounts, ProgramMove(p, k, to, n) PROVE InstructionOK
  <2>1. CanMove(p, work, k, to, n) /\ work' = Move(work, k, to, n) /\ n \in Nat
    BY <1>4, SpaceIsNat DEF ProgramMove
  <2>2. work[k].owner = p \/ work[k].lamports - n >= work[k].lamports
    BY <2>1 DEF CanMove, CanSetLamports
  <2>3. /\ work[k].lamports \in Nat /\ MinBalance[work[k].len] \in Nat
        /\ IsNonce(work[k]) => work[k].lamports >= MinBalance[work[k].len]
    BY <1>1, AccountFacts DEF AccountOK
  <2>4. IsNonce(work[k]) => n + MinBalance[work[k].len] <= work[k].lamports
    <3> SUFFICES ASSUME IsNonce(work[k])
                 PROVE  n + MinBalance[work[k].len] <= work[k].lamports
      OBVIOUS
    <3>1. work[k].lamports - n >= work[k].lamports
      BY <1>1, <2>2 DEF IsNonce
    <3>2. n = 0
      BY <2>1, <2>3, <3>1
    <3>3. work[k].lamports >= MinBalance[work[k].len] /\ MinBalance[work[k].len] \in Nat
      BY <2>3
    <3> QED BY <3>2, <3>3
  <2>5. AllStep(work, work')
    BY <2>1, <2>4, MoveStep DEF Ready
  <2> QED BY <1>4, <2>5 DEF InstructionOK, ProgramMove, Ready
<1> QED BY <1>2, <1>3, <1>4

LEMMA SystemInstructionStep ==
  ASSUME Ready, SystemInstruction
  PROVE  InstructionOK
<1>1. ASSUME NEW from \in Keys, NEW to \in Keys, NEW n \in Amounts, NEW space \in Lens,
             NEW owner \in Owners,
             \/ CreateAccount(from, to, n, space, owner)
             \/ CreateAccountWithSeed(from, to, n, space, owner)
      PROVE  InstructionOK
  <2>1. PICK addr : addr.address = to /\ CreateAccountAt(from, addr, n, space, owner)
    BY <1>1, AddressFacts DEF CreateAccount, CreateAccountWithSeed
  <2> QED BY <2>1, CreateStep
<1>2. ASSUME NEW k \in Keys, NEW owner \in Owners, Assign(k, owner) \/ AssignWithSeed(k, owner)
      PROVE  InstructionOK
  <2>1. PICK addr : addr.address = k /\ AssignAt(addr, owner)
    BY <1>2, AddressFacts DEF Assign, AssignWithSeed
  <2> QED BY <2>1, AssignStep
<1>3. ASSUME NEW from \in Keys, NEW to \in Keys, NEW n \in Amounts,
             \/ Transfer(from, to, n)
             \/ \E owner \in Owners : TransferWithSeed(from, to, n, owner)
      PROVE  InstructionOK
  <2>1. /\ CanTransferVerified(work, from, to, n) /\ work' = Move(work, from, to, n)
        /\ UNCHANGED resizeDelta
    BY <1>3 DEF Transfer, TransferWithSeed, CanTransfer
  <2> QED BY <2>1, TransferStep
<1>4. ASSUME NEW from \in Keys, NEW to \in Keys, NEW n \in Amounts, WithdrawNonceAccount(from, to, n)
      PROVE  InstructionOK
  BY <1>4, WithdrawPartStep, WithdrawAllStep DEF WithdrawNonceAccount
<1>5. ASSUME NEW k \in Keys, NEW space \in Lens, Allocate(k, space) PROVE InstructionOK
  <2>1. Plain(k).address \in Keys
    BY AddressFacts
  <2> QED BY <1>5, <2>1, AllocateInstructionStep DEF Allocate
<1>6. ASSUME NEW k \in Keys, NEW space \in Lens, NEW owner \in Owners, AllocateWithSeed(k, space, owner)
      PROVE  InstructionOK
  BY <1>6, AllocateWithSeedStep
<1>7. ASSUME NEW k \in Keys, AdvanceNonceAccount(k) \/ UpgradeNonceAccount(k) PROVE InstructionOK
  BY <1>7, AdvanceStep, UpgradeStep
<1>8. ASSUME NEW k \in Keys, NEW authority \in Keys,
             InitializeNonceAccount(k, authority) \/ AuthorizeNonceAccount(k, authority)
      PROVE  InstructionOK
  BY <1>8, InitializeStep, AuthorizeStep
<1> QED BY <1>1, <1>2, <1>3, <1>4, <1>5, <1>6, <1>7, <1>8 DEF SystemInstruction

LEMMA OtherProgramStep ==
  ASSUME Ready, OtherProgramInstruction
  PROVE  InstructionOK
BY ProgramStep DEF OtherProgramInstruction

-----------------------------------------------------------------------------
(* The steps of the bank.                                                  *)
LEMMA BankReady ==
  ASSUME BankInv
  PROVE  Ready /\ AllOK(accounts) /\ AllStep(accounts, work)
BY DEF BankInv, TypeOK, Ready, AllOK, AllStep, AccountStep

(* The accounts part of the invariant after a step that ran instructions.  *)
LEMMA WorkStep ==
  ASSUME BankInv, AllStep(work, work'), UNCHANGED <<accounts, last, writable>>
  PROVE  (\A k \in Keys : AccountOK(accounts[k]) /\ AccountStep(k, accounts[k], work[k]))'
<1>1. AllStep(accounts, work')
  BY BankReady, AllTransitive
<1>2. \A k \in Keys : AccountOK(accounts[k]) /\ AccountStep(k, accounts[k], work'[k])
  BY <1>1 DEF AllStep, BankInv
<1> QED BY <1>2 DEF AccountStep, AccountOK

LEMMA ExecuteStep ==
  ASSUME BankInv, Execute
  PROVE  BankInv'
<1>1. /\ InstructionOK
      /\ nonceKey # NoKey => HoldsNonce(work'[nonceKey], last)
  <2>1. CASE phase = "marker" /\ AdvanceNonceAccount(nonceKey)
    <3>1. nonceKey \in Keys
      <4>1. nonceKey \in writable /\ writable \subseteq Keys
        BY <2>1 DEF AdvanceNonceAccount, BankInv, TypeOK
      <4> QED BY <4>1
    <3> QED BY <2>1, <3>1, BankReady, AdvanceStep
  <2>2. CASE phase = "running" /\ (SystemInstruction \/ OtherProgramInstruction)
    <3>1. InstructionOK
      BY <2>2, BankReady, SystemInstructionStep, OtherProgramStep
    <3>2. ASSUME nonceKey # NoKey PROVE HoldsNonce(work'[nonceKey], last)
      <4>1. nonceKey \in Keys /\ HoldsNonce(work[nonceKey], last)
        BY <2>2, <3>2 DEF BankInv, TypeOK, PhaseOK
      <4> QED BY <3>1, <4>1 DEF InstructionOK, AllStep, AccountStep
    <3> QED BY <3>1, <3>2
  <2> QED BY <2>1, <2>2 DEF Execute
<1>2. /\ UNCHANGED <<accounts, fees, payer, nonceKey, loaded, retired, consumed, signers, writable, last>>
      /\ phase # "idle" /\ phase' = "running" /\ count' = count + 1
  BY DEF Execute, history, envVars
<1>3. TypeOK'
  BY <1>1, <1>2 DEF BankInv, TypeOK, InstructionOK, AllStep, AllOK, Phases
<1>4. (\A k \in Keys : AccountOK(accounts[k]) /\ AccountStep(k, accounts[k], work[k]))'
  BY <1>1, <1>2, WorkStep DEF InstructionOK
<1>5. RetiredOK' /\ (consumed \subseteq retired)'
  BY <1>2 DEF BankInv, RetiredOK
<1>6. PhaseOK'
  BY <1>1, <1>2 DEF BankInv, PhaseOK
<1> QED BY <1>3, <1>4, <1>5, <1>6 DEF BankInv

LEMMA InstructionErrorStep ==
  ASSUME BankInv, InstructionError
  PROVE  BankInv'
<1>1. InstructionOK
  <2>1. CASE UNCHANGED <<work, resizeDelta>>
    <3>1. AllStep(work, work)
      BY BankReady, StepReflexive DEF Ready, AllStep, AllOK
    <3> QED BY <2>1, <3>1, BankReady DEF InstructionOK, Ready
  <2>2. ASSUME NEW from \in Keys, NEW to \in Keys, NEW n \in Amounts, NEW space \in Lens,
               NEW owner \in Owners, NEW addr \in {Plain(to)} \cup Seeded(to, owner),
               CreateAccountFails(from, addr, n, space, owner)
        PROVE  InstructionOK
    BY <2>2, BankReady, AddressFacts, CreateStep
  <2>3. ASSUME NEW from \in Keys, NEW to \in Keys, WithdrawAllFails(from, to) PROVE InstructionOK
    BY <2>3, BankReady, WithdrawAllStep
  <2> QED BY <2>1, <2>2, <2>3 DEF InstructionError
<1>2. /\ UNCHANGED <<accounts, fees, payer, nonceKey, loaded, count, retired, consumed, signers, writable, last>>
      /\ phase # "idle" /\ phase' = "failed"
  BY DEF InstructionError, history, envVars
<1>3. TypeOK'
  BY <1>1, <1>2 DEF BankInv, TypeOK, InstructionOK, AllStep, AllOK, Phases
<1>4. (\A k \in Keys : AccountOK(accounts[k]) /\ AccountStep(k, accounts[k], work[k]))'
  BY <1>1, <1>2, WorkStep DEF InstructionOK
<1>5. RetiredOK' /\ (consumed \subseteq retired)'
  BY <1>2 DEF BankInv, RetiredOK
<1>6. PhaseOK'
  BY <1>2 DEF BankInv, PhaseOK
<1> QED BY <1>3, <1>4, <1>5, <1>6 DEF BankInv

LEMMA VerifyChangesStep ==
  ASSUME BankInv, VerifyChanges
  PROVE  BankInv'
<1>1. /\ UNCHANGED <<accounts, fees, payer, nonceKey, loaded, work, resizeDelta, count, retired,
                     consumed, signers, writable, last>>
      /\ phase = "running" /\ phase' \in {"succeeded", "failed"}
      /\ phase' = "succeeded" => \A k \in writable : RentTransitionAllowed(loaded[k], work[k])
  BY DEF VerifyChanges, ChangesVerified, history, envVars
<1>2. TypeOK'
  BY <1>1 DEF BankInv, TypeOK, Phases
<1>3. (\A k \in Keys : AccountOK(accounts[k]) /\ AccountStep(k, accounts[k], work[k]))'
  BY Zenon, <1>1 DEF BankInv, AccountStep, AccountOK
<1>4. RetiredOK' /\ (consumed \subseteq retired)'
  BY <1>1 DEF BankInv, RetiredOK
<1>5. PhaseOK'
  BY <1>1 DEF BankInv, PhaseOK
<1> QED BY <1>2, <1>3, <1>4, <1>5 DEF BankInv

(* A fee payer that validate_fee_payer accepts is still well formed when   *)
(* it has paid.  Bank::withdraw accepts it as well.                        *)
LEMMA FeePaidOK ==
  ASSUME NEW a, AccountOK(a), FeePayerValid(a)
  PROVE  /\ AccountOK(FeePaid(a)) /\ FeePaid(a).owner = a.owner /\ FeePaid(a).len = a.len
         /\ FeePaid(a).state = a.state /\ CanWithdraw(a)
<1>1. a.lamports \in Nat /\ Fee \in Nat /\ MinBalance[NonceLen] \in Nat
  BY AccountFacts, FeeAssumption, LensAssumption, RentAssumption
<1>2. /\ FeePaid(a).owner = a.owner /\ FeePaid(a).len = a.len /\ FeePaid(a).state = a.state
      /\ FeePaid(a).lamports = a.lamports - Fee
  BY DEF FeePaid, AccountOK, Accounts
<1>3. FeePayerMin(a) \in Nat /\ FeePayerMin(a) + Fee <= a.lamports
  BY <1>1 DEF FeePayerValid, FeePayerMin
<1>4. FeePaid(a) \in Accounts
  BY <1>1, <1>3 DEF FeePaid, AccountOK, Accounts
<1>5. IsNonce(a) => a.lamports - Fee >= MinBalance[a.len]
  <2> SUFFICES ASSUME IsNonce(a) PROVE a.lamports - Fee >= MinBalance[a.len]
    OBVIOUS
  <2>1. ~IsSystemKind(a)
    BY EmptyIsNotNonce DEF IsSystemKind
  <2>2. IsNonceKind(a)
    BY <2>1 DEF FeePayerValid
  <2>3. a.len = NonceLen /\ FeePayerMin(a) = MinBalance[a.len]
    BY <2>2 DEF IsNonceKind, FeePayerMin
  <2> QED BY <1>1, <1>3, <2>3
<1>6. AccountOK(FeePaid(a))
  BY <1>2, <1>4, <1>5 DEF AccountOK, IsNonce
<1>7. CanWithdraw(a)
  BY <1>3 DEF CanWithdraw, FeePayerValid
<1> QED BY <1>2, <1>6, <1>7

LEMMA LoadStep ==
  ASSUME BankInv, NEW p \in Keys, NEW sigs \in SUBSET Keys, NEW wr \in SUBSET Keys,
         NEW nk \in Keys \cup {NoKey}, Load(p, sigs, wr, nk)
  PROVE  BankInv'
<1>1. /\ UNCHANGED <<accounts, last, fees, retired, consumed>> /\ phase = "idle"
      /\ phase' = IF nk = NoKey THEN "running" ELSE "marker"
      /\ payer' = p /\ signers' = sigs /\ writable' = wr /\ nonceKey' = nk /\ p \in wr
      /\ loaded' = [accounts EXCEPT ![p] = FeePaid(accounts[p])] /\ work' = loaded'
      /\ resizeDelta' = 0 /\ count' = 0 /\ FeePayerValid(accounts[p])
      /\ nk # NoKey => NonceVerifies(nk, sigs, wr)
  BY DEF Load, history
<1>2. \A k \in Keys : AccountOK(accounts[k])
  BY DEF BankInv
<1>3. /\ AccountOK(FeePaid(accounts[p])) /\ FeePaid(accounts[p]).owner = accounts[p].owner
      /\ FeePaid(accounts[p]).len = accounts[p].len /\ FeePaid(accounts[p]).state = accounts[p].state
  BY <1>1, <1>2, FeePaidOK
<1>4. TypeOK'
  <2>1. loaded' \in [Keys -> Accounts] /\ work' \in [Keys -> Accounts]
    BY Zenon, <1>1, <1>3 DEF BankInv, TypeOK, AccountOK
  <2> QED BY <1>1, <2>1 DEF BankInv, TypeOK, Phases
<1>5. ASSUME NEW k \in Keys
      PROVE  (AccountOK(accounts[k]) /\ AccountStep(k, accounts[k], work[k]))'
  <2>1. work'[k] = IF k = p THEN FeePaid(accounts[p]) ELSE accounts[k]
    BY <1>1 DEF BankInv, TypeOK
  <2>2. AccountOK(work'[k]) /\ work'[k].owner = accounts[k].owner /\ work'[k].len = accounts[k].len
        /\ work'[k].state = accounts[k].state /\ (k \notin wr => work'[k] = accounts[k])
    BY <1>1, <1>2, <1>3, <2>1
  <2>3. IsNonce(work'[k]) <=> IsNonce(accounts[k])
    BY <2>2 DEF IsNonce
  <2>4. HoldsNonce(accounts[k], last) => HoldsNonce(work'[k], last)
    BY <2>2 DEF HoldsNonce, IsInitialized, Deserializes
  <2> QED BY Zenon, <1>1, <1>2, <2>2, <2>3, <2>4 DEF AccountStep, AccountOK
<1>6. RetiredOK' /\ (consumed \subseteq retired)'
  BY <1>1 DEF BankInv, RetiredOK
<1>7. PhaseOK'
  <2>1. phase' \in {"running", "marker"} /\ (nk # NoKey => phase' = "marker")
    BY <1>1
  <2>2. nk # NoKey => nk \in wr /\ \E n \in 0 .. last : n # last /\ HoldsNonce(accounts[nk], n)
    BY <1>1 DEF NonceVerifies
  <2>3. FeePayerValid(accounts[payer])'
    BY <1>1 DEF FeePayerValid, FeePayerMin, FeePaid
  <2> QED BY <1>1, <2>1, <2>2, <2>3 DEF PhaseOK, FeePaid
<1> QED BY <1>4, <1>5, <1>6, <1>7 DEF BankInv

LEMMA RegisterStep ==
  ASSUME BankInv, RegisterBlockhash
  PROVE  BankInv'
<1>1. /\ UNCHANGED <<accounts, fees, phase, payer, signers, writable, nonceKey, loaded, work,
                     resizeDelta, count, retired, consumed>>
      /\ phase = "idle" /\ last' = last + 1 /\ last \in Nat
  BY DEF RegisterBlockhash, txVars, history, BankInv, TypeOK
<1>2. TypeOK'
  BY <1>1 DEF BankInv, TypeOK
<1>3. ASSUME NEW k \in Keys
      PROVE  (AccountOK(accounts[k]) /\ AccountStep(k, accounts[k], work[k]))'
  <2>1. AccountOK(accounts[k]) /\ work'[k] = accounts'[k] /\ accounts'[k] = accounts[k]
    BY <1>1 DEF BankInv, PhaseOK
  <2>2. AccountOK(accounts[k])'
    <3>1. accounts[k].state.nonce <= last => accounts[k].state.nonce <= last'
      <4>1. accounts[k].state.nonce \in Nat
        BY <2>1, AccountFacts
      <4> QED BY <1>1, <4>1
    <3>2. IsNonce(accounts[k])' <=> IsNonce(accounts[k])
      BY <2>1 DEF IsNonce
    <3>3. accounts'[k] \in Accounts /\ FitsIn(accounts'[k].state, accounts'[k].len)
          /\ (accounts'[k].owner = System => accounts'[k].state.kind # "opaque")
      BY <2>1 DEF AccountOK
    <3>4. IsNonce(accounts'[k]) => /\ accounts'[k].lamports >= MinBalance[accounts'[k].len]
                                   /\ accounts'[k].state.nonce <= last'
      BY <2>1, <3>1, <3>2 DEF AccountOK
    <3> QED BY <3>3, <3>4 DEF AccountOK
  <2>3. work'[k] = accounts[k]' /\ AccountOK(work[k])'
    BY <2>1, <2>2 DEF AccountOK
  <2> QED BY <2>2, <2>3 DEF AccountStep
<1>4. RetiredOK' /\ (consumed \subseteq retired)'
  <2>1. accounts' = accounts /\ retired' = retired /\ consumed' = consumed
    BY <1>1
  <2>2. RetiredOK /\ consumed \subseteq retired
    BY DEF BankInv
  <2>3. ASSUME NEW k \in Keys, NEW n \in Nat, <<k, n>> \in retired
        PROVE  n < last'
    <3>1. n < last
      BY <2>2, <2>3 DEF RetiredOK
    <3> QED BY <1>1, <3>1
  <2>4. RetiredOK'
    BY <2>1, <2>2, <2>3 DEF RetiredOK, IsNonce
  <2> QED BY <2>1, <2>2, <2>4
<1>5. PhaseOK'
  BY <1>1 DEF BankInv, PhaseOK
<1> QED BY <1>2, <1>3, <1>4, <1>5 DEF BankInv
=============================================================================
