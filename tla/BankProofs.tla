----------------------------- MODULE BankProofs -----------------------------
(***************************************************************************)
(* Theorems about Bank: for any accounts, programs, rent, fee and lengths, *)
(* a durable nonce is used at most once, nonce accounts stay rent exempt,  *)
(* readonly accounts are not written and no account becomes rent-paying.   *)
(***************************************************************************)
EXTENDS InstructionProofs

(* What a transaction, committed or rolled back, makes of account a.       *)
CommitOK(a, c) ==
  /\ AccountOK(c)
  /\ HoldsNonce(a, last) => HoldsNonce(c, last)
  /\ IsNonce(c) => \/ c.state.version = "Current" /\ c.state.nonce = last
                   \/ /\ IsNonce(a) /\ c.state.nonce = a.state.nonce
                      /\ c.state.version = "Legacy" => a.state.version = "Legacy"
  /\ RentTransitionAllowed(a, c)

LEMMA RentReflexive ==
  ASSUME NEW a, AccountOK(a)
  PROVE  RentTransitionAllowed(a, a)
<1>1. a.lamports \in Nat
  BY AccountFacts
<1> QED BY <1>1 DEF RentTransitionAllowed

LEMMA RentTransitive ==
  ASSUME NEW a, NEW b, NEW c, AccountOK(a), AccountOK(b), AccountOK(c),
         RentTransitionAllowed(a, b), RentTransitionAllowed(b, c)
  PROVE  RentTransitionAllowed(a, c)
<1>1. a.lamports \in Nat /\ b.lamports \in Nat /\ c.lamports \in Nat
  BY AccountFacts
<1> QED BY <1>1 DEF RentTransitionAllowed

(* The loaded account of a transaction in flight: the fee is deducted from *)
(* the payer, nothing else differs.                                        *)
LEMMA LoadedOK ==
  ASSUME BankInv, phase # "idle", NEW k \in Keys
  PROVE  /\ CommitOK(accounts[k], loaded[k])
         /\ loaded[k].owner = accounts[k].owner /\ loaded[k].state = accounts[k].state
         /\ k # payer => loaded[k] = accounts[k]
         /\ k = payer => loaded[k] = Withdrawn(accounts[k])
<1>1. AccountOK(accounts[k])
  BY DEF BankInv
<1>2. payer \in Keys /\ FeePayerValid(accounts[payer]) /\ AccountOK(accounts[payer])
  BY DEF BankInv, PhaseOK
<1>3. loaded[k] = IF k = payer THEN FeePaid(accounts[payer]) ELSE accounts[k]
  BY DEF BankInv, PhaseOK, TypeOK
<1>4. k = payer => loaded[k] = Withdrawn(accounts[k])
  BY <1>2, <1>3, FeePaidOK DEF Withdrawn
<1>5. /\ AccountOK(loaded[k]) /\ loaded[k].owner = accounts[k].owner
      /\ loaded[k].len = accounts[k].len /\ loaded[k].state = accounts[k].state
  BY <1>1, <1>2, <1>3, FeePaidOK
<1>6. RentTransitionAllowed(accounts[k], loaded[k])
  BY <1>1, <1>2, <1>3, RentReflexive DEF FeePayerValid
<1>7. CommitOK(accounts[k], loaded[k])
  BY <1>5, <1>6 DEF CommitOK, IsNonce, HoldsNonce, IsInitialized, Deserializes
<1> QED BY <1>3, <1>4, <1>5, <1>7

(* prepare_if_nonce_account                                                *)
LEMMA NonceAdvancedOK ==
  ASSUME last \in Nat, NEW a, NEW b, AccountOK(b), IsNonce(b)
  PROVE  CommitOK(a, NonceAdvanced(b)) /\ HoldsNonce(NonceAdvanced(b), last)
<1> DEFINE s == Initialized("Current", b.state.authority, last)
           c == NonceAdvanced(b)
<1>1. s \in NonceStates /\ s.kind = "init" /\ s.version = "Current" /\ s.nonce = last
  <2>1. PICK key \in Keys \cup {NoKey} : key = b.state.authority
    BY AccountFacts
  <2>2. s = Initialized("Current", key, last)
    BY <2>1
  <2> HIDE DEF s
  <2> QED BY <2>2, StateTypes
<1>2. c \in Accounts /\ c.lamports = b.lamports /\ c.owner = b.owner /\ c.len = b.len /\ c.state = s
  BY <1>1 DEF NonceAdvanced, AccountOK, Accounts
<1> HIDE DEF s, c
<1>3. b.len >= NonceLen /\ b.len \in Nat /\ b.lamports \in Nat /\ MinBalance[b.len] \in Nat
  BY AccountFacts
<1>4. FitsIn(s, b.len)
  BY <1>1, <1>3, StateTypes, LensAssumption DEF FitsIn
<1>5. AccountOK(c) /\ IsNonce(c)
  BY <1>1, <1>2, <1>4 DEF AccountOK, IsNonce
<1>6. HoldsNonce(c, last)
  BY <1>1, <1>2, <1>5, AccountFacts
<1>7. ~RentPaying(c)
  BY <1>2, <1>3 DEF RentPaying, AccountOK
<1> QED BY <1>1, <1>2, <1>5, <1>6, <1>7 DEF CommitOK, RentTransitionAllowed, c

LEMMA CommittedOK ==
  ASSUME BankInv, phase \in {"succeeded", "failed"}, NEW k \in Keys
  PROVE  /\ CommitOK(accounts[k], Committed(k))
         /\ k = nonceKey => HoldsNonce(Committed(k), last)
<1>1. AccountOK(accounts[k]) /\ AccountStep(k, accounts[k], work[k]) /\ last \in Nat
  BY DEF BankInv, TypeOK
<1>2. CommitOK(accounts[k], accounts[k])
  BY <1>1, RentReflexive DEF CommitOK
<1>3. CommitOK(accounts[k], loaded[k])
  BY LoadedOK
<1>4. k # NoKey
  BY KeysAssumption
<1>5. CASE phase = "succeeded" /\ k \in writable
  <2>1. Committed(k) = work[k]
    BY <1>5 DEF Committed
  <2>2. RentTransitionAllowed(loaded[k], work[k])
    BY <1>5 DEF BankInv, PhaseOK
  <2>3. RentTransitionAllowed(accounts[k], work[k])
    BY <1>1, <1>3, <2>2, RentTransitive DEF CommitOK, AccountStep
  <2>4. k = nonceKey => HoldsNonce(work[k], last)
    BY <1>4, <1>5 DEF BankInv, PhaseOK
  <2> QED BY <1>1, <2>1, <2>3, <2>4 DEF CommitOK, AccountStep
<1>6. CASE phase = "failed" /\ k = nonceKey
  <2>1. Committed(k) = NonceAdvanced(loaded[k])
    BY <1>4, <1>6 DEF Committed
  <2>2. IsNonce(accounts[k])
    BY <1>4, <1>6 DEF BankInv, PhaseOK, HoldsNonce, IsInitialized, IsNonce
  <2>3. IsNonce(loaded[k]) /\ AccountOK(loaded[k])
    BY <2>2, LoadedOK DEF IsNonce, CommitOK
  <2> QED BY <1>1, <2>1, <2>3, NonceAdvancedOK
<1>7. CASE phase = "failed" /\ k # nonceKey
  <2>1. Committed(k) \in {accounts[k], loaded[k]}
    BY <1>4, <1>7, LoadedOK DEF Committed
  <2> QED BY <1>2, <1>3, <1>7, <2>1
<1>8. CASE phase = "succeeded" /\ k \notin writable
  <2>1. Committed(k) = accounts[k]
    BY <1>8 DEF Committed
  <2>2. k # nonceKey
    BY <1>4, <1>8 DEF BankInv, PhaseOK
  <2> QED BY <1>2, <2>1, <2>2
<1> QED BY <1>5, <1>6, <1>7, <1>8

(* Storing an account without lamports loses no nonce.                     *)
LEMMA StoredOK ==
  ASSUME last \in Nat, NEW a, NEW c, CommitOK(a, c)
  PROVE  CommitOK(a, Stored(c)) /\ (HoldsNonce(c, last) => HoldsNonce(Stored(c), last))
<1>1. CASE c.lamports = 0
  <2>1. ~IsNonce(c) /\ \A n : ~HoldsNonce(c, n)
    <3>1. AccountOK(c)
      BY DEF CommitOK
    <3>2. IsNonce(c) => c.lamports > 0
      BY <3>1, AccountFacts
    <3>3. \A n : HoldsNonce(c, n) => IsNonce(c)
      BY <3>1, AccountFacts
    <3> QED BY <1>1, <3>2, <3>3
  <2>2. Stored(c) = NewAccount /\ AccountOK(NewAccount) /\ ~IsNonce(NewAccount)
    BY <1>1, NewAccountOK DEF Stored
  <2>3. ~RentPaying(NewAccount)
    BY DEF RentPaying, NewAccount
  <2>4. ~HoldsNonce(a, last)
    BY <2>1 DEF CommitOK
  <2>5. CommitOK(a, NewAccount)
    BY <2>2, <2>3, <2>4 DEF CommitOK, RentTransitionAllowed
  <2> QED BY <2>1, <2>2, <2>5
<1>2. CASE c.lamports # 0
  <2>1. Stored(c) = c
    BY <1>2 DEF Stored
  <2> QED BY <2>1
<1> QED BY <1>1, <1>2

LEMMA CommitStep ==
  ASSUME BankInv, Commit
  PROVE  BankInv' /\ \A k \in Keys : RentTransitionAllowed(accounts[k], accounts'[k])
<1>1. /\ phase \in {"succeeded", "failed"} /\ last' = last /\ last \in Nat
      /\ accounts' = [k \in Keys |-> Stored(Committed(k))]
      /\ fees' = IF FeeCollected THEN fees + Fee ELSE fees
      /\ phase' = "idle" /\ payer' = NoKey /\ nonceKey' = NoKey /\ signers' = {} /\ writable' = {}
      /\ loaded' = accounts' /\ work' = accounts' /\ resizeDelta' = 0 /\ count' = 0
  BY DEF Commit, BankInv, TypeOK
<1> DEFINE given == {e \in Keys \X (0 .. last) :
                       HoldsNonce(accounts[e[1]], e[2]) /\ ~HoldsNonce(accounts'[e[1]], e[2])}
           used == {e \in Keys \X (0 .. last) : e[1] = nonceKey /\ HoldsNonce(accounts[e[1]], e[2])}
<1>2. retired' = retired \cup given /\ consumed' = consumed \cup used
  BY DEF Commit
<1>3. ASSUME NEW k \in Keys
      PROVE  CommitOK(accounts[k], accounts'[k]) /\ (k = nonceKey => HoldsNonce(accounts'[k], last))
  <2>1. accounts'[k] = Stored(Committed(k))
    BY <1>1
  <2>2. CommitOK(accounts[k], Committed(k)) /\ (k = nonceKey => HoldsNonce(Committed(k), last))
    BY <1>1, CommittedOK
  <2> QED BY <1>1, <2>1, <2>2, StoredOK
<1>4. \A k \in Keys : AccountOK(accounts'[k])
  BY <1>3 DEF CommitOK
<1>5. TypeOK'
  <2>1. accounts' \in [Keys -> Accounts]
    BY <1>1, <1>4 DEF AccountOK
  <2>2. fees' \in Nat
    BY <1>1, FeeAssumption DEF BankInv, TypeOK
  <2>3. given \subseteq Keys \X Nat /\ used \subseteq Keys \X Nat
    BY <1>1
  <2>4. retired' \subseteq Keys \X Nat /\ consumed' \subseteq Keys \X Nat
    BY <1>2, <2>3 DEF BankInv, TypeOK
  <2> HIDE DEF given, used
  <2>5. /\ loaded' \in [Keys -> Accounts] /\ work' \in [Keys -> Accounts]
        /\ last' \in Nat /\ count' \in Nat /\ resizeDelta' \in Int
    BY <1>1, <2>1
  <2>6. /\ phase' \in Phases /\ {payer', nonceKey'} \subseteq Keys \cup {NoKey}
        /\ signers' \subseteq Keys /\ writable' \subseteq Keys
    BY <1>1 DEF Phases
  <2> QED BY <2>1, <2>2, <2>4, <2>5, <2>6 DEF TypeOK
<1>6. (\A k \in Keys : AccountOK(accounts[k]) /\ AccountStep(k, accounts[k], work[k]))'
  BY <1>1, <1>4 DEF AccountOK, AccountStep
<1>7. \A k \in Keys, n \in Nat : <<k, n>> \in given => n < last /\ IsNonce(accounts[k])
        /\ accounts[k].state.version = "Current" /\ accounts[k].state.nonce = n
        /\ ~HoldsNonce(accounts'[k], n)
  <2> SUFFICES ASSUME NEW k \in Keys, NEW n \in Nat, <<k, n>> \in given
               PROVE  n < last /\ IsNonce(accounts[k]) /\ accounts[k].state.version = "Current"
                      /\ accounts[k].state.nonce = n /\ ~HoldsNonce(accounts'[k], n)
    OBVIOUS
  <2>1. n \in 0 .. last /\ HoldsNonce(accounts[k], n) /\ ~HoldsNonce(accounts'[k], n)
    OBVIOUS
  <2>2. n # last
    BY <1>3, <2>1 DEF CommitOK
  <2>3. AccountOK(accounts[k])
    BY DEF BankInv
  <2> HIDE DEF given
  <2>4. IsNonce(accounts[k]) /\ accounts[k].state.version = "Current" /\ accounts[k].state.nonce = n
    BY <2>1, <2>3, AccountFacts
  <2>5. n < last
    BY <1>1, <2>1, <2>2
  <2> QED BY <2>1, <2>4, <2>5
<1> HIDE DEF given, used
<1>8. RetiredOK'
  <2>1. ASSUME NEW k \in Keys, NEW n \in Nat, <<k, n>> \in retired'
        PROVE  n < last'
    <3>1. <<k, n>> \in retired => n < last
      BY DEF BankInv, RetiredOK
    <3>2. <<k, n>> \in given => n < last
      BY <1>7
    <3> QED BY <1>1, <1>2, <2>1, <3>1, <3>2
  <2>2. ASSUME NEW k \in Keys, NEW n \in Nat, IsNonce(accounts'[k]), <<k, n>> \in retired'
        PROVE  accounts'[k].state.version = "Current" /\ accounts'[k].state.nonce # n
    <3> DEFINE a == accounts[k]
               c == accounts'[k]
    <3>1. CommitOK(a, c) /\ AccountOK(a) /\ AccountOK(c) /\ n # last /\ n \in Nat
      <4>1. n < last
        BY <1>1, <2>1, <2>2
      <4>2. n # last
        BY <1>1, <4>1
      <4>3. AccountOK(accounts[k])
        BY DEF BankInv
      <4> QED BY <1>3, <1>4, <4>2, <4>3
    <3>2. c.state.version \in {"Legacy", "Current"} /\ a.state.version \in {"Legacy", "Current"}
      BY <3>1, AccountFacts
    <3>3. \/ c.state.version = "Current" /\ c.state.nonce = last
          \/ /\ IsNonce(a) /\ c.state.nonce = a.state.nonce
             /\ c.state.version = "Legacy" => a.state.version = "Legacy"
      BY <2>2, <3>1 DEF CommitOK
    <3>4. IsNonce(a) => a.state.version = "Current"
      BY <1>2, <1>7, <2>2 DEF BankInv, RetiredOK
    <3>5. c.state.version = "Current"
      BY <3>2, <3>3, <3>4
    <3>6. c.state.nonce # n
      <4>1. CASE <<k, n>> \in retired
        BY <3>1, <3>3, <4>1 DEF BankInv, RetiredOK
      <4>2. CASE <<k, n>> \in given
        <5>1. ~HoldsNonce(c, n)
          BY <1>7, <4>2
        <5> QED BY <2>2, <3>1, <3>5, <5>1, AccountFacts
      <4> QED BY <1>2, <2>2, <4>1, <4>2
    <3> QED BY <3>5, <3>6
  <2> QED BY <2>1, <2>2 DEF RetiredOK, IsNonce
<1>9. (consumed \subseteq retired)'
  <2> USE DEF given, used
  <2>1. ASSUME NEW e \in used PROVE e \in given
    <3>1. PICK k \in Keys, n \in 0 .. last : e = <<k, n>>
      OBVIOUS
    <3>2. k = nonceKey /\ HoldsNonce(accounts[k], n)
      BY <3>1
    <3>3. HoldsNonce(accounts'[k], last)
      BY <1>3, <3>2
    <3>4. n # last
      <4>1. nonceKey # NoKey
        BY <3>2, KeysAssumption
      <4>2. PICK m \in 0 .. last : m # last /\ HoldsNonce(accounts[k], m)
        BY <3>2, <4>1 DEF BankInv, PhaseOK
      <4>3. n = m
        BY <3>2, <4>2 DEF HoldsNonce
      <4> QED BY <4>2, <4>3
    <3>5. ~HoldsNonce(accounts'[k], n)
      BY <3>3, <3>4 DEF HoldsNonce
    <3> QED BY <3>1, <3>2, <3>5
  <2> HIDE DEF given, used
  <2> QED BY <1>2, <2>1 DEF BankInv
<1>10. PhaseOK'
  BY <1>1 DEF PhaseOK
<1>11. \A k \in Keys : RentTransitionAllowed(accounts[k], accounts'[k])
  BY <1>3 DEF CommitOK
<1> QED BY <1>5, <1>6, <1>8, <1>9, <1>10, <1>11 DEF BankInv

-----------------------------------------------------------------------------
LEMMA InitBank == Init => BankInv
<1> SUFFICES ASSUME Init PROVE BankInv
  OBVIOUS
<1>1. PICK genesis \in [Keys -> Accounts] :
        (\A k \in Keys : GenesisAccount(genesis[k])) /\ InitWith(genesis)
  BY DEF Init
<1>2. last = 0 /\ retired = {} /\ consumed = {} /\ accounts = genesis /\ work = genesis
  BY <1>1 DEF InitWith
<1>3. \A k \in Keys : AccountOK(genesis[k])
  <2> TAKE k \in Keys
  <2>1. GenesisAccount(genesis[k]) /\ genesis[k] \in Accounts
    BY <1>1
  <2>2. genesis[k].owner = System => /\ genesis[k].state.kind # "opaque"
                                     /\ IsNonce(genesis[k]) => genesis[k].state.nonce = 0
    BY <2>1, StateTypes DEF GenesisAccount, IsNonce
  <2>3. IsNonce(genesis[k]) => genesis[k].lamports >= MinBalance[genesis[k].len]
    BY <2>1, StateTypes DEF GenesisAccount, IsNonce
  <2>4. FitsIn(genesis[k].state, genesis[k].len)
    BY <2>1 DEF GenesisAccount
  <2>5. IsNonce(genesis[k]) => genesis[k].state.nonce <= last
    BY <1>2, <2>2 DEF IsNonce
  <2> QED BY <2>1, <2>2, <2>3, <2>4, <2>5 DEF AccountOK
<1>4. \A k \in Keys : AccountStep(k, accounts[k], work[k])
  BY <1>2, <1>3, StepReflexive
<1>5. TypeOK
  <2>1. accounts \in [Keys -> Accounts] /\ loaded \in [Keys -> Accounts] /\ work \in [Keys -> Accounts]
    BY <1>1 DEF InitWith
  <2>2. last \in Nat /\ fees \in Nat /\ count \in Nat /\ resizeDelta \in Int
    BY <1>1 DEF InitWith
  <2>3. /\ phase \in Phases /\ {payer, nonceKey} \subseteq Keys \cup {NoKey}
        /\ signers \subseteq Keys /\ writable \subseteq Keys
        /\ retired \subseteq Keys \X Nat /\ consumed \subseteq Keys \X Nat
    BY <1>1 DEF InitWith, Phases
  <2> QED BY <2>1, <2>2, <2>3 DEF TypeOK
<1>6. PhaseOK
  BY <1>1 DEF InitWith, PhaseOK
<1> QED BY <1>2, <1>3, <1>4, <1>5, <1>6 DEF BankInv, RetiredOK

LEMMA NextBank ==
  BankInv /\ [Next]_vars => BankInv' /\ \A k \in Keys : RentTransitionAllowed(accounts[k], accounts'[k])
<1> SUFFICES ASSUME BankInv, [Next]_vars
             PROVE  BankInv' /\ \A k \in Keys : RentTransitionAllowed(accounts[k], accounts'[k])
  OBVIOUS
<1>1. UNCHANGED accounts => \A k \in Keys : RentTransitionAllowed(accounts[k], accounts'[k])
  BY RentReflexive DEF BankInv
<1>2. ASSUME NEW p \in Keys, NEW sigs \in SUBSET Keys, NEW wr \in SUBSET Keys,
             NEW nk \in Keys \cup {NoKey}, Load(p, sigs, wr, nk)
      PROVE  BankInv' /\ UNCHANGED accounts
  BY Zenon, <1>2, LoadStep DEF Load
<1>3. CASE Execute
  BY <1>1, <1>3, ExecuteStep DEF Execute
<1>4. CASE InstructionError
  BY <1>1, <1>4, InstructionErrorStep DEF InstructionError
<1>5. CASE VerifyChanges
  BY <1>1, <1>5, VerifyChangesStep DEF VerifyChanges
<1>6. CASE Commit
  BY <1>6, CommitStep
<1>7. CASE RegisterBlockhash
  BY <1>1, <1>7, RegisterStep DEF RegisterBlockhash
<1>8. CASE UNCHANGED vars
  <2>1. UNCHANGED <<accounts, last, fees, phase, payer, signers, writable, nonceKey, loaded, work,
                    resizeDelta, count, retired, consumed>>
    BY <1>8 DEF vars, txVars, history
  <2>2. TypeOK'
    BY <2>1 DEF BankInv, TypeOK
  <2>3. (\A k \in Keys : AccountOK(accounts[k]) /\ AccountStep(k, accounts[k], work[k]))'
    BY Zenon, <2>1 DEF BankInv, AccountStep, AccountOK
  <2>4. RetiredOK' /\ (consumed \subseteq retired)' /\ PhaseOK'
    BY Zenon, <2>1 DEF BankInv, RetiredOK, PhaseOK
  <2> QED BY <1>1, <2>1, <2>2, <2>3, <2>4 DEF BankInv
<1> QED BY <1>1, <1>2, <1>3, <1>4, <1>5, <1>6, <1>7, <1>8 DEF Next

(* The types of the bank's state: in particular, no balance is ever        *)
(* negative (checked_sub_lamports, validate_fee_payer, Bank::withdraw).    *)
THEOREM BankTypes == Spec => []TypeOK
<1>1. BankInv => TypeOK
  BY DEF BankInv
<1> QED BY <1>1, InitBank, NextBank, PTL DEF Spec

(* A durable nonce that its account gave up never comes back, and every    *)
(* committed durable nonce transaction gave its nonce up: it is executed   *)
(* at most once.                                                           *)
THEOREM NonceUsedOnce == Spec => []NonceNeverReused
<1>1. BankInv => NonceNeverReused
  <2> SUFFICES ASSUME BankInv PROVE NonceNeverReused
    OBVIOUS
  <2>1. ASSUME NEW e \in retired PROVE ~HoldsNonce(accounts[e[1]], e[2])
    <3>1. PICK k \in Keys, n \in Nat : e = <<k, n>>
      BY DEF BankInv, TypeOK
    <3>2. AccountOK(accounts[k])
      BY DEF BankInv
    <3>3. IsNonce(accounts[k]) => accounts[k].state.nonce # n
      BY <3>1 DEF BankInv, RetiredOK
    <3>4. ~HoldsNonce(accounts[k], n)
      BY <3>2, <3>3, AccountFacts
    <3> QED BY <3>1, <3>4
  <2> QED BY <2>1 DEF NonceNeverReused, BankInv
<1> QED BY <1>1, InitBank, NextBank, PTL DEF Spec

(* An initialised nonce account keeps its rent-exempt minimum, and the     *)
(* data of a System account was written by the System program.             *)
THEOREM NonceAccountsWellFormed == Spec => [](NonceRentExempt /\ SystemDataIsNonce)
<1>1. BankInv => NonceRentExempt /\ SystemDataIsNonce
  <2> SUFFICES ASSUME BankInv, NEW k \in Keys
               PROVE  /\ accounts[k].owner = System /\ IsInitialized(accounts[k])
                           => accounts[k].lamports >= MinBalance[accounts[k].len]
                      /\ accounts[k].owner = System =>
                           /\ accounts[k].state.kind # "opaque"
                           /\ accounts[k].state.kind = "init" =>
                                accounts[k].len >= NonceLen /\ accounts[k].state.nonce <= last
    BY DEF NonceRentExempt, SystemDataIsNonce
  <2>1. AccountOK(accounts[k])
    BY DEF BankInv
  <2> QED BY <2>1, AccountFacts DEF AccountOK, IsNonce
<1> QED BY <1>1, InitBank, NextBank, PTL DEF Spec

(* Execution writes no account that the message did not mark writable.     *)
THEOREM ReadonlyNotWritten == Spec => []ReadonlyUntouched
<1>1. BankInv => ReadonlyUntouched
  BY DEF BankInv, AccountStep, ReadonlyUntouched
<1> QED BY <1>1, InitBank, NextBank, PTL DEF Spec

(* No transaction, committed or rolled back, makes an account rent-paying, *)
(* or gives lamports or another length to one that is.                     *)
THEOREM RentPayingDrains == Spec => RentPayingOnlyDrains
<1>1. BankInv /\ [Next]_vars => BankInv' /\ [\A k \in Keys : RentTransitionAllowed(accounts[k], accounts'[k])]_vars
  BY NextBank
<1> QED BY <1>1, InitBank, PTL DEF Spec, RentPayingOnlyDrains
=============================================================================
