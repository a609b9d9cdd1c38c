-------------------------- MODULE CrossProgramProofs --------------------------
(***************************************************************************)
(* ReadonlyKept, ViewFresh and OwnAccountsStable of CrossProgram hold for  *)
(* every message, any number of programs and any depth of invocation: the  *)
(* other actions keep the invariant too.                                   *)
(***************************************************************************)
EXTENDS CrossProgramInvariant

LEMMA PopPreserves ==
  ASSUME IInv, Running, NEW a \in [Keys -> Accounts], \A k \in Keys : Touched(Top, k, a[k]), Pop(a)
  PROVE  IInv'
<1> DEFINE n == Len(stack)
           below == Front(stack)
           g == Resumed(stack[n - 1], Top, a)
<1>1. n \in Nat /\ n \in 1..n /\ Top = stack[n] /\ Types /\ stack # <<>>
  BY DEF IInv, Types, Top, Last, Running
<1>2. /\ below \in Seq(Frames) /\ Len(below) = n - 1
      /\ \A i \in 1..n - 1 : below[i] = stack[i]
  BY <1>1, FrontOfStack
<1>3. /\ accounts' = a /\ loaded' = loaded
      /\ stack' = IF below = <<>> THEN below
                  ELSE [below EXCEPT ![Len(below)] = Resumed(below[Len(below)], Top, a)]
  BY DEF Pop
<1>4. /\ \A k \in Keys \ Writable : a[k] = loaded[k]
      /\ \A i \in 1..n - 1 : StableAt(i, a) /\ FreshAt(i, a)
  BY <1>1, WaitingKeep
<1>5. ReadonlyKept'
  BY <1>3, <1>4 DEF ReadonlyKept
<1>6. CASE n = 1
  <2>1. stack' = <<>>
    BY <1>2, <1>3, <1>6
  <2>2. Len(stack') = 0 /\ stack' \in Seq(Frames) /\ 1..Len(stack') - 1 = {} /\ 1..Len(stack') = {}
    BY <2>1
  <2>3. Types'
    BY <1>1, <1>3, <2>2 DEF Types
  <2>4. Nested' /\ Fresh' /\ OwnAccountsStable'
    BY <2>2, Zenon DEF Nested, Fresh, OwnAccountsStable
  <2> QED
    BY <1>5, <2>3, <2>4 DEF IInv
<1>7. CASE n > 1
  <2> DEFINE m == n - 1
  <2>1. m \in 1..m /\ m \in Nat /\ m \in 1..n /\ m < n /\ m + 1 = n
    BY <1>1, <1>7
  <2>2. /\ stack[m] \in Frames /\ DOMAIN stack[m].priv \in SUBSET Keys
        /\ DOMAIN stack[m].view = DOMAIN stack[m].priv
        /\ stack[m].view \in [DOMAIN stack[m].priv -> Accounts]
    BY <1>1, <2>1, FrameTypes
  <2>3. Refreshed(stack[m], Top, a) \in [DOMAIN stack[m].priv -> Accounts]
    BY <2>2 DEF Refreshed
  <2>4. /\ g \in Frames /\ g.program = stack[m].program /\ g.priv = stack[m].priv
        /\ g.written = stack[m].written /\ g.view = Refreshed(stack[m], Top, a) /\ g.atCall = a
    <3>1. Refreshed(stack[m], Top, a) \in Views
      BY <2>2, <2>3 DEF Views
    <3> QED
      BY <2>2, <3>1 DEF Frames, Resumed
  <2>5. stack' = [below EXCEPT ![m] = g]
    <3>1. below # <<>> /\ Len(below) = m /\ below[m] = stack[m]
      BY <1>2, <2>1
    <3> QED
      BY <1>3, <3>1
  <2> HIDE DEF g, m, below
  <2>6. /\ stack' \in Seq(Frames) /\ Len(stack') = m
        /\ \A i \in 1..m - 1 : stack'[i] = stack[i]
        /\ stack'[m] = g
    <3>1. Len(below) = m /\ \A i \in 1..m : below[i] = stack[i]
      BY <1>2 DEF m
    <3> QED
      BY <1>2, <2>1, <2>4, <2>5, <3>1
  <2>7. \A i \in 1..m : stack'[i].program = stack[i].program /\ stack'[i].priv = stack[i].priv
    BY <2>1, <2>4, <2>6
  <2>8. Types'
    <3>1. \A i \in 1..m : DOMAIN stack'[i].view = DOMAIN stack'[i].priv
      BY <1>1, <2>1, <2>2, <2>3, <2>4, <2>6 DEF Types
    <3> QED
      BY <1>1, <1>3, <2>6, <3>1 DEF Types
  <2>9. Nested'
    <3>1. 1..Len(stack') = 1..m
      BY <2>6
    <3>2. \A i \in 1..m : \A k \in DOMAIN stack'[i].priv : stack'[i].priv[k].writable => k \in Writable
      <4>1. \A i \in 1..m : i \in 1..n
        BY <2>1
      <4> QED
        BY <2>7, <4>1, Zenon DEF IInv, Nested
    <3>3. ASSUME NEW i \in 1..m, NEW j \in 1..m, i < j
          PROVE  /\ stack'[i].program \in Programs
                 /\ DOMAIN stack'[j].priv \subseteq DOMAIN stack'[i].priv
                 /\ \A k \in DOMAIN stack'[j].priv : stack'[j].priv[k].writable => stack'[i].priv[k].writable
                 /\ stack'[j].program = stack'[i].program => stack'[i + 1].program = stack'[i].program
      <4>1. i \in 1..n /\ j \in 1..n /\ i + 1 \in 1..m
        BY <2>1, <3>3
      <4> QED
        BY <2>7, <3>3, <4>1, Zenon DEF IInv, Nested
    <3> QED
      BY <3>1, <3>2, <3>3, Zenon DEF Nested
  <2>10. Fresh'
    <3>1. ASSUME NEW i \in 1..m, NEW k \in DOMAIN stack'[i].view \ stack'[i].written
          PROVE  stack'[i].view[k] = a[k] \/ (i < m /\ Handed(i, k)')
      <4>1. FreshAt(i, a)
        BY <1>4, <2>1 DEF m
      <4>2. CASE i = m
        <5>1. k \in DOMAIN stack[m].view \ stack[m].written
          BY <2>2, <2>3, <2>4, <2>6, <3>1, <4>2
        <5>2. stack[m].view[k] = a[k] \/ Handed(m, k)
          BY <4>1, <4>2, <5>1 DEF FreshAt
        <5>3. Handed(m, k) => Refreshed(stack[m], Top, a)[k] = a[k]
          BY <1>1, <2>1, <5>1 DEF Handed, Refreshed
        <5>4. stack[m].view[k] = a[k] => Refreshed(stack[m], Top, a)[k] = a[k]
          BY <5>1 DEF Refreshed
        <5> QED
          BY <2>4, <2>6, <4>2, <5>2, <5>3, <5>4
      <4>3. CASE i < m
        <5>1. i \in 1..m - 1 /\ i + 1 \in 1..m
          BY <2>1, <4>3
        <5>2. stack'[i] = stack[i] /\ stack'[i + 1].priv = stack[i + 1].priv
          BY <2>6, <2>7, <5>1
        <5> QED
          BY <3>1, <4>1, <4>3, <5>2 DEF FreshAt, Handed
      <4> QED
        BY <2>1, <4>2, <4>3
    <3> QED
      BY <1>3, <2>6, <3>1 DEF Fresh
  <2>11. OwnAccountsStable'
    <3>1. SUFFICES ASSUME NEW i \in 1..m - 1, stack'[i + 1].program # stack'[i].program,
                          NEW k \in Keys, stack'[i].atCall[k].owner = stack'[i].program
                   PROVE  /\ a[k].owner = stack'[i].atCall[k].owner
                          /\ a[k].data = stack'[i].atCall[k].data
                          /\ a[k].lamports >= stack'[i].atCall[k].lamports
      <4>1. 1..Len(stack') - 1 = 1..m - 1
        BY <2>6
      <4>2. accounts' = a
        BY <1>3
      <4> QED
        BY <4>1, <4>2, Zenon DEF OwnAccountsStable
    <3>2. i \in 1..n - 1 /\ i + 1 \in 1..m
      BY <2>1
    <3>3. stack'[i] = stack[i] /\ stack'[i + 1].program = stack[i + 1].program
      BY <2>6, <2>7, <3>2
    <3> QED
      BY <1>4, <3>1, <3>2, <3>3 DEF StableAt
  <2> QED
    BY <1>5, <2>8, <2>9, <2>10, <2>11 DEF IInv
<1> QED
  BY <1>1, <1>6, <1>7

(* A program writes to its own copy only.                                  *)
LEMMA WritePreserves ==
  ASSUME IInv, NEW k \in Keys, NEW acct \in Accounts, WriteView(k, acct)
  PROVE  IInv'
<1> DEFINE n == Len(stack)
           g == [Top EXCEPT !.view = [@ EXCEPT ![k] = acct], !.written = @ \cup {k}]
<1>1. n \in Nat /\ n \in 1..n /\ Top = stack[n] /\ Types /\ stack # <<>>
  BY DEF IInv, Types, Top, Last, WriteView, OnChain, Running
<1>2. /\ Top \in Frames /\ DOMAIN Top.priv \in SUBSET Keys /\ DOMAIN Top.view = DOMAIN Top.priv
      /\ Top.view \in [DOMAIN Top.priv -> Accounts] /\ k \in DOMAIN Top.priv
  BY <1>1, FrameTypes DEF WriteView
<1>3. /\ g \in Frames /\ g.program = Top.program /\ g.priv = Top.priv
      /\ g.written = Top.written \cup {k} /\ g.view = [Top.view EXCEPT ![k] = acct]
      /\ g.atCall = Top.atCall
  <2>1. [Top.view EXCEPT ![k] = acct] \in [DOMAIN Top.priv -> Accounts]
    BY <1>2
  <2>2. [Top.view EXCEPT ![k] = acct] \in Views
    BY <1>2, <2>1 DEF Views
  <2> QED
    BY <1>2, <2>2 DEF Frames
<1>4. accounts' = accounts /\ loaded' = loaded /\ stack' = [stack EXCEPT ![n] = g]
  BY <1>1 DEF WriteView
<1> HIDE DEF g
<1>5. /\ stack' \in Seq(Frames) /\ Len(stack') = n
      /\ \A i \in 1..n : i # n => stack'[i] = stack[i]
      /\ stack'[n] = g
  BY <1>1, <1>3, <1>4 DEF Types
<1>6. \A i \in 1..n : /\ stack'[i].program = stack[i].program /\ stack'[i].priv = stack[i].priv
                      /\ stack'[i].atCall = stack[i].atCall
  BY <1>1, <1>3, <1>5
<1>7. Types'
  <2>1. \A i \in 1..n : DOMAIN stack'[i].view = DOMAIN stack'[i].priv
    BY <1>1, <1>2, <1>3, <1>5 DEF Types
  <2> QED
    BY <1>1, <1>4, <1>5, <2>1 DEF Types
<1>8. \A i \in 1..n : i < n => i + 1 \in 1..n
  BY <1>1
<1>9. Nested'
  <2>1. 1..Len(stack') = 1..n
    BY <1>5
  <2>2. \A i \in 1..n : \A x \in DOMAIN stack'[i].priv : stack'[i].priv[x].writable => x \in Writable
    BY <1>6, Zenon DEF IInv, Nested
  <2>3. ASSUME NEW i \in 1..n, NEW j \in 1..n, i < j
        PROVE  /\ stack'[i].program \in Programs
               /\ DOMAIN stack'[j].priv \subseteq DOMAIN stack'[i].priv
               /\ \A x \in DOMAIN stack'[j].priv : stack'[j].priv[x].writable => stack'[i].priv[x].writable
               /\ stack'[j].program = stack'[i].program => stack'[i + 1].program = stack'[i].program
    <3>1. i + 1 \in 1..n
      BY <1>1, <2>3
    <3> QED
      BY <1>6, <2>3, <3>1, Zenon DEF IInv, Nested
  <2> QED
    BY <2>1, <2>2, <2>3, Zenon DEF Nested
<1>10. Fresh'
  <2>1. ASSUME NEW i \in 1..n, NEW x \in DOMAIN stack'[i].view \ stack'[i].written
        PROVE  stack'[i].view[x] = accounts[x] \/ (i < n /\ Handed(i, x)')
    <3>1. x \in DOMAIN stack[i].view \ stack[i].written /\ stack'[i].view[x] = stack[i].view[x]
      BY <1>1, <1>2, <1>3, <1>5, <2>1
    <3>2. stack[i].view[x] = accounts[x] \/ (i < n /\ Handed(i, x))
      BY <3>1 DEF IInv, Fresh
    <3> QED
      BY <1>6, <1>8, <3>1, <3>2 DEF Handed
  <2> QED
    BY <1>4, <1>5, <2>1 DEF Fresh
<1>11. ReadonlyKept'
  BY <1>4 DEF IInv, ReadonlyKept
<1>12. OwnAccountsStable'
  <2>1. \A i \in 1..n - 1 : i \in 1..n /\ i + 1 \in 1..n
    BY <1>1
  <2>2. 1..Len(stack') - 1 = 1..Len(stack) - 1
    BY <1>5
  <2>3. SUFFICES ASSUME NEW i \in 1..Len(stack) - 1, stack'[i + 1].program # stack'[i].program,
                        NEW x \in Keys, stack'[i].atCall[x].owner = stack'[i].program
                 PROVE  /\ accounts[x].owner = stack'[i].atCall[x].owner
                        /\ accounts[x].data = stack'[i].atCall[x].data
                        /\ accounts[x].lamports >= stack'[i].atCall[x].lamports
    <3>1. accounts' = accounts
      BY <1>4
    <3> QED
      BY <2>2, <3>1, Zenon DEF OwnAccountsStable
  <2>4. /\ stack'[i + 1].program = stack[i + 1].program /\ stack'[i].program = stack[i].program
        /\ stack'[i].atCall = stack[i].atCall
    BY <1>6, <2>1
  <2> QED
    BY <2>3, <2>4 DEF IInv, OwnAccountsStable
<1> QED
  BY <1>7, <1>9, <1>10, <1>11, <1>12 DEF IInv

LEMMA StartPreserves ==
  ASSUME IInv, NEW p \in Owners, NEW ks \in Instructions, ProcessInstruction(p, ks)
  PROVE  IInv'
<1> DEFINE priv == [k \in ks |-> [signer |-> k \in Signers, writable |-> k \in Writable]]
           f == NewFrame(p, priv, accounts)
<1>1. accounts' = accounts /\ loaded' = loaded /\ stack = <<>> /\ stack' = Append(<<>>, f)
  BY DEF ProcessInstruction, Push
<1>2. accounts \in [Keys -> Accounts] /\ ks \in SUBSET Keys /\ priv \in [ks -> Privileges]
  BY MessageAssumption DEF IInv, Types, Privileges
<1>3. \A k \in ks : priv[k].writable => k \in Writable
  OBVIOUS
<1> HIDE DEF priv
<1>4. /\ f \in Frames /\ f.program = p /\ f.priv = priv /\ f.written = {}
      /\ DOMAIN f.view = ks /\ \A k \in ks : f.view[k] = accounts[k]
  BY <1>2, NewFrameType
<1> HIDE DEF f
<1>5. stack' \in Seq(Frames) /\ Len(stack') = 1 /\ stack'[1] = f
  BY <1>1, <1>4
<1>6. Types'
  BY <1>1, <1>2, <1>4, <1>5 DEF IInv, Types
<1>7. Nested'
  BY <1>2, <1>3, <1>4, <1>5 DEF Nested
<1>8. Fresh'
  BY <1>1, <1>4, <1>5 DEF Fresh
<1>9. ReadonlyKept' /\ OwnAccountsStable'
  BY <1>1, <1>5 DEF IInv, ReadonlyKept, OwnAccountsStable
<1> QED
  BY <1>6, <1>7, <1>8, <1>9 DEF IInv

-----------------------------------------------------------------------------
LEMMA InitInv == Init => IInv
<1> SUFFICES ASSUME Init PROVE IInv
  OBVIOUS
<1>1. accounts \in [Keys -> Accounts] /\ loaded = accounts /\ stack = <<>>
  BY MessageAssumption DEF Init
<1> QED
  BY <1>1 DEF IInv, Types, Nested, Fresh, ReadonlyKept, OwnAccountsStable

(* The invariant is inductive.                                             *)
LEMMA NextInv == IInv /\ [Next]_vars => IInv'
<1> SUFFICES ASSUME IInv, [Next]_vars PROVE IInv'
  OBVIOUS
<1>0. ASSUME Running
      PROVE  /\ Top = stack[Len(stack)] /\ stack # <<>> /\ Types
             /\ DOMAIN Top.priv \in SUBSET Keys /\ Top.view \in [DOMAIN Top.priv -> Accounts]
  <2>1. Len(stack) \in 1..Len(stack) /\ Types /\ stack # <<>>
    BY <1>0 DEF Running, IInv, Types
  <2> QED
    BY <2>1, FrameTypes DEF Top, Last
<1>1. ASSUME NEW p \in Owners, NEW ks \in Instructions, ProcessInstruction(p, ks)
      PROVE  IInv'
  BY <1>1, StartPreserves
<1>2. ASSUME Running, NEW k \in DOMAIN Top.priv,
             \/ \E n \in 0..MaxLamports : WriteView(k, [Top.view[k] EXCEPT !.lamports = n])
             \/ \E d \in Data : WriteView(k, [Top.view[k] EXCEPT !.data = d])
             \/ \E o \in Owners : WriteView(k, [Top.view[k] EXCEPT !.owner = o])
      PROVE  IInv'
  <2>1. k \in Keys /\ Top.view[k] \in Accounts
    BY <1>0, <1>2
  <2>2. /\ \A n \in 0..MaxLamports : [Top.view[k] EXCEPT !.lamports = n] \in Accounts
        /\ \A d \in Data : [Top.view[k] EXCEPT !.data = d] \in Accounts
        /\ \A o \in Owners : [Top.view[k] EXCEPT !.owner = o] \in Accounts
    BY <2>1, ProgramsAssumption DEF Accounts
  <2>3. PICK acct \in Accounts : WriteView(k, acct)
    BY <1>2, <2>2
  <2> QED
    BY <2>1, <2>3, WritePreserves
<1>3. ASSUME Running, NEW p \in Owners, NEW D \in SUBSET DOMAIN Top.priv, NEW priv \in [D -> Flags],
             Invoke(p, priv)
      PROVE  IInv'
  BY <1>3, InvokePreserves
<1>4. CASE Exit
  <2>1. Running /\ Pop(Synced(Top, DOMAIN Top.priv)) /\ \A k \in DOMAIN Top.priv : CanSync(Top, k)
    BY <1>4 DEF Exit, OnChain
  <2>2. DOMAIN Top.priv \in SUBSET DOMAIN Top.priv
    OBVIOUS
  <2>3. /\ Synced(Top, DOMAIN Top.priv) \in [Keys -> Accounts]
        /\ \A k \in Keys : Touched(Top, k, Synced(Top, DOMAIN Top.priv)[k])
    BY <1>0, <2>1, <2>2, SyncTouches
  <2> QED
    BY <2>1, <2>3, PopPreserves
<1>5. ASSUME NEW from \in Keys, NEW to \in Keys, NEW n \in 1..MaxLamports, Transfer(from, to, n)
      PROVE  IInv'
  <2> DEFINE a == [[accounts EXCEPT ![from].lamports = @ - n] EXCEPT ![to].lamports = @ + n]
  <2>1. /\ Running /\ Top.program = System /\ SystemOwned(from) /\ n <= accounts[from].lamports
        /\ to \in DOMAIN Top.priv /\ Top.priv[to].writable /\ Pop(a)
    BY <1>5 DEF Transfer
  <2>2. a \in [Keys -> Accounts] /\ \A k \in Keys : Touched(Top, k, a[k])
    BY <1>0, <2>1, SystemTouches
  <2> HIDE DEF a
  <2> QED
    BY <2>1, <2>2, PopPreserves
<1>6. ASSUME NEW k \in Keys, NEW p \in Programs, Assign(k, p)
      PROVE  IInv'
  <2> DEFINE a == [accounts EXCEPT ![k].owner = p]
  <2>1. Running /\ Top.program = System /\ SystemOwned(k) /\ Pop(a)
    BY <1>6 DEF Assign
  <2>2. a \in [Keys -> Accounts] /\ \A x \in Keys : Touched(Top, x, a[x])
    BY <1>0, <2>1, SystemTouches
  <2> HIDE DEF a
  <2> QED
    BY <2>1, <2>2, PopPreserves
<1>7. CASE Fail
  BY <1>7 DEF Fail, IInv, Types, Nested, Fresh, ReadonlyKept, OwnAccountsStable
<1>8. CASE Commit \/ UNCHANGED vars
  <2>1. accounts' = accounts /\ loaded' = loaded /\ stack' = stack
    BY <1>8 DEF Commit, vars
  <2> QED
    BY <2>1 DEF IInv, Types, Nested, Fresh, Handed, ReadonlyKept, OwnAccountsStable
<1> QED
  BY <1>1, <1>2, <1>3, <1>4, <1>5, <1>6, <1>7, <1>8 DEF Next

LEMMA Inductive == Spec => []IInv
  BY InitInv, NextInv, PTL DEF Spec

(* However deep invocations nest, an account the message does not mark     *)
(* writable is never changed (prepare_instruction).                        *)
THEOREM ReadonlyAlwaysKept == Spec => []ReadonlyKept
<1>1. IInv => ReadonlyKept
  BY DEF IInv
<1> QED
  BY <1>1, Inductive, PTL

(* A running program never sees a stale account: what invoked programs     *)
(* changed has reached its memory (update_caller_account).                 *)
THEOREM ViewAlwaysFresh == Spec => []ViewFresh
<1>1. IInv => ViewFresh
  <2>1. SUFFICES ASSUME IInv, OnChain, NEW k \in DOMAIN Top.view \ Top.written
                 PROVE  Top.view[k] = accounts[k]
    BY DEF ViewFresh
  <2>2. Len(stack) \in 1..Len(stack) /\ Top = stack[Len(stack)] /\ Len(stack) \in Nat
    BY <2>1 DEF OnChain, Running, IInv, Types, Top, Last
  <2> QED
    BY <2>1, <2>2 DEF IInv, Fresh
<1> QED
  BY <1>1, Inductive, PTL

(* While a program waits for a program it invoked, nobody changes the data *)
(* or owner of its accounts or takes lamports from them                    *)
(* (InvokeContext::push refuses re-entrance).                              *)
THEOREM OwnAccountsAlwaysStable == Spec => []OwnAccountsStable
<1>1. IInv => OwnAccountsStable
  BY DEF IInv
<1> QED
  BY <1>1, Inductive, PTL

=============================================================================
