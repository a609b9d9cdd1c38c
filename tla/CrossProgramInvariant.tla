------------------------- MODULE CrossProgramInvariant -------------------------
(***************************************************************************)
(* The inductive invariant of CrossProgram, lemmas on what a step may do   *)
(* to accounts and stack, and the proof that an invocation keeps the       *)
(* invariant.                                                              *)
(*                                                                         *)
(* What a step does to the accounts is stated once (Touched): it is        *)
(* confined to accounts writable in the running instruction, and beyond a  *)
(* credit to accounts the running program owns.  The invariant says how    *)
(* the frames of the stack are nested, so that this is of use to the       *)
(* programs that wait.                                                     *)
(***************************************************************************)
EXTENDS CrossProgram, SequenceTheorems, TLAPS

PrivSets == UNION {[ks -> Privileges] : ks \in SUBSET Keys}
Views == UNION {[ks -> Accounts] : ks \in SUBSET Keys}
Sums == {LamportSum(a, ks) : a \in [Keys -> Accounts], ks \in SUBSET Keys}
Frames == [program : Owners, priv : PrivSets, sum : Sums, view : Views,
           written : SUBSET Keys, atCall : [Keys -> Accounts]]

Types ==
  /\ accounts \in [Keys -> Accounts] /\ loaded \in [Keys -> Accounts]
  /\ stack \in Seq(Frames)
  /\ \A i \in 1..Len(stack) : DOMAIN stack[i].view = DOMAIN stack[i].priv

(* Privileges shrink towards the top of the stack; only on-chain programs  *)
(* wait; the frames of one program are adjacent.                           *)
Nested ==
  /\ \A i \in 1..Len(stack) : \A k \in DOMAIN stack[i].priv :
       stack[i].priv[k].writable => k \in Writable
  /\ \A i, j \in 1..Len(stack) : i < j =>
       /\ stack[i].program \in Programs
       /\ DOMAIN stack[j].priv \subseteq DOMAIN stack[i].priv
       /\ \A k \in DOMAIN stack[j].priv : stack[j].priv[k].writable => stack[i].priv[k].writable
       /\ stack[j].program = stack[i].program => stack[i + 1].program = stack[i].program

Handed(i, k) == k \in DOMAIN stack[i + 1].priv /\ stack[i + 1].priv[k].writable

(* A copy is current, or was written to, or is of an account handed to the *)
(* invoked program as writable.                                            *)
Fresh ==
  \A i \in 1..Len(stack) : \A k \in DOMAIN stack[i].view \ stack[i].written :
    stack[i].view[k] = accounts[k] \/ (i < Len(stack) /\ Handed(i, k))

IInv == Types /\ Nested /\ Fresh /\ ReadonlyKept /\ OwnAccountsStable

(* The running program may turn account k into acct.                       *)
Touched(f, k, acct) ==
  \/ acct = accounts[k]
  \/ /\ k \in DOMAIN f.priv /\ f.priv[k].writable
     /\ \/ accounts[k].owner = f.program
        \/ /\ acct.owner = accounts[k].owner /\ acct.data = accounts[k].data
           /\ acct.lamports >= accounts[k].lamports

-----------------------------------------------------------------------------
LEMMA FrameTypes ==
  ASSUME Types, NEW i \in 1..Len(stack)
  PROVE  /\ stack[i] \in Frames
         /\ stack[i].priv \in [DOMAIN stack[i].priv -> Privileges]
         /\ stack[i].view \in [DOMAIN stack[i].priv -> Accounts]
         /\ DOMAIN stack[i].priv \in SUBSET Keys
<1>1. stack[i] \in Frames
  BY DEF Types
<1>2. PICK ks \in SUBSET Keys : stack[i].priv \in [ks -> Privileges]
  BY <1>1 DEF Frames, PrivSets
<1>3. PICK vs \in SUBSET Keys : stack[i].view \in [vs -> Accounts]
  BY <1>1 DEF Frames, Views
<1>4. DOMAIN stack[i].view = DOMAIN stack[i].priv
  BY DEF Types
<1> QED
  BY <1>1, <1>2, <1>3, <1>4

(* What an on-chain program stores when it invokes or ends.                *)
LEMMA SyncTouches ==
  ASSUME Types, stack # <<>>, NEW ks \in SUBSET DOMAIN Top.priv, \A k \in ks : CanSync(Top, k)
  PROVE  /\ Synced(Top, ks) \in [Keys -> Accounts]
         /\ \A k \in Keys : Touched(Top, k, Synced(Top, ks)[k])
<1>1. Len(stack) \in 1..Len(stack)
  BY DEF Types
<1>2. Top = stack[Len(stack)]
  BY DEF Top, Last
<1>3. /\ Top.priv \in [DOMAIN Top.priv -> Privileges]
      /\ Top.view \in [DOMAIN Top.priv -> Accounts]
      /\ DOMAIN Top.priv \in SUBSET Keys
  BY <1>1, <1>2, FrameTypes
<1>4. accounts \in [Keys -> Accounts]
  BY DEF Types
<1>5. Synced(Top, ks) \in [Keys -> Accounts]
  BY <1>3, <1>4 DEF Synced
<1>6. ASSUME NEW k \in Keys
      PROVE  Touched(Top, k, Synced(Top, ks)[k])
  <2>1. CASE k \notin ks
    BY <2>1 DEF Synced, Touched
  <2>2. CASE k \in ks
    <3>1. Synced(Top, ks)[k] = Top.view[k]
      BY <2>2 DEF Synced
    <3>2. Top.view[k] \in Accounts /\ accounts[k] \in Accounts
      BY <1>3, <1>4, <2>2
    <3>3. CanSync(Top, k)
      BY <2>2
    <3>4. k \in DOMAIN Top.priv
      BY <2>2
    <3>5. CASE Top.view[k] = accounts[k]
      BY <3>1, <3>5 DEF Touched
    <3>6. CASE Top.view[k] # accounts[k]
      <4>1. \/ Top.view[k].lamports # accounts[k].lamports
            \/ Top.view[k].data # accounts[k].data
            \/ Top.view[k].owner # accounts[k].owner
        BY <3>2, <3>6 DEF Accounts
      <4>2. Top.priv[k].writable
        BY <3>3, <4>1 DEF CanSync, CanSetLamports, CanChangeData, CanSetOwner
      <4>3. \/ accounts[k].owner = Top.program
            \/ /\ Top.view[k].owner = accounts[k].owner /\ Top.view[k].data = accounts[k].data
               /\ Top.view[k].lamports >= accounts[k].lamports
        BY <3>2, <3>3 DEF CanSync, CanSetLamports, CanChangeData, CanSetOwner, Accounts
      <4> QED
        BY <3>1, <3>4, <4>2, <4>3 DEF Touched
    <3> QED
      BY <3>5, <3>6
  <2> QED
    BY <2>1, <2>2
<1> QED
  BY <1>5, <1>6

(* What the System program stores.                                         *)
LEMMA SystemTouches ==
  ASSUME Types, Running, Top.program = System, NEW from \in Keys, SystemOwned(from)
  PROVE  /\ \A p \in Programs :
              LET a == [accounts EXCEPT ![from].owner = p]
              IN a \in [Keys -> Accounts] /\ \A k \in Keys : Touched(Top, k, a[k])
         /\ \A to \in Keys, n \in 1..MaxLamports :
              LET a == [[accounts EXCEPT ![from].lamports = @ - n] EXCEPT ![to].lamports = @ + n]
              IN (n <= accounts[from].lamports /\ to \in DOMAIN Top.priv /\ Top.priv[to].writable)
                 => a \in [Keys -> Accounts] /\ \A k \in Keys : Touched(Top, k, a[k])
<1>1. accounts \in [Keys -> Accounts]
  BY DEF Types
<1>2. ASSUME NEW p \in Programs
      PROVE  LET a == [accounts EXCEPT ![from].owner = p]
             IN a \in [Keys -> Accounts] /\ \A k \in Keys : Touched(Top, k, a[k])
  BY <1>1 DEF Accounts, Owners, Touched, SystemOwned
<1>3. ASSUME NEW to \in Keys, NEW n \in 1..MaxLamports, n <= accounts[from].lamports,
             to \in DOMAIN Top.priv, Top.priv[to].writable
      PROVE  LET a == [[accounts EXCEPT ![from].lamports = @ - n] EXCEPT ![to].lamports = @ + n]
             IN a \in [Keys -> Accounts] /\ \A k \in Keys : Touched(Top, k, a[k])
  <2> DEFINE b == [accounts EXCEPT ![from].lamports = @ - n]
             a == [b EXCEPT ![to].lamports = @ + n]
  <2>0. n \in Nat
    BY ProgramsAssumption
  <2>1. b \in [Keys -> Accounts]
    BY <1>1, <1>3, <2>0 DEF Accounts
  <2>2. a \in [Keys -> Accounts]
    BY <2>0, <2>1 DEF Accounts
  <2>3. Touched(Top, from, a[from])
    BY <2>1 DEF Touched, SystemOwned
  <2>4. to # from => Touched(Top, to, a[to])
    <3> HAVE to # from
    <3>1. b[to] = accounts[to] /\ accounts[to] \in Accounts
      BY <1>1
    <3>2. a[to] = [accounts[to] EXCEPT !.lamports = @ + n]
      BY <2>1, <3>1
    <3> HIDE DEF a
    <3> QED
      BY <1>3, <2>0, <3>1, <3>2 DEF Touched, Accounts
  <2>5. \A k \in Keys \ {from, to} : Touched(Top, k, a[k])
    BY <1>1, <2>1 DEF Touched
  <2> QED
    BY <2>2, <2>3, <2>4, <2>5
<1> QED
  BY <1>2, <1>3
-----------------------------------------------------------------------------
StableAt(i, a) ==
  stack[i + 1].program # stack[i].program =>
    \A k \in Keys :
      stack[i].atCall[k].owner = stack[i].program =>
        /\ a[k].owner = stack[i].atCall[k].owner /\ a[k].data = stack[i].atCall[k].data
        /\ a[k].lamports >= stack[i].atCall[k].lamports

FreshAt(i, a) ==
  \A k \in DOMAIN stack[i].view \ stack[i].written : stack[i].view[k] = a[k] \/ Handed(i, k)

(* What the waiting programs keep when the running one stores a.           *)
LEMMA WaitingKeep ==
  ASSUME IInv, stack # <<>>, NEW a \in [Keys -> Accounts], \A k \in Keys : Touched(Top, k, a[k])
  PROVE  /\ \A k \in Keys \ Writable : a[k] = loaded[k]
         /\ \A i \in 1..Len(stack) - 1 : StableAt(i, a) /\ FreshAt(i, a)
<1>1. Len(stack) \in 1..Len(stack) /\ Len(stack) \in Nat /\ Top = stack[Len(stack)]
  BY DEF IInv, Types, Top, Last
<1>2. \A k \in Keys \ Writable : a[k] = loaded[k]
  BY <1>1 DEF IInv, Nested, ReadonlyKept, Touched
<1>3. ASSUME NEW i \in 1..Len(stack) - 1
      PROVE  StableAt(i, a)
  <2>1. SUFFICES ASSUME stack[i + 1].program # stack[i].program, NEW k \in Keys,
                        stack[i].atCall[k].owner = stack[i].program
                 PROVE  /\ a[k].owner = stack[i].atCall[k].owner
                        /\ a[k].data = stack[i].atCall[k].data
                        /\ a[k].lamports >= stack[i].atCall[k].lamports
    BY DEF StableAt
  <2>2. i \in 1..Len(stack) /\ i < Len(stack)
    BY <1>1
  <2>3. Top.program # stack[i].program
    BY <1>1, <2>1, <2>2 DEF IInv, Nested
  <2>4. /\ accounts[k].owner = stack[i].atCall[k].owner
        /\ accounts[k].data = stack[i].atCall[k].data
        /\ accounts[k].lamports >= stack[i].atCall[k].lamports
    BY <1>1, <2>1 DEF IInv, OwnAccountsStable
  <2>5. Touched(Top, k, a[k])
    OBVIOUS
  <2>6. /\ a[k].owner = accounts[k].owner /\ a[k].data = accounts[k].data
        /\ a[k] = accounts[k] \/ a[k].lamports >= accounts[k].lamports
    BY <2>1, <2>3, <2>4, <2>5 DEF Touched
  <2>7. /\ a[k].lamports \in Nat /\ accounts[k].lamports \in Nat
        /\ stack[i].atCall[k].lamports \in Nat
    <3>1. stack[i] \in Frames /\ accounts \in [Keys -> Accounts]
      BY <2>2 DEF IInv, Types
    <3>2. a[k] \in Accounts /\ accounts[k] \in Accounts /\ stack[i].atCall[k] \in Accounts
      BY <3>1 DEF Frames
    <3> QED
      BY <3>2 DEF Accounts
  <2> QED
    BY <2>4, <2>6, <2>7
<1>4. ASSUME NEW i \in 1..Len(stack) - 1
      PROVE  FreshAt(i, a)
  <2>1. SUFFICES ASSUME NEW k \in DOMAIN stack[i].view \ stack[i].written, stack[i].view[k] # a[k]
                 PROVE  Handed(i, k)
    BY DEF FreshAt
  <2>2. i \in 1..Len(stack) /\ i < Len(stack) /\ i + 1 \in 1..Len(stack)
    BY <1>1
  <2>3. stack[i].view[k] = accounts[k] \/ Handed(i, k)
    BY <2>2 DEF IInv, Fresh
  <2>4. CASE stack[i].view[k] = accounts[k]
    <3>1. k \in Keys
      BY <2>2, FrameTypes DEF IInv, Types
    <3>2. k \in DOMAIN Top.priv /\ Top.priv[k].writable
      BY <2>1, <2>4, <3>1 DEF Touched
    <3>3. CASE i + 1 = Len(stack)
      BY <1>1, <3>2, <3>3 DEF Handed
    <3>4. CASE i + 1 < Len(stack)
      BY <1>1, <2>2, <3>2, <3>4 DEF Handed, IInv, Nested
    <3> QED
      BY <1>1, <2>2, <3>3, <3>4
  <2> QED
    BY <2>3, <2>4
<1> QED
  BY <1>2, <1>3, <1>4

(* The invariant of a stack whose frames are known one by one.             *)
LEMMA FrontOfStack ==
  ASSUME Types, stack # <<>>
  PROVE  /\ Front(stack) \in Seq(Frames) /\ Len(Front(stack)) = Len(stack) - 1
         /\ \A i \in 1..Len(stack) - 1 : Front(stack)[i] = stack[i]
<1>1. stack \in Seq(Frames)
  BY DEF Types
<1>2. Front(stack) = [i \in 1..Len(stack) - 1 |-> stack[i]]
  BY <1>1 DEF Front
<1> QED
  BY <1>1, <1>2

(* The sequence of frames after an invocation.                             *)
LEMMA PushedStack ==
  ASSUME NEW lower \in Seq(Frames), NEW c \in Frames, NEW f \in Frames
  PROVE  LET s == Append(Append(lower, c), f)
         IN /\ s \in Seq(Frames) /\ Len(s) = Len(lower) + 2
            /\ \A i \in 1..Len(lower) : s[i] = lower[i]
            /\ s[Len(lower) + 1] = c /\ s[Len(lower) + 2] = f
OBVIOUS

LEMMA NewFrameType ==
  ASSUME NEW p \in Owners, NEW ks \in SUBSET Keys, NEW priv \in [ks -> Privileges],
         NEW a \in [Keys -> Accounts]
  PROVE  /\ NewFrame(p, priv, a) \in Frames
         /\ NewFrame(p, priv, a).program = p /\ NewFrame(p, priv, a).priv = priv
         /\ NewFrame(p, priv, a).written = {} /\ DOMAIN NewFrame(p, priv, a).view = ks
         /\ \A k \in ks : NewFrame(p, priv, a).view[k] = a[k]
<1>1. DOMAIN priv = ks
  OBVIOUS
<1>2. LamportSum(a, ks) \in Sums
  BY DEF Sums
<1>3. priv \in PrivSets
  BY DEF PrivSets
<1>4. [k \in ks |-> a[k]] \in Views
  <2>1. [k \in ks |-> a[k]] \in [ks -> Accounts]
    OBVIOUS
  <2> QED
    BY <2>1 DEF Views
<1> QED
  BY <1>1, <1>2, <1>3, <1>4 DEF NewFrame, Frames

-----------------------------------------------------------------------------
LEMMA InvokePreserves ==
  ASSUME IInv, NEW p \in Owners, NEW D \in SUBSET DOMAIN Top.priv, NEW priv \in [D -> Flags],
         Invoke(p, priv)
  PROVE  IInv'
<1> DEFINE n == Len(stack)
           a == Synced(Top, D)
           c == [Top EXCEPT !.written = @ \ D, !.atCall = a]
           f == NewFrame(p, priv, a)
<1>1. /\ OnChain /\ stack # <<>> /\ DOMAIN priv = D
      /\ NoEscalation(priv) /\ ~Reentrant(p)
      /\ \A k \in D : CanSync(Top, k)
      /\ accounts' = a /\ loaded' = loaded
      /\ stack' = Append(Append(Front(stack), c), f)
  BY DEF Invoke, Push, OnChain, Running
<1>2. n \in Nat /\ n \in 1..n /\ Top = stack[n] /\ Types
  BY <1>1 DEF IInv, Types, Top, Last
<1>3. /\ Top \in Frames /\ DOMAIN Top.priv \in SUBSET Keys /\ DOMAIN Top.view = DOMAIN Top.priv
      /\ Top.priv \in [DOMAIN Top.priv -> Privileges] /\ Top.view \in [DOMAIN Top.priv -> Accounts]
  BY <1>2, FrameTypes
<1>4. a \in [Keys -> Accounts] /\ \A k \in Keys : Touched(Top, k, a[k])
  BY <1>1, <1>2, SyncTouches
<1>5. D \in SUBSET Keys /\ priv \in [D -> Privileges]
  BY <1>3, MessageAssumption
<1>6. /\ f \in Frames /\ f.program = p /\ f.priv = priv /\ f.written = {}
      /\ DOMAIN f.view = D /\ \A k \in D : f.view[k] = a[k]
  <2> HIDE DEF a
  <2>1. f \in Frames
    <3>1. LamportSum(a, D) \in Sums
      BY <1>4, <1>5 DEF Sums
    <3>2. priv \in PrivSets
      BY <1>5 DEF PrivSets
    <3>3. [k \in D |-> a[k]] \in Views
      BY <1>4, <1>5 DEF Views
    <3> QED
      BY <1>1, <1>4, <3>1, <3>2, <3>3 DEF NewFrame, Frames
  <2>2. /\ f.program = p /\ f.priv = priv /\ f.written = {}
        /\ DOMAIN f.view = D /\ \A k \in D : f.view[k] = a[k]
    BY <1>1 DEF NewFrame
  <2> QED
    BY <2>1, <2>2
<1>7. /\ c \in Frames /\ c.program = Top.program /\ c.priv = Top.priv /\ c.view = Top.view
      /\ c.written = Top.written \ D /\ c.atCall = a
  BY <1>3, <1>4 DEF Frames
<1> HIDE DEF a, c, f
<1>8. /\ stack' \in Seq(Frames) /\ Len(stack') = n + 1
      /\ \A i \in 1..n - 1 : stack'[i] = stack[i]
      /\ stack'[n] = c /\ stack'[n + 1] = f
  <2>1. Front(stack) \in Seq(Frames) /\ Len(Front(stack)) = n - 1
        /\ \A i \in 1..n - 1 : Front(stack)[i] = stack[i]
    BY <1>1, <1>2, FrontOfStack
  <2> QED
    BY <1>1, <1>2, <1>6, <1>7, <2>1, PushedStack
<1>9. Types'
  <2>1. \A i \in 1..n - 1 : DOMAIN stack'[i].view = DOMAIN stack'[i].priv
    <3>1. \A i \in 1..n - 1 : i \in 1..n /\ stack'[i] = stack[i]
      BY <1>2, <1>8
    <3>2. \A i \in 1..n : DOMAIN stack[i].view = DOMAIN stack[i].priv
      BY <1>2 DEF Types
    <3> QED
      BY <3>1, <3>2, Zenon
  <2>2. DOMAIN stack'[n].view = DOMAIN stack'[n].priv
    BY <1>3, <1>7, <1>8
  <2>3. DOMAIN stack'[n + 1].view = DOMAIN stack'[n + 1].priv
    BY <1>5, <1>6, <1>8
  <2>4. \A i \in 1..n + 1 : DOMAIN stack'[i].view = DOMAIN stack'[i].priv
    BY <1>2, <2>1, <2>2, <2>3
  <2> QED
    BY <1>1, <1>2, <1>4, <1>8, <2>4 DEF Types
<1>10. Nested'
  <2>1. \A i \in 1..n : stack'[i].program = stack[i].program /\ stack'[i].priv = stack[i].priv
    BY <1>2, <1>7, <1>8
  <2>2. \A k \in D : k \in DOMAIN Top.priv /\ (priv[k].writable => Top.priv[k].writable)
    BY <1>1 DEF NoEscalation
  <2>3. \A i \in 1..n : stack[i].program = p => Top.program = p
    BY <1>1, <1>2 DEF Reentrant, IInv, Types
  <2>4. Top.program \in Programs
    BY <1>1 DEF OnChain
  <2>5. \A i \in 1..n + 1 : \A k \in DOMAIN stack'[i].priv : stack'[i].priv[k].writable => k \in Writable
    <3>1. \A i \in 1..n : \A k \in DOMAIN stack[i].priv : stack[i].priv[k].writable => k \in Writable
      BY DEF IInv, Nested
    <3>2. \A k \in D : priv[k].writable => k \in Writable
      BY <1>2, <2>2, <3>1
    <3> QED
      BY <1>2, <1>5, <1>6, <1>8, <2>1, <3>1, <3>2
  <2>6. ASSUME NEW i \in 1..n + 1, NEW j \in 1..n + 1, i < j
        PROVE  /\ stack'[i].program \in Programs
               /\ DOMAIN stack'[j].priv \subseteq DOMAIN stack'[i].priv
               /\ \A k \in DOMAIN stack'[j].priv : stack'[j].priv[k].writable => stack'[i].priv[k].writable
               /\ stack'[j].program = stack'[i].program => stack'[i + 1].program = stack'[i].program
    <3>1. CASE j <= n
      <4>1. i \in 1..n /\ j \in 1..n /\ i + 1 \in 1..n
        BY <1>2, <2>6, <3>1
      <4> QED
        BY <2>1, <2>6, <4>1 DEF IInv, Nested
    <3>2. CASE j = n + 1 /\ i = n
      BY <1>2, <1>5, <1>6, <1>7, <1>8, <2>2, <2>4, <3>2
    <3>3. CASE j = n + 1 /\ i < n
      <4>1. i \in 1..n /\ i + 1 \in 1..n /\ i < n
        BY <1>2, <3>3
      <4>2. /\ stack[i].program \in Programs
            /\ DOMAIN Top.priv \subseteq DOMAIN stack[i].priv
            /\ \A k \in DOMAIN Top.priv : Top.priv[k].writable => stack[i].priv[k].writable
            /\ Top.program = stack[i].program => stack[i + 1].program = stack[i].program
        BY <1>2, <4>1 DEF IInv, Nested
      <4>3. stack'[j] = f /\ f.program = p /\ f.priv = priv /\ DOMAIN priv = D
        BY <1>1, <1>6, <1>8, <3>3
      <4> QED
        BY <2>1, <2>2, <2>3, <4>1, <4>2, <4>3
    <3> QED
      BY <1>2, <2>6, <3>1, <3>2, <3>3
  <2> QED
    BY <1>8, <2>5, <2>6 DEF Nested
<1>11. /\ \A k \in Keys \ Writable : a[k] = loaded[k]
       /\ \A i \in 1..n - 1 : StableAt(i, a) /\ FreshAt(i, a)
  BY <1>1, <1>4, WaitingKeep
<1>12. Fresh'
  <2>1. ASSUME NEW i \in 1..n + 1, NEW k \in DOMAIN stack'[i].view \ stack'[i].written
        PROVE  stack'[i].view[k] = a[k] \/ (i < n + 1 /\ Handed(i, k)')
    <3>1. CASE i = n + 1
      BY <1>6, <1>8, <2>1, <3>1
    <3>2. CASE i = n
      <4>1. k \in DOMAIN Top.view /\ k \notin Top.written \ D /\ stack'[i].view[k] = Top.view[k]
        BY <1>7, <1>8, <2>1, <3>2
      <4>2. k \in D => a[k] = Top.view[k]
        BY <1>3, <4>1 DEF a, Synced
      <4>3. k \notin D => a[k] = accounts[k]
        BY <1>3, <4>1 DEF a, Synced
      <4>4. k \notin D => Top.view[k] = accounts[k]
        BY <1>2, <4>1 DEF IInv, Fresh
      <4> QED
        BY <4>1, <4>2, <4>3, <4>4
    <3>3. CASE i < n
      <4>1. i \in 1..n - 1 /\ i + 1 \in 1..n
        BY <1>2, <3>3
      <4>2. stack'[i] = stack[i] /\ stack'[i + 1].priv = stack[i + 1].priv
        BY <1>2, <1>7, <1>8, <4>1
      <4>3. FreshAt(i, a)
        BY <1>11, <4>1
      <4> QED
        BY <1>2, <2>1, <3>3, <4>2, <4>3 DEF FreshAt, Handed
    <3> QED
      BY <1>2, <3>1, <3>2, <3>3
  <2> QED
    BY <1>1, <1>8, <2>1 DEF Fresh
<1>13. ReadonlyKept'
  BY <1>1, <1>11 DEF ReadonlyKept
<1>14. OwnAccountsStable'
  <2>1. SUFFICES ASSUME NEW i \in 1..n, stack'[i + 1].program # stack'[i].program, NEW k \in Keys,
                        stack'[i].atCall[k].owner = stack'[i].program
                 PROVE  /\ a[k].owner = stack'[i].atCall[k].owner
                        /\ a[k].data = stack'[i].atCall[k].data
                        /\ a[k].lamports >= stack'[i].atCall[k].lamports
    <3>1. 1..Len(stack') - 1 = 1..n
      BY <1>2, <1>8
    <3>2. accounts' = a
      BY <1>1
    <3> QED
      BY <3>1, <3>2, Zenon DEF OwnAccountsStable
  <2>2. CASE i = n
    <3>1. stack'[i].atCall[k] = a[k] /\ a[k].lamports \in Nat
      BY <1>4, <1>7, <1>8, <2>2 DEF Accounts
    <3> QED
      BY <3>1
  <2>3. CASE i < n
    <3>1. i \in 1..n - 1 /\ i + 1 \in 1..n
      BY <1>2, <2>3
    <3>2. stack'[i] = stack[i] /\ stack'[i + 1].program = stack[i + 1].program
      BY <1>2, <1>7, <1>8, <3>1
    <3> QED
      BY <1>11, <2>1, <3>1, <3>2 DEF StableAt
  <2> QED
    BY <1>2, <2>2, <2>3
<1> QED
  BY <1>9, <1>10, <1>12, <1>13, <1>14 DEF IInv

=============================================================================
