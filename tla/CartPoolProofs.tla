--------------------------- MODULE CartPoolProofs ---------------------------
(***************************************************************************)
(* Theorems about CartPool, for every set of users, menu items and         *)
(* processes.                                                              *)
(***************************************************************************)
EXTENDS CartPool, CartProofs

\* The labels at which a request may hold row locks: all are in a transaction or
\* in clearCart's DELETE.
LockLabels == {"updateShare", "createShares", "lockItems", "commitCheckout", "lockCleared"}

\* Who has locks has a connection; a request that is idle has none.
ConnectionsOK ==
  \A p \in Proc :
    /\ req[p].pc \in LockLabels => connections[p] = 1
    /\ req[p].pc = "idle" => connections[p] = 0

PoolInv ==
  /\ LockInv
  /\ connections \in [Proc -> Nat]
  /\ ConnectionsOK

\* An item that is found is looked at for access next.
LEMMA FindItemMoves ==
  ASSUME TypeInv, NEW p \in Proc, FindItem(p), ~Return(p)
  PROVE  req'[p].pc = "access"
<1>1. PICK x \in ItemWithId(req[p].itemId) :
        req' = [req EXCEPT ![p].cart = x.cart, ![p].pc = "access"]
  BY DEF FindItem
<1> QED BY <1>1 DEF TypeInv, TypeOK, Request

\* A label with locks is reached with the connection that is held before.
LEMMA LockLabelsReached ==
  ASSUME TypeInv, NEW p \in Proc, Step(p), req'[p].pc \in LockLabels
  PROVE  KeepsConnection(req[p], req'[p])
<1> USE DEF LockLabels
<1>1. req \in [Proc -> Request] /\ ~Finish(p) /\ ~Return(p)
  BY FinishLocks DEF TypeInv, TypeOK, Return
<1>2. Continue[req[p].op] \notin LockLabels
  BY InProgress DEF Continue, OperationNames
<1>3. ~(FindOwnCart(p) \/ CreateCart(p) \/ GetCartAccess(p))
  BY <1>1, <1>2 DEF FindOwnCart, CreateCart, GetCartAccess, UseOwnCart, Goto, Request
<1>4. ~(FindExistingItem(p) \/ FindItem(p) \/ FindShare(p) \/ FindCartItems(p)
        \/ InsertOrder(p) \/ ClearAccess(p))
  BY <1>1, FindItemMoves DEF FindExistingItem, FindShare, FindCartItems, InsertOrder,
     ClearAccess, Goto, Request
<1>5. ~(UpdateShare(p) \/ UpdateItem(p) \/ DeleteItem(p) \/ ListItems(p)
        \/ CommitShares(p) \/ DeleteShare(p) \/ CommitCheckout(p) \/ CommitClear(p))
  BY <1>1 DEF UpdateShare, UpdateItem, DeleteItem, ListItems, CommitShares, DeleteShare,
     CommitCheckout, CommitClear
<1>6. CASE WriteItem(p) \/ DeleteShares(p) \/ DeleteCartItems(p) \/ DeleteCartShares(p)
  <2>1. req'[p].pc \in {"updateShare", "createShares", "lockItems", "commitCheckout"}
    BY <1>1, <1>6
       DEF WriteItem, DeleteShares, DeleteCartItems, DeleteCartShares, Goto, Request
  <2> QED
    BY <1>6, <2>1
       DEF WriteItem, DeleteShares, DeleteCartItems, DeleteCartShares, InTransaction,
           KeepsConnection
<1>7. CASE LockItem(p) \/ LockShare(p) \/ CreateShare(p)
  BY <1>7, RowByRow DEF InTransaction, KeepsConnection
<1>8. CASE ClearItems(p)
  BY <1>1, <1>8 DEF ClearItems, Request, KeepsConnection
<1> QED
  BY <1>3, <1>4, <1>5, <1>6, <1>7, <1>8 DEF Step

\* The types of Cart hold behind the pool: a step of the pool is one of Cart, or
\* ends a request, or leaves tables and requests alone.
LEMMA PoolTypes ==
  ASSUME TypeInv, [PoolNext]_poolVars
  PROVE  TypeInv'
<1>1. CASE UNCHANGED vars
  BY <1>1, NextType
<1>2. ASSUME NEW p \in Proc, Start(p) \/ Step(p)
      PROVE  TypeInv'
  BY <1>2, NextType DEF Next
<1>3. ASSUME NEW p \in Proc, TimeOut(p) \/ BreakCircle(p)
      PROVE  TypeInv'
  BY <1>3, ReturnType DEF TimeOut, BreakCircle, Deadlocked
<1> QED
  BY <1>1, <1>2, <1>3
     DEF PoolNext, poolVars, PoolStart, Connect, Run, Quiescent

\* A statement that does not end a request leaves it in progress.
LEMMA StaysInProgress ==
  ASSUME TypeInv, NEW p \in Proc, Step(p), ~Finish(p)
  PROVE  req'[p].pc # "idle"
<1>1. req \in [Proc -> Request] /\ ~Return(p)
  BY DEF TypeInv, TypeOK, Return
<1>2. Continue[req[p].op] # "idle"
  BY InProgress DEF Continue, OperationNames
<1>3. CASE \/ FindOwnCart(p) \/ CreateCart(p) \/ GetCartAccess(p)
           \/ FindExistingItem(p) \/ FindItem(p)
  BY <1>1, <1>2, <1>3, FindItemMoves
     DEF FindOwnCart, CreateCart, GetCartAccess, FindExistingItem, UseOwnCart, Goto, Request
<1>4. CASE \/ WriteItem(p) \/ DeleteShares(p) \/ FindShare(p) \/ FindCartItems(p)
           \/ DeleteCartItems(p) \/ DeleteCartShares(p) \/ InsertOrder(p)
           \/ ClearAccess(p) \/ ClearItems(p)
  BY <1>1, <1>4
     DEF WriteItem, DeleteShares, FindShare, FindCartItems, DeleteCartItems,
         DeleteCartShares, InsertOrder, ClearAccess, ClearItems, Goto, Request
<1>5. ~(UpdateShare(p) \/ UpdateItem(p) \/ DeleteItem(p) \/ ListItems(p)
        \/ CommitShares(p) \/ DeleteShare(p) \/ CommitCheckout(p) \/ CommitClear(p))
  BY <1>1 DEF UpdateShare, UpdateItem, DeleteItem, ListItems, CommitShares, DeleteShare,
     CommitCheckout, CommitClear
<1>6. CASE LockItem(p) \/ LockShare(p) \/ CreateShare(p)
  BY <1>6, RowByRow
<1> QED BY <1>3, <1>4, <1>5, <1>6 DEF Step

\* PoolInv is inductive.
LEMMA PoolStep ==
  ASSUME PoolInv, [PoolNext]_poolVars
  PROVE  PoolInv'
<1>1. TypeInv /\ TypeInv' /\ req \in [Proc -> Request]
  BY PoolTypes DEF PoolInv, LockInv, TypeInv, TypeOK
<1>2. CASE UNCHANGED poolVars
  BY <1>1, <1>2 DEF poolVars, vars, PoolInv, LockInv, LocksOK, ConnectionsOK
<1>3. ASSUME NEW p \in Proc, PoolStart(p) \/ Run(p) \/ BreakCircle(p) \/ TimeOut(p)
      PROVE  PoolInv'
  <2>0. (BreakCircle(p) \/ TimeOut(p)) => Return(p)
    BY DEF BreakCircle, Deadlocked, TimeOut
  <2>1. \A q \in Proc \ {p} : req'[q] = req[q] /\ connections'[q] = connections[q]
    BY <1>1, <1>3, <2>0, OthersWait
       DEF PoolInv, PoolStart, Run, BreakCircle, TimeOut, Acts, Release, Return, Finish
  <2>2. connections' \in [Proc -> Nat]
    BY <1>3 DEF PoolInv, PoolStart, Run, BreakCircle, TimeOut, Release
  <2>3. LocksOK(req'[p])
    BY <1>1, <1>3, <2>0, StartLocks, FinishLocks, StepLocks
       DEF PoolInv, LockInv, PoolStart, Run, Return
  <2>4. CASE PoolStart(p)
    <3>1. req'[p].pc \in Unchecked /\ connections'[p] = 0
      <4>1. req[p].pc = "idle"
        BY <2>4 DEF PoolStart, Start, StartAddItem, StartUpdateItemQuantity,
           StartDeleteItem, StartGetCartItems, StartShareCart, StartRemoveSharedUser,
           StartCheckoutCart, StartCreateOrder, Begin
      <4> QED BY <1>1, <2>4, <4>1, StartLocks DEF PoolStart, PoolInv, ConnectionsOK
    <3> QED
      BY <1>1, <2>1, <2>2, <2>3, <3>1
         DEF PoolInv, LockInv, LocksOK, ConnectionsOK, LockLabels, Unchecked
  <2>5. CASE Run(p) \/ BreakCircle(p) \/ TimeOut(p)
    <3>1. Release(p)
      BY <2>5 DEF Run, BreakCircle, TimeOut
    <3>2. req'[p].pc \in LockLabels => connections'[p] = 1
      <4> SUFFICES ASSUME req'[p].pc \in LockLabels
                   PROVE  connections'[p] = 1
        OBVIOUS
      <4>1. Run(p)
        BY <1>1, <2>0, <2>5, FinishLocks DEF Return, LockLabels
      <4> QED BY <1>1, <3>1, <4>1, LockLabelsReached DEF Run, Release, PoolInv
    <3>3. req'[p].pc = "idle" => connections'[p] = 0
      <4>1. req'[p] = Idle \/ req'[p].pc # "idle"
        <5>1. CASE Finish(p)
          BY <1>1, <5>1 DEF Finish
        <5>2. CASE Run(p) /\ ~Finish(p)
          BY <1>1, <5>2, StaysInProgress DEF Run
        <5> QED BY <2>0, <2>5, <5>1, <5>2 DEF Return
      <4> QED
        BY <3>1, <4>1
           DEF Release, PoolInv, KeepsConnection, InTransaction, InGetOwnCart, Idle
    <3> QED
      BY <1>1, <2>1, <2>2, <2>3, <3>2, <3>3
         DEF PoolInv, LockInv, LocksOK, ConnectionsOK
  <2> QED BY <1>3, <2>4, <2>5
<1>4. ASSUME NEW p \in Proc, Connect(p) PROVE PoolInv'
  <2>1. req' = req
    BY <1>4 DEF Connect, vars
  <2>2. connections' \in [Proc -> Nat]
    BY <1>4 DEF Connect, PoolInv
  <2>3. req[p].pc \notin LockLabels \cup {"idle"}
    BY <1>4 DEF Connect, Waits, Needed, InGetOwnCart, PoolInv, ConnectionsOK, LockLabels
  <2> QED
    BY <1>1, <1>4, <2>1, <2>2, <2>3 DEF Connect, PoolInv, LockInv, LocksOK, ConnectionsOK
<1>5. CASE Quiescent /\ UNCHANGED <<poolSize, connections>>
  BY <1>2, <1>5 DEF Quiescent, poolVars
<1> QED
  BY <1>2, <1>3, <1>4, <1>5 DEF PoolNext

\* Behind the pool, PoolInv always holds.
LEMMA PoolInvariant == PoolSpec => []PoolInv
<1>1. PoolInit => PoolInv
  BY InitType DEF PoolInit, PoolInv, Init, LockInv, LocksOK, ConnectionsOK, Idle, LockLabels
<1> QED
  BY <1>1, PoolStep, PTL DEF PoolSpec

\* Who waits for a connection is at a label without locks.
LEMMA WaitersAreUnlocked ==
  ASSUME PoolInv, NEW p \in Proc, HoldsLocks(req[p])
  PROVE  req[p].pc \in LockLabels /\ ~Waits(p)
  BY DEF PoolInv, LockInv, LocksOK, ConnectionsOK, Waits, HoldsLocks, Needed,
     InGetOwnCart, LockLabels

\* A request that waits for a connection of the pool holds no row lock, whatever
\* the number of connections and requests.
THEOREM NoLocksWhileWaiting == PoolSpec => []WaitersHoldNoLocks
<1>1. PoolInv => WaitersHoldNoLocks
  BY WaitersAreUnlocked DEF WaitersHoldNoLocks
<1> QED
  BY <1>1, PoolInvariant, PTL

\* Requests do not stop one another: who holds a lock has his connections, so if
\* all that have theirs wait for locks, some wait for one another in a circle of
\* one kind (CircleInside).  If none has his connections, and none is free, only
\* shareCarts hold any.
LEMMA GoingOn == PoolInv => SomeoneCanGoOn
<1> SUFFICES ASSUME PoolInv, ~Exhausted, NEW p \in Proc, req[p].pc # "idle",
                    \A q \in Proc : ~CanGoOn(q)
             PROVE  \E S \in SUBSET Proc :
                      Stuck(S) /\ OfOneKind(S) /\ \A q \in S : ~Waits(q)
  BY DEF SomeoneCanGoOn
<1> DEFINE S == {q \in Proc : req[q].pc # "idle" /\ ~Waits(q)}
<1>1. CASE S # {}
  <2>1. \A q, r \in Proc : WaitsFor(q, r) => HoldsLocks(req[r])
    BY DEF WaitsFor, HoldsRow, HoldsKey, HoldsShare, HoldsShareKey, HoldsLocks
  <2>2. \A r \in Proc : HoldsLocks(req[r]) => r \in S
    BY WaitersAreUnlocked DEF LockLabels
  <2>3. \A q \in S : \E r \in S : WaitsFor(q, r)
    BY <2>1, <2>2 DEF CanGoOn
  <2>4. S \in SUBSET Proc /\ \A q \in S : ~Waits(q)
    OBVIOUS
  <2> HIDE DEF S
  <2>5. PICK T \in SUBSET S : Stuck(T) /\ OfOneKind(T)
    BY <1>1, <2>3, <2>4, CircleInside DEF PoolInv, LockInv, Stuck
  <2> QED BY <2>4, <2>5
<1>2. CASE S = {} /\ FreeConnections > 0
  BY <1>2 DEF CanGoOn
<1>3. CASE S = {} /\ ~(FreeConnections > 0)
  <2>1. ASSUME NEW q \in Proc, connections[q] > 0
        PROVE  Waits(q) /\ req[q].op = "shareCart"
    <3>1. connections[q] \in Nat /\ req[q].pc # "idle"
      BY <2>1 DEF PoolInv, ConnectionsOK
    <3>2. Waits(q)
      BY <1>3, <3>1
    <3> QED BY <2>1, <3>1, <3>2 DEF Waits, Needed, InGetOwnCart
  <2> QED BY <1>3, <2>1 DEF Exhausted
<1> QED BY <1>1, <1>2, <1>3

\* Row locks and connections together never stop everybody, save for the
\* shareCarts that use up the pool and for circles inside statements that write
\* several rows, whose requests all have their connections.
THEOREM SomeoneGoesOn == PoolSpec => []SomeoneCanGoOn
  BY PoolInvariant, GoingOn, PTL

\* The pool only holds requests up: what they do is what Cart says, with a
\* transaction that times out as one of its failures.  So whatever is proved of
\* Cart with faults holds behind the pool.
THEOREM PoolIsCart == Faults => (PoolSpec => Spec)
<1> SUFFICES ASSUME Faults
             PROVE  PoolSpec => Spec
  OBVIOUS
<1>1. PoolInit => Init
  BY DEF PoolInit
<1>2. ASSUME [PoolNext]_poolVars
      PROVE  [Next]_vars
  <2>1. CASE UNCHANGED vars
    BY <2>1
  <2>2. ASSUME NEW p \in Proc, PoolStart(p) \/ Run(p) \/ BreakCircle(p) \/ TimeOut(p)
        PROVE  Next
    BY <1>2, <2>2 DEF PoolStart, Run, BreakCircle, TimeOut, Waits, Fail, Next
  <2> QED BY <1>2, <2>1, <2>2 DEF PoolNext, poolVars, Connect, Quiescent
<1> QED BY <1>1, <1>2, PTL DEF PoolSpec, Spec
=============================================================================
