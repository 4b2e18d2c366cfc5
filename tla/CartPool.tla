------------------------------ MODULE CartPool ------------------------------
(***************************************************************************)
(* The requests of Cart behind the pool of database connections            *)
(* (DatabaseService, TransactionService.runTransaction).                   *)
(*                                                                         *)
(* A statement outside a transaction takes a connection, waits for its row *)
(* locks while it holds it, and gives it back; clearCart's DELETE is such  *)
(* a statement.  A transaction takes a connection when it begins and gives *)
(* it back when it ends.  The callback of shareCart calls getOwnCart       *)
(* without passing on its transaction, so the statements of getOwnCart     *)
(* take a second connection there.                                         *)
(*                                                                         *)
(* No other component opens a transaction of its own: its requests hold a  *)
(* connection for one statement, as those here do, and are left out.  A    *)
(* request that dies, which Cart has, gives its connections back, and is   *)
(* left out too: it can only help the others.                              *)
(***************************************************************************)
EXTENDS Cart, Functions

CONSTANT
  PoolSizes     \* the sizes a pool may have; pg's default is ten

ASSUME PoolAssumption == PoolSizes \subseteq Nat \ {0}

VARIABLES
  poolSize,     \* connections of the pool; it never changes
  connections   \* how many of them each request holds

poolVars == <<vars, poolSize, connections>>

PoolInit ==
  /\ Init
  /\ poolSize \in PoolSizes
  /\ connections = [p \in Proc |-> 0]

FreeConnections == poolSize - SumFunction(connections)

\* getOwnCart, called by the callback of shareCart.
InGetOwnCart(r) == r.op = "shareCart" /\ r.pc \in {"findOwnCart", "createCart"}

\* What a request does between BEGIN and COMMIT.
InTransaction(r) ==
  \/ InGetOwnCart(r)
  \/ r.pc \in {"writeItem", "updateShare", "deleteShares", "createShares",
               "findCartItems", "deleteCartItems", "lockItems", "commitCheckout"}

\* Mutant: checkoutCart reads its items without passing on its transaction.
CheckoutReadsOutside(r) ==
  IF InGetOwnCart(r) \/ r.pc = "findCartItems" THEN 2 ELSE 1

\* Mutant: addItem marks its share without passing on its transaction.
AddItemMarksOutside(r) ==
  IF InGetOwnCart(r) \/ r.pc = "updateShare" THEN 2 ELSE 1

\* The connections a request must hold to run its next statement.
Needed(r) == IF InGetOwnCart(r) THEN 2 ELSE 1

Waits(p) == req[p].pc # "idle" /\ connections[p] < Needed(req[p])

Connect(p) ==
  /\ Waits(p)
  /\ FreeConnections > 0
  /\ connections' = [connections EXCEPT ![p] = @ + 1]
  /\ UNCHANGED <<vars, poolSize>>

\* After a step only an open transaction keeps its connection, and clearCart's
\* DELETE until it is done.
KeepsConnection(r, next) ==
  \/ InTransaction(r) /\ InTransaction(next)
  \/ next.pc = "lockCleared"

Release(p) ==
  /\ connections' = [connections EXCEPT ![p] =
                       IF KeepsConnection(req[p], req'[p]) THEN 1 ELSE 0]
  /\ UNCHANGED poolSize

PoolStart(p) ==
  /\ Start(p)
  /\ UNCHANGED <<poolSize, connections>>

Run(p) ==
  /\ ~Waits(p)
  /\ Step(p)
  /\ Release(p)

\* PostgreSQL's deadlock detector ends a transaction.
BreakCircle(p) ==
  /\ ~Waits(p)
  /\ Deadlocked(p)
  /\ Release(p)

\* Prisma refuses a transaction that has waited two seconds to begin, and ends one
\* that has been open for the timeout of runTransaction, almost three hours.
\* The rest of its callback, which may still create the owner's cart, is not followed.
TimeOut(p) ==
  /\ Waits(p)
  /\ InTransaction(req[p])
  /\ Return(p)
  /\ Release(p)

PoolNext ==
  \/ \E p \in Proc :
       PoolStart(p) \/ Connect(p) \/ Run(p) \/ BreakCircle(p) \/ TimeOut(p)
  \/ Quiescent /\ UNCHANGED <<poolSize, connections>>

PoolSpec == PoolInit /\ [][PoolNext]_poolVars

\* PostgreSQL runs every statement that has its connection and waits for no
\* lock, and ends one of the requests that wait in a circle.  The pool serves
\* requests in the order they asked, so none is passed over for ever.
PoolFairness ==
  \A p \in Proc : /\ WF_poolVars(Run(p))
                  /\ WF_poolVars(BreakCircle(p))
                  /\ SF_poolVars(Connect(p))
PoolFairSpec == PoolSpec /\ PoolFairness
-----------------------------------------------------------------------------
\* The row locks of a request, which last until its transaction ends.
HoldsLocks(r) ==
  \/ r.lockedRows # {} \/ r.lockedShares # {} \/ r.inserted # {}
  \/ r.pc = "updateShare"

\* No request waits for a connection while it holds row locks: getOwnCart is the
\* only thing a transaction does on another connection, and shareCart calls it
\* before it deletes a share.  Else a request that has a connection and waits for
\* the lock could wait for one that waits for the connection.
WaitersHoldNoLocks == \A p \in Proc : Waits(p) => ~HoldsLocks(req[p])

\* Every connection is held by a shareCart that waits in getOwnCart for another.
Exhausted ==
  /\ ~(FreeConnections > 0)
  /\ \A p \in Proc :
       connections[p] > 0 => Waits(p) /\ req[p].op = "shareCart"

\* Neither locks nor connections nor both together stop all requests: one in
\* progress can take the connection it waits for, or has it and waits for no
\* lock, or some that have theirs wait for one another inside statements that
\* write several rows, and PostgreSQL ends one of those.
CanGoOn(p) ==
  /\ req[p].pc # "idle"
  /\ IF Waits(p) THEN FreeConnections > 0
                 ELSE \A q \in Proc : ~WaitsFor(p, q)

SomeoneCanGoOn ==
  (\E p \in Proc : req[p].pc # "idle") /\ ~Exhausted =>
    \/ \E p \in Proc : CanGoOn(p)
    \/ \E S \in SUBSET Proc :
         Stuck(S) /\ OfOneKind(S) /\ \A p \in S : ~Waits(p)

\* Every request is answered, whatever row locks and connections the others
\* hold, except behind as many shareCarts as the pool has connections: those
\* wait for one another.  In a pool with more connections than there are requests
\* that is no exception.
EveryRequestAnswered ==
  \A p \in Proc : req[p].pc # "idle" ~> (req[p].pc = "idle" \/ Exhausted)
=============================================================================
