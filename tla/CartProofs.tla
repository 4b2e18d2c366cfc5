----------------------------- MODULE CartProofs -----------------------------
(***************************************************************************)
(* Theorems about Cart, for every set of users, menu items and processes.  *)
(***************************************************************************)
EXTENDS Cart, FiniteSetTheorems, TLAPS

\* What the arguments of a request in progress are, by its program counter.
ArgumentsOK ==
  \A p \in Proc :
    /\ req[p].pc # "idle" => /\ req[p].user \in User
                             /\ req[p].op \in OperationNames
    /\ req[p].pc \notin Unchecked => req[p].cart \in User
    /\ req[p].op \in {"addItem", "createOrder"} => req[p].menuItem \in MenuItem
    /\ req[p].pc \in {"findExistingItem", "writeItem", "updateShare"}
         => req[p].op = "addItem"
    /\ req[p].pc \in {"insertOrder", "clearAccess", "clearItems", "lockCleared"}
         => req[p].op = "createOrder"
    /\ req[p].pc \in {"findCartItems", "deleteCartItems", "lockItems",
                        "commitCheckout"}
         => req[p].op = "checkoutCart"

TypeInv == TypeOK /\ ArgumentsOK

\* An idle process has a request record too.
LEMMA IdleType == Idle \in Request
  BY DEF Idle, Request, PC

\* A request that ends leaves an idle process.
LEMMA FinishType ==
  ASSUME TypeInv, NEW p \in Proc, Finish(p)
  PROVE  req' \in [Proc -> Request] /\ ArgumentsOK'
  BY IdleType, CartAssumption
     DEF TypeInv, TypeOK, ArgumentsOK, Finish, Idle, Unchecked, OperationNames

\* A request that starts has arguments of the right types.
LEMMA StartType ==
  ASSUME TypeInv, NEW p \in Proc, Start(p)
  PROVE  TypeInv'
<1>1. ASSUME NEW r, r \in Request, Begin(p, r),
             r.pc # "idle" => r.user \in User /\ r.op \in OperationNames,
             r.op \in {"addItem", "createOrder"} => r.menuItem \in MenuItem,
             r.pc \in Unchecked
      PROVE  TypeInv'
  BY <1>1 DEF TypeInv, TypeOK, ArgumentsOK, Begin, tables, Unchecked
<1>2. CASE StartAddItem(p) \/ StartCreateOrder(p)
  <2> SUFFICES ASSUME NEW op \in {"addItem", "createOrder"},
                      NEW u \in User, NEW c \in User \cup {None},
                      NEW m \in MenuItem, NEW n \in Quantity,
                      Begin(p, [Idle EXCEPT !.op = op, !.pc = Entry(c), !.user = u,
                            !.cart = c, !.menuItem = m, !.quantity = n])
               PROVE  TypeInv'
    BY <1>2 DEF StartAddItem, StartCreateOrder
  <2> QED
    BY <1>1, CartAssumption
       DEF Idle, Request, PC, Entry, Unchecked, OperationNames
<1>3. ASSUME NEW i \in {x.id : x \in items}
      PROVE  i \in Nat
  BY DEF TypeInv, TypeOK, CartItem
<1>8. CASE StartUpdateItemQuantity(p)
  <2> SUFFICES ASSUME NEW u \in User, NEW i \in {x.id : x \in items},
                      NEW n \in Quantity,
                      Begin(p, [Idle EXCEPT !.op = "updateItemQuantity",
                            !.pc = "findItem", !.user = u, !.itemId = i,
                            !.quantity = n])
               PROVE  TypeInv'
    BY <1>8 DEF StartUpdateItemQuantity
  <2> QED
    BY <1>1, <1>3, CartAssumption
       DEF Idle, Request, PC, Unchecked, OperationNames
<1>9. CASE StartDeleteItem(p)
  <2> SUFFICES ASSUME NEW u \in User, NEW i \in {x.id : x \in items},
                      Begin(p, [Idle EXCEPT !.op = "deleteItem",
                            !.pc = "findItem", !.user = u, !.itemId = i])
               PROVE  TypeInv'
    BY <1>9 DEF StartDeleteItem
  <2> QED
    BY <1>1, <1>3, CartAssumption
       DEF Idle, Request, PC, Unchecked, OperationNames
<1>4. CASE StartGetCartItems(p)
  <2> SUFFICES ASSUME NEW u \in User, NEW c \in User \cup {None},
                      Begin(p, [Idle EXCEPT !.op = "getCartItems", !.pc = Entry(c),
                            !.user = u, !.cart = c])
               PROVE  TypeInv'
    BY <1>4 DEF StartGetCartItems
  <2> QED
    BY <1>1, CartAssumption
       DEF Idle, Request, PC, Entry, Unchecked, OperationNames
<1>5. CASE StartShareCart(p)
  <2> SUFFICES ASSUME NEW u \in User, NEW to \in SUBSET User,
                      NEW role \in [to -> Role],
                      Begin(p, [Idle EXCEPT
                        !.op = "shareCart", !.pc = "findOwnCart", !.user = u,
                        !.grants = {[user |-> v, role |-> role[v]] : v \in to}])
               PROVE  TypeInv'
    BY <1>5 DEF StartShareCart
  <2>1. {[user |-> v, role |-> role[v]] : v \in to} \in SUBSET Grant
    BY DEF Grant
  <2> QED
    BY <1>1, <2>1, CartAssumption DEF Idle, Request, PC, Unchecked, OperationNames
<1>6. CASE StartRemoveSharedUser(p)
  <2> SUFFICES ASSUME NEW u \in User, NEW v \in User,
                      Begin(p, [Idle EXCEPT !.op = "removeSharedUser",
                            !.pc = "findOwnCart", !.user = u, !.peer = v])
               PROVE  TypeInv'
    BY <1>6 DEF StartRemoveSharedUser
  <2> QED
    BY <1>1, CartAssumption DEF Idle, Request, PC, Unchecked, OperationNames
<1>7. CASE StartCheckoutCart(p)
  <2> SUFFICES ASSUME NEW u \in User, NEW c \in User,
                      Begin(p, [Idle EXCEPT !.op = "checkoutCart", !.pc = "access",
                            !.user = u, !.cart = c])
               PROVE  TypeInv'
    BY <1>7 DEF StartCheckoutCart
  <2> QED
    BY <1>1, CartAssumption DEF Idle, Request, PC, Unchecked, OperationNames
<1> QED
  BY <1>2, <1>4, <1>5, <1>6, <1>7, <1>8, <1>9 DEF Start

\* A request may end between any two of its statements.
LEMMA ReturnType ==
  ASSUME TypeInv, NEW p \in Proc, Return(p)
  PROVE  TypeInv'
  BY FinishType DEF Return, TypeInv, TypeOK, tables

\* The labels an operation may be at once it knows its cart.
LabelOf(op) ==
  {"listItems", "updateItem", "deleteItem", "deleteShares", "createShares",
   "findShare", "deleteShare"}
    \cup (IF op = "addItem" THEN {"findExistingItem", "writeItem", "updateShare"}
                            ELSE {})
    \cup (IF op = "createOrder" THEN {"insertOrder", "clearAccess", "clearItems",
                                      "lockCleared"}
                                ELSE {})
    \cup (IF op = "checkoutCart"
            THEN {"findCartItems", "deleteCartItems", "lockItems", "commitCheckout"}
            ELSE {})

\* A request that moves on keeps its operation and arguments.
LEMMA MoveType ==
  ASSUME TypeInv, NEW p \in Proc, NEW r \in Request, req[p].pc # "idle",
         req' = [req EXCEPT ![p] = r],
         r.user = req[p].user, r.op = req[p].op, r.menuItem = req[p].menuItem,
         \/ r.pc \in {"createCart", "access"}
         \/ r.cart \in User /\ r.pc \in LabelOf(r.op)
  PROVE  req' \in [Proc -> Request] /\ ArgumentsOK'
  BY DEF TypeInv, TypeOK, ArgumentsOK, Unchecked, LabelOf

\* A step that changes no table has only the requests to account for.
LEMMA UnchangedType ==
  ASSUME TypeInv, UNCHANGED <<tables, started, granted>>,
         req' \in [Proc -> Request], ArgumentsOK'
  PROVE  TypeInv'
  BY DEF TypeInv, TypeOK, tables

\* Every operation goes on at a label of its own.
LEMMA ContinueLabel ==
  ASSUME NEW op \in OperationNames
  PROVE  Continue[op] \in PC /\ Continue[op] \in LabelOf(op)
  BY DEF OperationNames, Continue, PC, LabelOf

\* What a request in progress holds.
LEMMA InProgress ==
  ASSUME TypeInv, NEW p \in Proc, Step(p)
  PROVE  /\ req[p] \in Request
         /\ req[p].pc # "idle"
         /\ req[p].user \in User
         /\ req[p].op \in OperationNames
         /\ req[p].pc \notin Unchecked => req[p].cart \in User
         /\ req[p].op \in {"addItem", "createOrder"} => req[p].menuItem \in MenuItem
         /\ req[p].pc \in {"findExistingItem", "writeItem", "updateShare"}
              => req[p].op = "addItem"
         /\ req[p].pc \in {"insertOrder", "clearAccess", "clearItems", "lockCleared"}
              => req[p].op = "createOrder"
         /\ req[p].pc \in {"findCartItems", "deleteCartItems", "lockItems",
                        "commitCheckout"}
              => req[p].op = "checkoutCart"
<1>1. req[p].pc # "idle"
  BY DEF Step, FindOwnCart, CreateCart, GetCartAccess, FindExistingItem,
     WriteItem, UpdateShare, FindItem, UpdateItem, DeleteItem, ListItems,
     LockItem, LockShare, DeleteShares, CreateShare, CommitShares, FindShare,
     DeleteShare, FindCartItems, DeleteCartItems, DeleteCartShares, CommitCheckout,
     InsertOrder, ClearAccess, ClearItems, CommitClear
<1> QED BY <1>1 DEF TypeInv, TypeOK, ArgumentsOK

\* getOwnCart hands the user's own cart to the operation.
LEMMA UseOwnCartType ==
  ASSUME TypeInv, NEW p \in Proc, Step(p), UseOwnCart(p)
  PROVE  req' \in [Proc -> Request] /\ ArgumentsOK'
<1> DEFINE r == [req[p] EXCEPT !.cart = req[p].user, !.pc = Continue[req[p].op]]
<1>1. /\ r \in Request
      /\ r.user = req[p].user /\ r.op = req[p].op /\ r.menuItem = req[p].menuItem
      /\ r.cart \in User
      /\ r.pc \in LabelOf(r.op)
      /\ req[p].pc # "idle"
  BY InProgress, ContinueLabel DEF Request
<1>2. req' = [req EXCEPT ![p] = r]
  BY DEF UseOwnCart
<1> HIDE DEF r
<1> QED
  BY <1>1, <1>2, MoveType

\* A request that moves on to a label of its operation.
LEMMA GotoType ==
  ASSUME TypeInv, NEW p \in Proc, Step(p), NEW label \in PC, Goto(p, label),
         \/ label \in {"createCart", "access"}
         \/ req[p].cart \in User /\ label \in LabelOf(req[p].op)
  PROVE  req' \in [Proc -> Request] /\ ArgumentsOK'
<1> DEFINE r == [req[p] EXCEPT !.pc = label]
<1>1. /\ r \in Request
      /\ r.user = req[p].user /\ r.op = req[p].op /\ r.menuItem = req[p].menuItem
      /\ r.cart = req[p].cart /\ r.pc = label
      /\ req[p].pc # "idle"
  BY InProgress DEF Request
<1>2. req' = [req EXCEPT ![p] = r]
  BY DEF Goto
<1> HIDE DEF r
<1> QED
  BY <1>1, <1>2, MoveType

\* Setting quantities keeps the rows well typed.
LEMMA SetQuantityType ==
  ASSUME TypeInv, NEW ids, NEW n \in Nat, SetQuantity(ids, n)
  PROVE  items' \subseteq CartItem
  BY DEF TypeInv, TypeOK, SetQuantity, CartItem

\* addItem writes a well-typed row.
LEMMA SaveItemType ==
  ASSUME TypeInv, NEW p \in Proc, Step(p), SaveItem(req[p]),
         req[p].pc \in {"writeItem", "updateShare"}
  PROVE  items' \subseteq CartItem /\ nextItem' \in Nat \ {0}
<1>1. /\ req[p].cart \in User /\ req[p].menuItem \in MenuItem
      /\ req[p].user \in User /\ req[p].quantity \in Nat
  BY InProgress DEF Unchecked, Request
<1>2. CASE SetQuantity({x.id : x \in req[p].rows}, req[p].quantity)
           /\ UNCHANGED nextItem
  BY <1>1, <1>2, SetQuantityType DEF TypeInv, TypeOK
<1>3. CASE items' = items \cup {NewItem(req[p])} /\ nextItem' = nextItem + 1
  <2>1. NewItem(req[p]) \in CartItem
    BY <1>1 DEF NewItem, CartItem, TypeInv, TypeOK
  <2> QED BY <1>3, <2>1 DEF TypeInv, TypeOK
<1> QED BY <1>2, <1>3 DEF SaveItem

\* The INSERT of shareCart takes one user off the list, and creates his share or
\* skips him.
LEMMA CreateShareMoves ==
  ASSUME TypeInv, NEW p \in Proc, CreateShare(p)
  PROVE  \E g \in ValidGrants(req[p]) : \E new \in SUBSET {NewShare(req[p], g)} :
           /\ req' = [req EXCEPT ![p] = [req[p] EXCEPT
                        !.grants = req[p].grants \ {g},
                        !.inserted = req[p].inserted \cup new]]
           /\ nextShare' = nextShare \/ nextShare' = nextShare + 1
           /\ UNCHANGED <<carts, items, shares, orders, nextItem, nextOrder,
                          started, granted>>
<1>1. req[p] \in Request
  BY DEF TypeInv, TypeOK
<1>2. PICK g \in ValidGrants(req[p]) :
        \/ /\ req' = [req EXCEPT ![p].grants = @ \ {g}]
           /\ UNCHANGED nextShare
        \/ /\ req' = [req EXCEPT ![p].grants = @ \ {g},
                                 ![p].inserted = @ \cup {NewShare(req[p], g)}]
           /\ nextShare' = nextShare + 1
  BY DEF CreateShare
<1>3. UNCHANGED <<carts, items, shares, orders, nextItem, nextOrder, started, granted>>
  BY DEF CreateShare
<1>4. CASE req' = [req EXCEPT ![p].grants = @ \ {g}] /\ UNCHANGED nextShare
  <2>1. req' = [req EXCEPT ![p] = [req[p] EXCEPT
                  !.grants = req[p].grants \ {g},
                  !.inserted = req[p].inserted \cup {}]]
    BY <1>1, <1>4 DEF Request
  <2>2. {} \in SUBSET {NewShare(req[p], g)}
    OBVIOUS
  <2> QED BY <1>3, <1>4, <2>1, <2>2
<1>5. CASE /\ req' = [req EXCEPT ![p].grants = @ \ {g},
                                ![p].inserted = @ \cup {NewShare(req[p], g)}]
           /\ nextShare' = nextShare + 1
  <2>1. PICK s : s = NewShare(req[p], g)
    OBVIOUS
  <2>2. req' = [req EXCEPT ![p] = [req[p] EXCEPT
                  !.grants = req[p].grants \ {g},
                  !.inserted = req[p].inserted \cup {s}]]
    BY <1>1, <1>5, <2>1 DEF Request
  <2>3. {s} \in SUBSET {NewShare(req[p], g)}
    BY <2>1
  <2> QED BY <1>3, <1>5, <2>2, <2>3
<1> QED BY <1>2, <1>4, <1>5

\* No statement of a request breaks the types.
LEMMA StepType ==
  ASSUME TypeInv, NEW p \in Proc, Step(p)
  PROVE  TypeInv'
<1> USE InProgress DEF Unchecked
<1>0. /\ req[p] \in Request
      /\ {"createCart", "writeItem", "updateShare", "access", "createShares",
          "deleteShare", "deleteCartItems", "lockItems", "commitCheckout",
          "clearAccess", "clearItems", "lockCleared"} \subseteq PC
  BY DEF PC
<1>1. CASE FindOwnCart(p)
  <2>1. CASE UseOwnCart(p)
    BY <1>1, <2>1, UseOwnCartType, UnchangedType DEF FindOwnCart
  <2>2. CASE Goto(p, "createCart")
    BY <1>1, <2>2, GotoType, UnchangedType DEF FindOwnCart, PC
  <2> QED BY <1>1, <2>1, <2>2 DEF FindOwnCart
<1>2. CASE CreateCart(p)
  <2>1. CASE Return(p)
    BY <2>1, ReturnType
  <2>2. CASE /\ carts' = carts \cup {req[p].user}
             /\ UseOwnCart(p)
             /\ UNCHANGED <<items, shares, orders, nextItem, nextOrder, nextShare,
                            started, granted>>
    BY <2>2, UseOwnCartType DEF TypeInv, TypeOK
  <2> QED BY <1>2, <2>1, <2>2 DEF CreateCart
<1>3. CASE GetCartAccess(p)
  <2>1. CASE Return(p)
    BY <2>1, ReturnType
  <2>2. CASE HasAccess(req[p]) /\ ~Return(p)
    <3> DEFINE r == [req[p] EXCEPT !.share = ShareRead(req[p]),
                                   !.pc = Continue[req[p].op]]
    <3>1. req[p].cart \in User
      BY <2>2 DEF HasAccess, TypeInv, TypeOK
    <3>2. ShareRead(req[p]) \in SUBSET CartShare
      BY DEF ShareRead, ShareOf, SharesOf, TypeInv, TypeOK
    <3>3. /\ r \in Request
          /\ r.user = req[p].user /\ r.op = req[p].op
          /\ r.menuItem = req[p].menuItem
          /\ r.cart \in User
          /\ r.pc \in LabelOf(r.op)
      BY <3>1, <3>2, ContinueLabel DEF Request
    <3>4. req' = [req EXCEPT ![p] = r] /\ UNCHANGED <<tables, started, granted>>
      BY <1>3, <2>2 DEF GetCartAccess
    <3> HIDE DEF r
    <3> QED
      BY <3>3, <3>4, MoveType, UnchangedType
  <2> QED BY <1>3, <2>1, <2>2 DEF GetCartAccess
<1>4. CASE FindExistingItem(p)
  <2> DEFINE r == [req[p] EXCEPT !.rows = ItemOf(req[p].cart, req[p].menuItem),
                                 !.pc = "writeItem"]
  <2>1. ItemOf(req[p].cart, req[p].menuItem) \in SUBSET CartItem
    BY DEF ItemOf, ItemsOf, TypeInv, TypeOK
  <2>2. /\ r \in Request
        /\ r.user = req[p].user /\ r.op = req[p].op /\ r.menuItem = req[p].menuItem
        /\ r.cart = req[p].cart /\ r.pc = "writeItem"
    BY ONLY <1>0, <2>1 DEF Request
  <2>3. req[p].cart \in User /\ req[p].op = "addItem"
    BY <1>4 DEF FindExistingItem
  <2>4. req' = [req EXCEPT ![p] = r] /\ UNCHANGED <<tables, started, granted>>
    BY <1>4 DEF FindExistingItem
  <2> HIDE DEF r
  <2>5. r.pc \in LabelOf(r.op)
    BY <2>2, <2>3 DEF LabelOf
  <2> QED
    BY <2>2, <2>3, <2>4, <2>5, MoveType, UnchangedType
<1>5. CASE WriteItem(p)
  <2>1. CASE Return(p)
    BY <2>1, ReturnType
  <2>2. CASE Goto(p, "updateShare") /\ UNCHANGED <<tables, started, granted>>
    <3>1. req[p].cart \in User /\ "updateShare" \in LabelOf(req[p].op)
      BY <1>5 DEF WriteItem, LabelOf
    <3> QED BY <2>2, <3>1, GotoType, UnchangedType DEF PC
  <2>3. CASE /\ SaveItem(req[p])
             /\ Finish(p)
             /\ UNCHANGED <<carts, shares, orders, nextOrder, nextShare, started,
                            granted>>
    <3>1. items' \subseteq CartItem /\ nextItem' \in Nat \ {0}
      BY <1>5, <2>3, SaveItemType DEF WriteItem
    <3> QED BY <2>3, <3>1, FinishType DEF TypeInv, TypeOK
  <2> QED BY <1>5, <2>1, <2>2, <2>3 DEF WriteItem
<1>6. CASE UpdateShare(p)
  <2>1. CASE Return(p)
    BY <2>1, ReturnType
  <2>2. CASE ~Return(p)
    <3> DEFINE marked == ShareOf(req[p].cart, req[p].user)
               new == {[s EXCEPT !.hasContributed = TRUE] : s \in marked}
    <3>1. /\ SaveItem(req[p])
          /\ shares' = (shares \ marked) \cup new
          /\ Finish(p)
          /\ UNCHANGED <<carts, orders, nextOrder, nextShare, started, granted>>
      BY <1>6, <2>2 DEF UpdateShare
    <3>2. items' \subseteq CartItem /\ nextItem' \in Nat \ {0}
      BY <1>6, <3>1, SaveItemType DEF UpdateShare
    <3>3. shares \subseteq CartShare /\ marked \subseteq CartShare
      BY DEF TypeInv, TypeOK, ShareOf, SharesOf
    <3>4. new \subseteq CartShare
      BY <3>3 DEF CartShare
    <3> HIDE DEF marked, new
    <3>5. shares' \subseteq CartShare
      BY <3>1, <3>3, <3>4
    <3> QED BY <3>1, <3>2, <3>5, FinishType DEF TypeInv, TypeOK
  <2> QED BY <2>1, <2>2
<1>7. CASE FindItem(p)
  <2>1. CASE Return(p)
    BY <2>1, ReturnType
  <2>2. CASE ~Return(p)
    <3>1. PICK x \in ItemWithId(req[p].itemId) :
            req' = [req EXCEPT ![p].cart = x.cart, ![p].pc = "access"]
      BY <1>7, <2>2 DEF FindItem
    <3>2. x.cart \in User
      BY DEF ItemWithId, CartItem, TypeInv, TypeOK
    <3> DEFINE r == [req[p] EXCEPT !.cart = x.cart, !.pc = "access"]
    <3>3. /\ r \in Request
          /\ r.user = req[p].user /\ r.op = req[p].op
          /\ r.menuItem = req[p].menuItem
          /\ r.pc = "access"
      BY ONLY <1>0, <3>2 DEF Request
    <3>4. req' = [req EXCEPT ![p] = r] /\ UNCHANGED <<tables, started, granted>>
      BY <1>7, <2>2, <3>1 DEF FindItem
    <3> HIDE DEF r
    <3> QED BY <3>3, <3>4, MoveType, UnchangedType
  <2> QED BY <2>1, <2>2
<1>8. CASE UpdateItem(p)
  <2>1. items' \subseteq CartItem
    BY <1>8, SetQuantityType DEF UpdateItem, Request
  <2> QED BY <1>8, <2>1, FinishType DEF UpdateItem, TypeInv, TypeOK
<1>9. CASE DeleteItem(p)
  BY <1>9, FinishType DEF DeleteItem, TypeInv, TypeOK
<1>10. CASE ListItems(p)
  BY <1>10, ReturnType DEF ListItems
<1>11. CASE DeleteShares(p)
  <2> DEFINE found == {s \in SharesOf(req[p].cart) :
                         s.user \in {g.user : g \in ValidGrants(req[p])}}
             r == [req[p] EXCEPT !.matched = {s.id : s \in found},
                                 !.pc = "createShares"]
  <2>1. {s.id : s \in found} \in SUBSET Nat
    BY DEF SharesOf, CartShare, TypeInv, TypeOK
  <2>2. req' = [req EXCEPT ![p] = r] /\ UNCHANGED <<tables, started, granted>>
    BY <1>11 DEF DeleteShares
  <2> HIDE DEF found
  <2>3. /\ r \in Request
        /\ r.user = req[p].user /\ r.op = req[p].op /\ r.menuItem = req[p].menuItem
        /\ r.cart = req[p].cart /\ r.pc = "createShares"
    BY ONLY <1>0, <2>1 DEF Request
  <2>4. req[p].cart \in User
    BY <1>11 DEF DeleteShares
  <2> HIDE DEF r
  <2> QED BY <2>2, <2>3, <2>4, MoveType, UnchangedType DEF LabelOf
<1>12. CASE CreateShare(p)
  <2>0. PICK g \in ValidGrants(req[p]) : \E new \in SUBSET {NewShare(req[p], g)} :
          /\ req' = [req EXCEPT ![p] = [req[p] EXCEPT
                       !.grants = req[p].grants \ {g},
                       !.inserted = req[p].inserted \cup new]]
          /\ nextShare' = nextShare \/ nextShare' = nextShare + 1
          /\ UNCHANGED <<carts, items, shares, orders, nextItem, nextOrder,
                         started, granted>>
    BY <1>12, CreateShareMoves
  <2>1. PICK new \in SUBSET {NewShare(req[p], g)} :
          /\ req' = [req EXCEPT ![p] = [req[p] EXCEPT
                       !.grants = req[p].grants \ {g},
                       !.inserted = req[p].inserted \cup new]]
          /\ nextShare' = nextShare \/ nextShare' = nextShare + 1
          /\ UNCHANGED <<carts, items, shares, orders, nextItem, nextOrder,
                         started, granted>>
    BY <2>0
  <2>2. req[p].pc = "createShares" /\ req[p].cart \in User
    BY <1>12 DEF CreateShare
  <2>3. g \in Grant
    BY <1>0 DEF ValidGrants, Request
  <2>4. new \subseteq CartShare
    <3>1. NewShare(req[p], g) \in CartShare
      BY <2>2, <2>3 DEF NewShare, CartShare, Grant, TypeInv, TypeOK
    <3> QED BY <2>1, <3>1
  <2> DEFINE r == [req[p] EXCEPT !.grants = req[p].grants \ {g},
                                 !.inserted = req[p].inserted \cup new]
  <2>5. /\ r \in Request
        /\ r.user = req[p].user /\ r.op = req[p].op /\ r.menuItem = req[p].menuItem
        /\ r.cart = req[p].cart /\ r.pc = req[p].pc
    BY ONLY <1>0, <2>4 DEF Request
  <2>6. req' = [req EXCEPT ![p] = r]
    BY <2>1
  <2> HIDE DEF r
  <2>7. req' \in [Proc -> Request] /\ ArgumentsOK'
    BY <2>2, <2>5, <2>6, MoveType DEF LabelOf
  <2> QED BY <2>1, <2>7 DEF TypeInv, TypeOK
<1>21. CASE CommitShares(p)
  <2>1. req[p].cart \in User /\ req[p].inserted \subseteq CartShare
    BY <1>21 DEF CommitShares, Request
  <2>2. shares' \subseteq CartShare /\ granted' \subseteq User \X User \X Role
    BY <1>21, <2>1 DEF CommitShares, CartShare, TypeInv, TypeOK
  <2> QED BY <1>21, <2>2, FinishType DEF CommitShares, TypeInv, TypeOK
<1>22. CASE LockItem(p)
  <2>1. PICK x \in ItemsLeft(req[p]) :
          req' = [req EXCEPT ![p].lockedRows = @ \cup {x.id}]
    BY <1>22 DEF LockItem
  <2>2. x.id \in Nat
    BY DEF ItemsLeft, CartItem, TypeInv, TypeOK
  <2> DEFINE r == [req[p] EXCEPT !.lockedRows = req[p].lockedRows \cup {x.id}]
  <2>3. /\ r \in Request
        /\ r.user = req[p].user /\ r.op = req[p].op /\ r.menuItem = req[p].menuItem
        /\ r.cart = req[p].cart /\ r.pc = req[p].pc
    BY ONLY <1>0, <2>2 DEF Request
  <2>4. req' = [req EXCEPT ![p] = r] /\ UNCHANGED <<tables, started, granted>>
    BY <1>22, <2>1 DEF LockItem
  <2>5. req[p].cart \in User /\ req[p].pc \in LabelOf(req[p].op)
    BY <1>22 DEF LockItem, LabelOf
  <2> HIDE DEF r
  <2> QED BY <2>3, <2>4, <2>5, MoveType, UnchangedType
<1>23. CASE LockShare(p)
  <2>1. PICK s \in SharesLeft(req[p]) :
          req' = [req EXCEPT ![p].lockedShares = @ \cup {s.id}]
    BY <1>23 DEF LockShare
  <2>2. s.id \in Nat
    BY DEF SharesLeft, CartShare, TypeInv, TypeOK
  <2> DEFINE r == [req[p] EXCEPT !.lockedShares = req[p].lockedShares \cup {s.id}]
  <2>3. /\ r \in Request
        /\ r.user = req[p].user /\ r.op = req[p].op /\ r.menuItem = req[p].menuItem
        /\ r.cart = req[p].cart /\ r.pc = req[p].pc
    BY ONLY <1>0, <2>2 DEF Request
  <2>4. req' = [req EXCEPT ![p] = r] /\ UNCHANGED <<tables, started, granted>>
    BY <1>23, <2>1 DEF LockShare
  <2>5. req[p].cart \in User /\ req[p].pc \in LabelOf(req[p].op)
    BY <1>23 DEF LockShare, LabelOf
  <2> HIDE DEF r
  <2> QED BY <2>3, <2>4, <2>5, MoveType, UnchangedType
<1>13. CASE FindShare(p)
  <2>1. req[p].cart \in User
    BY <1>13 DEF FindShare
  <2> QED
    BY <1>13, <2>1, ReturnType, GotoType, UnchangedType DEF FindShare, PC, LabelOf
<1>14. CASE DeleteShare(p)
  BY <1>14, FinishType DEF DeleteShare, TypeInv, TypeOK
<1>15. CASE FindCartItems(p)
  <2>1. CASE Return(p)
    BY <2>1, ReturnType
  <2>2. CASE ~Return(p)
    <3> DEFINE r == [req[p] EXCEPT !.rows = ItemsOf(req[p].cart),
                                   !.pc = "deleteCartItems"]
    <3>1. ItemsOf(req[p].cart) \in SUBSET CartItem
      BY DEF ItemsOf, TypeInv, TypeOK
    <3>2. /\ r \in Request
          /\ r.user = req[p].user /\ r.op = req[p].op
          /\ r.menuItem = req[p].menuItem
          /\ r.cart = req[p].cart /\ r.pc = "deleteCartItems"
      BY ONLY <1>0, <3>1 DEF Request
    <3>3. req[p].cart \in User /\ req[p].op = "checkoutCart"
      BY <1>15 DEF FindCartItems
    <3>4. req' = [req EXCEPT ![p] = r] /\ UNCHANGED <<tables, started, granted>>
      BY <1>15, <2>2 DEF FindCartItems
    <3> HIDE DEF r
    <3>5. r.pc \in LabelOf(r.op)
      BY <3>2, <3>3 DEF LabelOf
    <3> QED BY <3>2, <3>3, <3>4, <3>5, MoveType, UnchangedType
  <2> QED BY <2>1, <2>2
<1>16. CASE DeleteCartItems(p)
  <2> DEFINE r == [req[p] EXCEPT !.matched = {x.id : x \in ItemsOf(req[p].cart)},
                                 !.pc = "lockItems"]
  <2>1. {x.id : x \in ItemsOf(req[p].cart)} \in SUBSET Nat
    BY DEF ItemsOf, CartItem, TypeInv, TypeOK
  <2>2. /\ r \in Request
        /\ r.user = req[p].user /\ r.op = req[p].op /\ r.menuItem = req[p].menuItem
        /\ r.cart = req[p].cart /\ r.pc = "lockItems"
    BY ONLY <1>0, <2>1 DEF Request
  <2>3. req[p].cart \in User /\ req[p].op = "checkoutCart"
    BY <1>16 DEF DeleteCartItems
  <2>4. req' = [req EXCEPT ![p] = r] /\ UNCHANGED <<tables, started, granted>>
    BY <1>16 DEF DeleteCartItems
  <2> HIDE DEF r
  <2>5. r.pc \in LabelOf(r.op)
    BY <2>2, <2>3 DEF LabelOf
  <2> QED BY <2>2, <2>3, <2>4, <2>5, MoveType, UnchangedType
<1>24. CASE DeleteCartShares(p)
  <2> DEFINE r == [req[p] EXCEPT !.matched = {s.id : s \in SharesOf(req[p].cart)},
                                 !.pc = "commitCheckout"]
  <2>1. {s.id : s \in SharesOf(req[p].cart)} \in SUBSET Nat
    BY DEF SharesOf, CartShare, TypeInv, TypeOK
  <2>2. /\ r \in Request
        /\ r.user = req[p].user /\ r.op = req[p].op /\ r.menuItem = req[p].menuItem
        /\ r.cart = req[p].cart /\ r.pc = "commitCheckout"
    BY ONLY <1>0, <2>1 DEF Request
  <2>3. req[p].cart \in User /\ req[p].op = "checkoutCart"
    BY <1>24 DEF DeleteCartShares
  <2>4. req' = [req EXCEPT ![p] = r] /\ UNCHANGED <<tables, started, granted>>
    BY <1>24 DEF DeleteCartShares
  <2> HIDE DEF r
  <2>5. r.pc \in LabelOf(r.op)
    BY <2>2, <2>3 DEF LabelOf
  <2> QED BY <2>2, <2>3, <2>4, <2>5, MoveType, UnchangedType
<1>17. CASE CommitCheckout(p)
  <2>1. req[p].cart \in User /\ req[p].rows \subseteq CartItem
    BY <1>17 DEF CommitCheckout, Request
  <2>2. NewOrder(req[p], req[p].rows) \in Order
    BY <2>1 DEF NewOrder, Order, TypeInv, TypeOK
  <2>3. orders' \subseteq Order /\ nextOrder' \in Nat \ {0}
    <3>1. orders' = orders \cup {NewOrder(req[p], req[p].rows)}
          /\ nextOrder' = nextOrder + 1
      BY <1>17 DEF CommitCheckout
    <3> QED BY <2>2, <3>1 DEF TypeInv, TypeOK
  <2> QED
    BY <1>17, <2>3, FinishType DEF CommitCheckout, TypeInv, TypeOK
<1>18. CASE InsertOrder(p)
  <2> DEFINE line == [id |-> 0, cart |-> req[p].cart, menuItem |-> req[p].menuItem,
                      quantity |-> req[p].quantity, addedBy |-> req[p].user]
  <2>1. req[p].cart \in User /\ req[p].menuItem \in MenuItem
    BY <1>18 DEF InsertOrder
  <2>2. line \in CartItem
    BY <2>1 DEF CartItem, Request
  <2>3. /\ orders' = orders \cup {NewOrder(req[p], {line})}
        /\ nextOrder' = nextOrder + 1
    BY <1>18 DEF InsertOrder
  <2> HIDE DEF line
  <2>4. NewOrder(req[p], {line}) \in Order
    BY <2>1, <2>2 DEF NewOrder, Order, TypeInv, TypeOK
  <2>5. orders' \subseteq Order /\ nextOrder' \in Nat \ {0}
    BY <2>3, <2>4 DEF TypeInv, TypeOK
  <2>6. "clearAccess" \in PC /\ "clearAccess" \in LabelOf(req[p].op)
    BY <1>18 DEF InsertOrder, PC, LabelOf
  <2>7. req' \in [Proc -> Request] /\ ArgumentsOK'
    BY <1>18, <2>1, <2>6, GotoType DEF InsertOrder
  <2> QED
    BY <1>18, <2>5, <2>7 DEF InsertOrder, TypeInv, TypeOK
<1>19. CASE ClearAccess(p)
  <2>1. req[p].cart \in User /\ "clearItems" \in LabelOf(req[p].op)
    BY <1>19 DEF ClearAccess, LabelOf
  <2> QED
    BY <1>19, <2>1, ReturnType, GotoType, UnchangedType DEF ClearAccess, PC
<1>20. CASE ClearItems(p)
  <2> DEFINE r == [req[p] EXCEPT !.matched = {x.id : x \in ItemsOf(req[p].cart)},
                                 !.pc = "lockCleared"]
  <2>1. {x.id : x \in ItemsOf(req[p].cart)} \in SUBSET Nat
    BY DEF ItemsOf, CartItem, TypeInv, TypeOK
  <2>2. /\ r \in Request
        /\ r.user = req[p].user /\ r.op = req[p].op /\ r.menuItem = req[p].menuItem
        /\ r.cart = req[p].cart /\ r.pc = "lockCleared"
    BY ONLY <1>0, <2>1 DEF Request
  <2>3. req[p].cart \in User /\ req[p].op = "createOrder"
    BY <1>20 DEF ClearItems
  <2>4. req' = [req EXCEPT ![p] = r] /\ UNCHANGED <<tables, started, granted>>
    BY <1>20 DEF ClearItems
  <2> HIDE DEF r
  <2>5. r.pc \in LabelOf(r.op)
    BY <2>2, <2>3 DEF LabelOf
  <2> QED BY <2>2, <2>3, <2>4, <2>5, MoveType, UnchangedType
<1>25. CASE CommitClear(p)
  BY <1>25, FinishType DEF CommitClear, TypeInv, TypeOK
<1> QED
  BY <1>1, <1>2, <1>3, <1>4, <1>5, <1>6, <1>7, <1>8, <1>9, <1>10, <1>11, <1>12,
     <1>13, <1>14, <1>15, <1>16, <1>17, <1>18, <1>19, <1>20, <1>21, <1>22, <1>23,
     <1>24, <1>25 DEF Step

\* The tables are empty and the processes idle at first.
LEMMA InitType == Init => TypeInv
  BY IdleType, CartAssumption
     DEF Init, TypeInv, TypeOK, ArgumentsOK, Idle, Unchecked, OperationNames

\* No step breaks the types.
LEMMA NextType ==
  ASSUME TypeInv, [Next]_vars
  PROVE  TypeInv'
<1>1. CASE UNCHANGED vars
  BY <1>1 DEF vars, tables, TypeInv, TypeOK, ArgumentsOK
<1>2. ASSUME NEW p \in Proc, Start(p) \/ Step(p) \/ Deadlocked(p) \/ Fail(p)
      PROVE  TypeInv'
  BY <1>2, StartType, StepType, ReturnType DEF Deadlocked, Fail
<1> QED
  BY <1>1, <1>2 DEF Next, Quiescent

\* The tables and the request records always hold values of their types.
THEOREM CartTypes == Spec => []TypeOK
<1>1. Spec => []TypeInv
  BY InitType, NextType, PTL DEF Spec
<1>2. TypeInv => TypeOK
  BY DEF TypeInv
<1> QED BY <1>1, <1>2, PTL
-----------------------------------------------------------------------------
(***************************************************************************)
(* How a step changes the item table and the requests.                     *)
(***************************************************************************)

Acts(p) == Start(p) \/ Step(p) \/ Deadlocked(p) \/ Fail(p)

\* The request of p creates a cart item; its key was free.
Inserts(p) ==
  /\ items' = items \cup {NewItem(req[p])}
  /\ nextItem' = nextItem + 1
  /\ req[p].rows = {}
  /\ req'[p] = Idle
  /\ \/ req[p].pc = "updateShare"
     \/ /\ req[p].pc = "writeItem"
        /\ ItemOf(req[p].cart, req[p].menuItem) = {}
        /\ ~KeyReserved(p, req[p].cart, req[p].menuItem)

\* A step leaves the items alone, removes some, sets quantities or inserts one.
LEMMA ItemsChange ==
  ASSUME TypeInv, NEW p \in Proc, Acts(p)
  PROVE  \/ items' \subseteq items /\ nextItem' = nextItem
         \/ /\ \E ids \in SUBSET Nat, n \in Nat : SetQuantity(ids, n)
            /\ nextItem' = nextItem
         \/ Inserts(p)
<1>1. CASE UNCHANGED <<items, nextItem>>
  BY <1>1
<1>2. CASE Start(p) \/ Deadlocked(p) \/ Fail(p) \/ Return(p)
  BY <1>1, <1>2 DEF Start, StartAddItem, StartUpdateItemQuantity, StartDeleteItem,
     StartGetCartItems, StartShareCart, StartRemoveSharedUser,
     StartCheckoutCart, StartCreateOrder, Begin, Deadlocked, Fail,
     Return, tables
<1>3. ASSUME Step(p), SaveItem(req[p]), Finish(p),
             \/ req[p].pc = "updateShare"
             \/ /\ req[p].pc = "writeItem"
                /\ ItemStatementSucceeds(req[p])
                /\ ~ItemStatementWaits(p)
      PROVE  \/ /\ \E ids \in SUBSET Nat, n \in Nat : SetQuantity(ids, n)
                /\ nextItem' = nextItem
             \/ Inserts(p)
  <2>1. req[p] \in Request
    BY <1>3, InProgress
  <2>2. CASE SetQuantity({x.id : x \in req[p].rows}, req[p].quantity)
             /\ UNCHANGED nextItem
    <3>1. {x.id : x \in req[p].rows} \in SUBSET Nat /\ req[p].quantity \in Nat
      BY <2>1 DEF Request, CartItem
    <3> QED BY <2>2, <3>1
  <2>3. CASE /\ req[p].rows = {}
             /\ items' = items \cup {NewItem(req[p])}
             /\ nextItem' = nextItem + 1
    <3>1. req'[p] = Idle
      BY <1>3 DEF Finish, TypeInv, TypeOK
    <3> QED
      BY <1>3, <2>3, <3>1
         DEF Inserts, ItemStatementSucceeds, ItemStatementWaits
  <2> QED BY <1>3, <2>2, <2>3 DEF SaveItem
<1>4. CASE Step(p) /\ WriteItem(p) /\ ~Return(p)
  BY <1>1, <1>3, <1>4 DEF WriteItem, tables
<1>5. CASE Step(p) /\ UpdateShare(p) /\ ~Return(p)
  BY <1>1, <1>3, <1>5 DEF UpdateShare, tables
<1>6. CASE Step(p) /\ UpdateItem(p)
  <2>1. req[p].itemId \in Nat /\ req[p].quantity \in Nat
    BY <1>6, InProgress DEF Request
  <2>2. {req[p].itemId} \in SUBSET Nat
    BY <2>1
  <2> QED BY <1>6, <2>1, <2>2 DEF UpdateItem
<1>7. CASE DeleteItem(p) \/ CommitCheckout(p) \/ CommitClear(p)
  BY <1>7 DEF DeleteItem, CommitCheckout, CommitClear
<1>8. CASE \/ FindOwnCart(p) \/ CreateCart(p) \/ GetCartAccess(p)
           \/ FindExistingItem(p) \/ FindItem(p) \/ ListItems(p)
  BY <1>1, <1>8 DEF FindOwnCart, CreateCart, GetCartAccess, FindExistingItem,
     FindItem, ListItems, Return, tables
<1>9. CASE \/ LockItem(p) \/ LockShare(p) \/ DeleteShares(p) \/ CreateShare(p)
           \/ CommitShares(p) \/ FindShare(p) \/ DeleteShare(p)
  BY <1>1, <1>9 DEF LockItem, LockShare, DeleteShares, CreateShare, CommitShares,
     FindShare, DeleteShare, Return, tables
<1>10. CASE \/ FindCartItems(p) \/ DeleteCartItems(p) \/ DeleteCartShares(p)
            \/ InsertOrder(p) \/ ClearAccess(p) \/ ClearItems(p)
  BY <1>1, <1>10 DEF FindCartItems, DeleteCartItems, DeleteCartShares, InsertOrder,
     ClearAccess, ClearItems, Return, tables
<1> QED
  BY <1>2, <1>4, <1>5, <1>6, <1>7, <1>8, <1>9, <1>10 DEF Acts, Step

\* A row never changes its id, its cart, its menu item or who added it.
SameRow(x, y) ==
  x.id = y.id /\ x.cart = y.cart /\ x.menuItem = y.menuItem /\ x.addedBy = y.addedBy

\* A row of the new table is a row of the old one or was just inserted.
LEMMA RowsPersist ==
  ASSUME TypeInv, NEW p \in Proc, Acts(p)
  PROVE  /\ nextItem' \in Nat /\ nextItem <= nextItem'
         /\ \A y \in items' :
              \/ \E x \in items : SameRow(x, y)
              \/ /\ y = NewItem(req[p])
                 /\ nextItem' = nextItem + 1
                 /\ req[p].pc \in {"writeItem", "updateShare"}
<1>1. CASE items' \subseteq items /\ nextItem' = nextItem
  BY <1>1 DEF SameRow, TypeInv, TypeOK
<1>2. CASE /\ \E ids \in SUBSET Nat, n \in Nat : SetQuantity(ids, n)
           /\ nextItem' = nextItem
  <2>1. PICK ids \in SUBSET Nat, n \in Nat : SetQuantity(ids, n)
    BY <1>2
  <2>2. \A y \in items' : \E x \in items : SameRow(x, y)
    BY <2>1 DEF SetQuantity, SameRow, TypeInv, TypeOK, CartItem
  <2> QED BY <1>2, <2>2 DEF TypeInv, TypeOK
<1>3. CASE Inserts(p)
  BY <1>3 DEF Inserts, SameRow, TypeInv, TypeOK
<1> QED
  BY <1>1, <1>2, <1>3, ItemsChange

\* A step changes only the request of its own process.
LEMMA OthersWait ==
  ASSUME TypeInv, NEW p \in Proc, Acts(p), NEW q \in Proc, q # p
  PROVE  req'[q] = req[q]
<1> USE DEF TypeInv, TypeOK
<1>1. CASE Start(p) \/ Deadlocked(p) \/ Fail(p)
  BY <1>1 DEF Start, StartAddItem, StartUpdateItemQuantity, StartDeleteItem,
     StartGetCartItems, StartShareCart, StartRemoveSharedUser,
     StartCheckoutCart, StartCreateOrder, Begin, Deadlocked, Fail, Return, Finish
<1>2. CASE \/ FindOwnCart(p) \/ CreateCart(p) \/ GetCartAccess(p)
           \/ FindExistingItem(p) \/ WriteItem(p) \/ UpdateShare(p) \/ FindItem(p)
  BY <1>2 DEF FindOwnCart, CreateCart, GetCartAccess, FindExistingItem, WriteItem,
     UpdateShare, FindItem, UseOwnCart, Goto, Return, Finish
<1>3. CASE \/ UpdateItem(p) \/ DeleteItem(p) \/ ListItems(p) \/ DeleteShares(p)
           \/ CommitShares(p) \/ FindShare(p) \/ DeleteShare(p)
  BY <1>3 DEF UpdateItem, DeleteItem, ListItems, DeleteShares, CommitShares,
     FindShare, DeleteShare, Goto, Return, Finish
<1>4. CASE \/ FindCartItems(p) \/ DeleteCartItems(p) \/ DeleteCartShares(p)
           \/ CommitCheckout(p) \/ InsertOrder(p) \/ ClearAccess(p)
           \/ ClearItems(p) \/ CommitClear(p)
  BY <1>4 DEF FindCartItems, DeleteCartItems, DeleteCartShares, CommitCheckout,
     InsertOrder, ClearAccess, ClearItems, CommitClear, Goto, Return, Finish
<1>5. CASE LockItem(p) \/ LockShare(p) \/ CreateShare(p)
  BY <1>5 DEF LockItem, LockShare, CreateShare
<1> QED
  BY <1>1, <1>2, <1>3, <1>4, <1>5 DEF Acts, Step

\* A request that locks or inserts one row more stays at its statement.
LEMMA RowByRow ==
  ASSUME TypeInv, NEW p \in Proc, LockItem(p) \/ LockShare(p) \/ CreateShare(p)
  PROVE  LET r == req[p]
             s == req'[p]
         IN
         /\ s.op = r.op /\ s.pc = r.pc /\ s.user = r.user /\ s.cart = r.cart
         /\ s.menuItem = r.menuItem /\ s.quantity = r.quantity
         /\ s.itemId = r.itemId /\ s.peer = r.peer
         /\ s.rows = r.rows /\ s.share = r.share /\ s.matched = r.matched
         /\ r.lockedRows \subseteq s.lockedRows
         /\ r.lockedShares \subseteq s.lockedShares
         /\ s.grants \subseteq r.grants
         /\ r.pc \in {"lockItems", "lockCleared", "createShares", "commitCheckout"}
         /\ UNCHANGED <<carts, items, shares, orders, nextItem, nextOrder, started,
                        granted>>
<1>0. req \in [Proc -> Request]
  BY DEF TypeInv, TypeOK
<1>1. CASE LockItem(p)
  <2>1. PICK i : req' = [req EXCEPT ![p].lockedRows = @ \cup {i}]
    BY <1>1 DEF LockItem
  <2> QED BY <1>0, <1>1, <2>1 DEF LockItem, Request, tables
<1>2. CASE LockShare(p)
  <2>1. PICK i : req' = [req EXCEPT ![p].lockedShares = @ \cup {i}]
    BY <1>2 DEF LockShare
  <2> QED BY <1>0, <1>2, <2>1 DEF LockShare, Request, tables
<1>3. CASE CreateShare(p)
  <2>1. PICK g \in ValidGrants(req[p]) : \E new \in SUBSET {NewShare(req[p], g)} :
          req' = [req EXCEPT ![p] = [req[p] EXCEPT
                   !.grants = req[p].grants \ {g},
                   !.inserted = req[p].inserted \cup new]]
    BY <1>3, CreateShareMoves
  <2>2. PICK new : req'[p] = [req[p] EXCEPT !.grants = req[p].grants \ {g},
                                           !.inserted = req[p].inserted \cup new]
    BY <1>0, <2>1
  <2>3. req[p] \in Request
    BY <1>0
  <2>4. /\ req'[p].lockedRows = req[p].lockedRows
        /\ req'[p].lockedShares = req[p].lockedShares
        /\ req'[p].grants \subseteq req[p].grants
        /\ req'[p].pc = req[p].pc /\ req'[p].op = req[p].op
        /\ req'[p].user = req[p].user /\ req'[p].cart = req[p].cart
        /\ req'[p].menuItem = req[p].menuItem
        /\ req'[p].quantity = req[p].quantity
        /\ req'[p].itemId = req[p].itemId /\ req'[p].peer = req[p].peer
        /\ req'[p].rows = req[p].rows /\ req'[p].share = req[p].share
        /\ req'[p].matched = req[p].matched
    BY ONLY <2>2, <2>3 DEF Request
  <2>5. /\ req[p].pc = "createShares"
        /\ UNCHANGED <<carts, items, shares, orders, nextItem, nextOrder, started, granted>>
    BY <1>3 DEF CreateShare
  <2> QED BY <2>4, <2>5
<1> QED BY <1>1, <1>2, <1>3

\* The labels inside these transactions are reached by one action each, and kept
\* while rows are locked.
LEMMA TransactionLabels ==
  ASSUME TypeInv, NEW p \in Proc, Acts(p),
         req'[p].pc \in {"deleteCartItems", "lockItems", "commitCheckout", "updateShare"}
  PROVE  /\ Step(p)
         /\ ~Return(p)
         /\ \/ FindCartItems(p) /\ req'[p].pc = "deleteCartItems"
            \/ DeleteCartItems(p) /\ req'[p].pc = "lockItems"
            \/ DeleteCartShares(p) /\ req'[p].pc = "commitCheckout"
            \/ LockItem(p) /\ req'[p].pc = "lockItems" /\ req[p].pc = "lockItems"
            \/ LockShare(p) /\ req'[p].pc = "commitCheckout"
                            /\ req[p].pc = "commitCheckout"
            \/ WriteItem(p) /\ req'[p].pc = "updateShare"
<1> USE DEF TypeInv, TypeOK, Request
<1>1. ~Finish(p)
  BY DEF Finish, Idle
<1>2. ASSUME NEW r, Begin(p, r), r.pc \in Unchecked
      PROVE  FALSE
  BY <1>2 DEF Begin, Unchecked
<1>3. CASE Start(p)
  <2> USE <1>2 DEF Unchecked, Idle, Entry
  <2>1. CASE StartAddItem(p)
    BY <2>1 DEF StartAddItem
  <2>2. CASE StartUpdateItemQuantity(p)
    BY <2>2 DEF StartUpdateItemQuantity
  <2>3. CASE StartDeleteItem(p)
    BY <2>3 DEF StartDeleteItem
  <2>4. CASE StartGetCartItems(p)
    BY <2>4 DEF StartGetCartItems
  <2>5. CASE StartShareCart(p)
    BY <2>5 DEF StartShareCart
  <2>6. CASE StartRemoveSharedUser(p)
    BY <2>6 DEF StartRemoveSharedUser
  <2>7. CASE StartCheckoutCart(p)
    BY <2>7 DEF StartCheckoutCart
  <2>8. CASE StartCreateOrder(p)
    BY <2>8 DEF StartCreateOrder
  <2> QED
    BY <1>3, <2>1, <2>2, <2>3, <2>4, <2>5, <2>6, <2>7, <2>8 DEF Start
<1>4. CASE Deadlocked(p) \/ Fail(p)
  BY <1>1, <1>4 DEF Deadlocked, Fail, Return
<1>5. CASE Step(p)
  <2>1. Continue[req[p].op]
          \notin {"deleteCartItems", "lockItems", "commitCheckout", "updateShare"}
    BY <1>5, InProgress DEF Continue, OperationNames
  <2>2. ~(FindOwnCart(p) \/ CreateCart(p) \/ GetCartAccess(p))
    BY <1>1, <2>1 DEF FindOwnCart, CreateCart, GetCartAccess, UseOwnCart, Goto, Return
  <2>3. ~(UpdateShare(p) \/ UpdateItem(p) \/ DeleteItem(p) \/ ListItems(p))
    BY <1>1 DEF UpdateShare, UpdateItem, DeleteItem, ListItems, Return
  <2>10. ~FindExistingItem(p)
    BY <1>1 DEF FindExistingItem
  <2>11. ~FindItem(p)
    BY <1>1 DEF FindItem, Return
  <2>4. ~(DeleteShares(p) \/ CommitShares(p) \/ FindShare(p) \/ DeleteShare(p))
    BY <1>1 DEF DeleteShares, CommitShares, FindShare, DeleteShare, Goto, Return
  <2>5. ~(CommitCheckout(p) \/ InsertOrder(p) \/ ClearAccess(p) \/ ClearItems(p)
          \/ CommitClear(p))
    BY <1>1 DEF CommitCheckout, InsertOrder, ClearAccess, ClearItems, CommitClear, Goto,
       Return
  <2>6. CASE FindCartItems(p)
    BY <1>1, <1>5, <2>6 DEF FindCartItems, Return
  <2>7. CASE DeleteCartItems(p) \/ DeleteCartShares(p)
    BY <1>1, <1>5, <2>7 DEF DeleteCartItems, DeleteCartShares, Return
  <2>8. CASE WriteItem(p)
    BY <1>1, <1>5, <2>8 DEF WriteItem, Goto, Return
  <2>9. CASE LockItem(p) \/ LockShare(p) \/ CreateShare(p)
    <3>1. req'[p].pc = req[p].pc
      BY <2>9, RowByRow
    <3> QED
      BY <1>1, <1>5, <2>9, <3>1 DEF LockItem, LockShare, CreateShare, Return
  <2> QED
    BY <1>5, <2>2, <2>3, <2>4, <2>5, <2>6, <2>7, <2>8, <2>9, <2>10,
       <2>11 DEF Step
<1> QED
  BY <1>3, <1>4, <1>5 DEF Acts

\* Only a checkout and createOrder make orders.
LEMMA OrdersChange ==
  ASSUME NEW p \in Proc, Acts(p)
  PROVE  UNCHANGED orders \/ CommitCheckout(p) \/ InsertOrder(p)
<1>1. CASE Start(p) \/ Deadlocked(p) \/ Fail(p)
  BY <1>1 DEF Start, StartAddItem, StartUpdateItemQuantity, StartDeleteItem,
     StartGetCartItems, StartShareCart, StartRemoveSharedUser,
     StartCheckoutCart, StartCreateOrder, Begin, Deadlocked, Fail,
     Return, tables
<1>2. CASE Step(p)
  BY <1>2 DEF Step, FindOwnCart, CreateCart, GetCartAccess, FindExistingItem,
     WriteItem, UpdateShare, FindItem, UpdateItem, DeleteItem, ListItems, LockItem,
     LockShare, DeleteShares, CreateShare, CommitShares, FindShare, DeleteShare,
     FindCartItems, DeleteCartItems, DeleteCartShares, ClearAccess, ClearItems,
     CommitClear, Return, tables
<1> QED BY <1>1, <1>2 DEF Acts
-----------------------------------------------------------------------------
(***************************************************************************)
(* An ordered item never stays in a cart.  A checkout deletes more than    *)
(* the rows it has read: every row of the cart.  The rows it has read and  *)
(* that still exist are rows of that cart, since a row keeps its cart and  *)
(* an id is never used again, so they are among those its DELETE finds and *)
(* then locks, one by one, before the transaction goes on.                 *)
(***************************************************************************)
Reading(r) == r.pc \in {"deleteCartItems", "lockItems", "commitCheckout"}

SnapshotOK ==
  /\ \A x \in items : 0 < x.id /\ x.id < nextItem
  /\ \A x, y \in items : x.id = y.id => x.cart = y.cart
  /\ \A o \in orders : \A x \in o.orderItems : x.id < nextItem
  /\ \A p \in Proc : Reading(req[p]) =>
       /\ req[p].rows # {}
       /\ \A x \in req[p].rows : x.id < nextItem /\ x.cart = req[p].cart
       /\ \A x \in req[p].rows, y \in items : x.id = y.id => y.cart = req[p].cart
  /\ \A p \in Proc : \A x \in req[p].rows, y \in items : x.id = y.id =>
       /\ req[p].pc = "lockItems" => y.id \in req[p].matched
       /\ req[p].pc = "commitCheckout" => y.id \in req[p].lockedRows

CheckoutInv == TypeInv /\ SnapshotOK /\ OrderedItemsLeaveCart

\* What a checkout has read and locked stays as it is until it commits.
LEMMA SnapshotStep ==
  ASSUME CheckoutInv, NEW p \in Proc, Acts(p)
  PROVE  SnapshotOK' /\ OrderedItemsLeaveCart'
<1> USE DEF CheckoutInv
<1>0. TypeInv /\ nextItem \in Nat \ {0} /\ items \subseteq CartItem
      /\ req \in [Proc -> Request] /\ orders \subseteq Order
  BY DEF TypeInv, TypeOK
<1>1. /\ nextItem' \in Nat /\ nextItem <= nextItem'
      /\ \A y \in items' :
           \/ \E x \in items : SameRow(x, y)
           \/ /\ y.id = nextItem /\ nextItem' = nextItem + 1
              /\ y.cart = req[p].cart
  BY <1>0, RowsPersist DEF NewItem
<1>2. \A x \in items' : 0 < x.id /\ x.id < nextItem'
  BY <1>0, <1>1 DEF SnapshotOK, SameRow, CartItem
<1>6. \A x, y \in items' : x.id = y.id => x.cart = y.cart
  BY <1>0, <1>1 DEF SnapshotOK, SameRow, CartItem
<1>3. ASSUME NEW q \in Proc, Reading(req'[q])
      PROVE  /\ req'[q].rows # {}
             /\ \A x \in req'[q].rows :
                  x.id \in Nat /\ x.id < nextItem /\ x.cart = req'[q].cart
             /\ \A x \in req'[q].rows, y \in items : x.id = y.id =>
                  /\ y.cart = req'[q].cart
                  /\ req'[q].pc = "lockItems" => y.id \in req'[q].matched
                  /\ req'[q].pc = "commitCheckout" => y.id \in req'[q].lockedRows
  <2>1. CASE req'[q] = req[q]
    BY <1>0, <1>3, <2>1 DEF SnapshotOK, Reading, Request, CartItem
  <2>2. CASE req'[q] # req[q]
    <3>1. q = p
      BY <1>0, <2>2, OthersWait
    <3>2. CASE FindCartItems(p) /\ ~Return(p)
      <4>1. /\ ItemsOf(req[p].cart) # {}
            /\ req'[p].rows = ItemsOf(req[p].cart)
            /\ req'[p].cart = req[p].cart
            /\ req'[p].pc = "deleteCartItems"
        BY <1>0, <3>2 DEF FindCartItems, Request
      <4> QED
        BY <1>0, <3>1, <4>1 DEF ItemsOf, SnapshotOK, CartItem
    <3>3. CASE DeleteCartItems(p)
      <4>1. /\ req[p].pc = "deleteCartItems" /\ req'[p].pc = "lockItems"
            /\ req'[p].matched = {x.id : x \in ItemsOf(req[p].cart)}
            /\ req'[p].rows = req[p].rows
            /\ req'[p].cart = req[p].cart
        BY <1>0, <3>3 DEF DeleteCartItems, Request
      <4> QED
        BY <1>0, <3>1, <4>1 DEF ItemsOf, SnapshotOK, Reading, Request, CartItem
    <3>4. CASE DeleteCartShares(p)
      <4>1. /\ req[p].pc = "lockItems" /\ req'[p].pc = "commitCheckout"
            /\ ItemsLeft(req[p]) = {}
            /\ req'[p].lockedRows = req[p].lockedRows
            /\ req'[p].rows = req[p].rows
            /\ req'[p].cart = req[p].cart
        BY <1>0, <3>4 DEF DeleteCartShares, Request
      <4> QED
        BY <1>0, <3>1, <4>1 DEF ItemsLeft, SnapshotOK, Reading, Request, CartItem
    <3>5. CASE LockItem(p) \/ LockShare(p)
      <4>1. /\ req'[p].pc = req[p].pc /\ req'[p].cart = req[p].cart
            /\ req'[p].rows = req[p].rows /\ req'[p].matched = req[p].matched
            /\ req[p].lockedRows \subseteq req'[p].lockedRows
        BY <1>0, <3>5, RowByRow
      <4> QED
        BY <1>0, <1>3, <3>1, <4>1 DEF SnapshotOK, Reading, Request, CartItem
    <3>6. \/ FindCartItems(p) /\ ~Return(p)
          \/ DeleteCartItems(p) \/ DeleteCartShares(p) \/ LockItem(p) \/ LockShare(p)
      BY <1>0, <1>3, <3>1, TransactionLabels DEF Reading
    <3> QED BY <3>2, <3>3, <3>4, <3>5, <3>6
  <2> QED BY <2>1, <2>2
<1>4. ASSUME NEW q \in Proc, Reading(req'[q])
      PROVE  /\ req'[q].rows # {}
             /\ \A x \in req'[q].rows : x.id < nextItem' /\ x.cart = req'[q].cart
             /\ \A x \in req'[q].rows, y \in items' : x.id = y.id =>
                  /\ y.cart = req'[q].cart
                  /\ req'[q].pc = "lockItems" => y.id \in req'[q].matched
                  /\ req'[q].pc = "commitCheckout" => y.id \in req'[q].lockedRows
  BY <1>0, <1>1, <1>3, <1>4 DEF SameRow
<1>5. ASSUME NEW o \in orders'
      PROVE  /\ \A x \in o.orderItems : x.id < nextItem'
             /\ \A x \in o.orderItems, y \in items' : x.id # y.id
  <2>1. CASE o \in orders
    <3>1. \A x \in o.orderItems :
            x.id \in Nat /\ x.id < nextItem /\ \A y \in items : x.id # y.id
      BY <1>0, <2>1 DEF SnapshotOK, OrderedItemsLeaveCart, Order, CartItem
    <3> QED BY <1>0, <1>1, <3>1 DEF SameRow
  <2>2. CASE o \notin orders
    <3>1. CASE CommitCheckout(p)
      <4>1. /\ o = NewOrder(req[p], req[p].rows)
            /\ items' = {x \in items : x.id \notin req[p].lockedRows}
            /\ nextItem' = nextItem
            /\ req[p].pc = "commitCheckout"
        BY <2>2, <3>1 DEF CommitCheckout
      <4>2. o.orderItems = req[p].rows
        BY <4>1 DEF NewOrder
      <4> QED BY <4>1, <4>2 DEF SnapshotOK, Reading
    <3>2. CASE InsertOrder(p)
      <4>1. \A x \in o.orderItems : x.id = 0
        BY <2>2, <3>2 DEF InsertOrder, NewOrder
      <4> QED BY <1>0, <1>1, <1>2, <4>1
    <3> QED BY <2>2, <3>1, <3>2, OrdersChange
  <2> QED BY <2>1, <2>2
<1> QED
  BY <1>2, <1>4, <1>5, <1>6 DEF SnapshotOK, OrderedItemsLeaveCart, Reading

\* CheckoutInv is inductive.
LEMMA CheckoutInvariant == Spec => []CheckoutInv
<1>1. Init => CheckoutInv
  BY InitType DEF CheckoutInv, SnapshotOK, OrderedItemsLeaveCart, Init, Reading, Idle
<1>2. ASSUME CheckoutInv, [Next]_vars
      PROVE  CheckoutInv'
  <2>1. TypeInv'
    BY <1>2, NextType DEF CheckoutInv
  <2>2. CASE UNCHANGED vars
    BY <1>2, <2>1, <2>2
       DEF CheckoutInv, SnapshotOK, OrderedItemsLeaveCart, vars, tables, Reading
  <2>3. ASSUME NEW p \in Proc, Acts(p)
        PROVE  CheckoutInv'
    BY <1>2, <2>1, <2>3, SnapshotStep DEF CheckoutInv
  <2> QED BY <1>2, <2>2, <2>3 DEF Next, Acts, Quiescent
<1> QED BY <1>1, <1>2, PTL DEF Spec

\* A cart row that is part of an order is in no cart any more, whatever
\* requests run beside the checkout and wherever they fail.
THEOREM OrderedItemsLeave == Spec => []OrderedItemsLeaveCart
<1>1. CheckoutInv => OrderedItemsLeaveCart
  BY DEF CheckoutInv
<1> QED BY <1>1, CheckoutInvariant, PTL
-----------------------------------------------------------------------------
(***************************************************************************)
(* How often a row is ordered.  A checkout that reads it finds it in the   *)
(* cart, so no order has it yet; when the first order has it the row is    *)
(* gone, and only the checkouts that have read it by then can order it,    *)
(* each of them once.                                                      *)
(***************************************************************************)
OrdersOf(i) == {o \in orders : \E x \in o.orderItems : x.id = i}

\* p is about to make an order of the row with id i.
WillOrder(p, i) == Reading(req[p]) /\ \E x \in req[p].rows : x.id = i

\* f says which process has made an order of the row with id i.
MadeBy(f, i) ==
  /\ \A a, b \in OrdersOf(i) : f[a] = f[b] => a = b
  /\ \A p \in Proc : WillOrder(p, i) => \A o \in OrdersOf(i) : f[o] # p

OnceInv == \A i \in Nat \ {0} : \E f \in [OrdersOf(i) -> Proc] : MadeBy(f, i)

\* Whoever is about to order a row was so before, or the row is in a cart.
LEMMA ReadsStep ==
  ASSUME CheckoutInv, NEW p \in Proc, Acts(p), NEW q \in Proc, NEW i,
         WillOrder(q, i)'
  PROVE  WillOrder(q, i) \/ OrdersOf(i)' = {}
<1>0. TypeInv /\ req \in [Proc -> Request]
  BY DEF CheckoutInv, TypeInv, TypeOK
<1>1. CASE req'[q] = req[q]
  BY <1>1 DEF WillOrder, Reading
<1>2. CASE req'[q] # req[q]
  <2>1. q = p
    BY <1>0, <1>2, OthersWait
  <2>2. \/ FindCartItems(p) /\ req'[p].pc = "deleteCartItems"
        \/ DeleteCartItems(p) \/ DeleteCartShares(p)
        \/ LockItem(p) \/ LockShare(p)
    BY <1>0, <2>1, TransactionLabels DEF WillOrder, Reading
  <2>3. CASE FindCartItems(p) /\ req'[p].pc = "deleteCartItems"
    <3>1. /\ req'[p].rows = ItemsOf(req[p].cart)
          /\ UNCHANGED orders
      BY <1>0, <2>1, <2>3 DEF FindCartItems, Request, Return, Finish, Idle, tables
    <3>2. PICK x \in items : x.id = i
      BY <2>1, <3>1 DEF WillOrder, ItemsOf
    <3> QED BY <3>1, <3>2 DEF OrdersOf, CheckoutInv, OrderedItemsLeaveCart
  <2>4. CASE DeleteCartItems(p) \/ DeleteCartShares(p)
    BY <1>0, <2>1, <2>4
       DEF DeleteCartItems, DeleteCartShares, WillOrder, Reading, Request
  <2>5. CASE LockItem(p) \/ LockShare(p)
    BY <1>0, <2>1, <2>5, RowByRow DEF WillOrder, Reading
  <2> QED BY <2>2, <2>3, <2>4, <2>5
<1> QED BY <1>1, <1>2

\* A step that adds no order of a row leaves those that have made one.
LEMMA SameOrders ==
  ASSUME CheckoutInv, NEW p \in Proc, Acts(p), NEW i,
         NEW f \in [OrdersOf(i) -> Proc], MadeBy(f, i), OrdersOf(i)' = OrdersOf(i)
  PROVE  \E g \in [OrdersOf(i)' -> Proc] : MadeBy(g, i)'
<1>1. \A q \in Proc : WillOrder(q, i)' => \A o \in OrdersOf(i)' : f[o] # q
  BY ReadsStep DEF MadeBy
<1> QED BY <1>1 DEF MadeBy

\* OnceInv is kept: an order that is new was made by a process that had read the
\* row, and from now on is idle.
LEMMA OnceStep ==
  ASSUME CheckoutInv, OnceInv, NEW p \in Proc, Acts(p)
  PROVE  OnceInv'
<1>0. TypeInv /\ req \in [Proc -> Request]
  BY DEF CheckoutInv, TypeInv, TypeOK
<1> SUFFICES ASSUME NEW i \in Nat \ {0}
             PROVE  \E g \in [OrdersOf(i)' -> Proc] : MadeBy(g, i)'
  BY DEF OnceInv
<1>1. PICK f \in [OrdersOf(i) -> Proc] : MadeBy(f, i)
  BY DEF OnceInv
<1>2. CASE OrdersOf(i)' = OrdersOf(i)
  BY <1>1, <1>2, SameOrders
<1>3. CASE CommitCheckout(p) /\ OrdersOf(i)' # OrdersOf(i)
  <2> DEFINE o == NewOrder(req[p], req[p].rows)
             g == [a \in OrdersOf(i)' |-> IF a = o THEN p ELSE f[a]]
  <2>1. /\ orders' = orders \cup {o}
        /\ req[p].pc = "commitCheckout"
        /\ req'[p] = Idle
    BY <1>0, <1>3 DEF CommitCheckout, Finish
  <2>2. /\ OrdersOf(i)' = OrdersOf(i) \cup {o}
        /\ o \notin OrdersOf(i)
        /\ \E x \in o.orderItems : x.id = i
    <3> HIDE DEF o
    <3> QED BY <1>3, <2>1 DEF OrdersOf
  <2>3. WillOrder(p, i)
    BY <2>1, <2>2 DEF WillOrder, Reading, NewOrder
  <2>4. \A q \in Proc : WillOrder(q, i)' => q # p /\ WillOrder(q, i)
    BY <2>1, <2>2, ReadsStep DEF WillOrder, Reading, Idle
  <2> HIDE DEF o
  <2>5. g \in [OrdersOf(i)' -> Proc]
    BY <1>1, <2>2
  <2>6. \A a \in OrdersOf(i) : f[a] # p
    BY <1>1, <2>3 DEF MadeBy
  <2>7. \A a, b \in OrdersOf(i)' : g[a] = g[b] => a = b
    BY <1>1, <2>2, <2>6 DEF MadeBy
  <2>8. \A q \in Proc : WillOrder(q, i)' => \A a \in OrdersOf(i)' : g[a] # q
    BY <1>1, <2>2, <2>4 DEF MadeBy
  <2> HIDE DEF g
  <2> QED BY <2>5, <2>7, <2>8 DEF MadeBy
<1>4. CASE InsertOrder(p)
  <2> DEFINE line == [id |-> 0, cart |-> req[p].cart, menuItem |-> req[p].menuItem,
                      quantity |-> req[p].quantity, addedBy |-> req[p].user]
  <2>1. PICK o : orders' = orders \cup {o} /\ \A x \in o.orderItems : x.id = 0
    <3>1. orders' = orders \cup {NewOrder(req[p], {line})}
      BY <1>4 DEF InsertOrder
    <3>2. NewOrder(req[p], {line}).orderItems = {line} /\ line.id = 0
      BY DEF NewOrder
    <3> HIDE DEF line
    <3> QED BY <3>1, <3>2
  <2>2. OrdersOf(i)' = OrdersOf(i)
    BY <2>1 DEF OrdersOf
  <2> QED BY <1>2, <2>2
<1>5. CASE UNCHANGED orders
  BY <1>2, <1>5 DEF OrdersOf
<1> QED BY <1>2, <1>3, <1>4, <1>5, OrdersChange

\* A cart row gets into at most as many orders as there are requests that may
\* overlap, whatever is checked out, cleared and added beside it.
THEOREM OrdersOfOneItem == IsFiniteSet(Proc) => (Spec => []OrdersPerItem)
<1> SUFFICES ASSUME IsFiniteSet(Proc)
             PROVE  Spec => []OrdersPerItem
  OBVIOUS
<1>1. Init => OnceInv
  <2> SUFFICES ASSUME Init, NEW i \in Nat \ {0}
               PROVE  \E f \in [OrdersOf(i) -> Proc] : MadeBy(f, i)
    BY DEF OnceInv
  <2>1. OrdersOf(i) = {}
    BY DEF Init, OrdersOf
  <2>2. [o \in {} |-> o] \in [OrdersOf(i) -> Proc] /\ MadeBy([o \in {} |-> o], i)
    BY <2>1 DEF MadeBy
  <2> QED BY <2>2
<1>2. ASSUME CheckoutInv, OnceInv, [Next]_vars
      PROVE  OnceInv'
  <2>1. CASE UNCHANGED vars
    <3>1. \A i : /\ OrdersOf(i)' = OrdersOf(i)
                 /\ \A q : WillOrder(q, i)' <=> WillOrder(q, i)
      BY <2>1 DEF vars, tables, OrdersOf, WillOrder, Reading
    <3> QED BY <1>2, <3>1 DEF OnceInv, MadeBy
  <2> QED BY <1>2, <2>1, OnceStep DEF Next, Acts, Quiescent
<1>3. CheckoutInv /\ OnceInv => OrdersPerItem
  <2> SUFFICES ASSUME CheckoutInv, OnceInv, NEW i \in 1 .. nextItem
               PROVE  Cardinality(OrdersOf(i)) <= Cardinality(Proc)
    BY DEF OrdersPerItem, OrdersOf
  <2>1. i \in Nat \ {0}
    BY DEF CheckoutInv, TypeInv, TypeOK
  <2>2. PICK f \in [OrdersOf(i) -> Proc] : MadeBy(f, i)
    BY <2>1 DEF OnceInv
  <2>3. f \in Injection(OrdersOf(i), Proc)
    BY <2>2 DEF MadeBy, Injection, IsInjective
  <2> QED BY <2>3, FS_Injection
<1> QED BY <1>1, <1>2, <1>3, CheckoutInvariant, PTL DEF Spec
-----------------------------------------------------------------------------
(***************************************************************************)
(* Only members of a cart act on it.  A request that has passed the access *)
(* check may be out of date, so what it keeps is not that its user is a    *)
(* member now but that he was made one at some time (granted).             *)
(***************************************************************************)
Allowed(r) ==
  \/ r.user = r.cart
  \/ \E role \in Role :
       RoleSuffices(r.op, role) /\ <<r.cart, r.user, role>> \in granted

MembersOK ==
  /\ \A s \in shares : <<s.cart, s.user, s.role>> \in granted
  /\ \A p \in Proc : req[p].pc \notin Unchecked => Allowed(req[p])

MembersInv == TypeInv /\ MembersOK /\ OnlyMembers

\* A share never changes its id, its cart, its user or its role.
SameShare(s, t) ==
  s.id = t.id /\ s.cart = t.cart /\ s.user = t.user /\ s.role = t.role

\* Every share is an old one, or one that a shareCart has inserted and granted.
LEMMA SharesChange ==
  ASSUME TypeInv, NEW p \in Proc, Acts(p)
  PROVE  /\ granted \subseteq granted'
         /\ \A s \in shares' :
              \/ \E t \in shares : SameShare(t, s)
              \/ /\ CommitShares(p)
                 /\ s \in req[p].inserted
                 /\ <<s.cart, s.user, s.role>> \in granted'
<1>0. shares \subseteq CartShare
  BY DEF TypeInv, TypeOK
<1>1. CASE granted' = granted /\ shares' \subseteq shares
  BY <1>1 DEF SameShare
<1>2. CASE Start(p) \/ Deadlocked(p) \/ Fail(p) \/ Return(p)
  BY <1>1, <1>2 DEF Start, StartAddItem, StartUpdateItemQuantity, StartDeleteItem,
     StartGetCartItems, StartShareCart, StartRemoveSharedUser,
     StartCheckoutCart, StartCreateOrder, Begin, Deadlocked, Fail, Return, tables
<1>3. CASE UpdateShare(p) /\ ~Return(p)
  <2> DEFINE marked == ShareOf(req[p].cart, req[p].user)
  <2>1. /\ granted' = granted
        /\ shares' = (shares \ marked) \cup
                       {[s EXCEPT !.hasContributed = TRUE] : s \in marked}
    BY <1>3 DEF UpdateShare
  <2>2. marked \subseteq shares
    BY DEF ShareOf, SharesOf
  <2> HIDE DEF marked
  <2>3. ASSUME NEW t \in marked
        PROVE  SameShare(t, [t EXCEPT !.hasContributed = TRUE])
    BY <1>0, <2>2 DEF CartShare, SameShare
  <2>4. ASSUME NEW s \in shares \ marked
        PROVE  SameShare(s, s)
    BY DEF SameShare
  <2> QED BY <1>0, <2>1, <2>2, <2>3, <2>4
<1>4. CASE CommitShares(p)
  <2>1. \A s \in shares : SameShare(s, s)
    BY DEF SameShare
  <2> QED BY <1>4, <2>1 DEF CommitShares
<1>5. CASE DeleteShare(p) \/ CommitCheckout(p)
  BY <1>1, <1>5 DEF DeleteShare, CommitCheckout
<1>6. CASE \/ FindOwnCart(p) \/ CreateCart(p) \/ GetCartAccess(p)
           \/ FindExistingItem(p) \/ WriteItem(p) \/ FindItem(p)
           \/ UpdateItem(p) \/ DeleteItem(p) \/ ListItems(p)
  BY <1>1, <1>2, <1>6 DEF FindOwnCart, CreateCart, GetCartAccess,
     FindExistingItem, WriteItem, FindItem, UpdateItem, DeleteItem, ListItems, tables
<1>7. CASE \/ LockItem(p) \/ LockShare(p) \/ DeleteShares(p) \/ CreateShare(p)
           \/ FindShare(p) \/ FindCartItems(p) \/ DeleteCartItems(p)
           \/ DeleteCartShares(p)
  BY <1>1, <1>2, <1>7 DEF LockItem, LockShare, DeleteShares, CreateShare, FindShare,
     FindCartItems, DeleteCartItems, DeleteCartShares, tables
<1>8. CASE InsertOrder(p) \/ ClearAccess(p) \/ ClearItems(p) \/ CommitClear(p)
  BY <1>1, <1>2, <1>8 DEF InsertOrder, ClearAccess, ClearItems, CommitClear, tables
<1> QED
  BY <1>2, <1>3, <1>4, <1>5, <1>6, <1>7, <1>8 DEF Acts, Step

\* A request gets past the access check by getOwnCart or getCartAccess, and
\* keeps its cart from then on.
LEMMA AccessIsChecked ==
  ASSUME TypeInv, NEW p \in Proc, Acts(p), req'[p].pc \notin Unchecked
  PROVE  /\ req'[p].user = req[p].user /\ req'[p].op = req[p].op
         /\ \/ req[p].pc \notin Unchecked /\ req'[p].cart = req[p].cart
            \/ req'[p].cart = req[p].user
            \/ HasAccess(req[p]) /\ req'[p].cart = req[p].cart
<1> USE DEF TypeInv, TypeOK, Request
<1>1. ~Finish(p)
  BY DEF Finish, Idle, Unchecked
<1>2. ASSUME NEW r, Begin(p, r), r.pc \in Unchecked
      PROVE  FALSE
  BY <1>2 DEF Begin
<1>3. ~Start(p)
  <2> USE <1>2 DEF Unchecked, Idle, Entry
  <2>1. ~StartAddItem(p)
    BY DEF StartAddItem
  <2>2. ~StartUpdateItemQuantity(p)
    BY DEF StartUpdateItemQuantity
  <2>3. ~StartDeleteItem(p)
    BY DEF StartDeleteItem
  <2>4. ~StartGetCartItems(p)
    BY DEF StartGetCartItems
  <2>5. ~StartShareCart(p)
    BY DEF StartShareCart
  <2>6. ~StartRemoveSharedUser(p)
    BY DEF StartRemoveSharedUser
  <2>7. ~StartCheckoutCart(p)
    BY DEF StartCheckoutCart
  <2>8. ~StartCreateOrder(p)
    BY DEF StartCreateOrder
  <2> QED
    BY <2>1, <2>2, <2>3, <2>4, <2>5, <2>6, <2>7, <2>8 DEF Start
<1>4. CASE FindOwnCart(p) \/ CreateCart(p)
  BY <1>1, <1>4 DEF FindOwnCart, CreateCart, UseOwnCart, Goto, Return, Unchecked
<1>5. CASE GetCartAccess(p)
  BY <1>1, <1>5 DEF GetCartAccess, Return
<1>6. CASE FindItem(p)
  BY <1>1, <1>6 DEF FindItem, Return, Unchecked
<1>7. CASE FindExistingItem(p) \/ WriteItem(p) \/ UpdateShare(p)
  BY <1>1, <1>7 DEF FindExistingItem, WriteItem, UpdateShare, Goto, Return, Unchecked
<1>8. CASE \/ DeleteShares(p) \/ FindShare(p) \/ FindCartItems(p)
           \/ DeleteCartItems(p) \/ DeleteCartShares(p) \/ InsertOrder(p)
           \/ ClearAccess(p) \/ ClearItems(p)
  BY <1>1, <1>8 DEF DeleteShares, FindShare, FindCartItems, DeleteCartItems,
     DeleteCartShares, InsertOrder, ClearAccess, ClearItems, Goto, Return, Unchecked
<1>9. CASE \/ UpdateItem(p) \/ DeleteItem(p) \/ ListItems(p) \/ CommitShares(p)
           \/ DeleteShare(p) \/ CommitCheckout(p) \/ CommitClear(p)
           \/ Deadlocked(p) \/ Fail(p)
  BY <1>1, <1>9 DEF UpdateItem, DeleteItem, ListItems, CommitShares, DeleteShare,
     CommitCheckout, CommitClear, Deadlocked, Fail, Return
<1>10. CASE LockItem(p) \/ LockShare(p) \/ CreateShare(p)
  BY <1>10, RowByRow DEF Unchecked
<1> QED
  BY <1>3, <1>4, <1>5, <1>6, <1>7, <1>8, <1>9, <1>10 DEF Acts, Step

\* No step lets somebody in whom the cart was not shared with.
LEMMA MembersStep ==
  ASSUME MembersInv, NEW p \in Proc, Acts(p)
  PROVE  MembersOK' /\ OnlyMembers'
<1> USE DEF MembersInv
<1>0. /\ TypeInv /\ items \subseteq CartItem /\ orders \subseteq Order
      /\ shares \subseteq CartShare
      /\ req \in [Proc -> Request]
  BY DEF TypeInv, TypeOK
<1>1. granted \subseteq granted'
  BY <1>0, SharesChange
<1>2. \A s \in shares' : <<s.cart, s.user, s.role>> \in granted'
  BY <1>0, <1>1, SharesChange DEF MembersOK, SameShare
<1>3. ASSUME NEW q \in Proc, req'[q].pc \notin Unchecked
      PROVE  \/ req'[q].user = req'[q].cart
             \/ \E role \in Role : /\ RoleSuffices(req'[q].op, role)
                                   /\ <<req'[q].cart, req'[q].user, role>> \in granted'
  <2>1. CASE req'[q] = req[q]
    BY <1>1, <1>3, <2>1 DEF MembersOK, Allowed
  <2>2. CASE req'[q] # req[q]
    <3>1. q = p
      BY <1>0, <2>2, OthersWait
    <3>2. CASE HasAccess(req[p]) /\ req'[p].cart = req[p].cart
      <4>1. /\ req'[p].user = req[p].user /\ req'[p].op = req[p].op
        BY <1>0, <1>3, <3>1, AccessIsChecked
      <4>2. CASE req[p].user = req[p].cart
        BY <3>1, <3>2, <4>1, <4>2
      <4>3. CASE req[p].user # req[p].cart
        <5>1. PICK s \in ShareOf(req[p].cart, req[p].user) :
                RoleSuffices(req[p].op, s.role)
          BY <3>2, <4>3 DEF HasAccess
        <5>2. /\ s \in shares /\ s.cart = req[p].cart /\ s.user = req[p].user
              /\ s.role \in Role
          BY <1>0 DEF ShareOf, SharesOf, CartShare
        <5> QED BY <1>1, <3>1, <3>2, <4>1, <5>1, <5>2 DEF MembersOK
      <4> QED BY <4>2, <4>3
    <3> QED
      BY <1>0, <1>1, <1>3, <3>1, <3>2, AccessIsChecked DEF MembersOK, Allowed
  <2> QED BY <2>1, <2>2
<1>4. ASSUME NEW x \in items'
      PROVE  \/ x.addedBy = x.cart
             \/ \E role \in Role : <<x.cart, x.addedBy, role>> \in granted'
  <2>1. CASE \E y \in items : SameRow(y, x)
    BY <1>1, <2>1 DEF SameRow, OnlyMembers
  <2>2. CASE x = NewItem(req[p]) /\ req[p].pc \in {"writeItem", "updateShare"}
    <3>1. x.addedBy = req[p].user /\ x.cart = req[p].cart
      BY <2>2 DEF NewItem
    <3>2. Allowed(req[p])
      BY <2>2 DEF MembersOK, Unchecked
    <3> QED BY <1>1, <3>1, <3>2 DEF Allowed
  <2> QED BY <1>0, <2>1, <2>2, RowsPersist
<1>5. ASSUME NEW o \in orders'
      PROVE  \/ o.checkedOutBy = o.cart
             \/ <<o.cart, o.checkedOutBy, "CHECKOUT_ALLOWED">> \in granted'
  <2>1. CASE o \in orders
    BY <1>1, <2>1 DEF OnlyMembers
  <2>2. CASE o \notin orders
    <3>1. o.cart = req[p].cart /\ o.checkedOutBy = req[p].user
      BY <2>2, OrdersChange DEF CommitCheckout, InsertOrder, NewOrder
    <3>2. Allowed(req[p]) /\ req[p].op \in {"checkoutCart", "createOrder"}
      BY <1>0, <2>2, OrdersChange
         DEF CommitCheckout, InsertOrder, MembersOK, Unchecked, TypeInv, ArgumentsOK
    <3> QED BY <1>1, <3>1, <3>2 DEF Allowed, RoleSuffices
  <2> QED BY <2>1, <2>2
<1> QED
  BY <1>2, <1>3, <1>4, <1>5 DEF MembersOK, Allowed, OnlyMembers

\* Every item was added, and every order was made, by the owner of the cart or
\* by a user the cart was shared with, for an order with CHECKOUT_ALLOWED.
THEOREM MembersOnly == Spec => []OnlyMembers
<1>1. Init => MembersInv
  BY InitType DEF MembersInv, MembersOK, OnlyMembers, Init, Idle, Unchecked
<1>2. ASSUME MembersInv, [Next]_vars
      PROVE  MembersInv'
  <2>1. TypeInv'
    BY <1>2, NextType DEF MembersInv
  <2>2. CASE UNCHANGED vars
    BY <1>2, <2>1, <2>2
       DEF MembersInv, MembersOK, OnlyMembers, Allowed, vars, tables
  <2>3. ASSUME NEW p \in Proc, Acts(p)
        PROVE  MembersInv'
    BY <1>2, <2>1, <2>3, MembersStep DEF MembersInv
  <2> QED BY <1>2, <2>2, <2>3 DEF Next, Acts, Quiescent
<1>3. MembersInv => OnlyMembers
  BY DEF MembersInv
<1> QED BY <1>1, <1>2, <1>3, PTL DEF Spec
-----------------------------------------------------------------------------
(***************************************************************************)
(* Unique keys.  A transaction that has created an item but waits for the  *)
(* share keeps the item's key to itself, and so does a shareCart with the  *)
(* keys of the shares it has inserted; a list of users to share with names *)
(* a user once, and a share that has the key of an inserted one is one     *)
(* that the same request has deleted.  The snapshot of a checkout then has *)
(* a menu item at most once, and so has its order.                         *)
(***************************************************************************)
Reserves(r) == r.pc = "updateShare" /\ r.rows = {}

ReservedOK ==
  \A p \in Proc : Reserves(req[p]) =>
    /\ ItemOf(req[p].cart, req[p].menuItem) = {}
    /\ \A q \in Proc \ {p} : Reserves(req[q]) =>
         \/ req[q].cart # req[p].cart
         \/ req[q].menuItem # req[p].menuItem

GrantsOK ==
  \A p \in Proc : \A g, h \in req[p].grants : g.user = h.user => g = h

InsertedOK ==
  \A p \in Proc : \A s \in req[p].inserted :
    /\ \A g \in ValidGrants(req[p]) : g.user # s.user
    /\ \A t \in req[p].inserted : (t.cart = s.cart /\ t.user = s.user) => t = s
    /\ \A t \in shares :
         (t.cart = s.cart /\ t.user = s.user) => t.id \in req[p].lockedShares
    /\ \A q \in Proc \ {p} : \A t \in req[q].inserted :
         ~(t.cart = s.cart /\ t.user = s.user)

LinesOK ==
  \A p \in Proc : Reading(req[p]) =>
    \A x, y \in req[p].rows : x.menuItem = y.menuItem => x = y

KeysInv ==
  /\ CheckoutInv
  /\ UniqueKeys
  /\ ReservedOK
  /\ GrantsOK
  /\ InsertedOK
  /\ LinesOK
  /\ OrdersFromOneCart

\* A statement that neither ends a shareCart nor takes its list further leaves
\* the list and the shares it has inserted and deleted alone.
LEMMA ListKept ==
  ASSUME TypeInv, NEW p \in Proc, Step(p)
  PROVE  \/ Finish(p) \/ LockShare(p) \/ CreateShare(p)
         \/ /\ req'[p].grants = req[p].grants /\ req'[p].user = req[p].user
            /\ req'[p].inserted = req[p].inserted
            /\ req'[p].lockedShares = req[p].lockedShares
<1>0. req \in [Proc -> Request] /\ (Return(p) => Finish(p))
  BY DEF TypeInv, TypeOK, Return
<1>1. CASE FindOwnCart(p) \/ CreateCart(p) \/ GetCartAccess(p)
  BY <1>0, <1>1 DEF FindOwnCart, CreateCart, GetCartAccess, UseOwnCart, Goto, Request
<1>2. CASE FindItem(p) /\ ~Return(p)
  <2>1. PICK x \in ItemWithId(req[p].itemId) :
          req' = [req EXCEPT ![p].cart = x.cart, ![p].pc = "access"]
    BY <1>2 DEF FindItem
  <2> QED BY <1>0, <2>1 DEF Request
<1>3. CASE FindExistingItem(p) \/ WriteItem(p) \/ UpdateShare(p)
  BY <1>0, <1>3 DEF FindExistingItem, WriteItem, UpdateShare, Goto, Request
<1>4. CASE \/ UpdateItem(p) \/ DeleteItem(p) \/ ListItems(p) \/ CommitShares(p)
           \/ DeleteShare(p) \/ CommitCheckout(p) \/ CommitClear(p)
  BY <1>0, <1>4 DEF UpdateItem, DeleteItem, ListItems, CommitShares, DeleteShare,
     CommitCheckout, CommitClear
<1>5. CASE DeleteShares(p) \/ FindShare(p) \/ FindCartItems(p) \/ DeleteCartItems(p)
  BY <1>0, <1>5 DEF DeleteShares, FindShare, FindCartItems, DeleteCartItems, Goto, Request
<1>6. CASE DeleteCartShares(p) \/ InsertOrder(p) \/ ClearAccess(p) \/ ClearItems(p)
  BY <1>0, <1>6 DEF DeleteCartShares, InsertOrder, ClearAccess, ClearItems, Goto, Request
<1>7. CASE LockItem(p)
  <2>1. PICK i : req' = [req EXCEPT ![p].lockedRows = @ \cup {i}]
    BY <1>7 DEF LockItem
  <2> QED BY <1>0, <2>1 DEF Request
<1> QED
  BY <1>0, <1>1, <1>2, <1>3, <1>4, <1>5, <1>6, <1>7 DEF Step

\* The users a share request lists are listed once.
LEMMA GrantsStep ==
  ASSUME KeysInv, NEW p \in Proc, Acts(p)
  PROVE  GrantsOK'
<1>0. TypeInv /\ GrantsOK /\ req \in [Proc -> Request] /\ req[p] \in Request
  BY DEF KeysInv, CheckoutInv, TypeInv, TypeOK
<1>1. CASE req'[p].grants \subseteq req[p].grants
  <2>1. \A q \in Proc : req'[q].grants \subseteq req[q].grants
    BY <1>0, <1>1, OthersWait
  <2> QED BY <1>0, <2>1 DEF GrantsOK
<1>2. CASE Deadlocked(p) \/ Fail(p) \/ Finish(p)
  <2>1. req'[p] = Idle
    BY <1>0, <1>2 DEF Deadlocked, Fail, Return, Finish
  <2> QED BY <1>1, <2>1 DEF Idle
<1>3. CASE StartShareCart(p)
  <2>1. PICK u \in User, to \in SUBSET User : \E role \in [to -> Role] :
          Begin(p, [Idle EXCEPT
            !.op = "shareCart", !.pc = "findOwnCart", !.user = u,
            !.grants = {[user |-> v, role |-> role[v]] : v \in to}])
    BY <1>3 DEF StartShareCart
  <2>2. PICK role \in [to -> Role] :
          req'[p].grants = {[user |-> v, role |-> role[v]] : v \in to}
    BY <1>0, <2>1 DEF Begin, Idle
  <2>3. \A g, h \in req'[p].grants : g.user = h.user => g = h
    BY <2>2
  <2> QED BY <1>0, <2>3, OthersWait DEF GrantsOK
<1>4. ASSUME NEW r, Begin(p, r), r.grants = {}
      PROVE  GrantsOK'
  BY <1>0, <1>1, <1>4 DEF Begin
<1>5. CASE Start(p) /\ ~StartShareCart(p)
  <2> USE <1>4 DEF Idle
  <2>1. CASE StartAddItem(p)
    BY <2>1 DEF StartAddItem
  <2>2. CASE StartUpdateItemQuantity(p)
    BY <2>2 DEF StartUpdateItemQuantity
  <2>3. CASE StartDeleteItem(p)
    BY <2>3 DEF StartDeleteItem
  <2>4. CASE StartGetCartItems(p)
    BY <2>4 DEF StartGetCartItems
  <2>5. CASE StartRemoveSharedUser(p)
    BY <2>5 DEF StartRemoveSharedUser
  <2>6. CASE StartCheckoutCart(p)
    BY <2>6 DEF StartCheckoutCart
  <2>7. CASE StartCreateOrder(p)
    BY <2>7 DEF StartCreateOrder
  <2> QED BY <1>5, <2>1, <2>2, <2>3, <2>4, <2>5, <2>6, <2>7 DEF Start
<1>6. CASE Step(p) /\ ~Finish(p)
  BY <1>0, <1>1, <1>6, ListKept, RowByRow
<1> QED
  BY <1>2, <1>3, <1>5, <1>6 DEF Acts

\* Starting or ending a request leaves it with no shares inserted.
LEMMA NothingInserted ==
  ASSUME TypeInv, NEW p \in Proc, Start(p) \/ Deadlocked(p) \/ Fail(p) \/ Finish(p)
  PROVE  req'[p].inserted = {}
<1> USE DEF TypeInv, TypeOK, Idle
<1>1. CASE Deadlocked(p) \/ Fail(p) \/ Finish(p)
  BY <1>1 DEF Deadlocked, Fail, Return, Finish
<1>2. ASSUME NEW r, Begin(p, r), r.inserted = {}
      PROVE  req'[p].inserted = {}
  BY <1>2 DEF Begin
<1>3. CASE Start(p)
  <2> USE <1>2
  <2>1. CASE StartAddItem(p)
    BY <2>1 DEF StartAddItem
  <2>2. CASE StartUpdateItemQuantity(p)
    BY <2>2 DEF StartUpdateItemQuantity
  <2>3. CASE StartDeleteItem(p)
    BY <2>3 DEF StartDeleteItem
  <2>4. CASE StartGetCartItems(p)
    BY <2>4 DEF StartGetCartItems
  <2>5. CASE StartShareCart(p)
    BY <2>5 DEF StartShareCart
  <2>6. CASE StartRemoveSharedUser(p)
    BY <2>6 DEF StartRemoveSharedUser
  <2>7. CASE StartCheckoutCart(p)
    BY <2>7 DEF StartCheckoutCart
  <2>8. CASE StartCreateOrder(p)
    BY <2>8 DEF StartCreateOrder
  <2> QED
    BY <1>3, <2>1, <2>2, <2>3, <2>4, <2>5, <2>6, <2>7, <2>8 DEF Start
<1> QED BY <1>1, <1>3

\* The key of a share that is inserted is free, or its row is deleted with it.
LEMMA InsertedStep ==
  ASSUME KeysInv, NEW p \in Proc, Acts(p)
  PROVE  InsertedOK'
<1>0. /\ TypeInv /\ InsertedOK /\ GrantsOK /\ req \in [Proc -> Request]
      /\ \A q \in Proc \ {p} : req'[q] = req[q]
  BY OthersWait DEF KeysInv, CheckoutInv, TypeInv, TypeOK
<1>1. CASE CreateShare(p)
  <2> DEFINE r == req[p]
  <2>1. PICK g \in ValidGrants(r) :
          /\ ~ShareKeyReserved(p, r.cart, g.user)
          /\ \/ req' = [req EXCEPT ![p].grants = @ \ {g}]
             \/ /\ \A s \in ShareOf(r.cart, g.user) : s.id \in r.lockedShares
                /\ req' = [req EXCEPT ![p].grants = @ \ {g},
                                      ![p].inserted = @ \cup {NewShare(r, g)}]
    BY <1>1 DEF CreateShare
  <2>2. /\ shares' = shares
        /\ req'[p].user = r.user /\ req'[p].lockedShares = r.lockedShares
        /\ req'[p].grants = r.grants \ {g}
        /\ ValidGrants(req'[p]) = ValidGrants(r) \ {g}
    BY <1>0, <1>1, <2>1 DEF CreateShare, Request, ValidGrants
  <2>3. CASE req' = [req EXCEPT ![p].grants = @ \ {g}]
    <3>1. req'[p].inserted = r.inserted
      BY <1>0, <2>3 DEF Request
    <3> QED BY <1>0, <2>2, <3>1 DEF InsertedOK
  <2>4. CASE /\ \A s \in ShareOf(r.cart, g.user) : s.id \in r.lockedShares
             /\ req' = [req EXCEPT ![p].grants = @ \ {g},
                                   ![p].inserted = @ \cup {NewShare(r, g)}]
    <3>1. PICK new : new = NewShare(r, g)
      OBVIOUS
    <3>2. req'[p].inserted = r.inserted \cup {new}
      BY <1>0, <2>4, <3>1 DEF Request
    <3>3. new.cart = r.cart /\ new.user = g.user
      BY <3>1 DEF NewShare
    <3>4. \A h \in ValidGrants(req'[p]) : h.user # new.user
      BY <1>0, <2>1, <2>2, <3>3 DEF GrantsOK, ValidGrants
    <3>5. \A t \in r.inserted : t.user # new.user
      BY <1>0, <2>1, <3>3 DEF InsertedOK
    <3>6. \A t \in shares : (t.cart = new.cart /\ t.user = new.user) =>
            t.id \in r.lockedShares
      BY <2>4, <3>3 DEF ShareOf, SharesOf
    <3>7. \A q \in Proc \ {p} : \A t \in req[q].inserted :
            ~(t.cart = new.cart /\ t.user = new.user)
      BY <2>1, <3>3 DEF ShareKeyReserved, HoldsShareKey
    <3> QED
      BY <1>0, <2>2, <3>2, <3>4, <3>5, <3>6, <3>7 DEF InsertedOK
  <2> QED BY <2>1, <2>3, <2>4
<1>2. CASE CommitShares(p)
  <2>1. req'[p].inserted = {} /\ shares' \subseteq shares \cup req[p].inserted
    BY <1>0, <1>2, NothingInserted DEF CommitShares
  <2> QED BY <1>0, <2>1 DEF InsertedOK
<1>3. CASE ~CreateShare(p) /\ ~CommitShares(p)
  <2>1. \A t \in shares' : \E s \in shares : SameShare(s, t)
    BY <1>0, <1>3, SharesChange
  <2>2. \/ req'[p].inserted = {}
        \/ /\ req'[p].inserted = req[p].inserted
           /\ ValidGrants(req'[p]) \subseteq ValidGrants(req[p])
           /\ req[p].lockedShares \subseteq req'[p].lockedShares
    <3>1. CASE LockShare(p)
      <4>1. PICK i : req' = [req EXCEPT ![p].lockedShares = @ \cup {i}]
        BY <3>1 DEF LockShare
      <4> QED BY <1>0, <4>1 DEF Request, ValidGrants
    <3> QED
      BY <1>0, <1>3, <3>1, NothingInserted, ListKept DEF Acts, ValidGrants
  <2>3. ASSUME NEW q \in Proc, NEW s \in req'[q].inserted
        PROVE  /\ s \in req[q].inserted
               /\ ValidGrants(req'[q]) \subseteq ValidGrants(req[q])
               /\ req[q].lockedShares \subseteq req'[q].lockedShares
    BY <1>0, <2>2, <2>3
  <2> QED BY <1>0, <2>1, <2>3 DEF InsertedOK, SameShare
<1> QED BY <1>1, <1>2, <1>3

\* What a request that waits for the share has found out.
LEMMA ReserveFacts ==
  ASSUME TypeInv, NEW p \in Proc, Acts(p), Reserves(req'[p])
  PROVE  /\ ItemOf(req[p].cart, req[p].menuItem) = {}
         /\ ~KeyReserved(p, req[p].cart, req[p].menuItem)
         /\ req'[p].cart = req[p].cart /\ req'[p].menuItem = req[p].menuItem
         /\ UNCHANGED items
<1>1. WriteItem(p) /\ ~Return(p) /\ req'[p].pc = "updateShare"
  BY TransactionLabels DEF Reserves
<1>2. ~Finish(p)
  BY <1>1 DEF Finish, Idle, TypeInv, TypeOK
<1>3. /\ req' = [req EXCEPT ![p].pc = "updateShare"]
      /\ ItemStatementSucceeds(req[p]) /\ ~ItemStatementWaits(p)
      /\ UNCHANGED items
  BY <1>1, <1>2 DEF WriteItem, Goto, tables
<1>4. /\ req'[p].rows = req[p].rows
      /\ req'[p].cart = req[p].cart /\ req'[p].menuItem = req[p].menuItem
  BY <1>3 DEF TypeInv, TypeOK, Request
<1> QED
  BY <1>3, <1>4 DEF Reserves, ItemStatementSucceeds, ItemStatementWaits

\* Every insert respects the unique keys, of rows and of rows to come.
LEMMA KeysStep ==
  ASSUME KeysInv, NEW p \in Proc, Acts(p)
  PROVE  UniqueKeys' /\ ReservedOK' /\ LinesOK' /\ OrdersFromOneCart'
<1> USE DEF KeysInv, CheckoutInv
<1>0. /\ TypeInv /\ items \subseteq CartItem /\ orders \subseteq Order
      /\ shares \subseteq CartShare /\ nextItem \in Nat
      /\ req \in [Proc -> Request]
  BY DEF TypeInv, TypeOK
<1>2. ASSUME NEW x \in items', NEW y \in items',
             x.id = y.id \/ (x.cart = y.cart /\ x.menuItem = y.menuItem)
      PROVE  x = y
  <2>1. CASE items' \subseteq items
    BY <1>2, <2>1 DEF UniqueKeys
  <2>2. CASE \E ids \in SUBSET Nat, n \in Nat : SetQuantity(ids, n)
    <3>1. PICK ids \in SUBSET Nat, n \in Nat : SetQuantity(ids, n)
      BY <2>2
    <3>2. PICK v \in items :
            x = IF v.id \in ids THEN [v EXCEPT !.quantity = n] ELSE v
      BY <3>1 DEF SetQuantity
    <3>3. PICK w \in items :
            y = IF w.id \in ids THEN [w EXCEPT !.quantity = n] ELSE w
      BY <3>1 DEF SetQuantity
    <3>4. SameRow(v, x) /\ SameRow(w, y)
      BY <1>0, <3>2, <3>3 DEF SameRow, CartItem
    <3>5. v = w
      BY <1>2, <3>4 DEF SameRow, UniqueKeys
    <3> QED BY <3>2, <3>3, <3>5
  <2>3. CASE Inserts(p)
    <3>1. \A z \in items : z.id # nextItem
      BY <1>0 DEF SnapshotOK, CartItem
    <3>2. ItemOf(req[p].cart, req[p].menuItem) = {}
      BY <2>3 DEF Inserts, ReservedOK, Reserves
    <3>3. LET new == NewItem(req[p])
          IN  \A z \in items : /\ z.id # new.id
                               /\ ~(z.cart = new.cart /\ z.menuItem = new.menuItem)
      BY <3>1, <3>2 DEF NewItem, ItemOf, ItemsOf
    <3>4. items' = items \cup {NewItem(req[p])}
      BY <2>3 DEF Inserts
    <3> QED BY <1>2, <3>3, <3>4 DEF UniqueKeys
  <2> QED BY <1>0, <2>1, <2>2, <2>3, ItemsChange
<1>3. ASSUME NEW s \in shares', NEW t \in shares', s.cart = t.cart, s.user = t.user
      PROVE  s = t
  <2>1. CASE shares' \subseteq shares
    BY <1>3, <2>1 DEF UniqueKeys
  <2>2. CASE UpdateShare(p) /\ ~(shares' \subseteq shares)
    <3> DEFINE marked == ShareOf(req[p].cart, req[p].user)
    <3>1. shares' = (shares \ marked) \cup
                      {[z EXCEPT !.hasContributed = TRUE] : z \in marked}
      BY <2>2 DEF UpdateShare, Return, tables
    <3>2. \A z \in shares' : \E v \in shares :
            /\ v.cart = z.cart /\ v.user = z.user
            /\ z = IF v \in marked THEN [v EXCEPT !.hasContributed = TRUE] ELSE v
      <4>1. marked \subseteq CartShare /\ marked \subseteq shares
        BY <1>0 DEF ShareOf, SharesOf
      <4> HIDE DEF marked
      <4> QED BY <3>1, <4>1 DEF CartShare
    <3>3. PICK v \in shares :
            /\ v.cart = s.cart /\ v.user = s.user
            /\ s = IF v \in marked THEN [v EXCEPT !.hasContributed = TRUE] ELSE v
      BY <3>2
    <3>4. PICK w \in shares :
            /\ w.cart = t.cart /\ w.user = t.user
            /\ t = IF w \in marked THEN [w EXCEPT !.hasContributed = TRUE] ELSE w
      BY <3>2
    <3>5. v = w
      BY <1>3, <3>3, <3>4 DEF UniqueKeys
    <3> HIDE DEF marked
    <3> QED BY <3>3, <3>4, <3>5
  <2>3. CASE CommitShares(p)
    <3>1. shares' = {z \in shares : z.id \notin req[p].lockedShares}
                      \cup req[p].inserted
      BY <2>3 DEF CommitShares
    <3> QED BY <1>3, <3>1 DEF UniqueKeys, InsertedOK
  <2>4. \/ shares' \subseteq shares \/ UpdateShare(p) \/ CommitShares(p)
    BY DEF Acts, Step, FindOwnCart, CreateCart, GetCartAccess, FindExistingItem,
       WriteItem, FindItem, UpdateItem, DeleteItem, ListItems, LockItem, LockShare,
       DeleteShares, CreateShare, FindShare, DeleteShare, FindCartItems,
       DeleteCartItems, DeleteCartShares, CommitCheckout, InsertOrder, ClearAccess,
       ClearItems, CommitClear, Start, StartAddItem, StartUpdateItemQuantity,
       StartDeleteItem, StartGetCartItems, StartShareCart, StartRemoveSharedUser,
       StartCheckoutCart, StartCreateOrder, Begin, Deadlocked, Fail, Return, tables
  <2> QED BY <2>1, <2>2, <2>3, <2>4
<1>4. ASSUME NEW q \in Proc, Reserves(req'[q])
      PROVE  /\ \A y \in items' :
                  ~(y.cart = req'[q].cart /\ y.menuItem = req'[q].menuItem)
             /\ \A r \in Proc \ {q} : Reserves(req'[r]) =>
                  \/ req'[r].cart # req'[q].cart
                  \/ req'[r].menuItem # req'[q].menuItem
  <2>1. CASE q = p
    <3>1. /\ ItemOf(req[p].cart, req[p].menuItem) = {}
          /\ ~KeyReserved(p, req[p].cart, req[p].menuItem)
          /\ req'[p].cart = req[p].cart /\ req'[p].menuItem = req[p].menuItem
          /\ UNCHANGED items
      BY <1>0, <1>4, <2>1, ReserveFacts
    <3>2. \A y \in items' :
            ~(y.cart = req'[p].cart /\ y.menuItem = req'[p].menuItem)
      BY <3>1 DEF ItemOf, ItemsOf
    <3>3. \A r \in Proc \ {p} : req'[r] = req[r]
      BY <1>0, OthersWait
    <3> QED BY <2>1, <3>1, <3>2, <3>3 DEF KeyReserved, HoldsKey, Reserves
  <2>2. CASE q # p
    <3>1. req'[q] = req[q] /\ Reserves(req[q])
      BY <1>0, <1>4, <2>2, OthersWait
    <3>2. ItemOf(req[q].cart, req[q].menuItem) = {}
      BY <3>1 DEF ReservedOK
    <3>3. ASSUME NEW r \in Proc \ {q}, Reserves(req'[r])
          PROVE  \/ req'[r].cart # req'[q].cart
                 \/ req'[r].menuItem # req'[q].menuItem
      <4>1. CASE r = p
        BY <1>0, <2>2, <3>1, <3>3, <4>1, ReserveFacts DEF KeyReserved, HoldsKey, Reserves
      <4>2. CASE r # p
        BY <1>0, <3>1, <3>3, <4>2, OthersWait DEF ReservedOK
      <4> QED BY <4>1, <4>2
    <3>4. ASSUME NEW y \in items', y.cart = req[q].cart, y.menuItem = req[q].menuItem
          PROVE  FALSE
      <4>1. CASE \E x \in items : SameRow(x, y)
        BY <3>2, <3>4, <4>1 DEF SameRow, ItemOf, ItemsOf
      <4>2. CASE Inserts(p) /\ y \notin items
        <5>0. y = NewItem(req[p])
          BY <4>2 DEF Inserts
        <5>1. req[p].cart = req[q].cart /\ req[p].menuItem = req[q].menuItem
          BY <3>4, <5>0 DEF NewItem
        <5>2. CASE req[p].pc = "updateShare"
          BY <2>2, <3>1, <4>2, <5>1, <5>2 DEF Inserts, ReservedOK, Reserves
        <5>3. CASE ~KeyReserved(p, req[p].cart, req[p].menuItem)
          BY <2>2, <3>1, <5>1, <5>3 DEF KeyReserved, HoldsKey, Reserves
        <5> QED BY <4>2, <5>2, <5>3 DEF Inserts
      <4>3. CASE \E ids \in SUBSET Nat, n \in Nat : SetQuantity(ids, n)
        <5>1. \E x \in items : SameRow(x, y)
          BY <1>0, <4>3 DEF SetQuantity, SameRow, CartItem
        <5> QED BY <4>1, <5>1
      <4>4. CASE y \in items
        BY <4>1, <4>4 DEF SameRow
      <4> QED
        BY <1>0, <4>2, <4>3, <4>4, ItemsChange
    <3> QED BY <3>1, <3>3, <3>4
  <2> QED BY <2>1, <2>2
<1>5. ASSUME NEW q \in Proc, Reading(req'[q])
      PROVE  \A x, y \in req'[q].rows : x.menuItem = y.menuItem => x = y
  <2>1. CASE q # p
    BY <1>0, <1>5, <2>1, OthersWait DEF LinesOK
  <2>2. CASE q = p
    <3>1. \/ FindCartItems(p) /\ ~Return(p)
          \/ DeleteCartItems(p) \/ DeleteCartShares(p) \/ LockItem(p) \/ LockShare(p)
      BY <1>0, <1>5, <2>2, TransactionLabels DEF Reading
    <3>2. CASE FindCartItems(p) /\ ~Return(p)
      <4>1. req'[p].rows = ItemsOf(req[p].cart)
        BY <1>0, <3>2 DEF FindCartItems, Request
      <4> QED BY <2>2, <4>1 DEF ItemsOf, UniqueKeys
    <3>3. CASE DeleteCartItems(p) \/ DeleteCartShares(p)
      <4>1. req'[p].rows = req[p].rows /\ Reading(req[p])
        BY <1>0, <3>3 DEF DeleteCartItems, DeleteCartShares, Request, Reading
      <4> QED BY <2>2, <4>1 DEF LinesOK
    <3>4. CASE LockItem(p) \/ LockShare(p)
      <4>1. req'[p].rows = req[p].rows /\ Reading(req[p])
        BY <1>0, <1>5, <2>2, <3>4, RowByRow DEF Reading
      <4> QED BY <2>2, <4>1 DEF LinesOK
    <3> QED BY <3>1, <3>2, <3>3, <3>4
  <2> QED BY <2>1, <2>2
<1>6. ASSUME NEW o \in orders'
      PROVE  /\ o.orderItems # {}
             /\ \A x \in o.orderItems : x.cart = o.cart
             /\ \A x, y \in o.orderItems :
                  (x.id # 0 /\ y.id # 0 /\ x.menuItem = y.menuItem) => x = y
  <2>1. CASE o \in orders
    BY <2>1 DEF OrdersFromOneCart
  <2>2. CASE o \notin orders
    <3>1. CASE CommitCheckout(p)
      <4>1. /\ o.orderItems = req[p].rows /\ o.cart = req[p].cart
            /\ Reading(req[p])
        BY <2>2, <3>1 DEF CommitCheckout, NewOrder, Reading
      <4> QED BY <4>1 DEF SnapshotOK, LinesOK
    <3>2. CASE InsertOrder(p)
      <4>1. PICK line : /\ line.cart = req[p].cart
                        /\ o = NewOrder(req[p], {line})
        BY <2>2, <3>2 DEF InsertOrder
      <4> QED BY <4>1 DEF NewOrder
    <3> QED BY <2>2, <3>1, <3>2, OrdersChange
  <2> QED BY <2>1, <2>2
<1>7. UniqueKeys'
  BY <1>2, <1>3 DEF UniqueKeys
<1>8. ReservedOK'
  BY <1>4 DEF ReservedOK, ItemOf, ItemsOf, Reserves
<1>9. LinesOK' /\ OrdersFromOneCart'
  BY <1>5, <1>6 DEF LinesOK, OrdersFromOneCart, Reading
<1> QED
  BY <1>7, <1>8, <1>9

\* KeysInv is inductive.
LEMMA KeysInvariant == Spec => []KeysInv
<1>1. Init => KeysInv
  BY InitType DEF KeysInv, CheckoutInv, SnapshotOK, OrderedItemsLeaveCart,
     UniqueKeys, ReservedOK, GrantsOK, InsertedOK, LinesOK, OrdersFromOneCart, Init,
     Reading, Reserves, Idle
<1>2. ASSUME KeysInv, [Next]_vars
      PROVE  KeysInv'
  <2>1. TypeInv'
    BY <1>2, NextType DEF KeysInv, CheckoutInv
  <2>2. CASE UNCHANGED vars
    BY <1>2, <2>1, <2>2
       DEF KeysInv, CheckoutInv, SnapshotOK, OrderedItemsLeaveCart, UniqueKeys,
           ReservedOK, GrantsOK, InsertedOK, LinesOK, OrdersFromOneCart, Reading,
           Reserves, ValidGrants, ItemOf, ItemsOf, vars, tables
  <2>3. ASSUME NEW p \in Proc, Acts(p)
        PROVE  KeysInv'
    BY <1>2, <2>1, <2>3, SnapshotStep, GrantsStep, InsertedStep, KeysStep
       DEF KeysInv, CheckoutInv
  <2> QED BY <1>2, <2>2, <2>3 DEF Next, Acts, Quiescent
<1> QED BY <1>1, <1>2, PTL DEF Spec

\* The schema's unique keys hold at every step: decisions to insert that were
\* taken on an old read are caught by the statement that inserts.
THEOREM KeysAreUnique == Spec => []UniqueKeys
<1>1. KeysInv => UniqueKeys
  BY DEF KeysInv
<1> QED BY <1>1, KeysInvariant, PTL

\* No order is made empty or of two carts, and no checkout orders a menu item
\* twice.
THEOREM OrdersAreFromOneCart == Spec => []OrdersFromOneCart
<1>1. KeysInv => OrdersFromOneCart
  BY DEF KeysInv
<1> QED BY <1>1, KeysInvariant, PTL
-----------------------------------------------------------------------------
(***************************************************************************)
(* Lock order.  A request that waits for an item waits for one that is     *)
(* about to write shares or is itself locking items; one that is about to  *)
(* write shares waits only for requests that lock and insert shares.  So a *)
(* circle that gets to the shares stays among those, and one that does not *)
(* stays among the requests that lock items.                               *)
(***************************************************************************)
\* The labels at which a request holds locks on rows it has deleted, and keys of
\* shares it has inserted.
LocksOK(r) ==
  /\ r.lockedRows # {} => r.pc \in {"lockItems", "lockCleared", "commitCheckout"}
  /\ r.lockedShares # {} => r.pc \in {"createShares", "commitCheckout"}
  /\ r.inserted # {} => r.pc = "createShares"

LockInv == TypeInv /\ \A p \in Proc : LocksOK(req[p])

\* A request that starts has no locks.
LEMMA StartLocks ==
  ASSUME TypeInv, NEW p \in Proc, Start(p)
  PROVE  LocksOK(req'[p]) /\ req'[p].pc \in Unchecked
<1>1. ASSUME NEW r, Begin(p, r), r.lockedRows = {}, r.lockedShares = {},
             r.inserted = {}, r.pc \in Unchecked
      PROVE  LocksOK(req'[p]) /\ req'[p].pc \in Unchecked
  BY <1>1 DEF Begin, LocksOK, TypeInv, TypeOK
<1> USE <1>1 DEF Unchecked, Idle, Entry
<1>2. CASE StartAddItem(p)
  BY <1>2 DEF StartAddItem
<1>3. CASE StartUpdateItemQuantity(p)
  BY <1>3 DEF StartUpdateItemQuantity
<1>4. CASE StartDeleteItem(p)
  BY <1>4 DEF StartDeleteItem
<1>5. CASE StartGetCartItems(p)
  BY <1>5 DEF StartGetCartItems
<1>6. CASE StartShareCart(p)
  BY <1>6 DEF StartShareCart
<1>7. CASE StartRemoveSharedUser(p)
  BY <1>7 DEF StartRemoveSharedUser
<1>8. CASE StartCheckoutCart(p)
  BY <1>8 DEF StartCheckoutCart
<1>9. CASE StartCreateOrder(p)
  BY <1>9 DEF StartCreateOrder
<1> QED
  BY <1>2, <1>3, <1>4, <1>5, <1>6, <1>7, <1>8, <1>9 DEF Start

\* A request that ends has no locks.
LEMMA FinishLocks ==
  ASSUME TypeInv, NEW p \in Proc, Finish(p)
  PROVE  LocksOK(req'[p]) /\ req'[p].pc = "idle"
  BY DEF Finish, Idle, LocksOK, TypeInv, TypeOK

\* Locks are taken where a DELETE or INSERT goes through its rows, and a request
\* goes on from there only to the end of its transaction.
LEMMA StepLocks ==
  ASSUME TypeInv, NEW p \in Proc, Step(p), LocksOK(req[p])
  PROVE  LocksOK(req'[p])
<1> USE FinishLocks
<1>1. req \in [Proc -> Request]
  BY DEF TypeInv, TypeOK
<1>3. CASE FindOwnCart(p) \/ CreateCart(p) \/ GetCartAccess(p)
  BY <1>1, <1>3
     DEF FindOwnCart, CreateCart, GetCartAccess, UseOwnCart, Goto, Return, LocksOK, Request
<1>4. CASE FindExistingItem(p) \/ WriteItem(p)
  BY <1>1, <1>4 DEF FindExistingItem, WriteItem, Goto, Return, LocksOK, Request
<1>5. CASE FindItem(p) /\ ~Return(p)
  <2>1. PICK x \in ItemWithId(req[p].itemId) :
          req' = [req EXCEPT ![p].cart = x.cart, ![p].pc = "access"]
    BY <1>5 DEF FindItem
  <2>2. /\ req'[p].lockedRows = req[p].lockedRows
        /\ req'[p].lockedShares = req[p].lockedShares
        /\ req'[p].inserted = req[p].inserted
    BY <1>1, <2>1 DEF Request
  <2> QED BY <1>5, <2>2 DEF FindItem, LocksOK
<1>6. CASE DeleteShares(p) \/ FindShare(p) \/ FindCartItems(p) \/ DeleteCartItems(p)
  BY <1>1, <1>6
     DEF DeleteShares, FindShare, FindCartItems, DeleteCartItems, Goto, Return, LocksOK,
         Request
<1>7. CASE DeleteCartShares(p) \/ InsertOrder(p) \/ ClearAccess(p) \/ ClearItems(p)
  BY <1>1, <1>7
     DEF DeleteCartShares, InsertOrder, ClearAccess, ClearItems, Goto, Return, LocksOK,
         Request
<1>8. CASE \/ UpdateShare(p) \/ UpdateItem(p) \/ DeleteItem(p) \/ ListItems(p)
           \/ CommitShares(p) \/ DeleteShare(p) \/ CommitCheckout(p) \/ CommitClear(p)
           \/ Return(p)
  BY <1>8 DEF UpdateShare, UpdateItem, DeleteItem, ListItems, CommitShares, DeleteShare,
     CommitCheckout, CommitClear, Return
<1>9. CASE LockItem(p)
  <2>1. PICK i : req' = [req EXCEPT ![p].lockedRows = @ \cup {i}]
    BY <1>9 DEF LockItem
  <2> QED BY <1>1, <1>9, <2>1 DEF LockItem, LocksOK, Request
<1>10. CASE LockShare(p)
  <2>1. PICK i : req' = [req EXCEPT ![p].lockedShares = @ \cup {i}]
    BY <1>10 DEF LockShare
  <2> QED BY <1>1, <1>10, <2>1 DEF LockShare, LocksOK, Request
<1>11. CASE CreateShare(p)
  <2>1. PICK g, new : req' = [req EXCEPT ![p] = [req[p] EXCEPT
                                !.grants = req[p].grants \ {g},
                                !.inserted = req[p].inserted \cup new]]
    BY <1>11, CreateShareMoves
  <2> QED BY <1>1, <1>11, <2>1 DEF CreateShare, LocksOK, Request
<1> QED
  BY <1>3, <1>4, <1>5, <1>6, <1>7, <1>8, <1>9, <1>10, <1>11 DEF Step

\* LockInv is inductive.
LEMMA LockInvariant == Spec => []LockInv
<1>1. Init => LockInv
  BY InitType DEF Init, LockInv, LocksOK, Idle
<1>2. ASSUME LockInv, [Next]_vars
      PROVE  LockInv'
  <2>1. TypeInv'
    BY <1>2, NextType DEF LockInv
  <2>2. CASE UNCHANGED vars
    BY <1>2, <2>1, <2>2 DEF LockInv, LocksOK, vars
  <2>3. ASSUME NEW p \in Proc, Acts(p)
        PROVE  LockInv'
    <3>1. LocksOK(req'[p])
      BY <1>2, <2>3, StartLocks, StepLocks, FinishLocks
         DEF LockInv, Acts, Deadlocked, Fail, Return
    <3>2. \A q \in Proc \ {p} : req'[q] = req[q]
      BY <1>2, <2>3, OthersWait DEF LockInv
    <3> QED BY <1>2, <2>1, <3>1, <3>2 DEF LockInv, LocksOK
  <2> QED BY <1>2, <2>2, <2>3 DEF Next, Acts, Quiescent
<1> QED BY <1>1, <1>2, PTL DEF Spec

\* Requests that write shares wait only for requests that lock and insert them.
WritingShares(p) == LockingShares(p) \/ req[p].pc \in {"updateShare", "deleteShare"}

\* Who is waited for, by what the waiting request is about to write.
LEMMA LockRanks ==
  ASSUME \A r \in Proc : LocksOK(req[r]), NEW p \in Proc, NEW q \in Proc, WaitsFor(p, q)
  PROVE  /\ WritingShares(p) => LockingShares(q)
         /\ ~WritingShares(p) => WritingShares(q) \/ LockingItems(q)
<1>1. \A x : HoldsRow(q, x) => WritingShares(q) \/ LockingItems(q)
  BY DEF HoldsRow, LocksOK, WritingShares, LockingShares, LockingItems
<1>2. \A c, m : HoldsKey(q, c, m) => WritingShares(q)
  BY DEF HoldsKey, WritingShares
<1>3. /\ \A s : HoldsShare(q, s) => LockingShares(q)
      /\ \A c, u : HoldsShareKey(q, c, u) => LockingShares(q)
  BY DEF HoldsShare, HoldsShareKey, LocksOK, LockingShares
<1> HIDE DEF HoldsRow, HoldsKey, HoldsShare, HoldsShareKey
<1>4. WritingShares(p) <=> req[p].pc \in {"createShares", "commitCheckout",
                                          "updateShare", "deleteShare"}
  BY DEF WritingShares, LockingShares
<1> QED BY <1>1, <1>2, <1>3, <1>4 DEF WaitsFor, LockingShares

\* A circle has one in it whose requests are of one kind.
LEMMA CircleInside ==
  ASSUME \A r \in Proc : LocksOK(req[r]), NEW S \in SUBSET Proc, Stuck(S)
  PROVE  \E T \in SUBSET S : Stuck(T) /\ OfOneKind(T)
<1>1. CASE \E p \in S : WritingShares(p)
  <2> DEFINE T == {p \in S : LockingShares(p)}
  <2>1. T # {}
    BY <1>1, LockRanks DEF Stuck
  <2>2. ASSUME NEW p \in T
        PROVE  \E q \in T : WaitsFor(p, q)
    <3>1. PICK q \in S : WaitsFor(p, q)
      BY DEF Stuck
    <3>2. LockingShares(q)
      BY <3>1, LockRanks DEF WritingShares
    <3> QED BY <3>1, <3>2
  <2>3. T \in SUBSET S /\ OfOneKind(T)
    BY DEF OfOneKind
  <2> HIDE DEF T
  <2> QED BY <2>1, <2>2, <2>3 DEF Stuck
<1>2. CASE \A p \in S : ~WritingShares(p)
  <2> DEFINE T == {p \in S : LockingItems(p)}
  <2>1. T # {}
    BY <1>2, LockRanks DEF Stuck
  <2>2. ASSUME NEW p \in T
        PROVE  \E q \in T : WaitsFor(p, q)
    <3>1. PICK q \in S : WaitsFor(p, q)
      BY DEF Stuck
    <3>2. LockingItems(q)
      BY <1>2, <3>1, LockRanks
    <3> QED BY <3>1, <3>2
  <2>3. T \in SUBSET S /\ OfOneKind(T)
    BY DEF OfOneKind
  <2> HIDE DEF T
  <2> QED BY <2>1, <2>2, <2>3 DEF Stuck
<1> QED BY <1>1, <1>2

\* Requests that wait for one another in a circle are, some of them already, all
\* in statements that delete several items, or all in statements that delete and
\* insert several shares: there is no circle of any other making.
THEOREM CirclesAreOfOneKind == Spec => []CirclesOfOneKind
<1>1. LockInv => CirclesOfOneKind
  BY CircleInside DEF LockInv, CirclesOfOneKind
<1> QED BY <1>1, LockInvariant, PTL

\* WaitsFor is about the guards of the actions: a statement on one row waits when
\* that row or its key is locked, and a statement on several rows can take one of
\* those it has left when that row is not.
LEMMA GuardsAreLocks ==
  ASSUME NEW p \in Proc
  PROVE  LET r == req[p]
             waits == \E q \in Proc : WaitsFor(p, q)
         IN
         /\ r.pc = "writeItem" => (waits <=> ItemStatementWaits(p))
         /\ r.pc \in {"updateItem", "deleteItem"} =>
              (waits <=> \E x \in ItemWithId(r.itemId) : RowLocked(p, x))
         /\ r.pc = "updateShare" =>
              (waits <=> \E s \in ShareOf(r.cart, r.user) : ShareLocked(p, s))
         /\ r.pc = "deleteShare" =>
              (waits <=> \E s \in ShareOf(r.cart, r.peer) : ShareLocked(p, s))
         /\ r.pc \in {"lockItems", "lockCleared"} =>
              (waits <=> \E x \in ItemsLeft(r) : RowLocked(p, x))
         /\ r.pc = "commitCheckout" =>
              (waits <=> \E s \in SharesLeft(r) : ShareLocked(p, s))
         /\ r.pc = "createShares" =>
              (waits <=> \/ \E s \in SharesLeft(r) : ShareLocked(p, s)
                         \/ \E g \in ValidGrants(r) :
                              \/ ShareKeyReserved(p, r.cart, g.user)
                              \/ \E s \in ShareOf(r.cart, g.user) : ShareLocked(p, s))
  BY DEF WaitsFor, ItemStatementWaits, RowLocked, KeyReserved, ShareLocked,
     ShareKeyReserved
=============================================================================
