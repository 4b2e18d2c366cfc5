------------------------ MODULE CartRefinementProofs ------------------------
(***************************************************************************)
(* Cart implements AtomicCart as long as a request that shares a cart,     *)
(* removes a guest, checks out or clears is alone with that cart, for      *)
(* every set of users, menu items and processes.                           *)
(*                                                                         *)
(* An edit is three to five statements, and other edits of the same cart   *)
(* run between them.  What it has read is then old but not wrong: a row    *)
(* keeps its cart and menu item, nobody who could end a membership is at   *)
(* the cart, a row that a transaction has updated is locked until the      *)
(* commit, and an item that appeared meanwhile is caught by its unique     *)
(* key.  Requests at other carts touch none of its rows.  UpToDate says    *)
(* this of a request record.                                               *)
(***************************************************************************)
EXTENDS CartProofs

\* A request that does more than edit items has no other beside it in its cart.
Alone ==
  \A p, q \in Proc :
    (p # q /\ req[p].pc \notin Unchecked /\ req[q].pc \notin Unchecked
       /\ Exclusive(req[p]))
      => req[q].cart # req[p].cart

\* No cart is shared with its owner, and order numbers are not used again.
OwnersAndNumbers ==
  /\ \A s \in shares : s.user # s.cart
  /\ \A o \in orders : o.refNo < nextOrder

\* The operations that come to a label.
LabelsOK(r) ==
  /\ r.pc \in {"findItem", "updateItem", "deleteItem"} =>
       r.op \in {"updateItemQuantity", "deleteItem"}
  /\ r.pc = "updateItem" => r.op = "updateItemQuantity"
  /\ r.pc = "deleteItem" => r.op = "deleteItem"
  /\ r.pc \in {"deleteShares", "createShares"} => r.op = "shareCart"
  /\ r.pc \in {"findShare", "deleteShare"} => r.op = "removeSharedUser"
  /\ r.pc \in {"findOwnCart", "createCart"} =>
       r.op \notin {"updateItemQuantity", "deleteItem"}
  /\ r.pc = "access" => r.op \notin {"shareCart", "removeSharedUser"}

\* What a request was given, and what it has checked, still holds.
ChecksHold(r) ==
  /\ r.pc # "idle" /\ r.op \in {"addItem", "updateItemQuantity", "createOrder"} =>
       r.quantity \in Quantity
  /\ r.pc \notin Unchecked => HasAccess(r)
  /\ r.pc \notin Unchecked /\ r.op \in {"shareCart", "removeSharedUser"} =>
       r.cart = r.user
  /\ r.pc \notin Unchecked /\ r.op = "addItem" /\ ~Contributes(r) =>
       \A s \in ShareOf(r.cart, r.user) : s.hasContributed

\* Rows that a request has found, as far as they are still there.
FoundItem(r) ==
  r.pc # "idle" /\ r.op \in {"updateItemQuantity", "deleteItem"} =>
    /\ r.itemId < nextItem
    /\ r.pc # "findItem" => \A x \in items : x.id = r.itemId => x.cart = r.cart

FoundRows(r) ==
  r.pc \in {"writeItem", "updateShare"} => \A y \in r.rows :
    /\ y.id < nextItem
    /\ \A x \in items : x.id = y.id => x.cart = r.cart /\ x.menuItem = r.menuItem
    /\ r.pc = "updateShare" => ItemWithId(y.id) # {}

\* The users a shareCart lists: those to come, and those it has inserted.
Listed(r) == {g.user : g \in ValidGrants(r)} \cup {s.user : s \in r.inserted}

\* What a request that runs alone has read is what the tables hold, and the rows
\* its DELETE has found are the rows there are.
ReadAlone(r) ==
  /\ Reading(r) => r.rows = ItemsOf(r.cart)
  /\ r.pc \in {"lockItems", "lockCleared"} =>
       /\ r.matched = {x.id : x \in ItemsOf(r.cart)}
       /\ r.lockedRows \subseteq r.matched
  /\ r.pc = "commitCheckout" =>
       /\ r.lockedRows = {x.id : x \in ItemsOf(r.cart)}
       /\ r.matched = {s.id : s \in SharesOf(r.cart)}
       /\ r.lockedShares \subseteq r.matched
  /\ r.pc = "createShares" =>
       /\ r.matched = {s.id : s \in {t \in SharesOf(r.cart) : t.user \in Listed(r)}}
       /\ r.lockedShares \subseteq r.matched
       /\ \A s \in r.inserted :
            s.cart = r.cart /\ s.user # r.user /\ s.hasContributed = FALSE
  /\ r.pc = "deleteShare" => \E s \in ShareOf(r.cart, r.peer) : ~s.hasContributed

UpToDate(r) ==
  LabelsOK(r) /\ ChecksHold(r) /\ FoundItem(r) /\ FoundRows(r) /\ ReadAlone(r)

\* No two shares have the same id, be they rows or inserted and not yet committed.
ShareIds ==
  /\ \A s \in shares : s.id < nextShare /\ \A t \in shares : t.id = s.id => t = s
  /\ \A p \in Proc : \A s \in req[p].inserted :
       /\ s.id < nextShare
       /\ \A t \in shares : t.id # s.id
       /\ \A t \in req[p].inserted : t.id = s.id => t = s
       /\ \A q \in Proc \ {p} : \A t \in req[q].inserted : t.id # s.id

AtomicInv ==
  /\ KeysInv
  /\ LockInv
  /\ ShareIds
  /\ Alone
  /\ OwnersAndNumbers
  /\ \A p \in Proc : UpToDate(req[p])
-----------------------------------------------------------------------------
(***************************************************************************)
(* The ids of shares.                                                      *)
(***************************************************************************)
\* A share that is marked keeps its id, and no other step changes a share.
LEMMA ShareIdsStep ==
  ASSUME TypeInv, ShareIds, NEW p \in Proc, Acts(p)
  PROVE  ShareIds'
<1>0. /\ req \in [Proc -> Request] /\ shares \subseteq CartShare /\ nextShare \in Nat
      /\ \A q \in Proc : \A s \in req[q].inserted : s.id \in Nat
      /\ \A q \in Proc \ {p} : req'[q] = req[q]
  BY OthersWait DEF TypeInv, TypeOK, Request, CartShare
<1>1. CASE CreateShare(p)
  <2>1. PICK g \in ValidGrants(req[p]) :
          \/ /\ req' = [req EXCEPT ![p].grants = @ \ {g}]
             /\ nextShare' = nextShare
          \/ /\ req' = [req EXCEPT ![p].grants = @ \ {g},
                                   ![p].inserted = @ \cup {NewShare(req[p], g)}]
             /\ nextShare' = nextShare + 1
    BY <1>1 DEF CreateShare
  <2>2. shares' = shares
    BY <1>1 DEF CreateShare
  <2>3. CASE /\ req' = [req EXCEPT ![p].grants = @ \ {g}]
             /\ nextShare' = nextShare
    <3>1. req'[p].inserted = req[p].inserted
      BY <1>0, <2>3 DEF Request
    <3> QED BY <1>0, <2>2, <2>3, <3>1 DEF ShareIds
  <2>4. CASE /\ req' = [req EXCEPT ![p].grants = @ \ {g},
                                   ![p].inserted = @ \cup {NewShare(req[p], g)}]
             /\ nextShare' = nextShare + 1
    <3>1. PICK new : new = NewShare(req[p], g)
      OBVIOUS
    <3>2. req'[p].inserted = req[p].inserted \cup {new} /\ new.id = nextShare
      BY <1>0, <2>4, <3>1 DEF Request, NewShare
    <3>3. /\ \A t \in shares : t.id < nextShare /\ t.id \in Nat
          /\ \A q \in Proc : \A t \in req[q].inserted : t.id < nextShare
      BY <1>0 DEF ShareIds, CartShare
    <3> QED BY <1>0, <2>2, <2>4, <3>2, <3>3 DEF ShareIds
  <2> QED BY <2>1, <2>3, <2>4
<1>2. CASE CommitShares(p)
  <2>1. /\ req'[p].inserted = {} /\ shares' \subseteq shares \cup req[p].inserted
        /\ nextShare' = nextShare
    BY <1>0, <1>2, NothingInserted DEF CommitShares
  <2> QED BY <1>0, <2>1 DEF ShareIds
<1>3. CASE UpdateShare(p) /\ ~Return(p)
  <2> DEFINE marked == ShareOf(req[p].cart, req[p].user)
             f(s) == IF s \in marked THEN [s EXCEPT !.hasContributed = TRUE] ELSE s
  <2>1. /\ shares' = (shares \ marked) \cup
                       {[s EXCEPT !.hasContributed = TRUE] : s \in marked}
        /\ nextShare' = nextShare /\ req'[p].inserted = {}
    BY <1>0, <1>3, NothingInserted DEF UpdateShare
  <2>2. marked \subseteq shares
    BY DEF ShareOf, SharesOf
  <2>3. \A s \in shares : f(s).id = s.id
    BY <1>0 DEF CartShare
  <2>4. \A t \in shares' : \E s \in shares : t = f(s)
    <3> HIDE DEF marked
    <3> QED BY <2>1, <2>2
  <2> HIDE DEF f
  <2>5. ASSUME NEW s \in shares', NEW t \in shares', t.id = s.id
        PROVE  t = s
    BY <2>3, <2>4, <2>5 DEF ShareIds
  <2>6. \A t \in shares' : t.id < nextShare /\ \E s \in shares : s.id = t.id
    BY <2>3, <2>4 DEF ShareIds
  <2> QED BY <1>0, <2>1, <2>5, <2>6 DEF ShareIds
<1>4. CASE shares' \subseteq shares /\ nextShare' = nextShare
           /\ ~CreateShare(p) /\ ~CommitShares(p)
  <2>1. req'[p].inserted \subseteq req[p].inserted
    <3>1. CASE LockShare(p)
      <4>1. PICK i : req' = [req EXCEPT ![p].lockedShares = @ \cup {i}]
        BY <3>1 DEF LockShare
      <4> QED BY <1>0, <4>1 DEF Request
    <3> QED BY <1>4, <3>1, NothingInserted, ListKept DEF Acts
  <2>2. \A q \in Proc : req'[q].inserted \subseteq req[q].inserted
    BY <1>0, <2>1
  <2> QED BY <1>4, <2>2 DEF ShareIds
<1>5. CASE shares' \subseteq shares /\ nextShare' = nextShare
  <2>1. CASE CreateShare(p) \/ CommitShares(p)
    BY <1>1, <1>2, <2>1
  <2> QED BY <1>4, <1>5, <2>1
<1>6. CASE Start(p) \/ Deadlocked(p) \/ Fail(p) \/ Return(p)
  BY <1>5, <1>6 DEF Start, StartAddItem, StartUpdateItemQuantity, StartDeleteItem,
     StartGetCartItems, StartShareCart, StartRemoveSharedUser,
     StartCheckoutCart, StartCreateOrder, Begin, Deadlocked, Fail, Return, tables
<1>7. CASE DeleteShare(p) \/ CommitCheckout(p)
  BY <1>5, <1>7 DEF DeleteShare, CommitCheckout
<1>8. CASE \/ FindOwnCart(p) \/ CreateCart(p) \/ GetCartAccess(p)
           \/ FindExistingItem(p) \/ WriteItem(p) \/ FindItem(p)
           \/ UpdateItem(p) \/ DeleteItem(p) \/ ListItems(p)
  BY <1>5, <1>6, <1>8 DEF FindOwnCart, CreateCart, GetCartAccess,
     FindExistingItem, WriteItem, FindItem, UpdateItem, DeleteItem, ListItems, tables
<1>9. CASE \/ LockItem(p) \/ LockShare(p) \/ DeleteShares(p) \/ FindShare(p)
           \/ FindCartItems(p) \/ DeleteCartItems(p) \/ DeleteCartShares(p)
  BY <1>5, <1>6, <1>9 DEF LockItem, LockShare, DeleteShares, FindShare,
     FindCartItems, DeleteCartItems, DeleteCartShares, tables
<1>10. CASE InsertOrder(p) \/ ClearAccess(p) \/ ClearItems(p) \/ CommitClear(p)
  BY <1>5, <1>6, <1>10 DEF InsertOrder, ClearAccess, ClearItems, CommitClear, tables
<1> QED
  BY <1>1, <1>2, <1>3, <1>6, <1>7, <1>8, <1>9, <1>10 DEF Acts, Step

\* Shares never have the same id.
LEMMA ShareIdsInvariant == Spec => []ShareIds
<1>1. Init => ShareIds
  BY DEF Init, ShareIds, Idle
<1>2. ASSUME TypeInv, ShareIds, [Next]_vars
      PROVE  ShareIds'
  <2>1. CASE UNCHANGED vars
    BY <1>2, <2>1 DEF ShareIds, vars, tables
  <2> QED BY <1>2, <2>1, ShareIdsStep DEF Next, Acts, Quiescent
<1>3. Spec => []LockInv
  BY LockInvariant
<1>4. LockInv => TypeInv
  BY DEF LockInv
<1> QED BY <1>1, <1>2, <1>3, <1>4, PTL DEF Spec
-----------------------------------------------------------------------------
(***************************************************************************)
(* Requests that a step leaves alone.                                      *)
(***************************************************************************)
\* An idle process has nothing to keep up to date.
LEMMA Defaults ==
  ASSUME NEW q \in Proc, req'[q].pc = "idle"
  PROVE  UpToDate(req[q])'
  BY DEF UpToDate, LabelsOK, ChecksHold, FoundItem, FoundRows, ReadAlone, Reading,
     Unchecked

\* Nor is a request affected by a step that changes no table.
LEMMA TablesKept ==
  ASSUME NEW q \in Proc, UpToDate(req[q]), req'[q] = req[q],
         UNCHANGED <<carts, items, shares, nextItem>>
  PROVE  UpToDate(req[q])'
  BY DEF UpToDate, LabelsOK, ChecksHold, FoundItem, FoundRows, ReadAlone, Reading,
     HasAccess, ShareOf, SharesOf, ItemsOf, ItemWithId, Contributes, ValidGrants,
     Listed

\* The actions of a request that edits.
LEMMA EditActions ==
  ASSUME TypeInv, NEW p \in Proc, Step(p), ~Exclusive(req[p]), LabelsOK(req[p])
  PROVE  \/ FindOwnCart(p) \/ CreateCart(p) \/ GetCartAccess(p) \/ FindExistingItem(p)
         \/ WriteItem(p) \/ UpdateShare(p) \/ FindItem(p) \/ UpdateItem(p)
         \/ DeleteItem(p) \/ ListItems(p) \/ InsertOrder(p) \/ ClearAccess(p)
<1>1. req[p].pc \notin {"deleteShares", "createShares", "findShare", "deleteShare",
                        "clearItems", "lockCleared"}
  BY DEF LabelsOK, Edits, Exclusive
<1>2. req[p].pc \notin {"findCartItems", "deleteCartItems", "lockItems",
                        "commitCheckout"}
  BY InProgress DEF Edits, Exclusive
<1> QED
  BY <1>1, <1>2 DEF Step, LockItem, LockShare, DeleteShares, CreateShare, CommitShares,
     FindShare, DeleteShare, FindCartItems, DeleteCartItems, DeleteCartShares,
     CommitCheckout, ClearItems, CommitClear

\* Editing opens carts and marks shares, and changes neither further.
LEMMA EditKeeps ==
  ASSUME TypeInv, NEW p \in Proc, Step(p), ~Exclusive(req[p]), LabelsOK(req[p])
  PROVE  /\ carts \subseteq carts'
         /\ \A s \in shares : \E t \in shares' :
              t.cart = s.cart /\ t.user = s.user /\ t.role = s.role
         /\ \A t \in shares' : \E s \in shares :
              /\ s.cart = t.cart /\ s.user = t.user
              /\ s.hasContributed => t.hasContributed
<1>1. CASE UNCHANGED <<carts, shares>>
  BY <1>1
<1>2. CASE UpdateShare(p)
  <2> DEFINE marked == ShareOf(req[p].cart, req[p].user)
  <2>1. CASE Return(p)
    BY <1>1, <2>1 DEF Return, tables
  <2>2. CASE /\ shares' = (shares \ marked) \cup
                            {[s EXCEPT !.hasContributed = TRUE] : s \in marked}
             /\ carts' = carts
    <3>1. marked \subseteq shares /\ shares \subseteq CartShare
      BY DEF ShareOf, SharesOf, TypeInv, TypeOK
    <3> HIDE DEF marked
    <3>2. \A s \in marked : LET t == [s EXCEPT !.hasContributed = TRUE] IN
            /\ t \in shares' /\ t.cart = s.cart /\ t.user = s.user /\ t.role = s.role
            /\ t.hasContributed
      BY <2>2, <3>1 DEF CartShare
    <3>3. \A s \in shares : \E t \in shares' :
            t.cart = s.cart /\ t.user = s.user /\ t.role = s.role
      BY <2>2, <3>2
    <3>4. \A t \in shares' : \E s \in shares :
            /\ s.cart = t.cart /\ s.user = t.user
            /\ s.hasContributed => t.hasContributed
      <4> SUFFICES ASSUME NEW t \in shares'
                   PROVE  \E s \in shares :
                            /\ s.cart = t.cart /\ s.user = t.user
                            /\ s.hasContributed => t.hasContributed
        OBVIOUS
      <4>1. CASE t \in shares
        BY <4>1
      <4>2. CASE t \notin shares
        <5>1. PICK s \in marked : t = [s EXCEPT !.hasContributed = TRUE]
          BY <2>2, <4>2
        <5>2. t.cart = s.cart /\ t.user = s.user /\ t.hasContributed
          BY <3>2, <5>1
        <5> QED BY <3>1, <5>2
      <4> QED BY <4>1, <4>2
    <3> QED BY <2>2, <3>3, <3>4
  <2> QED BY <1>2, <2>1, <2>2 DEF UpdateShare
<1>3. CASE CreateCart(p)
  BY <1>3 DEF CreateCart, Return, tables
<1>4. CASE FindOwnCart(p) \/ GetCartAccess(p) \/ FindExistingItem(p)
           \/ WriteItem(p) \/ FindItem(p) \/ UpdateItem(p) \/ DeleteItem(p)
           \/ ListItems(p) \/ InsertOrder(p) \/ ClearAccess(p)
  BY <1>1, <1>4 DEF FindOwnCart, GetCartAccess, FindExistingItem, WriteItem, FindItem,
     UpdateItem, DeleteItem, ListItems, InsertOrder, ClearAccess, Return, tables
<1> QED
  BY <1>2, <1>3, <1>4, EditActions

\* An item that a transaction has updated stays until it commits.
LEMMA LockedRowsStay ==
  ASSUME TypeInv, NEW p \in Proc, Step(p), ~Exclusive(req[p]), LabelsOK(req[p]),
         NEW q \in Proc, q # p, req[q].pc = "updateShare", NEW y \in req[q].rows,
         ItemWithId(y.id) # {}
  PROVE  ItemWithId(y.id)' # {}
<1>1. CASE UNCHANGED items
  BY <1>1 DEF ItemWithId
<1>2. CASE DeleteItem(p)
  <2>1. /\ items' = items \ ItemWithId(req[p].itemId)
        /\ \A x \in ItemWithId(req[p].itemId) : ~RowLocked(p, x)
    BY <1>2 DEF DeleteItem
  <2>2. PICK x \in items : x.id = y.id
    BY DEF ItemWithId
  <2>3. RowLocked(p, x)
    BY <2>2 DEF RowLocked, HoldsRow
  <2> QED BY <2>1, <2>2, <2>3 DEF ItemWithId
<1>3. CASE \E ids \in SUBSET Nat, n \in Nat : SetQuantity(ids, n)
  <2>1. PICK ids \in SUBSET Nat, n \in Nat : SetQuantity(ids, n)
    BY <1>3
  <2>2. PICK x \in items : x.id = y.id
    BY DEF ItemWithId
  <2> DEFINE z == IF x.id \in ids THEN [x EXCEPT !.quantity = n] ELSE x
  <2>3. z \in items'
    BY <2>1 DEF SetQuantity
  <2>4. z.id = x.id
    BY DEF TypeInv, TypeOK, CartItem
  <2> HIDE DEF z
  <2> QED BY <2>2, <2>3, <2>4 DEF ItemWithId
<1>4. CASE Inserts(p)
  BY <1>4 DEF Inserts, ItemWithId
<1>5. CASE FindOwnCart(p) \/ CreateCart(p) \/ GetCartAccess(p) \/ FindExistingItem(p)
           \/ FindItem(p) \/ ListItems(p) \/ InsertOrder(p) \/ ClearAccess(p) \/ Return(p)
  BY <1>1, <1>5 DEF FindOwnCart, CreateCart, GetCartAccess, FindExistingItem, FindItem,
     ListItems, InsertOrder, ClearAccess, Return, tables
<1>6. CASE (WriteItem(p) \/ UpdateShare(p)) /\ ~Return(p)
  <2>1. UNCHANGED items \/ SaveItem(req[p])
    BY <1>6 DEF WriteItem, UpdateShare, tables
  <2>2. req[p] \in Request
    BY DEF TypeInv, TypeOK
  <2>3. CASE SetQuantity({x.id : x \in req[p].rows}, req[p].quantity)
    <3>1. {x.id : x \in req[p].rows} \in SUBSET Nat /\ req[p].quantity \in Nat
      BY <2>2 DEF Request, CartItem
    <3> QED BY <1>3, <2>3, <3>1
  <2>4. CASE items' = items \cup {NewItem(req[p])}
    BY <2>4 DEF ItemWithId
  <2> QED BY <1>1, <2>1, <2>3, <2>4 DEF SaveItem
<1>7. CASE UpdateItem(p)
  <2>1. req[p].itemId \in Nat /\ req[p].quantity \in Nat
    BY DEF TypeInv, TypeOK, Request
  <2>2. {req[p].itemId} \in SUBSET Nat
    BY <2>1
  <2> QED BY <1>3, <1>7, <2>1, <2>2 DEF UpdateItem
<1> QED
  BY <1>2, <1>5, <1>6, <1>7, EditActions

\* Edits of others leave an editing request's checks and rows as they are.
LEMMA EditBesideEdit ==
  ASSUME TypeInv, SnapshotOK, NEW p \in Proc, Step(p), ~Exclusive(req[p]),
         LabelsOK(req[p]), NEW q \in Proc, q # p, ~Exclusive(req[q]),
         req[q].pc # "idle", UpToDate(req[q])
  PROVE  UpToDate(req[q])'
<1> DEFINE r == req[q]
<1>0. /\ req'[q] = r /\ Acts(p) /\ nextItem \in Nat
      /\ r.itemId \in Nat /\ \A y \in r.rows : y.id \in Nat
  BY OthersWait DEF Acts, TypeInv, TypeOK, Request, CartItem
<1>1. /\ nextItem' \in Nat /\ nextItem <= nextItem'
      /\ \A y \in items' : \/ \E x \in items : SameRow(x, y)
                           \/ y.id = nextItem
  BY <1>0, RowsPersist DEF NewItem
<1>2. LabelsOK(r) /\ ChecksHold(r) /\ FoundItem(r) /\ FoundRows(r)
  BY DEF UpToDate
<1>3. /\ r.op \notin {"shareCart", "removeSharedUser", "checkoutCart"}
      /\ r.pc \notin {"deleteCartItems", "lockItems", "commitCheckout", "createShares",
                      "deleteShare", "lockCleared"}
  BY <1>2 DEF Edits, Exclusive, LabelsOK, TypeInv, ArgumentsOK
<1>4. r.pc \notin Unchecked => HasAccess(r)'
  <2> SUFFICES ASSUME HasAccess(r)
               PROVE  HasAccess(r)'
    BY <1>2 DEF ChecksHold
  <2>1. CASE r.user = r.cart
    BY <1>0, <2>1, EditKeeps DEF HasAccess
  <2>2. CASE r.user # r.cart
    <3>1. PICK s \in shares : s.cart = r.cart /\ s.user = r.user /\ RoleSuffices(r.op, s.role)
      BY <2>2 DEF HasAccess, ShareOf, SharesOf
    <3>2. PICK t \in shares' : t.cart = s.cart /\ t.user = s.user /\ t.role = s.role
      BY EditKeeps
    <3> QED BY <1>0, <3>1, <3>2, EditKeeps DEF HasAccess, ShareOf, SharesOf
  <2> QED BY <2>1, <2>2
<1>5. ChecksHold(r)'
  <2>1. ASSUME \A s \in ShareOf(r.cart, r.user) : s.hasContributed,
               NEW t \in shares', t.cart = r.cart, t.user = r.user
        PROVE  t.hasContributed
    BY <2>1, EditKeeps DEF ShareOf, SharesOf
  <2> QED
    BY <1>0, <1>2, <1>3, <1>4, <2>1 DEF ChecksHold, Contributes, ShareOf, SharesOf
<1>6. FoundItem(r)'
  BY <1>0, <1>1, <1>2 DEF FoundItem, SameRow
<1>7. FoundRows(r)'
  <2> SUFFICES ASSUME r.pc \in {"writeItem", "updateShare"}, NEW y \in r.rows
               PROVE  /\ y.id < nextItem'
                      /\ \A x \in items' :
                           x.id = y.id => x.cart = r.cart /\ x.menuItem = r.menuItem
                      /\ r.pc = "updateShare" => ItemWithId(y.id)' # {}
    BY <1>0 DEF FoundRows
  <2>1. /\ y.id < nextItem
        /\ \A x \in items : x.id = y.id => x.cart = r.cart /\ x.menuItem = r.menuItem
        /\ r.pc = "updateShare" => ItemWithId(y.id) # {}
    BY <1>2 DEF FoundRows
  <2> QED BY <1>0, <1>1, <2>1, LockedRowsStay DEF SameRow
<1> QED
  BY <1>0, <1>2, <1>3, <1>5, <1>6, <1>7 DEF UpToDate, LabelsOK, ReadAlone, Reading

\* Setting the quantities of rows of one cart leaves the others alone.
LEMMA QuantityElsewhere ==
  ASSUME TypeInv, NEW ids, NEW n, SetQuantity(ids, n), NEW c, NEW d, c # d,
         \A x \in items : x.id \in ids => x.cart = d
  PROVE  ItemsOf(c)' = ItemsOf(c)
<1> DEFINE f(x) == IF x.id \in ids THEN [x EXCEPT !.quantity = n] ELSE x
<1>1. items' = {f(x) : x \in items}
  BY DEF SetQuantity
<1>2. \A x \in items : f(x).cart = x.cart /\ (x.cart = c => f(x) = x)
  BY DEF TypeInv, TypeOK, CartItem
<1> HIDE DEF f
<1> QED BY <1>1, <1>2 DEF ItemsOf

\* A request touches no other cart, and none before it has been let at one.
LEMMA OtherCarts ==
  ASSUME AtomicInv, NEW p \in Proc, Step(p)
  PROVE  /\ carts \subseteq carts'
         /\ \A c \in User : req[p].pc \in Unchecked \/ c # req[p].cart =>
              ItemsOf(c)' = ItemsOf(c) /\ SharesOf(c)' = SharesOf(c)
<1> DEFINE r == req[p]
<1>0. /\ TypeInv /\ UniqueKeys /\ ShareIds /\ UpToDate(r)
      /\ items \subseteq CartItem /\ shares \subseteq CartShare
  BY DEF AtomicInv, KeysInv, CheckoutInv, TypeInv, TypeOK
<1>1. carts \subseteq carts'
  BY DEF Step, FindOwnCart, CreateCart, GetCartAccess, FindExistingItem, WriteItem,
     UpdateShare, FindItem, UpdateItem, DeleteItem, ListItems, LockItem, LockShare,
     DeleteShares, CreateShare, CommitShares, FindShare, DeleteShare, FindCartItems,
     DeleteCartItems, DeleteCartShares, CommitCheckout, InsertOrder, ClearAccess,
     ClearItems, CommitClear, Return, tables
<1>2. ASSUME NEW c \in User, r.pc \in Unchecked \/ c # r.cart
      PROVE  ItemsOf(c)' = ItemsOf(c)
  <2>1. CASE UNCHANGED items
    BY <2>1 DEF ItemsOf
  <2>2. CASE (WriteItem(p) \/ UpdateShare(p)) /\ SaveItem(r)
    <3>1. c # r.cart /\ r.pc \in {"writeItem", "updateShare"}
      BY <1>2, <2>2 DEF WriteItem, UpdateShare, Unchecked
    <3>2. CASE SetQuantity({x.id : x \in r.rows}, r.quantity)
      <4>1. \A x \in items : x.id \in {y.id : y \in r.rows} => x.cart = r.cart
        BY <1>0, <3>1 DEF UpToDate, FoundRows
      <4> QED BY <1>0, <3>1, <3>2, <4>1, QuantityElsewhere
    <3>3. CASE items' = items \cup {NewItem(r)}
      BY <3>1, <3>3 DEF NewItem, ItemsOf
    <3> QED BY <2>2, <3>2, <3>3 DEF SaveItem
  <2>3. CASE UpdateItem(p) \/ DeleteItem(p)
    <3>1. \A x \in items : x.id = r.itemId => x.cart = r.cart
      BY <1>0, <2>3 DEF UpdateItem, DeleteItem, UpToDate, LabelsOK, FoundItem
    <3>2. c # r.cart
      BY <1>2, <2>3 DEF UpdateItem, DeleteItem, Unchecked
    <3>3. CASE UpdateItem(p)
      <4>1. \A x \in items : x.id \in {r.itemId} => x.cart = r.cart
        BY <3>1
      <4> QED BY <1>0, <3>2, <3>3, <4>1, QuantityElsewhere DEF UpdateItem
    <3>4. CASE DeleteItem(p)
      BY <3>1, <3>2, <3>4 DEF DeleteItem, ItemWithId, ItemsOf
    <3> QED BY <2>3, <3>3, <3>4
  <2>4. CASE CommitCheckout(p) \/ CommitClear(p)
    <3>1. \A i \in r.lockedRows : \E y \in ItemsOf(r.cart) : y.id = i
      BY <1>0, <2>4 DEF CommitCheckout, CommitClear, UpToDate, ReadAlone
    <3>2. \A x \in items : x.id \in r.lockedRows => x.cart = r.cart
      BY <1>0, <3>1 DEF ItemsOf, UniqueKeys
    <3> QED BY <1>2, <2>4, <3>2 DEF CommitCheckout, CommitClear, ItemsOf, Unchecked
  <2> QED
    BY <2>1, <2>2, <2>3, <2>4
       DEF Step, FindOwnCart, CreateCart, GetCartAccess, FindExistingItem, WriteItem,
           UpdateShare, FindItem, ListItems, LockItem, LockShare, DeleteShares,
           CreateShare, CommitShares, FindShare, DeleteShare, FindCartItems,
           DeleteCartItems, DeleteCartShares, InsertOrder, ClearAccess, ClearItems,
           Return, tables
<1>3. ASSUME NEW c \in User, r.pc \in Unchecked \/ c # r.cart
      PROVE  SharesOf(c)' = SharesOf(c)
  <2>1. CASE UNCHANGED shares
    BY <2>1 DEF SharesOf
  <2>2. CASE UpdateShare(p) /\ ~Return(p)
    <3> DEFINE marked == ShareOf(r.cart, r.user)
    <3>1. shares' = (shares \ marked) \cup
                      {[s EXCEPT !.hasContributed = TRUE] : s \in marked}
      BY <2>2 DEF UpdateShare
    <3>2. \A s \in marked : s \in shares /\ s.cart = r.cart /\
            [s EXCEPT !.hasContributed = TRUE].cart = r.cart
      BY <1>0 DEF ShareOf, SharesOf, CartShare
    <3>3. c # r.cart
      BY <1>3, <2>2 DEF UpdateShare, Unchecked
    <3> HIDE DEF marked
    <3> QED BY <3>1, <3>2, <3>3 DEF SharesOf
  <2>3. CASE CommitShares(p) \/ CommitCheckout(p)
    <3>1. \A i \in r.lockedShares : \E t \in SharesOf(r.cart) : t.id = i
      BY <1>0, <2>3 DEF CommitShares, CommitCheckout, UpToDate, ReadAlone
    <3>2. \A s \in shares : s.id \in r.lockedShares => s.cart = r.cart
      BY <1>0, <3>1 DEF SharesOf, ShareIds
    <3>3. CommitShares(p) => \A s \in r.inserted : s.cart = r.cart
      BY <1>0 DEF CommitShares, UpToDate, ReadAlone
    <3>4. c # r.cart
      BY <1>3, <2>3 DEF CommitShares, CommitCheckout, Unchecked
    <3> QED BY <2>3, <3>2, <3>3, <3>4 DEF CommitShares, CommitCheckout, SharesOf
  <2>4. CASE DeleteShare(p)
    BY <1>3, <2>4 DEF DeleteShare, ShareOf, SharesOf, Unchecked
  <2> QED
    BY <2>1, <2>2, <2>3, <2>4
       DEF Step, FindOwnCart, CreateCart, GetCartAccess, FindExistingItem, WriteItem,
           UpdateShare, FindItem, UpdateItem, DeleteItem, ListItems, LockItem, LockShare,
           DeleteShares, CreateShare, FindShare, FindCartItems, DeleteCartItems,
           DeleteCartShares, InsertOrder, ClearAccess, ClearItems, CommitClear, Return,
           tables
<1> QED BY <1>1, <1>2, <1>3

\* A request stays up to date while nothing changes in its cart.
LEMMA ElsewhereUpToDate ==
  ASSUME AtomicInv, NEW p \in Proc, Step(p), NEW q \in Proc, q # p,
         req[q].pc \in Unchecked \/ req[p].pc \in Unchecked \/ req[q].cart # req[p].cart
  PROVE  UpToDate(req[q])'
<1> DEFINE r == req[q]
<1>0. /\ TypeInv /\ SnapshotOK /\ UpToDate(r) /\ req'[q] = r /\ Acts(p)
      /\ nextItem \in Nat /\ r.itemId \in Nat /\ \A y \in r.rows : y.id \in Nat
      /\ r.pc \notin Unchecked => r.cart \in User
  BY OthersWait DEF AtomicInv, KeysInv, CheckoutInv, Acts, TypeInv, TypeOK, ArgumentsOK,
     Request, CartItem
<1>1. /\ nextItem' \in Nat /\ nextItem <= nextItem'
      /\ \A y \in items' : \/ \E x \in items : SameRow(x, y)
                           \/ y.id = nextItem
  BY <1>0, RowsPersist DEF NewItem
<1>2. r.pc \notin Unchecked =>
        /\ carts \subseteq carts'
        /\ ItemsOf(r.cart)' = ItemsOf(r.cart) /\ SharesOf(r.cart)' = SharesOf(r.cart)
  BY <1>0, OtherCarts
<1>3. FoundItem(r)'
  BY <1>0, <1>1 DEF UpToDate, FoundItem, SameRow
<1>4. CASE r.pc \in Unchecked
  BY <1>0, <1>3, <1>4
     DEF UpToDate, LabelsOK, ChecksHold, FoundRows, ReadAlone, Reading, Unchecked
<1>5. CASE r.pc \notin Unchecked
  <2>1. FoundRows(r)'
    <3> SUFFICES ASSUME r.pc \in {"writeItem", "updateShare"}, NEW y \in r.rows
                 PROVE  /\ y.id < nextItem'
                        /\ \A x \in items' :
                             x.id = y.id => x.cart = r.cart /\ x.menuItem = r.menuItem
                        /\ r.pc = "updateShare" => ItemWithId(y.id)' # {}
      BY <1>0 DEF FoundRows
    <3>1. /\ y.id < nextItem
          /\ \A x \in items : x.id = y.id => x.cart = r.cart /\ x.menuItem = r.menuItem
          /\ r.pc = "updateShare" => ItemWithId(y.id) # {}
      BY <1>0 DEF UpToDate, FoundRows
    <3>2. ASSUME NEW x \in ItemWithId(y.id)
          PROVE  ItemWithId(y.id)' # {}
      BY <1>2, <1>5, <3>1 DEF ItemWithId, ItemsOf
    <3> QED BY <1>0, <1>1, <3>1, <3>2 DEF SameRow
  <2>2. ChecksHold(r)' /\ ReadAlone(r)'
    BY <1>0, <1>2, <1>5
       DEF UpToDate, ChecksHold, ReadAlone, HasAccess, ShareOf, Contributes, ValidGrants,
           Listed, Reading, Unchecked
  <2> QED BY <1>0, <1>3, <2>1, <2>2 DEF UpToDate, LabelsOK
<1> QED BY <1>4, <1>5

\* Whatever another process does, a request stays up to date: it edits beside
\* edits, or is alone with its cart.
LEMMA OtherGoesOn ==
  ASSUME AtomicInv, NEW p \in Proc, Acts(p), NEW q \in Proc, q # p
  PROVE  UpToDate(req[q])'
<1>0. TypeInv /\ SnapshotOK /\ req'[q] = req[q] /\ UpToDate(req[q]) /\ LabelsOK(req[p])
  BY OthersWait DEF AtomicInv, KeysInv, CheckoutInv, UpToDate
<1>1. CASE Start(p) \/ Deadlocked(p) \/ Fail(p)
  <2>1. UNCHANGED tables
    BY <1>1 DEF Start, StartAddItem, StartUpdateItemQuantity, StartDeleteItem,
       StartGetCartItems, StartShareCart, StartRemoveSharedUser,
       StartCheckoutCart, StartCreateOrder, Begin, Deadlocked, Fail, Return
  <2> QED BY <1>0, <2>1, TablesKept DEF tables
<1>2. CASE Step(p) /\ (\/ req[q].pc \in Unchecked \/ req[p].pc \in Unchecked
                       \/ req[q].cart # req[p].cart)
  BY <1>2, ElsewhereUpToDate
<1>3. CASE Step(p) /\ ~(\/ req[q].pc \in Unchecked \/ req[p].pc \in Unchecked
                        \/ req[q].cart # req[p].cart)
  <2>1. ~Exclusive(req[p]) /\ ~Exclusive(req[q])
    BY <1>3 DEF AtomicInv, Alone
  <2>2. req[q].pc # "idle"
    BY <1>3 DEF Unchecked
  <2> QED BY <1>0, <1>3, <2>1, <2>2, EditBesideEdit
<1> QED BY <1>1, <1>2, <1>3 DEF Acts
-----------------------------------------------------------------------------
(***************************************************************************)
(* The request that takes the step.                                        *)
(***************************************************************************)
\* A request that starts names quantities that may be asked for and an item
\* that exists.
LEMMA StartUpToDate ==
  ASSUME AtomicInv, NEW p \in Proc, Start(p)
  PROVE  UpToDate(req[p])'
<1>0. TypeInv /\ SnapshotOK /\ req \in [Proc -> Request]
  BY DEF AtomicInv, KeysInv, CheckoutInv, TypeInv, TypeOK
<1>1. ASSUME NEW r, Begin(p, r), r.pc \in {"findOwnCart", "access", "findItem"},
             r.op \in {"addItem", "updateItemQuantity", "createOrder"} =>
               r.quantity \in Quantity,
             r.op \in {"updateItemQuantity", "deleteItem"} =>
               r.itemId < nextItem,
             r.pc = "findItem" <=> r.op \in {"updateItemQuantity", "deleteItem"},
             r.op \in {"shareCart", "removeSharedUser"} => r.pc = "findOwnCart"
      PROVE  UpToDate(req[p])'
  <2>1. req'[p] = r /\ nextItem' = nextItem
    BY <1>0, <1>1 DEF Begin, tables
  <2> QED
    BY <1>1, <2>1
       DEF UpToDate, LabelsOK, ChecksHold, FoundItem, FoundRows, ReadAlone, Reading,
           Unchecked
<1>2. \A i \in {x.id : x \in items} : i < nextItem
  BY <1>0 DEF SnapshotOK
<1> USE <1>1, <1>2 DEF Idle, Entry
<1>3. CASE StartAddItem(p)
  BY <1>3 DEF StartAddItem
<1>4. CASE StartUpdateItemQuantity(p)
  BY <1>4 DEF StartUpdateItemQuantity
<1>5. CASE StartDeleteItem(p)
  BY <1>5 DEF StartDeleteItem
<1>6. CASE StartGetCartItems(p)
  BY <1>6 DEF StartGetCartItems
<1>7. CASE StartShareCart(p)
  BY <1>7 DEF StartShareCart
<1>8. CASE StartRemoveSharedUser(p)
  BY <1>8 DEF StartRemoveSharedUser
<1>9. CASE StartCheckoutCart(p)
  BY <1>9 DEF StartCheckoutCart
<1>10. CASE StartCreateOrder(p)
  BY <1>10 DEF StartCreateOrder
<1> QED
  BY <1>3, <1>4, <1>5, <1>6, <1>7, <1>8, <1>9, <1>10 DEF Start

\* A request goes on with the cart it has found, and with access to it.
LEMMA ContinueUpToDate ==
  ASSUME AtomicInv, NEW p \in Proc, Step(p), NEW r, req'[p] = r, HasAccess(r)',
         r.op = req[p].op, r.pc = Continue[r.op],
         r.quantity = req[p].quantity, r.itemId = req[p].itemId,
         UNCHANGED <<items, shares, nextItem>>,
         r.op \in {"shareCart", "removeSharedUser"} => r.cart = r.user,
         r.op \in {"updateItemQuantity", "deleteItem"} =>
           req[p].pc # "findItem" /\ r.cart = req[p].cart,
         r.op = "addItem" /\ ~Contributes(r) =>
           \A s \in shares : s.cart = r.cart /\ s.user = r.user => s.hasContributed
  PROVE  UpToDate(req[p])'
<1>1. /\ req[p].pc # "idle" /\ r.op \in OperationNames /\ UpToDate(req[p])
  BY InProgress DEF AtomicInv, KeysInv, CheckoutInv
<1>2. /\ r.pc \in {"findExistingItem", "updateItem", "deleteItem", "listItems",
                   "deleteShares", "findShare", "findCartItems", "insertOrder"}
      /\ LabelsOK(r)
  BY <1>1 DEF Continue, OperationNames, LabelsOK
<1>3. ChecksHold(r)'
  BY <1>1, <1>2
     DEF ChecksHold, UpToDate, Contributes, ShareOf, SharesOf
<1>4. FoundItem(r)' /\ FoundRows(r)' /\ ReadAlone(r)'
  BY <1>1, <1>2 DEF FoundItem, FoundRows, ReadAlone, Reading, UpToDate
<1> QED
  BY <1>2, <1>3, <1>4
     DEF UpToDate, LabelsOK, ChecksHold, FoundItem, FoundRows, ReadAlone, Reading,
         HasAccess, ShareOf, SharesOf, ItemsOf, ItemWithId, Contributes, ValidGrants,
         Listed

\* The statements that find a cart, and those that check access to it.
LEMMA AccessUpToDate ==
  ASSUME AtomicInv, NEW p \in Proc, Step(p), ~Return(p),
         FindOwnCart(p) \/ CreateCart(p) \/ GetCartAccess(p) \/ FindItem(p)
  PROVE  UpToDate(req[p])'
<1>0. /\ TypeInv /\ req \in [Proc -> Request] /\ req[p] \in Request
      /\ req[p].op \in OperationNames /\ req[p].pc # "idle" /\ UpToDate(req[p])
  BY InProgress DEF AtomicInv, KeysInv, CheckoutInv, TypeInv, TypeOK
<1>1. CASE /\ UseOwnCart(p) /\ req[p].user \in carts'
           /\ req[p].pc \in {"findOwnCart", "createCart"}
           /\ UNCHANGED <<items, shares, nextItem>>
  <2>0. PICK r : r = [req[p] EXCEPT !.cart = req[p].user, !.pc = Continue[req[p].op]]
    OBVIOUS
  <2>1. /\ r.op = req[p].op /\ r.pc = Continue[r.op] /\ r.quantity = req[p].quantity
        /\ r.itemId = req[p].itemId /\ r.cart = req[p].user /\ r.user = req[p].user
    BY <1>0, <2>0 DEF Request
  <2>2. req'[p] = r
    BY <1>0, <1>1, <2>0 DEF UseOwnCart
  <2>3. r.op \notin {"updateItemQuantity", "deleteItem"}
    BY <1>0, <1>1, <2>1 DEF UpToDate, LabelsOK
  <2>4. HasAccess(r)'
    BY <1>1, <2>1 DEF HasAccess
  <2>5. \A s \in shares : ~(s.cart = r.cart /\ s.user = r.user)
    BY <2>1 DEF AtomicInv, OwnersAndNumbers
  <2> QED
    BY <1>1, <2>1, <2>2, <2>3, <2>4, <2>5, ContinueUpToDate
<1>2. CASE GetCartAccess(p)
  <2>0. PICK r : r = [req[p] EXCEPT !.share = ShareRead(req[p]),
                                    !.pc = Continue[req[p].op]]
    OBVIOUS
  <2>1. /\ r.op = req[p].op /\ r.pc = Continue[r.op] /\ r.quantity = req[p].quantity
        /\ r.itemId = req[p].itemId /\ r.cart = req[p].cart /\ r.user = req[p].user
        /\ r.share = ShareRead(req[p])
    BY <1>0, <2>0 DEF Request
  <2>2. /\ req'[p] = r /\ HasAccess(req[p]) /\ req[p].pc = "access"
        /\ UNCHANGED tables
    BY <1>0, <1>2, <2>0 DEF GetCartAccess
  <2>3. r.op \notin {"shareCart", "removeSharedUser"}
    BY <1>0, <2>1, <2>2 DEF UpToDate, LabelsOK
  <2>4. HasAccess(r)' /\ UNCHANGED <<items, shares, nextItem>>
    BY <2>1, <2>2 DEF HasAccess, ShareOf, SharesOf, tables
  <2>5. ~Contributes(r) =>
          \A s \in shares : s.cart = r.cart /\ s.user = r.user => s.hasContributed
    BY <2>1 DEF Contributes, ShareRead, ShareOf, SharesOf, AtomicInv, OwnersAndNumbers
  <2> QED
    BY <2>1, <2>2, <2>3, <2>4, <2>5, ContinueUpToDate
<1>3. CASE Goto(p, "createCart") /\ req[p].pc = "findOwnCart" /\ UNCHANGED tables
  BY <1>0, <1>3
     DEF Goto, Request, tables, UpToDate, LabelsOK, ChecksHold, FoundItem, FoundRows,
         ReadAlone, Reading, Unchecked
<1>4. CASE FindItem(p)
  <2>1. PICK x \in ItemWithId(req[p].itemId) :
          req' = [req EXCEPT ![p].cart = x.cart, ![p].pc = "access"]
    BY <1>4 DEF FindItem
  <2>2. /\ req'[p].pc = "access" /\ req'[p].cart = x.cart /\ req'[p].op = req[p].op
        /\ req'[p].quantity = req[p].quantity /\ req'[p].itemId = req[p].itemId
        /\ UNCHANGED tables /\ req[p].pc = "findItem"
    BY <1>0, <1>4, <2>1 DEF Request, FindItem
  <2>3. \A y \in items : y.id = req[p].itemId => y.cart = x.cart
    BY DEF ItemWithId, AtomicInv, KeysInv, UniqueKeys
  <2> QED
    BY <1>0, <2>2, <2>3
       DEF tables, UpToDate, LabelsOK, ChecksHold, FoundItem, FoundRows,
           ReadAlone, Reading, Unchecked
<1> QED
  BY <1>1, <1>2, <1>3, <1>4 DEF FindOwnCart, CreateCart, tables

\* The statements that only read, before a request writes.
LEMMA ReadUpToDate ==
  ASSUME AtomicInv, NEW p \in Proc, Step(p), ~Return(p),
         \/ FindExistingItem(p) \/ DeleteShares(p) \/ FindShare(p)
         \/ FindCartItems(p) \/ DeleteCartItems(p) \/ DeleteCartShares(p)
         \/ InsertOrder(p) \/ ClearAccess(p) \/ ClearItems(p)
         \/ WriteItem(p) /\ Goto(p, "updateShare")
  PROVE  UpToDate(req[p])'
<1>0. /\ TypeInv /\ SnapshotOK /\ req \in [Proc -> Request] /\ req[p] \in Request
      /\ req[p].pc # "idle" /\ UpToDate(req[p]) /\ LocksOK(req[p])
  BY InProgress DEF AtomicInv, KeysInv, LockInv, CheckoutInv, TypeInv, TypeOK
<1> DEFINE r == req'[p]
<1>1. ASSUME r.op = req[p].op, r.user = req[p].user, r.cart = req[p].cart,
             r.share = req[p].share, r.quantity = req[p].quantity,
             r.itemId = req[p].itemId, req[p].pc \notin Unchecked,
             r.pc \notin Unchecked, UNCHANGED <<carts, items, shares, nextItem>>
      PROVE  ChecksHold(req[p])' /\ FoundItem(req[p])'
  BY <1>0, <1>1
     DEF UpToDate, ChecksHold, FoundItem, HasAccess, ShareOf, SharesOf, Contributes,
         Unchecked
<1>2. CASE FindExistingItem(p)
  <2>1. /\ r.op = req[p].op /\ r.user = req[p].user /\ r.cart = req[p].cart
        /\ r.share = req[p].share /\ r.quantity = req[p].quantity
        /\ r.itemId = req[p].itemId /\ r.menuItem = req[p].menuItem
        /\ r.rows = ItemOf(req[p].cart, req[p].menuItem)
        /\ r.pc = "writeItem" /\ req[p].pc = "findExistingItem"
        /\ UNCHANGED <<carts, items, shares, nextItem>>
    BY <1>0, <1>2 DEF FindExistingItem, Request, tables
  <2>2. \A y \in r.rows :
          /\ y \in items /\ y.cart = r.cart /\ y.menuItem = r.menuItem
          /\ y.id < nextItem
          /\ \A x \in items : x.id = y.id => x = y
    BY <1>0, <2>1 DEF ItemOf, ItemsOf, SnapshotOK, AtomicInv, KeysInv, UniqueKeys
  <2>3. ChecksHold(req[p])' /\ FoundItem(req[p])'
    BY <1>1, <2>1 DEF Unchecked
  <2> QED
    BY <2>1, <2>2, <2>3
       DEF UpToDate, LabelsOK, FoundRows, ReadAlone, Reading
<1>3. CASE WriteItem(p) /\ Goto(p, "updateShare")
  <2>1. /\ r.op = req[p].op /\ r.user = req[p].user /\ r.cart = req[p].cart
        /\ r.share = req[p].share /\ r.quantity = req[p].quantity
        /\ r.itemId = req[p].itemId /\ r.menuItem = req[p].menuItem
        /\ r.rows = req[p].rows
        /\ r.pc = "updateShare" /\ req[p].pc = "writeItem"
    BY <1>0, <1>3 DEF WriteItem, Goto, Request
  <2>2. /\ ItemStatementSucceeds(req[p])
        /\ UNCHANGED <<carts, items, shares, nextItem>>
    <3>1. ~Finish(p)
      BY <1>0, <2>1 DEF Finish, Idle
    <3> QED BY <1>3, <3>1 DEF WriteItem, Return, tables
  <2>3. ChecksHold(req[p])' /\ FoundItem(req[p])'
    BY <1>1, <2>1, <2>2 DEF Unchecked
  <2> QED
    BY <1>0, <2>1, <2>2, <2>3
       DEF UpToDate, LabelsOK, FoundRows, ReadAlone, Reading, ItemWithId,
           ItemStatementSucceeds
<1>4. CASE DeleteShares(p)
  <2>1. /\ r.op = req[p].op /\ r.user = req[p].user /\ r.cart = req[p].cart
        /\ r.share = req[p].share /\ r.quantity = req[p].quantity
        /\ r.itemId = req[p].itemId /\ r.grants = req[p].grants
        /\ r.matched = {s.id : s \in {t \in SharesOf(req[p].cart) :
                                       t.user \in {g.user : g \in ValidGrants(req[p])}}}
        /\ r.lockedShares = req[p].lockedShares /\ r.inserted = req[p].inserted
        /\ r.pc = "createShares" /\ req[p].pc = "deleteShares"
        /\ UNCHANGED <<carts, items, shares, nextItem>>
    BY <1>0, <1>4 DEF DeleteShares, Request, tables
  <2>2. r.lockedShares = {} /\ r.inserted = {}
    BY <1>0, <2>1 DEF LocksOK
  <2>3. Listed(r) = {g.user : g \in ValidGrants(req[p])}
    BY <2>1, <2>2 DEF Listed, ValidGrants
  <2>4. ReadAlone(req[p])'
    BY <2>1, <2>2, <2>3 DEF ReadAlone, Reading, SharesOf, Listed, ValidGrants
  <2>5. ChecksHold(req[p])' /\ FoundItem(req[p])'
    BY <1>1, <2>1 DEF Unchecked
  <2> QED
    BY <1>0, <2>1, <2>4, <2>5
       DEF UpToDate, LabelsOK, FoundRows, ReadAlone, Reading, SharesOf, Listed, ValidGrants
<1>5. CASE FindShare(p)
  <2>1. /\ r.op = req[p].op /\ r.user = req[p].user /\ r.cart = req[p].cart
        /\ r.share = req[p].share /\ r.quantity = req[p].quantity
        /\ r.itemId = req[p].itemId /\ r.peer = req[p].peer
        /\ \E s \in ShareOf(req[p].cart, req[p].peer) : ~s.hasContributed
        /\ r.pc = "deleteShare" /\ req[p].pc = "findShare"
        /\ UNCHANGED <<carts, items, shares, nextItem>>
    BY <1>0, <1>5 DEF FindShare, Goto, Request, tables
  <2>2. ChecksHold(req[p])' /\ FoundItem(req[p])'
    BY <1>1, <2>1 DEF Unchecked
  <2> QED
    BY <1>0, <2>1, <2>2
       DEF UpToDate, LabelsOK, FoundRows, ReadAlone, Reading, ShareOf, SharesOf
<1>6. CASE FindCartItems(p) \/ DeleteCartItems(p) \/ DeleteCartShares(p)
  <2>1. /\ r.op = req[p].op /\ r.user = req[p].user /\ r.cart = req[p].cart
        /\ r.share = req[p].share /\ r.quantity = req[p].quantity
        /\ r.itemId = req[p].itemId /\ r.lockedRows = req[p].lockedRows
        /\ r.lockedShares = req[p].lockedShares
        /\ UNCHANGED <<carts, items, shares, nextItem>>
    BY <1>0, <1>6 DEF FindCartItems, DeleteCartItems, DeleteCartShares, Request, tables
  <2>2. /\ r.pc \in {"deleteCartItems", "lockItems", "commitCheckout"}
        /\ req[p].pc \in {"findCartItems", "deleteCartItems", "lockItems"}
    BY <1>0, <1>6 DEF FindCartItems, DeleteCartItems, DeleteCartShares, Request
  <2>3. r.rows = ItemsOf(r.cart)
    BY <1>0, <1>6
       DEF FindCartItems, DeleteCartItems, DeleteCartShares, Request, UpToDate,
           ReadAlone, Reading
  <2>4. r.pc = "lockItems" => /\ r.matched = {x.id : x \in ItemsOf(r.cart)}
                              /\ r.lockedRows = {}
    BY <1>0, <1>6, <2>1
       DEF FindCartItems, DeleteCartItems, DeleteCartShares, Request, LocksOK
  <2>5. ASSUME r.pc = "commitCheckout"
        PROVE  /\ r.lockedRows = {x.id : x \in ItemsOf(r.cart)}
               /\ r.matched = {s.id : s \in SharesOf(r.cart)}
               /\ r.lockedShares = {}
    <3>1. /\ req[p].pc = "lockItems" /\ ItemsLeft(req[p]) = {}
          /\ r.matched = {s.id : s \in SharesOf(r.cart)}
      BY <1>0, <1>6, <2>5 DEF FindCartItems, DeleteCartItems, DeleteCartShares, Request
    <3>2. /\ req[p].matched = {x.id : x \in ItemsOf(req[p].cart)}
          /\ req[p].lockedRows \subseteq req[p].matched
      BY <1>0, <3>1 DEF UpToDate, ReadAlone
    <3>3. req[p].matched \subseteq req[p].lockedRows
      BY <3>1, <3>2 DEF ItemsLeft, ItemsOf
    <3> QED BY <1>0, <2>1, <3>1, <3>2, <3>3 DEF LocksOK
  <2>6. ChecksHold(req[p])' /\ FoundItem(req[p])'
    BY <1>1, <2>1, <2>2 DEF Unchecked
  <2> QED
    BY <1>0, <2>1, <2>2, <2>3, <2>4, <2>5, <2>6
       DEF UpToDate, LabelsOK, FoundRows, ReadAlone, Reading, ItemsOf, SharesOf
<1>7. CASE InsertOrder(p) \/ ClearAccess(p) \/ ClearItems(p)
  <2>1. /\ r.op = req[p].op /\ r.user = req[p].user /\ r.cart = req[p].cart
        /\ r.share = req[p].share /\ r.quantity = req[p].quantity
        /\ r.itemId = req[p].itemId
        /\ r.pc \in {"clearAccess", "clearItems", "lockCleared"}
        /\ req[p].pc \in {"insertOrder", "clearAccess", "clearItems"}
        /\ UNCHANGED <<carts, items, shares, nextItem>>
    BY <1>0, <1>7 DEF InsertOrder, ClearAccess, ClearItems, Goto, Request, tables
  <2>2. r.pc = "lockCleared" => /\ r.matched = {x.id : x \in ItemsOf(r.cart)}
                                /\ r.lockedRows = {}
    BY <1>0, <1>7 DEF InsertOrder, ClearAccess, ClearItems, Goto, Request, LocksOK
  <2>3. ChecksHold(req[p])' /\ FoundItem(req[p])'
    BY <1>1, <2>1 DEF Unchecked
  <2> QED
    BY <1>0, <2>1, <2>2, <2>3
       DEF UpToDate, LabelsOK, FoundRows, ReadAlone, Reading, ItemsOf
<1> QED
  BY <1>2, <1>3, <1>4, <1>5, <1>6, <1>7

\* A row that a DELETE locks is one it has found; a share that a shareCart inserts
\* is for a guest it lists, whose old share it has deleted.
LEMMA RowUpToDate ==
  ASSUME AtomicInv, NEW p \in Proc, Step(p), LockItem(p) \/ LockShare(p) \/ CreateShare(p)
  PROVE  UpToDate(req[p])'
<1> DEFINE r == req[p]
           s == req'[p]
<1>0. /\ TypeInv /\ req \in [Proc -> Request] /\ r \in Request
      /\ r.pc # "idle" /\ UpToDate(r)
  BY InProgress DEF AtomicInv, KeysInv, CheckoutInv, TypeInv, TypeOK
<1>1. /\ s.op = r.op /\ s.pc = r.pc /\ s.user = r.user /\ s.cart = r.cart
      /\ s.menuItem = r.menuItem /\ s.quantity = r.quantity /\ s.itemId = r.itemId
      /\ s.rows = r.rows /\ s.share = r.share /\ s.matched = r.matched
      /\ r.pc \in {"lockItems", "lockCleared", "createShares", "commitCheckout"}
      /\ UNCHANGED <<carts, items, shares>>
  BY <1>0, RowByRow
<1>2. nextItem' = nextItem
  BY DEF LockItem, LockShare, CreateShare, tables
<1>3. ReadAlone(req[p])'
  <2>1. CASE LockItem(p)
    <3>1. PICK x \in ItemsLeft(r) : req' = [req EXCEPT ![p].lockedRows = @ \cup {x.id}]
      BY <2>1 DEF LockItem
    <3>2. x.id \in r.matched /\ s.lockedRows = r.lockedRows \cup {x.id}
      BY <1>0, <3>1 DEF ItemsLeft, Request
    <3>3. r.pc \in {"lockItems", "lockCleared"}
      BY <2>1 DEF LockItem
    <3> QED
      BY <1>0, <1>1, <3>2, <3>3 DEF UpToDate, ReadAlone, Reading, ItemsOf
  <2>2. CASE LockShare(p)
    <3>1. PICK x \in SharesLeft(r) : req' = [req EXCEPT ![p].lockedShares = @ \cup {x.id}]
      BY <2>2 DEF LockShare
    <3>2. /\ x.id \in r.matched /\ s.lockedShares = r.lockedShares \cup {x.id}
          /\ s.lockedRows = r.lockedRows /\ s.inserted = r.inserted
          /\ s.grants = r.grants
      BY <1>0, <3>1 DEF SharesLeft, Request
    <3>3. r.pc \in {"createShares", "commitCheckout"} /\ Listed(s) = Listed(r)
      BY <1>1, <2>2, <3>2 DEF LockShare, Listed, ValidGrants
    <3> QED
      BY <1>0, <1>1, <3>2, <3>3
         DEF UpToDate, ReadAlone, Reading, ItemsOf, SharesOf, Listed, ValidGrants
  <2>3. CASE CreateShare(p)
    <3>1. PICK g \in ValidGrants(r) :
            LET present == {t \in ShareOf(r.cart, g.user) : t.id \notin r.lockedShares} IN
            \/ /\ present # {}
               /\ req' = [req EXCEPT ![p].grants = @ \ {g}]
            \/ req' = [req EXCEPT ![p].grants = @ \ {g},
                                  ![p].inserted = @ \cup {NewShare(r, g)}]
      BY <2>3 DEF CreateShare
    <3>2. r.pc = "createShares" /\ SharesLeft(r) = {}
      BY <2>3 DEF CreateShare
    <3>3. {t \in ShareOf(r.cart, g.user) : t.id \notin r.lockedShares} = {}
      <4>1. \A t \in ShareOf(r.cart, g.user) : t.id \in r.matched
        BY <1>0, <3>2 DEF UpToDate, ReadAlone, Listed, ShareOf
      <4> QED BY <3>2, <4>1 DEF SharesLeft, ShareOf, SharesOf
    <3>4. PICK new : new = NewShare(r, g)
      OBVIOUS
    <3>5. /\ s.inserted = r.inserted \cup {new} /\ s.grants = r.grants \ {g}
          /\ s.lockedShares = r.lockedShares
      BY <1>0, <3>1, <3>3, <3>4 DEF Request
    <3>6. /\ new.cart = r.cart /\ new.user = g.user /\ g.user # r.user
          /\ new.hasContributed = FALSE
      BY <3>4 DEF NewShare, ValidGrants
    <3>7. Listed(s) = Listed(r)
      <4>1. ValidGrants(r) = ValidGrants(s) \cup {g}
        BY <1>1, <3>5 DEF ValidGrants
      <4> QED BY <3>5, <3>6, <4>1 DEF Listed
    <3> QED
      BY <1>0, <1>1, <3>2, <3>5, <3>6, <3>7
         DEF UpToDate, ReadAlone, Reading, SharesOf, Listed, ValidGrants
  <2> QED BY <2>1, <2>2, <2>3
<1>4. ChecksHold(req[p])' /\ FoundItem(req[p])'
  BY <1>0, <1>1, <1>2
     DEF UpToDate, ChecksHold, FoundItem, HasAccess, ShareOf, SharesOf, Contributes,
         Unchecked
<1> QED
  BY <1>0, <1>1, <1>3, <1>4 DEF UpToDate, LabelsOK, FoundRows

\* After every statement of its own, a request is up to date.
LEMMA StepUpToDate ==
  ASSUME AtomicInv, NEW p \in Proc, Step(p)
  PROVE  UpToDate(req[p])'
<1>0. req \in [Proc -> Request]
  BY DEF AtomicInv, KeysInv, CheckoutInv, TypeInv, TypeOK
<1>1. CASE Finish(p)
  BY <1>0, <1>1, Defaults DEF Finish, Idle
<1>2. CASE ~Finish(p)
  <2>1. ~Return(p)
    BY <1>2 DEF Return
  <2>2. ~(UpdateShare(p) \/ UpdateItem(p) \/ DeleteItem(p) \/ ListItems(p)
          \/ CommitShares(p) \/ DeleteShare(p) \/ CommitCheckout(p) \/ CommitClear(p))
    BY <1>2, <2>1 DEF UpdateShare, UpdateItem, DeleteItem, ListItems, CommitShares,
       DeleteShare, CommitCheckout, CommitClear
  <2>3. WriteItem(p) => Goto(p, "updateShare")
    BY <1>2, <2>1 DEF WriteItem
  <2> QED BY <2>1, <2>2, <2>3, AccessUpToDate, ReadUpToDate, RowUpToDate DEF Step
<1> QED BY <1>1, <1>2

\* Shares with the owner are never created, and order numbers only grow.
LEMMA OwnersStep ==
  ASSUME AtomicInv, NEW p \in Proc, Acts(p)
  PROVE  OwnersAndNumbers'
<1>0. /\ TypeInv /\ UpToDate(req[p]) /\ OwnersAndNumbers
      /\ orders \subseteq Order /\ nextOrder \in Nat
  BY DEF AtomicInv, KeysInv, CheckoutInv, TypeInv, TypeOK
<1>1. ASSUME NEW s \in shares'
      PROVE  s.user # s.cart
  <2>1. CASE \E t \in shares : SameShare(t, s)
    BY <1>0, <2>1 DEF OwnersAndNumbers, SameShare
  <2>2. CASE CommitShares(p) /\ s \in req[p].inserted
    <3>1. s.cart = req[p].cart /\ s.user # req[p].user
      BY <1>0, <2>2 DEF CommitShares, UpToDate, ReadAlone
    <3>2. req[p].cart = req[p].user
      BY <1>0, <2>2 DEF CommitShares, UpToDate, LabelsOK, ChecksHold, Unchecked
    <3> QED BY <3>1, <3>2
  <2> QED BY <1>0, <2>1, <2>2, SharesChange
<1>2. ASSUME NEW o \in orders'
      PROVE  o.refNo < nextOrder'
  <2>1. CASE UNCHANGED <<orders, nextOrder>>
    BY <1>0, <2>1 DEF OwnersAndNumbers
  <2>2. CASE \E lines : orders' = orders \cup {NewOrder(req[p], lines)}
                          /\ nextOrder' = nextOrder + 1
    <3>1. o \in orders \/ o.refNo = nextOrder
      BY <2>2 DEF NewOrder
    <3> QED BY <1>0, <2>2, <3>1 DEF OwnersAndNumbers, Order
  <2>3. CASE CommitCheckout(p) \/ InsertOrder(p)
    BY <2>2, <2>3 DEF CommitCheckout, InsertOrder
  <2> QED
    BY <2>1, <2>3
       DEF Acts, Step, FindOwnCart, CreateCart, GetCartAccess, FindExistingItem,
           WriteItem, UpdateShare, FindItem, UpdateItem, DeleteItem, ListItems,
           LockItem, LockShare, DeleteShares, CreateShare, CommitShares, FindShare,
           DeleteShare, FindCartItems, DeleteCartItems, DeleteCartShares, ClearAccess,
           ClearItems, CommitClear, Start, StartAddItem, StartUpdateItemQuantity,
           StartDeleteItem, StartGetCartItems, StartShareCart, StartRemoveSharedUser,
           StartCheckoutCart, StartCreateOrder, Begin, Deadlocked, Fail, Return, tables
<1> QED BY <1>1, <1>2 DEF OwnersAndNumbers

\* AtomicInv is inductive, once what holds of Cart anyway is known to hold.
LEMMA AtomicStep ==
  ASSUME AtomicInv, [Next /\ OthersAlone]_vars, KeysInv', LockInv', ShareIds'
  PROVE  AtomicInv'
<1>1. CASE UNCHANGED vars
  BY <1>1
     DEF AtomicInv, Alone, OwnersAndNumbers, UpToDate, LabelsOK, ChecksHold, FoundItem,
         FoundRows, ReadAlone, Reading, HasAccess, ShareOf, SharesOf, ItemsOf,
         ItemWithId, Contributes, ValidGrants, Listed, vars, tables
<1>2. ASSUME NEW p \in Proc, Acts(p), OthersAlone
      PROVE  AtomicInv'
  <2>1. Alone'
    BY <1>2 DEF OthersAlone, Alone
  <2>2. \A q \in Proc : UpToDate(req[q])'
    <3>1. ASSUME NEW q \in Proc, q # p
          PROVE  UpToDate(req[q])'
      BY <1>2, <3>1, OtherGoesOn
    <3>2. UpToDate(req[p])'
      <4>1. CASE Start(p)
        BY <1>2, <4>1, StartUpToDate
      <4>2. CASE Step(p)
        BY <1>2, <4>2, StepUpToDate
      <4>3. CASE Deadlocked(p) \/ Fail(p)
        <5>1. req'[p].pc = "idle"
          BY <4>3 DEF Deadlocked, Fail, Return, Finish, Idle, AtomicInv, KeysInv,
             CheckoutInv, TypeInv, TypeOK
        <5> QED BY <5>1, Defaults
      <4> QED BY <1>2, <4>1, <4>2, <4>3 DEF Acts
    <3> QED BY <3>1, <3>2
  <2> QED BY <1>2, <2>1, <2>2, OwnersStep DEF AtomicInv
<1> QED BY <1>1, <1>2 DEF Next, Acts, Quiescent

\* AtomicInv holds while only edits overlap.
LEMMA AtomicInvariant == EditsOverlap => []AtomicInv
<1>1. Init /\ KeysInv /\ LockInv /\ ShareIds => AtomicInv
  BY DEF Init, AtomicInv, Alone, OwnersAndNumbers, UpToDate, LabelsOK, ChecksHold,
     FoundItem, FoundRows, ReadAlone, Reading, Unchecked, Idle
<1>2. EditsOverlap => Spec
  <2>1. [Next /\ OthersAlone]_vars => [Next]_vars
    OBVIOUS
  <2> QED BY <2>1, PTL DEF EditsOverlap, Spec
<1>3. EditsOverlap => []KeysInv /\ []LockInv /\ []ShareIds
  BY <1>2, KeysInvariant, LockInvariant, ShareIdsInvariant, PTL
<1>4. AtomicInv /\ [Next /\ OthersAlone]_vars /\ KeysInv' /\ LockInv' /\ ShareIds'
        => AtomicInv'
  BY AtomicStep
<1> QED BY <1>1, <1>3, <1>4, PTL DEF EditsOverlap
-----------------------------------------------------------------------------
(***************************************************************************)
(* Every step is a step of the atomic cart, or leaves its tables alone.    *)
(***************************************************************************)
\* What a request that is about to write may rely on.
LEMMA MayWrite ==
  ASSUME AtomicInv, NEW p \in Proc, Step(p), req[p].pc \notin Unchecked
  PROVE  /\ req[p].user \in User /\ req[p].cart \in User
         /\ req[p].op \in {"addItem", "createOrder"} => req[p].menuItem \in MenuItem
         /\ req[p].op \in {"addItem", "updateItemQuantity", "createOrder"} =>
              req[p].quantity \in Quantity
         /\ Atomic!MayEdit(req[p].user, req[p].cart)
         /\ req[p].op \in {"checkoutCart", "createOrder"} =>
              Atomic!MayCheckout(req[p].user, req[p].cart)
         /\ UpToDate(req[p])
<1>1. /\ TypeInv /\ UpToDate(req[p]) /\ ChecksHold(req[p]) /\ HasAccess(req[p])
      /\ req[p].pc # "idle"
  BY InProgress DEF AtomicInv, KeysInv, CheckoutInv, UpToDate, ChecksHold
<1>2. req[p].user \in User /\ req[p].cart \in User
  BY <1>1, InProgress
<1>3. \/ req[p].user = req[p].cart
      \/ \E s \in shares : /\ s.cart = req[p].cart /\ s.user = req[p].user
                           /\ RoleSuffices(req[p].op, s.role)
  BY <1>1 DEF HasAccess, ShareOf, SharesOf
<1> QED
  BY <1>1, <1>2, <1>3, InProgress
     DEF HasAccess, RoleSuffices, ChecksHold, Atomic!MayEdit, Atomic!MayCheckout,
         Atomic!ShareOf

\* addItem, when it commits.
LEMMA AddsItem ==
  ASSUME AtomicInv, NEW p \in Proc, Step(p), SaveItem(req[p]),
         UNCHANGED <<carts, orders>>,
         \/ /\ req[p].pc = "writeItem"
            /\ ItemStatementSucceeds(req[p]) /\ ~Contributes(req[p])
            /\ shares' = shares
         \/ /\ req[p].pc = "updateShare"
            /\ shares' = (shares \ ShareOf(req[p].cart, req[p].user)) \cup
                           {[s EXCEPT !.hasContributed = TRUE] :
                              s \in ShareOf(req[p].cart, req[p].user)}
  PROVE  Atomic!Next
<1> DEFINE r == req[p]
           c == r.cart
           m == r.menuItem
           present == {x \in Atomic!ItemsOf(c) : x.menuItem = m}
<1>0. /\ TypeInv /\ SnapshotOK /\ UniqueKeys /\ ReservedOK /\ UpToDate(r)
      /\ items \subseteq CartItem /\ shares \subseteq CartShare
  BY DEF AtomicInv, KeysInv, CheckoutInv, TypeInv, TypeOK
<1>1. /\ r.user \in User /\ c \in User /\ m \in MenuItem /\ r.quantity \in Quantity
      /\ Atomic!MayEdit(r.user, c) /\ r.op = "addItem"
  BY <1>0, MayWrite, InProgress DEF Unchecked
<1>2. present = ItemOf(c, m)
  BY DEF ItemOf, ItemsOf, Atomic!ItemsOf
<1>3. \/ /\ present # {}
         /\ items' = (items \ present) \cup
                       {[x EXCEPT !.quantity = r.quantity] : x \in present}
      \/ /\ present = {}
         /\ \E x \in items' \ items :
              /\ x = [id |-> x.id, cart |-> c, menuItem |-> m,
                      quantity |-> r.quantity, addedBy |-> r.user]
              /\ \A y \in items : y.id # x.id
              /\ items' = items \cup {x}
  <2>1. CASE r.rows # {}
    <3>1. \A y \in r.rows : \E x \in items : x.id = y.id /\ x.cart = c /\ x.menuItem = m
      <4>1. \A y \in r.rows : ItemWithId(y.id) # {}
        BY <1>0, <2>1 DEF ItemStatementSucceeds, UpToDate, FoundRows
      <4> QED BY <1>0, <4>1 DEF ItemWithId, UpToDate, FoundRows
    <3>2. PICK y \in r.rows : TRUE
      BY <2>1
    <3>3. PICK x \in items : x.id = y.id /\ x.cart = c /\ x.menuItem = m
      BY <3>1
    <3>4. present = {x}
      BY <1>0, <1>2, <3>3 DEF ItemOf, ItemsOf, UniqueKeys
    <3>5. \A z \in items : z.id \in {w.id : w \in r.rows} <=> z = x
      BY <1>0, <3>1, <3>2, <3>3 DEF UniqueKeys
    <3>6. items' = {IF z.id \in {w.id : w \in r.rows}
                      THEN [z EXCEPT !.quantity = r.quantity] ELSE z : z \in items}
      BY <2>1 DEF SaveItem, SetQuantity
    <3>7. items' = (items \ {x}) \cup {[x EXCEPT !.quantity = r.quantity]}
      BY ONLY <3>3, <3>5, <3>6
    <3> HIDE DEF present
    <3> QED BY <3>4, <3>7
  <2>2. CASE r.rows = {}
    <3>1. present = {}
      BY <1>0, <1>2, <2>2 DEF ItemStatementSucceeds, ReservedOK, Reserves
    <3>2. items' = items \cup {NewItem(r)}
      BY <2>2 DEF SaveItem
    <3>3. \A y \in items : y.id # nextItem
      BY <1>0 DEF SnapshotOK, CartItem
    <3>4. PICK x : x = NewItem(r)
      OBVIOUS
    <3>5. x.id = nextItem /\ x = [id |-> x.id, cart |-> c, menuItem |-> m,
                                  quantity |-> r.quantity, addedBy |-> r.user]
      BY <3>4 DEF NewItem
    <3> QED BY <3>1, <3>2, <3>3, <3>4, <3>5
  <2> QED BY <2>1, <2>2
<1>4. Atomic!Contribute(r.user, c)
  <2> DEFINE mine(s) == s.cart = c /\ s.user = r.user
  <2>1. shares' = (shares \ ShareOf(c, r.user)) \cup
                    {[s EXCEPT !.hasContributed = TRUE] : s \in ShareOf(c, r.user)}
    <3>1. CASE r.pc = "writeItem"
      <4>1. \A s \in ShareOf(c, r.user) : s.hasContributed = TRUE
        BY <1>0, <1>1, <3>1
           DEF UpToDate, ChecksHold, Unchecked, ShareOf, SharesOf, CartShare
      <4>2. \A s \in ShareOf(c, r.user) : [s EXCEPT !.hasContributed = TRUE] = s
        BY <1>0, <4>1 DEF ShareOf, SharesOf, CartShare
      <4>3. ShareOf(c, r.user) \subseteq shares
        BY DEF ShareOf, SharesOf
      <4> QED BY <3>1, <4>2, <4>3
    <3> QED BY <3>1
  <2>2. ShareOf(c, r.user) = {s \in shares : mine(s)}
    BY DEF ShareOf, SharesOf
  <2>3. shares' = {IF mine(s) THEN [s EXCEPT !.hasContributed = TRUE] ELSE s : s \in shares}
    BY ONLY <2>1, <2>2
  <2> QED BY <2>3 DEF Atomic!Contribute
<1>5. Atomic!AddItem(r.user, c, m, r.quantity)
  BY <1>1, <1>3, <1>4 DEF Atomic!AddItem
<1> QED BY <1>1, <1>5 DEF Atomic!Next

\* The writes of updateItemQuantity and deleteItem.
LEMMA WritesItem ==
  ASSUME AtomicInv, NEW p \in Proc, Step(p), UpdateItem(p) \/ DeleteItem(p)
  PROVE  Atomic!Next \/ UNCHANGED <<carts, items, shares, orders>>
<1> DEFINE r == req[p]
<1>0. /\ UniqueKeys /\ UpToDate(r) /\ r.pc # "idle" /\ r.user \in User
      /\ Atomic!MayEdit(r.user, r.cart)
      /\ r.op \in {"updateItemQuantity", "deleteItem"}
      /\ r.pc = "updateItem" => r.quantity \in Quantity
  BY MayWrite, InProgress
     DEF AtomicInv, KeysInv, CheckoutInv, UpdateItem, DeleteItem, Unchecked, UpToDate,
         LabelsOK
<1>1. CASE ItemWithId(r.itemId) = {}
  BY <1>1 DEF UpdateItem, DeleteItem, SetQuantity, ItemWithId
<1>2. CASE ItemWithId(r.itemId) # {}
  <2>1. PICK x \in items : x.id = r.itemId
    BY <1>2 DEF ItemWithId
  <2>2. x.cart = r.cart
    BY <1>0, <2>1 DEF UpToDate, FoundItem, UpdateItem, DeleteItem
  <2>3. \A z \in items : z.id = r.itemId <=> z = x
    BY <1>0, <2>1 DEF UniqueKeys
  <2>4. CASE UpdateItem(p)
    <3>1. items' = {IF z.id \in {r.itemId} THEN [z EXCEPT !.quantity = r.quantity]
                                           ELSE z : z \in items}
      BY <2>4 DEF UpdateItem, SetQuantity
    <3>2. items' = (items \ {x}) \cup {[x EXCEPT !.quantity = r.quantity]}
      BY ONLY <2>1, <2>3, <3>1
    <3>3. Atomic!UpdateQuantity(r.user, x, r.quantity)
      BY <1>0, <2>2, <2>4, <3>2 DEF UpdateItem, Atomic!UpdateQuantity
    <3> QED BY <1>0, <2>1, <2>4, <3>3 DEF Atomic!Next, UpdateItem
  <2>5. CASE DeleteItem(p)
    <3>1. ItemWithId(r.itemId) = {x}
      BY <2>1, <2>3 DEF ItemWithId
    <3>2. Atomic!RemoveItem(r.user, x)
      BY <1>0, <2>2, <2>5, <3>1 DEF DeleteItem, Atomic!RemoveItem
    <3> QED BY <1>0, <2>1, <3>2 DEF Atomic!Next
  <2> QED BY <2>4, <2>5
<1> QED BY <1>1, <1>2

\* shareCart, when it commits: the shares it has inserted are those of the listed
\* users, and the shares it has deleted are the old ones of these users.
LEMMA SharesCart ==
  ASSUME AtomicInv, NEW p \in Proc, Step(p), CommitShares(p)
  PROVE  Atomic!Next
<1> DEFINE r == req[p]
           c == r.cart
           to == {s.user : s \in r.inserted}
           kept == {s \in shares : s.id \notin r.lockedShares}
<1>0. /\ InsertedOK /\ ShareIds /\ UpToDate(r) /\ r \in Request
      /\ c = r.user /\ r.user \in User
      /\ c \in carts /\ r.pc = "createShares"
  BY MayWrite, InProgress
     DEF AtomicInv, KeysInv, CheckoutInv, CommitShares, Unchecked, UpToDate, LabelsOK,
         ChecksHold, HasAccess
<1>1. \A s \in r.inserted :
        /\ s \in CartShare /\ s.cart = c /\ s.user # c /\ s.hasContributed = FALSE
        /\ \A t \in r.inserted : t.user = s.user => t = s
        /\ \A t \in r.inserted : t.id = s.id => t = s
        /\ \A t \in shares : t.id # s.id
  BY <1>0 DEF UpToDate, ReadAlone, InsertedOK, ShareIds, Request
<1>2. PICK role \in [to -> Role] : \A s \in r.inserted : role[s.user] = s.role
  <2> DEFINE ro == [u \in to |-> CHOOSE k \in Role :
                                   \E s \in r.inserted : s.user = u /\ s.role = k]
  <2>1. ASSUME NEW s \in r.inserted
        PROVE  ro[s.user] = s.role
    <3>1. s.role \in Role /\ s.user \in to
      BY <1>1 DEF CartShare
    <3>2. \A t \in r.inserted : t.user = s.user => t.role = s.role
      BY <1>1
    <3> HIDE DEF to
    <3> QED BY <3>1, <3>2
  <2>2. ro \in [to -> Role]
    <3>1. \A u \in to : ro[u] \in Role
      BY <1>1, <2>1 DEF CartShare
    <3> QED BY <3>1
  <2> HIDE DEF ro
  <2> QED BY <2>1, <2>2
<1>3. to \subseteq User /\ c \notin to /\ DOMAIN role = to
  BY <1>1 DEF CartShare
<1>4. kept = {s \in shares : s.cart = c => s.user \notin to}
  <2>1. Listed(r) = to
    BY DEF CommitShares, Listed
  <2>2. r.lockedShares = {s.id : s \in {t \in SharesOf(c) : t.user \in to}}
    <3>1. /\ r.matched = {s.id : s \in {t \in SharesOf(c) : t.user \in to}}
          /\ r.lockedShares \subseteq r.matched
      BY <1>0, <2>1 DEF UpToDate, ReadAlone
    <3>2. \A s \in shares : s.id \in r.matched => s.id \in r.lockedShares
      BY DEF CommitShares, SharesLeft
    <3> HIDE DEF to
    <3> QED BY <3>1, <3>2 DEF SharesOf
  <2>3. \A s \in shares : s.id \in r.lockedShares <=> s.cart = c /\ s.user \in to
    <3> HIDE DEF to
    <3> QED BY <1>0, <2>2 DEF SharesOf, ShareIds
  <2> HIDE DEF to
  <2> QED BY <2>3
<1>5. shares' = kept \cup r.inserted /\ r.inserted \cap kept = {}
  BY <1>1 DEF CommitShares
<1>6. UNCHANGED <<carts, items, orders>>
  BY DEF CommitShares
<1>7. Atomic!Share(c, role)
  <2> DEFINE old == {s \in shares : s.cart = c => s.user \notin DOMAIN role}
  <2>1. old = kept /\ shares' \ old = r.inserted /\ old \subseteq shares'
    BY <1>3, <1>4, <1>5
  <2>2. \A u \in DOMAIN role : \E s \in r.inserted : s.user = u
    BY <1>3
  <2>3. \A s \in r.inserted :
          /\ s.user \in DOMAIN role
          /\ s = [id |-> s.id, cart |-> c, user |-> s.user, role |-> role[s.user],
                  hasContributed |-> FALSE]
          /\ \A t \in r.inserted : t.user = s.user => t = s
    BY <1>1, <1>2, <1>3 DEF CartShare
  <2>4. \A s \in r.inserted : \A t \in shares' : t.id = s.id => t = s
    BY <1>1, <1>5
  <2> HIDE DEF old, kept, to
  <2>5. /\ c \in carts /\ c \notin DOMAIN role
    BY <1>0, <1>3
  <2> QED
    BY <1>6, <2>1, <2>2, <2>3, <2>4, <2>5 DEF Atomic!Share, old
<1> QED
  BY <1>0, <1>2, <1>3, <1>7 DEF Atomic!Next, Atomic!Role, Role

\* removeSharedUser: the guest has still not contributed.
LEMMA DeletesShare ==
  ASSUME AtomicInv, NEW p \in Proc, Step(p), DeleteShare(p)
  PROVE  Atomic!Next
<1> DEFINE r == req[p]
<1>0. /\ UniqueKeys /\ UpToDate(r) /\ r.cart = r.user /\ r.user \in User
      /\ r.pc = "deleteShare"
  BY MayWrite
     DEF AtomicInv, KeysInv, DeleteShare, Unchecked, UpToDate, LabelsOK, ChecksHold
<1>1. PICK s \in ShareOf(r.cart, r.peer) : ~s.hasContributed
  BY <1>0 DEF UpToDate, ReadAlone
<1>2. s \in shares /\ s.cart = r.cart /\ ShareOf(r.cart, r.peer) = {s}
  BY <1>0, <1>1 DEF ShareOf, SharesOf, UniqueKeys
<1>3. Atomic!Unshare(r.user, s)
  BY <1>0, <1>1, <1>2 DEF DeleteShare, Atomic!Unshare
<1> QED BY <1>0, <1>2, <1>3 DEF Atomic!Next

\* A new order has a number of its own.
LEMMA AddsOrder ==
  ASSUME AtomicInv, NEW p \in Proc, NEW lines,
         orders' = orders \cup {NewOrder(req[p], lines)}
  PROVE  Atomic!AddOrder(req[p].user, req[p].cart, lines)
<1>1. PICK o : o = NewOrder(req[p], lines)
  OBVIOUS
<1>2. o.refNo = nextOrder /\ o = [refNo |-> o.refNo, cart |-> req[p].cart,
                                  checkedOutBy |-> req[p].user, orderItems |-> lines]
  BY <1>1 DEF NewOrder
<1>3. \A other \in orders : other.refNo < o.refNo
  BY <1>2 DEF AtomicInv, OwnersAndNumbers
<1>4. o \notin orders
  <2>1. nextOrder \in Nat
    BY DEF AtomicInv, KeysInv, CheckoutInv, TypeInv, TypeOK
  <2> QED BY <1>2, <1>3, <2>1
<1>5. o \in orders' \ orders /\ orders' = orders \cup {o}
  BY <1>1, <1>4
<1> QED BY <1>2, <1>3, <1>5 DEF Atomic!AddOrder

\* The steps that make an order, and those that clear a cart.
LEMMA ChecksOut ==
  ASSUME AtomicInv, NEW p \in Proc, Step(p),
         CommitCheckout(p) \/ InsertOrder(p) \/ CommitClear(p)
  PROVE  Atomic!Next
<1> DEFINE r == req[p]
<1>0. /\ SnapshotOK /\ UniqueKeys /\ ShareIds /\ UpToDate(r)
      /\ r.user \in User /\ r.cart \in User
      /\ Atomic!MayEdit(r.user, r.cart)
      /\ r.op \in {"checkoutCart", "createOrder"}
      /\ Atomic!MayCheckout(r.user, r.cart)
      /\ r.op = "createOrder" => r.menuItem \in MenuItem /\ r.quantity \in Quantity
  BY MayWrite, InProgress
     DEF AtomicInv, KeysInv, CheckoutInv, CommitCheckout, InsertOrder, CommitClear,
         Unchecked
<1>1. CASE CommitCheckout(p)
  <2>1. /\ r.rows = ItemsOf(r.cart) /\ r.rows # {}
        /\ r.lockedRows = {x.id : x \in ItemsOf(r.cart)}
    BY <1>0, <1>1 DEF CommitCheckout, UpToDate, ReadAlone, Reading, SnapshotOK
  <2>2. items' = items \ ItemsOf(r.cart)
    <3>1. \A x \in items : x.id \in r.lockedRows <=> x \in ItemsOf(r.cart)
      BY <1>0, <2>1 DEF ItemsOf, UniqueKeys
    <3>2. items' = {x \in items : x.id \notin r.lockedRows}
      BY <1>1 DEF CommitCheckout
    <3> QED BY <3>1, <3>2
  <2>3. shares' = {s \in shares : s.cart # r.cart}
    <3>1. /\ r.matched = {s.id : s \in SharesOf(r.cart)}
          /\ r.lockedShares \subseteq r.matched
      BY <1>0, <1>1 DEF CommitCheckout, UpToDate, ReadAlone
    <3>2. \A s \in SharesOf(r.cart) : s.id \in r.lockedShares
      BY <1>1, <3>1 DEF CommitCheckout, SharesLeft, SharesOf
    <3>3. \A s \in shares : s.id \in r.lockedShares <=> s.cart = r.cart
      BY <1>0, <3>1, <3>2 DEF SharesOf, ShareIds
    <3> QED BY <1>1, <3>3 DEF CommitCheckout
  <2>4. Atomic!AddOrder(r.user, r.cart, ItemsOf(r.cart))
    BY <1>1, <2>1, AddsOrder DEF CommitCheckout
  <2>5. ItemsOf(r.cart) = Atomic!ItemsOf(r.cart)
    BY DEF ItemsOf, Atomic!ItemsOf
  <2>6. carts' = carts
    BY <1>1 DEF CommitCheckout
  <2>7. Atomic!Checkout(r.user, r.cart)
    BY <1>0, <2>1, <2>2, <2>3, <2>4, <2>5, <2>6 DEF Atomic!Checkout
  <2> QED BY <1>0, <2>7 DEF Atomic!Next
<1>2. CASE InsertOrder(p)
  <2>1. r.op = "createOrder"
    BY <1>2, InProgress DEF InsertOrder, AtomicInv, KeysInv, CheckoutInv
  <2>2. Atomic!AddOrder(r.user, r.cart,
          {[id |-> 0, cart |-> r.cart, menuItem |-> r.menuItem,
            quantity |-> r.quantity, addedBy |-> r.user]})
    BY <1>2, AddsOrder DEF InsertOrder
  <2>3. UNCHANGED <<carts, items, shares>>
    BY <1>2 DEF InsertOrder
  <2>4. Atomic!PlaceOrder(r.user, r.cart, r.menuItem, r.quantity)
    BY <1>0, <2>2, <2>3, <2>1 DEF Atomic!PlaceOrder
  <2> QED BY <1>0, <2>1, <2>4 DEF Atomic!Next
<1>3. CASE CommitClear(p)
  <2>1. /\ r.matched = {x.id : x \in ItemsOf(r.cart)}
        /\ r.lockedRows \subseteq r.matched
    BY <1>0, <1>3 DEF CommitClear, UpToDate, ReadAlone
  <2>2. \A x \in items : x.id \in r.lockedRows <=> x \in ItemsOf(r.cart)
    BY <1>0, <1>3, <2>1 DEF CommitClear, ItemsLeft, ItemsOf, UniqueKeys
  <2>3. items' = items \ ItemsOf(r.cart)
    BY <1>3, <2>2 DEF CommitClear
  <2>4. Atomic!ClearCart(r.user, r.cart)
    BY <1>0, <1>3, <2>3 DEF CommitClear, Atomic!ClearCart, ItemsOf, Atomic!ItemsOf
  <2> QED BY <1>0, <2>4 DEF Atomic!Next
<1> QED BY <1>1, <1>2, <1>3

\* Every step maps to a step of the atomic cart or to a stutter.
LEMMA AtomicActs ==
  ASSUME AtomicInv, NEW p \in Proc, Acts(p)
  PROVE  Atomic!Next \/ UNCHANGED <<carts, items, shares, orders>>
<1>1. CASE Start(p) \/ Deadlocked(p) \/ Fail(p) \/ Return(p)
  BY <1>1 DEF Start, StartAddItem, StartUpdateItemQuantity, StartDeleteItem,
     StartGetCartItems, StartShareCart, StartRemoveSharedUser,
     StartCheckoutCart, StartCreateOrder, Begin, Deadlocked, Fail, Return, tables
<1>2. CASE Step(p) /\ ~Return(p)
  <2>1. CASE FindOwnCart(p) \/ GetCartAccess(p) \/ FindExistingItem(p) \/ FindItem(p)
             \/ ListItems(p) \/ LockItem(p) \/ LockShare(p) \/ DeleteShares(p)
             \/ CreateShare(p) \/ FindShare(p) \/ FindCartItems(p) \/ DeleteCartItems(p)
             \/ DeleteCartShares(p) \/ ClearAccess(p) \/ ClearItems(p)
    BY <1>2, <2>1 DEF FindOwnCart, GetCartAccess, FindExistingItem, FindItem,
       ListItems, LockItem, LockShare, DeleteShares, CreateShare, FindShare,
       FindCartItems, DeleteCartItems, DeleteCartShares, ClearAccess, ClearItems, tables
  <2>2. CASE CreateCart(p)
    <3>1. req[p].user \in User
      BY <1>2, InProgress DEF AtomicInv, KeysInv, CheckoutInv
    <3>2. Atomic!OpenCart(req[p].user)
      BY <1>2, <2>2 DEF CreateCart, Atomic!OpenCart
    <3> QED BY <3>1, <3>2 DEF Atomic!Next
  <2>3. CASE WriteItem(p) \/ UpdateShare(p)
    BY <1>2, <2>3, AddsItem DEF WriteItem, UpdateShare, tables
  <2> QED
    BY <1>2, <2>1, <2>2, <2>3, WritesItem, SharesCart, DeletesShare, ChecksOut DEF Step
<1> QED BY <1>1, <1>2 DEF Acts

\* As long as requests that share a cart, remove a guest, check out or clear are
\* alone with that cart, every operation takes effect at once, on what the tables hold
\* at that moment, or not at all: the checks that addItem, updateItemQuantity,
\* deleteItem, createOrder and getOwnCart make before they write are made good by
\* the keys, the locks and the rows.
THEOREM CartIsAtomic == EditsOverlap => ImplementsAtomicCart
<1>1. Init => Atomic!Init
  BY DEF Init, Atomic!Init
<1>2. ASSUME AtomicInv, [Next /\ OthersAlone]_vars
      PROVE  [Atomic!Next]_(Atomic!cartVars)
  <2>1. CASE UNCHANGED vars
    BY <2>1 DEF vars, tables, Atomic!cartVars
  <2>2. CASE \E p \in Proc : Acts(p)
    BY <1>2, <2>2, AtomicActs DEF Atomic!cartVars
  <2> QED BY <1>2, <2>1, <2>2 DEF Next, Acts, Quiescent
<1> QED
  BY <1>1, <1>2, AtomicInvariant, PTL DEF EditsOverlap, ImplementsAtomicCart, Atomic!Spec
=============================================================================
