-------------------------------- MODULE Cart --------------------------------
(***************************************************************************)
(* Shared carts and the orders made from them: CartService, and            *)
(* OrderService.createOrder, which is a client of CartService.             *)
(*                                                                         *)
(* Every HTTP request runs in a process of Proc, and the requests of all   *)
(* users interleave between two database statements.  PostgreSQL runs at   *)
(* READ COMMITTED: a statement sees what is committed when it runs, and    *)
(* rows that an open transaction has updated or deleted are locked until   *)
(* it ends.  Writes of an open transaction are kept in its request record  *)
(* and reach the tables when it commits, so a rollback is to drop the      *)
(* record.  A step stands for one statement, or for one row of a statement *)
(* that writes several.  The last write of a transaction on one row and    *)
(* its COMMIT are one step, since nothing it wrote is visible in between.  *)
(*                                                                         *)
(* Cart.ownerId is unique and a cart is never deleted, so a cart is named  *)
(* by its owner.                                                           *)
(***************************************************************************)
EXTENDS Naturals, FiniteSets

CONSTANTS
  User,           \* accounts; also the names of their carts
  MenuItem,       \* menu items of the catalog
  Quantity,       \* quantities a client may ask for
  Proc,           \* requests that may be in progress at the same time
  Operations,     \* the operations clients call
  MaxRequests,    \* bound on the number of requests ever started
  Faults,         \* whether a request may die between two statements
  None            \* an argument left out

Role == {"EDITOR", "CHECKOUT_ALLOWED"}

OperationNames ==
  {"addItem", "updateItemQuantity", "deleteItem", "getCartItems", "shareCart",
   "removeSharedUser", "checkoutCart", "createOrder"}

ASSUME CartAssumption ==
  /\ None \notin User
  /\ None \notin MenuItem \cup OperationNames
  /\ Quantity \subseteq Nat \ {0}
  /\ Operations \subseteq OperationNames
  /\ MaxRequests \in Nat
  /\ Faults \in BOOLEAN

VARIABLES
  carts,          \* rows of Cart
  items,          \* rows of CartItem
  shares,         \* rows of CartShare
  orders,         \* rows of Order with their OrderItem rows
  nextItem,       \* the next id of a CartItem row
  nextOrder,      \* the next Order.refNo
  nextShare,      \* the next id of a CartShare row
  req,            \* the request each process is working on
  started,        \* how many requests have been started
  granted         \* history: every <<cart, user, role>> that was ever shared

tables == <<carts, items, shares, orders, nextItem, nextOrder, nextShare>>
vars == <<tables, req, started, granted>>

CartItem == [id : Nat, cart : User, menuItem : MenuItem, quantity : Nat,
             addedBy : User]
CartShare == [id : Nat, cart : User, user : User, role : Role,
              hasContributed : BOOLEAN]
Grant == [user : User, role : Role]
Order == [refNo : Nat, cart : User, checkedOutBy : User,
          orderItems : SUBSET CartItem]

PC == {"idle", "findOwnCart", "createCart", "access", "findExistingItem",
       "writeItem", "updateShare", "findItem", "updateItem", "deleteItem",
       "listItems", "deleteShares", "createShares", "findShare",
       "deleteShare", "findCartItems", "deleteCartItems", "lockItems",
       "commitCheckout", "insertOrder", "clearAccess", "clearItems",
       "lockCleared"}

\* The steps of an operation that come before it has been let at a cart.
Unchecked == {"idle", "findOwnCart", "createCart", "findItem", "access"}

(***************************************************************************)
(* A request: its operation and arguments, then what it has read (rows,    *)
(* share), the ids of the rows that its running DELETE of several rows has *)
(* found (matched), the ids of the rows that its open transaction has      *)
(* deleted (lockedRows, lockedShares) and the shares that it has inserted. *)
(***************************************************************************)
Request ==
  [op : OperationNames \cup {None}, pc : PC, user : User \cup {None},
   cart : User \cup {None}, menuItem : MenuItem \cup {None}, quantity : Nat,
   itemId : Nat, peer : User \cup {None}, grants : SUBSET Grant,
   rows : SUBSET CartItem, share : SUBSET CartShare, matched : SUBSET Nat,
   lockedRows : SUBSET Nat, lockedShares : SUBSET Nat,
   inserted : SUBSET CartShare]

Idle ==
  [op |-> None, pc |-> "idle", user |-> None, cart |-> None,
   menuItem |-> None, quantity |-> 0, itemId |-> 0, peer |-> None,
   grants |-> {}, rows |-> {}, share |-> {}, matched |-> {},
   lockedRows |-> {}, lockedShares |-> {}, inserted |-> {}]

Init ==
  /\ carts = {}
  /\ items = {}
  /\ shares = {}
  /\ orders = {}
  /\ nextItem = 1
  /\ nextOrder = 1
  /\ nextShare = 1
  /\ req = [p \in Proc |-> Idle]
  /\ started = 0
  /\ granted = {}

(***************************************************************************)
(* Queries and locks.                                                      *)
(***************************************************************************)
ItemsOf(c) == {x \in items : x.cart = c}
ItemWithId(i) == {x \in items : x.id = i}
ItemOf(c, m) == {x \in ItemsOf(c) : x.menuItem = m}
SharesOf(c) == {s \in shares : s.cart = c}
ShareOf(c, u) == {s \in SharesOf(c) : s.user = u}

\* addItem has to set hasContributed in its transaction.
Contributes(r) == \E s \in r.share : ~s.hasContributed

\* The rows that a DELETE of several rows has still to lock.  It locks them one
\* by one, in no order one can rely on, and passes over those that are gone.
ItemsLeft(r) == {x \in items : x.id \in r.matched \ r.lockedRows}
SharesLeft(r) == {s \in shares : s.id \in r.matched \ r.lockedShares}

\* Rows and keys that the open transaction of a request has written: the item
\* rows, the unique key (c, m) of an item, the share rows, the unique key (c, u)
\* of a share.
HoldsRow(q, x) ==
  \/ x.id \in req[q].lockedRows
  \/ req[q].pc = "updateShare" /\ \E y \in req[q].rows : y.id = x.id

HoldsKey(q, c, m) ==
  /\ req[q].pc = "updateShare"
  /\ req[q].rows = {}
  /\ req[q].cart = c
  /\ req[q].menuItem = m

HoldsShare(q, s) == s.id \in req[q].lockedShares

HoldsShareKey(q, c, u) == \E s \in req[q].inserted : s.cart = c /\ s.user = u

RowLocked(p, x) == \E q \in Proc \ {p} : HoldsRow(q, x)
KeyReserved(p, c, m) == \E q \in Proc \ {p} : HoldsKey(q, c, m)
ShareLocked(p, s) == \E q \in Proc \ {p} : HoldsShare(q, s)
ShareKeyReserved(p, c, u) == \E q \in Proc \ {p} : HoldsShareKey(q, c, u)

(***************************************************************************)
(* Control.                                                                *)
(***************************************************************************)
Goto(p, label) == req' = [req EXCEPT ![p].pc = label]
Finish(p) == req' = [req EXCEPT ![p] = Idle]

\* A request that ends with an error response, or that only read.
Return(p) == Finish(p) /\ UNCHANGED <<tables, started, granted>>

\* Where an operation goes on once it knows the cart it may use.
Continue ==
  [addItem |-> "findExistingItem", updateItemQuantity |-> "updateItem",
   deleteItem |-> "deleteItem", getCartItems |-> "listItems",
   shareCart |-> "deleteShares", removeSharedUser |-> "findShare",
   checkoutCart |-> "findCartItems", createOrder |-> "insertOrder"]

Begin(p, r) ==
  /\ req[p].pc = "idle"
  /\ started < MaxRequests
  /\ r.op \in Operations
  /\ req' = [req EXCEPT ![p] = r]
  /\ started' = started + 1
  /\ UNCHANGED <<tables, granted>>

\* The first step when the cart id is optional in the request.
Entry(c) == IF c = None THEN "findOwnCart" ELSE "access"

StartAddItem(p) ==
  \E u \in User, c \in User \cup {None}, m \in MenuItem, n \in Quantity :
    Begin(p, [Idle EXCEPT !.op = "addItem", !.pc = Entry(c), !.user = u,
                          !.cart = c, !.menuItem = m, !.quantity = n])

StartUpdateItemQuantity(p) ==
  \E u \in User, i \in {x.id : x \in items}, n \in Quantity :
    Begin(p, [Idle EXCEPT !.op = "updateItemQuantity", !.pc = "findItem",
                          !.user = u, !.itemId = i, !.quantity = n])

StartDeleteItem(p) ==
  \E u \in User, i \in {x.id : x \in items} :
    Begin(p, [Idle EXCEPT !.op = "deleteItem", !.pc = "findItem",
                          !.user = u, !.itemId = i])

\* getSharedUsers takes the same steps as getCartItems of the user's own cart:
\* both only read, except that they may have to create the cart.
StartGetCartItems(p) ==
  \E u \in User, c \in User \cup {None} :
    Begin(p, [Idle EXCEPT !.op = "getCartItems", !.pc = Entry(c), !.user = u,
                          !.cart = c])

\* The body is a list of users, each with a role; to list a user again changes
\* nothing (skipDuplicates).
StartShareCart(p) ==
  \E u \in User, to \in SUBSET User : \E role \in [to -> Role] :
    Begin(p, [Idle EXCEPT
                !.op = "shareCart", !.pc = "findOwnCart", !.user = u,
                !.grants = {[user |-> v, role |-> role[v]] : v \in to}])

StartRemoveSharedUser(p) ==
  \E u \in User, v \in User :
    Begin(p, [Idle EXCEPT !.op = "removeSharedUser", !.pc = "findOwnCart",
                          !.user = u, !.peer = v])

StartCheckoutCart(p) ==
  \E u \in User, c \in User :
    Begin(p, [Idle EXCEPT !.op = "checkoutCart", !.pc = "access", !.user = u,
                          !.cart = c])

\* The restaurant and menu checks before the cart is looked at read only the
\* catalog; a request they refuse is one that never starts.
StartCreateOrder(p) ==
  \E u \in User, c \in User \cup {None}, m \in MenuItem, n \in Quantity :
    Begin(p, [Idle EXCEPT !.op = "createOrder", !.pc = Entry(c), !.user = u,
                          !.cart = c, !.menuItem = m, !.quantity = n])

Start(p) ==
  \/ StartAddItem(p)
  \/ StartUpdateItemQuantity(p)
  \/ StartDeleteItem(p)
  \/ StartGetCartItems(p)
  \/ StartShareCart(p)
  \/ StartRemoveSharedUser(p)
  \/ StartCheckoutCart(p)
  \/ StartCreateOrder(p)

(***************************************************************************)
(* getOwnCart: find the user's cart, else create it.  A create that loses  *)
(* the race against another one violates Cart.ownerId's unique constraint  *)
(* and the request fails.                                                  *)
(***************************************************************************)
UseOwnCart(p) ==
  req' = [req EXCEPT ![p].cart = req[p].user,
                     ![p].pc = Continue[req[p].op]]

FindOwnCart(p) ==
  /\ req[p].pc = "findOwnCart"
  /\ IF req[p].user \in carts THEN UseOwnCart(p) ELSE Goto(p, "createCart")
  /\ UNCHANGED <<tables, started, granted>>

CreateCart(p) ==
  /\ req[p].pc = "createCart"
  /\ \/ /\ req[p].user \notin carts
        /\ carts' = carts \cup {req[p].user}
        /\ UseOwnCart(p)
        /\ UNCHANGED <<items, shares, orders, nextItem, nextOrder, nextShare,
                       started, granted>>
     \/ /\ req[p].user \in carts
        /\ Return(p)

(***************************************************************************)
(* getCartAccess, and the role test of checkoutCart and checkCartAccess.   *)
(* The cart row is immutable, so its read and that of the share are one    *)
(* step.                                                                   *)
(***************************************************************************)
\* Mutant: the role is forgotten when an order is made from a list of items.
RoleIgnoredByCreateOrder(op, role) ==
  op = "checkoutCart" => role = "CHECKOUT_ALLOWED"

RoleSuffices(op, role) ==
  op \in {"checkoutCart", "createOrder"} => role = "CHECKOUT_ALLOWED"

HasAccess(r) ==
  /\ r.cart \in carts
  /\ \/ r.user = r.cart
     \/ \E s \in ShareOf(r.cart, r.user) : RoleSuffices(r.op, s.role)

ShareRead(r) == IF r.user = r.cart THEN {} ELSE ShareOf(r.cart, r.user)

GetCartAccess(p) ==
  /\ req[p].pc = "access"
  /\ \/ /\ HasAccess(req[p])
        /\ req' = [req EXCEPT ![p].share = ShareRead(req[p]),
                              ![p].pc = Continue[req[p].op]]
        /\ UNCHANGED <<tables, started, granted>>
     \/ /\ ~HasAccess(req[p])
        /\ Return(p)

(***************************************************************************)
(* addItem.  The existing row is looked up before the transaction; inside  *)
(* it that row is updated by id, or a row is created, and the share of a   *)
(* guest who has not contributed yet is marked.  A row that is gone (P2025)*)
(* or a key that is taken (P2002) rolls the transaction back.              *)
(***************************************************************************)
FindExistingItem(p) ==
  /\ req[p].pc = "findExistingItem"
  /\ req' = [req EXCEPT ![p].rows = ItemOf(req[p].cart, req[p].menuItem),
                        ![p].pc = "writeItem"]
  /\ UNCHANGED <<tables, started, granted>>

SetQuantity(ids, n) ==
  items' = {IF x.id \in ids THEN [x EXCEPT !.quantity = n] ELSE x : x \in items}

NewItem(r) ==
  [id |-> nextItem, cart |-> r.cart, menuItem |-> r.menuItem,
   quantity |-> r.quantity, addedBy |-> r.user]

SaveItem(r) ==
  \/ /\ r.rows # {}
     /\ SetQuantity({x.id : x \in r.rows}, r.quantity)
     /\ UNCHANGED nextItem
  \/ /\ r.rows = {}
     /\ items' = items \cup {NewItem(r)}
     /\ nextItem' = nextItem + 1

\* The rows the item statement needs, and whether it succeeds.
ItemStatementWaits(p) ==
  \/ \E x \in req[p].rows : RowLocked(p, x)
  \/ /\ req[p].rows = {}
     /\ \/ KeyReserved(p, req[p].cart, req[p].menuItem)
        \/ \E x \in ItemOf(req[p].cart, req[p].menuItem) : RowLocked(p, x)

\* Mutant: CartItem without its unique key on cart and menu item.
NoUniqueItemKey(r) ==
  r.rows # {} => \A x \in r.rows : ItemWithId(x.id) # {}

ItemStatementSucceeds(r) ==
  IF r.rows # {} THEN \A x \in r.rows : ItemWithId(x.id) # {}
                 ELSE ItemOf(r.cart, r.menuItem) = {}

WriteItem(p) ==
  /\ req[p].pc = "writeItem"
  /\ ~ItemStatementWaits(p)
  /\ \/ /\ ItemStatementSucceeds(req[p])
        /\ Contributes(req[p])
        /\ Goto(p, "updateShare")
        /\ UNCHANGED <<tables, started, granted>>
     \/ /\ ItemStatementSucceeds(req[p])
        /\ ~Contributes(req[p])
        /\ SaveItem(req[p])
        /\ Finish(p)
        /\ UNCHANGED <<carts, shares, orders, nextOrder, nextShare, started,
                       granted>>
     \/ /\ ~ItemStatementSucceeds(req[p])
        /\ Return(p)

UpdateShare(p) ==
  LET marked == ShareOf(req[p].cart, req[p].user) IN
  /\ req[p].pc = "updateShare"
  /\ \A s \in marked : ~ShareLocked(p, s)
  /\ \/ /\ marked # {}
        /\ SaveItem(req[p])
        /\ shares' = (shares \ marked) \cup
                       {[s EXCEPT !.hasContributed = TRUE] : s \in marked}
        /\ Finish(p)
        /\ UNCHANGED <<carts, orders, nextOrder, nextShare, started, granted>>
     \/ /\ marked = {}
        /\ Return(p)

(***************************************************************************)
(* updateItemQuantity and deleteItem: read the item, check access to its   *)
(* cart, then write by id; the write fails if the row has gone meanwhile.  *)
(***************************************************************************)
FindItem(p) ==
  /\ req[p].pc = "findItem"
  /\ \/ /\ \E x \in ItemWithId(req[p].itemId) :
             req' = [req EXCEPT ![p].cart = x.cart, ![p].pc = "access"]
        /\ UNCHANGED <<tables, started, granted>>
     \/ /\ ItemWithId(req[p].itemId) = {}
        /\ Return(p)

UpdateItem(p) ==
  /\ req[p].pc = "updateItem"
  /\ \A x \in ItemWithId(req[p].itemId) : ~RowLocked(p, x)
  /\ SetQuantity({req[p].itemId}, req[p].quantity)
  /\ Finish(p)
  /\ UNCHANGED <<carts, shares, orders, nextItem, nextOrder, nextShare, started,
                 granted>>

DeleteItem(p) ==
  /\ req[p].pc = "deleteItem"
  /\ \A x \in ItemWithId(req[p].itemId) : ~RowLocked(p, x)
  /\ items' = items \ ItemWithId(req[p].itemId)
  /\ Finish(p)
  /\ UNCHANGED <<carts, shares, orders, nextItem, nextOrder, nextShare, started,
                 granted>>

ListItems(p) ==
  /\ req[p].pc = "listItems"
  /\ Return(p)

(***************************************************************************)
(* A DELETE of several rows: locking one of the rows it has found, as soon *)
(* as nobody else holds it.                                                *)
(***************************************************************************)
LockItem(p) ==
  /\ req[p].pc \in {"lockItems", "lockCleared"}
  /\ \E x \in ItemsLeft(req[p]) :
       /\ ~RowLocked(p, x)
       /\ req' = [req EXCEPT ![p].lockedRows = @ \cup {x.id}]
  /\ UNCHANGED <<tables, started, granted>>

LockShare(p) ==
  /\ req[p].pc \in {"createShares", "commitCheckout"}
  /\ \E s \in SharesLeft(req[p]) :
       /\ ~ShareLocked(p, s)
       /\ req' = [req EXCEPT ![p].lockedShares = @ \cup {s.id}]
  /\ UNCHANGED <<tables, started, granted>>

(***************************************************************************)
(* shareCart, in one transaction: delete the listed users' shares, then    *)
(* create them anew with one INSERT ... ON CONFLICT DO NOTHING, which goes *)
(* through the list row by row.  It waits for a key that another open      *)
(* transaction has inserted or is deleting, and skips a key that is taken. *)
(* The list may name the users in any order.  The owner is filtered out of *)
(* it.                                                                     *)
(***************************************************************************)
\* Mutant: the owner is not filtered out of the list.
OwnerNotFilteredOut(r) == r.grants

\* The rows that are to be created, later those that are still to be.
ValidGrants(r) == {g \in r.grants : g.user # r.user}

DeleteShares(p) ==
  LET listed == {g.user : g \in ValidGrants(req[p])}
      found == {s \in SharesOf(req[p].cart) : s.user \in listed}
  IN
  /\ req[p].pc = "deleteShares"
  /\ req' = [req EXCEPT ![p].matched = {s.id : s \in found},
                        ![p].pc = "createShares"]
  /\ UNCHANGED <<tables, started, granted>>

NewShare(r, g) ==
  [id |-> nextShare, cart |-> r.cart, user |-> g.user, role |-> g.role,
   hasContributed |-> FALSE]

CreateShare(p) ==
  LET r == req[p] IN
  /\ r.pc = "createShares"
  /\ SharesLeft(r) = {}
  /\ \E g \in ValidGrants(r) :
       LET present == {s \in ShareOf(r.cart, g.user) : s.id \notin r.lockedShares} IN
       /\ ~ShareKeyReserved(p, r.cart, g.user)
       /\ \A s \in present : ~ShareLocked(p, s)
       /\ \/ /\ present # {}
             /\ req' = [req EXCEPT ![p].grants = @ \ {g}]
             /\ UNCHANGED nextShare
          \/ /\ present = {}
             /\ req' = [req EXCEPT ![p].grants = @ \ {g},
                                   ![p].inserted = @ \cup {NewShare(r, g)}]
             /\ nextShare' = nextShare + 1
  /\ UNCHANGED <<carts, items, shares, orders, nextItem, nextOrder, started, granted>>

CommitShares(p) ==
  LET r == req[p] IN
  /\ r.pc = "createShares"
  /\ SharesLeft(r) = {}
  /\ ValidGrants(r) = {}
  /\ shares' = {s \in shares : s.id \notin r.lockedShares} \cup r.inserted
  /\ granted' = granted \cup {<<s.cart, s.user, s.role>> : s \in r.inserted}
  /\ Finish(p)
  /\ UNCHANGED <<carts, items, orders, nextItem, nextOrder, nextShare, started>>

(***************************************************************************)
(* removeSharedUser: the share is read and tested, then deleted by its     *)
(* unique key whatever has become of it.                                   *)
(***************************************************************************)
FindShare(p) ==
  LET found == ShareOf(req[p].cart, req[p].peer) IN
  /\ req[p].pc = "findShare"
  /\ \/ /\ \E s \in found : ~s.hasContributed
        /\ Goto(p, "deleteShare")
        /\ UNCHANGED <<tables, started, granted>>
     \/ /\ \A s \in found : s.hasContributed
        /\ Return(p)

DeleteShare(p) ==
  /\ req[p].pc = "deleteShare"
  /\ \A s \in ShareOf(req[p].cart, req[p].peer) : ~ShareLocked(p, s)
  /\ shares' = shares \ ShareOf(req[p].cart, req[p].peer)
  /\ Finish(p)
  /\ UNCHANGED <<carts, items, orders, nextItem, nextOrder, nextShare, started,
                 granted>>

(***************************************************************************)
(* checkoutCart, in one transaction: read the items, create the order and  *)
(* its items, delete every item then every share of the cart.              *)
(***************************************************************************)
\* Mutant: the test for an empty cart is missing.
NoTestForEmptyCart(p) ==
  /\ req[p].pc = "findCartItems"
  /\ req' = [req EXCEPT ![p].rows = ItemsOf(req[p].cart),
                        ![p].pc = "deleteCartItems"]
  /\ UNCHANGED <<tables, started, granted>>

\* Mutant: the shares are deleted before the items.
DeletesSharesFirst(p) ==
  /\ req[p].pc = "findCartItems"
  /\ \A s \in SharesOf(req[p].cart) : ~ShareLocked(p, s)
  /\ \/ /\ ItemsOf(req[p].cart) # {}
        /\ req' = [req EXCEPT ![p].rows = ItemsOf(req[p].cart),
                              ![p].lockedShares = {s.id : s \in SharesOf(req[p].cart)},
                              ![p].pc = "deleteCartItems"]
        /\ UNCHANGED <<tables, started, granted>>
     \/ /\ ItemsOf(req[p].cart) = {}
        /\ Return(p)

FindCartItems(p) ==
  /\ req[p].pc = "findCartItems"
  /\ \/ /\ ItemsOf(req[p].cart) # {}
        /\ req' = [req EXCEPT ![p].rows = ItemsOf(req[p].cart),
                              ![p].pc = "deleteCartItems"]
        /\ UNCHANGED <<tables, started, granted>>
     \/ /\ ItemsOf(req[p].cart) = {}
        /\ Return(p)

\* Mutant: only the items of the user who checks out are deleted.
DeletesOwnItemsOnly(p) ==
  LET own == {x \in ItemsOf(req[p].cart) : x.addedBy = req[p].user} IN
  /\ req[p].pc = "deleteCartItems"
  /\ req' = [req EXCEPT ![p].matched = {x.id : x \in own}, ![p].pc = "lockItems"]
  /\ UNCHANGED <<tables, started, granted>>

DeleteCartItems(p) ==
  /\ req[p].pc = "deleteCartItems"
  /\ req' = [req EXCEPT ![p].matched = {x.id : x \in ItemsOf(req[p].cart)},
                        ![p].pc = "lockItems"]
  /\ UNCHANGED <<tables, started, granted>>

DeleteCartShares(p) ==
  /\ req[p].pc = "lockItems"
  /\ ItemsLeft(req[p]) = {}
  /\ req' = [req EXCEPT ![p].matched = {s.id : s \in SharesOf(req[p].cart)},
                        ![p].pc = "commitCheckout"]
  /\ UNCHANGED <<tables, started, granted>>

\* Mutant: the user who checks out is left out of the order.
OrderWithoutUser(r, lines) ==
  [refNo |-> nextOrder, cart |-> r.cart, checkedOutBy |-> None,
   orderItems |-> lines]

NewOrder(r, lines) ==
  [refNo |-> nextOrder, cart |-> r.cart, checkedOutBy |-> r.user,
   orderItems |-> lines]

\* Mutant: a transaction whose answer is lost is repeated with the rows it read.
RepeatsCheckout(p) ==
  LET r == req[p] IN
  /\ r.pc = "commitCheckout"
  /\ SharesLeft(r) = {}
  /\ orders' = orders \cup {NewOrder(r, r.rows)}
  /\ nextOrder' = nextOrder + 1
  /\ items' = {x \in items : x.id \notin r.lockedRows}
  /\ shares' = {s \in shares : s.id \notin r.lockedShares}
  /\ \/ Finish(p)
     \/ Goto(p, "deleteCartItems")
  /\ UNCHANGED <<carts, nextItem, nextShare, started, granted>>

CommitCheckout(p) ==
  LET r == req[p] IN
  /\ r.pc = "commitCheckout"
  /\ SharesLeft(r) = {}
  /\ orders' = orders \cup {NewOrder(r, r.rows)}
  /\ nextOrder' = nextOrder + 1
  /\ items' = {x \in items : x.id \notin r.lockedRows}
  /\ shares' = {s \in shares : s.id \notin r.lockedShares}
  /\ Finish(p)
  /\ UNCHANGED <<carts, nextItem, nextShare, started, granted>>

(***************************************************************************)
(* OrderService.createOrder: the order is inserted from the request body,  *)
(* in a transaction of its own; then clearCart checks access once more and *)
(* deletes the cart's items.  A line of such an order is no cart row: it   *)
(* has id 0.  The lines of a longer list do not differ in anything the     *)
(* cart sees, so the list has one.  The shares stay.                       *)
(***************************************************************************)
InsertOrder(p) ==
  LET r == req[p]
      line == [id |-> 0, cart |-> r.cart, menuItem |-> r.menuItem,
               quantity |-> r.quantity, addedBy |-> r.user]
  IN
  /\ r.pc = "insertOrder"
  /\ orders' = orders \cup {NewOrder(r, {line})}
  /\ nextOrder' = nextOrder + 1
  /\ Goto(p, "clearAccess")
  /\ UNCHANGED <<carts, items, shares, nextItem, nextShare, started, granted>>

ClearAccess(p) ==
  LET allowed == \/ req[p].user = req[p].cart
                 \/ ShareOf(req[p].cart, req[p].user) # {}
  IN
  /\ req[p].pc = "clearAccess"
  /\ \/ /\ allowed
        /\ Goto(p, "clearItems")
        /\ UNCHANGED <<tables, started, granted>>
     \/ /\ ~allowed
        /\ Return(p)

ClearItems(p) ==
  /\ req[p].pc = "clearItems"
  /\ req' = [req EXCEPT ![p].matched = {x.id : x \in ItemsOf(req[p].cart)},
                        ![p].pc = "lockCleared"]
  /\ UNCHANGED <<tables, started, granted>>

CommitClear(p) ==
  /\ req[p].pc = "lockCleared"
  /\ ItemsLeft(req[p]) = {}
  /\ items' = {x \in items : x.id \notin req[p].lockedRows}
  /\ Finish(p)
  /\ UNCHANGED <<carts, shares, orders, nextItem, nextOrder, nextShare, started,
                 granted>>

(***************************************************************************)
(* Waiting.  The next statement of p may wait for a row or a key that q    *)
(* has written: a statement that has several rows left meets each of them  *)
(* sooner or later.  PostgreSQL's deadlock detector ends a transaction     *)
(* that waits in a circle; its request fails and is not repeated.          *)
(***************************************************************************)
WaitsFor(p, q) ==
  LET r == req[p] IN
  /\ q # p
  /\ \/ /\ r.pc = "writeItem"
        /\ \/ \E x \in r.rows : HoldsRow(q, x)
           \/ /\ r.rows = {}
              /\ \/ HoldsKey(q, r.cart, r.menuItem)
                 \/ \E x \in ItemOf(r.cart, r.menuItem) : HoldsRow(q, x)
     \/ /\ r.pc \in {"updateItem", "deleteItem"}
        /\ \E x \in ItemWithId(r.itemId) : HoldsRow(q, x)
     \/ /\ r.pc \in {"lockItems", "lockCleared"}
        /\ \E x \in ItemsLeft(r) : HoldsRow(q, x)
     \/ /\ r.pc = "updateShare"
        /\ \E s \in ShareOf(r.cart, r.user) : HoldsShare(q, s)
     \/ /\ r.pc = "deleteShare"
        /\ \E s \in ShareOf(r.cart, r.peer) : HoldsShare(q, s)
     \/ /\ r.pc \in {"createShares", "commitCheckout"}
        /\ \E s \in SharesLeft(r) : HoldsShare(q, s)
     \/ /\ r.pc = "createShares"
        /\ \E g \in ValidGrants(r) :
             \/ HoldsShareKey(q, r.cart, g.user)
             \/ \E s \in ShareOf(r.cart, g.user) : HoldsShare(q, s)

\* Every set that p's waiting leads to, at once or over others, has p in it.
InCircle(p) ==
  \A S \in SUBSET Proc :
    (\A q \in S \cup {p}, r \in Proc : WaitsFor(q, r) => r \in S) => p \in S

Deadlocked(p) == InCircle(p) /\ Return(p)

(***************************************************************************)
(* A request may die between two statements: the process is stopped, the   *)
(* connection is lost, a statement is refused by the database.  Its open   *)
(* transaction is rolled back, what it committed before stays.             *)
(***************************************************************************)
Fail(p) ==
  /\ Faults
  /\ req[p].pc # "idle"
  /\ Return(p)

Step(p) ==
  \/ FindOwnCart(p)
  \/ CreateCart(p)
  \/ GetCartAccess(p)
  \/ FindExistingItem(p)
  \/ WriteItem(p)
  \/ UpdateShare(p)
  \/ FindItem(p)
  \/ UpdateItem(p)
  \/ DeleteItem(p)
  \/ ListItems(p)
  \/ LockItem(p)
  \/ LockShare(p)
  \/ DeleteShares(p)
  \/ CreateShare(p)
  \/ CommitShares(p)
  \/ FindShare(p)
  \/ DeleteShare(p)
  \/ FindCartItems(p)
  \/ DeleteCartItems(p)
  \/ DeleteCartShares(p)
  \/ CommitCheckout(p)
  \/ InsertOrder(p)
  \/ ClearAccess(p)
  \/ ClearItems(p)
  \/ CommitClear(p)

\* No more requests come: the bound MaxRequests is used up.
Quiescent ==
  /\ started = MaxRequests
  /\ \A p \in Proc : req[p].pc = "idle"
  /\ UNCHANGED vars

Next ==
  \/ \E p \in Proc : Start(p) \/ Step(p) \/ Deadlocked(p) \/ Fail(p)
  \/ Quiescent

Spec == Init /\ [][Next]_vars
-----------------------------------------------------------------------------
\* The tables and every request record hold values of the schema's types.
TypeOK ==
  /\ carts \subseteq User
  /\ items \subseteq CartItem
  /\ shares \subseteq CartShare
  /\ orders \subseteq Order
  /\ nextItem \in Nat \ {0}
  /\ nextOrder \in Nat \ {0}
  /\ nextShare \in Nat \ {0}
  /\ req \in [Proc -> Request]
  /\ started \in Nat
  /\ granted \subseteq User \X User \X Role

\* A cart row that was checked out is never in a cart again: whatever runs
\* beside checkoutCart, a later checkout cannot order it a second time.
OrderedItemsLeaveCart ==
  \A o \in orders : \A x \in o.orderItems, y \in items : x.id # y.id

\* Checkouts that overlap order the same row, each of them once: no other request
\* does, and no later one, so a row has no more orders than requests overlap.
OrdersPerItem ==
  \A i \in 1 .. nextItem :
    Cardinality({o \in orders : \E x \in o.orderItems : x.id = i})
      <= Cardinality(Proc)

\* Nobody puts an item into a cart that was never shared with him, and nobody
\* makes an order from a cart whose checkout he was never allowed; getCartAccess
\* may be out of date when its caller writes, but it is never skipped.
OnlyMembers ==
  /\ \A x \in items : \/ x.addedBy = x.cart
                      \/ \E role \in Role : <<x.cart, x.addedBy, role>> \in granted
  /\ \A o \in orders : \/ o.checkedOutBy = o.cart
                       \/ <<o.cart, o.checkedOutBy, "CHECKOUT_ALLOWED">> \in granted

\* An order is not empty when it is made, and all its items come from one cart;
\* a checkout orders no menu item twice.
OrdersFromOneCart ==
  \A o \in orders :
    /\ o.orderItems # {}
    /\ \A x \in o.orderItems : x.cart = o.cart
    /\ \A x, y \in o.orderItems :
         (x.id # 0 /\ y.id # 0 /\ x.menuItem = y.menuItem) => x = y

\* The unique constraints of the schema hold although addItem, getOwnCart and
\* shareCart decide to insert on what they read in an earlier statement.
UniqueKeys ==
  /\ \A x, y \in items :
       (x.id = y.id \/ (x.cart = y.cart /\ x.menuItem = y.menuItem)) => x = y
  /\ \A s, t \in shares : (s.cart = t.cart /\ s.user = t.user) => s = t

\* Each of these requests waits for another one of them.
Stuck(S) == S # {} /\ \A p \in S : \E q \in S : WaitsFor(p, q)

\* Requests that only wait for items, and those that write several shares.
LockingItems(p) == req[p].pc \in {"lockItems", "lockCleared"}
LockingShares(p) == req[p].pc \in {"createShares", "commitCheckout"}

OfOneKind(S) == (\A p \in S : LockingItems(p)) \/ (\A p \in S : LockingShares(p))

\* Requests that wait for one another in a circle are all deleting several items,
\* or all deleting and inserting several shares: row by row they may take the
\* same rows, and the same keys of a shareCart, in different orders.  There is
\* no other circle, and none with addItem in it, because every transaction locks
\* items before shares.
CirclesOfOneKind ==
  \A S \in SUBSET Proc :
    Stuck(S) => \E T \in SUBSET S : Stuck(T) /\ OfOneKind(T)

\* 'Cart is empty': an order is only made of a cart that has items when the
\* order is made.
CheckoutNeedsItems ==
  [][\A p \in Proc :
       (req[p].pc = "commitCheckout" /\ orders' # orders)
         => ItemsOf(req[p].cart) # {}]_vars

\* 'Cannot remove user who has contributed to the cart': a share that
\* removeSharedUser deletes belongs to a user with no item in the cart.
ContributorsStay ==
  [][\A p \in Proc : \A s \in shares \ shares' :
       (req[p].pc = "deleteShare" /\ req'[p].pc = "idle"
          /\ s.cart = req[p].cart /\ s.user = req[p].peer)
         => \A x \in ItemsOf(s.cart) : x.addedBy # s.user]_vars

\* Operation by operation, the tables change as the atomic cart's do.
Atomic == INSTANCE AtomicCart
            WITH carts <- carts, items <- items, shares <- shares, orders <- orders
ImplementsAtomicCart == Atomic!Spec

\* Requests that only write single items, or an order of their own, overlap with
\* one another; any other request, once it has been let at a cart, is alone with
\* it, as if it had locked the cart's row, and so is createOrder once it clears
\* the cart.
Edits == {"addItem", "updateItemQuantity", "deleteItem", "getCartItems", "createOrder"}
Exclusive(r) == r.op \notin Edits \/ r.pc \in {"clearItems", "lockCleared"}
OthersAlone ==
  \A p, q \in Proc :
    (p # q /\ req'[p].pc \notin Unchecked /\ req'[q].pc \notin Unchecked
       /\ Exclusive(req'[p]))
      => req'[q].cart # req'[p].cart
EditsOverlap == Init /\ [][Next /\ OthersAlone]_vars
=============================================================================
