----------------------------- MODULE AtomicCart -----------------------------
(***************************************************************************)
(* What the shared carts promise, with every operation one atomic step:    *)
(* an operation takes effect as a whole, under the conditions that hold at *)
(* that moment, or not at all.                                             *)
(***************************************************************************)
EXTENDS Naturals

CONSTANTS User, MenuItem, Quantity

VARIABLES carts, items, shares, orders

cartVars == <<carts, items, shares, orders>>

Role == {"EDITOR", "CHECKOUT_ALLOWED"}

ItemsOf(c) == {x \in items : x.cart = c}
ShareOf(c, u) == {s \in shares : s.cart = c /\ s.user = u}

\* The owner, and everyone the cart is shared with.
MayEdit(u, c) == c \in carts /\ (u = c \/ ShareOf(c, u) # {})

\* The owner, and everyone who was given the CHECKOUT_ALLOWED role.
MayCheckout(u, c) ==
  c \in carts /\ (u = c \/ \E s \in ShareOf(c, u) : s.role = "CHECKOUT_ALLOWED")

Init == carts = {} /\ items = {} /\ shares = {} /\ orders = {}

OpenCart(u) ==
  /\ u \notin carts
  /\ carts' = carts \cup {u}
  /\ UNCHANGED <<items, shares, orders>>

\* A guest who adds an item has contributed from then on.
Contribute(u, c) ==
  shares' = {IF s.cart = c /\ s.user = u THEN [s EXCEPT !.hasContributed = TRUE]
                                         ELSE s : s \in shares}

\* A menu item is in a cart once: to add it again sets its quantity, and it
\* stays the item of the user who added it first.
AddItem(u, c, m, n) ==
  LET present == {x \in ItemsOf(c) : x.menuItem = m} IN
  /\ MayEdit(u, c)
  /\ \/ /\ present # {}
        /\ items' = (items \ present) \cup
                      {[x EXCEPT !.quantity = n] : x \in present}
     \/ /\ present = {}
        /\ \E x \in items' \ items :
             /\ x = [id |-> x.id, cart |-> c, menuItem |-> m, quantity |-> n,
                     addedBy |-> u]
             /\ \A y \in items : y.id # x.id
             /\ items' = items \cup {x}
  /\ Contribute(u, c)
  /\ UNCHANGED <<carts, orders>>

UpdateQuantity(u, x, n) ==
  /\ MayEdit(u, x.cart)
  /\ items' = (items \ {x}) \cup {[x EXCEPT !.quantity = n]}
  /\ UNCHANGED <<carts, shares, orders>>

RemoveItem(u, x) ==
  /\ MayEdit(u, x.cart)
  /\ items' = items \ {x}
  /\ UNCHANGED <<carts, shares, orders>>

\* Every listed user gets one share, with the role asked for and no contribution.
Share(c, role) ==
  LET kept == {s \in shares : s.cart = c => s.user \notin DOMAIN role}
      new == shares' \ kept
  IN
  /\ c \in carts
  /\ c \notin DOMAIN role
  /\ kept \subseteq shares'
  /\ \A u \in DOMAIN role : \E s \in new : s.user = u
  /\ \A s \in new :
       /\ s.user \in DOMAIN role
       /\ s = [id |-> s.id, cart |-> c, user |-> s.user, role |-> role[s.user],
               hasContributed |-> FALSE]
       /\ \A t \in shares' : t.id = s.id => t = s
       /\ \A t \in new : t.user = s.user => t = s
  /\ UNCHANGED <<carts, items, orders>>

\* Only a guest who has not contributed can be removed.
Unshare(c, s) ==
  /\ s.cart = c
  /\ ~s.hasContributed
  /\ shares' = shares \ {s}
  /\ UNCHANGED <<carts, items, orders>>

AddOrder(u, c, lines) ==
  \E o \in orders' \ orders :
    /\ orders' = orders \cup {o}
    /\ \A other \in orders : other.refNo < o.refNo
    /\ o = [refNo |-> o.refNo, cart |-> c, checkedOutBy |-> u,
            orderItems |-> lines]

\* The items leave the cart and become the order: none is lost or ordered
\* twice, and the cart is no longer shared.
Checkout(u, c) ==
  /\ MayCheckout(u, c)
  /\ ItemsOf(c) # {}
  /\ AddOrder(u, c, ItemsOf(c))
  /\ items' = items \ ItemsOf(c)
  /\ shares' = {s \in shares : s.cart # c}
  /\ UNCHANGED carts

\* An order made from a list of menu items, and the cart cleared after it,
\* are two operations.
PlaceOrder(u, c, m, n) ==
  /\ MayCheckout(u, c)
  /\ AddOrder(u, c, {[id |-> 0, cart |-> c, menuItem |-> m, quantity |-> n,
                      addedBy |-> u]})
  /\ UNCHANGED <<carts, items, shares>>

ClearCart(u, c) ==
  /\ MayEdit(u, c)
  /\ items' = items \ ItemsOf(c)
  /\ UNCHANGED <<carts, shares, orders>>

Next ==
  \E u \in User :
    \/ OpenCart(u)
    \/ \E c \in User, m \in MenuItem, n \in Quantity :
         AddItem(u, c, m, n) \/ PlaceOrder(u, c, m, n)
    \/ \E x \in items : RemoveItem(u, x)
    \/ \E x \in items, n \in Quantity : UpdateQuantity(u, x, n)
    \/ \E to \in SUBSET User : \E role \in [to -> Role] : Share(u, role)
    \/ \E s \in shares : Unshare(u, s)
    \/ \E c \in User : Checkout(u, c) \/ ClearCart(u, c)

Spec == Init /\ [][Next]_cartVars
=============================================================================
