------------------------------- MODULE MCCart -------------------------------
(***************************************************************************)
(* Small instances of Cart for TLC; the configurations give the constants  *)
(* their values.                                                           *)
(***************************************************************************)
EXTENDS Cart, TLC

\* Requests name one menu item only.
Named == CHOOSE m \in MenuItem : TRUE
NamedOnly == \A p \in Proc : req'[p].menuItem \in {Named, None}

\* Ids for the menu items, from 1 on.
Ids ==
  CHOOSE f \in [MenuItem -> 1 .. Cardinality(MenuItem)] :
    \A m, n \in MenuItem : f[m] = f[n] => m = n

\* A user has put every menu item into his cart, by a request for each.
FilledCart ==
  \E u \in User, n \in Quantity :
    /\ carts = {u}
    /\ items = {[id |-> Ids[m], cart |-> u, menuItem |-> m, quantity |-> n,
                 addedBy |-> u] : m \in MenuItem}
    /\ shares = {}
    /\ orders = {}
    /\ nextItem = Cardinality(MenuItem) + 1
    /\ nextOrder = 1
    /\ nextShare = 1
    /\ req = [p \in Proc |-> Idle]
    /\ started = Cardinality(MenuItem)
    /\ granted = {}

EmptyOrFilledSpec == (Init \/ FilledCart) /\ [][Next /\ NamedOnly]_vars

\* Orders that are no checkouts are of one quantity, and a cart is shared with
\* somebody: what else is ordered, or an empty list, makes no other step.
SomeQuantity == CHOOSE n \in Quantity : TRUE
FewRequests ==
  \A p \in Proc : LET r == req'[p] IN
    /\ r.op = "createOrder" => r.quantity = SomeQuantity
    /\ r.op = "shareCart" /\ r.pc = "findOwnCart" => r.grants # {}

FewEditsOverlap == Init /\ [][Next /\ OthersAlone /\ FewRequests]_vars

\* Users, menu items and processes are interchangeable.
Symmetry == Permutations(User) \cup Permutations(MenuItem) \cup Permutations(Proc)

\* The same where only one menu item is named.
NamedSymmetry == Permutations(User) \cup Permutations(Proc)
=============================================================================
