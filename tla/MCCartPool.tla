----------------------------- MODULE MCCartPool -----------------------------
(***************************************************************************)
(* Small instances of CartPool for TLC.  Liveness is checked, so symmetry  *)
(* is not used.                                                            *)
(***************************************************************************)
EXTENDS CartPool, TLC

\* All requests are about the cart of one user.  He gives every guest the same
\* role, does not name his own cart where he need not, and places the orders that
\* are no checkouts; the items that are added or ordered are of one menu item.
Owner == CHOOSE u \in User : TRUE
Named == CHOOSE m \in MenuItem : TRUE
OneCart ==
  \A p \in Proc :
    LET r == req'[p] IN
    /\ r.op # None => r.cart = Owner \/ (r.user = Owner /\ r.cart = None)
    /\ r.pc = "access" /\ r.user = Owner => r.op = "checkoutCart"
    /\ r.op = "createOrder" => r.user = Owner
    /\ r.menuItem \in {Named, None}
    /\ \A g \in r.grants : g.user # Owner /\ g.role = "CHECKOUT_ALLOWED"

\* Ids for the rows of a set, from 1 on.
Ids(S) ==
  CHOOSE f \in [S -> 1 .. Cardinality(S)] : \A x, y \in S : f[x] = f[y] => x = y

\* Earlier requests have put every menu item into the cart, and have shared it
\* with nobody or with every other user.
FilledCart ==
  \E guests \in {{}, User \ {Owner}}, n \in Quantity :
    /\ carts = {Owner}
    /\ items = {[id |-> Ids(MenuItem)[m], cart |-> Owner, menuItem |-> m,
                 quantity |-> n, addedBy |-> Owner] : m \in MenuItem}
    /\ shares = {[id |-> Ids(guests)[u], cart |-> Owner, user |-> u,
                  role |-> "CHECKOUT_ALLOWED", hasContributed |-> FALSE] :
                   u \in guests}
    /\ orders = {}
    /\ nextItem = Cardinality(MenuItem) + 1
    /\ nextOrder = 1
    /\ nextShare = Cardinality(guests) + 1
    /\ req = [p \in Proc |-> Idle]
    /\ started = 0
    /\ granted = {<<Owner, u, "CHECKOUT_ALLOWED">> : u \in guests}
    /\ poolSize \in PoolSizes
    /\ connections = [p \in Proc |-> 0]

OneCartFairSpec ==
  FilledCart /\ [][PoolNext /\ OneCart]_poolVars /\ PoolFairness
=============================================================================
