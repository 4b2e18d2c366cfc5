------------------------------ MODULE MCOrders ------------------------------
(***************************************************************************)
(* Small instances of Orders for TLC.                                      *)
(***************************************************************************)
EXTENDS Orders, TLC

\* Two restaurants with one menu item each.
CONSTANTS naan, dosa, north, south
MCRestaurantOf == (naan :> north) @@ (dosa :> south)

\* The fields alone and in pairs, and the items with a status.
MCBodies ==
  {b \in [status : {None, "ACCEPTED", "DELIVERED"}, paymentStatus : {None, "PAID"},
          paymentMethod : {None, "CARD"}, replacesItems : {FALSE},
          orderItems : {{}}] :
     None \in {b.status, b.paymentStatus, b.paymentMethod}}
    \cup
  [status : {None, "CANCELLED"}, paymentStatus : {None},
   paymentMethod : {None}, replacesItems : {TRUE},
   orderItems : {{}, MenuItem}]

\* Accounts with one role, and one with two.
MCCallers == {{"MEMBER"}, {"MANAGER"}, {"ADMIN"}, {"MEMBER", "MANAGER"}}

Symmetry == Permutations(Proc)
=============================================================================
