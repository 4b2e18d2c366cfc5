------------------------------- MODULE Orders -------------------------------
(***************************************************************************)
(* Orders after they are made: OrderService.updateOrder and deleteOrder    *)
(* with the guards of OrderController, beside the two ways an order comes  *)
(* into being (createOrder, and the checkout of a cart).                   *)
(*                                                                         *)
(* updateOrder reads the order, decides whether it is editable, and writes *)
(* in a later statement; the requests interleave in between.  The write is *)
(* one nested Prisma update: the order row and its OrderItem rows change   *)
(* in one transaction, which holds the order row from its first statement. *)
(***************************************************************************)
EXTENDS Naturals

CONSTANTS
  MenuItem,       \* menu items of the catalog
  Restaurant,     \* restaurants
  RestaurantOf,   \* the restaurant that has a menu item
  Bodies,         \* the bodies of update requests that clients send
  Callers,        \* the sets of roles that accounts have
  Proc,           \* requests that may be in progress at the same time
  MaxOrders,      \* bound on the number of orders ever made
  MaxRequests,    \* bound on the number of update and delete requests
  None            \* a field left out

RoleType == {"SUPER_ADMIN", "ADMIN", "MANAGER", "MEMBER"}
OrderStatus == {"PENDING", "ACCEPTED", "DELIVERED", "CANCELLED"}
PaymentStatus == {"PENDING", "PAID", "FAILED"}
PaymentMethod == {"CASH", "CARD", "UPI"}

\* The body of an update: fields may be left out, and the list of items too.
UpdateOrderDto ==
  [status : OrderStatus \cup {None}, paymentStatus : PaymentStatus \cup {None},
   paymentMethod : PaymentMethod \cup {None}, replacesItems : BOOLEAN,
   orderItems : SUBSET MenuItem]

ASSUME OrdersAssumption ==
  /\ None \notin OrderStatus \cup PaymentStatus \cup PaymentMethod
  /\ RestaurantOf \in [MenuItem -> Restaurant]
  /\ Bodies \subseteq UpdateOrderDto
  /\ Callers \subseteq SUBSET RoleType
  /\ MaxOrders \in Nat
  /\ MaxRequests \in Nat

VARIABLES
  orders,         \* rows of Order with their OrderItem rows
  nextOrder,      \* the next Order.refNo
  req,            \* the request each process is working on
  started,        \* how many requests have been started
  overtaken       \* history: requests whose order was written after they checked it

vars == <<orders, nextOrder, req, started, overtaken>>

Order ==
  [refNo : Nat, restaurant : Restaurant, status : OrderStatus,
   paymentStatus : PaymentStatus, paymentMethod : PaymentMethod,
   orderItems : SUBSET MenuItem]

\* A request: what it is about to do, the caller's roles, the order and the body.
NoBody == [status |-> None, paymentStatus |-> None, paymentMethod |-> None,
           replacesItems |-> FALSE, orderItems |-> {}]
PC == {"idle", "checkEditable", "update", "delete"}
Request == [pc : PC, roles : SUBSET RoleType, order : Nat,
            body : UpdateOrderDto]
Idle == [pc |-> "idle", roles |-> {}, order |-> 0, body |-> NoBody]

Init ==
  /\ orders = {}
  /\ nextOrder = 1
  /\ req = [p \in Proc |-> Idle]
  /\ started = 0
  /\ overtaken = {}

OrderWithRefNo(n) == {o \in orders : o.refNo = n}

(***************************************************************************)
(* Permissions, as they are assigned to the roles.                         *)
(***************************************************************************)
AssignedRoles(permission) ==
  CASE permission = "order:update" -> RoleType
    [] permission \in {"order:status:update", "order:payment:status:update"} ->
         {"ADMIN", "SUPER_ADMIN", "MANAGER"}
    [] permission \in {"order:delete", "order:payment:method:update"} ->
         {"ADMIN", "SUPER_ADMIN"}

HasPermission(roles, permission) == roles \cap AssignedRoles(permission) # {}

\* Mutant: a caller who may write one of the fields may write them all.
AnyFieldWillDo(roles, body) ==
  \/ body.status # None /\ HasPermission(roles, "order:status:update")
  \/ body.paymentStatus # None /\ HasPermission(roles, "order:payment:status:update")
  \/ body.paymentMethod # None /\ HasPermission(roles, "order:payment:method:update")
  \/ /\ body.status = None
     /\ body.paymentStatus = None
     /\ body.paymentMethod = None

\* ORDER_FIELD_PERMISSIONS, for every field in the body.
MayWriteFields(roles, body) ==
  /\ body.status # None => HasPermission(roles, "order:status:update")
  /\ body.paymentStatus # None => HasPermission(roles, "order:payment:status:update")
  /\ body.paymentMethod # None => HasPermission(roles, "order:payment:method:update")

(***************************************************************************)
(* New orders.  createOrder refuses items of several restaurants;          *)
(* checkoutCart takes what is in the cart, the restaurant the client names *)
(* and the default way to pay.                                             *)
(***************************************************************************)
NewOrder(r, method, lines) ==
  [refNo |-> nextOrder, restaurant |-> r, status |-> "PENDING",
   paymentStatus |-> "PENDING", paymentMethod |-> method, orderItems |-> lines]

InsertOrder(r, method, lines) ==
  /\ nextOrder <= MaxOrders
  /\ orders' = orders \cup {NewOrder(r, method, lines)}
  /\ nextOrder' = nextOrder + 1
  /\ UNCHANGED <<req, started, overtaken>>

CreateOrder ==
  \E r \in Restaurant, method \in PaymentMethod :
    \E lines \in SUBSET MenuItem \ {{}} :
      /\ \A m \in lines : RestaurantOf[m] = r
      /\ InsertOrder(r, method, lines)

CheckoutCart ==
  \E r \in Restaurant : \E lines \in SUBSET MenuItem \ {{}} :
    InsertOrder(r, "CASH", lines)

(***************************************************************************)
(* updateOrder.                                                            *)
(***************************************************************************)
Finish(p) == req' = [req EXCEPT ![p] = Idle] /\ overtaken' = overtaken \ {p}

\* A request that ends with an error response.
Return(p) == Finish(p) /\ UNCHANGED <<orders, nextOrder, started>>

Begin(p, r) ==
  /\ req[p].pc = "idle"
  /\ started < MaxRequests
  /\ req' = [req EXCEPT ![p] = r]
  /\ started' = started + 1
  /\ UNCHANGED <<orders, nextOrder, overtaken>>

\* The guards run before the handler.
StartUpdate(p) ==
  \E roles \in Callers, n \in 1..(nextOrder - 1), body \in Bodies :
    /\ HasPermission(roles, "order:update")
    /\ MayWriteFields(roles, body)
    /\ Begin(p, [pc |-> "checkEditable", roles |-> roles, order |-> n,
                 body |-> body])

\* Mutant: a delivered order may be edited still.
OnlyCancelledIsFinal(o) == o.status # "CANCELLED"

Editable(o) == o.status \in {"PENDING", "ACCEPTED"}

\* isOrderExist and isOrderEditable.
CheckEditable(p) ==
  /\ req[p].pc = "checkEditable"
  /\ \/ /\ \E o \in OrderWithRefNo(req[p].order) : Editable(o)
        /\ req' = [req EXCEPT ![p].pc = "update"]
        /\ UNCHANGED <<orders, nextOrder, started, overtaken>>
     \/ /\ \A o \in OrderWithRefNo(req[p].order) : ~Editable(o)
        /\ Return(p)

\* Mutant: the status is taken from the body even when it is left out.
TakesMissingStatus(o, body) ==
  [o EXCEPT !.status = body.status,
            !.orderItems = IF body.replacesItems THEN body.orderItems
                           ELSE o.orderItems]

Updated(o, body) ==
  [o EXCEPT
     !.status = IF body.status = None THEN o.status ELSE body.status,
     !.paymentStatus = IF body.paymentStatus = None THEN o.paymentStatus
                       ELSE body.paymentStatus,
     !.paymentMethod = IF body.paymentMethod = None THEN o.paymentMethod
                       ELSE body.paymentMethod,
     !.orderItems = IF body.replacesItems THEN body.orderItems
                    ELSE o.orderItems]

\* The request ends; the others that have checked the order are overtaken.
FinishUpdate(p) ==
  /\ req' = [req EXCEPT ![p] = Idle]
  /\ overtaken' = (overtaken \cup {q \in Proc : req[q].pc = "update"
                                       /\ req[q].order = req[p].order}) \ {p}

\* Mutant: an order that is gone is inserted again (upsert).
Upserts(p) ==
  LET n == req[p].order
      row == IF OrderWithRefNo(n) # {} THEN CHOOSE o \in OrderWithRefNo(n) : TRUE
             ELSE [NewOrder(CHOOSE r \in Restaurant : TRUE, "CASH", {}) EXCEPT
                     !.refNo = n]
  IN
  /\ req[p].pc = "update"
  /\ orders' = (orders \ OrderWithRefNo(n)) \cup {Updated(row, req[p].body)}
  /\ FinishUpdate(p)
  /\ UNCHANGED <<nextOrder, started>>

\* The update fails when the order is gone, and then changes nothing.
UpdateOrder(p) ==
  LET rows == OrderWithRefNo(req[p].order) IN
  /\ req[p].pc = "update"
  /\ orders' = (orders \ rows) \cup {Updated(o, req[p].body) : o \in rows}
  /\ FinishUpdate(p)
  /\ UNCHANGED <<nextOrder, started>>

(***************************************************************************)
(* deleteOrder.                                                            *)
(***************************************************************************)
StartDelete(p) ==
  \E roles \in Callers, n \in 1..(nextOrder - 1) :
    /\ HasPermission(roles, "order:delete")
    /\ OrderWithRefNo(n) # {}
    /\ Begin(p, [pc |-> "delete", roles |-> roles, order |-> n,
                 body |-> NoBody])

DeleteOrder(p) ==
  /\ req[p].pc = "delete"
  /\ orders' = orders \ OrderWithRefNo(req[p].order)
  /\ Finish(p)
  /\ UNCHANGED <<nextOrder, started>>

\* The request dies between two statements.
Fail(p) == req[p].pc # "idle" /\ Return(p)

\* No more requests come: the bounds are used up.
Quiescent ==
  /\ nextOrder > MaxOrders
  /\ started = MaxRequests
  /\ \A p \in Proc : req[p].pc = "idle"
  /\ UNCHANGED vars

Next ==
  \/ CreateOrder
  \/ CheckoutCart
  \/ \E p \in Proc :
       StartUpdate(p) \/ CheckEditable(p) \/ UpdateOrder(p)
         \/ StartDelete(p) \/ DeleteOrder(p) \/ Fail(p)
  \/ Quiescent

Spec == Init /\ [][Next]_vars
-----------------------------------------------------------------------------
\* The orders and every request record hold values of the schema's types.
TypeOK ==
  /\ orders \subseteq Order
  /\ nextOrder \in Nat \ {0}
  /\ req \in [Proc -> Request]
  /\ started \in Nat
  /\ overtaken \subseteq Proc

\* The request p, which ends in this step, updates the order o.
Updates(p, o) ==
  /\ req[p].pc = "update"
  /\ req'[p].pc = "idle"
  /\ req[p].order = o.refNo

\* FieldPermission: whoever moves an order on, marks it paid or changes how it is
\* paid had the permission for that field when the request came in.
FieldsGuarded ==
  [][\A o \in orders, n \in orders' : n.refNo = o.refNo =>
       /\ n.status # o.status => \E p \in Proc :
            Updates(p, o) /\ HasPermission(req[p].roles, "order:status:update")
       /\ n.paymentStatus # o.paymentStatus => \E p \in Proc :
            Updates(p, o) /\ HasPermission(req[p].roles, "order:payment:status:update")
       /\ n.paymentMethod # o.paymentMethod => \E p \in Proc :
            Updates(p, o) /\ HasPermission(req[p].roles, "order:payment:method:update")]_vars

\* A deleted order does not come back, although an update that read it before
\* may write after.
DeletedStaysDeleted ==
  [][\A n \in 1..(nextOrder - 1) :
       (\A o \in orders : o.refNo # n) => (\A o \in orders' : o.refNo # n)]_vars

\* 'Order is not editable': an order that was delivered or cancelled never
\* changes again, except that it may be deleted.
FinalOrdersFrozen ==
  [][\A o \in orders, n \in orders' :
       (n.refNo = o.refNo /\ o.status \in {"DELIVERED", "CANCELLED"}) => n = o]_vars

\* What holds of the same promise: only an update that found the order editable,
\* and that another update then overtook, changes it when it is final.
FrozenUnlessOvertaken ==
  [][\A o \in orders, n \in orders' :
       (/\ n.refNo = o.refNo
        /\ o.status \in {"DELIVERED", "CANCELLED"}
        /\ n # o)
         => \E p \in Proc : Updates(p, o) /\ p \in overtaken]_vars
=============================================================================
