---------------------------- MODULE OrdersProofs ----------------------------
(***************************************************************************)
(* Theorems about Orders, for every catalog, every set of callers and      *)
(* update bodies, and every number of orders and requests.                 *)
(***************************************************************************)
EXTENDS Orders, TLAPS

\* Order numbers are unique and were handed out, and a request that came through
\* the guards has the permissions its body needs.
OrdersInv ==
  /\ TypeOK
  /\ \A o \in orders : o.refNo < nextOrder
  /\ \A o, n \in orders : o.refNo = n.refNo => o = n
  /\ \A p \in Proc : req[p].order < nextOrder
  /\ \A p \in Proc : req[p].pc \in {"checkEditable", "update"}
                       => MayWriteFields(req[p].roles, req[p].body)

USE DEF OrderWithRefNo

\* An idle process has a request record too.
LEMMA IdleType == Idle \in Request
  BY DEF Idle, Request, PC, NoBody, UpdateOrderDto

\* There are no orders at first.
LEMMA InitInv == Init => OrdersInv
  BY IdleType DEF Init, OrdersInv, TypeOK, Idle

\* A new order has a new number.
LEMMA InsertKeepsInv ==
  ASSUME OrdersInv, NEW r \in Restaurant, NEW method \in PaymentMethod,
         NEW lines \in SUBSET MenuItem, InsertOrder(r, method, lines)
  PROVE  OrdersInv'
<1>1. /\ NewOrder(r, method, lines) \in Order
      /\ NewOrder(r, method, lines).refNo = nextOrder
  BY DEF NewOrder, Order, OrderStatus, PaymentStatus, PaymentMethod, OrdersInv,
         TypeOK
<1>2. \A i \in Nat : i < nextOrder => i < nextOrder' /\ i # nextOrder
  BY DEF InsertOrder, OrdersInv, TypeOK
<1>3. nextOrder' \in Nat \ {0} /\ nextOrder < nextOrder'
  BY DEF InsertOrder, OrdersInv, TypeOK
<1>4. TypeOK'
  BY <1>1, <1>3 DEF InsertOrder, OrdersInv, TypeOK
<1>5. \A o \in orders' : o.refNo < nextOrder'
  BY <1>1, <1>2, <1>3 DEF InsertOrder, OrdersInv, TypeOK, Order
<1>6. \A o, n \in orders' : o.refNo = n.refNo => o = n
  BY <1>1, <1>2 DEF InsertOrder, OrdersInv, TypeOK, Order
<1>7. \A p \in Proc : req'[p].order < nextOrder'
  BY <1>2 DEF InsertOrder, OrdersInv, TypeOK, Request
<1> QED
  BY <1>4, <1>5, <1>6, <1>7 DEF InsertOrder, OrdersInv

\* A request that starts has passed the guards.
LEMMA BeginKeepsInv ==
  ASSUME OrdersInv, NEW p \in Proc, NEW r \in Request, Begin(p, r),
         r.order < nextOrder,
         r.pc \in {"checkEditable", "update"} => MayWriteFields(r.roles, r.body)
  PROVE  OrdersInv'
<1>1. \A q \in Proc : req'[q] = IF q = p THEN r ELSE req[q]
  BY DEF Begin, OrdersInv, TypeOK
<1>2. TypeOK'
  BY DEF Begin, OrdersInv, TypeOK
<1> QED
  BY <1>1, <1>2 DEF Begin, OrdersInv

\* An update or a deletion changes no number and lets no order appear.
LEMMA EndKeepsInv ==
  ASSUME OrdersInv, req' \in [Proc -> Request],
         \A q \in Proc :
           \/ req'[q] = Idle
           \/ /\ req'[q].order = req[q].order /\ req'[q].pc = req[q].pc
              /\ req'[q].roles = req[q].roles /\ req'[q].body = req[q].body,
         orders' \subseteq Order,
         \A n \in orders' : \E o \in orders : n.refNo = o.refNo,
         \A m, n \in orders' : m.refNo = n.refNo => m = n,
         overtaken' \subseteq Proc, UNCHANGED <<nextOrder, started>>
  PROVE  OrdersInv'
<1>1. 0 < nextOrder
  BY DEF OrdersInv, TypeOK
<1>2. TypeOK'
  BY DEF OrdersInv, TypeOK
<1> QED
  BY <1>1, <1>2 DEF OrdersInv, Idle

\* The other requests go on as they were.
LEMMA Finished ==
  ASSUME OrdersInv, NEW p \in Proc, Finish(p) \/ FinishUpdate(p)
  PROVE  /\ req' \in [Proc -> Request] /\ overtaken' \subseteq Proc
         /\ \A q \in Proc : req'[q] = IF q = p THEN Idle ELSE req[q]
  BY IdleType DEF Finish, FinishUpdate, OrdersInv, TypeOK

\* An update keeps the order's number and the types of its fields.
LEMMA UpdatedType ==
  ASSUME NEW o \in Order, NEW body \in UpdateOrderDto
  PROVE  /\ Updated(o, body) \in Order
         /\ Updated(o, body).refNo = o.refNo
  BY DEF Updated, Order, UpdateOrderDto

\* What an update does to the orders.
LEMMA UpdateRows ==
  ASSUME OrdersInv, NEW p \in Proc, UpdateOrder(p)
  PROVE  /\ orders' \subseteq Order
         /\ \A n \in orders' : \E o \in orders :
              /\ n.refNo = o.refNo
              /\ n = o \/ (o.refNo = req[p].order /\ n = Updated(o, req[p].body))
         /\ \A m, n \in orders' : m.refNo = n.refNo => m = n
<1> DEFINE rows == {o \in orders : o.refNo = req[p].order}
           body == req[p].body
<1>1. orders \subseteq Order /\ body \in UpdateOrderDto
  BY DEF OrdersInv, TypeOK, Request
<1>2. orders' = (orders \ rows) \cup {Updated(o, body) : o \in rows}
  BY DEF UpdateOrder
<1>3. \A o \in rows : /\ Updated(o, body) \in Order
                      /\ Updated(o, body).refNo = o.refNo
  BY <1>1, UpdatedType
<1>4. \A o, n \in orders : o.refNo = n.refNo => o = n
  BY DEF OrdersInv
<1> HIDE DEF body
<1> QED
  BY <1>1, <1>2, <1>3, <1>4 DEF body

\* OrdersInv is inductive: the theorems below follow from it.
THEOREM Inductive == Spec => []OrdersInv
<1>1. ASSUME OrdersInv, [Next]_vars
      PROVE  OrdersInv'
  <2> USE <1>1
  <2>1. CASE CreateOrder \/ CheckoutCart
    BY <2>1, InsertKeepsInv DEF CreateOrder, CheckoutCart, PaymentMethod
  <2>2. ASSUME NEW p \in Proc, StartUpdate(p)
        PROVE  OrdersInv'
    <3>1. PICK roles \in Callers, n \in 1..(nextOrder - 1), body \in Bodies :
            /\ MayWriteFields(roles, body)
            /\ Begin(p, [pc |-> "checkEditable", roles |-> roles, order |-> n,
                         body |-> body])
      BY <2>2 DEF StartUpdate
    <3> DEFINE r == [pc |-> "checkEditable", roles |-> roles, order |-> n,
                     body |-> body]
    <3>2. r \in Request /\ r.order < nextOrder /\ Begin(p, r)
      BY <3>1, OrdersAssumption DEF Request, PC, OrdersInv, TypeOK
    <3>3. MayWriteFields(r.roles, r.body)
      BY <3>1
    <3> HIDE DEF r
    <3> QED BY <3>2, <3>3, BeginKeepsInv
  <2>3. ASSUME NEW p \in Proc, StartDelete(p)
        PROVE  OrdersInv'
    <3>1. PICK roles \in Callers, n \in 1..(nextOrder - 1) :
            Begin(p, [pc |-> "delete", roles |-> roles, order |-> n,
                      body |-> NoBody])
      BY <2>3 DEF StartDelete
    <3> DEFINE r == [pc |-> "delete", roles |-> roles, order |-> n,
                     body |-> NoBody]
    <3>2. /\ r \in Request /\ r.order < nextOrder /\ Begin(p, r)
          /\ r.pc = "delete"
      BY <3>1, OrdersAssumption, IdleType
         DEF Request, PC, OrdersInv, TypeOK, Idle
    <3> HIDE DEF r
    <3> QED BY <3>2, BeginKeepsInv
  <2>4. ASSUME NEW p \in Proc, Return(p)
        PROVE  OrdersInv'
    BY <2>4, Finished, EndKeepsInv DEF Return, OrdersInv, TypeOK
  <2>5. ASSUME NEW p \in Proc, CheckEditable(p), ~Return(p)
        PROVE  OrdersInv'
    <3>1. /\ req' \in [Proc -> Request]
          /\ \A q \in Proc : req'[q] =
               IF q = p THEN [req[p] EXCEPT !.pc = "update"]
                        ELSE req[q]
      BY <2>5 DEF CheckEditable, OrdersInv, TypeOK, Request, PC
    <3>2. \A q \in Proc : /\ req'[q].order = req[q].order
                          /\ req'[q].roles = req[q].roles
                          /\ req'[q].body = req[q].body
      BY <3>1 DEF OrdersInv, TypeOK, Request
    <3>3. \A q \in Proc : req'[q].pc \in {"checkEditable", "update"}
                            => req[q].pc \in {"checkEditable", "update"}
      BY <2>5, <3>1 DEF CheckEditable
    <3>4. UNCHANGED <<orders, nextOrder, started, overtaken>>
      BY <2>5 DEF CheckEditable
    <3>5. TypeOK'
      BY <3>1, <3>4 DEF OrdersInv, TypeOK
    <3> QED
      BY <3>2, <3>3, <3>4, <3>5 DEF OrdersInv, MayWriteFields
  <2>6. ASSUME NEW p \in Proc, UpdateOrder(p)
        PROVE  OrdersInv'
    <3>1. FinishUpdate(p) /\ UNCHANGED <<nextOrder, started>>
      BY <2>6 DEF UpdateOrder
    <3> QED
      BY <2>6, <3>1, UpdateRows, Finished, EndKeepsInv
  <2>7. ASSUME NEW p \in Proc, DeleteOrder(p)
        PROVE  OrdersInv'
    BY <2>7, Finished, EndKeepsInv DEF DeleteOrder, OrdersInv, TypeOK
  <2>8. CASE UNCHANGED vars
    BY <2>8 DEF vars, OrdersInv, TypeOK, MayWriteFields
  <2> QED
    BY <2>1, <2>2, <2>3, <2>4, <2>5, <2>6, <2>7, <2>8
       DEF Next, Fail, Quiescent, CheckEditable
<1> QED
  BY <1>1, InitInv, PTL DEF Spec

\* Type correctness of the orders and the requests.
THEOREM OrdersTypes == Spec => []TypeOK
<1>1. OrdersInv => TypeOK
  BY DEF OrdersInv
<1> QED BY <1>1, Inductive, PTL

\* Only UpdateOrder changes an order that stays, and no step changes two.
LEMMA ChangesAreUpdates ==
  ASSUME OrdersInv, [Next]_vars, NEW o \in orders, NEW n \in orders',
         n.refNo = o.refNo, n # o
  PROVE  \E p \in Proc : /\ UpdateOrder(p)
                         /\ req[p].order = o.refNo
                         /\ n = Updated(o, req[p].body)
<1>0. \A x \in orders : x.refNo = o.refNo => x = o
  BY DEF OrdersInv
<1>1. n \notin orders
  BY <1>0
<1>2. CASE \E p \in Proc : UpdateOrder(p)
  <2>1. PICK p \in Proc : UpdateOrder(p)
    BY <1>2
  <2>2. PICK x \in orders :
          /\ n.refNo = x.refNo
          /\ n = x \/ (x.refNo = req[p].order /\ n = Updated(x, req[p].body))
    BY <2>1, UpdateRows
  <2> QED BY <1>0, <2>1, <2>2
<1>3. CASE CreateOrder \/ CheckoutCart
  <2>1. PICK r \in Restaurant, method \in PaymentMethod,
           lines \in SUBSET MenuItem : InsertOrder(r, method, lines)
    BY <1>3 DEF CreateOrder, CheckoutCart, PaymentMethod
  <2>2. n.refNo = nextOrder
    BY <1>1, <2>1 DEF InsertOrder, NewOrder
  <2>3. o.refNo \in Nat /\ o.refNo < nextOrder /\ nextOrder \in Nat
    BY DEF OrdersInv, TypeOK, Order
  <2> QED BY <2>2, <2>3
<1>4. CASE orders' \subseteq orders
  BY <1>1, <1>4
<1> QED
  BY <1>2, <1>3, <1>4
     DEF Next, vars, StartUpdate, CheckEditable, StartDelete, DeleteOrder, Fail,
         Return, Begin, Quiescent

\* Whoever changes an order's status or payment passed ORDER_FIELD_PERMISSIONS.
THEOREM FieldsAreGuarded == Spec => FieldsGuarded
<1> DEFINE A == \A o \in orders, n \in orders' : n.refNo = o.refNo =>
       /\ n.status # o.status => \E p \in Proc :
            Updates(p, o) /\ HasPermission(req[p].roles, "order:status:update")
       /\ n.paymentStatus # o.paymentStatus => \E p \in Proc :
            Updates(p, o) /\ HasPermission(req[p].roles, "order:payment:status:update")
       /\ n.paymentMethod # o.paymentMethod => \E p \in Proc :
            Updates(p, o) /\ HasPermission(req[p].roles, "order:payment:method:update")
<1>1. ASSUME OrdersInv, [Next]_vars
      PROVE  A
  <2> SUFFICES ASSUME NEW o \in orders, NEW n \in orders', n.refNo = o.refNo,
                      n # o
               PROVE  \E p \in Proc :
                 /\ Updates(p, o)
                 /\ n.status # o.status =>
                      HasPermission(req[p].roles, "order:status:update")
                 /\ n.paymentStatus # o.paymentStatus =>
                      HasPermission(req[p].roles, "order:payment:status:update")
                 /\ n.paymentMethod # o.paymentMethod =>
                      HasPermission(req[p].roles, "order:payment:method:update")
    OBVIOUS
  <2>1. PICK p \in Proc : /\ UpdateOrder(p) /\ req[p].order = o.refNo
                          /\ n = Updated(o, req[p].body)
    BY <1>1, ChangesAreUpdates
  <2>2. MayWriteFields(req[p].roles, req[p].body)
    BY <1>1, <2>1 DEF OrdersInv, UpdateOrder
  <2>3. Updates(p, o)
    BY <1>1, <2>1, Finished DEF Updates, UpdateOrder, Idle
  <2>4. /\ n.status # o.status => req[p].body.status # None
        /\ n.paymentStatus # o.paymentStatus => req[p].body.paymentStatus # None
        /\ n.paymentMethod # o.paymentMethod => req[p].body.paymentMethod # None
    BY <1>1, <2>1 DEF Updated, OrdersInv, TypeOK, Order
  <2> QED
    BY <2>2, <2>3, <2>4 DEF MayWriteFields
<1>2. OrdersInv /\ [Next]_vars => [A]_vars
  BY <1>1
<1> QED
  BY <1>2, Inductive, PTL DEF Spec, FieldsGuarded

\* An update in progress does not bring a deleted order back.
THEOREM DeletedStay == Spec => DeletedStaysDeleted
<1> DEFINE A == \A n \in 1..(nextOrder - 1) :
                  (\A o \in orders : o.refNo # n) => (\A o \in orders' : o.refNo # n)
<1>1. ASSUME OrdersInv, [Next]_vars
      PROVE  A
  <2>1. ASSUME NEW p \in Proc, UpdateOrder(p)
        PROVE  \A x \in orders' : \E o \in orders : x.refNo = o.refNo
    BY <1>1, <2>1, UpdateRows
  <2>2. CASE CreateOrder \/ CheckoutCart
    <3>1. PICK r \in Restaurant, method \in PaymentMethod,
             lines \in SUBSET MenuItem : InsertOrder(r, method, lines)
      BY <2>2 DEF CreateOrder, CheckoutCart, PaymentMethod
    <3>2. \A x \in orders' : x \in orders \/ x.refNo = nextOrder
      BY <3>1 DEF InsertOrder, NewOrder
    <3> QED BY <1>1, <3>2 DEF OrdersInv, TypeOK
  <2>3. CASE orders' \subseteq orders
    BY <2>3
  <2> QED
    BY <1>1, <2>1, <2>2, <2>3
       DEF Next, vars, StartUpdate, CheckEditable, StartDelete, DeleteOrder,
           Fail, Return, Begin, Quiescent
<1>2. OrdersInv /\ [Next]_vars => [A]_vars
  BY <1>1
<1> QED
  BY <1>2, Inductive, PTL DEF Spec, DeletedStaysDeleted

\* What updateOrder has found editable is editable when it writes, unless another
\* update has overtaken it.
WritesEditable ==
  \A p \in Proc, o \in orders :
    (req[p].pc = "update" /\ o.refNo = req[p].order /\ p \notin overtaken)
      => Editable(o)

LEMMA WritesStayEditable ==
  ASSUME OrdersInv, WritesEditable, [Next]_vars
  PROVE  WritesEditable'
<1>1. CASE CreateOrder \/ CheckoutCart
  <2>1. PICK r \in Restaurant, method \in PaymentMethod,
           lines \in SUBSET MenuItem : InsertOrder(r, method, lines)
    BY <1>1 DEF CreateOrder, CheckoutCart, PaymentMethod
  <2>2. \A n \in orders' : n \in orders \/ n.refNo = nextOrder
    BY <2>1 DEF InsertOrder, NewOrder
  <2>3. req' = req /\ overtaken' = overtaken /\ \A p \in Proc : req[p].order # nextOrder
    BY <2>1 DEF InsertOrder, OrdersInv, TypeOK, Request
  <2> QED
    BY <2>2, <2>3 DEF WritesEditable, Editable
<1>2. ASSUME NEW p \in Proc, CheckEditable(p), ~Return(p)
      PROVE  WritesEditable'
  <2>1. /\ orders' = orders /\ overtaken' = overtaken
        /\ req'[p].order = req[p].order
        /\ \A q \in Proc \ {p} : req'[q] = req[q]
        /\ \E o \in orders : o.refNo = req[p].order /\ Editable(o)
    BY <1>2 DEF CheckEditable, OrdersInv, TypeOK, Request
  <2> QED
    BY <2>1 DEF WritesEditable, Editable, OrdersInv
<1>3. ASSUME NEW p \in Proc, UpdateOrder(p)
      PROVE  WritesEditable'
  <2> SUFFICES ASSUME NEW q \in Proc, NEW n \in orders', req'[q].pc = "update",
                      n.refNo = req'[q].order, q \notin overtaken'
               PROVE  Editable(n)
    BY DEF WritesEditable, Editable
  <2>1. FinishUpdate(p)
    BY <1>3 DEF UpdateOrder
  <2>2. q # p /\ req[q].pc = "update" /\ n.refNo = req[q].order
        /\ q \notin overtaken /\ req[q].order # req[p].order
    BY <2>1, Finished DEF FinishUpdate, Idle
  <2>3. n \in orders
    BY <1>3, <2>2, UpdateRows
  <2> QED
    BY <2>2, <2>3 DEF WritesEditable
<1>4. ASSUME NEW p \in Proc, NEW r,
             req' = [req EXCEPT ![p] = r], r.pc # "update", orders' \subseteq orders,
             overtaken \subseteq overtaken' \cup {p}
      PROVE  WritesEditable'
  BY <1>4 DEF WritesEditable, Editable, OrdersInv, TypeOK
<1>5. CASE UNCHANGED <<orders, req, overtaken>>
  BY <1>5 DEF WritesEditable, Editable
<1>6. ASSUME NEW p \in Proc, Return(p) \/ DeleteOrder(p)
      PROVE  WritesEditable'
  <2>1. /\ req' = [req EXCEPT ![p] = Idle] /\ overtaken' = overtaken \ {p}
        /\ orders' \subseteq orders /\ Idle.pc # "update"
    BY <1>6 DEF Return, DeleteOrder, Finish, Idle
  <2> QED
    BY <1>4, <2>1
<1>7. ASSUME NEW p \in Proc, StartUpdate(p) \/ StartDelete(p)
      PROVE  WritesEditable'
  BY <1>4, <1>7 DEF StartUpdate, StartDelete, Begin
<1> QED
  BY <1>1, <1>2, <1>3, <1>5, <1>6, <1>7 DEF Next, Fail, Quiescent, vars

\* A delivered or cancelled order changes only by an update that found it editable
\* and was overtaken; orders_frozen_race shows that it happens.
THEOREM OvertakenUpdatesOnly == Spec => FrozenUnlessOvertaken
<1> DEFINE A == \A o \in orders, n \in orders' :
       (/\ n.refNo = o.refNo
        /\ o.status \in {"DELIVERED", "CANCELLED"}
        /\ n # o)
         => \E p \in Proc : Updates(p, o) /\ p \in overtaken
<1>1. Init => WritesEditable
  BY DEF Init, WritesEditable
<1>2. Spec => []WritesEditable
  BY <1>1, WritesStayEditable, Inductive, PTL DEF Spec
<1>3. ASSUME OrdersInv, WritesEditable, [Next]_vars
      PROVE  A
  <2> SUFFICES ASSUME NEW o \in orders, NEW n \in orders', n.refNo = o.refNo,
                      o.status \in {"DELIVERED", "CANCELLED"}, n # o
               PROVE  \E p \in Proc : Updates(p, o) /\ p \in overtaken
    OBVIOUS
  <2>1. PICK p \in Proc : UpdateOrder(p) /\ req[p].order = o.refNo
    BY <1>3, ChangesAreUpdates
  <2>2. p \in overtaken
    BY <1>3, <2>1 DEF UpdateOrder, WritesEditable, Editable
  <2>3. Updates(p, o)
    BY <1>3, <2>1, Finished DEF Updates, UpdateOrder, Idle
  <2> QED
    BY <2>2, <2>3
<1>4. OrdersInv /\ WritesEditable /\ [Next]_vars => [A]_vars
  BY <1>3
<1> QED
  BY <1>2, <1>4, Inductive, PTL DEF Spec, FrozenUnlessOvertaken
=============================================================================
