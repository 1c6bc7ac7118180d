----------------------- MODULE EcommerceOrdersProofs -----------------------
(***************************************************************************)
(* What is proved of EcommerceOrders for every set of users, orders and    *)
(* requests.                                                               *)
(***************************************************************************)
EXTENDS EcommerceOrders, TLAPS

-----------------------------------------------------------------------------
(* Rows and requests as records                                            *)

\* The fields of a row (OrderViewModel), which stays one when they change.
LEMMA RowParts ==
    ASSUME NEW w \in Row
    PROVE  /\ w.status \in Statuses /\ w.pay \in PaymentStatuses
           /\ w.owner \in Users \cup {Guest}
  BY DEF Row

LEMMA RowStatus ==
    ASSUME NEW w \in Row, NEW s \in Statuses
    PROVE  /\ [w EXCEPT !.status = s] \in Row
           /\ [w EXCEPT !.status = s].status = s
           /\ [w EXCEPT !.status = s].pay = w.pay
  BY DEF Row

WithAnswer(w, p, s) == [w EXCEPT !.pay = p, !.status = s]
LEMMA RowAnswer ==
    ASSUME NEW w \in Row, NEW s \in Statuses, NEW p \in PaymentStatuses
    PROVE  /\ WithAnswer(w, p, s) \in Row
           /\ WithAnswer(w, p, s).status = s
           /\ WithAnswer(w, p, s).pay = p
  BY DEF Row, WithAnswer

\* A new cart is a row, and so is what a client posts to be checked out.
LEMMA NewRow ==
    ASSUME NEW u \in Users
    PROVE  /\ NewCart(u) \in Row
           /\ NewCart(u).status = "NEW" /\ NewCart(u).pay = "Sent"
  BY DEF NewCart, Row, Statuses, PaymentStatuses

LEMMA PostedRow ==
    ASSUME NEW w \in Posted
    PROVE  /\ w \in Row
           /\ w.status = "WAITING_FOR_PAYMENT"
  <1>1. PICK u \in Users \cup {Guest}, p \in Payments :
          w = [owner |-> u, status |-> "WAITING_FOR_PAYMENT", pay |-> p, gateway |-> TRUE]
    BY DEF Posted
  <1>2. p \in PaymentStatuses
    BY OrdersAssumption
  <1>3. "WAITING_FOR_PAYMENT" \in Statuses
    BY DEF Statuses
  <1> QED BY <1>1, <1>2, <1>3 DEF Row

Answers == {"answer", "answered"}
Others == {"edit", "checkout", "billed", "status", "cancel"}

\* What a request is about fits what it does.
Fits(op, o, to) ==
    \/ op = "create" /\ o = None /\ to = "NEW"
    \/ op \in Others /\ o \in Orders /\ to \in Statuses
    \/ op \in Answers /\ o \in Orders /\ to \in PaymentStatuses

\* The record that Begin makes of a request, and the one that Goto makes of it.
LEMMA RequestRecord ==
    ASSUME NEW op, NEW o, NEW w \in Row, NEW to, Fits(op, o, to)
    PROVE  [op |-> op, order |-> o, was |-> w, to |-> to] \in Request
  BY DEF Fits, Answers, Others, Request, RequestsFor

LEMMA RequestParts ==
    ASSUME NEW q \in Request
    PROVE  Fits(q.op, q.order, q.to) /\ q.was \in Row
  BY DEF Fits, Answers, Others, Request, RequestsFor

MovedOn(q, op, to) == [q EXCEPT !.op = op, !.to = to]
LEMMA RequestUpdate ==
    ASSUME NEW q \in Request, NEW op, NEW to, Fits(op, q.order, to)
    PROVE  /\ MovedOn(q, op, to) \in Request
           /\ MovedOn(q, op, to).op = op /\ MovedOn(q, op, to).to = to
           /\ MovedOn(q, op, to).was = q.was /\ MovedOn(q, op, to).order = q.order
  BY DEF Fits, Answers, Others, Request, RequestsFor, MovedOn

LEMMA IdleOp == Idle.op = "idle" /\ \A o, to : ~Fits("idle", o, to)
  BY DEF Idle, Fits, Answers, Others

-----------------------------------------------------------------------------

LEMMA TypeInit == Init => TypeOK
  <1> SUFFICES ASSUME Init PROVE TypeOK
    OBVIOUS
  <1>1. row \in [Orders -> Row \cup {None}]
    BY DEF Init
  <1>2. req \in [Requests -> Request \cup {Idle}]
    BY DEF Init
  <1> QED BY <1>1, <1>2 DEF Init, TypeOK

LEMMA TypeNext == TypeOK /\ [Next]_vars => TypeOK'
  <1> SUFFICES ASSUME TypeOK, [Next]_vars PROVE TypeOK'
    OBVIOUS
  <1> USE DEF TypeOK
  <1>q. ASSUME NEW r \in Requests, req[r] # Idle
        PROVE  /\ req[r] \in Request /\ req[r].was \in Row
               /\ Fits(req[r].op, req[r].order, req[r].to)
    BY <1>q, RequestParts
  <1>i. \A r \in Requests : req[r].op # "idle" => req[r] # Idle
    BY IdleOp
  <1>b. ASSUME NEW r \in Requests, NEW w \in Row, NEW o,
               NEW op, NEW to, Fits(op, o, to), Begin(r, op, o, w, to)
        PROVE  TypeOK'
    <2>1. w.owner \in Users \cup {Guest}
      BY DEF Row
    <2>2. [op |-> op, order |-> o, was |-> w, to |-> to] \in Request
      BY <1>b, RequestRecord
    <2> QED BY <1>b, <2>1, <2>2 DEF Begin
  <1>c. ASSUME NEW r \in Requests, NEW o, NEW w \in Row, Commit(r, o, w)
        PROVE  /\ row' \in [Orders -> Row \cup {None}]
               /\ req' \in [Requests -> Request \cup {Idle}]
    BY <1>c DEF Commit
  <1>g. ASSUME NEW r \in Requests, req[r] # Idle, NEW op, NEW to,
               Fits(op, req[r].order, to), Goto(r, op, to)
        PROVE  req' \in [Requests -> Request \cup {Idle}]
    <2>1. MovedOn(req[r], op, to) \in Request
      BY <1>g, <1>q, RequestUpdate
    <2> QED BY <1>g, <2>1 DEF Goto, MovedOn
  <1>s. \A o \in Stored : o \in Orders /\ row[o] \in Row
    BY DEF Stored
  <1>1. ASSUME NEW o \in Orders, CheckoutGuest(o) PROVE TypeOK'
    BY <1>1, PostedRow DEF CheckoutGuest
  <1>2. ASSUME NEW r \in Requests, Save(r) PROVE TypeOK'
    <2>1. CASE SaveCart(r)
      BY <2>1, <1>c, <1>q, <1>i DEF SaveCart, history
    <2>2. CASE SaveNewCart(r)
      BY <2>2, <1>c, <1>q, <1>i DEF SaveNewCart, history
    <2>3. CASE SaveCheckoutCart(r)
      <3>1. req[r] # Idle /\ req[r].was \in Row /\ req' \in [Requests -> Request \cup {Idle}]
        BY <2>3, <1>g, <1>q, <1>i DEF SaveCheckoutCart, Fits, Others, Statuses
      <3> QED BY <2>3, <3>1, PostedRow DEF SaveCheckoutCart, history
    <2>4. CASE FinishCheckout(r)
      BY <2>4, <1>c, <1>q, <1>i DEF FinishCheckout, history
    <2>5. CASE AskGateway(r)
      <3>1. req[r] # Idle /\ req[r].order \in Orders
        BY <2>5, <1>q, <1>i DEF AskGateway, Fits, Others
      <3>2. PICK v \in Verdicts : Goto(r, "answered", v)
        BY <2>5 DEF AskGateway
      <3>3. Fits("answered", req[r].order, v)
        BY <3>1, OrdersAssumption DEF Fits, Answers
      <3>4. req' \in [Requests -> Request \cup {Idle}]
        BY <3>1, <3>2, <3>3, <1>g
      <3> QED BY <2>5, <3>4 DEF AskGateway, history
    <2>6. CASE SaveAnswer(r)
      <3>1. /\ req[r].was \in Row /\ req[r].to \in PaymentStatuses
            /\ req[r].was.status \in Statuses
        BY <2>6, <1>q, <1>i, RowParts DEF SaveAnswer, Fits, Others
      <3> DEFINE w == [req[r].was EXCEPT !.pay = req[r].to,
                         !.status = IF req[r].to = "Success" THEN "PAID" ELSE @]
      <3>2. w \in Row
        <4>1. w = WithAnswer(req[r].was, req[r].to,
                     IF req[r].to = "Success" THEN "PAID" ELSE req[r].was.status)
          BY DEF Row, WithAnswer
        <4>2. (IF req[r].to = "Success" THEN "PAID" ELSE req[r].was.status) \in Statuses
          BY <3>1 DEF Statuses
        <4> QED BY <3>1, <4>1, <4>2, RowAnswer
      <3> QED BY <2>6, <3>2, <1>c DEF SaveAnswer, history
    <2>7. CASE SaveStatus(r)
      <3>1. /\ req[r].was \in Row /\ req[r].to \in Statuses
            /\ req[r].order \in Orders
        BY <2>7, <1>q, <1>i DEF SaveStatus, Fits, Answers
      <3>2. [req[r].was EXCEPT !.status = req[r].to] \in Row
        BY <3>1, RowStatus
      <3> QED BY <2>7, <3>1, <3>2, <1>c DEF SaveStatus
    <2>8. CASE Fail(r)
      <3>1. req[r].op = "billed" => req[r].order \in Orders
        BY <2>8, <1>q DEF Fail, Fits, Answers
      <3> QED BY <2>8, <3>1 DEF Fail
    <2> QED BY <1>2, <2>1, <2>2, <2>3, <2>4, <2>5, <2>6, <2>7, <2>8 DEF Save
  <1>3. ASSUME NEW r \in Requests, NEW u \in Users, EditCart(r, u) PROVE TypeOK'
    BY <1>3, <1>b, <1>s DEF EditCart, Carts, Fits, Others, Statuses
  <1>4. ASSUME NEW r \in Requests, NEW u \in Users, CreateCart(r, u) PROVE TypeOK'
    BY <1>4, <1>b, NewRow DEF CreateCart, Fits, Others, Statuses
  <1>5. ASSUME NEW r \in Requests, NEW u \in Users, BeginCheckout(r, u) PROVE TypeOK'
    BY <1>5, <1>b, <1>s DEF BeginCheckout, Carts, Fits, Others, Statuses
  <1>6. ASSUME NEW r \in Requests, NEW u \in Users, NEW o \in Orders, BeginCancel(r, u, o)
        PROVE  TypeOK'
    BY <1>6, <1>b, <1>s DEF BeginCancel, Fits, Others, Statuses
  <1>7. ASSUME NEW r \in Requests, NEW o \in Orders, BeginAnswer(r, o) PROVE TypeOK'
    <2>1. row[o] \in Row /\ row[o].pay \in PaymentStatuses
      BY <1>7, <1>s DEF BeginAnswer, Row
    <2> QED BY <1>7, <1>b, <2>1 DEF BeginAnswer, Fits, Answers
  <1>8. ASSUME NEW r \in Requests, NEW o \in Orders, NEW s \in AdminStatuses,
               BeginStatus(r, o, s)
        PROVE  TypeOK'
    BY <1>8, <1>b, <1>s, OrdersAssumption DEF BeginStatus, Fits, Others
  <1>9. CASE UNCHANGED vars
    BY <1>9 DEF vars
  <1> QED BY <1>1, <1>2, <1>3, <1>4, <1>5, <1>6, <1>7, <1>8, <1>9 DEF Next

\* Every variable keeps its type (the rows and requests of EcommerceService).
THEOREM TypeCorrect == Spec => []TypeOK
  BY TypeInit, TypeNext, PTL DEF Spec

-----------------------------------------------------------------------------
(* The invariant that RowsAreWhole and VerdictStands follow from            *)

\* The two states of an order fit each other.
Whole(w, o, set) ==
    /\ w.status = "SHIPPING" => w.pay = "Success"
    /\ w.status = "CANCELED" /\ w.pay = "Success" => o \in set

\* What a request has read is whole, and so is what it will save.
RequestIsWhole(q, set) ==
    /\ Whole(q.was, q.order, set)
    /\ q.op = "create" => q.was.status = "NEW"
    /\ q.op = "status" /\ q.to = "SHIPPING" => q.was.pay = "Success"
    /\ q.op = "cancel" => q.to = "CANCELED" /\ q.was.pay # "Success"
    /\ q.op = "answer" => q.was.pay \notin Final
    /\ q.op = "answered" /\ q.was.pay \in Final => q.to = q.was.pay

IInv ==
    /\ TypeOK
    /\ \A o \in Stored : Whole(row[o], o, overridden)
    /\ \A r \in Requests : req[r] # Idle => RequestIsWhole(req[r], overridden)

LEMMA InvImplies == IInv => RowsAreWhole
  BY DEF IInv, RowsAreWhole, Whole

LEMMA InvInit == Init => IInv
  <1> SUFFICES ASSUME Init PROVE IInv
    OBVIOUS
  <1>1. TypeOK
    BY TypeInit
  <1>2. Stored = {} /\ \A r \in Requests : req[r] = Idle
    BY DEF Init, Stored
  <1> QED BY <1>1, <1>2 DEF IInv

LEMMA InvNext == IInv /\ [Next]_vars => IInv'
  <1> SUFFICES ASSUME IInv, [Next]_vars PROVE IInv'
    OBVIOUS
  <1>t. TypeOK /\ TypeOK'
    BY TypeNext DEF IInv
  <1>r. /\ \A o \in Orders : row[o] \in Row \cup {None}
        /\ \A r \in Requests : req[r] \in Request \cup {Idle}
        /\ row' \in [Orders -> Row \cup {None}] /\ req' \in [Requests -> Request \cup {Idle}]
    BY <1>t DEF TypeOK
  <1>i. \A r \in Requests : req[r].op # "idle" => req[r] # Idle
    BY IdleOp
  <1>s. \A o \in Stored : o \in Orders /\ row[o] \in Row /\ Whole(row[o], o, overridden)
    BY <1>r DEF Stored, IInv
  <1>q. ASSUME NEW r \in Requests, req[r] # Idle
        PROVE  /\ req[r] \in Request /\ req[r].was \in Row
               /\ Fits(req[r].op, req[r].order, req[r].to)
               /\ RequestIsWhole(req[r], overridden)
    BY <1>q, <1>r, RequestParts DEF IInv
  <1>m. ASSUME overridden \subseteq overridden'
        PROVE  /\ \A w, o : Whole(w, o, overridden) => Whole(w, o, overridden')
               /\ \A q : RequestIsWhole(q, overridden) => RequestIsWhole(q, overridden')
    BY <1>m DEF Whole, RequestIsWhole
  <1>b. ASSUME NEW r \in Requests, NEW op, NEW o, NEW w \in Row, NEW to,
               Begin(r, op, o, w, to),
               RequestIsWhole([op |-> op, order |-> o, was |-> w, to |-> to], overridden)
        PROVE  IInv'
    <2>1. /\ UNCHANGED <<row, overridden>>
          /\ req' = [req EXCEPT ![r] = [op |-> op, order |-> o, was |-> w, to |-> to]]
      BY <1>b DEF Begin
    <2>2. \A x \in Requests : req'[x] # Idle => RequestIsWhole(req'[x], overridden')
      BY <2>1, <1>b, <1>t DEF IInv, TypeOK
    <2> QED BY <2>1, <2>2, <1>t DEF IInv, Stored, RequestIsWhole, Whole
  <1>c. ASSUME NEW r \in Requests, NEW o, NEW w \in Row, Commit(r, o, w),
               overridden \subseteq overridden', Whole(w, o, overridden')
        PROVE  IInv'
    <2>1. \A x \in Stored' : Whole(row'[x], x, overridden')
      <3> SUFFICES ASSUME NEW x \in Stored' PROVE Whole(row'[x], x, overridden')
        OBVIOUS
      <3>1. x \in Orders /\ row'[x] # None
        BY DEF Stored
      <3>2. CASE x = o
        BY <3>1, <3>2, <1>c, <1>t DEF Commit, TypeOK
      <3>3. CASE x # o
        BY <3>1, <3>3, <1>c, <1>t, <1>s, <1>m DEF Commit, TypeOK, Stored
      <3> QED BY <3>2, <3>3
    <2>2. \A x \in Requests : req'[x] # Idle => RequestIsWhole(req'[x], overridden')
      BY <1>c, <1>q, <1>m, <1>t DEF Commit, TypeOK
    <2> QED BY <2>1, <2>2, <1>t DEF IInv
  <1>w. ASSUME NEW r \in Requests, NEW op, NEW o \in Stored, NEW to,
               Begin(r, op, o, row[o], to), op # "create",
               op = "status" /\ to = "SHIPPING" => row[o].pay = "Success",
               op = "cancel" => to = "CANCELED" /\ row[o].pay # "Success",
               op = "answer" => row[o].pay \notin Final,
               op = "answered" => to = row[o].pay
        PROVE  IInv'
    <2>1. RequestIsWhole([op |-> op, order |-> o, was |-> row[o], to |-> to], overridden)
      BY <1>w, <1>s DEF RequestIsWhole
    <2> QED BY <2>1, <1>w, <1>s, <1>b
  <1>p. ASSUME NEW o, NEW w \in Posted, row' = [row EXCEPT ![o] = w], UNCHANGED overridden
        PROVE  \A x \in Stored' : Whole(row'[x], x, overridden')
    <2> SUFFICES ASSUME NEW x \in Stored' PROVE Whole(row'[x], x, overridden')
      OBVIOUS
    <2>1. CASE x = o
      <3>1. row'[x] = w
        BY <1>p, <2>1, <1>t DEF TypeOK, Stored
      <3> QED BY <3>1, PostedRow DEF Whole
    <2>2. CASE x # o
      BY <1>p, <2>2, <1>s, <1>m, <1>t DEF TypeOK, Stored
    <2> QED BY <2>1, <2>2
  <1>1. ASSUME NEW o \in Orders, CheckoutGuest(o) PROVE IInv'
    <2>1. UNCHANGED <<req, overridden>> /\ \A x \in Stored' : Whole(row'[x], x, overridden')
      BY <1>1, <1>p DEF CheckoutGuest
    <2> QED BY <2>1, <1>m, <1>q, <1>t DEF IInv
  <1>2. ASSUME NEW r \in Requests, Save(r) PROVE IInv'
    <2>1. CASE SaveCart(r)
      BY <2>1, <1>c, <1>q, <1>i, <1>m DEF SaveCart, history, RequestIsWhole
    <2>2. CASE SaveNewCart(r)
      <3>1. req[r].was \in Row /\ req[r].was.status = "NEW"
        BY <2>2, <1>q, <1>i DEF SaveNewCart, RequestIsWhole
      <3> QED BY <2>2, <3>1, <1>c DEF SaveNewCart, history, Whole
    <2>3. CASE SaveCheckoutCart(r)
      <3>1. req[r] # Idle
        BY <2>3, <1>i DEF SaveCheckoutCart
      <3> DEFINE q == MovedOn(req[r], "billed", "NEW")
      <3>4. UNCHANGED overridden /\ req' = [req EXCEPT ![r] = q]
        BY <2>3 DEF SaveCheckoutCart, Goto, history, MovedOn
      <3>5. \A x \in Stored' : Whole(row'[x], x, overridden')
        BY <2>3, <3>4, <1>p DEF SaveCheckoutCart
      <3>6. RequestIsWhole(q, overridden')
        <4>1. Fits("billed", req[r].order, "NEW")
          BY <2>3, <3>1, <1>q DEF SaveCheckoutCart, Fits, Others, Answers, Statuses
        <4>2. q.op = "billed" /\ q.was = req[r].was /\ q.order = req[r].order
          <5>1. req[r] \in Request
            BY <3>1, <1>q
          <5> QED BY <4>1, <5>1, RequestUpdate
        <4> HIDE DEF q
        <4> QED BY <4>2, <3>1, <3>4, <1>q DEF RequestIsWhole
      <3>7. \A x \in Requests : req'[x] # Idle => RequestIsWhole(req'[x], overridden')
        BY <3>4, <3>6, <1>q, <1>m, <1>t DEF TypeOK
      <3> QED BY <3>5, <3>7, <1>t DEF IInv
    <2>4. CASE FinishCheckout(r)
      BY <2>4, <1>c, <1>q, <1>i, <1>m DEF FinishCheckout, history, RequestIsWhole
    <2>5. CASE AskGateway(r)
      <3>1. PICK v \in Verdicts : Goto(r, "answered", v)
        BY <2>5 DEF AskGateway
      <3>2. req[r] # Idle /\ UNCHANGED <<row, overridden>>
        BY <2>5, <1>i DEF AskGateway, history
      <3> DEFINE q == MovedOn(req[r], "answered", v)
      <3>3. RequestIsWhole(q, overridden')
        <4>1. Fits("answered", req[r].order, v)
          BY <2>5, <3>2, <1>q, OrdersAssumption DEF AskGateway, Fits, Others, Answers
        <4>2. q.op = "answered" /\ q.was = req[r].was /\ q.order = req[r].order
          <5>1. req[r] \in Request
            BY <3>2, <1>q
          <5> QED BY <4>1, <5>1, RequestUpdate
        <4> HIDE DEF q
        <4> QED BY <2>5, <4>2, <3>2, <1>q DEF AskGateway, RequestIsWhole
      <3>4. \A x \in Requests : req'[x] # Idle => RequestIsWhole(req'[x], overridden')
        BY <3>1, <3>2, <3>3, <1>q, <1>m, <1>t DEF TypeOK, Goto, MovedOn
      <3> QED BY <3>2, <3>4, <1>s, <1>m, <1>t DEF IInv, Stored
    <2>6. CASE SaveAnswer(r)
      <3>1. /\ req[r] # Idle /\ req[r].op = "answered" /\ UNCHANGED overridden
            /\ req[r].was \in Row /\ req[r].to \in PaymentStatuses
        BY <2>6, <1>i, <1>q DEF SaveAnswer, history, Fits, Others
      <3> DEFINE s == IF req[r].to = "Success" THEN "PAID" ELSE req[r].was.status
                 w == WithAnswer(req[r].was, req[r].to, s)
      <3>2. s \in Statuses
        BY <3>1, RowParts DEF Statuses
      <3>3. w \in Row /\ w.status = s /\ w.pay = req[r].to
        <4> HIDE DEF s
        <4> QED BY <3>1, <3>2, RowAnswer
      <3>4. Commit(r, req[r].order, w)
        BY <2>6 DEF SaveAnswer, WithAnswer
      <3>5. Whole(w, req[r].order, overridden')
        BY <3>1, <3>3, <1>q DEF Whole, RequestIsWhole, Final
      <3> QED BY <3>1, <3>3, <3>4, <3>5, <1>c, <1>m
    <2>7. CASE SaveStatus(r)
      <3>1. /\ req[r] # Idle /\ req[r].op \in {"status", "cancel"}
            /\ req[r].was \in Row /\ req[r].to \in Statuses
        BY <2>7, <1>i, <1>q DEF SaveStatus, Fits, Answers
      <3> DEFINE w == [req[r].was EXCEPT !.status = req[r].to]
      <3>2. w \in Row /\ w.status = req[r].to /\ w.pay = req[r].was.pay
        BY <3>1, RowStatus
      <3>3. Whole(w, req[r].order, overridden')
        BY <2>7, <3>1, <3>2, <1>q DEF SaveStatus, Whole, RequestIsWhole
      <3> QED BY <2>7, <3>2, <3>3, <1>c DEF SaveStatus
    <2>8. CASE Fail(r)
      <3>1. UNCHANGED <<row, overridden>> /\ req' = [req EXCEPT ![r] = Idle]
        BY <2>8 DEF Fail
      <3>2. \A x \in Requests : req'[x] # Idle => RequestIsWhole(req'[x], overridden')
        BY <3>1, <1>q, <1>m, <1>t DEF TypeOK
      <3> QED BY <3>1, <3>2, <1>s, <1>m, <1>t DEF IInv, Stored
    <2> QED BY <1>2, <2>1, <2>2, <2>3, <2>4, <2>5, <2>6, <2>7, <2>8 DEF Save
  <1>3. ASSUME NEW r \in Requests, NEW u \in Users, EditCart(r, u) PROVE IInv'
    BY <1>3, <1>w DEF EditCart, Carts
  <1>4. ASSUME NEW r \in Requests, NEW u \in Users, CreateCart(r, u) PROVE IInv'
    <2> DEFINE w == NewCart(u)
    <2>1. w \in Row /\ w.status = "NEW" /\ w.pay = "Sent"
      BY NewRow
    <2>2. RequestIsWhole([op |-> "create", order |-> None, was |-> w, to |-> "NEW"], overridden)
      BY <2>1 DEF RequestIsWhole, Whole
    <2> QED BY <1>4, <2>1, <2>2, <1>b DEF CreateCart
  <1>5. ASSUME NEW r \in Requests, NEW u \in Users, BeginCheckout(r, u) PROVE IInv'
    BY <1>5, <1>w DEF BeginCheckout, Carts
  <1>6. ASSUME NEW r \in Requests, NEW u \in Users, NEW o \in Orders, BeginCancel(r, u, o)
        PROVE  IInv'
    BY <1>6, <1>w DEF BeginCancel
  <1>7. ASSUME NEW r \in Requests, NEW o \in Orders, BeginAnswer(r, o) PROVE IInv'
    BY <1>7, <1>w DEF BeginAnswer
  <1>8. ASSUME NEW r \in Requests, NEW o \in Orders, NEW s \in AdminStatuses,
               BeginStatus(r, o, s)
        PROVE  IInv'
    BY <1>8, <1>w DEF BeginStatus
  <1>9. CASE UNCHANGED vars
    BY <1>9, <1>s, <1>q, <1>m, <1>t DEF vars, IInv, Stored
  <1> QED BY <1>1, <1>2, <1>3, <1>4, <1>5, <1>6, <1>7, <1>8, <1>9 DEF Next

\* For every number of orders and of overlapping requests, an order that is shipped
\* has been paid for and a paid one is canceled by an administrator only.
THEOREM RowsWhole == Spec => []RowsAreWhole
  BY InvInit, InvNext, InvImplies, PTL DEF Spec

\* For every number of orders and of overlapping requests, a final verdict is lost
\* only to a request that has read the order before the verdict, or to what a client
\* posts: by a checkout that is under way, or by a guest checkout of this very order.
THEOREM VerdictsStand == Spec => VerdictStands
<1> DEFINE Lost(o, r) ==
      /\ req[r] # Idle /\ req'[r] # req[r]
      /\ req[r].order = o
      /\ \/ req[r].was.pay # row[o].pay
         \/ req[r].op = "checkout"
<1>1. ASSUME IInv, Next, NEW o \in Stored, row[o].pay \in Final, row'[o].pay # row[o].pay
      PROVE  CheckoutGuest(o) \/ \E r \in Requests : Lost(o, r)
  <2>t. /\ row \in [Orders -> Row \cup {None}] /\ req \in [Requests -> Request \cup {Idle}]
        /\ o \in Orders
    BY <1>1 DEF IInv, TypeOK, Stored
  <2>i. \A r \in Requests : req[r].op # "idle" => req[r] # Idle
    BY IdleOp
  <2>q. ASSUME NEW r \in Requests, req[r] # Idle
        PROVE  req[r].was \in Row /\ Fits(req[r].op, req[r].order, req[r].to)
               /\ RequestIsWhole(req[r], overridden)
    BY <2>q, <2>t, <1>1, RequestParts DEF IInv
  <2>c. ASSUME NEW r \in Requests, req[r] # Idle, NEW w, Commit(r, req[r].order, w),
               w.pay = req[r].was.pay
        PROVE  Lost(o, r)
    BY <2>c, <2>t, <1>1 DEF Commit
  <2>1. ASSUME NEW x \in Orders, CheckoutGuest(x) PROVE CheckoutGuest(o)
    <3>1. x = o
      BY <2>1, <2>t, <1>1 DEF CheckoutGuest
    <3> QED BY <2>1, <3>1
  <2>2. ASSUME NEW r \in Requests, Save(r) PROVE Lost(o, r)
    <3>1. CASE SaveCart(r)
      BY <3>1, <2>c, <2>i DEF SaveCart
    <3>2. CASE SaveNewCart(r)
      BY <3>2, <2>t, <1>1 DEF SaveNewCart, Commit, Stored
    <3>3. CASE SaveCheckoutCart(r)
      <4>1. req[r] # Idle /\ req[r].op = "checkout" /\ req[r].order = o
        BY <3>3, <2>i, <2>t, <1>1 DEF SaveCheckoutCart
      <4>2. req'[r].op = "billed"
        <5>1. req[r] \in Request /\ Fits("billed", req[r].order, "NEW")
          BY <4>1, <2>q, <2>t DEF Fits, Answers, Others, Statuses
        <5>2. req'[r] = MovedOn(req[r], "billed", "NEW")
          BY <3>3, <2>t DEF SaveCheckoutCart, Goto, MovedOn
        <5> QED BY <5>1, <5>2, RequestUpdate
      <4> QED BY <4>1, <4>2
    <3>4. CASE FinishCheckout(r)
      BY <3>4, <2>c, <2>i DEF FinishCheckout
    <3>5. CASE AskGateway(r)
      BY <3>5, <1>1 DEF AskGateway
    <3>6. CASE SaveAnswer(r)
      <4>1. /\ req[r] # Idle /\ req[r].op = "answered"
            /\ req[r].was \in Row /\ req[r].to \in PaymentStatuses
        BY <3>6, <2>i, <2>q DEF SaveAnswer, Fits, Others
      <4> DEFINE s == IF req[r].to = "Success" THEN "PAID" ELSE req[r].was.status
                 w == WithAnswer(req[r].was, req[r].to, s)
      <4>2. s \in Statuses
        BY <4>1, RowParts DEF Statuses
      <4>3. w.pay = req[r].to
        <5> HIDE DEF s
        <5> QED BY <4>1, <4>2, RowAnswer
      <4>4. Commit(r, req[r].order, w)
        BY <3>6 DEF SaveAnswer, WithAnswer
      <4>5. req[r].was.pay \in Final => w.pay = req[r].was.pay
        BY <4>1, <4>3, <2>q DEF RequestIsWhole
      <4> HIDE DEF w
      <4>6. req[r].order = o /\ row'[o] = w /\ req'[r] = Idle
        BY <4>4, <2>t, <1>1 DEF Commit
      <4> QED BY <4>1, <4>5, <4>6, <2>c, <4>4, <1>1
    <3>7. CASE SaveStatus(r)
      <4>1. req[r] # Idle /\ req[r].was \in Row /\ req[r].to \in Statuses
        BY <3>7, <2>i, <2>q DEF SaveStatus, Fits, Answers
      <4> DEFINE w == [req[r].was EXCEPT !.status = req[r].to]
      <4>2. w.pay = req[r].was.pay
        BY <4>1, RowStatus
      <4>3. Commit(r, req[r].order, w)
        BY <3>7 DEF SaveStatus
      <4> HIDE DEF w
      <4> QED BY <4>1, <4>2, <4>3, <2>c
    <3>8. CASE Fail(r)
      BY <3>8, <1>1 DEF Fail
    <3> QED BY <2>2, <3>1, <3>2, <3>3, <3>4, <3>5, <3>6, <3>7, <3>8 DEF Save
  <2>3. ASSUME NEW r \in Requests, NEW p, NEW q, NEW w, NEW to, Begin(r, p, q, w, to)
        PROVE  FALSE
    BY <2>3, <1>1 DEF Begin
  <2>4. ~\E r \in Requests :
           \/ \E u \in Users :
                \/ EditCart(r, u) \/ CreateCart(r, u) \/ BeginCheckout(r, u)
                \/ \E x \in Orders : BeginCancel(r, u, x)
           \/ \E x \in Orders :
                \/ BeginAnswer(r, x)
                \/ \E s \in AdminStatuses : BeginStatus(r, x, s)
    BY <2>3 DEF EditCart, CreateCart, BeginCheckout, BeginCancel, BeginAnswer, BeginStatus
  <2> QED BY <1>1, <2>1, <2>2, <2>4 DEF Next
<1>2. IInv /\ [Next]_vars =>
        [ \A o \in Orders :
            o \in Stored /\ row[o].pay \in Final /\ row'[o].pay # row[o].pay =>
               \/ CheckoutGuest(o)
               \/ \E r \in Requests :
                    /\ req[r] # Idle /\ req'[r] # req[r]
                    /\ req[r].order = o
                    /\ req[r].was.pay # row[o].pay \/ req[r].op = "checkout" ]_vars
  BY <1>1
<1> QED BY <1>2, InvInit, InvNext, PTL DEF Spec, VerdictStands

-----------------------------------------------------------------------------
(* What requests do, as far as carts and payments go                       *)

\* A request begins: a cart for a user who has none, or the reading of an order.
Begins(r) ==
    \E op, o, w, to :
       /\ Begin(r, op, o, w, to)
       /\ \/ /\ op = "create" /\ o = None
             /\ \E u \in Users : Carts(u) = {} /\ w = NewCart(u)
          \/ /\ op \in {"edit", "checkout", "status", "cancel", "answer", "answered"}
             /\ o \in Stored /\ w = row[o]
             /\ op = "checkout" => w.status = "NEW"
             /\ op \in Answers => w.gateway

\* A request writes the order it has read, or a new one.
Writes(r, o, w) ==
    /\ req[r] # Idle /\ o \in Orders /\ w \in Row
    /\ IF req[r].op = "create" THEN o \notin Stored ELSE o = req[r].order
    /\ row' = [row EXCEPT ![o] = w]
    /\ UNCHANGED <<overlapped, left>> /\ overridden \subseteq overridden'

\* It writes and is over.
Ends(r, o, w) ==
    /\ Writes(r, o, w) /\ req' = [req EXCEPT ![r] = Idle]
    /\ req[r].op # "checkout" /\ w.owner = req[r].was.owner
    /\ req[r].op \notin Answers => w.pay = req[r].was.pay /\ w.gateway = req[r].was.gateway
    /\ w.status = "NEW" => req[r].was.status = "NEW" \/ o \in overridden'

\* It writes the checkout cart and goes on.
Bills(r, o, w) ==
    /\ Writes(r, o, w) /\ req[r].op = "checkout"
    /\ req' = [req EXCEPT ![r] = MovedOn(req[r], "billed", "NEW")]
    /\ w \in Posted

\* It has the answer of the gateway.
Asks(r) ==
    /\ req[r] # Idle /\ req[r].op = "answer"
    /\ \E v \in PaymentStatuses : req' = [req EXCEPT ![r] = MovedOn(req[r], "answered", v)]
    /\ UNCHANGED <<row, overlapped, overridden, left>>

\* What a guest posts is saved over any order, or as a new one.
Guests(o) ==
    /\ o \in Orders
    /\ \E w \in Posted : row' = [row EXCEPT ![o] = w]
    /\ left' = left \cup {o}
    /\ UNCHANGED <<req, overlapped, overridden>>

LEMMA RowSaved ==
    ASSUME NEW w \in Row, NEW s \in Statuses
    PROVE  /\ [w EXCEPT !.status = s].owner = w.owner
           /\ [w EXCEPT !.status = s].gateway = w.gateway
           /\ \A p \in PaymentStatuses : WithAnswer(w, p, s).owner = w.owner
  BY DEF Row, WithAnswer

\* Every step is one of these.
LEMMA Steps ==
    ASSUME IInv, Next
    PROVE  \/ \E o : Guests(o)
           \/ \E r \in Requests : \/ Begins(r) \/ Asks(r) \/ Fail(r)
                                  \/ \E o, w : Ends(r, o, w) \/ Bills(r, o, w)
  <1>t. /\ row \in [Orders -> Row \cup {None}] /\ req \in [Requests -> Request \cup {Idle}]
    BY DEF IInv, TypeOK
  <1>i. \A r \in Requests : req[r].op # "idle" => req[r] # Idle
    BY IdleOp
  <1>q. ASSUME NEW r \in Requests, req[r] # Idle
        PROVE  /\ req[r] \in Request /\ req[r].was \in Row
               /\ Fits(req[r].op, req[r].order, req[r].to)
               /\ RequestIsWhole(req[r], overridden)
    BY <1>q, <1>t, RequestParts DEF IInv
  <1>1. ASSUME NEW o \in Orders, CheckoutGuest(o) PROVE Guests(o)
    BY <1>1 DEF CheckoutGuest, Guests
  <1>2. ASSUME NEW r \in Requests, Save(r)
        PROVE  Asks(r) \/ Fail(r) \/ \E o, w : Ends(r, o, w) \/ Bills(r, o, w)
    <2>1. CASE SaveCart(r) \/ FinishCheckout(r)
      <3>1. /\ req[r] # Idle /\ req[r].op \in {"edit", "billed"}
            /\ Commit(r, req[r].order, req[r].was) /\ UNCHANGED history
        BY <2>1, <1>i DEF SaveCart, FinishCheckout
      <3>2. req[r].order \in Orders /\ req[r].was \in Row
        BY <3>1, <1>q DEF Fits, Answers
      <3>3. Ends(r, req[r].order, req[r].was)
        BY <3>1, <3>2 DEF Ends, Writes, Commit, history, Answers
      <3> QED BY <3>3
    <2>2. CASE SaveNewCart(r)
      <3>1. req[r] # Idle /\ req[r].op = "create"
        BY <2>2, <1>i DEF SaveNewCart
      <3>2. PICK o \in Orders \ Stored : Commit(r, o, req[r].was)
        BY <2>2 DEF SaveNewCart
      <3>3. Ends(r, o, req[r].was)
        BY <2>2, <3>1, <3>2, <1>q DEF SaveNewCart, Ends, Writes, Commit, history, Answers
      <3> QED BY <3>3
    <2>3. CASE SaveCheckoutCart(r)
      <3>1. req[r] # Idle /\ req[r].op = "checkout"
        BY <2>3, <1>i DEF SaveCheckoutCart
      <3>2. PICK w \in Posted : row' = [row EXCEPT ![req[r].order] = w]
        BY <2>3 DEF SaveCheckoutCart
      <3>3. w \in Row /\ req[r].order \in Orders
        BY <3>1, <1>q, PostedRow DEF Fits, Answers
      <3>4. /\ req' = [req EXCEPT ![r] = MovedOn(req[r], "billed", "NEW")]
            /\ UNCHANGED <<overlapped, overridden, left>>
        BY <2>3 DEF SaveCheckoutCart, Goto, MovedOn, history
      <3>5. Bills(r, req[r].order, w)
        BY <3>1, <3>2, <3>3, <3>4 DEF Bills, Writes
      <3> QED BY <3>5
    <2>4. CASE AskGateway(r)
      <3>1. PICK v \in Verdicts : Goto(r, "answered", v)
        BY <2>4 DEF AskGateway
      <3>2. v \in PaymentStatuses
        BY OrdersAssumption
      <3> QED BY <2>4, <3>1, <3>2, <1>i DEF AskGateway, Asks, Goto, MovedOn, history
    <2>5. CASE SaveAnswer(r)
      <3>1. /\ req[r] # Idle /\ req[r].op = "answered" /\ req[r].order \in Orders
            /\ req[r].was \in Row /\ req[r].to \in PaymentStatuses
        BY <2>5, <1>i, <1>q DEF SaveAnswer, Fits, Others
      <3> DEFINE s == IF req[r].to = "Success" THEN "PAID" ELSE req[r].was.status
                 w == WithAnswer(req[r].was, req[r].to, s)
      <3>2. s \in Statuses /\ (s = "NEW" => req[r].was.status = "NEW")
        BY <3>1, RowParts DEF Statuses
      <3>3. w \in Row /\ w.status = s /\ w.owner = req[r].was.owner
        <4> HIDE DEF s
        <4> QED BY <3>1, <3>2, RowAnswer, RowSaved
      <3>4. Commit(r, req[r].order, w) /\ UNCHANGED history
        BY <2>5 DEF SaveAnswer, WithAnswer
      <3> HIDE DEF w, s
      <3>5. Ends(r, req[r].order, w)
        BY <3>1, <3>2, <3>3, <3>4 DEF Ends, Writes, Commit, history, Answers
      <3> QED BY <3>5
    <2>6. CASE SaveStatus(r)
      <3>1. /\ req[r] # Idle /\ req[r].op \in {"status", "cancel"}
            /\ req[r].was \in Row /\ req[r].to \in Statuses /\ req[r].order \in Orders
            /\ req[r].op = "cancel" => req[r].to = "CANCELED"
        BY <2>6, <1>i, <1>q DEF SaveStatus, Fits, Answers, RequestIsWhole
      <3> DEFINE w == [req[r].was EXCEPT !.status = req[r].to]
      <3>2. /\ w \in Row /\ w.status = req[r].to /\ w.pay = req[r].was.pay
            /\ w.owner = req[r].was.owner /\ w.gateway = req[r].was.gateway
        BY <3>1, RowStatus, RowSaved
      <3>3. /\ Commit(r, req[r].order, w) /\ UNCHANGED <<overlapped, left>>
            /\ overridden \subseteq overridden'
            /\ req[r].op = "status" => req[r].order \in overridden'
        BY <2>6 DEF SaveStatus
      <3> HIDE DEF w
      <3>4. Ends(r, req[r].order, w)
        BY <3>1, <3>2, <3>3 DEF Ends, Writes, Commit, Answers
      <3> QED BY <3>4
    <2> QED BY <1>2, <2>1, <2>2, <2>3, <2>4, <2>5, <2>6 DEF Save
  <1>w. ASSUME NEW r \in Requests, NEW o \in Stored, NEW op, NEW to,
               Begin(r, op, o, row[o], to),
               op \in {"edit", "checkout", "status", "cancel", "answer", "answered"},
               op = "checkout" => row[o].status = "NEW",
               op \in Answers => row[o].gateway
        PROVE  Begins(r)
    BY <1>w DEF Begins
  <1>3. ASSUME NEW r \in Requests, NEW u \in Users,
               EditCart(r, u) \/ BeginCheckout(r, u)
        PROVE  Begins(r)
    <2>1. PICK o \in Carts(u) :
            Begin(r, "edit", o, row[o], "NEW") \/ Begin(r, "checkout", o, row[o], "NEW")
      BY <1>3 DEF EditCart, BeginCheckout
    <2>2. o \in Stored /\ row[o].status = "NEW"
      BY DEF Carts
    <2> QED BY <2>1, <2>2, <1>w DEF Answers
  <1>4. ASSUME NEW r \in Requests, NEW u \in Users, CreateCart(r, u) PROVE Begins(r)
    BY <1>4 DEF CreateCart, Begins
  <1>5. ASSUME NEW r \in Requests, NEW u \in Users, NEW o \in Orders, BeginCancel(r, u, o)
        PROVE  Begins(r)
    BY <1>5, <1>w DEF BeginCancel, Answers
  <1>6. ASSUME NEW r \in Requests, NEW o \in Orders, BeginAnswer(r, o) PROVE Begins(r)
    BY <1>6, <1>w DEF BeginAnswer, Answers
  <1>7. ASSUME NEW r \in Requests, NEW o \in Orders, NEW s \in AdminStatuses,
               BeginStatus(r, o, s)
        PROVE  Begins(r)
    BY <1>7, <1>w DEF BeginStatus, Answers
  <1> QED BY <1>1, <1>2, <1>3, <1>4, <1>5, <1>6, <1>7 DEF Next

-----------------------------------------------------------------------------
(* The invariants that OneCartAlone and PaidOnlyIfBroken follow from       *)

\* Neither what was posted and left nor an overlap excuses a payment of this order.
Clean(o, u) == u \in Users /\ o \notin left /\ u \notin overlapped

BilledIn(o) == \E r \in Requests : req[r] # Idle /\ req[r].op = "billed" /\ req[r].order = o

\* An order nothing excuses has no payment and no gateway, except during its checkout,
\* nor has what a request has read of it.
Unpaid ==
    /\ \A o \in Stored : Clean(o, row[o].owner) =>
         (row[o].pay = "Sent" /\ ~row[o].gateway) \/ BilledIn(o)
    /\ \A r \in Requests : req[r] # Idle /\ Clean(req[r].order, req[r].was.owner) =>
         req[r].was.pay = "Sent" /\ ~req[r].was.gateway /\ req[r].op \notin Answers

\* The carts of a user that no administrator has made carts again.
OwnCarts(u) == Carts(u) \ overridden

\* A user whose requests do not overlap has one cart, and one request, which makes the
\* first cart or works on the only one.
Single(u) ==
    /\ \A a, b \in OwnCarts(u) : a = b
    /\ \A r, s \in Requests :
         req[r] # Idle /\ req[s] # Idle /\ req[r].was.owner = u /\ req[s].was.owner = u => r = s
    /\ \A r \in Requests : req[r] # Idle /\ req[r].was.owner = u =>
         /\ req[r].op = "create" => OwnCarts(u) = {}
         /\ req[r].op # "create" /\ req[r].was.status = "NEW" /\ req[r].order \notin overridden
              => OwnCarts(u) \subseteq {req[r].order}

CInv ==
    /\ IInv /\ Unpaid
    /\ \A u \in Users : u \in overlapped \/ Single(u)

LEMMA CInvInit == Init => CInv
  <1> SUFFICES ASSUME Init PROVE CInv
    OBVIOUS
  <1>1. Stored = {} /\ \A r \in Requests : req[r] = Idle
    BY DEF Init, Stored
  <1>2. \A u \in Users : Single(u)
    BY <1>1 DEF Single, OwnCarts, Carts
  <1> QED BY <1>1, <1>2, InvInit DEF CInv, Unpaid

\* What one step can do to the histories: they grow.
LEMMA Kept ==
    ASSUME CInv, Next
    PROVE  /\ row \in [Orders -> Row \cup {None}] /\ row' \in [Orders -> Row \cup {None}]
           /\ req \in [Requests -> Request \cup {Idle}]
           /\ req' \in [Requests -> Request \cup {Idle}]
           /\ left \subseteq Orders
           /\ overlapped \subseteq overlapped' /\ overridden \subseteq overridden'
           /\ left \subseteq left'
  <1>t. /\ TypeOK /\ TypeOK' /\ IInv
    BY TypeNext DEF CInv, IInv
  <1>1. ASSUME NEW r \in Requests, Begins(r) \/ Asks(r) \/ Fail(r)
        PROVE  /\ overlapped \subseteq overlapped'
               /\ overridden \subseteq overridden' /\ left \subseteq left'
    BY <1>1 DEF Begins, Begin, Asks, Fail
  <1>2. ASSUME NEW r \in Requests, NEW o, NEW w, Ends(r, o, w) \/ Bills(r, o, w)
        PROVE  /\ overlapped \subseteq overlapped'
               /\ overridden \subseteq overridden' /\ left \subseteq left'
    BY <1>2 DEF Ends, Bills, Writes
  <1>3. ASSUME NEW o, Guests(o)
        PROVE  /\ overlapped \subseteq overlapped'
               /\ overridden \subseteq overridden' /\ left \subseteq left'
    BY <1>3 DEF Guests
  <1> QED BY <1>t, <1>1, <1>2, <1>3, Steps DEF TypeOK

LEMMA MovedOnParts ==
    ASSUME NEW r \in Requests, req[r] \in Request, req[r] # Idle, NEW op, NEW to,
           Fits(op, req[r].order, to)
    PROVE  LET q == MovedOn(req[r], op, to) IN
           q.op = op /\ q.was = req[r].was /\ q.order = req[r].order
  BY RequestUpdate

\* What the steps make of the requests: of one at most, which is left, over, moved on
\* from the checkout cart or the gateway, or new.
LEMMA Moved ==
    ASSUME CInv, Next, NEW r \in Requests, req'[r] # Idle
    PROVE  \/ req'[r] = req[r]
           \/ /\ req[r] # Idle /\ req[r].op \in {"checkout", "answer"}
              /\ req'[r].op = (IF req[r].op = "checkout" THEN "billed" ELSE "answered")
              /\ req'[r].was = req[r].was /\ req'[r].order = req[r].order
           \/ Begins(r)
  <1>t. /\ req \in [Requests -> Request \cup {Idle}]
    BY Kept
  <1>q. req[r] # Idle => req[r] \in Request /\ Fits(req[r].op, req[r].order, req[r].to)
    BY <1>t, RequestParts
  <1>1. ASSUME NEW s \in Requests, s # r,
               \/ Begins(s) \/ Asks(s) \/ Fail(s)
               \/ \E o, w : Ends(s, o, w) \/ Bills(s, o, w)
        PROVE  req'[r] = req[r]
    BY <1>1, <1>t DEF Begins, Begin, Asks, Fail, Ends, Bills
  <1>2. CASE Asks(r)
    <2>1. PICK v \in PaymentStatuses : req' = [req EXCEPT ![r] = MovedOn(req[r], "answered", v)]
      BY <1>2 DEF Asks
    <2>2. req[r] # Idle /\ req[r].op = "answer" /\ Fits("answered", req[r].order, v)
      BY <1>2, <1>q DEF Asks, Fits, Answers, Others
    <2>3. req'[r] = MovedOn(req[r], "answered", v)
      BY <2>1, <1>t
    <2> QED BY <2>2, <2>3, <1>q, MovedOnParts
  <1>3. ASSUME NEW o, NEW w, Bills(r, o, w) PROVE req'[r] # Idle =>
           /\ req[r] # Idle /\ req[r].op = "checkout" /\ req'[r].op = "billed"
           /\ req'[r].was = req[r].was /\ req'[r].order = req[r].order
    <2>1. /\ req[r] # Idle /\ req[r].op = "checkout" /\ Fits("billed", req[r].order, "NEW")
      BY <1>3, <1>q DEF Bills, Writes, Fits, Answers, Others, Statuses
    <2>2. req'[r] = MovedOn(req[r], "billed", "NEW")
      BY <1>3, <1>t DEF Bills
    <2> QED BY <2>1, <2>2, <1>q, MovedOnParts
  <1>4. ASSUME NEW o, NEW w, Ends(r, o, w) PROVE FALSE
    BY <1>4, <1>t DEF Ends
  <1>5. ~Fail(r)
    BY <1>t DEF Fail
  <1>6. \A o : Guests(o) => req'[r] = req[r]
    BY DEF Guests
  <1> QED BY <1>1, <1>2, <1>3, <1>4, <1>5, <1>6, Steps DEF CInv

LEMMA Begun ==
    ASSUME CInv, Next, NEW r \in Requests, Begins(r)
    PROVE  /\ req[r] = Idle /\ UNCHANGED <<row, overridden, left>>
           /\ \A s \in Requests \ {r} : req'[s] = req[s]
           /\ \A s \in Requests :
                /\ req[s] # Idle /\ req'[r].was.owner \in Users
                /\ \/ req[s].was.owner = req'[r].was.owner
                   \/ req'[r].order \in Orders /\ req[s].order = req'[r].order
                => req'[r].was.owner \in overlapped'
           /\ \/ /\ req'[r].op = "create" /\ req'[r].order = None
                 /\ \E u \in Users : Carts(u) = {} /\ req'[r].was = NewCart(u)
              \/ /\ req'[r].op \in {"edit", "checkout", "status", "cancel", "answer", "answered"}
                 /\ req'[r].order \in Stored /\ req'[r].was = row[req'[r].order]
                 /\ req'[r].op = "checkout" => req'[r].was.status = "NEW"
                 /\ req'[r].op \in Answers => req'[r].was.gateway
  <1>t. req \in [Requests -> Request \cup {Idle}]
    BY Kept
  <1>1. PICK op, o, w, to :
           /\ Begin(r, op, o, w, to)
           /\ \/ /\ op = "create" /\ o = None
                 /\ \E u \in Users : Carts(u) = {} /\ w = NewCart(u)
              \/ /\ op \in {"edit", "checkout", "status", "cancel", "answer", "answered"}
                 /\ o \in Stored /\ w = row[o]
                 /\ op = "checkout" => w.status = "NEW"
                 /\ op \in Answers => w.gateway
    BY DEF Begins
  <1>2. req'[r] = [op |-> op, order |-> o, was |-> w, to |-> to]
    BY <1>1, <1>t DEF Begin
  <1>3. req'[r].op = op /\ req'[r].order = o /\ req'[r].was = w
    BY <1>2
  <1>4. /\ req[r] = Idle /\ UNCHANGED <<row, overridden, left>>
        /\ \A s \in Requests \ {r} : req'[s] = req[s]
    BY <1>1, <1>t DEF Begin
  <1>5. \A s \in Requests :
           /\ req[s] # Idle /\ w.owner \in Users
           /\ req[s].was.owner = w.owner \/ (o \in Orders /\ req[s].order = o)
           => w.owner \in overlapped'
    BY <1>1 DEF Begin
  <1> QED BY <1>1, <1>3, <1>4, <1>5

\* A billed request is left alone, ends in a write of its order, or fails and leaves what was posted.
LEMMA BilledStays ==
    ASSUME CInv, Next, NEW s \in Requests, req[s] # Idle, req[s].op = "billed"
    PROVE  \/ req'[s] = req[s]
           \/ \E w : Ends(s, req[s].order, w)
           \/ req[s].order \in left'
  <1>t. req \in [Requests -> Request \cup {Idle}]
    BY Kept
  <1>1. ASSUME NEW r \in Requests, r # s,
               \/ Begins(r) \/ Asks(r) \/ Fail(r)
               \/ \E o, w : Ends(r, o, w) \/ Bills(r, o, w)
        PROVE  req'[s] = req[s]
    BY <1>1, <1>t DEF Begins, Begin, Asks, Fail, Ends, Bills
  <1>2. ~Begins(s) /\ ~Asks(s) /\ ~ \E o, w : Bills(s, o, w)
    BY DEF Begins, Begin, Asks, Bills
  <1>3. Fail(s) => req[s].order \in left'
    BY DEF Fail
  <1>4. ASSUME NEW o, NEW w, Ends(s, o, w) PROVE o = req[s].order
    BY <1>4 DEF Ends, Writes
  <1>5. \A o : Guests(o) => req'[s] = req[s]
    BY DEF Guests
  <1> QED BY <1>1, <1>2, <1>3, <1>4, <1>5, Steps DEF CInv

LEMMA UnpaidNext == CInv /\ Next => Unpaid'
  <1> SUFFICES ASSUME CInv, Next PROVE Unpaid'
    OBVIOUS
  <1>t. /\ row \in [Orders -> Row \cup {None}] /\ req \in [Requests -> Request \cup {Idle}]
        /\ row' \in [Orders -> Row \cup {None}]
        /\ left \subseteq Orders /\ overlapped \subseteq overlapped' /\ left \subseteq left'
    BY Kept
  <1>c. \A o, u : Clean(o, u)' => Clean(o, u)
    BY <1>t DEF Clean
  <1>1. ASSUME NEW r \in Requests, req'[r] # Idle, Clean(req[r].order, req[r].was.owner)'
        PROVE  req'[r].was.pay = "Sent" /\ ~req'[r].was.gateway /\ req'[r].op \notin Answers
    <2>1. CASE Begins(r)
      <3>1. CASE req'[r].op = "create"
        <4>1. PICK u \in Users : req'[r].was = NewCart(u)
          BY <3>1, <2>1, Begun
        <4> QED BY <4>1, <3>1 DEF NewCart, Answers
      <3>2. CASE req'[r].op # "create"
        <4>0. PICK o \in Stored : o = req'[r].order /\ req'[r].was = row[o]
          BY <2>1, <3>2, Begun
        <4>1. /\ o \in Orders /\ row[o].owner \in Users /\ row[o].owner \notin overlapped'
              /\ Clean(o, row[o].owner)
          BY <4>0, <1>1, <1>c DEF Clean, Stored
        <4>2. ~BilledIn(o)
          BY <4>0, <4>1, <2>1, Begun DEF BilledIn
        <4>3. row[o].pay = "Sent" /\ ~row[o].gateway
          BY <4>0, <4>1, <4>2 DEF CInv, Unpaid
        <4> QED BY <4>0, <4>3, <2>1, <3>2, Begun
      <3> QED BY <3>1, <3>2
    <2>2. CASE ~Begins(r)
      <3>1. req[r] # Idle /\ req[r].was = req'[r].was /\ req[r].order = req'[r].order
        BY <2>2, <1>1, Moved
      <3>2. req[r].was.pay = "Sent" /\ ~req[r].was.gateway /\ req[r].op \notin Answers
        BY <3>1, <1>1, <1>c DEF CInv, Unpaid
      <3>3. req'[r] = req[r] \/ req'[r].op = "billed"
        BY <2>2, <1>1, <3>2, Moved DEF Answers
      <3> QED BY <3>1, <3>2, <3>3 DEF Answers
    <2> QED BY <2>1, <2>2
  <1>2. ASSUME NEW o \in Stored', Clean(o, row[o].owner)'
        PROVE  (row'[o].pay = "Sent" /\ ~row'[o].gateway) \/ BilledIn(o)'
    <2>o. o \in Orders /\ o \notin left'
      BY <1>2 DEF Stored, Clean
    <2>1. ASSUME NEW r \in Requests, NEW w, Ends(r, o, w)
          PROVE  row'[o].pay = "Sent" /\ ~row'[o].gateway
      <3>1. /\ req[r] # Idle /\ row'[o] = w /\ w.owner = req[r].was.owner
            /\ UNCHANGED <<overlapped, left>>
        BY <2>1, <2>o, <1>t DEF Ends, Writes
      <3>2. Clean(req[r].order, req[r].was.owner)
        <4>1. CASE req[r].op = "create"
          <5>1. req[r].order = None
            BY <4>1, <3>1, <1>t, RequestParts DEF Fits, Others, Answers
          <5>2. None \notin left
            BY <1>t, OrdersAssumption
          <5> QED BY <5>1, <5>2, <3>1, <1>2 DEF Clean
        <4>2. CASE req[r].op # "create"
          <5>1. o = req[r].order
            BY <4>2, <2>1 DEF Ends, Writes
          <5> QED BY <5>1, <3>1, <1>2, <1>c
        <4> QED BY <4>1, <4>2
      <3>3. req[r].was.pay = "Sent" /\ ~req[r].was.gateway /\ req[r].op \notin Answers
        BY <3>1, <3>2 DEF CInv, Unpaid
      <3> QED BY <2>1, <3>1, <3>3 DEF Ends
    <2>2. ASSUME NEW r \in Requests, NEW w, Bills(r, o, w)
          PROVE  BilledIn(o)'
      <3>1. /\ req[r] # Idle /\ req[r].op = "checkout" /\ o = req[r].order
            /\ req'[r] = MovedOn(req[r], "billed", "NEW")
        BY <2>2, <1>t DEF Bills, Writes
      <3>2. Fits("billed", req[r].order, "NEW")
        BY <3>1, <2>o DEF Fits, Others, Statuses
      <3>3. req'[r].op = "billed" /\ req'[r].order = o
        BY <3>1, <3>2, <1>t, MovedOnParts
      <3> QED BY <3>3, IdleOp DEF BilledIn
    <2>3. CASE ~ \E r \in Requests : \E w : Ends(r, o, w) \/ Bills(r, o, w)
      <3>1. row'[o] = row[o]
        <4>1. ASSUME NEW r \in Requests, NEW x, NEW w, Ends(r, x, w) \/ Bills(r, x, w)
              PROVE  row'[o] = row[o]
          BY <4>1, <2>3, <2>o, <1>t DEF Ends, Bills, Writes
        <4>2. ASSUME NEW r \in Requests, Begins(r) \/ Asks(r) \/ Fail(r)
              PROVE  row'[o] = row[o]
          BY <4>2 DEF Begins, Begin, Asks, Fail
        <4>3. ASSUME NEW x, Guests(x) PROVE row'[o] = row[o]
          BY <4>3, <2>o, <1>t DEF Guests
        <4> QED BY <4>1, <4>2, <4>3, Steps DEF CInv
      <3>2. o \in Stored /\ Clean(o, row[o].owner)
        BY <3>1, <1>2, <1>c, <2>o DEF Stored, Clean
      <3>3. ASSUME BilledIn(o) PROVE BilledIn(o)'
        <4>1. PICK s \in Requests : req[s] # Idle /\ req[s].op = "billed" /\ req[s].order = o
          BY <3>3 DEF BilledIn
        <4>2. req'[s] = req[s]
          BY <4>1, <2>o, <2>3, BilledStays
        <4> QED BY <4>1, <4>2 DEF BilledIn
      <3> QED BY <3>1, <3>2, <3>3 DEF CInv, Unpaid
    <2> QED BY <2>1, <2>2, <2>3
  <1> QED BY <1>1, <1>2 DEF Unpaid

\* Where the user comes to no other cart, and to no other request, he is single still.
LEMMA SingleStays ==
    ASSUME CInv, Next, NEW u \in Users, u \notin overlapped,
           OwnCarts(u)' \subseteq OwnCarts(u),
           \A s \in Requests : req'[s] # Idle /\ req'[s].was.owner = u =>
              /\ req[s] # Idle /\ req[s].was = req'[s].was /\ req[s].order = req'[s].order
              /\ req[s].op = "create" <=> req'[s].op = "create"
    PROVE  Single(u)'
  <1>1. Single(u) /\ overridden \subseteq overridden'
    BY Kept DEF CInv
  <1>2. \A a, b \in OwnCarts(u)' : a = b
    BY <1>1 DEF Single
  <1>3. \A r, s \in Requests :
           req'[r] # Idle /\ req'[s] # Idle /\ req'[r].was.owner = u /\ req'[s].was.owner = u
             => r = s
    BY <1>1 DEF Single
  <1>4. ASSUME NEW r \in Requests, req'[r] # Idle, req'[r].was.owner = u
        PROVE  /\ req'[r].op = "create" => OwnCarts(u)' = {}
               /\ /\ req'[r].op # "create" /\ req'[r].was.status = "NEW"
                  /\ req'[r].order \notin overridden'
                  => OwnCarts(u)' \subseteq {req'[r].order}
    BY <1>1, <1>4 DEF Single
  <1> QED BY <1>2, <1>3, <1>4 DEF Single

LEMMA SingleNext ==
    ASSUME CInv, Next, NEW u \in Users, u \notin overlapped'
    PROVE  Single(u)'
  <1>t. /\ row \in [Orders -> Row \cup {None}] /\ row' \in [Orders -> Row \cup {None}]
        /\ req \in [Requests -> Request \cup {Idle}]
        /\ overridden \subseteq overridden'
    BY Kept
  <1>u. Single(u) /\ u \notin overlapped
    BY Kept DEF CInv
  <1>p. ASSUME NEW o, NEW w, row' = [row EXCEPT ![o] = w], w.status # "NEW" \/ w.owner # u
        PROVE  OwnCarts(u)' \subseteq OwnCarts(u)
    BY <1>p, <1>t DEF OwnCarts, Carts, Stored
  <1>m. ASSUME NEW s \in Requests, ~Begins(s), req'[s] # Idle
        PROVE  /\ req[s] # Idle /\ req[s].was = req'[s].was /\ req[s].order = req'[s].order
               /\ req[s].op = "create" <=> req'[s].op = "create"
    BY <1>m, Moved
  <1>1. ASSUME NEW o, Guests(o) PROVE Single(u)'
    <2>1. PICK w \in Posted : row' = [row EXCEPT ![o] = w]
      BY <1>1 DEF Guests
    <2>2. OwnCarts(u)' \subseteq OwnCarts(u)
      BY <2>1, <1>p, PostedRow
    <2>3. req' = req
      BY <1>1 DEF Guests
    <2> QED BY <2>2, <2>3, <1>u, SingleStays
  <1>2. ASSUME NEW r \in Requests, Asks(r) \/ Fail(r) PROVE Single(u)'
    <2>1. row' = row
      BY <1>2 DEF Asks, Fail
    <2>2. OwnCarts(u)' \subseteq OwnCarts(u)
      BY <2>1, <1>t DEF OwnCarts, Carts, Stored
    <2>3. \A s \in Requests : ~Begins(s) \/ req'[s] = req[s]
      BY <1>2, <1>t DEF Begins, Begin, Asks, Fail
    <2> QED BY <2>2, <2>3, <1>m, <1>u, SingleStays
  <1>3. ASSUME NEW r \in Requests, Begins(r) PROVE Single(u)'
    <2>1. /\ row' = row /\ overridden' = overridden /\ req[r] = Idle
          /\ \A s \in Requests \ {r} : req'[s] = req[s]
      BY <1>3, Begun
    <2>2. OwnCarts(u)' = OwnCarts(u) /\ OwnCarts(u) \subseteq Carts(u)
      BY <2>1 DEF OwnCarts, Carts, Stored
    <2>3. CASE req'[r].was.owner # u
      BY <2>1, <2>2, <2>3, <1>u, SingleStays
    <2>4. CASE req'[r].was.owner = u
      <3>1. \A s \in Requests \ {r} : req'[s] # Idle => req'[s].was.owner # u
        <4>1. \A s \in Requests : req[s] # Idle /\ req[s].was.owner = u => u \in overlapped'
          BY <2>4, <1>3, Begun
        <4> QED BY <4>1, <2>1
      <3>2. CASE req'[r].op = "create"
        <4>1. PICK v \in Users : Carts(v) = {} /\ req'[r].was = NewCart(v)
          BY <1>3, <3>2, Begun
        <4>2. v = u
          BY <4>1, <2>4 DEF NewCart
        <4>3. OwnCarts(u)' = {}
          BY <4>1, <4>2, <2>2
        <4> QED BY <3>1, <3>2, <4>3 DEF Single
      <3>3. CASE req'[r].op # "create"
        <4>1. req'[r].order \in Stored /\ req'[r].was = row[req'[r].order]
          BY <1>3, <3>3, Begun
        <4>2. \A a, b \in OwnCarts(u)' : a = b
          BY <2>2, <1>u DEF Single
        <4>3. req'[r].was.status = "NEW" /\ req'[r].order \notin overridden'
                => req'[r].order \in OwnCarts(u)'
          BY <4>1, <2>1, <2>2, <2>4 DEF OwnCarts, Carts
        <4> QED BY <3>1, <3>3, <4>2, <4>3 DEF Single
      <3> QED BY <3>2, <3>3
    <2> QED BY <2>3, <2>4
  <1>4. ASSUME NEW r \in Requests, NEW x, NEW w, Bills(r, x, w) PROVE Single(u)'
    <2>1. OwnCarts(u)' \subseteq OwnCarts(u)
      BY <1>4, <1>p, PostedRow DEF Bills, Writes
    <2>2. \A s \in Requests : ~Begins(s) \/ req'[s] = req[s]
      BY <1>4, <1>t DEF Begins, Begin, Bills, Writes
    <2> QED BY <2>1, <2>2, <1>m, <1>u, SingleStays
  <1>5. ASSUME NEW r \in Requests, NEW x, NEW w, Ends(r, x, w) PROVE Single(u)'
    <2>1. /\ req[r] # Idle /\ x \in Orders /\ w.owner = req[r].was.owner
          /\ row' = [row EXCEPT ![x] = w] /\ req' = [req EXCEPT ![r] = Idle]
          /\ w.status = "NEW" => req[r].was.status = "NEW" \/ x \in overridden'
          /\ req[r].op # "create" => x = req[r].order
      BY <1>5 DEF Ends, Writes
    <2>r. \A s \in Requests : req'[s] # Idle => s # r /\ req'[s] = req[s]
      BY <2>1, <1>t
    <2>2. CASE w.status # "NEW" \/ w.owner # u
      BY <2>1, <2>2, <2>r, <1>p, <1>u, SingleStays
    <2>3. CASE w.status = "NEW" /\ w.owner = u
      <3>1. \A s \in Requests : req'[s] # Idle => req'[s].was.owner # u
        BY <2>1, <2>3, <2>r, <1>u DEF Single
      <3>2. OwnCarts(u)' \subseteq OwnCarts(u) \cup {x}
        BY <2>1, <1>t DEF OwnCarts, Carts, Stored
      <3>3. CASE x \in overridden'
        <4>1. OwnCarts(u)' \subseteq OwnCarts(u)
          BY <3>2, <3>3 DEF OwnCarts
        <4> QED BY <4>1, <3>1, <1>u, SingleStays
      <3>4. CASE x \notin overridden'
        <4>1. OwnCarts(u) \subseteq {x}
          <5>1. CASE req[r].op = "create"
            BY <5>1, <2>1, <2>3, <1>u DEF Single
          <5>2. CASE req[r].op # "create"
            <6>1. req[r].was.status = "NEW" /\ req[r].order \notin overridden
              BY <5>2, <2>1, <2>3, <3>4, <1>t
            <6> QED BY <6>1, <5>2, <2>1, <2>3, <1>u DEF Single
          <5> QED BY <5>1, <5>2
        <4>2. \A a, b \in OwnCarts(u)' : a = b
          BY <4>1, <3>2
        <4> QED BY <3>1, <4>2 DEF Single
      <3> QED BY <3>3, <3>4
    <2> QED BY <2>2, <2>3
  <1> QED BY <1>1, <1>2, <1>3, <1>4, <1>5, Steps DEF CInv

LEMMA CInvNext == CInv /\ [Next]_vars => CInv'
  <1>1. ASSUME CInv, Next PROVE CInv'
    <2>1. IInv'
      BY <1>1, InvNext DEF CInv
    <2> QED BY <1>1, <2>1, UnpaidNext, SingleNext DEF CInv
  <1>2. ASSUME CInv, UNCHANGED vars PROVE CInv'
    <2>1. IInv'
      BY <1>2, InvNext DEF CInv
    <2>2. /\ \A u : OwnCarts(u)' = OwnCarts(u)
          /\ Stored' = Stored
          /\ UNCHANGED <<row, req, overlapped, overridden, left>>
      BY <1>2 DEF vars, OwnCarts, Carts, Stored
    <2>3. \A u : Single(u)' = Single(u)
      BY <2>2 DEF Single
    <2>4. Unpaid'
      BY <1>2, <2>2 DEF CInv, Unpaid, Clean, BilledIn
    <2> QED BY <1>2, <2>1, <2>2, <2>3, <2>4 DEF CInv
  <1> QED BY <1>1, <1>2

\* For any users, orders and requests, and whatever clients post, a user comes to two
\* carts only by two requests that overlap or by an administrator who makes an order a
\* cart again (EcommerceService.GetOrCreateShoppingOrder).
THEOREM CartsAlone == Spec => []OneCartAlone
  <1>1. CInv => OneCartAlone
    BY DEF CInv, Single, OwnCarts, OneCartAlone
  <1> QED BY <1>1, CInvInit, CInvNext, PTL DEF Spec

\* For any users, orders and requests, and whatever payment and owner clients post, a
\* payment of a user's order stays only where his checkout failed half way, he has
\* overlapped, or a guest checkout has saved the order (EcommerceService.Checkout).
THEOREM PaymentsExplained == Spec => []PaidOnlyIfBroken
  <1>1. CInv => PaidOnlyIfBroken
    BY DEF CInv, Unpaid, Clean, BilledIn, PaidOnlyIfBroken
  <1> QED BY <1>1, CInvInit, CInvNext, PTL DEF Spec
=============================================================================
