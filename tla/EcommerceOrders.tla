-------------------------- MODULE EcommerceOrders --------------------------
(***************************************************************************)
(* Carts, orders and payments: EcommerceService and OrderService of        *)
(* src/services/core/ecommerces/mix.services.ecommerce.lib.  Every         *)
(* operation reads an order, waits for something, and saves the order it   *)
(* has read as a whole.  What the operations of one request save becomes   *)
(* visible together when the unit of work of the request is completed, and *)
(* not at all when it fails; nothing looks whether the row has changed     *)
(* since it was read.                                                      *)
(*                                                                         *)
(* Of an order the model keeps the owner (none is a guest), the two states *)
(* and whether a payment gateway is set.  The items of a cart, mails and   *)
(* the tracking rows, which nothing reads back, are left out; and so are   *)
(* requests that change nothing.                                           *)
(***************************************************************************)

CONSTANTS Users,         \* who is signed in
          Guest,         \* the owner of the orders of guests
          Orders,        \* bound: the ids of the orders that can be made
          Requests,      \* bound: how many requests are worked on at a time
          Verdicts,      \* what ProcessPaymentResponse of a gateway can return
          Payments,      \* what clients post as the payment status of an order
          AdminStatuses, \* what an administrator sets the status of an order to
          None

Statuses == {"NEW", "WAITING_FOR_PAYMENT", "CANCELED", "PAID", "SHIPPING", "SUCCESS",
             "PAYMENT_FAILED", "SHIPPING_FAILED"}
PaymentStatuses == {"Sent", "Pending", "Success", "Failed", "InvalidResponse"}

\* The row of an order, which is also the view model of it that requests work on.
Row == [owner : Users \cup {Guest}, status : Statuses, pay : PaymentStatuses,
        gateway : BOOLEAN]

ASSUME OrdersAssumption ==
    /\ Guest \notin Users
    /\ Verdicts \subseteq PaymentStatuses /\ Payments \subseteq PaymentStatuses
    /\ AdminStatuses \subseteq Statuses
    /\ None \notin Orders \cup Row

VARIABLES row,        \* row[o]: what the database holds of the order o, or None
          req,        \* req[r]: what the request r has read, and where it is
          overlapped, \* history: users with two requests, or two on their order, at a time
          overridden, \* history: orders whose status an administrator has set
          left        \* history: orders in which what a client posted was left

vars == <<row, req, overlapped, overridden, left>>
history == <<overlapped, overridden, left>>

Idle == [op |-> "idle"]
RequestsFor(ops, orders, to) == [op : ops, order : orders, was : Row, to : to]
Request ==
    RequestsFor({"create"}, {None}, {"NEW"})
      \cup RequestsFor({"edit", "checkout", "billed", "status", "cancel"}, Orders, Statuses)
      \cup RequestsFor({"answer", "answered"}, Orders, PaymentStatuses)

TypeOK ==
    /\ row \in [Orders -> Row \cup {None}]
    /\ req \in [Requests -> Request \cup {Idle}]
    /\ overlapped \subseteq Users
    /\ overridden \subseteq Orders /\ left \subseteq Orders

Init ==
    /\ row = [o \in Orders |-> None]
    /\ req = [r \in Requests |-> Idle]
    /\ overlapped = {} /\ overridden = {} /\ left = {}

-----------------------------------------------------------------------------

Stored == {o \in Orders : row[o] # None}

\* GetShoppingOrder: the order of the user in state NEW.
Carts(u) == {o \in Stored : row[o].owner = u /\ row[o].status = "NEW"}

NewCart(u) == [owner |-> u, status |-> "NEW", pay |-> "Sent", gateway |-> FALSE]

\* The order a client posts to be checked out.  Its status and gateway are set; its
\* owner and payment, which the client may have left out or read at any time, stay.
Posted ==
    {[owner |-> u, status |-> "WAITING_FOR_PAYMENT", pay |-> p, gateway |-> TRUE] :
       u \in Users \cup {Guest}, p \in Payments}

\* A request has read the order o as w and goes on.
Begin(r, op, o, w, to) ==
    /\ req[r] = Idle
    /\ req' = [req EXCEPT ![r] = [op |-> op, order |-> o, was |-> w, to |-> to]]
    /\ overlapped' = IF \E s \in Requests :
                         /\ req[s] # Idle
                         /\ req[s].was.owner = w.owner \/ (o \in Orders /\ req[s].order = o)
                   THEN overlapped \cup ({w.owner} \cap Users) ELSE overlapped
    /\ UNCHANGED <<row, overridden, left>>

Goto(r, op, to) == req' = [req EXCEPT ![r] = [@ EXCEPT !.op = op, !.to = to]]

\* The unit of work of the request is completed: the row is now the view model w.
Commit(r, o, w) ==
    /\ row' = [row EXCEPT ![o] = w]
    /\ req' = [req EXCEPT ![r] = Idle]

-----------------------------------------------------------------------------
(* The cart.                                                               *)

\* AddToCart, UpdateSelectedCartItem and RemoveFromCart read the cart, change an
\* item of it and save the cart.
EditCart(r, u) == \E o \in Carts(u) : Begin(r, "edit", o, row[o], "NEW")

\* GetOrCreateShoppingOrder of a user without a cart.  (CreateAnyway is a mistake:
\* nobody looks for one.)
CreateAnyway(r, u) == Begin(r, "create", None, NewCart(u), "NEW")
CreateCart(r, u) ==
    /\ Carts(u) = {}
    /\ Begin(r, "create", None, NewCart(u), "NEW")

SaveCart(r) ==
    /\ req[r].op = "edit"
    /\ Commit(r, req[r].order, req[r].was)
    /\ UNCHANGED history

SaveNewCart(r) ==
    /\ req[r].op = "create"
    /\ \E o \in Orders \ Stored : Commit(r, o, req[r].was)
    /\ UNCHANGED history

-----------------------------------------------------------------------------
(* The checkout.                                                           *)

BeginCheckout(r, u) == \E o \in Carts(u) : Begin(r, "checkout", o, row[o], "NEW")

\* The checkout cart is what the client has posted, with the id of its cart.  It is
\* in no unit of work, so that its save does not wait for the end of the request.
SaveCheckoutCart(r) ==
    /\ req[r].op = "checkout"
    /\ \E w \in Posted : row' = [row EXCEPT ![req[r].order] = w]
    /\ Goto(r, "billed", "NEW")
    /\ UNCHANGED history

\* GetPaymentUrl has answered: the cart read at the start is saved.
\* (KeepCheckoutCart is what one expects instead: the checkout cart stays.)
KeepCheckoutCart(r) ==
    /\ req[r].op = "billed"
    /\ req' = [req EXCEPT ![r] = Idle]
    /\ UNCHANGED <<row, history>>
FinishCheckout(r) ==
    /\ req[r].op = "billed"
    /\ Commit(r, req[r].order, req[r].was)
    /\ UNCHANGED history

\* CheckoutGuest saves what is posted as a new order, or, if it has the id of one,
\* in its place.  It reads nothing, and its save is seen at the end of the request only.
CheckoutGuest(o) ==
    /\ \E w \in Posted : row' = [row EXCEPT ![o] = w]
    /\ left' = left \cup {o}
    /\ UNCHANGED <<req, overlapped, overridden>>

-----------------------------------------------------------------------------
(* The answer of the payment gateway.                                      *)

Final == {"Success", "Failed"}

\* ProcessPaymentResponse: an order without a gateway throws.  The gateway is asked
\* unless the order has a final verdict.  (AskAlways is a mistake: it always is.)
AskAlways(r, o) ==
    /\ o \in Stored /\ row[o].gateway
    /\ Begin(r, "answer", o, row[o], row[o].pay)
BeginAnswer(r, o) ==
    /\ o \in Stored /\ row[o].gateway
    /\ Begin(r, IF row[o].pay \in Final THEN "answered" ELSE "answer", o, row[o], row[o].pay)

AskGateway(r) ==
    /\ req[r].op = "answer"
    /\ \E v \in Verdicts : Goto(r, "answered", v)
    /\ UNCHANGED <<row, history>>

\* Success makes the order a paid one, whatever state it was in.
SaveAnswer(r) ==
    LET q == req[r] IN
    /\ q.op = "answered"
    /\ Commit(r, q.order, [q.was EXCEPT !.pay = q.to,
                                        !.status = IF q.to = "Success" THEN "PAID" ELSE @])
    /\ UNCHANGED history

-----------------------------------------------------------------------------
(* The state of the order.                                                 *)

\* UpdateOrderStatus: only shipping has a condition.  (ShipAnyway is a mistake.)
ShipAnyway(r, o, s) ==
    /\ o \in Stored
    /\ Begin(r, "status", o, row[o], s)
BeginStatus(r, o, s) ==
    /\ o \in Stored
    /\ s = "SHIPPING" => row[o].pay = "Success"
    /\ Begin(r, "status", o, row[o], s)

\* CancelOrder: an order of the user that is not paid.
BeginCancel(r, u, o) ==
    /\ o \in Stored /\ row[o].owner = u
    /\ row[o].pay # "Success"
    /\ Begin(r, "cancel", o, row[o], "CANCELED")

SaveStatus(r) ==
    LET q == req[r] IN
    /\ q.op \in {"status", "cancel"}
    /\ Commit(r, q.order, [q.was EXCEPT !.status = q.to])
    /\ overridden' = IF q.op = "status" THEN overridden \cup {q.order} ELSE overridden
    /\ UNCHANGED <<overlapped, left>>

-----------------------------------------------------------------------------

\* A request that throws, at the gateway or at the database, or is answered with an
\* error is rolled back; but not the checkout cart it has saved.
Fail(r) ==
    /\ req[r] # Idle
    /\ req' = [req EXCEPT ![r] = Idle]
    /\ left' = IF req[r].op = "billed" THEN left \cup {req[r].order} ELSE left
    /\ UNCHANGED <<row, overlapped, overridden>>

Save(r) ==
    \/ SaveCart(r) \/ SaveNewCart(r) \/ SaveCheckoutCart(r) \/ FinishCheckout(r)
    \/ AskGateway(r) \/ SaveAnswer(r) \/ SaveStatus(r)
    \/ Fail(r)

Next ==
    \/ \E o \in Orders : CheckoutGuest(o)
    \/ \E r \in Requests :
         \/ Save(r)
         \/ \E u \in Users :
              \/ EditCart(r, u) \/ CreateCart(r, u) \/ BeginCheckout(r, u)
              \/ \E o \in Orders : BeginCancel(r, u, o)
         \/ \E o \in Orders :
              \/ BeginAnswer(r, o)
              \/ \E s \in AdminStatuses : BeginStatus(r, o, s)

Spec == Init /\ [][Next]_vars

-----------------------------------------------------------------------------

\* However requests overlap, an order that is shipped has been paid for, and a paid
\* order is canceled by an administrator only: the two states of a row come from
\* one request, which has read and saved them together.
RowsAreWhole ==
    \A o \in Stored :
       /\ row[o].status = "SHIPPING" => row[o].pay = "Success"
       /\ row[o].status = "CANCELED" /\ row[o].pay = "Success" => o \in overridden

\* A user has one cart, unless two requests on his orders have overlapped or an
\* administrator has made one of them a cart again; whatever is posted.
OneCartAlone ==
    \A u \in Users : \A a, b \in Carts(u) :
       a = b \/ u \in overlapped \/ {a, b} \cap overridden # {}

\* A user's order never has a payment that stays, unless its checkout failed half
\* way, it overlapped with another request, or a guest checkout has saved the order:
\* at its end Checkout saves the cart it read at the start, which has no gateway,
\* over what was posted and over what the gateway has answered.
PaidOnlyIfBroken ==
    \A o \in Stored : row[o].owner \in Users /\ row[o].pay # "Sent" =>
       \/ o \in left \/ row[o].owner \in overlapped
       \/ \E r \in Requests : req[r].op = "billed" /\ req[r].order = o

\* A final verdict of the gateway stands, whatever answers follow.  It is lost only
\* if a request saves the order as it read it before the verdict, or if what a client
\* posts is saved in its place: by the checkout of a paid order that an administrator
\* has made a cart again, or by a guest checkout, which needs not have read anything.
VerdictStands ==
    [][ \A o \in Orders :
          o \in Stored /\ row[o].pay \in Final /\ row'[o].pay # row[o].pay =>
             \/ CheckoutGuest(o)
             \/ \E r \in Requests :
                  /\ req[r] # Idle /\ req'[r] # req[r]
                  /\ req[r].order = o
                  /\ req[r].was.pay # row[o].pay \/ req[r].op = "checkout" ]_vars
=============================================================================
