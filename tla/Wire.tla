--------------------------------- MODULE Wire ---------------------------------
(***************************************************************************)
(* What one session's data go through: products from the database server,  *)
(* through the pipe, the forked server and the connection, to the client;  *)
(* its order all the way back, into the text of a query; and the sub-order *)
(* that comes instead of a receipt.                                        *)
(*                                                                         *)
(* Each message is serialised, cut into pieces by the streams (Framing),   *)
(* and read back (OrderData).  Message codes, and other sessions, are in   *)
(* Shop.                                                                   *)
(***************************************************************************)
EXTENDS Framing, Query

CONSTANTS Catalogue,  \* the products in the database, in the order of the SELECT
          DeliveryAddresses,  \* what customers type
          Stocks,     \* what get_stock may return, -1 if its query fails
          MaxTries    \* bound: how often an order is submitted

ASSUME WireAssumption ==
  /\ Links = {"fromDb", "down", "up", "toDb"}
  /\ Catalogue \in Seq(Product)
  /\ \A i \in 1 .. Len(Catalogue) : ToFloat(Catalogue[i].price) = Catalogue[i].price
  /\ DeliveryAddresses \subseteq Seq(Character) /\ NULL \notin DeliveryAddresses
  /\ Stocks \subseteq Int
  /\ MaxTries \in Nat

VARIABLES
  listed,          \* products that the database server has sent
  serverProducts,  \* the array in the forked server
  served,          \* products that it has sent
  products,        \* the array in the client
  cpc,             \* where the client is: "list", "shop", "wait", "over"
  order,           \* its order
  tries,
  verified,        \* the order as the database server last had it
  stored           \* the order in the tables

clientVars == <<products, cpc, order, tries>>
serverVars == <<serverProducts, served>>
dbVars == <<listed, verified, stored>>
vars == <<linkVars, clientVars, serverVars, dbVars>>

N == Len(Catalogue)

-----------------------------------------------------------------------------
(* The list of products.                                                   *)

\* send_products
DbSendProduct ==
  /\ listed < N
  /\ Send("fromDb", productSerialize(Catalogue[listed + 1]))
  /\ listed' = listed + 1
  /\ UNCHANGED <<pipe, in, got, clientVars, serverVars, verified, stored>>

\* getProducts
ReadProduct ==
  /\ Len(serverProducts) < N
  /\ Take("fromDb")
  /\ serverProducts' = Append(serverProducts, productUnserialize(Message("fromDb")))
  /\ UNCHANGED <<out, pipe, served, clientVars, dbVars>>

\* sendProducts
SendProduct ==
  /\ Len(serverProducts) = N /\ served < N
  /\ Send("down", productSerialize(serverProducts[served + 1]))
  /\ served' = served + 1
  /\ UNCHANGED <<pipe, in, got, serverProducts, clientVars, dbVars>>

\* requestProducts
ReceiveProduct ==
  /\ cpc = "list"
  /\ Take("down")
  /\ products' = Append(products, productUnserialize(Message("down")))
  /\ cpc' = IF Len(products') = N THEN "shop" ELSE "list"
  /\ UNCHANGED <<out, pipe, order, tries, serverVars, dbVars>>

-----------------------------------------------------------------------------
(* The order.                                                              *)

AddToOrder(i, num) ==
  LET p == products[i]
  IN  /\ cpc = "shop" /\ num <= p.stock
      /\ ~ Full(order, p.id)
      /\ order' = orderAdd(order, p.id, num, p.price)
      /\ products' = [products EXCEPT ![i] = productSetStock(p, p.stock - num)]
      /\ UNCHANGED <<linkVars, cpc, tries, serverVars, dbVars>>

SubmitOrder(address) ==
  /\ cpc = "shop" /\ order.items # <<>> /\ tries < MaxTries
  /\ order' = orderSetAddress(order, address)
  /\ Send("up", orderSerialize(order'))
  /\ tries' = tries + 1
  /\ cpc' = "wait"
  /\ UNCHANGED <<pipe, in, got, products, serverVars, dbVars>>

\* processOrder passes on bytes, both ways.
Forward(from, to) ==
  /\ Take(from)
  /\ Send(to, Message(from))
  /\ UNCHANGED <<pipe, clientVars, serverVars, dbVars>>

ForwardOrder == Forward("up", "toDb")
ForwardSubOrder == served = N /\ Forward("fromDb", "down")

\* Mutant of PlaceOrder: what is sent back is the order that came.
PlaceOrderUncut(stock) ==
  LET o == orderUnserialize(Message("toDb"))
      Enough(e) == e.quantity <= stock[e.product_id]
      CutDown(e) == IF Enough(e) THEN e ELSE [e EXCEPT !.quantity = stock[e.product_id]]
  IN  /\ Take("toDb")
      /\ \/ /\ \A i \in 1 .. Len(o.items) : Enough(o.items[i])
            /\ verified' = o /\ stored' = o
            /\ UNCHANGED out
         \/ /\ \E i \in 1 .. Len(o.items) : ~ Enough(o.items[i])
            /\ verified' = [o EXCEPT !.items = [i \in 1 .. Len(o.items) |-> CutDown(o.items[i])]]
            /\ Send("fromDb", orderSerialize(o))
            /\ UNCHANGED stored
      /\ UNCHANGED <<pipe, listed, clientVars, serverVars>>

\* place_order: every quantity beyond the stock is replaced by it.
PlaceOrder(stock) ==
  LET o == orderUnserialize(Message("toDb"))
      Enough(e) == e.quantity <= stock[e.product_id]
      CutDown(e) == IF Enough(e) THEN e ELSE [e EXCEPT !.quantity = stock[e.product_id]]
  IN  /\ Take("toDb")
      /\ \/ /\ \A i \in 1 .. Len(o.items) : Enough(o.items[i])
            /\ verified' = o /\ stored' = o
            /\ UNCHANGED out
         \/ /\ \E i \in 1 .. Len(o.items) : ~ Enough(o.items[i])
            /\ verified' = [o EXCEPT !.items = [i \in 1 .. Len(o.items) |-> CutDown(o.items[i])]]
            /\ Send("fromDb", orderSerialize(verified'))
            /\ UNCHANGED stored
      /\ UNCHANGED <<pipe, listed, clientVars, serverVars>>

ReceiveSubOrder ==
  /\ cpc = "wait"
  /\ Take("down")
  /\ order' = orderUnserialize(Message("down"))
  /\ cpc' = "shop"
  /\ UNCHANGED <<out, pipe, products, tries, serverVars, dbVars>>

\* The client ends, whatever it is doing.
Kill ==
  /\ cpc # "over"
  /\ cpc' = "over"
  /\ Break("up")
  /\ UNCHANGED <<pipe, in, got, products, order, tries, serverVars, dbVars>>

-----------------------------------------------------------------------------
Init ==
  /\ FramingInit
  /\ listed = 0 /\ serverProducts = <<>> /\ served = 0
  /\ products = <<>> /\ cpc = "list"
  /\ order = orderNew /\ tries = 0
  /\ verified = NULL /\ stored = NULL

Transfer(l) == (Write(l) \/ Read(l)) /\ UNCHANGED <<clientVars, serverVars, dbVars>>

Place == \E stock \in [{Catalogue[i].id : i \in 1 .. N} -> Stocks] : PlaceOrder(stock)

Next ==
  \/ DbSendProduct \/ ReadProduct \/ SendProduct \/ ReceiveProduct
  \/ \E i \in 1 .. N : \E num \in 1 .. Catalogue[i].stock : AddToOrder(i, num)
  \/ \E address \in DeliveryAddresses : SubmitOrder(address)
  \/ ForwardOrder \/ Place \/ ForwardSubOrder \/ ReceiveSubOrder
  \/ Kill
  \/ \E l \in Links : Transfer(l)

Spec == Init /\ [][Next]_vars

\* Every process that has something to do does it; customers need not.
FairSpec ==
  /\ Spec
  /\ \A l \in Links : WF_vars(Write(l) /\ Transfer(l)) /\ WF_vars(Read(l) /\ Transfer(l))
  /\ WF_vars(DbSendProduct \/ Place)
  /\ WF_vars(ReadProduct \/ SendProduct \/ ForwardOrder \/ ForwardSubOrder)
  /\ WF_vars(ReceiveProduct \/ ReceiveSubOrder)

-----------------------------------------------------------------------------
(* Properties.                                                             *)

\* Whatever pieces write() and read() make of them, what conn_receive returns
\* (comm.h) is the messages given to conn_send, whole and in order.
LinksAreChannels == Abstract!Spec

\* The products that the client lists are those of the database, although the
\* forked server takes them apart and puts them together again.
ProductsArrive == cpc = "list" => products = SubSeq(Catalogue, 1, Len(products))

\* The order in the tables is the one the customer submitted, whether the client
\* is still there or not.
OrderArrives == stored # NULL => stored = order

\* The order that replaces the client's is the one place_order has cut down.
SubOrderArrives == [][cpc = "wait" /\ cpc' = "shop" => order' = verified]_vars

\* No product is in an order twice, and there is room in items for all of them, on
\* both sides: orderUnserialize does not check (order.c:145).
EntriesOnce ==
  \A o \in {order, verified} \ {NULL} :
    /\ Len(o.items) <= ORDER_MAX_SIZE
    /\ \A i, j \in 1 .. Len(o.items) : o.items[i].product_id = o.items[j].product_id => i = j

\* The queries of store_verified_order are what their pieces say, except when the
\* total, as float arithmetic has it, is rounded to one more digit before the point,
\* or is above -1 and negative.  Nothing is said of totals that no int can hold.
WholeQuery(pieces) == QueryOf(pieces) = FlattenSeq([i \in 1 .. Len(pieces) |-> pieces[i].text])
Power[n \in Nat] == IF n = 0 THEN 1 ELSE 10 * Power[n - 1]
OneMoreDigit(t) ==
  \E n \in 1 .. Digits(t \div Scale) :
    t < Power[n] * Scale /\ 200 * t + Scale >= 200 * (Power[n] * Scale)
MinusZero(t) == t < 0 /\ t > - Scale
QueriesWhole ==
  stored # NULL =>
    LET t == orderGetTotal(stored)
    IN  /\ InInt(t) =>
             (WholeQuery(InsertOrder(stored)) <=> ~ OneMoreDigit(Abs(t)) /\ ~ MinusZero(t))
        /\ \A i \in 1 .. Len(stored.items) : WholeQuery(InsertEntry(1, stored.items[i]))

\* As long as the client is there, its products come, and its order is stored or
\* comes back.
DataGetThrough ==
  /\ cpc = "list" ~> cpc # "list"
  /\ cpc = "wait" ~> cpc # "wait" \/ stored # NULL
==============================================================================
