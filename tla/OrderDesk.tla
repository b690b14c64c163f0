------------------------------ MODULE OrderDesk ------------------------------
(***************************************************************************)
(* What the database server promises to whoever talks to it: an order desk *)
(* that answers one request at a time, each in one indivisible step.       *)
(*                                                                         *)
(* The three tables of databaseServer.c are kept as far as the properties  *)
(* tell them apart:                                                        *)
(*   stock[p]   products.quantity of product p                             *)
(*   sold[p]    the sum of orderEntry.quantity over the rows of product p  *)
(*   placed[a]  the number of rows of orders with delivery address a       *)
(* fromDb is the pipe on which the answers leave.                          *)
(*                                                                         *)
(* An order is a function from the products it lists to quantities         *)
(* (orderAdd keeps one entry per product).  A quantity of -1 is a value    *)
(* the program itself produces: get_stock returns -1 when its query fails, *)
(* and that -1 is written into the sub-order the customer gets back.       *)
(***************************************************************************)
EXTENDS Integers, Sequences

CONSTANTS Products,      \* ids of the products table
          Addresses,     \* delivery addresses
          MaxStock,      \* the largest quantity ever in stock
          InitialStock   \* products.quantity after init()

ASSUME DeskAssumption ==
  /\ MaxStock \in Nat
  /\ InitialStock \in [Products -> 0 .. MaxStock]

VARIABLES stock, sold, placed, fromDb

tables   == <<stock, sold, placed>>
deskVars == <<stock, sold, placed, fromDb>>

Quantities == -1 .. MaxStock

\* The entries of an order.
Items == UNION {[S -> Quantities] : S \in SUBSET Products}

(***************************************************************************)
(* Messages.  A status code or command is the int of comm.h of that name;  *)
(* the others carry data that travels behind a length prefix.              *)
(***************************************************************************)
Code(name)         == [type |-> name]
ProductsMsg(shelf) == [type |-> "PRODUCTS", shelf |-> shelf]
OrderMsg(a, items) == [type |-> "ORDER", address |-> a, items |-> items]

-----------------------------------------------------------------------------
\* get_stock: the product's quantity, or -1 when the query fails.
ReadStock(p, unread) == IF p \in unread THEN -1 ELSE stock[p]

\* verifyOrderStock returns 1.
Verified(items, unread) ==
  \A p \in DOMAIN items : items[p] <= ReadStock(p, unread)

\* The order as verifyOrderStock leaves it: what is short is cut down to what
\* get_stock returned.
SubOrder(items, unread) ==
  [p \in DOMAIN items |->
     IF ReadStock(p, unread) < items[p] THEN ReadStock(p, unread) ELSE items[p]]

\* What "quantity=quantity-%i WHERE id=%i" takes from the shelf.  With a
\* negative number the text reads "quantity--1 WHERE ...": SQL starts a comment
\* at "--" and the statement sets every quantity to itself.
Taken(q) == IF q < 0 THEN 0 ELSE q

\* One row in orders, one in orderEntry for each product in listed, one UPDATE
\* of products for each product in taken.
Record(a, items, listed, taken) ==
  /\ placed' = [placed EXCEPT ![a] = @ + 1]
  /\ sold' = [p \in Products |-> IF p \in listed THEN sold[p] + items[p] ELSE sold[p]]
  /\ stock' = [p \in Products |->
                 IF p \in taken THEN stock[p] - Taken(items[p]) ELSE stock[p]]

-----------------------------------------------------------------------------
DeskInit ==
  /\ stock = InitialStock
  /\ sold = [p \in Products |-> 0]
  /\ placed = [a \in Addresses |-> 0]
  /\ fromDb = <<>>

\* CMD_GET_PRODUCTS answered with one consistent picture of the shelves.
ListProducts ==
  /\ fromDb' = Append(fromDb, ProductsMsg(stock))
  /\ UNCHANGED tables

\* CMD_GET_PRODUCTS when a query fails.
ListFails ==
  /\ fromDb' = Append(fromDb, Code("MESSAGE_ERROR"))
  /\ UNCHANGED tables

\* CMD_PLACE_ORDER answered with MESSAGE_OK.
Accept(a, items, unread) ==
  /\ Verified(items, unread)
  /\ Record(a, items, DOMAIN items, DOMAIN items)
  /\ fromDb' = Append(fromDb, Code("MESSAGE_OK"))

\* CMD_PLACE_ORDER answered with MESSAGE_UNSATISFIABLE_ORDER and the sub-order.
Refuse(a, items, unread) ==
  /\ ~Verified(items, unread)
  /\ fromDb' = fromDb \o <<Code("MESSAGE_UNSATISFIABLE_ORDER"),
                           OrderMsg(a, SubOrder(items, unread))>>
  /\ UNCHANGED tables

\* CMD_PLACE_ORDER answered with MESSAGE_ERROR: one of the statements failed
\* and those before it stay, because there is no transaction around them.
Fail(a, items, unread) ==
  /\ Verified(items, unread)
  /\ fromDb' = Append(fromDb, Code("MESSAGE_ERROR"))
  /\ \/ UNCHANGED tables
     \/ \E listed \in SUBSET DOMAIN items : Record(a, items, listed, {})
     \/ \E taken \in (SUBSET DOMAIN items) \ {DOMAIN items} :
          Record(a, items, DOMAIN items, taken)

\* The holder of the shared connection reads the next answer.
Collect ==
  /\ fromDb # <<>>
  /\ fromDb' = Tail(fromDb)
  /\ UNCHANGED tables

DeskNext ==
  \/ ListProducts \/ ListFails \/ Collect
  \/ \E a \in Addresses, items \in Items : \E unread \in SUBSET DOMAIN items :
       \/ Accept(a, items, unread)
       \/ Refuse(a, items, unread)
       \/ Fail(a, items, unread)

DeskSpec == DeskInit /\ [][DeskNext]_deskVars
==============================================================================
