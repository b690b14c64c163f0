------------------------- MODULE DatabaseProperties --------------------------
(***************************************************************************)
(* What the database server of Database guarantees, alone and while        *)
(* somebody works on the same file from the command line.                  *)
(***************************************************************************)
EXTENDS Database

\* Every variable keeps its type; in particular the stock never goes below zero,
\* which with two processes writing only the CHECK of the products table
\* (databaseServer.c:290) ensures.
TypeOK ==
  /\ stock \in [Products -> 0 .. MaxStock]
  /\ sold \in [Products -> Int]
  /\ placed \in [Addresses -> 0 .. MaxRequests]
  /\ pc \in Places
  /\ order.address \in Addresses /\ order.items \in Items
  /\ todo \subseteq DOMAIN order.items
  /\ satisfied \in BOOLEAN
  /\ counted \in 0 .. Cardinality(Products)
  /\ rows \subseteq Products
  /\ cliLock \in Locks
  /\ requests \in 0 .. MaxRequests /\ edits \in 0 .. MaxEdits
  /\ Len(toDb) <= 2 /\ Len(fromDb) <= 2

-----------------------------------------------------------------------------
(* With other processes locking the file.                                  *)

\* store_verified_order and update_stock are called with a verified order, one
\* for whose remaining entries there is enough stock (databaseServer.c:141-145
\* and 198-204).
VerifiedHasStock ==
  pc \in {"insertOrder", "insertEntry", "updateStock"} =>
    \A p \in todo : order.items[p] <= stock[p]

\* The request being answered shows in the tables when its answer is written.
Writing     == pc \in {"insertEntry", "updateStock"}
ListedNow   == CASE pc = "insertEntry" -> DOMAIN order.items \ todo
                 [] pc = "updateStock" -> DOMAIN order.items
                 [] OTHER              -> {}
TakenNow    == IF pc = "updateStock" THEN DOMAIN order.items \ todo ELSE {}
StockBefore == [p \in Products |->
                  stock[p] + (IF p \in TakenNow THEN Taken(order.items[p]) ELSE 0)]
SoldBefore  == [p \in Products |->
                  sold[p] - (IF p \in ListedNow THEN order.items[p] ELSE 0)]
PlacedBefore == [a \in Addresses |->
                   IF Writing /\ a = order.address THEN placed[a] - 1 ELSE placed[a]]

Desk == INSTANCE OrderDesk
          WITH stock <- StockBefore, sold <- SoldBefore, placed <- PlacedBefore

\* Statement by statement, the server is the order desk that answers each
\* request in one step: also when statements fail halfway through, it leaves
\* nothing that OrderDesk does not allow, and it says so.
ImplementsOrderDesk == Desk!DeskSpec

\* A request other than MESSAGE_CLOSE is answered: every path through
\* send_products and place_order ends in a write, the failing ones included.
EveryRequestAnswered ==
  (pc = "select" /\ toDb # <<>> /\ Head(toDb).type # "MESSAGE_CLOSE")
    ~> (pc = "select" /\ fromDb # <<>>)

-----------------------------------------------------------------------------
(* With somebody changing products from the command line.                  *)

\* Nothing holds the file between verifyOrderStock and the statements that store
\* the order, so that the stock may be gone by then (VerifiedHasStock fails); but
\* only an edit takes it away.  The server's own statements never do, whatever
\* products have come and gone since.
EnoughFor(p) == order.items[p] <= stock[p]
StockGoesToEditsOnly ==
  [][\A p \in Products :
       /\ pc' \in {"insertOrder", "insertEntry", "updateStock"}
       /\ p \in todo' \cap rows' /\ ~ EnoughFor(p)'
       => \/ edits' # edits
          \/ pc \in {"insertOrder", "insertEntry", "updateStock"} /\ ~ EnoughFor(p)
          \/ pc = "verify" /\ p \notin todo /\ order.items[p] > stock[p]]_vars
==============================================================================
