--------------------------- MODULE DatabaseProofs ---------------------------
(***************************************************************************)
(* For every set of products and addresses, and however many requests: the *)
(* tables keep their types whatever is done from the command line, and the *)
(* server's own statements never use up the stock of a verified order.     *)
(* With processes that only lock the file, an order that is being stored   *)
(* has stock, and the server implements OrderDesk.                         *)
(*                                                                         *)
(* ServerInv is inductive by itself.  LockedInv adds what holds while      *)
(* nobody edits the tables; its last part remembers, during the loop of    *)
(* verifyOrderStock, which order had come in and which queries failed: the *)
(* order itself has been overwritten by then, and Refuse of OrderDesk      *)
(* speaks of the original one.                                             *)
(***************************************************************************)
EXTENDS DatabaseProperties, FiniteSetTheorems, TLAPS

-----------------------------------------------------------------------------
(* The inductive invariant, whatever the command line does.                *)

\* Order messages.
Orders == [type : {"ORDER"}, address : Addresses, items : Items]

\* A request as it arrives, and an answer as it leaves or what is left of it.
Requests ==
  {<<>>, <<Code("CMD_GET_PRODUCTS")>>, <<Code("MESSAGE_CLOSE")>>}
    \cup {<<Code("CMD_PLACE_ORDER"), o>> : o \in Orders}
Shelves == UNION {[S -> 0 .. MaxStock] : S \in SUBSET Products}
Single  == {Code("MESSAGE_OK"), Code("MESSAGE_ERROR")} \cup Orders
             \cup {ProductsMsg(shelf) : shelf \in Shelves}
Answers == {<<>>} \cup {<<m>> : m \in Single}
             \cup {<<Code("MESSAGE_UNSATISFIABLE_ORDER"), o>> : o \in Orders}

\* The variables the steps change least alike: the tables and the counters.
TablesTyped ==
  /\ stock \in [Products -> 0 .. MaxStock]
  /\ sold \in [Products -> Int]
  /\ rows \subseteq Products
  /\ cliLock \in Locks
  /\ edits \in 0 .. MaxEdits

\* The request being worked on.
WorkTyped ==
  /\ pc \in Places
  /\ order \in Orders
  /\ sub \in Orders
  /\ todo \subseteq DOMAIN order.items
  /\ satisfied \in BOOLEAN
  /\ counted \in 0 .. Cardinality(Products)

\* An order behind its command is there when it is to be read, and no request
\* is worked on before the answer to the last one has been collected.
PipesFit ==
  /\ pc = "select" => toDb \in Requests
  /\ pc = "readOrder" => toDb \in {<<o>> : o \in Orders}
  /\ pc \notin {"select", "readOrder"} => toDb = <<>>
  /\ pc # "select" \/ toDb # <<>> => fromDb = <<>>
  /\ fromDb \in Answers

\* A request is stored as one row of orders at most: the one at hand may still
\* be, those before it have been or will not.
Unstored == toDb # <<>> \/ pc \in {"readOrder", "verify", "insertOrder"}

RequestsBound ==
  /\ requests \in 0 .. MaxRequests
  /\ placed \in [Addresses -> Nat]
  /\ \A a \in Addresses : placed[a] + (IF Unstored THEN 1 ELSE 0) <= requests

ServerInv == TablesTyped /\ WorkTyped /\ PipesFit /\ RequestsBound

-----------------------------------------------------------------------------
(* What nobody else's edits take away.                                     *)

\* The command line locks the file and changes nothing.
LockersOnly == Cli \subseteq {"reserved", "exclusive"}

\* No row comes or goes.
RowsStay ==
  /\ rows = Products
  /\ pc = "rows" => counted = Cardinality(Products)

\* Every entry that has been verified, and is not yet taken from the shelf, has
\* its stock.
Stocked ==
  /\ pc = "verify" /\ satisfied => \A p \in DOMAIN order.items \ todo : EnoughFor(p)
  /\ pc = "insertOrder" => todo = DOMAIN order.items
  /\ pc \in {"insertOrder", "insertEntry"} => \A p \in DOMAIN order.items : EnoughFor(p)
  /\ pc = "updateStock" => \A p \in todo : EnoughFor(p)

\* The order came in with these entries, get_stock failed for the products in
\* unread, and the entries already visited have been cut down accordingly.
CutFrom(items, unread) ==
  /\ \A p \in todo : order.items[p] = items[p]
  /\ \A p \in DOMAIN order.items \ todo : order.items[p] = SubOrder(items, unread)[p]
  /\ satisfied <=> \A p \in DOMAIN order.items \ todo : items[p] <= ReadStock(p, unread)

Remembered ==
  pc = "verify" =>
    \E items \in [DOMAIN order.items -> Quantities] :
      \E unread \in SUBSET (DOMAIN order.items \ todo) : CutFrom(items, unread)

LockedInv == RowsStay /\ Stocked /\ Remembered

-----------------------------------------------------------------------------
(* Orders and their entries.                                               *)

\* The entries of an order are products with quantities.
LEMMA OrderParts ==
  ASSUME NEW o \in Orders
  PROVE  /\ o.type = "ORDER" /\ o.address \in Addresses /\ o.items \in Items
         /\ DOMAIN o.items \subseteq Products
         /\ o.items \in [DOMAIN o.items -> Quantities]
BY DEF Orders, Items

\* A choice of products with quantities makes an order.
LEMMA OrderOf ==
  ASSUME NEW a \in Addresses, NEW S \in SUBSET Products, NEW f \in [S -> Quantities]
  PROVE  f \in Items /\ OrderMsg(a, f) \in Orders
BY DEF Orders, OrderMsg, Items

\* The empty order, which stands for none.
LEMMA NoOrderIsOrder == NoOrder \in Orders
<1>1. (CHOOSE a \in Addresses : TRUE) \in Addresses
  BY DatabaseAssumption
<1>2. [p \in {} |-> 0] \in [{} -> Quantities]
  OBVIOUS
<1> QED BY <1>1, <1>2, OrderOf DEF NoOrder

\* Cutting an entry down to what there is leaves an order of the same products.
LEMMA CutDown ==
  ASSUME NEW o \in Orders, NEW p \in DOMAIN o.items, NEW s \in Quantities
  PROVE  /\ [o EXCEPT !.items[p] = s] \in Orders
         /\ [o EXCEPT !.items[p] = s].items = [o.items EXCEPT ![p] = s]
         /\ [o EXCEPT !.items[p] = s].address = o.address
         /\ DOMAIN [o EXCEPT !.items[p] = s].items = DOMAIN o.items
<1> DEFINE f == [o.items EXCEPT ![p] = s]
<1>1. f \in [DOMAIN o.items -> Quantities]
  BY OrderParts
<1>2. f \in Items
  BY <1>1, OrderParts, OrderOf
<1>3. [o EXCEPT !.items[p] = s] = [type |-> "ORDER", address |-> o.address, items |-> f]
  BY DEF Orders
<1> HIDE DEF f
<1>4. [o EXCEPT !.items[p] = s] \in Orders /\ [o EXCEPT !.items[p] = s].items = f
  BY <1>2, <1>3, OrderParts DEF Orders
<1> QED BY <1>1, <1>3, <1>4 DEF f

\* What get_stock returns is a quantity.
LEMMA StockRead ==
  ASSUME TablesTyped, NEW p \in Products
  PROVE  GetStock(p) \subseteq Quantities
BY DeskAssumption DEF TablesTyped, GetStock, Quantities

\* A count of rows is at most that of the products.
LEMMA RowsCounted ==
  ASSUME TablesTyped
  PROVE  Cardinality(rows) \in 0 .. Cardinality(Products)
BY DatabaseAssumption, FS_Subset, FS_CardinalityType DEF TablesTyped

\* Whoever asks writes a whole request.
LEMMA AskedWhole ==
  ASSUME WorkTyped, AskProducts \/ AskOrder \/ AskClose
  PROVE  \E ms \in Requests : ms # <<>> /\ Ask(ms)
<1>1. CASE AskProducts
  BY <1>1 DEF AskProducts, Requests
<1>2. CASE AskClose
  BY <1>2 DEF AskClose, Requests
<1>3. CASE \E a \in Addresses : \E S \in (SUBSET Products) \ {{}} : \E items \in [S -> 1 .. MaxStock] :
             Ask(<<Code("CMD_PLACE_ORDER"), OrderMsg(a, items)>>)
  <2>1. PICK a \in Addresses, S \in SUBSET Products : \E items \in [S -> 1 .. MaxStock] :
          Ask(<<Code("CMD_PLACE_ORDER"), OrderMsg(a, items)>>)
    BY <1>3
  <2>2. PICK items \in [S -> 1 .. MaxStock] :
          Ask(<<Code("CMD_PLACE_ORDER"), OrderMsg(a, items)>>)
    BY <2>1
  <2>3. items \in [S -> Quantities]
    BY <2>2, DeskAssumption DEF Quantities
  <2> QED BY <2>2, <2>3, OrderOf DEF Requests
<1>4. CASE sub # NoOrder /\ Ask(<<Code("CMD_PLACE_ORDER"), sub>>)
  BY <1>4 DEF Requests, WorkTyped
<1> QED BY <1>1, <1>2, <1>3, <1>4 DEF AskOrder

-----------------------------------------------------------------------------
(* ServerInv is inductive, part by part.                                   *)

\* The stock stays within its bounds: the CHECK refuses to go below zero.
LEMMA TablesTypedStep ==
  ASSUME TablesTyped, WorkTyped, [Next]_vars
  PROVE  TablesTyped'
<1> USE DeskAssumption, DatabaseAssumption DEF tables, deskVars, cliVars, askVars
<1>1. ASSUME NEW p \in Products, UpdateStock(p)
      PROVE  TablesTyped'
  <2>1. p \in DOMAIN order.items /\ order.items[p] \in Quantities
    BY <1>1, OrderParts DEF UpdateStock, WorkTyped
  <2>2. stock' \in [Products -> 0 .. MaxStock]
    <3>1. CASE UNCHANGED stock
      BY <3>1 DEF TablesTyped
    <3>2. CASE ~Shortage(p) /\ stock' = TakeStock(p)
      <4>1. p \in rows => stock[p] - Taken(order.items[p]) \in 0 .. MaxStock
        BY <2>1, <3>2 DEF Shortage, Taken, Quantities, TablesTyped
      <4> QED BY <3>2, <4>1 DEF TakeStock, TablesTyped
    <3> QED BY <1>1, <3>1, <3>2 DEF UpdateStock, GiveUp
  <2> QED BY <1>1, <2>2 DEF UpdateStock, GiveUp, TablesTyped
<1>2. ASSUME NEW p \in Products, InsertEntry(p)
      PROVE  TablesTyped'
  <2>1. p \in DOMAIN order.items /\ order.items[p] \in Int
    BY <1>2, OrderParts DEF InsertEntry, WorkTyped, Quantities
  <2> QED BY <1>2, <2>1 DEF InsertEntry, GiveUp, TablesTyped
<1>3. ASSUME NEW p \in Products, VerifyEntry(p)
      PROVE  TablesTyped'
  BY <1>3 DEF VerifyEntry, TablesTyped
<1>4. CASE Dispatch \/ ReadOrder
  BY <1>4 DEF Dispatch, ReadOrder, TablesTyped
<1>5. CASE CountProducts \/ SelectProducts
  BY <1>5 DEF CountProducts, SelectProducts, TablesTyped
<1>6. CASE InsertOrder
  BY <1>6 DEF InsertOrder, GiveUp, TablesTyped
<1>7. CASE AskProducts \/ AskOrder \/ AskClose
  <2>1. PICK ms \in Requests : Ask(ms)
    BY <1>7, AskedWhole
  <2> QED BY <2>1 DEF Ask, TablesTyped
<1>8. CASE ReadAnswer
  BY <1>8 DEF ReadAnswer, Collect, TablesTyped
<1>9. CASE CliBegin \/ CliCommit
  BY <1>9 DEF CliBegin, CliCommit, Others, Locks, TablesTyped
<1>10. CASE CliUpdate \/ CliInsert \/ CliDelete
  BY <1>10 DEF CliUpdate, CliInsert, CliDelete, Edit, Others, TablesTyped
<1>11. CASE UNCHANGED vars
  BY <1>11 DEF vars, TablesTyped
<1> QED BY <1>1, <1>2, <1>3, <1>4, <1>5, <1>6, <1>7, <1>8, <1>9, <1>10, <1>11
       DEF Next, ServerStep, AskerStep, CliStep

\* An order only changes as it is read, and when an entry is cut down to what
\* there is.
LEMMA WorkTypedStep ==
  ASSUME TablesTyped, WorkTyped, PipesFit, [Next]_vars
  PROVE  WorkTyped'
<1> USE DEF deskVars, cliVars, askVars
<1>1. ASSUME NEW p \in Products, VerifyEntry(p)
      PROVE  WorkTyped'
  <2>1. p \in DOMAIN order.items
    BY <1>1 DEF VerifyEntry, WorkTyped
  <2>2. PICK s \in Quantities :
          /\ satisfied' = (satisfied /\ s >= order.items[p])
          /\ order' = IF s < order.items[p] THEN [order EXCEPT !.items[p] = s] ELSE order
    BY <1>1, StockRead DEF VerifyEntry
  <2>3. order' \in Orders /\ DOMAIN order'.items = DOMAIN order.items
    BY <2>1, <2>2, CutDown DEF WorkTyped
  <2>4. satisfied' \in BOOLEAN
    BY <2>2 DEF WorkTyped
  <2>5. pc' \in Places /\ todo' \subseteq DOMAIN order.items
    BY <1>1 DEF VerifyEntry, Reply, NextEntry, Places, WorkTyped
  <2> QED BY <1>1, <2>3, <2>4, <2>5 DEF VerifyEntry, WorkTyped
<1>2. ASSUME NEW p \in Products, InsertEntry(p)
      PROVE  WorkTyped'
  BY <1>2 DEF InsertEntry, GiveUp, Reply, NextEntry, Places, WorkTyped
<1>3. ASSUME NEW p \in Products, UpdateStock(p)
      PROVE  WorkTyped'
  BY <1>3 DEF UpdateStock, GiveUp, Reply, Places, WorkTyped
<1>4. CASE Dispatch
  <2>1. pc' \in Places
    BY <1>4 DEF Dispatch, Places
  <2> QED BY <1>4, <2>1 DEF Dispatch, WorkTyped
<1>5. CASE ReadOrder
  <2>1. order' \in Orders /\ todo' = DOMAIN order'.items
    BY <1>5 DEF ReadOrder, PipesFit
  <2> QED BY <1>5, <2>1 DEF ReadOrder, Places, WorkTyped
<1>6. CASE CountProducts
  BY <1>6, RowsCounted DEF CountProducts, Reply, Places, WorkTyped
<1>7. CASE SelectProducts
  BY <1>7 DEF SelectProducts, Reply, Places, WorkTyped
<1>8. CASE InsertOrder
  BY <1>8 DEF InsertOrder, GiveUp, Reply, Places, WorkTyped
<1>9. CASE AskProducts \/ AskOrder \/ AskClose
  <2>1. PICK ms \in Requests : Ask(ms)
    BY <1>9, AskedWhole
  <2> QED BY <2>1 DEF Ask, WorkTyped
<1>10. CASE ReadAnswer
  <2>1. Head(fromDb).type = "ORDER" => Head(fromDb) \in Orders
    BY <1>10 DEF ReadAnswer, Collect, PipesFit, Answers, Single, Code, ProductsMsg
  <2> QED BY <1>10, <2>1 DEF ReadAnswer, WorkTyped
<1>11. CASE CliStep
  BY <1>11 DEF CliStep, CliBegin, CliCommit, CliUpdate, CliInsert, CliDelete, Edit, Others, WorkTyped
<1>12. CASE UNCHANGED vars
  BY <1>12 DEF vars, WorkTyped
<1> QED BY <1>1, <1>2, <1>3, <1>4, <1>5, <1>6, <1>7, <1>8, <1>9, <1>10, <1>11, <1>12
       DEF Next, ServerStep, AskerStep

\* Between two requests there is nothing in front of an answer.
LEMMA AnswerAlone ==
  ASSUME NEW ms \in Answers, fromDb = <<>>
  PROVE  fromDb \o ms = ms
BY DEF Answers

\* Writing an answer, with no request waiting, opens for the next one.
LEMMA ReplyFits ==
  ASSUME PipesFit, pc \notin {"select", "readOrder"}, NEW ms \in Answers, Reply(ms), UNCHANGED toDb
  PROVE  PipesFit' /\ fromDb = <<>> /\ toDb' = <<>> /\ fromDb' = ms
<1>1. toDb = <<>> /\ fromDb = <<>>
  BY DEF PipesFit
<1>2. pc' = "select" /\ fromDb' = ms /\ toDb' = <<>>
  BY <1>1, AnswerAlone DEF Reply
<1> QED BY <1>1, <1>2 DEF PipesFit, Requests

\* A step that neither reads a request nor answers one.
LEMMA SilentFits ==
  ASSUME PipesFit, pc \notin {"select", "readOrder"}, pc' \notin {"select", "readOrder"},
         UNCHANGED <<toDb, fromDb>>
  PROVE  PipesFit'
BY DEF PipesFit

\* At most one request and one answer are under way, and each is whole.
LEMMA PipesFitStep ==
  ASSUME TablesTyped, WorkTyped, PipesFit, [Next]_vars
  PROVE  PipesFit'
<1> USE DEF deskVars, cliVars, askVars
<1>1. <<Code("MESSAGE_OK")>> \in Answers /\ <<Code("MESSAGE_ERROR")>> \in Answers
  BY DEF Answers, Single
<1>2. ASSUME NEW p \in Products, VerifyEntry(p)
      PROVE  PipesFit'
  <2>1. p \in DOMAIN order.items /\ pc = "verify" /\ toDb' = toDb
    BY <1>2 DEF VerifyEntry, WorkTyped
  <2>2. order' \in Orders
    BY WorkTypedStep DEF WorkTyped
  <2>3. <<Code("MESSAGE_UNSATISFIABLE_ORDER"), order'>> \in Answers
    BY <2>2 DEF Answers
  <2>4. CASE todo = {p} /\ ~satisfied'
    BY <1>2, <2>1, <2>3, <2>4, ReplyFits DEF VerifyEntry
  <2>5. CASE ~(todo = {p} /\ ~satisfied')
    <3>1. pc' \in {"verify", "insertOrder"} /\ fromDb' = fromDb
      BY <1>2, <2>1, <2>5 DEF VerifyEntry, NextEntry
    <3> QED BY <2>1, <3>1, SilentFits
  <2> QED BY <2>4, <2>5
<1>3. ASSUME NEW p \in Products, InsertEntry(p)
      PROVE  PipesFit'
  <2>1. pc = "insertEntry" /\ toDb' = toDb
    BY <1>3 DEF InsertEntry
  <2>2. CASE GiveUp
    BY <1>1, <2>1, <2>2, ReplyFits DEF GiveUp
  <2>3. CASE NextEntry(p, "updateStock") /\ UNCHANGED fromDb
    BY <2>1, <2>3, SilentFits DEF NextEntry
  <2> QED BY <1>3, <2>2, <2>3 DEF InsertEntry
<1>4. ASSUME NEW p \in Products, UpdateStock(p)
      PROVE  PipesFit'
  <2>1. pc = "updateStock" /\ toDb' = toDb
    BY <1>4 DEF UpdateStock
  <2>2. CASE GiveUp
    BY <1>1, <2>1, <2>2, ReplyFits DEF GiveUp
  <2>3. CASE Reply(<<Code("MESSAGE_OK")>>)
    BY <1>1, <2>1, <2>3, ReplyFits
  <2>4. CASE UNCHANGED <<pc, fromDb>>
    BY <2>1, <2>4, SilentFits
  <2> QED BY <1>4, <2>2, <2>3, <2>4 DEF UpdateStock
<1>5. CASE Dispatch
  <2>1. toDb \in Requests /\ toDb # <<>> /\ fromDb = <<>> /\ fromDb' = fromDb
    BY <1>5 DEF Dispatch, PipesFit
  <2>2. CASE toDb \in {<<Code("CMD_GET_PRODUCTS")>>, <<Code("MESSAGE_CLOSE")>>}
    <3>1. toDb' = <<>> /\ pc' \in {"count", "stopped"}
      BY <1>5, <2>2 DEF Dispatch, Code
    <3> QED BY <2>1, <3>1 DEF PipesFit
  <2>3. CASE \E o \in Orders : toDb = <<Code("CMD_PLACE_ORDER"), o>>
    <3>1. PICK o \in Orders : toDb = <<Code("CMD_PLACE_ORDER"), o>>
      BY <2>3
    <3>2. toDb' = <<o>> /\ pc' = "readOrder"
      BY <1>5, <3>1 DEF Dispatch, Code
    <3> QED BY <2>1, <3>2 DEF PipesFit
  <2> QED BY <2>1, <2>2, <2>3 DEF Requests
<1>6. CASE ReadOrder
  <2>1. toDb' = <<>> /\ pc' = "verify" /\ fromDb' = <<>>
    BY <1>6 DEF ReadOrder, PipesFit
  <2> QED BY <2>1 DEF PipesFit, Answers
<1>7. CASE CountProducts
  <2>1. pc = "count" /\ toDb' = toDb
    BY <1>7 DEF CountProducts
  <2>2. CASE Reply(<<Code("MESSAGE_ERROR")>>)
    BY <1>1, <2>1, <2>2, ReplyFits
  <2>3. CASE pc' = "rows" /\ UNCHANGED fromDb
    BY <2>1, <2>3, SilentFits
  <2> QED BY <1>7, <2>2, <2>3 DEF CountProducts
<1>8. CASE SelectProducts
  <2>1. pc = "rows" /\ toDb' = toDb
    BY <1>8 DEF SelectProducts
  <2>2. CASE Reply(<<Code("MESSAGE_ERROR")>>)
    BY <1>1, <2>1, <2>2, ReplyFits
  <2>3. ASSUME NEW listed \in SUBSET rows, Reply(<<ProductsMsg([p \in listed |-> stock[p]])>>)
        PROVE  PipesFit'
    <3>1. [p \in listed |-> stock[p]] \in Shelves
      BY <2>3 DEF Shelves, TablesTyped
    <3>2. <<ProductsMsg([p \in listed |-> stock[p]])>> \in Answers
      BY <3>1 DEF Answers, Single
    <3> QED BY <2>1, <2>3, <3>2, ReplyFits
  <2>4. CASE pc' = "crashed" /\ UNCHANGED fromDb
    BY <2>1, <2>4, SilentFits
  <2> QED BY <1>8, <2>2, <2>3, <2>4 DEF SelectProducts
<1>9. CASE InsertOrder
  <2>1. pc = "insertOrder" /\ toDb' = toDb
    BY <1>9 DEF InsertOrder
  <2>2. CASE GiveUp
    BY <1>1, <2>1, <2>2, ReplyFits DEF GiveUp
  <2>3. CASE pc' = "insertEntry" /\ UNCHANGED fromDb
    BY <2>1, <2>3, SilentFits
  <2> QED BY <1>9, <2>2, <2>3 DEF InsertOrder
<1>10. CASE AskProducts \/ AskOrder \/ AskClose
  <2>1. PICK ms \in Requests : Ask(ms)
    BY <1>10, AskedWhole
  <2> QED BY <2>1 DEF Ask, PipesFit
<1>11. CASE ReadAnswer
  <2>1. pc = "select" /\ toDb = <<>> /\ pc' = pc /\ toDb' = toDb /\ fromDb' = Tail(fromDb)
    BY <1>11 DEF ReadAnswer, Collect, PipesFit
  <2>2. Tail(fromDb) \in Answers
    <3>1. CASE \E m \in Single : fromDb = <<m>>
      <4>1. Tail(fromDb) = <<>>
        BY <3>1
      <4> QED BY <4>1 DEF Answers
    <3>2. CASE \E o \in Orders : fromDb = <<Code("MESSAGE_UNSATISFIABLE_ORDER"), o>>
      <4>1. \E o \in Orders : Tail(fromDb) = <<o>>
        BY <3>2
      <4> QED BY <4>1 DEF Answers, Single
    <3> QED BY <1>11, <3>1, <3>2 DEF ReadAnswer, Collect, PipesFit, Answers
  <2> QED BY <2>1, <2>2 DEF PipesFit, Requests
<1>12. CASE CliStep
  BY <1>12 DEF CliStep, CliBegin, CliCommit, CliUpdate, CliInsert, CliDelete, Edit, Others, PipesFit
<1>13. CASE UNCHANGED vars
  BY <1>13 DEF vars, PipesFit
<1> QED BY <1>2, <1>3, <1>4, <1>5, <1>6, <1>7, <1>8, <1>9, <1>10, <1>11, <1>12, <1>13
       DEF Next, ServerStep, AskerStep

\* An order is stored once: what is stored, and the one that still may be, have
\* all been requested.
LEMMA RequestsBoundStep ==
  ASSUME TablesTyped, WorkTyped, PipesFit, RequestsBound, [Next]_vars
  PROVE  RequestsBound'
<1> USE DatabaseAssumption DEF deskVars, cliVars, askVars, tables
<1>1. CASE InsertOrder /\ pc' = "insertEntry" /\ placed' # placed
  <2>1. Unstored /\ ~Unstored'
    BY <1>1 DEF InsertOrder, PipesFit, Unstored
  <2>2. order.address \in Addresses /\ requests' = requests
    BY <1>1, OrderParts DEF InsertOrder, WorkTyped
  <2>3. placed' = [placed EXCEPT ![order.address] = @ + 1]
    BY <1>1 DEF InsertOrder, GiveUp
  <2>4. placed' \in [Addresses -> Nat]
    BY <2>2, <2>3 DEF RequestsBound
  <2>5. ASSUME NEW a \in Addresses
        PROVE  placed'[a] <= requests
    BY <2>1, <2>2, <2>3 DEF RequestsBound
  <2> QED BY <2>1, <2>2, <2>4, <2>5 DEF RequestsBound
<1>2. CASE UNCHANGED <<placed, requests>> /\ (Unstored' => Unstored)
  <2>1. ASSUME NEW a \in Addresses
        PROVE  placed[a] + (IF Unstored' THEN 1 ELSE 0) <= requests
    BY <1>2 DEF RequestsBound
  <2> QED BY <1>2, <2>1 DEF RequestsBound
<1>3. CASE AskProducts \/ AskOrder \/ AskClose
  <2>1. PICK ms \in Requests : ms # <<>> /\ Ask(ms)
    BY <1>3, AskedWhole
  <2>2. ~Unstored /\ Unstored' /\ placed' = placed /\ requests' = requests + 1 /\ requests < MaxRequests
    BY <2>1 DEF Ask, Unstored
  <2>3. ASSUME NEW a \in Addresses
        PROVE  placed[a] + 1 <= requests + 1
    BY <2>2 DEF RequestsBound
  <2> QED BY <2>2, <2>3 DEF RequestsBound
<1>4. ASSUME NEW p \in Products, VerifyEntry(p) \/ InsertEntry(p) \/ UpdateStock(p)
      PROVE  UNCHANGED <<placed, requests>> /\ (Unstored' => Unstored)
  BY <1>4 DEF VerifyEntry, InsertEntry, UpdateStock, GiveUp, Reply, NextEntry, Unstored
<1>5. ASSUME Dispatch \/ ReadOrder \/ CountProducts \/ SelectProducts
      PROVE  UNCHANGED <<placed, requests>> /\ (Unstored' => Unstored)
  BY <1>5 DEF Dispatch, ReadOrder, CountProducts, SelectProducts, Reply, Unstored
<1>6. ASSUME InsertOrder, ~(pc' = "insertEntry" /\ placed' # placed)
      PROVE  UNCHANGED <<placed, requests>> /\ (Unstored' => Unstored)
  BY <1>6 DEF InsertOrder, GiveUp, Reply, Unstored
<1>7. ASSUME ReadAnswer \/ CliStep \/ UNCHANGED vars
      PROVE  UNCHANGED <<placed, requests>> /\ (Unstored' => Unstored)
  BY <1>7 DEF ReadAnswer, Collect, CliStep, CliBegin, CliCommit, CliUpdate, CliInsert, CliDelete, Edit,
              Others, vars, Unstored
<1> QED BY <1>1, <1>2, <1>3, <1>4, <1>5, <1>6, <1>7 DEF Next, ServerStep, AskerStep

\* The server starts with everything in order.
LEMMA InitServerInv ==
  ASSUME Init
  PROVE  ServerInv
<1> USE DeskAssumption, DatabaseAssumption DEF Init, DeskInit
<1>1. TablesTyped
  BY DEF TablesTyped, Locks
<1>2. WorkTyped
  <2>1. order \in Orders /\ sub \in Orders
    BY NoOrderIsOrder
  <2>2. counted \in 0 .. Cardinality(Products)
    BY FS_CardinalityType
  <2> QED BY <2>1, <2>2 DEF WorkTyped, Places
<1>3. PipesFit
  BY DEF PipesFit, Requests, Answers
<1>4. RequestsBound
  BY DEF RequestsBound, Unstored
<1> QED BY <1>1, <1>2, <1>3, <1>4 DEF ServerInv

\* Every step keeps it.
LEMMA ServerInvStep ==
  ASSUME ServerInv, [Next]_vars
  PROVE  ServerInv'
BY TablesTypedStep, WorkTypedStep, PipesFitStep, RequestsBoundStep DEF ServerInv

\* ServerInv holds in every state.
LEMMA ServerInvariant == Spec => []ServerInv
<1>1. Init => ServerInv
  BY InitServerInv
<1>2. ServerInv /\ [Next]_vars => ServerInv'
  BY ServerInvStep
<1> QED BY <1>1, <1>2, PTL DEF Spec

\* A row of orders counts once for each request.
LEMMA PlacedBound ==
  ASSUME RequestsBound
  PROVE  placed \in [Addresses -> 0 .. MaxRequests]
<1>1. ASSUME NEW a \in Addresses
      PROVE  placed[a] \in 0 .. MaxRequests
  BY <1>1, DatabaseAssumption DEF RequestsBound
<1> QED BY <1>1 DEF RequestsBound

\* The tables and the request at hand keep their types, whatever the command
\* line does to the file: no statement of the server and no edit takes the stock
\* below zero, and no pipe holds more than a code with its order.
THEOREM TypeSafe == Spec => []TypeOK
<1>1. ServerInv => TypeOK
  <2> SUFFICES ASSUME ServerInv
               PROVE  TypeOK
    OBVIOUS
  <2>1. Len(toDb) <= 2
    <3>1. toDb \in Requests \/ toDb \in {<<o>> : o \in Orders} \/ toDb = <<>>
      BY DEF ServerInv, PipesFit
    <3>2. CASE \E o \in Orders : toDb = <<Code("CMD_PLACE_ORDER"), o>>
      BY <3>2
    <3>3. CASE toDb \in {<<o>> : o \in Orders} \/ toDb = <<>>
      BY <3>3
    <3>4. CASE toDb \in {<<Code("CMD_GET_PRODUCTS")>>, <<Code("MESSAGE_CLOSE")>>}
      BY <3>4
    <3> QED BY <3>1, <3>2, <3>3, <3>4 DEF Requests
  <2>2. Len(fromDb) <= 2
    <3>1. CASE fromDb = <<>> \/ \E m \in Single : fromDb = <<m>>
      BY <3>1
    <3>2. CASE \E o \in Orders : fromDb = <<Code("MESSAGE_UNSATISFIABLE_ORDER"), o>>
      BY <3>2
    <3> QED BY <3>1, <3>2 DEF ServerInv, PipesFit, Answers
  <2>3. order.address \in Addresses /\ order.items \in Items
    BY OrderParts DEF ServerInv, WorkTyped
  <2> QED BY <2>1, <2>2, <2>3, PlacedBound DEF ServerInv, TablesTyped, WorkTyped, RequestsBound, TypeOK
<1> QED BY <1>1, ServerInvariant, PTL

-----------------------------------------------------------------------------
(* The server's own statements.                                            *)

\* What an entry that has just been verified leaves in the order is in stock.
LEMMA VerifiedEnough ==
  ASSUME TablesTyped, WorkTyped, NEW p \in Products, VerifyEntry(p), satisfied'
  PROVE  /\ satisfied /\ order' = order
         /\ p \in rows => EnoughFor(p)
<1>1. p \in DOMAIN order.items /\ order.items[p] \in Quantities
  BY OrderParts DEF VerifyEntry, WorkTyped
<1>2. PICK s \in GetStock(p) :
        /\ satisfied' = (satisfied /\ s >= order.items[p])
        /\ order' = IF s < order.items[p] THEN [order EXCEPT !.items[p] = s] ELSE order
  BY DEF VerifyEntry
<1>3. s \in Quantities /\ s >= order.items[p] /\ satisfied
  BY <1>2, StockRead
<1>4. ~(s < order.items[p])
  BY <1>1, <1>3, DeskAssumption DEF Quantities
<1>5. p \in rows => order.items[p] <= stock[p]
  BY <1>1, <1>2, <1>3, DeskAssumption DEF GetStock, TablesTyped, Quantities
<1> QED BY <1>2, <1>3, <1>4, <1>5 DEF EnoughFor

\* When an order lacks stock while it is being stored, somebody has edited the
\* table just now, or it lacked it before, or the entry had lost its stock since
\* get_stock looked: no statement of the server takes it away.
THEOREM OnlyEditsTakeStock == Spec => StockGoesToEditsOnly
<1> DEFINE Storing == {"insertOrder", "insertEntry", "updateStock"}
           Short(p) == /\ pc' \in Storing
                       /\ p \in todo' \cap rows' /\ ~ EnoughFor(p)'
           Known(p) == \/ edits' # edits
                       \/ pc \in Storing /\ ~ EnoughFor(p)
                       \/ pc = "verify" /\ p \notin todo /\ order.items[p] > stock[p]
<1>1. ASSUME ServerInv, Next, NEW p \in Products, Short(p)
      PROVE  Known(p)
  <2> USE DEF deskVars, cliVars, askVars, tables
  <2>1. ASSUME NEW q \in Products, VerifyEntry(q)
        PROVE  Known(p)
    <3>1. pc = "verify" /\ todo = {q} /\ satisfied' /\ rows' = rows /\ stock' = stock
      BY <1>1, <2>1 DEF VerifyEntry, Reply, NextEntry
    <3>2. order' = order /\ (q \in rows => EnoughFor(q))
      BY <1>1, <2>1, <3>1, VerifiedEnough DEF ServerInv
    <3>3. p # q /\ ~(order.items[p] <= stock[p])
      BY <1>1, <3>1, <3>2 DEF EnoughFor
    <3>4. p \in DOMAIN order.items
      BY <1>1, <2>1, <3>2 DEF VerifyEntry, NextEntry, Reply
    <3>5. order.items[p] \in Int /\ stock[p] \in Int
      BY <1>1, <3>4, OrderParts DEF ServerInv, WorkTyped, TablesTyped, Quantities
    <3> QED BY <3>1, <3>3, <3>5
  <2>2. ASSUME NEW q \in Products, InsertEntry(q)
        PROVE  Known(p)
    BY <1>1, <2>2 DEF InsertEntry, GiveUp, Reply, NextEntry, EnoughFor
  <2>3. ASSUME NEW q \in Products, UpdateStock(q)
        PROVE  Known(p)
    <3>1. pc = "updateStock" /\ order' = order /\ todo' = todo \ {q}
      BY <1>1, <2>3 DEF UpdateStock, GiveUp, Reply
    <3>2. p # q /\ stock'[p] = stock[p]
      BY <1>1, <2>3, <3>1 DEF UpdateStock, GiveUp, TakeStock, ServerInv, TablesTyped
    <3> QED BY <1>1, <3>1, <3>2 DEF EnoughFor
  <2>4. CASE InsertOrder
    BY <1>1, <2>4 DEF InsertOrder, GiveUp, Reply, EnoughFor
  <2>5. CASE Dispatch \/ ReadOrder \/ CountProducts \/ SelectProducts
    BY <1>1, <2>5 DEF Dispatch, ReadOrder, CountProducts, SelectProducts, Reply
  <2>6. CASE AskProducts \/ AskOrder \/ AskClose
    BY <1>1, <2>6, AskedWhole DEF Ask, ServerInv
  <2>7. CASE ReadAnswer \/ CliBegin \/ CliCommit
    BY <1>1, <2>7 DEF ReadAnswer, Collect, CliBegin, CliCommit, Others, EnoughFor
  <2>8. CASE CliUpdate \/ CliInsert \/ CliDelete
    BY <1>1, <2>8 DEF CliUpdate, CliInsert, CliDelete, Edit, ServerInv, TablesTyped
  <2> QED BY <1>1, <2>1, <2>2, <2>3, <2>4, <2>5, <2>6, <2>7, <2>8
         DEF Next, ServerStep, AskerStep, CliStep
<1>2. ServerInv /\ [Next]_vars => [\A p \in Products : Short(p) => Known(p)]_vars
  BY <1>1
<1>3. ServerInv /\ [Next]_vars =>
        [\A p \in Products :
           /\ pc' \in {"insertOrder", "insertEntry", "updateStock"}
           /\ p \in todo' \cap rows' /\ ~ EnoughFor(p)'
           => \/ edits' # edits
              \/ pc \in {"insertOrder", "insertEntry", "updateStock"} /\ ~ EnoughFor(p)
              \/ pc = "verify" /\ p \notin todo /\ order.items[p] > stock[p]]_vars
  BY <1>2
<1> QED BY <1>3, ServerInvariant, PTL DEF Spec, StockGoesToEditsOnly

-----------------------------------------------------------------------------
(* With processes that lock the file and change nothing.                   *)

\* Nobody but the server changes what is in stock, or which rows there are.
LEMMA ShelvesAreServers ==
  ASSUME LockersOnly, [Next]_vars
  PROVE  /\ rows' = rows
         /\ stock' # stock => \E p \in Products : UpdateStock(p)
<1> USE DEF deskVars, cliVars, askVars, tables
<1>1. ASSUME NEW p \in Products, VerifyEntry(p) \/ InsertEntry(p)
      PROVE  rows' = rows /\ stock' = stock
  BY <1>1 DEF VerifyEntry, InsertEntry, GiveUp
<1>2. ASSUME NEW p \in Products, UpdateStock(p)
      PROVE  rows' = rows
  BY <1>2 DEF UpdateStock
<1>3. ASSUME Dispatch \/ ReadOrder \/ CountProducts \/ SelectProducts \/ InsertOrder
      PROVE  rows' = rows /\ stock' = stock
  BY <1>3 DEF Dispatch, ReadOrder, CountProducts, SelectProducts, InsertOrder, GiveUp
<1>4. ASSUME AskerStep
      PROVE  rows' = rows /\ stock' = stock
  BY <1>4 DEF AskerStep, AskProducts, AskOrder, AskClose, Ask, ReadAnswer, Collect
<1>5. ASSUME CliStep
      PROVE  rows' = rows /\ stock' = stock
  BY <1>5 DEF LockersOnly, CliStep, CliBegin, CliCommit, CliUpdate, CliInsert, CliDelete
<1> QED BY <1>1, <1>2, <1>3, <1>4, <1>5 DEF Next, ServerStep, vars

\* Steps that are not the server's leave the request at hand alone, except that
\* an asker hands in the next one.
LEMMA ServersWork ==
  ASSUME ServerInv, AskerStep \/ CliStep \/ UNCHANGED vars
  PROVE  UNCHANGED <<pc, order, todo, satisfied, counted>>
<1> USE DEF deskVars, cliVars, askVars
<1>1. CASE AskProducts \/ AskOrder \/ AskClose
  BY <1>1, AskedWhole DEF Ask, ServerInv
<1>2. CASE ReadAnswer \/ CliStep \/ UNCHANGED vars
  BY <1>2 DEF ReadAnswer, CliStep, CliBegin, CliCommit, CliUpdate, CliInsert, CliDelete, Edit, Others, vars
<1> QED BY <1>1, <1>2 DEF AskerStep

\* As many rows are listed as have been counted.
LEMMA RowsStayStep ==
  ASSUME LockersOnly, ServerInv, RowsStay, [Next]_vars
  PROVE  RowsStay'
<1> USE DEF deskVars, cliVars, askVars, RowsStay
<1>1. rows' = Products
  BY ShelvesAreServers
<1>2. CASE CountProducts
  BY <1>1, <1>2 DEF CountProducts, Reply
<1>3. ASSUME NEW p \in Products, VerifyEntry(p) \/ InsertEntry(p) \/ UpdateStock(p)
      PROVE  RowsStay'
  BY <1>1, <1>3 DEF VerifyEntry, InsertEntry, UpdateStock, GiveUp, Reply, NextEntry
<1>4. CASE Dispatch
  <2>1. pc' # "rows"
    BY <1>4 DEF Dispatch
  <2> QED BY <1>1, <2>1
<1>5. CASE ReadOrder \/ SelectProducts \/ InsertOrder
  BY <1>1, <1>5 DEF ReadOrder, SelectProducts, InsertOrder, GiveUp, Reply
<1>6. CASE AskerStep \/ CliStep \/ UNCHANGED vars
  BY <1>1, <1>6, ServersWork
<1> QED BY <1>2, <1>3, <1>4, <1>5, <1>6 DEF Next, ServerStep

\* The entries verified so far keep their stock until they are taken from it.
LEMMA StockedStep ==
  ASSUME LockersOnly, ServerInv, RowsStay, Stocked, [Next]_vars
  PROVE  Stocked'
<1> USE DEF deskVars, cliVars, askVars, tables
<1>1. ASSUME NEW p \in Products, VerifyEntry(p)
      PROVE  Stocked'
  <2>1. pc = "verify" /\ p \in todo /\ stock' = stock /\ p \in DOMAIN order.items
    BY <1>1 DEF VerifyEntry, ServerInv, WorkTyped
  <2>2. CASE satisfied'
    <3>1. satisfied /\ order' = order /\ EnoughFor(p)
      BY <1>1, <2>2, VerifiedEnough DEF ServerInv, RowsStay
    <3>2. \A q \in DOMAIN order.items \ (todo \ {p}) : EnoughFor(q)
      BY <2>1, <3>1 DEF Stocked
    <3>3. \/ pc' = "verify" /\ todo' = todo \ {p}
          \/ pc' = "insertOrder" /\ todo' = DOMAIN order.items /\ todo = {p}
      BY <1>1, <2>1, <2>2 DEF VerifyEntry, NextEntry
    <3> QED BY <2>1, <3>1, <3>2, <3>3 DEF Stocked, EnoughFor
  <2>3. CASE ~satisfied'
    <3>1. pc' \in {"select", "verify"}
      BY <1>1, <2>1, <2>3 DEF VerifyEntry, Reply, NextEntry
    <3> QED BY <2>3, <3>1 DEF Stocked
  <2> QED BY <2>2, <2>3
<1>2. ASSUME NEW p \in Products, InsertEntry(p)
      PROVE  Stocked'
  <2>1. pc = "insertEntry" /\ stock' = stock /\ order' = order
    BY <1>2 DEF InsertEntry, GiveUp
  <2>2. \A q \in DOMAIN order.items : EnoughFor(q)'
    BY <2>1 DEF Stocked, EnoughFor
  <2>3. \/ pc' = "select"
        \/ pc' = "insertEntry"
        \/ pc' = "updateStock" /\ todo' = DOMAIN order.items
    BY <1>2, <2>1 DEF InsertEntry, GiveUp, Reply, NextEntry
  <2> QED BY <2>1, <2>2, <2>3 DEF Stocked
<1>3. ASSUME NEW p \in Products, UpdateStock(p)
      PROVE  Stocked'
  <2>1. pc = "updateStock" /\ p \in todo /\ order' = order /\ pc' \in {"select", "updateStock"}
    BY <1>3 DEF UpdateStock, GiveUp, Reply
  <2>2. CASE pc' = "select"
    BY <2>2 DEF Stocked
  <2>3. CASE pc' = "updateStock"
    <3>1. todo' = todo \ {p} /\ stock' = TakeStock(p)
      BY <1>3, <2>1, <2>3 DEF UpdateStock, GiveUp, Reply
    <3>2. \A q \in todo' : q \in Products /\ stock'[q] = stock[q]
      BY <3>1, OrderParts DEF TakeStock, ServerInv, WorkTyped, TablesTyped
    <3> QED BY <2>1, <2>3, <3>1, <3>2 DEF Stocked, EnoughFor
  <2> QED BY <2>1, <2>2, <2>3
<1>4. CASE InsertOrder
  BY <1>4 DEF InsertOrder, GiveUp, Reply, Stocked, EnoughFor
<1>5. CASE Dispatch
  <2>1. pc' \notin {"verify", "insertOrder", "insertEntry", "updateStock"}
    BY <1>5 DEF Dispatch
  <2> QED BY <2>1 DEF Stocked
<1>6. CASE CountProducts \/ SelectProducts
  BY <1>6 DEF CountProducts, SelectProducts, Reply, Stocked
<1>7. CASE ReadOrder
  <2>1. pc' = "verify" /\ todo' = DOMAIN order'.items
    BY <1>7 DEF ReadOrder
  <2> QED BY <2>1 DEF Stocked
<1>8. CASE AskerStep \/ CliStep \/ UNCHANGED vars
  <2>1. UNCHANGED <<pc, order, todo, satisfied>>
    BY <1>8, ServersWork
  <2>2. stock' = stock
    BY <1>8, ShelvesAreServers
       DEF AskerStep, AskProducts, AskOrder, AskClose, Ask, ReadAnswer, Collect, CliStep, CliBegin,
           CliCommit, CliUpdate, CliInsert, CliDelete, LockersOnly, vars
  <2> QED BY <2>1, <2>2 DEF Stocked, EnoughFor
<1> QED BY <1>1, <1>2, <1>3, <1>4, <1>5, <1>6, <1>7, <1>8 DEF Next, ServerStep

\* One entry verified: the order goes on being the sub-order of what came in, for
\* the entries visited, with one more failed query if there was one.
LEMMA CutEntry ==
  ASSUME ServerInv, RowsStay, NEW p \in Products, VerifyEntry(p),
         NEW items \in [DOMAIN order.items -> Quantities],
         NEW unread \in SUBSET (DOMAIN order.items \ todo), CutFrom(items, unread)
  PROVE  \E more \in SUBSET (DOMAIN order.items \ (todo \ {p})) :
           /\ \A q \in todo \ {p} : order'.items[q] = items[q]
           /\ \A q \in DOMAIN order.items \ (todo \ {p}) : order'.items[q] = SubOrder(items, more)[q]
           /\ satisfied' <=> \A q \in DOMAIN order.items \ (todo \ {p}) : items[q] <= ReadStock(q, more)
<1> DEFINE more == IF CanRead THEN unread ELSE unread \cup {p}
           Seen == DOMAIN order.items \ (todo \ {p})
<1>1. p \in todo /\ p \in DOMAIN order.items /\ order.items[p] = items[p] /\ p \notin unread
  BY DEF VerifyEntry, ServerInv, WorkTyped, CutFrom
<1>2. PICK s \in GetStock(p) :
        /\ satisfied' = (satisfied /\ s >= order.items[p])
        /\ order' = IF s < order.items[p] THEN [order EXCEPT !.items[p] = s] ELSE order
  BY DEF VerifyEntry
<1>3. s = ReadStock(p, more) /\ s \in Quantities
  BY <1>1, <1>2, StockRead DEF GetStock, ReadStock, RowsStay, ServerInv
<1>4. items[p] \in Int /\ s \in Int
  BY <1>1, <1>3, DeskAssumption DEF Quantities
<1>5. \A q \in Seen \ {p} : ReadStock(q, more) = ReadStock(q, unread)
  BY DEF ReadStock
<1>6. \A q \in DOMAIN order.items \ {p} : order'.items[q] = order.items[q]
  BY <1>1, <1>2, <1>3, CutDown DEF ServerInv, WorkTyped
<1>7. order'.items[p] = IF s < items[p] THEN s ELSE items[p]
  BY <1>1, <1>2, <1>3, CutDown DEF ServerInv, WorkTyped
<1>8. more \in SUBSET Seen
  BY <1>1
<1>9. \A q \in DOMAIN order.items :
        SubOrder(items, more)[q] = IF ReadStock(q, more) < items[q] THEN ReadStock(q, more) ELSE items[q]
  BY DEF SubOrder
<1>10. \A q \in DOMAIN order.items :
        SubOrder(items, unread)[q] = IF ReadStock(q, unread) < items[q] THEN ReadStock(q, unread) ELSE items[q]
  BY DEF SubOrder
<1> HIDE DEF more
<1>11. \A q \in todo \ {p} : order'.items[q] = items[q]
  BY <1>6 DEF CutFrom, ServerInv, WorkTyped
<1>12. \A q \in Seen : order'.items[q] = SubOrder(items, more)[q]
  BY <1>3, <1>5, <1>6, <1>7, <1>9, <1>10 DEF CutFrom
<1>13. satisfied' <=> \A q \in Seen : items[q] <= ReadStock(q, more)
  <2>1. satisfied <=> \A q \in Seen \ {p} : items[q] <= ReadStock(q, more)
    BY <1>1, <1>5 DEF CutFrom
  <2>2. s >= order.items[p] <=> items[p] <= ReadStock(p, more)
    BY <1>1, <1>3, <1>4
  <2> QED BY <1>1, <1>2, <2>1, <2>2
<1> QED BY <1>8, <1>11, <1>12, <1>13

\* What came in can still be told from the order while it is being verified.
LEMMA RememberedStep ==
  ASSUME LockersOnly, ServerInv, RowsStay, Remembered, [Next]_vars
  PROVE  Remembered'
<1> USE DEF deskVars, cliVars, askVars, tables
<1>1. ASSUME NEW p \in Products, VerifyEntry(p), pc' = "verify"
      PROVE  Remembered'
  <2>1. pc = "verify" /\ stock' = stock /\ todo' = todo \ {p}
    BY <1>1 DEF VerifyEntry, Reply, NextEntry
  <2>2. DOMAIN order'.items = DOMAIN order.items
    <3>1. p \in DOMAIN order.items
      BY <1>1 DEF VerifyEntry, ServerInv, WorkTyped
    <3>2. PICK s \in Quantities :
            order' = IF s < order.items[p] THEN [order EXCEPT !.items[p] = s] ELSE order
      BY <1>1, StockRead DEF VerifyEntry, ServerInv
    <3> QED BY <3>1, <3>2, CutDown DEF ServerInv, WorkTyped
  <2>3. PICK items \in [DOMAIN order.items -> Quantities] :
          \E unread \in SUBSET (DOMAIN order.items \ todo) : CutFrom(items, unread)
    BY <2>1 DEF Remembered
  <2>4. PICK more \in SUBSET (DOMAIN order.items \ todo') :
          /\ \A q \in todo' : order'.items[q] = items[q]
          /\ \A q \in DOMAIN order.items \ todo' : order'.items[q] = SubOrder(items, more)[q]
          /\ satisfied' <=> \A q \in DOMAIN order.items \ todo' : items[q] <= ReadStock(q, more)
    BY <1>1, <2>1, <2>3, CutEntry
  <2>5. SubOrder(items, more)' = SubOrder(items, more)
    BY <2>1 DEF SubOrder, ReadStock
  <2>6. \A q \in DOMAIN order.items : ReadStock(q, more)' = ReadStock(q, more)
    BY <2>1 DEF ReadStock
  <2>7. CutFrom(items, more)'
    BY <2>2, <2>4, <2>5, <2>6 DEF CutFrom
  <2> QED BY <2>2, <2>7 DEF Remembered
<1>2. CASE ReadOrder
  <2>1. order' \in Orders /\ todo' = DOMAIN order'.items /\ satisfied'
    BY <1>2 DEF ReadOrder, ServerInv, PipesFit
  <2>2. CutFrom(order.items, {})'
    BY <2>1 DEF CutFrom
  <2>3. order'.items \in [DOMAIN order'.items -> Quantities]
    BY <2>1, OrderParts
  <2> QED BY <2>2, <2>3 DEF Remembered
<1>3. CASE UNCHANGED <<pc, order, todo, satisfied, stock>>
  BY <1>3 DEF Remembered, CutFrom, SubOrder, ReadStock
<1>4. ASSUME NEW p \in Products, InsertEntry(p) \/ UpdateStock(p)
      PROVE  pc' # "verify"
  BY <1>4 DEF InsertEntry, UpdateStock, GiveUp, Reply, NextEntry
<1>5. ASSUME CountProducts \/ SelectProducts \/ InsertOrder
      PROVE  pc' # "verify"
  BY <1>5 DEF CountProducts, SelectProducts, InsertOrder, GiveUp, Reply
<1>6. ASSUME Dispatch
      PROVE  pc' # "verify"
  BY <1>6 DEF Dispatch
<1>7. ASSUME AskerStep \/ CliStep \/ UNCHANGED vars
      PROVE  UNCHANGED <<pc, order, todo, satisfied, stock>>
  <2>1. UNCHANGED <<pc, order, todo, satisfied>>
    BY <1>7, ServersWork
  <2>2. stock' = stock
    BY <1>7, ShelvesAreServers
       DEF AskerStep, AskProducts, AskOrder, AskClose, Ask, ReadAnswer, Collect, CliStep, CliBegin,
           CliCommit, CliUpdate, CliInsert, CliDelete, LockersOnly, vars
  <2> QED BY <2>1, <2>2
<1> QED BY <1>1, <1>2, <1>3, <1>4, <1>5, <1>6, <1>7 DEF Next, ServerStep, Remembered

\* LockedInv holds in every state when nobody edits the tables.
LEMMA LockedInvariant ==
  ASSUME LockersOnly
  PROVE  Spec => []LockedInv
<1>1. Init => LockedInv
  BY DEF Init, LockedInv, RowsStay, Stocked, Remembered
<1>2. ServerInv /\ LockedInv /\ [Next]_vars => LockedInv'
  BY RowsStayStep, StockedStep, RememberedStep DEF LockedInv
<1> QED BY <1>1, <1>2, ServerInvariant, PTL DEF Spec

\* store_verified_order and update_stock get what their comments ask for: every
\* entry still to be stored has its stock, however often other processes lock the
\* file and statements fail, as long as they do not edit the tables.
THEOREM StoredOrdersHaveStock ==
  ASSUME LockersOnly
  PROVE  Spec => []VerifiedHasStock
<1>1. ServerInv /\ LockedInv => VerifiedHasStock
  BY DEF ServerInv, WorkTyped, LockedInv, Stocked, VerifiedHasStock, EnoughFor
<1> QED BY <1>1, ServerInvariant, LockedInvariant, PTL

-----------------------------------------------------------------------------
(* The server implements OrderDesk.                                        *)

\* While no order is being stored the tables are those of the order desk.
LEMMA TablesAsTheyAre ==
  ServerInv /\ ~Writing => StockBefore = stock /\ SoldBefore = sold /\ PlacedBefore = placed
<1> SUFFICES ASSUME ServerInv, ~Writing
             PROVE  StockBefore = stock /\ SoldBefore = sold /\ PlacedBefore = placed
  OBVIOUS
<1>1. TakenNow = {} /\ ListedNow = {}
  BY DEF Writing, TakenNow, ListedNow
<1>2. StockBefore = stock
  BY <1>1 DEF StockBefore, ServerInv, TablesTyped
<1>3. SoldBefore = sold
  BY <1>1 DEF SoldBefore, ServerInv, TablesTyped
<1>4. PlacedBefore = placed
  BY DEF PlacedBefore, ServerInv, RequestsBound
<1> QED BY <1>2, <1>3, <1>4

\* The same after a step.
LEMMA TablesAsTheyAreNext ==
  ASSUME ServerInv', ~Writing'
  PROVE  StockBefore' = stock' /\ SoldBefore' = sold' /\ PlacedBefore' = placed'
<1>1. (ServerInv /\ ~Writing => StockBefore = stock /\ SoldBefore = sold /\ PlacedBefore = placed)'
  BY TablesAsTheyAre, PTL
<1> QED BY <1>1

\* The tables of the order desk do not change in a step that starts and ends
\* outside the storing of an order and leaves the tables alone.
LEMMA DeskTablesStay ==
  ASSUME ServerInv, ServerInv', ~Writing, ~Writing', UNCHANGED tables
  PROVE  UNCHANGED <<StockBefore, SoldBefore, PlacedBefore>>
BY TablesAsTheyAre, TablesAsTheyAreNext DEF tables

\* At the last step of an order, the order desk records what the statements so
\* far have left in the tables.
LEMMA RecordedByNow ==
  ASSUME ServerInv, ServerInv', Writing, pc' = "select", UNCHANGED <<sold, placed, order>>,
         NEW taken \in SUBSET DOMAIN order.items,
         \A p \in Products :
           stock'[p] = StockBefore[p] - (IF p \in taken THEN Taken(order.items[p]) ELSE 0)
  PROVE  Desk!Record(order.address, order.items, ListedNow, taken)
<1>1. StockBefore' = stock' /\ SoldBefore' = sold' /\ PlacedBefore' = placed'
  BY TablesAsTheyAreNext DEF Writing
<1>2. order.address \in Addresses /\ order.items \in [DOMAIN order.items -> Quantities]
  BY OrderParts DEF ServerInv, WorkTyped
<1>3. ListedNow \subseteq DOMAIN order.items
  BY DEF ListedNow
<1>4. placed' = [PlacedBefore EXCEPT ![order.address] = @ + 1]
  BY <1>2 DEF PlacedBefore, ServerInv, RequestsBound
<1>5. sold' = [p \in Products |-> IF p \in ListedNow THEN SoldBefore[p] + order.items[p] ELSE SoldBefore[p]]
  <2>1. ASSUME NEW p \in Products
        PROVE  sold[p] = IF p \in ListedNow THEN SoldBefore[p] + order.items[p] ELSE SoldBefore[p]
    <3>1. sold[p] \in Int /\ (p \in ListedNow => order.items[p] \in Int)
      BY <1>2, <1>3 DEF ServerInv, TablesTyped, Quantities
    <3>2. SoldBefore[p] = sold[p] - (IF p \in ListedNow THEN order.items[p] ELSE 0)
      BY DEF SoldBefore
    <3> QED BY <3>1, <3>2
  <2>2. sold = [p \in Products |-> sold[p]]
    BY DEF ServerInv, TablesTyped
  <2> QED BY <2>1, <2>2
<1>6. stock' = [p \in Products |-> IF p \in taken THEN StockBefore[p] - Taken(order.items[p]) ELSE StockBefore[p]]
  <2>1. ASSUME NEW p \in Products
        PROVE  stock'[p] = IF p \in taken THEN StockBefore[p] - Taken(order.items[p]) ELSE StockBefore[p]
    <3>1. StockBefore[p] \in Int
      <4>1. p \in TakenNow => order.items[p] \in Int
        BY <1>2 DEF TakenNow, Quantities
      <4>2. p \in TakenNow => Taken(order.items[p]) \in Int
        BY <4>1 DEF Taken
      <4> QED BY <4>2 DEF StockBefore, ServerInv, TablesTyped
    <3> QED BY <3>1
  <2>2. stock' = [p \in Products |-> stock'[p]]
    BY DEF ServerInv, TablesTyped
  <2> QED BY <2>1, <2>2
<1> QED BY <1>1, <1>4, <1>5, <1>6 DEF Desk!Record, Desk!Taken, Taken

\* An order that is being stored was verified against the shelves as they were
\* before its first statement.
LEMMA VerifiedBefore ==
  ASSUME ServerInv, LockedInv, pc \in {"insertOrder", "insertEntry", "updateStock"}
  PROVE  Desk!Verified(order.items, {})
<1>1. order.items \in [DOMAIN order.items -> Quantities] /\ DOMAIN order.items \subseteq Products
  BY OrderParts DEF ServerInv, WorkTyped
<1>2. ASSUME NEW p \in DOMAIN order.items
      PROVE  order.items[p] <= StockBefore[p]
  <2>1. order.items[p] \in Int /\ stock[p] \in Int /\ stock[p] >= 0
    BY <1>1 DEF ServerInv, TablesTyped, Quantities
  <2>2. StockBefore[p] = stock[p] + (IF p \in TakenNow THEN Taken(order.items[p]) ELSE 0)
    BY <1>1 DEF StockBefore
  <2>3. p \notin TakenNow => order.items[p] <= stock[p]
    BY DEF TakenNow, LockedInv, Stocked, EnoughFor, ServerInv, WorkTyped
  <2> QED BY <2>1, <2>2, <2>3 DEF Taken
<1> QED BY <1>2 DEF Desk!Verified, Desk!ReadStock

\* A statement that fails ends the request as Fail of the order desk does.
LEMMA GivesUpAsDesk ==
  ASSUME ServerInv, ServerInv', LockedInv, GiveUp, UNCHANGED order,
         pc \in {"insertOrder", "insertEntry", "updateStock"}, pc = "updateStock" => todo # {}
  PROVE  Desk!Fail(order.address, order.items, {})
<1>1. Desk!Verified(order.items, {})
  BY VerifiedBefore
<1>2. fromDb' = Append(fromDb, Desk!Code("MESSAGE_ERROR")) /\ pc' = "select" /\ UNCHANGED tables
  <2>1. fromDb = <<>>
    BY DEF ServerInv, PipesFit
  <2> QED BY <2>1 DEF GiveUp, Reply, Code, Desk!Code
<1>3. CASE pc = "insertOrder"
  <2>1. UNCHANGED <<StockBefore, SoldBefore, PlacedBefore>>
    BY <1>2, <1>3, DeskTablesStay DEF Writing
  <2> QED BY <1>1, <1>2, <2>1 DEF Desk!Fail, Desk!tables
<1>4. CASE Writing
  <2>1. TakenNow \in SUBSET DOMAIN order.items /\ ListedNow \in SUBSET DOMAIN order.items
    BY DEF TakenNow, ListedNow
  <2>2. ASSUME NEW p \in Products
        PROVE  stock'[p] = StockBefore[p] - (IF p \in TakenNow THEN Taken(order.items[p]) ELSE 0)
    <3>1. stock[p] \in Int /\ stock' = stock
      BY <1>2 DEF ServerInv, TablesTyped, tables
    <3>2. p \in TakenNow => order.items[p] \in Int
      BY <2>1, OrderParts DEF ServerInv, WorkTyped, Quantities
    <3>3. p \in TakenNow => Taken(order.items[p]) \in Int
      BY <3>2 DEF Taken
    <3> QED BY <3>1, <3>3 DEF StockBefore
  <2>3. Desk!Record(order.address, order.items, ListedNow, TakenNow)
    BY <1>2, <1>4, <2>1, <2>2, RecordedByNow DEF tables
  <2>4. CASE pc = "insertEntry"
    <3>1. TakenNow = {}
      BY <2>4 DEF TakenNow
    <3> QED BY <1>1, <1>2, <2>1, <2>3, <3>1 DEF Desk!Fail
  <2>5. CASE pc = "updateStock"
    <3>1. ListedNow = DOMAIN order.items /\ TakenNow # DOMAIN order.items
      BY <2>5 DEF ListedNow, TakenNow, ServerInv, WorkTyped
    <3> QED BY <1>1, <1>2, <2>1, <2>3, <3>1 DEF Desk!Fail
  <2> QED BY <1>4, <2>4, <2>5 DEF Writing
<1> QED BY <1>3, <1>4 DEF Writing

\* The order at hand is one the order desk can be asked for.
LEMMA AskedOfDesk ==
  ASSUME ServerInv, NEW items \in [DOMAIN order.items -> Quantities],
         NEW unread \in SUBSET DOMAIN order.items,
         \/ Desk!Accept(order.address, items, unread)
         \/ Desk!Refuse(order.address, items, unread)
         \/ Desk!Fail(order.address, items, unread)
  PROVE  Desk!DeskNext
<1>1. order.address \in Addresses /\ DOMAIN order.items \in SUBSET Products
  BY OrderParts DEF ServerInv, WorkTyped
<1>2. items \in Desk!Items
  BY <1>1 DEF Desk!Items, Desk!Quantities, Quantities
<1>3. unread \in SUBSET DOMAIN items
  OBVIOUS
<1> QED BY <1>1, <1>2, <1>3 DEF Desk!DeskNext

\* Requests for the list of products.
LEMMA ListsAsDesk ==
  ASSUME ServerInv, ServerInv', LockedInv, CountProducts \/ SelectProducts
  PROVE  Desk!DeskNext \/ UNCHANGED Desk!deskVars
<1>1. ~Writing /\ ~Writing' /\ UNCHANGED tables /\ fromDb = <<>>
  BY DEF CountProducts, SelectProducts, Reply, Writing, ServerInv, PipesFit
<1>2. UNCHANGED <<StockBefore, SoldBefore, PlacedBefore>> /\ StockBefore = stock
  BY <1>1, DeskTablesStay, TablesAsTheyAre
<1>3. CASE UNCHANGED fromDb
  BY <1>2, <1>3 DEF Desk!deskVars
<1>4. CASE Reply(<<Code("MESSAGE_ERROR")>>)
  <2>1. fromDb' = Append(fromDb, Desk!Code("MESSAGE_ERROR"))
    BY <1>1, <1>4 DEF Reply, Code, Desk!Code
  <2>2. Desk!ListFails
    BY <1>2, <2>1 DEF Desk!ListFails, Desk!tables
  <2> QED BY <2>2 DEF Desk!DeskNext
<1>5. CASE SelectProducts /\ \E listed \in SUBSET rows :
             /\ Cardinality(listed) = counted
             /\ Reply(<<ProductsMsg([p \in listed |-> stock[p]])>>)
  <2>1. PICK listed \in SUBSET rows :
          /\ Cardinality(listed) = counted
          /\ Reply(<<ProductsMsg([p \in listed |-> stock[p]])>>)
    BY <1>5
  <2>2. listed \in SUBSET Products /\ Cardinality(listed) = Cardinality(Products)
    BY <1>5, <2>1 DEF SelectProducts, LockedInv, RowsStay
  <2>3. listed = Products
    BY <2>2, DatabaseAssumption, FS_Subset
  <2>4. [p \in listed |-> stock[p]] = StockBefore
    BY <1>2, <2>3 DEF ServerInv, TablesTyped
  <2>5. fromDb' = Append(fromDb, Desk!ProductsMsg(StockBefore))
    BY <1>1, <2>1, <2>4 DEF Reply, ProductsMsg, Desk!ProductsMsg
  <2>6. Desk!ListProducts
    BY <1>2, <2>5 DEF Desk!ListProducts, Desk!tables
  <2> QED BY <2>6 DEF Desk!DeskNext
<1> QED BY <1>3, <1>4, <1>5 DEF CountProducts, SelectProducts

\* verifyOrderStock: only its last entry shows outside, when it sends the
\* sub-order back.
LEMMA VerifiesAsDesk ==
  ASSUME ServerInv, ServerInv', LockedInv, NEW p \in Products, VerifyEntry(p)
  PROVE  Desk!DeskNext \/ UNCHANGED Desk!deskVars
<1>1. pc = "verify" /\ ~Writing /\ ~Writing' /\ UNCHANGED tables /\ fromDb = <<>>
  BY DEF VerifyEntry, Reply, NextEntry, Writing, ServerInv, PipesFit
<1>2. UNCHANGED <<StockBefore, SoldBefore, PlacedBefore>> /\ StockBefore = stock
  BY <1>1, DeskTablesStay, TablesAsTheyAre
<1>3. CASE UNCHANGED fromDb
  BY <1>2, <1>3 DEF Desk!deskVars
<1>4. CASE /\ todo = {p} /\ ~satisfied'
           /\ Reply(<<Code("MESSAGE_UNSATISFIABLE_ORDER"), order'>>)
  <2>1. PICK items \in [DOMAIN order.items -> Quantities] :
          \E unread \in SUBSET (DOMAIN order.items \ todo) : CutFrom(items, unread)
    BY <1>1 DEF LockedInv, Remembered
  <2>2. PICK more \in SUBSET DOMAIN order.items :
          /\ \A q \in DOMAIN order.items : order'.items[q] = SubOrder(items, more)[q]
          /\ satisfied' <=> \A q \in DOMAIN order.items : items[q] <= ReadStock(q, more)
    BY <1>4, <2>1, CutEntry DEF LockedInv
  <2>3. /\ order' \in Orders /\ order'.address = order.address
        /\ DOMAIN order'.items = DOMAIN order.items
    <3>1. p \in DOMAIN order.items
      BY DEF VerifyEntry, ServerInv, WorkTyped
    <3>2. PICK s \in Quantities :
            order' = IF s < order.items[p] THEN [order EXCEPT !.items[p] = s] ELSE order
      BY StockRead DEF VerifyEntry, ServerInv
    <3> QED BY <3>1, <3>2, CutDown DEF ServerInv, WorkTyped
  <2>4. order'.items = Desk!SubOrder(items, more)
    <3>1. order'.items = [q \in DOMAIN items |-> order'.items[q]]
      BY <2>3, OrderParts
    <3>2. \A q \in DOMAIN items : order'.items[q] = Desk!SubOrder(items, more)[q]
      BY <1>2, <2>2 DEF SubOrder, ReadStock, Desk!SubOrder, Desk!ReadStock
    <3> QED BY <3>1, <3>2 DEF Desk!SubOrder
  <2>5. order' = Desk!OrderMsg(order.address, Desk!SubOrder(items, more))
    BY <2>3, <2>4 DEF Orders, Desk!OrderMsg
  <2>6. fromDb' = fromDb \o <<Desk!Code("MESSAGE_UNSATISFIABLE_ORDER"),
                             Desk!OrderMsg(order.address, Desk!SubOrder(items, more))>>
    BY <1>4, <2>5 DEF Reply, Code, Desk!Code
  <2>7. ~Desk!Verified(items, more)
    BY <1>2, <1>4, <2>2 DEF ReadStock, Desk!Verified, Desk!ReadStock
  <2>8. Desk!Refuse(order.address, items, more)
    BY <1>2, <2>6, <2>7 DEF Desk!Refuse, Desk!tables
  <2> QED BY <2>8, AskedOfDesk
<1> QED BY <1>3, <1>4 DEF VerifyEntry

\* The two INSERTs show outside only when they fail.
LEMMA InsertsAsDesk ==
  ASSUME ServerInv, ServerInv', LockedInv, InsertOrder \/ \E p \in Products : InsertEntry(p)
  PROVE  Desk!DeskNext \/ UNCHANGED Desk!deskVars
<1>1. order.address \in Addresses /\ order.items \in [DOMAIN order.items -> Quantities]
  BY OrderParts DEF ServerInv, WorkTyped
<1>2. CASE GiveUp
  <2>1. Desk!Fail(order.address, order.items, {})
    BY <1>2, GivesUpAsDesk DEF InsertOrder, InsertEntry
  <2> QED BY <1>1, <2>1, AskedOfDesk
<1>3. CASE InsertOrder /\ ~GiveUp
  <2>1. /\ pc = "insertOrder" /\ pc' = "insertEntry" /\ todo' = todo /\ todo = DOMAIN order.items
        /\ order' = order /\ fromDb' = fromDb /\ stock' = stock /\ sold' = sold
        /\ placed' = [placed EXCEPT ![order.address] = @ + 1]
    BY <1>3 DEF InsertOrder, LockedInv, Stocked
  <2>2. StockBefore = stock /\ SoldBefore = sold /\ PlacedBefore = placed
    BY <2>1, TablesAsTheyAre DEF Writing
  <2>3. ListedNow' = {} /\ TakenNow' = {} /\ Writing'
    BY <2>1 DEF ListedNow, TakenNow, Writing
  <2>4. StockBefore' = stock /\ SoldBefore' = sold
    BY <2>1, <2>3 DEF StockBefore, SoldBefore, ServerInv, TablesTyped
  <2>5. PlacedBefore' = placed
    BY <1>1, <2>1, <2>3 DEF PlacedBefore, ServerInv, RequestsBound
  <2> QED BY <2>1, <2>2, <2>4, <2>5 DEF Desk!deskVars
<1>4. ASSUME NEW p \in Products, InsertEntry(p), ~GiveUp
      PROVE  UNCHANGED Desk!deskVars
  <2>1. /\ pc = "insertEntry" /\ p \in todo /\ p \in DOMAIN order.items /\ order' = order
        /\ fromDb' = fromDb /\ stock' = stock /\ placed' = placed
        /\ sold' = [sold EXCEPT ![p] = @ + order.items[p]]
        /\ NextEntry(p, "updateStock")
    BY <1>4 DEF InsertEntry, ServerInv, WorkTyped
  <2>2. Writing /\ Writing' /\ TakenNow = {} /\ TakenNow' = {}
    BY <2>1 DEF Writing, TakenNow, NextEntry
  <2>3. ListedNow' = ListedNow \cup {p} /\ p \notin ListedNow
    BY <2>1 DEF ListedNow, NextEntry
  <2>4. StockBefore' = StockBefore
    BY <2>1, <2>2 DEF StockBefore
  <2>5. PlacedBefore' = PlacedBefore
    BY <2>1, <2>2 DEF PlacedBefore
  <2>6. SoldBefore' = SoldBefore
    <3>1. ASSUME NEW q \in Products
          PROVE  sold'[q] - (IF q \in ListedNow' THEN order'.items[q] ELSE 0)
                   = sold[q] - (IF q \in ListedNow THEN order.items[q] ELSE 0)
      <4>1. sold[q] \in Int /\ order.items[p] \in Int
        BY <1>1, <2>1 DEF ServerInv, TablesTyped, Quantities
      <4>2. q # p => sold'[q] = sold[q]
        BY <2>1 DEF ServerInv, TablesTyped
      <4>3. sold'[p] = sold[p] + order.items[p]
        BY <2>1 DEF ServerInv, TablesTyped
      <4> QED BY <2>1, <2>3, <4>1, <4>2, <4>3
    <3> QED BY <3>1 DEF SoldBefore
  <2> QED BY <2>1, <2>4, <2>5, <2>6 DEF Desk!deskVars
<1> QED BY <1>2, <1>3, <1>4

\* The UPDATEs show outside at the end: with the last of them the order is
\* accepted, and one that fails ends it.
LEMMA UpdatesAsDesk ==
  ASSUME ServerInv, ServerInv', LockedInv, NEW p \in Products, UpdateStock(p)
  PROVE  Desk!DeskNext \/ UNCHANGED Desk!deskVars
<1>1. order.address \in Addresses /\ order.items \in [DOMAIN order.items -> Quantities]
  BY OrderParts DEF ServerInv, WorkTyped
<1>2. /\ pc = "updateStock" /\ p \in todo /\ p \in DOMAIN order.items /\ order' = order
      /\ rows = Products /\ fromDb = <<>>
  BY DEF UpdateStock, ServerInv, WorkTyped, PipesFit, LockedInv, RowsStay
<1>3. CASE GiveUp
  <2>1. Desk!Fail(order.address, order.items, {})
    BY <1>2, <1>3, GivesUpAsDesk
  <2> QED BY <1>1, <2>1, AskedOfDesk
<1>4. CASE ~GiveUp
  <2>1. /\ stock' = [stock EXCEPT ![p] = @ - Taken(order.items[p])] /\ todo' = todo \ {p}
        /\ sold' = sold /\ placed' = placed
        /\ IF todo = {p} THEN Reply(<<Code("MESSAGE_OK")>>) ELSE UNCHANGED <<pc, fromDb>>
    BY <1>2, <1>4 DEF UpdateStock, TakeStock
  <2>2. Writing /\ TakenNow = DOMAIN order.items \ todo /\ ListedNow = DOMAIN order.items
    BY <1>2 DEF Writing, TakenNow, ListedNow
  <2>3. \A q \in DOMAIN order.items : Taken(order.items[q]) \in Int
    BY <1>1 DEF Taken, Quantities
  <2>4. stock'[p] = stock[p] - Taken(order.items[p]) /\ \A q \in Products \ {p} : stock'[q] = stock[q]
    BY <2>1 DEF ServerInv, TablesTyped
  <2>5. \A q \in Products : stock[q] \in Int
    BY DEF ServerInv, TablesTyped
  <2>6. \A q \in Products :
          StockBefore[q] = stock[q] + (IF q \in DOMAIN order.items \ todo THEN Taken(order.items[q]) ELSE 0)
    BY <2>2 DEF StockBefore
  <2>7. CASE todo = {p}
    <3>1. pc' = "select" /\ fromDb' = Append(fromDb, Desk!Code("MESSAGE_OK"))
      BY <1>2, <2>1, <2>7 DEF Reply, Code, Desk!Code
    <3>2. ASSUME NEW q \in Products
          PROVE  stock'[q] = StockBefore[q] - (IF q \in DOMAIN order.items THEN Taken(order.items[q]) ELSE 0)
      BY <1>2, <2>3, <2>4, <2>5, <2>6, <2>7
    <3>3. Desk!Record(order.address, order.items, DOMAIN order.items, DOMAIN order.items)
      BY <1>2, <2>1, <2>2, <3>1, <3>2, RecordedByNow
    <3>4. Desk!Verified(order.items, {})
      BY <1>2, VerifiedBefore
    <3>5. Desk!Accept(order.address, order.items, {})
      BY <3>1, <3>3, <3>4 DEF Desk!Accept
    <3> QED BY <1>1, <3>5, AskedOfDesk
  <2>8. CASE todo # {p}
    <3>1. pc' = pc /\ fromDb' = fromDb /\ Writing'
      BY <1>2, <2>1, <2>8 DEF Writing
    <3>2. TakenNow' = TakenNow \cup {p} /\ p \notin TakenNow /\ ListedNow' = ListedNow
      BY <1>2, <2>1, <3>1 DEF TakenNow, ListedNow
    <3>3. StockBefore' = StockBefore
      <4>1. ASSUME NEW q \in Products
            PROVE  stock'[q] + (IF q \in TakenNow' THEN Taken(order'.items[q]) ELSE 0)
                     = stock[q] + (IF q \in TakenNow THEN Taken(order.items[q]) ELSE 0)
        BY <1>2, <2>2, <2>3, <2>4, <2>5, <3>2
      <4>2. StockBefore' = [q \in Products |->
              stock'[q] + (IF q \in TakenNow' THEN Taken(order'.items[q]) ELSE 0)]
        BY DEF StockBefore, Taken
      <4> QED BY <4>1, <4>2 DEF StockBefore
    <3>4. SoldBefore' = SoldBefore
      BY <1>2, <2>1, <3>2 DEF SoldBefore
    <3>5. PlacedBefore' = PlacedBefore
      BY <1>2, <2>1, <2>2, <3>1 DEF PlacedBefore
    <3> QED BY <3>1, <3>3, <3>4, <3>5 DEF Desk!deskVars
  <2> QED BY <2>7, <2>8
<1> QED BY <1>3, <1>4

\* What the server does not do shows as Collect, or not at all.
LEMMA OthersAsDesk ==
  ASSUME LockersOnly, ServerInv, ServerInv', AskerStep \/ CliStep \/ UNCHANGED vars
  PROVE  Desk!DeskNext \/ UNCHANGED Desk!deskVars
<1> USE DEF deskVars, cliVars, askVars, tables
<1>1. UNCHANGED <<pc, order, todo, tables>>
  <2>1. UNCHANGED <<pc, order, todo>>
    BY ServersWork
  <2>2. UNCHANGED tables
    BY DEF AskerStep, AskProducts, AskOrder, AskClose, Ask, ReadAnswer, Collect, CliStep, CliBegin,
           CliCommit, CliUpdate, CliInsert, CliDelete, Others, LockersOnly, vars
  <2> QED BY <2>1, <2>2
<1>2. UNCHANGED <<StockBefore, SoldBefore, PlacedBefore>>
  BY <1>1 DEF StockBefore, SoldBefore, PlacedBefore, TakenNow, ListedNow, Writing
<1>3. CASE ReadAnswer
  <2>1. Desk!Collect
    BY <1>2, <1>3 DEF ReadAnswer, Collect, Desk!Collect, Desk!tables
  <2> QED BY <2>1 DEF Desk!DeskNext
<1>4. CASE ~ReadAnswer
  <2>1. fromDb' = fromDb
    BY <1>4 DEF AskerStep, AskProducts, AskOrder, AskClose, Ask, CliStep, CliBegin, CliCommit,
                CliUpdate, CliInsert, CliDelete, Edit, Others, vars
  <2> QED BY <1>2, <2>1 DEF Desk!deskVars
<1> QED BY <1>3, <1>4

\* Every step of the server and of its surroundings is one of the order desk, or
\* does not show.
LEMMA StepAsDesk ==
  ASSUME LockersOnly, ServerInv, ServerInv', LockedInv, [Next]_vars
  PROVE  [Desk!DeskNext]_(Desk!deskVars)
<1>1. ASSUME Dispatch \/ ReadOrder
      PROVE  UNCHANGED Desk!deskVars
  <2>1. ~Writing /\ ~Writing' /\ UNCHANGED deskVars
    BY <1>1 DEF Dispatch, ReadOrder, Writing
  <2>2. UNCHANGED <<StockBefore, SoldBefore, PlacedBefore>>
    BY <2>1, DeskTablesStay DEF deskVars, tables
  <2> QED BY <2>1, <2>2 DEF deskVars, Desk!deskVars
<1> QED BY <1>1, ListsAsDesk, VerifiesAsDesk, InsertsAsDesk, UpdatesAsDesk, OthersAsDesk
       DEF Next, ServerStep

\* Statement by statement the server is the order desk of OrderDesk: whatever
\* statement fails because somebody holds the file, the tables and the answers
\* are those of a server that does each request in one step.
THEOREM IsOrderDesk ==
  ASSUME LockersOnly
  PROVE  Spec => ImplementsOrderDesk
<1>1. Init => Desk!DeskInit
  <2> SUFFICES ASSUME Init
               PROVE  Desk!DeskInit
    OBVIOUS
  <2>1. StockBefore = stock /\ SoldBefore = sold /\ PlacedBefore = placed
    BY InitServerInv, TablesAsTheyAre DEF Init, Writing
  <2> QED BY <2>1 DEF Init, DeskInit, Desk!DeskInit
<1>2. ServerInv /\ ServerInv' /\ LockedInv /\ [Next]_vars => [Desk!DeskNext]_(Desk!deskVars)
  BY StepAsDesk
<1> QED BY <1>1, <1>2, ServerInvariant, LockedInvariant, PTL
       DEF Spec, ImplementsOrderDesk, Desk!DeskSpec
=============================================================================
