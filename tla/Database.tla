------------------------------ MODULE Database -------------------------------
(***************************************************************************)
(* The database server (databaseServer.c), one SQL statement a step, and   *)
(* the database command line (dbCommandLine.c), with which somebody else   *)
(* works on the same file.                                                 *)
(*                                                                         *)
(* There is no transaction around the statements of a request and no busy  *)
(* timeout: each sqlite3_exec commits by itself, and fails at once when    *)
(* the other process holds a lock that excludes it.  A "reserved" lock     *)
(* (BEGIN IMMEDIATE) makes writing fail, an "exclusive" one reading too.   *)
(*                                                                         *)
(* The entries of an order are visited in any order: the code visits them  *)
(* in the order in which the client listed them.                           *)
(***************************************************************************)
EXTENDS OrderDesk, FiniteSets

CONSTANTS Cli,          \* what the command line's user does
          MaxRequests,  \* bound: requests sent to the server
          MaxEdits      \* bound: rows changed from the command line

\* A table has finitely many rows, and there is somewhere to deliver to.
ASSUME DatabaseAssumption ==
  /\ IsFiniteSet(Products) /\ Addresses # {}
  /\ Cli \subseteq {"reserved", "exclusive", "restock", "insert", "delete"}
  /\ MaxRequests \in Nat
  /\ MaxEdits \in Nat

VARIABLES
  pc,         \* the statement about to be executed
  order,      \* place_order: the order as it stands
  todo,       \* entries the current loop has still to visit
  satisfied,  \* verifyOrderStock: satisfied
  counted,    \* get_products: numProducts
  toDb,       \* the pipe on which requests arrive
  rows,       \* ids present in the products table
  cliLock,    \* the lock the command line holds on the file
  requests, edits, sub  \* the bounds' counters; the last sub-order handed out

cliVars == <<rows, cliLock, edits>>
askVars == <<requests, sub>>
vars    == <<deskVars, pc, order, todo, satisfied, counted, toDb, cliVars, askVars>>

NoOrder == OrderMsg(CHOOSE a \in Addresses : TRUE, [p \in {} |-> 0])
Places  == {"select", "count", "rows", "readOrder", "verify", "insertOrder", "insertEntry",
            "updateStock", "stopped", "crashed"}
Locks   == {"none", "reserved", "exclusive"}

CanRead  == cliLock # "exclusive"
CanWrite == cliLock = "none"

\* ensureWrite of the answer, and back to the main loop.
Reply(ms) == pc' = "select" /\ fromDb' = fromDb \o ms

\* The loops over an order's entries: p is done; after the last one, next.
NextEntry(p, next) ==
  IF todo = {p} THEN pc' = next /\ todo' = DOMAIN order.items
                ELSE pc' = pc   /\ todo' = todo \ {p}

-----------------------------------------------------------------------------
(* The server.                                                             *)

Dispatch ==
  /\ pc = "select" /\ toDb # <<>>
  /\ toDb' = Tail(toDb)
  /\ LET code == Head(toDb).type IN
       pc' = CASE code = "CMD_GET_PRODUCTS" -> "count"
               [] code = "CMD_PLACE_ORDER"  -> "readOrder"
               [] code = "MESSAGE_CLOSE"    -> "stopped"
               [] OTHER                     -> "select"
  /\ UNCHANGED <<deskVars, order, todo, satisfied, counted, cliVars, askVars>>

\* Mutant of CountProducts: send_products returns without writing MESSAGE_ERROR.
CountProductsSilent ==
  /\ pc = "count"
  /\ IF CanRead /\ rows # {}
       THEN pc' = "rows" /\ counted' = Cardinality(rows) /\ UNCHANGED fromDb
       ELSE Reply(<<>>) /\ UNCHANGED counted
  /\ UNCHANGED <<tables, order, todo, satisfied, toDb, cliVars, askVars>>

\* get_products: SELECT count(id).  No products is an error too.
CountProducts ==
  /\ pc = "count"
  /\ IF CanRead /\ rows # {}
       THEN pc' = "rows" /\ counted' = Cardinality(rows) /\ UNCHANGED fromDb
       ELSE Reply(<<Code("MESSAGE_ERROR")>>) /\ UNCHANGED counted
  /\ UNCHANGED <<tables, order, todo, satisfied, toDb, cliVars, askVars>>

\* get_products: SELECT id, ...; send_products writes as many products as were
\* counted.  With fewer rows it dereferences NULL; with more of them
\* append_products has written past the array, which shows or does not.
SelectProducts ==
  /\ pc = "rows"
  /\ \/ ~CanRead /\ Reply(<<Code("MESSAGE_ERROR")>>)
     \/ \E listed \in SUBSET rows :
          /\ CanRead /\ Cardinality(listed) = counted
          /\ Reply(<<ProductsMsg([p \in listed |-> stock[p]])>>)
     \/ /\ CanRead /\ Cardinality(rows) # counted
        /\ pc' = "crashed" /\ UNCHANGED fromDb
  /\ UNCHANGED <<tables, order, todo, satisfied, counted, toDb, cliVars, askVars>>

ReadOrder ==
  /\ pc = "readOrder" /\ toDb # <<>>
  /\ order' = Head(toDb)
  /\ toDb' = Tail(toDb)
  /\ todo' = DOMAIN Head(toDb).items
  /\ satisfied' = TRUE
  /\ pc' = "verify"
  /\ UNCHANGED <<deskVars, counted, cliVars, askVars>>

\* Mutant of GetStock: the result of the query is not looked at.
GetStockUnchecked(p) == IF CanRead /\ p \in rows THEN {stock[p]} ELSE Quantities

\* get_stock: -1 when the query fails; an uninitialised int when no row matches.
GetStock(p) == IF ~CanRead THEN {-1} ELSE IF p \in rows THEN {stock[p]} ELSE Quantities

\* Mutant of VerifyEntry: one too many is still enough.
VerifyEntryOffByOne(p) ==
  /\ pc = "verify" /\ p \in todo
  /\ \E s \in GetStock(p) :
       /\ satisfied' = (satisfied /\ s + 1 >= order.items[p])
       /\ order' = IF s + 1 < order.items[p] THEN [order EXCEPT !.items[p] = s] ELSE order
  /\ IF todo = {p} /\ ~satisfied'
       THEN /\ Reply(<<Code("MESSAGE_UNSATISFIABLE_ORDER"), order'>>)
            /\ todo' = {}
       ELSE NextEntry(p, "insertOrder") /\ UNCHANGED fromDb
  /\ UNCHANGED <<tables, counted, toDb, cliVars, askVars>>

\* verifyOrderStock, one entry.  The last one decides between storing the order
\* and returning the sub-order.
VerifyEntry(p) ==
  /\ pc = "verify" /\ p \in todo
  /\ \E s \in GetStock(p) :
       /\ satisfied' = (satisfied /\ s >= order.items[p])
       /\ order' = IF s < order.items[p] THEN [order EXCEPT !.items[p] = s] ELSE order
  /\ IF todo = {p} /\ ~satisfied'
       THEN /\ Reply(<<Code("MESSAGE_UNSATISFIABLE_ORDER"), order'>>)
            /\ todo' = {}
       ELSE NextEntry(p, "insertOrder") /\ UNCHANGED fromDb
  /\ UNCHANGED <<tables, counted, toDb, cliVars, askVars>>

\* A statement that fails ends the request with MESSAGE_ERROR; what the ones
\* before it did stays.
GiveUp ==
  /\ Reply(<<Code("MESSAGE_ERROR")>>)
  /\ todo' = {}
  /\ UNCHANGED tables

\* store_verified_order: INSERT INTO orders.
InsertOrder ==
  /\ pc = "insertOrder"
  /\ \/ ~CanWrite /\ GiveUp
     \/ /\ CanWrite
        /\ placed' = [placed EXCEPT ![order.address] = @ + 1]
        /\ pc' = "insertEntry"
        /\ UNCHANGED <<stock, sold, fromDb, todo>>
  /\ UNCHANGED <<order, satisfied, counted, toDb, cliVars, askVars>>

\* store_verified_order: INSERT INTO orderEntry.
InsertEntry(p) ==
  /\ pc = "insertEntry" /\ p \in todo
  /\ \/ ~CanWrite /\ GiveUp
     \/ /\ CanWrite
        /\ sold' = [sold EXCEPT ![p] = @ + order.items[p]]
        /\ NextEntry(p, "updateStock")
        /\ UNCHANGED <<stock, placed, fromDb>>
  /\ UNCHANGED <<order, satisfied, counted, toDb, cliVars, askVars>>

\* Mutant of Shortage: the table is created without its CHECK.
ShortageNever(p) == FALSE

\* UPDATE products: the CHECK of the table refuses a negative quantity; a row
\* that is not there is no error.
Shortage(p) == p \in rows /\ stock[p] < Taken(order.items[p])

TakeStock(p) == IF p \in rows THEN [stock EXCEPT ![p] = @ - Taken(order.items[p])] ELSE stock

\* Mutant of UpdateStock: update_stock returns 1 whatever happened.
UpdateStockIgnored(p) ==
  /\ pc = "updateStock" /\ p \in todo
  /\ stock' = IF CanWrite /\ ~Shortage(p) THEN TakeStock(p) ELSE stock
  /\ todo' = todo \ {p}
  /\ IF todo = {p} THEN Reply(<<Code("MESSAGE_OK")>>)
                   ELSE UNCHANGED <<pc, fromDb>>
  /\ UNCHANGED <<sold, placed, order, satisfied, counted, toDb, cliVars, askVars>>

\* update_stock, one entry.
UpdateStock(p) ==
  /\ pc = "updateStock" /\ p \in todo
  /\ \/ (~CanWrite \/ Shortage(p)) /\ GiveUp
     \/ /\ CanWrite /\ ~Shortage(p)
        /\ stock' = TakeStock(p)
        /\ todo' = todo \ {p}
        /\ IF todo = {p} THEN Reply(<<Code("MESSAGE_OK")>>)
                         ELSE UNCHANGED <<pc, fromDb>>
        /\ UNCHANGED <<sold, placed>>
  /\ UNCHANGED <<order, satisfied, counted, toDb, cliVars, askVars>>

-----------------------------------------------------------------------------
(* Who asks: the holder of the shared connection, one exchange at a time    *)
(* (Shop), and the main server when it stops.                              *)

Ask(ms) ==
  /\ pc = "select" /\ toDb = <<>> /\ fromDb = <<>>
  /\ requests < MaxRequests
  /\ requests' = requests + 1
  /\ toDb' = ms
  /\ UNCHANGED <<deskVars, pc, order, todo, satisfied, counted, cliVars, sub>>

AskProducts == Ask(<<Code("CMD_GET_PRODUCTS")>>)

\* A client lists at least one product, at least one of each (client.c:95-98 and
\* client.c:138-141), or repeats the sub-order it was sent.
AskOrder ==
  \/ \E a \in Addresses : \E S \in (SUBSET Products) \ {{}} : \E items \in [S -> 1 .. MaxStock] :
       Ask(<<Code("CMD_PLACE_ORDER"), OrderMsg(a, items)>>)
  \/ sub # NoOrder /\ Ask(<<Code("CMD_PLACE_ORDER"), sub>>)

AskClose == Ask(<<Code("MESSAGE_CLOSE")>>)

ReadAnswer ==
  /\ Collect
  /\ sub' = IF Head(fromDb).type = "ORDER" THEN Head(fromDb) ELSE sub
  /\ UNCHANGED <<pc, order, todo, satisfied, counted, toDb, cliVars, requests>>

-----------------------------------------------------------------------------
(* The command line: BEGIN and COMMIT, and single statements.              *)

Others == <<sold, placed, fromDb, pc, order, todo, satisfied, counted, toDb, askVars>>

CliBegin ==
  /\ cliLock = "none"
  /\ cliLock' \in Cli \cap {"reserved", "exclusive"}
  /\ UNCHANGED <<Others, stock, rows, edits>>

CliCommit ==
  /\ cliLock # "none"
  /\ cliLock' = "none"
  /\ UNCHANGED <<Others, stock, rows, edits>>

Edit ==
  /\ cliLock = "none" /\ edits < MaxEdits
  /\ edits' = edits + 1
  /\ UNCHANGED <<Others, cliLock>>

CliUpdate ==
  /\ "restock" \in Cli /\ Edit
  /\ \E p \in rows, n \in 0 .. MaxStock : stock' = [stock EXCEPT ![p] = n]
  /\ UNCHANGED rows

CliInsert ==
  /\ "insert" \in Cli /\ Edit
  /\ \E p \in Products \ rows, n \in 0 .. MaxStock :
       rows' = rows \cup {p} /\ stock' = [stock EXCEPT ![p] = n]

CliDelete ==
  /\ "delete" \in Cli /\ Edit
  /\ \E p \in rows : rows' = rows \ {p}
  /\ UNCHANGED stock

-----------------------------------------------------------------------------
\* init() has filled the products table.
Init ==
  /\ DeskInit
  /\ pc = "select"
  /\ order = NoOrder
  /\ todo = {}
  /\ satisfied = TRUE
  /\ counted = 0
  /\ toDb = <<>>
  /\ rows = Products
  /\ cliLock = "none"
  /\ requests = 0 /\ edits = 0 /\ sub = NoOrder

ServerStep ==
  \/ Dispatch \/ CountProducts \/ SelectProducts \/ ReadOrder \/ InsertOrder
  \/ \E p \in Products : VerifyEntry(p) \/ InsertEntry(p) \/ UpdateStock(p)

AskerStep == AskProducts \/ AskOrder \/ AskClose \/ ReadAnswer
CliStep   == CliBegin \/ CliCommit \/ CliUpdate \/ CliInsert \/ CliDelete

Next == ServerStep \/ AskerStep \/ CliStep

Spec == Init /\ [][Next]_vars

\* The server executes its next statement in the end: none of them waits for a
\* lock.  Nobody else has to do anything.
FairSpec == Spec /\ WF_vars(ServerStep)
==============================================================================
