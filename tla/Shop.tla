-------------------------------- MODULE Shop --------------------------------
(***************************************************************************)
(* Customers buying at the same time: client.c talking to one forked       *)
(* server per connection (forkedServer.c), all forked servers sharing one  *)
(* pair of pipes to the database server behind the process-shared mutex of *)
(* server/dbConn.c.                                                        *)
(*                                                                         *)
(* A session is named by its client.  cpc and spc are the places where the *)
(* client and its forked server can be overtaken by another process: the   *)
(* messages they send and wait for, and the mutex.  up and down are the    *)
(* two directions of the connection, toDb and fromDb the two pipes.  The   *)
(* database server answers in one step (OrderDesk; Database refines it).   *)
(*                                                                         *)
(* A products reply is one message: the count and the products that follow *)
(* it are written and read by loops of the same length, with nothing in    *)
(* between.  A signal arrives between two messages, never inside one.      *)
(*                                                                         *)
(* Processes never close what they inherit from main(): main() keeps every *)
(* accepted connection and all four pipe ends open.  So a client never     *)
(* sees the end of a server, nor a server that of the database: it waits.  *)
(* A server does see the end of its client.                                *)
(***************************************************************************)
EXTENDS OrderDesk, FiniteSets

CONSTANTS Clients,    \* clients, one connection each; also their delivery addresses
          Nowhere,    \* the address read out of a message that is not an order
          None,       \* no owner of the mutex
          Transport,  \* which of commWithSockets.c and commWithFIFOs.c is compiled
          Faults,     \* what may go wrong: a client gets SIGINT or SIGKILL,
                      \* another process locks the database file
          MaxTries    \* bound: how often a client submits

ASSUME ShopAssumption ==
  /\ Clients \subseteq Addresses
  /\ Nowhere \in Addresses \ Clients
  /\ None \notin Clients
  /\ Transport \in {"sockets", "fifos"}
  /\ Faults \subseteq {"sigint", "sigkill", "busy"}
  /\ MaxTries \in Nat

VARIABLES cpc, shelf, order, told, tries,  \* client: place, product list, order, outcome
          up, down,                        \* messages of each connection
          spc, sbuf,                       \* forked server: place, message in its hands
          mutex, toDb, db                  \* shared connection, database server

clientVars == <<cpc, shelf, order, told, tries>>
serverVars == <<spc, sbuf>>
vars == <<clientVars, up, down, serverVars, mutex, toDb, db, deskVars>>

\* Places of a client: before the connection; about to ask for the products;
\* waiting for them; at the menu; between the command and the order; waiting for
\* the answer; for the sub-order; about to disconnect; the process is over.
ClientPlaces == {"off", "hello", "fetch", "menu", "ordering", "reply", "sub", "quit", "gone"}

\* Places of a forked server between sh_conn_open and sh_conn_close.
Holding == {"pwrite", "pread", "owcode", "oword", "oread", "osend", "osub", "osendsub", "ounlock"}

\* The others: not forked; conn_receive in the main loop; getProducts before the
\* mutex; sending its result; conn_receive of the order; processOrder before the
\* mutex; MESSAGE_CLOSE received; exit(0); killed; in ensureRead at end of file.
ServerPlaces == Holding \cup {"none", "recv", "plock", "psend", "orecv", "olock",
                              "shut", "exited", "dead", "spin"}

EmptyOrder == [p \in {} |-> 0]

\* order.h: how many products one order can list.
ORDER_MAX_SIZE == 16

Running(c) == cpc[c] \notin {"off", "gone"}

-----------------------------------------------------------------------------
(* The client.                                                             *)

SendUp(c, ms) == up' = [up EXCEPT ![c] = @ \o ms]

\* conn_open against conn_accept and fork: both ends are in place.
Connect(c) ==
  /\ cpc[c] = "off"
  /\ cpc' = [cpc EXCEPT ![c] = "hello"]
  /\ spc' = [spc EXCEPT ![c] = "recv"]
  /\ UNCHANGED <<shelf, order, told, tries, up, down, sbuf, mutex, toDb, db, deskVars>>

RequestProducts(c) ==
  /\ cpc[c] = "hello"
  /\ SendUp(c, <<Code("CMD_GET_PRODUCTS")>>)
  /\ cpc' = [cpc EXCEPT ![c] = "fetch"]
  /\ UNCHANGED <<shelf, order, told, tries, down, serverVars, mutex, toDb, db, deskVars>>

ReceiveProducts(c) ==
  /\ cpc[c] = "fetch" /\ down[c] # <<>>
  /\ LET m == Head(down[c]) IN
       IF m.type = "PRODUCTS"
         THEN /\ shelf' = [shelf EXCEPT ![c] = m.shelf]
              /\ cpc' = [cpc EXCEPT ![c] = "menu"]
         ELSE /\ cpc' = [cpc EXCEPT ![c] = "quit"]
              /\ UNCHANGED shelf
  /\ down' = [down EXCEPT ![c] = Tail(@)]
  /\ UNCHANGED <<order, told, tries, up, serverVars, mutex, toDb, db, deskVars>>

\* Mutant of AddToOrder: the client's copy of the list stays as it is.
AddToOrderKeepStock(c, p, n) ==
  /\ cpc[c] = "menu"
  /\ n <= shelf[c][p]
  /\ p \in DOMAIN order[c] \/ Cardinality(DOMAIN order[c]) < ORDER_MAX_SIZE
  /\ order' = [order EXCEPT ![c] =
       [q \in DOMAIN @ \cup {p} |->
          IF q # p THEN @[q] ELSE IF p \in DOMAIN @ THEN @[p] + n ELSE n]]
  /\ UNCHANGED <<cpc, shelf, told, tries, up, down, serverVars, mutex, toDb, db, deskVars>>

\* addToOrder: at most what the client's own copy of the list still shows, and a
\* product more only while the order has room (orderAdd).
AddToOrder(c, p, n) ==
  /\ cpc[c] = "menu"
  /\ n <= shelf[c][p]
  /\ p \in DOMAIN order[c] \/ Cardinality(DOMAIN order[c]) < ORDER_MAX_SIZE
  /\ order' = [order EXCEPT ![c] =
       [q \in DOMAIN @ \cup {p} |->
          IF q # p THEN @[q] ELSE IF p \in DOMAIN @ THEN @[p] + n ELSE n]]
  /\ shelf' = [shelf EXCEPT ![c][p] = @ - n]
  /\ UNCHANGED <<cpc, told, tries, up, down, serverVars, mutex, toDb, db, deskVars>>

\* submitOrder sends the command and the order as two messages.
SubmitCommand(c) ==
  /\ cpc[c] = "menu"
  /\ DOMAIN order[c] # {}
  /\ tries[c] < MaxTries
  /\ tries' = [tries EXCEPT ![c] = @ + 1]
  /\ SendUp(c, <<Code("CMD_PLACE_ORDER")>>)
  /\ cpc' = [cpc EXCEPT ![c] = "ordering"]
  /\ UNCHANGED <<shelf, order, told, down, serverVars, mutex, toDb, db, deskVars>>

SubmitOrder(c) ==
  /\ cpc[c] = "ordering"
  /\ SendUp(c, <<OrderMsg(c, order[c])>>)
  /\ cpc' = [cpc EXCEPT ![c] = "reply"]
  /\ UNCHANGED <<shelf, order, told, tries, down, serverVars, mutex, toDb, db, deskVars>>

\* Mutant of ReceiveReply: only MESSAGE_ERROR is told from success.
ReceiveReplyErrorOnly(c) ==
  /\ cpc[c] = "reply" /\ down[c] # <<>>
  /\ cpc' = [cpc EXCEPT ![c] = "quit"]
  /\ told' = [told EXCEPT ![c] =
                IF Head(down[c]).type = "MESSAGE_ERROR" THEN "error" ELSE "placed"]
  /\ down' = [down EXCEPT ![c] = Tail(@)]
  /\ UNCHANGED <<shelf, order, tries, up, serverVars, mutex, toDb, db, deskVars>>

\* Whatever is neither MESSAGE_ERROR nor MESSAGE_UNSATISFIABLE_ORDER is success.
ReceiveReply(c) ==
  /\ cpc[c] = "reply" /\ down[c] # <<>>
  /\ LET code == Head(down[c]).type IN
       IF code = "MESSAGE_UNSATISFIABLE_ORDER"
         THEN cpc' = [cpc EXCEPT ![c] = "sub"] /\ UNCHANGED told
         ELSE /\ cpc' = [cpc EXCEPT ![c] = "quit"]
              /\ told' = [told EXCEPT ![c] = IF code = "MESSAGE_ERROR" THEN "error" ELSE "placed"]
  /\ down' = [down EXCEPT ![c] = Tail(@)]
  /\ UNCHANGED <<shelf, order, tries, up, serverVars, mutex, toDb, db, deskVars>>

\* The sub-order replaces the order; the list of products is not fetched again.
ReceiveSubOrder(c) ==
  /\ cpc[c] = "sub" /\ down[c] # <<>>
  /\ order' = [order EXCEPT ![c] = Head(down[c]).items]
  /\ down' = [down EXCEPT ![c] = Tail(@)]
  /\ cpc' = [cpc EXCEPT ![c] = "menu"]
  /\ UNCHANGED <<shelf, told, tries, up, serverVars, mutex, toDb, db, deskVars>>

Quit(c) ==
  /\ cpc[c] = "menu"
  /\ cpc' = [cpc EXCEPT ![c] = "quit"]
  /\ UNCHANGED <<shelf, order, told, tries, up, down, serverVars, mutex, toDb, db, deskVars>>

\* disconnect() sends MESSAGE_CLOSE; the sockets' conn_close sends another one.
SayGoodbye(c) ==
  /\ SendUp(c, IF Transport = "sockets"
                 THEN <<Code("MESSAGE_CLOSE"), Code("MESSAGE_CLOSE")>>
                 ELSE <<Code("MESSAGE_CLOSE")>>)
  /\ cpc' = [cpc EXCEPT ![c] = "gone"]
  /\ UNCHANGED <<shelf, order, told, tries, down, serverVars, mutex, toDb, db, deskVars>>

Disconnect(c) ==
  /\ cpc[c] = "quit"
  /\ SayGoodbye(c)

\* SIGINT: the handler disconnects wherever the program is.
Interrupt(c) ==
  /\ "sigint" \in Faults
  /\ Running(c)
  /\ SayGoodbye(c)

\* SIGKILL, or any end that runs no handler.
Kill(c) ==
  /\ "sigkill" \in Faults
  /\ Running(c)
  /\ cpc' = [cpc EXCEPT ![c] = "gone"]
  /\ UNCHANGED <<shelf, order, told, tries, up, down, serverVars, mutex, toDb, db, deskVars>>

-----------------------------------------------------------------------------
(* The forked server.                                                      *)

Go(c, place) == spc' = [spc EXCEPT ![c] = place]
Hand(c, m)   == sbuf' = [sbuf EXCEPT ![c] = m]

\* conn_send to the client.  With the reader gone a FIFO raises SIGPIPE, which
\* no one handles; a socket does so once the client's kernel has said so, and
\* swallows the message before that.
SendDown(c, m, next) ==
  \/ /\ cpc[c] # "gone"
     /\ down' = [down EXCEPT ![c] = Append(@, m)]
     /\ Go(c, next)
  \/ /\ cpc[c] = "gone"
     /\ \/ Go(c, "dead")
        \/ Transport = "sockets" /\ Go(c, next)
     /\ UNCHANGED down

\* Mutant of ReceiveCode: MESSAGE_CLOSE falls into the default case.
ReceiveCodeNoClose(c) ==
  /\ spc[c] = "recv" /\ up[c] # <<>>
  /\ up' = [up EXCEPT ![c] = Tail(@)]
  /\ LET code == Head(up[c]).type IN
       Go(c, CASE code = "CMD_GET_PRODUCTS" -> "plock"
               [] code = "CMD_PLACE_ORDER"  -> "orecv"
               [] OTHER                     -> "recv")
  /\ UNCHANGED <<clientVars, down, sbuf, mutex, toDb, db, deskVars>>

\* The main loop of forkedServer: conn_receive and the switch.
ReceiveCode(c) ==
  /\ spc[c] = "recv" /\ up[c] # <<>>
  /\ up' = [up EXCEPT ![c] = Tail(@)]
  /\ LET code == Head(up[c]).type IN
       Go(c, CASE code = "CMD_GET_PRODUCTS" -> "plock"
               [] code = "CMD_PLACE_ORDER"  -> "orecv"
               [] code = "MESSAGE_CLOSE"    -> "shut"
               [] OTHER                     -> "recv")
  /\ UNCHANGED <<clientVars, down, sbuf, mutex, toDb, db, deskVars>>

\* conn_receive when the client has gone without MESSAGE_CLOSE: read() returns 0
\* and ensureRead tries again, for ever.  A connection that was reset makes it
\* fail instead, and the loop then uses the pointer conn_receive did not set.
ReadEndOfFile(c) ==
  /\ spc[c] \in {"recv", "orecv"}
  /\ up[c] = <<>> /\ cpc[c] = "gone"
  /\ \/ Go(c, "spin")
     \/ Transport = "sockets" /\ spc[c] = "recv" /\ Go(c, "dead")
  /\ UNCHANGED <<clientVars, up, down, sbuf, mutex, toDb, db, deskVars>>

\* Mutant of OpenConnection: a mutex that is not process-shared keeps nobody out.
OpenConnectionUnshared(c) ==
  /\ spc[c] \in {"plock", "olock"}
  /\ mutex' = c
  /\ Go(c, IF spc[c] = "plock" THEN "pwrite" ELSE "owcode")
  /\ UNCHANGED <<clientVars, up, down, sbuf, toDb, db, deskVars>>

\* sh_conn_open: pthread_mutex_lock.
OpenConnection(c) ==
  /\ spc[c] \in {"plock", "olock"}
  /\ mutex = None
  /\ mutex' = c
  /\ Go(c, IF spc[c] = "plock" THEN "pwrite" ELSE "owcode")
  /\ UNCHANGED <<clientVars, up, down, sbuf, toDb, db, deskVars>>

\* getProducts: the request.
AskForProducts(c) ==
  /\ spc[c] = "pwrite"
  /\ toDb' = Append(toDb, Code("CMD_GET_PRODUCTS"))
  /\ Go(c, "pread")
  /\ UNCHANGED <<clientVars, up, down, sbuf, mutex, db, deskVars>>

\* getProducts: the answer.  MESSAGE_ERROR takes the early return, past
\* sh_conn_close.
ReadProducts(c) ==
  /\ spc[c] = "pread" /\ fromDb # <<>>
  /\ Collect
  /\ Hand(c, Head(fromDb))
  /\ mutex' = IF Head(fromDb).type = "MESSAGE_ERROR" THEN mutex ELSE None
  /\ Go(c, "psend")
  /\ UNCHANGED <<clientVars, up, down, toDb, db>>

\* sendProducts passes the result on.
SendProducts(c) ==
  /\ spc[c] = "psend"
  /\ SendDown(c, sbuf[c], "recv")
  /\ UNCHANGED <<clientVars, up, sbuf, mutex, toDb, db, deskVars>>

\* processOrder takes the next message for the order, whatever it is.
ReceiveOrder(c) ==
  /\ spc[c] = "orecv" /\ up[c] # <<>>
  /\ Hand(c, Head(up[c]))
  /\ up' = [up EXCEPT ![c] = Tail(@)]
  /\ Go(c, "olock")
  /\ UNCHANGED <<clientVars, down, mutex, toDb, db, deskVars>>

ForwardCommand(c) ==
  /\ spc[c] = "owcode"
  /\ toDb' = Append(toDb, Code("CMD_PLACE_ORDER"))
  /\ Go(c, "oword")
  /\ UNCHANGED <<clientVars, up, down, sbuf, mutex, db, deskVars>>

\* Mutant of ForwardOrder: the connection is closed before the answer is read.
ForwardOrderAndClose(c) ==
  /\ spc[c] = "oword"
  /\ toDb' = Append(toDb, sbuf[c])
  /\ mutex' = None
  /\ Go(c, "oread")
  /\ UNCHANGED <<clientVars, up, down, sbuf, db, deskVars>>

ForwardOrder(c) ==
  /\ spc[c] = "oword"
  /\ toDb' = Append(toDb, sbuf[c])
  /\ Go(c, "oread")
  /\ UNCHANGED <<clientVars, up, down, sbuf, mutex, db, deskVars>>

\* The answer's code, then the sub-order if the code announces one, are read
\* from the database and sent to the client with the mutex held.
ReadAnswer(c) ==
  /\ spc[c] \in {"oread", "osub"} /\ fromDb # <<>>
  /\ Collect
  /\ Hand(c, Head(fromDb))
  /\ Go(c, IF spc[c] = "oread" THEN "osend" ELSE "osendsub")
  /\ UNCHANGED <<clientVars, up, down, mutex, toDb, db>>

\* Mutant of SendAnswer: the sub-order stays in the pipe.
SendAnswerCodeOnly(c) ==
  /\ spc[c] \in {"osend", "osendsub"}
  /\ SendDown(c, sbuf[c], "ounlock")
  /\ UNCHANGED <<clientVars, up, sbuf, mutex, toDb, db, deskVars>>

SendAnswer(c) ==
  /\ spc[c] \in {"osend", "osendsub"}
  /\ SendDown(c, sbuf[c],
              IF sbuf[c].type = "MESSAGE_UNSATISFIABLE_ORDER" THEN "osub" ELSE "ounlock")
  /\ UNCHANGED <<clientVars, up, sbuf, mutex, toDb, db, deskVars>>

\* Mutant of CloseConnection: sh_conn_close is forgotten.
CloseConnectionNever(c) ==
  /\ spc[c] = "ounlock"
  /\ Go(c, "recv")
  /\ UNCHANGED <<clientVars, up, down, sbuf, mutex, toDb, db, deskVars>>

\* sh_conn_close at the end of processOrder.
CloseConnection(c) ==
  /\ spc[c] = "ounlock"
  /\ mutex' = None
  /\ Go(c, "recv")
  /\ UNCHANGED <<clientVars, up, down, sbuf, toDb, db, deskVars>>

\* shut_down and exit(0).  The sockets' conn_close first sends MESSAGE_CLOSE to
\* a client that no longer reads: it is lost or kills the server on its last step.
ShutDown(c) ==
  /\ spc[c] = "shut"
  /\ \/ Go(c, "exited")
     \/ Transport = "sockets" /\ Go(c, "dead")
  /\ UNCHANGED <<clientVars, up, down, sbuf, mutex, toDb, db, deskVars>>

-----------------------------------------------------------------------------
(* The database server.  With "busy" another process holds locks on the    *)
(* database file: statements fail.                                         *)

Unread(items) == IF "busy" \in Faults THEN SUBSET DOMAIN items ELSE {{}}

AnswerOrder(a, items) ==
  \E unread \in Unread(items) :
    \/ Accept(a, items, unread)
    \/ Refuse(a, items, unread)
    \/ "busy" \in Faults /\ Fail(a, items, unread)

DbReadCode ==
  /\ db = "idle" /\ toDb # <<>>
  /\ toDb' = Tail(toDb)
  /\ \/ /\ Head(toDb).type = "CMD_GET_PRODUCTS"
        /\ ListProducts \/ ("busy" \in Faults /\ ListFails)
        /\ UNCHANGED db
     \/ /\ Head(toDb).type = "CMD_PLACE_ORDER"
        /\ db' = "order"
        /\ UNCHANGED deskVars
  /\ UNCHANGED <<clientVars, up, down, serverVars, mutex>>

DbReadOrder ==
  /\ db = "order" /\ toDb # <<>>
  /\ toDb' = Tail(toDb)
  /\ Head(toDb).type = "ORDER"
  /\ AnswerOrder(Head(toDb).address, Head(toDb).items)
  /\ db' = "idle"
  /\ UNCHANGED <<clientVars, up, down, serverVars, mutex>>

\* orderUnserialize on a message that is not an order reads past its end: it
\* crashes or finds some order there.
DbReadJunk ==
  /\ db = "order" /\ toDb # <<>>
  /\ toDb' = Tail(toDb)
  /\ Head(toDb).type # "ORDER"
  /\ \/ db' = "down" /\ UNCHANGED deskVars
     \/ \E items \in Items : AnswerOrder(Nowhere, items) /\ db' = "idle"
  /\ UNCHANGED <<clientVars, up, down, serverVars, mutex>>

-----------------------------------------------------------------------------
Init ==
  /\ DeskInit
  /\ cpc = [c \in Clients |-> "off"]
  /\ shelf = [c \in Clients |-> [p \in Products |-> 0]]
  /\ order = [c \in Clients |-> EmptyOrder]
  /\ told = [c \in Clients |-> "nothing"]
  /\ tries = [c \in Clients |-> 0]
  /\ up = [c \in Clients |-> <<>>]
  /\ down = [c \in Clients |-> <<>>]
  /\ spc = [c \in Clients |-> "none"]
  /\ sbuf = [c \in Clients |-> Code("MESSAGE_OK")]
  /\ mutex = None
  /\ toDb = <<>>
  /\ db = "idle"

\* What the client program does by itself, what its user and the world do to it,
\* what its forked server does, and the database server.
ClientStep(c) ==
  \/ RequestProducts(c) \/ ReceiveProducts(c) \/ SubmitOrder(c)
  \/ ReceiveReply(c) \/ ReceiveSubOrder(c) \/ Disconnect(c)

UserStep(c) ==
  \/ Connect(c) \/ SubmitCommand(c) \/ Quit(c) \/ Interrupt(c) \/ Kill(c)
  \/ \E p \in Products, n \in 1 .. MaxStock : AddToOrder(c, p, n)

ServerStep(c) ==
  \/ ReceiveCode(c) \/ ReadEndOfFile(c) \/ OpenConnection(c)
  \/ AskForProducts(c) \/ ReadProducts(c) \/ SendProducts(c)
  \/ ReceiveOrder(c) \/ ForwardCommand(c) \/ ForwardOrder(c)
  \/ ReadAnswer(c) \/ SendAnswer(c) \/ CloseConnection(c) \/ ShutDown(c)

DbStep == DbReadCode \/ DbReadOrder \/ DbReadJunk

Next ==
  \/ \E c \in Clients : ClientStep(c) \/ UserStep(c) \/ ServerStep(c)
  \/ DbStep

Spec == Init /\ [][Next]_vars

\* Every process runs: whatever it can do by itself it does in the end.  Users
\* owe nothing.  Nobody is starved at the mutex, because each client asks a
\* bounded number of times.
FairSpec ==
  /\ Spec
  /\ \A c \in Clients : WF_vars(ClientStep(c)) /\ WF_vars(ServerStep(c))
  /\ WF_vars(DbStep)
==============================================================================
