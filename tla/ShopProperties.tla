--------------------------- MODULE ShopProperties ---------------------------
(***************************************************************************)
(* What must hold of Shop, whatever its customers do and whatever happens  *)
(* to them.                                                                *)
(***************************************************************************)
EXTENDS Shop, FiniteSetsExt

-----------------------------------------------------------------------------
(* Types.                                                                  *)

StatusCodes == {Code(n) : n \in {"MESSAGE_OK", "MESSAGE_CLOSE", "CMD_GET_PRODUCTS",
                                 "CMD_PLACE_ORDER", "MESSAGE_ERROR",
                                 "MESSAGE_UNSATISFIABLE_ORDER"}}
Shelves    == [Products -> 0 .. MaxStock]
Messages   == StatusCodes
              \cup [type : {"PRODUCTS"}, shelf : Shelves]
              \cup [type : {"ORDER"}, address : Addresses, items : Items]

\* Every variable keeps its type: in particular no order takes a quantity below
\* zero (the CHECK of databaseServer.c:290), and no client orders more than was
\* ever on the shelf, sub-orders and what it adds to them included
\* (client.c:131-155).
TypeOK ==
  /\ stock \in Shelves
  /\ sold \in [Products -> Int]
  /\ placed \in [Addresses -> Nat]
  /\ fromDb \in Seq(Messages)
  /\ cpc \in [Clients -> ClientPlaces]
  /\ shelf \in [Clients -> Shelves]
  /\ order \in [Clients -> Items]
  /\ told \in [Clients -> {"nothing", "placed", "error"}]
  /\ tries \in [Clients -> 0 .. MaxTries]
  /\ up \in [Clients -> Seq(Messages)]
  /\ down \in [Clients -> Seq(Messages)]
  /\ spc \in [Clients -> ServerPlaces]
  /\ sbuf \in [Clients -> Messages]
  /\ mutex \in Clients \cup {None}
  /\ toDb \in Seq(Messages)
  /\ db \in {"idle", "order", "down"}

-----------------------------------------------------------------------------
(* Safety.                                                                 *)

\* What is on the pipes while c, at this place, holds the mutex.
ProductsFailed  == fromDb = <<Code("MESSAGE_ERROR")>>
ProductsArrived == Len(fromDb) = 1 /\ Head(fromDb).type = "PRODUCTS"
OrderAnswered   == \/ fromDb \in {<<Code("MESSAGE_OK")>>, <<Code("MESSAGE_ERROR")>>}
                   \/ /\ Len(fromDb) = 2
                      /\ fromDb[1] = Code("MESSAGE_UNSATISFIABLE_ORDER")
                      /\ fromDb[2].type = "ORDER"
SubOrderArrived == Len(fromDb) = 1 /\ Head(fromDb).type = "ORDER"
Quiet           == toDb = <<>> /\ fromDb = <<>> /\ db = "idle"

ExchangeAt(c) ==
  CASE spc[c] = "pread"  ->
         /\ db = "idle"
         /\ \/ toDb = <<Code("CMD_GET_PRODUCTS")>> /\ fromDb = <<>>
            \/ toDb = <<>> /\ (ProductsFailed \/ ProductsArrived)
    [] spc[c] = "oword"  ->
         /\ fromDb = <<>>
         /\ \/ toDb = <<Code("CMD_PLACE_ORDER")>> /\ db = "idle"
            \/ toDb = <<>> /\ db = "order"
    [] spc[c] = "oread"  ->
         \/ toDb = <<Code("CMD_PLACE_ORDER"), sbuf[c]>> /\ fromDb = <<>> /\ db = "idle"
         \/ toDb = <<sbuf[c]>> /\ fromDb = <<>> /\ db = "order"
         \/ toDb = <<>> /\ fromDb = <<>> /\ db = "down"
         \/ toDb = <<>> /\ OrderAnswered /\ db = "idle"
    [] spc[c] = "osend"  ->
         /\ toDb = <<>> /\ db = "idle"
         /\ \/ sbuf[c] \in {Code("MESSAGE_OK"), Code("MESSAGE_ERROR")} /\ fromDb = <<>>
            \/ sbuf[c] = Code("MESSAGE_UNSATISFIABLE_ORDER") /\ SubOrderArrived
    [] spc[c] = "osub"   -> toDb = <<>> /\ SubOrderArrived /\ db = "idle"
    [] spc[c] = "osendsub" -> Quiet /\ sbuf[c].type = "ORDER"
    [] spc[c] = "dead"   -> toDb = <<>> /\ db = "idle"
    [] OTHER -> Quiet

\* The shared connection (server/dbConn.h:46-61): a server that talks to the
\* database holds the mutex; with the mutex free both pipes are empty and the
\* database waits for a command; while it is held, the pipes carry the holder's
\* own exchange and nothing else, so no server ever reads another's answer, a
\* leftover of an earlier exchange, or the wrong half of its own.
ExchangeDiscipline ==
  /\ \A c \in Clients : spc[c] \in Holding => mutex = c
  /\ mutex = None => Quiet
  /\ \A c \in Clients : mutex = c => ExchangeAt(c)

\* m is client c's order, cut down and not added to.
CutDown(c, m) ==
  /\ m.type = "ORDER" /\ m.address = c
  /\ DOMAIN m.items = DOMAIN order[c]
  /\ \A p \in DOMAIN order[c] : m.items[p] <= order[c][p]

\* A client reads only what answers the request it is waiting on, and a
\* sub-order is its own order, cut down and not added to (client.c:240-259),
\* whatever happens to the other clients.
AnswersAreMine ==
  \A c \in Clients :
    /\ cpc[c] \in {"off", "hello", "menu", "ordering", "quit"} => down[c] = <<>>
    /\ cpc[c] = "fetch" /\ down[c] # <<>> =>
         Head(down[c]).type \in {"PRODUCTS", "MESSAGE_ERROR"}
    /\ cpc[c] = "reply" /\ down[c] # <<>> =>
         Head(down[c]).type \in {"MESSAGE_OK", "MESSAGE_ERROR", "MESSAGE_UNSATISFIABLE_ORDER"}
    /\ cpc[c] = "sub" /\ down[c] # <<>> => CutDown(c, Head(down[c]))

\* What is under way between a connected client and its server, by what the
\* client is doing.
ProductsUnderWay(c) ==
  \/ /\ up[c] = <<Code("CMD_GET_PRODUCTS")>> /\ down[c] = <<>> /\ spc[c] = "recv"
  \/ /\ up[c] = <<>> /\ down[c] = <<>> /\ spc[c] \in {"plock", "pwrite", "pread"}
  \/ /\ up[c] = <<>> /\ down[c] = <<>> /\ spc[c] = "psend"
     /\ sbuf[c].type \in {"PRODUCTS", "MESSAGE_ERROR"}
  \/ /\ up[c] = <<>> /\ Len(down[c]) = 1 /\ spc[c] = "recv"
     /\ Head(down[c]).type \in {"PRODUCTS", "MESSAGE_ERROR"}

Between(c) == spc[c] \in {"recv", "ounlock"}

SubOrderUnderWay(c) ==
  \/ /\ down[c] = <<>> /\ spc[c] = "osub" /\ CutDown(c, Head(fromDb))
  \/ /\ down[c] = <<>> /\ spc[c] = "osendsub" /\ CutDown(c, sbuf[c])
  \/ /\ Len(down[c]) = 1 /\ Between(c) /\ CutDown(c, Head(down[c]))

Answered(c) ==
  \/ /\ down[c] \in {<<Code("MESSAGE_OK")>>, <<Code("MESSAGE_ERROR")>>} /\ Between(c)
  \/ /\ down[c] = <<Code("MESSAGE_UNSATISFIABLE_ORDER")>>
     /\ \/ spc[c] = "osub" /\ CutDown(c, Head(fromDb))
        \/ spc[c] = "osendsub" /\ CutDown(c, sbuf[c])
  \/ /\ Len(down[c]) = 2 /\ Between(c)
     /\ down[c][1] = Code("MESSAGE_UNSATISFIABLE_ORDER")
     /\ CutDown(c, down[c][2])

OrderUnderWay(c) ==
  LET o == OrderMsg(c, order[c]) IN
  \/ /\ down[c] = <<>>
     /\ \/ up[c] = <<Code("CMD_PLACE_ORDER"), o>> /\ Between(c)
        \/ up[c] = <<o>> /\ spc[c] = "orecv"
        \/ up[c] = <<>> /\ spc[c] \in {"olock", "owcode", "oword"} /\ sbuf[c] = o
        \/ /\ up[c] = <<>> /\ spc[c] = "oread" /\ sbuf[c] = o
           /\ Len(fromDb) = 2 => CutDown(c, fromDb[2])
        \/ /\ up[c] = <<>> /\ spc[c] = "osend"
           /\ fromDb # <<>> => CutDown(c, Head(fromDb))
  \/ up[c] = <<>> /\ Answered(c)

\* At each place of the client there is exactly one command or one answer on its
\* way, in one of the few places it can be, and everything else is empty.
SessionAt(c) ==
  /\ cpc[c] = "off"   => spc[c] = "none" /\ up[c] = <<>> /\ down[c] = <<>>
  /\ cpc[c] = "hello" => spc[c] = "recv" /\ up[c] = <<>> /\ down[c] = <<>>
  /\ cpc[c] = "fetch" => ProductsUnderWay(c)
  /\ cpc[c] \in {"menu", "quit"} => Between(c) /\ up[c] = <<>> /\ down[c] = <<>>
  /\ cpc[c] = "ordering" =>
       /\ down[c] = <<>>
       /\ \/ up[c] = <<Code("CMD_PLACE_ORDER")>> /\ Between(c)
          \/ up[c] = <<>> /\ spc[c] = "orecv"
  /\ cpc[c] = "reply" => OrderUnderWay(c)
  /\ cpc[c] = "sub" => up[c] = <<>> /\ SubOrderUnderWay(c)

\* A connected client and its server never get out of step (client.c:181-260,
\* forkedServer.c:24-109), whatever happens to the other sessions.
SessionDiscipline == \A c \in Clients : SessionAt(c)

\* What a client ordered and what its list still shows were once on the shelf
\* together (client.c:131-155): the reason why no order outgrows MaxStock.
CartFits ==
  \A c \in Clients :
    /\ cpc[c] \in {"off", "hello", "fetch"} => order[c] = EmptyOrder
    /\ \A p \in DOMAIN order[c] : order[c][p] + shelf[c][p] <= MaxStock

\* One session never places two orders, and a customer who was told "Order
\* placed" has one (client.c:108-111), whatever happens to others.
OneOrderPerReceipt ==
  \A c \in Clients : /\ placed[c] <= 1
                     /\ told[c] = "placed" => placed[c] = 1

\* Once nobody waits for an answer, the entries sold are exactly those of the
\* customers who were told so: no order is stored and not acknowledged, lost
\* after it was acknowledged, or stored with other quantities than the client's.
Waiting(c) == cpc[c] \in {"ordering", "reply", "sub"}
Bought(c, p) == IF told[c] = "placed" /\ p \in DOMAIN order[c] THEN order[c][p] ELSE 0

ReceiptsMatchTables ==
  (\A c \in Clients : ~Waiting(c)) =>
    \A p \in Products :
      /\ sold[p] = MapThenSumSet(LAMBDA c : Bought(c, p), Clients)
      /\ stock[p] = InitialStock[p] - sold[p]

\* Rows are written only for the server that holds the shared connection and
\* waits for the answer, in its client's name.
RowsAreTheHolders ==
  [][tables' # tables =>
       /\ mutex \in Clients /\ spc[mutex] \in {"oread"}
       /\ placed' = [placed EXCEPT ![mutex] = @ + 1]]_vars

-----------------------------------------------------------------------------
(* Liveness, under FairSpec.                                               *)

\* A client that asked for the products or submitted an order gets an answer.
RequestsAnswered ==
  \A c \in Clients : cpc[c] \in {"fetch", "ordering", "reply", "sub"}
                       ~> cpc[c] \in {"menu", "quit", "gone"}

\* When a client has gone its forked server ends.
SessionsEnd ==
  \A c \in Clients : cpc[c] = "gone" ~> spc[c] \in {"exited", "dead"}

\* server/dbConn.h:46-47, "WILL LOCK if the connection is busy until it frees
\* up": a server that waits at sh_conn_open is let through.
BusyConnectionFreesUp ==
  \A c \in Clients : spc[c] \in {"plock", "olock"} ~> spc[c] \notin {"plock", "olock"}

\* common/lib.h:20, ensureRead returns "1 If the read was completed successfully
\* or 0 on error": it returns, also when the client is gone.
EnsureReadReturns ==
  \A c \in Clients : cpc[c] = "gone" /\ spc[c] = "recv" ~> spc[c] \in {"plock", "orecv", "shut", "dead"}
==============================================================================
