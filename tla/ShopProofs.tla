----------------------------- MODULE ShopProofs -----------------------------
(***************************************************************************)
(* For every set of clients and products, with either transport and        *)
(* whatever faults: the shared connection is used by one server at a time, *)
(* every session stays in step, and a client gets answers to its own       *)
(* requests only.                                                          *)
(*                                                                         *)
(* The four parts of the inductive invariant IInv need one another.  That  *)
(* an answer is the client's own follows from SessionDiscipline, which     *)
(* needs ExchangeDiscipline where a server reads from the database; a      *)
(* sub-order replaces an order and keeps CartFits because it is its cut    *)
(* down form; and no order outgrows MaxStock because of CartFits.          *)
(***************************************************************************)
EXTENDS ShopProperties, SequenceTheorems, TLAPS

-----------------------------------------------------------------------------
(* Sequences of one and two messages, the only ones on any channel.        *)

\* A sequence of length one is its element.
LEMMA SeqOfOne ==
  ASSUME NEW M, NEW s \in Seq(M), Len(s) = 1
  PROVE  s = <<s[1]>>
  OBVIOUS

\* A sequence of length two is its two elements.
LEMMA SeqOfTwo ==
  ASSUME NEW M, NEW s \in Seq(M), Len(s) = 2
  PROVE  s = <<s[1], s[2]>>
  OBVIOUS

\* After its only message has been read a channel is empty.
LEMMA TailOfOne ==
  ASSUME NEW M, NEW s \in Seq(M), Len(s) = 1
  PROVE  Tail(s) = <<>>
<1>1. s # <<>>
  BY EmptySeq
<1>2. Tail(s) \in Seq(M) /\ Len(Tail(s)) = 0
  BY <1>1, HeadTailProperties
<1> QED BY <1>2, EmptySeq

\* After the code of an unsatisfiable order, the sub-order is left.
LEMMA TailOfTwo ==
  ASSUME NEW M, NEW s \in Seq(M), Len(s) = 2
  PROVE  Tail(s) = <<s[2]>>
<1>1. s # <<>>
  BY EmptySeq
<1>2. Tail(s) \in Seq(M) /\ Len(Tail(s)) = 1 /\ Tail(s)[1] = s[2]
  BY <1>1, HeadTailProperties
<1> QED BY <1>2, SeqOfOne

\* A message written behind another one.
LEMMA AppendToOne ==
  ASSUME NEW a, NEW b
  PROVE  Append(<<a>>, b) = <<a, b>>
<1> DEFINE s == Append(<<a>>, b)
<1>1. <<a>> \in Seq({a, b})
  OBVIOUS
<1>2. s \in Seq({a, b}) /\ Len(s) = 2 /\ s[1] = a /\ s[2] = b
  BY <1>1, AppendProperties
<1> HIDE DEF s
<1>3. s = <<s[1], s[2]>>
  BY <1>2, SeqOfTwo
<1> QED BY <1>2, <1>3 DEF s

\* Two single messages written one after the other.
LEMMA ConcatOneAndOne ==
  ASSUME NEW a, NEW b
  PROVE  <<a>> \o <<b>> = <<a, b>>
<1> DEFINE s == <<a>> \o <<b>>
<1>1. <<a>> \in Seq({a, b}) /\ <<b>> \in Seq({a, b})
  OBVIOUS
<1>2. s \in Seq({a, b}) /\ Len(s) = 2 /\ s[1] = a /\ s[2] = b
  BY <1>1, ConcatProperties
<1> HIDE DEF s
<1>3. s = <<s[1], s[2]>>
  BY <1>2, SeqOfTwo
<1> QED BY <1>2, <1>3 DEF s

-----------------------------------------------------------------------------
(* Messages and orders.                                                    *)

\* A client starts with an order of no entries.
LEMMA EmptyOrderIsOrder == EmptyOrder \in Items /\ DOMAIN EmptyOrder = {}
  BY DEF EmptyOrder, Items

\* Every code that is sent is a message.
LEMMA CodesAreMessages ==
  /\ Code("MESSAGE_OK") \in Messages
  /\ Code("MESSAGE_CLOSE") \in Messages
  /\ Code("CMD_GET_PRODUCTS") \in Messages
  /\ Code("CMD_PLACE_ORDER") \in Messages
  /\ Code("MESSAGE_ERROR") \in Messages
  /\ Code("MESSAGE_UNSATISFIABLE_ORDER") \in Messages
  BY DEF Messages, StatusCodes

\* The type of a message tells what data it carries.
LEMMA MessagesByType ==
  ASSUME NEW m \in Messages
  PROVE  /\ m.type = "PRODUCTS" => m.shelf \in Shelves
         /\ m.type = "ORDER" => m.address \in Addresses /\ m.items \in Items
  BY DEF Messages, StatusCodes, Code

\* TypeOK holds when the programs start (client.c:51-94, forkedServer.c:24-30,
\* databaseServer.c:288-308).
THEOREM TypesInitially == Init => TypeOK
  BY DeskAssumption, ShopAssumption, EmptyOrderIsOrder, CodesAreMessages
  DEF Init, DeskInit, TypeOK, Shelves, ClientPlaces, ServerPlaces

\* What submitOrder and the sub-order put into a message is an order.
LEMMA OrderMessages ==
  ASSUME NEW a \in Addresses, NEW i \in Items
  PROVE  OrderMsg(a, i) \in Messages
  BY DEF OrderMsg, Messages

\* An order maps some of the products to quantities.
LEMMA ItemsAreFunctions ==
  ASSUME NEW i \in Items
  PROVE  /\ DOMAIN i \subseteq Products
         /\ i \in [DOMAIN i -> Quantities]
  BY DEF Items

\* What maps some of the products to quantities is an order.
LEMMA FunctionsAreItems ==
  ASSUME NEW S \in SUBSET Products, NEW f \in [S -> Quantities]
  PROVE  f \in Items
  BY DEF Items

\* verifyOrderStock makes an order of an order.
LEMMA SubOrderIsOrder ==
  ASSUME TypeOK, NEW i \in Items, NEW unread
  PROVE  SubOrder(i, unread) \in Items
<1> DEFINE s == SubOrder(i, unread)
<1>1. DOMAIN i \subseteq Products /\ i \in [DOMAIN i -> Quantities]
  BY ItemsAreFunctions
<1>2. \A p \in DOMAIN i : ReadStock(p, unread) \in Quantities
  BY <1>1, DeskAssumption DEF TypeOK, Shelves, ReadStock, Quantities
<1>3. s \in [DOMAIN i -> Quantities]
  BY <1>1, <1>2 DEF SubOrder
<1> QED BY <1>1, <1>3 DEF Items

\* The entries of an order that verifyOrderStock passed leave no negative stock.
LEMMA RecordKeepsTypes ==
  ASSUME TypeOK, NEW a \in Addresses, NEW i \in Items, NEW unread,
         Verified(i, unread),
         NEW listed, NEW taken \in SUBSET DOMAIN i, listed \subseteq DOMAIN i,
         Record(a, i, listed, taken)
  PROVE  /\ stock' \in Shelves
         /\ sold' \in [Products -> Int]
         /\ placed' \in [Addresses -> Nat]
<1>1. DOMAIN i \subseteq Products /\ i \in [DOMAIN i -> Quantities]
  BY ItemsAreFunctions
<1>2. ASSUME NEW p \in taken
      PROVE  stock[p] - Taken(i[p]) \in 0 .. MaxStock
  <2>1. i[p] <= ReadStock(p, unread)
    BY <1>2 DEF Verified
  <2>2. stock[p] \in 0 .. MaxStock /\ i[p] \in Int
    BY <1>1, <1>2, DeskAssumption DEF TypeOK, Shelves, Quantities
  <2> QED BY <2>1, <2>2, DeskAssumption DEF ReadStock, Taken
<1>3. stock' \in Shelves
  BY <1>2 DEF Record, TypeOK, Shelves
<1>4. sold' \in [Products -> Int]
  BY <1>1, DeskAssumption DEF Record, TypeOK, Quantities
<1>5. placed' \in [Addresses -> Nat]
  BY DEF Record, TypeOK
<1> QED BY <1>3, <1>4, <1>5

\* place_order keeps the types of the tables and of the answers.
LEMMA DeskKeepsTypes ==
  ASSUME TypeOK, NEW a \in Addresses, NEW i \in Items, NEW unread,
         Accept(a, i, unread) \/ Refuse(a, i, unread) \/ Fail(a, i, unread)
  PROVE  /\ stock' \in Shelves
         /\ sold' \in [Products -> Int]
         /\ placed' \in [Addresses -> Nat]
         /\ fromDb' \in Seq(Messages)
<1>1. CASE Accept(a, i, unread)
  <2>1. DOMAIN i \in SUBSET DOMAIN i OBVIOUS
  <2>2. Verified(i, unread) /\ Record(a, i, DOMAIN i, DOMAIN i)
    BY <1>1 DEF Accept
  <2>3. stock' \in Shelves /\ sold' \in [Products -> Int] /\ placed' \in [Addresses -> Nat]
    BY <2>1, <2>2, RecordKeepsTypes
  <2> QED BY <1>1, <2>3, CodesAreMessages DEF Accept, TypeOK
<1>2. CASE Refuse(a, i, unread)
  <2>1. OrderMsg(a, SubOrder(i, unread)) \in Messages
    BY SubOrderIsOrder, OrderMessages
  <2>2. <<Code("MESSAGE_UNSATISFIABLE_ORDER"), OrderMsg(a, SubOrder(i, unread))>> \in Seq(Messages)
    BY <2>1, CodesAreMessages
  <2> QED BY <1>2, <2>2 DEF Refuse, TypeOK, tables
<1>3. CASE Fail(a, i, unread)
  <2>1. stock' \in Shelves /\ sold' \in [Products -> Int] /\ placed' \in [Addresses -> Nat]
    <3>1. CASE UNCHANGED tables
      BY <3>1 DEF TypeOK, tables
    <3>2. ASSUME NEW listed \in SUBSET DOMAIN i, Record(a, i, listed, {})
          PROVE  stock' \in Shelves /\ sold' \in [Products -> Int] /\ placed' \in [Addresses -> Nat]
      <4>1. {} \in SUBSET DOMAIN i OBVIOUS
      <4> QED BY <1>3, <3>2, <4>1, RecordKeepsTypes DEF Fail
    <3>3. ASSUME NEW taken \in (SUBSET DOMAIN i) \ {DOMAIN i}, Record(a, i, DOMAIN i, taken)
          PROVE  stock' \in Shelves /\ sold' \in [Products -> Int] /\ placed' \in [Addresses -> Nat]
      BY <1>3, <3>3, RecordKeepsTypes DEF Fail
    <3> QED BY <1>3, <3>1, <3>2, <3>3 DEF Fail
  <2> QED BY <1>3, <2>1, CodesAreMessages DEF Fail, TypeOK
<1> QED BY <1>1, <1>2, <1>3

\* Reading from a channel of messages.
LEMMA HeadAndTail ==
  ASSUME NEW s \in Seq(Messages), s # <<>>
  PROVE  Head(s) \in Messages /\ Tail(s) \in Seq(Messages)
  OBVIOUS

-----------------------------------------------------------------------------
(* TypeOK, one lemma for each process.                                     *)

\* Each step of client.c keeps TypeOK.
LEMMA ClientKeepsTypes ==
  ASSUME TypeOK, SessionDiscipline, NEW c \in Clients, ClientStep(c)
  PROVE  TypeOK'
<1> USE DEF TypeOK, clientVars, serverVars, deskVars, SendUp, ClientPlaces
<1>1. CASE RequestProducts(c)
  BY <1>1, CodesAreMessages DEF RequestProducts
<1>2. CASE ReceiveProducts(c)
  <2>1. Head(down[c]) \in Messages /\ Tail(down[c]) \in Seq(Messages)
    BY <1>2 DEF ReceiveProducts
  <2>2. shelf' \in [Clients -> Shelves]
    BY <1>2, <2>1, MessagesByType DEF ReceiveProducts
  <2> QED BY <1>2, <2>1, <2>2 DEF ReceiveProducts
<1>3. CASE SubmitOrder(c)
  <2>1. OrderMsg(c, order[c]) \in Messages
    BY OrderMessages, ShopAssumption
  <2> QED BY <1>3, <2>1 DEF SubmitOrder
<1>4. CASE ReceiveReply(c)
  <2>1. Tail(down[c]) \in Seq(Messages)
    BY <1>4 DEF ReceiveReply
  <2>2. told' \in [Clients -> {"nothing", "placed", "error"}] /\ cpc' \in [Clients -> ClientPlaces]
    BY <1>4 DEF ReceiveReply
  <2> QED BY <1>4, <2>1, <2>2 DEF ReceiveReply
<1>5. CASE ReceiveSubOrder(c)
  <2>1. Head(down[c]) \in Messages /\ Tail(down[c]) \in Seq(Messages)
    BY <1>5 DEF ReceiveSubOrder
  <2>2. Head(down[c]).type = "ORDER"
    BY <1>5 DEF ReceiveSubOrder, SessionDiscipline, SessionAt, SubOrderUnderWay, CutDown
  <2>3. order' \in [Clients -> Items]
    BY <1>5, <2>1, <2>2, MessagesByType DEF ReceiveSubOrder
  <2> QED BY <1>5, <2>1, <2>3 DEF ReceiveSubOrder
<1>6. CASE Disconnect(c)
  <2>1. <<Code("MESSAGE_CLOSE"), Code("MESSAGE_CLOSE")>> \in Seq(Messages)
        /\ <<Code("MESSAGE_CLOSE")>> \in Seq(Messages)
    BY CodesAreMessages
  <2> QED BY <1>6, <2>1 DEF Disconnect, SayGoodbye
<1> QED BY <1>1, <1>2, <1>3, <1>4, <1>5, <1>6 DEF ClientStep

\* What the user and the world do to a client keeps TypeOK.
LEMMA UserKeepsTypes ==
  ASSUME TypeOK, CartFits, NEW c \in Clients, UserStep(c)
  PROVE  TypeOK'
<1> USE DEF TypeOK, clientVars, serverVars, deskVars, SendUp, ClientPlaces
<1>1. CASE Connect(c)
  BY <1>1 DEF Connect, ServerPlaces
<1>2. CASE SubmitCommand(c)
  BY <1>2, CodesAreMessages, ShopAssumption DEF SubmitCommand
<1>3. CASE Quit(c)
  BY <1>3 DEF Quit
<1>4. CASE Interrupt(c)
  <2>1. <<Code("MESSAGE_CLOSE"), Code("MESSAGE_CLOSE")>> \in Seq(Messages)
        /\ <<Code("MESSAGE_CLOSE")>> \in Seq(Messages)
    BY CodesAreMessages
  <2> QED BY <1>4, <2>1 DEF Interrupt, SayGoodbye
<1>5. CASE Kill(c)
  BY <1>5 DEF Kill
<1>6. ASSUME NEW p \in Products, NEW n \in 1 .. MaxStock, AddToOrder(c, p, n)
      PROVE  TypeOK'
  <2>1. shelf[c][p] \in 0 .. MaxStock /\ n <= shelf[c][p]
    BY <1>6 DEF AddToOrder, Shelves
  <2>2. shelf' \in [Clients -> Shelves]
    BY <1>6, <2>1, DeskAssumption DEF AddToOrder, Shelves
  <2>3. DOMAIN order[c] \subseteq Products /\ order[c] \in [DOMAIN order[c] -> Quantities]
    BY ItemsAreFunctions
  <2>4. p \in DOMAIN order[c] => order[c][p] + n \in Quantities
    BY <2>1, <2>3, DeskAssumption DEF CartFits, Quantities
  <2>5. n \in Quantities
    BY DeskAssumption DEF Quantities
  <2> DEFINE more == [q \in DOMAIN order[c] \cup {p} |->
                        IF q # p THEN order[c][q]
                        ELSE IF p \in DOMAIN order[c] THEN order[c][p] + n ELSE n]
  <2>6. more \in [DOMAIN order[c] \cup {p} -> Quantities]
    BY <2>3, <2>4, <2>5
  <2>7. order' = [order EXCEPT ![c] = more]
    BY <1>6 DEF AddToOrder
  <2> HIDE DEF more
  <2>8. more \in Items
    BY <2>3, <2>6, FunctionsAreItems
  <2> QED BY <1>6, <2>2, <2>7, <2>8 DEF AddToOrder
<1> QED BY <1>1, <1>2, <1>3, <1>4, <1>5, <1>6 DEF UserStep

\* conn_send to a client, whether or not it is still there, keeps the types.
LEMMA SendDownKeepsTypes ==
  ASSUME TypeOK, NEW c \in Clients, NEW m \in Messages, NEW next \in ServerPlaces,
         SendDown(c, m, next)
  PROVE  down' \in [Clients -> Seq(Messages)] /\ spc' \in [Clients -> ServerPlaces]
<1>1. CASE cpc[c] # "gone"
  <2>1. Append(down[c], m) \in Seq(Messages)
    BY DEF TypeOK
  <2>2. down' = [down EXCEPT ![c] = Append(down[c], m)] /\ Go(c, next)
    BY <1>1 DEF SendDown
  <2> QED BY <2>1, <2>2 DEF Go, TypeOK
<1>2. CASE cpc[c] = "gone"
  <2>1. "dead" \in ServerPlaces
    BY DEF ServerPlaces
  <2> QED BY <1>2, <2>1 DEF SendDown, Go, TypeOK
<1> QED BY <1>1, <1>2

\* Reading an answer of the database keeps the types.
LEMMA CollectKeepsTypes ==
  ASSUME TypeOK, Collect
  PROVE  /\ Head(fromDb) \in Messages /\ fromDb' \in Seq(Messages)
         /\ UNCHANGED <<stock, sold, placed>>
  BY DEF Collect, TypeOK, tables

\* Each step of forkedServer.c keeps TypeOK.
LEMMA ServerKeepsTypes ==
  ASSUME TypeOK, NEW c \in Clients, ServerStep(c)
  PROVE  TypeOK'
<1> USE DEF TypeOK, clientVars, serverVars, deskVars, Go, Hand
<1> DEFINE P == ServerPlaces
<1>0. {"recv", "plock", "pwrite", "pread", "psend", "orecv", "olock", "owcode", "oword", "oread",
       "osend", "osub", "osendsub", "ounlock", "shut", "exited", "dead", "spin"} \subseteq P
  BY DEF ServerPlaces, Holding
<1> HIDE DEF P
<1>1. CASE ReceiveCode(c)
  <2>1. Tail(up[c]) \in Seq(Messages)
    BY <1>1 DEF ReceiveCode
  <2>2. spc' \in [Clients -> P]
    BY <1>0, <1>1 DEF ReceiveCode, P
  <2> QED BY <1>1, <2>1, <2>2 DEF ReceiveCode, P
<1>2. CASE ReadEndOfFile(c)
  BY <1>0, <1>2 DEF ReadEndOfFile, P
<1>3. CASE OpenConnection(c)
  BY <1>0, <1>3 DEF OpenConnection, P
<1>4. CASE AskForProducts(c)
  BY <1>0, <1>4, CodesAreMessages DEF AskForProducts, P
<1>5. CASE ReadProducts(c)
  BY <1>0, <1>5, CollectKeepsTypes DEF ReadProducts, P
<1>6. CASE SendProducts(c)
  BY <1>0, <1>6, SendDownKeepsTypes DEF SendProducts, P
<1>7. CASE ReceiveOrder(c)
  <2>1. Head(up[c]) \in Messages /\ Tail(up[c]) \in Seq(Messages)
    BY <1>7 DEF ReceiveOrder
  <2> QED BY <1>0, <1>7, <2>1 DEF ReceiveOrder, P
<1>8. CASE ForwardCommand(c)
  BY <1>0, <1>8, CodesAreMessages DEF ForwardCommand, P
<1>9. CASE ForwardOrder(c)
  BY <1>0, <1>9 DEF ForwardOrder, P
<1>10. CASE ReadAnswer(c)
  BY <1>0, <1>10, CollectKeepsTypes DEF ReadAnswer, P
<1>11. CASE SendAnswer(c)
  BY <1>0, <1>11, SendDownKeepsTypes DEF SendAnswer, P
<1>12. CASE CloseConnection(c)
  BY <1>0, <1>12 DEF CloseConnection, P
<1>13. CASE ShutDown(c)
  BY <1>0, <1>13 DEF ShutDown, P
<1> QED BY <1>1, <1>2, <1>3, <1>4, <1>5, <1>6, <1>7, <1>8, <1>9, <1>10, <1>11, <1>12, <1>13
        DEF ServerStep

\* The same of whichever answer the database server chooses.
LEMMA AnswerKeepsTypes ==
  ASSUME TypeOK, NEW a \in Addresses, NEW i \in Items, AnswerOrder(a, i)
  PROVE  /\ stock' \in Shelves
         /\ sold' \in [Products -> Int]
         /\ placed' \in [Addresses -> Nat]
         /\ fromDb' \in Seq(Messages)
  BY DeskKeepsTypes DEF AnswerOrder

\* Each step of the database server keeps TypeOK.
LEMMA DbKeepsTypes ==
  ASSUME TypeOK, DbStep
  PROVE  TypeOK'
<1> USE DEF clientVars, serverVars, deskVars
<1>1. CASE DbReadCode
  <2>1. Tail(toDb) \in Seq(Messages)
    BY <1>1 DEF DbReadCode, TypeOK
  <2>2. ProductsMsg(stock) \in Messages
    BY DEF TypeOK, Messages, ProductsMsg
  <2>3. fromDb' \in Seq(Messages) /\ UNCHANGED <<stock, sold, placed>>
    <3>1. CASE ListProducts
      BY <2>2, <3>1 DEF ListProducts, TypeOK, tables
    <3>2. CASE ListFails
      BY <3>2, CodesAreMessages DEF ListFails, TypeOK, tables
    <3>3. CASE UNCHANGED deskVars
      BY <3>3 DEF TypeOK
    <3> QED BY <1>1, <3>1, <3>2, <3>3 DEF DbReadCode
  <2>4. db' \in {"idle", "order", "down"}
    BY <1>1 DEF DbReadCode, TypeOK
  <2> QED BY <1>1, <2>1, <2>3, <2>4 DEF DbReadCode, TypeOK
<1>2. CASE DbReadOrder
  <2>1. Head(toDb) \in Messages /\ Tail(toDb) \in Seq(Messages) /\ Head(toDb).type = "ORDER"
    BY <1>2 DEF DbReadOrder, TypeOK
  <2>2. Head(toDb).address \in Addresses /\ Head(toDb).items \in Items
    BY <2>1, MessagesByType
  <2>3. AnswerOrder(Head(toDb).address, Head(toDb).items)
    BY <1>2 DEF DbReadOrder
  <2>4. /\ stock' \in Shelves /\ sold' \in [Products -> Int]
        /\ placed' \in [Addresses -> Nat] /\ fromDb' \in Seq(Messages)
    BY <2>2, <2>3, AnswerKeepsTypes
  <2> QED BY <1>2, <2>1, <2>4 DEF DbReadOrder, TypeOK
<1>3. CASE DbReadJunk
  <2>1. Tail(toDb) \in Seq(Messages)
    BY <1>3 DEF DbReadJunk, TypeOK
  <2>2. db' \in {"idle", "order", "down"}
    BY <1>3 DEF DbReadJunk
  <2>3. /\ stock' \in Shelves /\ sold' \in [Products -> Int]
        /\ placed' \in [Addresses -> Nat] /\ fromDb' \in Seq(Messages)
    BY <1>3, AnswerKeepsTypes, ShopAssumption DEF DbReadJunk, TypeOK
  <2> QED BY <1>3, <2>1, <2>2, <2>3 DEF DbReadJunk, TypeOK
<1> QED BY <1>1, <1>2, <1>3 DEF DbStep

-----------------------------------------------------------------------------
(* ExchangeDiscipline.                                                     *)

\* It speaks of the servers' places and messages, the mutex and the pipes only.
LEMMA ExchangeFrame ==
  ASSUME ExchangeDiscipline, UNCHANGED <<spc, sbuf, mutex, toDb, fromDb, db>>
  PROVE  ExchangeDiscipline'
  BY DEF ExchangeDiscipline, ExchangeAt, Quiet, ProductsFailed, ProductsArrived, OrderAnswered,
         SubOrderArrived

\* A server outside the exchange moves to another place outside it.
LEMMA ExchangeOutside ==
  ASSUME TypeOK, ExchangeDiscipline, NEW c \in Clients,
         UNCHANGED <<mutex, toDb, fromDb, db>>,
         spc[c] \notin Holding \cup {"dead"},
         NEW place, place \notin Holding, spc' = [spc EXCEPT ![c] = place],
         \A d \in Clients \ {c} : sbuf'[d] = sbuf[d]
  PROVE  ExchangeDiscipline'
<1>1. \A d \in Clients : spc'[d] \in Holding => mutex' = d
  BY DEF ExchangeDiscipline, TypeOK
<1>2. mutex' = None => Quiet'
  BY DEF ExchangeDiscipline, Quiet
<1>3. ASSUME NEW d \in Clients, mutex' = d
      PROVE  ExchangeAt(d)'
  <2>1. CASE d = c
    <3>1. ExchangeAt(c)
      BY <1>3, <2>1 DEF ExchangeDiscipline
    <3>2. Quiet'
      BY <3>1 DEF ExchangeAt, Quiet, Holding
    <3>3. spc'[c] = place
      BY DEF TypeOK
    <3> QED BY <2>1, <3>2, <3>3 DEF ExchangeAt, Quiet, Holding
  <2>2. CASE d # c
    <3>1. ExchangeAt(d)
      BY <1>3 DEF ExchangeDiscipline
    <3>2. spc'[d] = spc[d] /\ sbuf'[d] = sbuf[d]
      BY <2>2 DEF TypeOK
    <3> QED BY <3>1, <3>2 DEF ExchangeAt, Quiet, ProductsFailed, ProductsArrived, OrderAnswered,
                              SubOrderArrived
  <2> QED BY <2>1, <2>2
<1> QED BY <1>1, <1>2, <1>3 DEF ExchangeDiscipline

\* The holder takes a step of the exchange and stays the holder.
LEMMA ExchangeInside ==
  ASSUME TypeOK, ExchangeDiscipline, NEW c \in Clients, mutex = c, mutex' = c,
         \A d \in Clients \ {c} : spc'[d] = spc[d],
         ExchangeAt(c)'
  PROVE  ExchangeDiscipline'
  BY ShopAssumption DEF ExchangeDiscipline, TypeOK

\* A client does not touch the shared connection.
LEMMA ClientKeepsExchange ==
  ASSUME ExchangeDiscipline, NEW c \in Clients, ClientStep(c)
  PROVE  ExchangeDiscipline'
<1>1. UNCHANGED <<spc, sbuf, mutex, toDb, fromDb, db>>
  BY DEF ClientStep, RequestProducts, ReceiveProducts, SubmitOrder, ReceiveReply, ReceiveSubOrder,
         Disconnect, SayGoodbye, serverVars, deskVars
<1> QED BY <1>1, ExchangeFrame

\* Nor does its user; a session that starts is outside the exchange.
LEMMA UserKeepsExchange ==
  ASSUME TypeOK, ExchangeDiscipline, SessionDiscipline, NEW c \in Clients, UserStep(c)
  PROVE  ExchangeDiscipline'
<1>1. CASE Connect(c)
  <2>1. spc[c] = "none"
    BY <1>1 DEF Connect, SessionDiscipline, SessionAt
  <2> QED BY <1>1, <2>1, ExchangeOutside DEF Connect, Holding, deskVars
<1>2. CASE ~Connect(c)
  <2>1. UNCHANGED <<spc, sbuf, mutex, toDb, fromDb, db>>
    BY <1>2 DEF UserStep, SubmitCommand, Quit, Interrupt, Kill, AddToOrder, SayGoodbye, serverVars,
                deskVars
  <2> QED BY <2>1, ExchangeFrame
<1> QED BY <1>1, <1>2

\* Each step of forkedServer.c keeps ExchangeDiscipline: only the holder of the
\* mutex is inside an exchange, and it moves from one row of ExchangeAt to the next.
LEMMA ServerKeepsExchange ==
  ASSUME TypeOK, ExchangeDiscipline, NEW c \in Clients, ServerStep(c)
  PROVE  ExchangeDiscipline'
<1> USE DEF Go, Hand, serverVars, deskVars
<1> DEFINE Alone == \A d \in Clients \ {c} : spc'[d] = spc[d]
<1>1. CASE ReceiveCode(c)
  <2>1. PICK place \in {"plock", "orecv", "shut", "recv"} : spc' = [spc EXCEPT ![c] = place]
    BY <1>1 DEF ReceiveCode
  <2> QED BY <1>1, <2>1, ExchangeOutside DEF ReceiveCode, Holding
<1>2. CASE ReadEndOfFile(c)
  <2>1. PICK place \in {"spin", "dead"} : spc' = [spc EXCEPT ![c] = place]
    BY <1>2 DEF ReadEndOfFile
  <2> QED BY <1>2, <2>1, ExchangeOutside DEF ReadEndOfFile, Holding
<1>3. CASE OpenConnection(c)
  <2>1. Quiet /\ mutex' = c
    BY <1>3 DEF ExchangeDiscipline, OpenConnection
  <2>2. spc'[c] \in {"pwrite", "owcode"} /\ Alone
    BY <1>3 DEF OpenConnection, TypeOK
  <2>3. ExchangeAt(c)'
    BY <1>3, <2>1, <2>2 DEF OpenConnection, ExchangeAt, Quiet
  <2>4. \A d \in Clients : spc'[d] \in Holding => d = c
    BY <1>3, <2>2, ShopAssumption DEF ExchangeDiscipline, OpenConnection
  <2> QED BY <2>1, <2>3, <2>4, ShopAssumption DEF ExchangeDiscipline
<1>4. CASE AskForProducts(c)
  <2>1. mutex = c /\ mutex' = c /\ ExchangeAt(c)
    BY <1>4 DEF AskForProducts, ExchangeDiscipline, Holding
  <2>2. toDb' = <<Code("CMD_GET_PRODUCTS")>> /\ fromDb' = <<>> /\ db' = "idle"
    BY <1>4, <2>1 DEF AskForProducts, ExchangeAt, Quiet
  <2>3. spc'[c] = "pread" /\ Alone
    BY <1>4 DEF AskForProducts, TypeOK
  <2> QED BY <2>1, <2>2, <2>3, ExchangeInside DEF ExchangeAt
<1>5. CASE ReadProducts(c)
  <2>1. mutex = c /\ ExchangeAt(c)
    BY <1>5 DEF ReadProducts, ExchangeDiscipline, Holding
  <2>2. toDb' = <<>> /\ db' = "idle" /\ (ProductsFailed \/ ProductsArrived)
    BY <1>5, <2>1 DEF ReadProducts, ExchangeAt
  <2>7. fromDb' = <<>>
    BY <1>5, <2>2, TailOfOne DEF ReadProducts, Collect, ProductsFailed, ProductsArrived, TypeOK
  <2>3. spc'[c] = "psend" /\ Alone
    BY <1>5 DEF ReadProducts, TypeOK
  <2>4. ExchangeAt(c)' /\ Quiet'
    BY <2>2, <2>3, <2>7 DEF ExchangeAt, Quiet
  <2>5. CASE mutex' = c
    BY <2>1, <2>3, <2>4, <2>5, ExchangeInside
  <2>6. CASE mutex' = None
    BY <2>1, <2>3, <2>4, <2>6, ShopAssumption DEF ExchangeDiscipline, Holding
  <2> QED BY <1>5, <2>1, <2>5, <2>6 DEF ReadProducts
<1>6. CASE SendProducts(c)
  <2>1. PICK place \in {"recv", "dead"} : spc' = [spc EXCEPT ![c] = place]
    BY <1>6 DEF SendProducts, SendDown
  <2> QED BY <1>6, <2>1, ExchangeOutside DEF SendProducts, Holding
<1>7. CASE ReceiveOrder(c)
  <2>1. \A d \in Clients \ {c} : sbuf'[d] = sbuf[d]
    BY <1>7 DEF ReceiveOrder, TypeOK
  <2> QED BY <1>7, <2>1, ExchangeOutside DEF ReceiveOrder, Holding
<1>8. CASE ForwardCommand(c)
  <2>1. mutex = c /\ mutex' = c /\ ExchangeAt(c)
    BY <1>8 DEF ForwardCommand, ExchangeDiscipline, Holding
  <2>2. toDb' = <<Code("CMD_PLACE_ORDER")>> /\ fromDb' = <<>> /\ db' = "idle"
    BY <1>8, <2>1 DEF ForwardCommand, ExchangeAt, Quiet
  <2>3. spc'[c] = "oword" /\ Alone
    BY <1>8 DEF ForwardCommand, TypeOK
  <2> QED BY <2>1, <2>2, <2>3, ExchangeInside DEF ExchangeAt
<1>9. CASE ForwardOrder(c)
  <2>1. mutex = c /\ mutex' = c /\ ExchangeAt(c)
    BY <1>9 DEF ForwardOrder, ExchangeDiscipline, Holding
  <2>2. /\ fromDb' = <<>> /\ sbuf' = sbuf
        /\ \/ toDb' = <<Code("CMD_PLACE_ORDER"), sbuf[c]>> /\ db' = "idle"
           \/ toDb' = <<sbuf[c]>> /\ db' = "order"
    <3>1. Append(<<Code("CMD_PLACE_ORDER")>>, sbuf[c]) = <<Code("CMD_PLACE_ORDER"), sbuf[c]>>
      BY AppendToOne
    <3>2. Append(<<>>, sbuf[c]) = <<sbuf[c]>>
      OBVIOUS
    <3> QED BY <1>9, <2>1, <3>1, <3>2 DEF ForwardOrder, ExchangeAt
  <2>3. spc'[c] = "oread" /\ Alone
    BY <1>9 DEF ForwardOrder, TypeOK
  <2>4. ExchangeAt(c)'
    BY <2>2, <2>3 DEF ExchangeAt
  <2> QED BY <2>1, <2>3, <2>4, ExchangeInside
<1>10. CASE ReadAnswer(c) /\ spc[c] = "oread"
  <2>1. mutex = c /\ mutex' = c /\ ExchangeAt(c)
    BY <1>10 DEF ReadAnswer, ExchangeDiscipline, Holding
  <2>2. toDb' = <<>> /\ db' = "idle" /\ OrderAnswered
    BY <1>10, <2>1 DEF ReadAnswer, Collect, ExchangeAt
  <2>3. spc'[c] = "osend" /\ sbuf'[c] = Head(fromDb) /\ fromDb' = Tail(fromDb) /\ Alone
    BY <1>10 DEF ReadAnswer, Collect, TypeOK
  <2>4. \/ sbuf'[c] \in {Code("MESSAGE_OK"), Code("MESSAGE_ERROR")} /\ fromDb' = <<>>
        \/ /\ sbuf'[c] = Code("MESSAGE_UNSATISFIABLE_ORDER")
           /\ Len(fromDb') = 1 /\ Head(fromDb').type = "ORDER"
    BY <2>2, <2>3, TailOfTwo DEF OrderAnswered, TypeOK
  <2>5. ExchangeAt(c)'
    BY <2>2, <2>3, <2>4 DEF ExchangeAt, SubOrderArrived
  <2> QED BY <2>1, <2>3, <2>5, ExchangeInside
<1>11. CASE ReadAnswer(c) /\ spc[c] = "osub"
  <2>1. mutex = c /\ mutex' = c /\ ExchangeAt(c)
    BY <1>11 DEF ReadAnswer, ExchangeDiscipline, Holding
  <2>2. toDb' = <<>> /\ db' = "idle" /\ SubOrderArrived
    BY <1>11, <2>1 DEF ReadAnswer, ExchangeAt
  <2>3. spc'[c] = "osendsub" /\ sbuf'[c] = Head(fromDb) /\ fromDb' = Tail(fromDb) /\ Alone
    BY <1>11 DEF ReadAnswer, Collect, TypeOK
  <2>4. fromDb' = <<>> /\ sbuf'[c].type = "ORDER"
    BY <2>2, <2>3, TailOfOne DEF SubOrderArrived, TypeOK
  <2> QED BY <2>1, <2>2, <2>3, <2>4, ExchangeInside DEF ExchangeAt, Quiet
<1>12. CASE SendAnswer(c) /\ spc[c] = "osend"
  <2>1. mutex = c /\ mutex' = c /\ ExchangeAt(c)
    BY <1>12 DEF SendAnswer, ExchangeDiscipline, Holding
  <2>2. spc' \in {[spc EXCEPT ![c] = "dead"],
                  [spc EXCEPT ![c] = IF sbuf[c].type = "MESSAGE_UNSATISFIABLE_ORDER"
                                       THEN "osub" ELSE "ounlock"]}
    BY <1>12 DEF SendAnswer, SendDown
  <2>3. Alone
    BY <2>2 DEF TypeOK
  <2>4. toDb' = <<>> /\ db' = "idle" /\ fromDb' = fromDb
    BY <1>12, <2>1 DEF SendAnswer, ExchangeAt
  <2>5. CASE spc'[c] = "dead"
    BY <2>1, <2>3, <2>4, <2>5, ExchangeInside DEF ExchangeAt
  <2>6. CASE spc'[c] = "osub" /\ sbuf[c].type = "MESSAGE_UNSATISFIABLE_ORDER"
    <3>1. SubOrderArrived
      BY <1>12, <2>1, <2>6 DEF ExchangeAt, Code
    <3>2. SubOrderArrived'
      BY <2>4, <3>1 DEF SubOrderArrived
    <3> QED BY <2>1, <2>3, <2>4, <2>6, <3>2, ExchangeInside DEF ExchangeAt
  <2>7. CASE spc'[c] = "ounlock" /\ sbuf[c].type # "MESSAGE_UNSATISFIABLE_ORDER"
    <3>1. fromDb = <<>>
      BY <1>12, <2>1, <2>7 DEF ExchangeAt, Code
    <3> QED BY <2>1, <2>3, <2>4, <2>7, <3>1, ExchangeInside DEF ExchangeAt, Quiet
  <2> QED BY <2>2, <2>5, <2>6, <2>7 DEF TypeOK
<1>13. CASE SendAnswer(c) /\ spc[c] = "osendsub"
  <2>1. mutex = c /\ mutex' = c /\ ExchangeAt(c)
    BY <1>13 DEF SendAnswer, ExchangeDiscipline, Holding
  <2>2. Quiet' /\ sbuf[c].type = "ORDER"
    BY <1>13, <2>1 DEF SendAnswer, ExchangeAt, Quiet
  <2>3. spc'[c] \in {"dead", "ounlock"} /\ Alone
    BY <1>13, <2>2 DEF SendAnswer, SendDown, TypeOK
  <2> QED BY <2>1, <2>2, <2>3, ExchangeInside DEF ExchangeAt, Quiet
<1>14. CASE CloseConnection(c)
  <2>1. mutex = c /\ ExchangeAt(c)
    BY <1>14 DEF CloseConnection, ExchangeDiscipline, Holding
  <2>2. Quiet' /\ mutex' = None /\ spc'[c] = "recv" /\ Alone
    BY <1>14, <2>1 DEF CloseConnection, ExchangeAt, Quiet, TypeOK
  <2> QED BY <2>1, <2>2, ShopAssumption DEF ExchangeDiscipline, Holding
<1>15. CASE ShutDown(c)
  <2>1. PICK place \in {"exited", "dead"} : spc' = [spc EXCEPT ![c] = place]
    BY <1>15 DEF ShutDown
  <2> QED BY <1>15, <2>1, ExchangeOutside DEF ShutDown, Holding
<1>16. ReadAnswer(c) => spc[c] \in {"oread", "osub"}
  BY DEF ReadAnswer
<1>17. SendAnswer(c) => spc[c] \in {"osend", "osendsub"}
  BY DEF SendAnswer
<1> QED BY <1>1, <1>2, <1>3, <1>4, <1>5, <1>6, <1>7, <1>8, <1>9, <1>10, <1>11, <1>12, <1>13,
           <1>14, <1>15, <1>16, <1>17 DEF ServerStep

\* The database reads only what the holder of the mutex has written.
LEMMA DbServesTheHolder ==
  ASSUME TypeOK, ExchangeDiscipline, DbStep
  PROVE  /\ mutex \in Clients /\ ExchangeAt(mutex)
         /\ UNCHANGED <<mutex, spc, sbuf>>
<1>1. toDb # <<>> /\ UNCHANGED <<mutex, spc, sbuf>>
  BY DEF DbStep, DbReadCode, DbReadOrder, DbReadJunk, serverVars
<1>2. mutex # None
  BY <1>1 DEF ExchangeDiscipline, Quiet
<1> QED BY <1>1, <1>2 DEF ExchangeDiscipline, TypeOK

\* What place_order writes back.
LEMMA AnswerToAnOrder ==
  ASSUME fromDb = <<>>, NEW a, NEW i, AnswerOrder(a, i)
  PROVE  /\ OrderAnswered'
         /\ Len(fromDb') = 2 =>
              \E unread \in Unread(i) : fromDb'[2] = OrderMsg(a, SubOrder(i, unread))
<1>1. PICK unread \in Unread(i) :
        Accept(a, i, unread) \/ Refuse(a, i, unread) \/ Fail(a, i, unread)
  BY DEF AnswerOrder
<1>2. \/ fromDb' = <<Code("MESSAGE_OK")>>
      \/ fromDb' = <<Code("MESSAGE_ERROR")>>
      \/ fromDb' = <<Code("MESSAGE_UNSATISFIABLE_ORDER"), OrderMsg(a, SubOrder(i, unread))>>
  <2>1. CASE Accept(a, i, unread)
    BY <2>1 DEF Accept
  <2>2. CASE Refuse(a, i, unread)
    <3> DEFINE two == <<Code("MESSAGE_UNSATISFIABLE_ORDER"), OrderMsg(a, SubOrder(i, unread))>>
    <3>1. <<>> \o two = two
      OBVIOUS
    <3> QED BY <2>2, <3>1 DEF Refuse
  <2>3. CASE Fail(a, i, unread)
    BY <2>3 DEF Fail
  <2> QED BY <1>1, <2>1, <2>2, <2>3
<1> QED BY <1>2 DEF OrderAnswered, OrderMsg

\* The database server moves the exchange of the holder on.
LEMMA DbKeepsExchange ==
  ASSUME TypeOK, ExchangeDiscipline, DbStep
  PROVE  ExchangeDiscipline'
<1>1. PICK c \in Clients : mutex = c /\ ExchangeAt(c) /\ mutex' = c /\ UNCHANGED <<spc, sbuf>>
  BY DbServesTheHolder
<1>2. SUFFICES ExchangeAt(c)'
  BY <1>1, ExchangeInside
<1>3. CASE DbReadCode
  <2>1. db = "idle" /\ toDb # <<>> /\ toDb' = Tail(toDb)
    BY <1>3 DEF DbReadCode
  <2>2. CASE spc[c] = "pread"
    <3>1. toDb = <<Code("CMD_GET_PRODUCTS")>> /\ fromDb = <<>>
      BY <1>1, <2>1, <2>2 DEF ExchangeAt
    <3>2. toDb' = <<>> /\ db' = "idle"
      BY <1>3, <3>1 DEF DbReadCode, Code
    <3>3. (ProductsFailed \/ ProductsArrived)'
      BY <1>3, <3>1 DEF DbReadCode, Code, ListProducts, ListFails, ProductsMsg, ProductsFailed,
                        ProductsArrived
    <3> QED BY <1>1, <2>2, <3>2, <3>3 DEF ExchangeAt, ProductsFailed, ProductsArrived
  <2>3. CASE spc[c] = "oword"
    <3>1. toDb = <<Code("CMD_PLACE_ORDER")>> /\ fromDb = <<>>
      BY <1>1, <2>1, <2>3 DEF ExchangeAt
    <3>2. toDb' = <<>> /\ db' = "order" /\ fromDb' = <<>>
      BY <1>3, <3>1 DEF DbReadCode, Code, deskVars
    <3> QED BY <1>1, <2>3, <3>2 DEF ExchangeAt
  <2>4. CASE spc[c] = "oread"
    <3>1. toDb = <<Code("CMD_PLACE_ORDER"), sbuf[c]>> /\ fromDb = <<>>
      BY <1>1, <2>1, <2>4 DEF ExchangeAt
    <3>2. toDb' = <<sbuf[c]>> /\ db' = "order" /\ fromDb' = <<>>
      BY <1>3, <3>1 DEF DbReadCode, Code, deskVars
    <3> QED BY <1>1, <2>4, <3>2 DEF ExchangeAt
  <2> QED BY <1>1, <2>1, <2>2, <2>3, <2>4 DEF ExchangeAt, Quiet
<1>4. CASE DbReadOrder \/ DbReadJunk
  <2>1. db = "order" /\ toDb # <<>> /\ toDb' = Tail(toDb)
    BY <1>4 DEF DbReadOrder, DbReadJunk
  <2>2. spc[c] = "oread" /\ toDb = <<sbuf[c]>> /\ fromDb = <<>>
    BY <1>1, <2>1 DEF ExchangeAt, Quiet
  <2>3. toDb' = <<>>
    BY <2>1, <2>2
  <2>4. CASE db' = "down" /\ UNCHANGED deskVars
    BY <1>1, <2>2, <2>3, <2>4 DEF ExchangeAt, deskVars
  <2>5. CASE db' = "idle" /\ \E a, i : AnswerOrder(a, i)
    <3>1. OrderAnswered'
      BY <2>2, <2>5, AnswerToAnOrder
    <3> QED BY <1>1, <2>2, <2>3, <2>5, <3>1 DEF ExchangeAt, OrderAnswered
  <2> QED BY <1>4, <2>4, <2>5 DEF DbReadOrder, DbReadJunk
<1> QED BY <1>3, <1>4 DEF DbStep

-----------------------------------------------------------------------------
(* CartFits.                                                               *)

\* CartFits speaks of the orders, the lists and who has not got a list yet.
LEMMA CartFrame ==
  ASSUME CartFits, UNCHANGED <<order, shelf>>,
         \A d \in Clients : cpc'[d] \in {"off", "hello", "fetch"}
                              => cpc[d] \in {"off", "hello", "fetch"}
  PROVE  CartFits'
  BY DEF CartFits

\* A new list comes with an empty order, a sub-order is smaller than the order.
LEMMA ClientKeepsCart ==
  ASSUME TypeOK, SessionDiscipline, CartFits, NEW c \in Clients, ClientStep(c)
  PROVE  CartFits'
<1>1. CASE ReceiveProducts(c)
  <2>1. order' = order /\ DOMAIN order[c] = {}
    BY <1>1, EmptyOrderIsOrder DEF ReceiveProducts, CartFits
  <2>2. \A d \in Clients \ {c} : shelf'[d] = shelf[d] /\ cpc'[d] = cpc[d]
    BY <1>1 DEF ReceiveProducts, TypeOK
  <2>3. cpc'[c] \in {"menu", "quit"}
    BY <1>1 DEF ReceiveProducts, TypeOK
  <2> QED BY <2>1, <2>2, <2>3 DEF CartFits
<1>2. CASE ReceiveSubOrder(c)
  <2>1. cpc[c] = "sub" /\ down[c] # <<>>
    BY <1>2 DEF ReceiveSubOrder
  <2>2. CutDown(c, Head(down[c]))
    BY <2>1 DEF SessionDiscipline, SessionAt, SubOrderUnderWay
  <2> DEFINE m == Head(down[c])
  <2>3. m.items \in Items /\ DOMAIN m.items = DOMAIN order[c]
        /\ \A p \in DOMAIN order[c] : m.items[p] <= order[c][p]
    BY <2>1, <2>2, HeadAndTail, MessagesByType DEF TypeOK, CutDown
  <2>4. DOMAIN order[c] \subseteq Products /\ order[c] \in [DOMAIN order[c] -> Quantities]
        /\ m.items \in [DOMAIN m.items -> Quantities]
    BY <2>3, ItemsAreFunctions DEF TypeOK
  <2>5. \A p \in DOMAIN m.items : m.items[p] + shelf[c][p] <= MaxStock
    <3> SUFFICES ASSUME NEW p \in DOMAIN m.items
                 PROVE  m.items[p] + shelf[c][p] <= MaxStock
      OBVIOUS
    <3>1. m.items[p] <= order[c][p] /\ order[c][p] + shelf[c][p] <= MaxStock
      BY <2>3 DEF CartFits
    <3>2. m.items[p] \in Int /\ order[c][p] \in Int /\ shelf[c][p] \in Int /\ MaxStock \in Int
      BY <2>3, <2>4, DeskAssumption DEF TypeOK, Shelves, Quantities
    <3> QED BY <3>1, <3>2
  <2> HIDE DEF m
  <2>6. order' = [order EXCEPT ![c] = m.items] /\ cpc' = [cpc EXCEPT ![c] = "menu"] /\ shelf' = shelf
    BY <1>2 DEF ReceiveSubOrder, m
  <2>7. order'[c] = m.items /\ \A d \in Clients \ {c} : order'[d] = order[d]
    BY <2>6 DEF TypeOK
  <2>8. cpc'[c] = "menu" /\ \A d \in Clients \ {c} : cpc'[d] = cpc[d]
    BY <2>6 DEF TypeOK
  <2> QED BY <2>5, <2>6, <2>7, <2>8 DEF CartFits
<1>3. CASE ~ReceiveProducts(c) /\ ~ReceiveSubOrder(c)
  <2>1. UNCHANGED <<order, shelf>>
    BY <1>3 DEF ClientStep, RequestProducts, SubmitOrder, ReceiveReply, Disconnect, SayGoodbye
  <2>2. \A d \in Clients : cpc'[d] \in {"off", "hello", "fetch"}
                             => cpc[d] \in {"off", "hello", "fetch"}
    BY <1>3 DEF ClientStep, RequestProducts, SubmitOrder, ReceiveReply, Disconnect, SayGoodbye,
                TypeOK
  <2> QED BY <2>1, <2>2, CartFrame
<1> QED BY <1>1, <1>2, <1>3

\* addToOrder moves bottles from the list to the order.
LEMMA UserKeepsCart ==
  ASSUME TypeOK, CartFits, NEW c \in Clients, UserStep(c)
  PROVE  CartFits'
<1>1. ASSUME NEW p \in Products, NEW n \in 1 .. MaxStock, AddToOrder(c, p, n)
      PROVE  CartFits'
  <2>1. cpc[c] = "menu" /\ cpc' = cpc
    BY <1>1 DEF AddToOrder
  <2>2. /\ \A d \in Clients \ {c} : order'[d] = order[d] /\ shelf'[d] = shelf[d]
        /\ shelf'[c] = [shelf[c] EXCEPT ![p] = shelf[c][p] - n]
        /\ order'[c] = [q \in DOMAIN order[c] \cup {p} |->
                          IF q # p THEN order[c][q]
                          ELSE IF p \in DOMAIN order[c] THEN order[c][p] + n ELSE n]
    BY <1>1 DEF AddToOrder, TypeOK
  <2>3. DOMAIN order[c] \subseteq Products /\ order[c] \in [DOMAIN order[c] -> Quantities]
        /\ shelf[c] \in [Products -> 0 .. MaxStock]
    BY ItemsAreFunctions DEF TypeOK, Shelves
  <2>4. \A q \in DOMAIN order'[c] : order'[c][q] + shelf'[c][q] <= MaxStock
    <3> SUFFICES ASSUME NEW q \in DOMAIN order'[c]
                 PROVE  order'[c][q] + shelf'[c][q] <= MaxStock
      OBVIOUS
    <3>1. CASE q # p
      <4>1. q \in DOMAIN order[c] /\ order'[c][q] = order[c][q] /\ shelf'[c][q] = shelf[c][q]
        BY <2>2, <2>3, <3>1
      <4> QED BY <4>1 DEF CartFits
    <3>2. CASE q = p
      <4>1. shelf'[c][p] = shelf[c][p] - n /\ shelf[c][p] \in 0 .. MaxStock
        BY <2>2, <2>3
      <4>2. CASE p \in DOMAIN order[c]
        <5>1. order'[c][p] = order[c][p] + n /\ order[c][p] + shelf[c][p] <= MaxStock
          BY <2>2, <4>2 DEF CartFits
        <5>2. order[c][p] \in Int
          BY <2>3, <4>2 DEF Quantities
        <5> QED BY <3>2, <4>1, <5>1, <5>2, DeskAssumption
      <4>3. CASE p \notin DOMAIN order[c]
        <5>1. order'[c][p] = n
          BY <2>2, <4>3
        <5> QED BY <3>2, <4>1, <5>1, DeskAssumption
      <4> QED BY <4>2, <4>3
    <3> QED BY <3>1, <3>2
  <2> QED BY <2>1, <2>2, <2>4 DEF CartFits
<1>2. CASE Connect(c) \/ SubmitCommand(c) \/ Quit(c) \/ Interrupt(c) \/ Kill(c)
  <2>1. UNCHANGED <<order, shelf>>
    BY <1>2 DEF Connect, SubmitCommand, Quit, Interrupt, Kill, SayGoodbye
  <2>2. \A d \in Clients : cpc'[d] \in {"off", "hello", "fetch"}
                             => cpc[d] \in {"off", "hello", "fetch"}
    BY <1>2 DEF Connect, SubmitCommand, Quit, Interrupt, Kill, SayGoodbye, TypeOK
  <2> QED BY <2>1, <2>2, CartFrame
<1> QED BY <1>1, <1>2 DEF UserStep

-----------------------------------------------------------------------------
(* SessionDiscipline.                                                      *)

\* A session does not change while its own variables do not, and neither do the
\* answers on the pipe while its server is there to read them.
LEMMA SessionFrame ==
  ASSUME NEW d \in Clients, SessionAt(d),
         cpc'[d] = cpc[d], order'[d] = order[d], up'[d] = up[d], down'[d] = down[d],
         spc'[d] = spc[d], sbuf'[d] = sbuf[d],
         spc[d] \in {"oread", "osend", "osub"} => fromDb' = fromDb
  PROVE  SessionAt(d)'
<1> USE DEF SessionAt
<1>1. CASE cpc[d] = "fetch"
  BY <1>1 DEF ProductsUnderWay
<1>2. CASE cpc[d] = "reply"
  BY <1>2 DEF OrderUnderWay, Answered, CutDown, Between
<1>3. CASE cpc[d] = "sub"
  BY <1>3 DEF SubOrderUnderWay, CutDown, Between
<1>4. CASE cpc[d] \notin {"fetch", "reply", "sub"}
  BY <1>4 DEF Between
<1> QED BY <1>1, <1>2, <1>3, <1>4

\* So a step of session c leaves the others as they are, if it takes nothing
\* from the pipe that is theirs.
LEMMA SessionOfOthers ==
  ASSUME SessionDiscipline, NEW c \in Clients, SessionAt(c)',
         \A d \in Clients \ {c} :
           /\ cpc'[d] = cpc[d] /\ order'[d] = order[d] /\ up'[d] = up[d] /\ down'[d] = down[d]
           /\ spc'[d] = spc[d] /\ sbuf'[d] = sbuf[d]
           /\ spc[d] \in {"oread", "osend", "osub"} => fromDb' = fromDb
  PROVE  SessionDiscipline'
  BY SessionFrame DEF SessionDiscipline

\* Nothing is asked of the session of a client that has gone.
LEMMA GoneIsInOrder ==
  ASSUME NEW c \in Clients, cpc[c] = "gone"
  PROVE  SessionAt(c)
  BY DEF SessionAt

\* Each step of client.c keeps its own session, and nobody else's is touched.
LEMMA ClientKeepsSession ==
  ASSUME TypeOK, SessionDiscipline, NEW c \in Clients, ClientStep(c)
  PROVE  SessionDiscipline'
<1> USE DEF serverVars, deskVars, SendUp
<1>0. SessionAt(c)
  BY DEF SessionDiscipline
<1>1. CASE RequestProducts(c)
  <2>1. cpc'[c] = "fetch" /\ up'[c] = <<Code("CMD_GET_PRODUCTS")>> /\ down'[c] = <<>>
        /\ spc'[c] = "recv"
    BY <1>0, <1>1 DEF RequestProducts, SessionAt, TypeOK
  <2>2. SessionAt(c)'
    BY <2>1 DEF SessionAt, ProductsUnderWay
  <2> QED BY <1>1, <2>2, SessionOfOthers DEF RequestProducts, TypeOK
<1>2. CASE ReceiveProducts(c)
  <2>1. ProductsUnderWay(c) /\ down[c] # <<>>
    BY <1>0, <1>2 DEF ReceiveProducts, SessionAt
  <2>2. up[c] = <<>> /\ Len(down[c]) = 1 /\ spc[c] = "recv"
    BY <2>1 DEF ProductsUnderWay
  <2>3. down'[c] = <<>>
    BY <1>2, <2>2, TailOfOne DEF ReceiveProducts, TypeOK
  <2>4. cpc'[c] \in {"menu", "quit"} /\ up'[c] = <<>> /\ spc'[c] = "recv"
    BY <1>2, <2>2 DEF ReceiveProducts, TypeOK
  <2>5. SessionAt(c)'
    BY <2>3, <2>4 DEF SessionAt, Between
  <2> QED BY <1>2, <2>5, SessionOfOthers DEF ReceiveProducts, TypeOK
<1>3. CASE SubmitOrder(c)
  <2> DEFINE o == OrderMsg(c, order[c])
  <2>1. down[c] = <<>> /\ \/ up[c] = <<Code("CMD_PLACE_ORDER")>> /\ Between(c)
                          \/ up[c] = <<>> /\ spc[c] = "orecv"
    BY <1>0, <1>3 DEF SubmitOrder, SessionAt
  <2>2. <<Code("CMD_PLACE_ORDER")>> \o <<o>> = <<Code("CMD_PLACE_ORDER"), o>>
    BY ConcatOneAndOne
  <2>3. <<>> \o <<o>> = <<o>>
    OBVIOUS
  <2>4. cpc'[c] = "reply" /\ down' = down /\ spc' = spc /\ order' = order
        /\ up'[c] = up[c] \o <<o>>
    BY <1>3 DEF SubmitOrder, TypeOK
  <2> HIDE DEF o
  <2>5. \/ up'[c] = <<Code("CMD_PLACE_ORDER"), o>> /\ Between(c)'
        \/ up'[c] = <<o>> /\ spc'[c] = "orecv"
    BY <2>1, <2>2, <2>3, <2>4 DEF Between
  <2>6. OrderUnderWay(c)'
    BY <2>1, <2>4, <2>5 DEF OrderUnderWay, o
  <2>7. SessionAt(c)'
    BY <2>4, <2>6 DEF SessionAt
  <2> QED BY <1>3, <2>7, SessionOfOthers DEF SubmitOrder, TypeOK
<1>4. CASE ReceiveReply(c)
  <2>1. OrderUnderWay(c) /\ down[c] # <<>>
    BY <1>0, <1>4 DEF ReceiveReply, SessionAt
  <2>2. up[c] = <<>> /\ Answered(c)
    BY <2>1 DEF OrderUnderWay
  <2>3. up'[c] = <<>> /\ down'[c] = Tail(down[c])
        /\ UNCHANGED <<spc, sbuf, order, fromDb>>
    BY <1>4, <2>2 DEF ReceiveReply, TypeOK
  <2>4. ASSUME down[c] \in {<<Code("MESSAGE_OK")>>, <<Code("MESSAGE_ERROR")>>}, Between(c)
        PROVE  SessionAt(c)'
    <3>1. cpc'[c] = "quit"
      BY <1>4, <2>4 DEF ReceiveReply, TypeOK, Code
    <3>2. down'[c] = <<>>
      <4>1. \A m : Tail(<<m>>) = <<>>
        OBVIOUS
      <4> QED BY <2>3, <2>4, <4>1
    <3> QED BY <2>3, <2>4, <3>1, <3>2 DEF SessionAt, Between
  <2>5. ASSUME down[c] = <<Code("MESSAGE_UNSATISFIABLE_ORDER")>>,
               \/ spc[c] = "osub" /\ CutDown(c, Head(fromDb))
               \/ spc[c] = "osendsub" /\ CutDown(c, sbuf[c])
        PROVE  SessionAt(c)'
    <3>1. cpc'[c] = "sub"
      BY <1>4, <2>5 DEF ReceiveReply, TypeOK, Code
    <3>2. down'[c] = <<>>
      BY <2>3, <2>5
    <3>3. SubOrderUnderWay(c)'
      BY <2>3, <2>5, <3>2 DEF SubOrderUnderWay, CutDown
    <3> QED BY <2>3, <3>1, <3>3 DEF SessionAt
  <2>6. ASSUME Len(down[c]) = 2, Between(c),
               down[c][1] = Code("MESSAGE_UNSATISFIABLE_ORDER"),
               CutDown(c, down[c][2])
        PROVE  SessionAt(c)'
    <3>1. cpc'[c] = "sub"
      BY <1>4, <2>6 DEF ReceiveReply, TypeOK, Code
    <3>2. down'[c] = <<down[c][2]>>
      BY <2>3, <2>6, TailOfTwo DEF TypeOK
    <3>3. Len(down'[c]) = 1 /\ Head(down'[c]) = down[c][2]
      BY <3>2
    <3>4. SubOrderUnderWay(c)'
      BY <2>3, <2>6, <3>3 DEF SubOrderUnderWay, CutDown, Between
    <3> QED BY <2>3, <3>1, <3>4 DEF SessionAt
  <2>7. SessionAt(c)'
    BY <2>2, <2>4, <2>5, <2>6 DEF Answered
  <2> QED BY <1>4, <2>7, SessionOfOthers DEF ReceiveReply, TypeOK
<1>5. CASE ReceiveSubOrder(c)
  <2>1. up[c] = <<>> /\ SubOrderUnderWay(c) /\ down[c] # <<>>
    BY <1>0, <1>5 DEF ReceiveSubOrder, SessionAt
  <2>2. Len(down[c]) = 1 /\ Between(c)
    BY <2>1 DEF SubOrderUnderWay
  <2>3. down'[c] = <<>> /\ cpc'[c] = "menu" /\ up'[c] = <<>> /\ spc' = spc
    BY <1>5, <2>1, <2>2, TailOfOne DEF ReceiveSubOrder, TypeOK
  <2>4. SessionAt(c)'
    BY <2>2, <2>3 DEF SessionAt, Between
  <2> QED BY <1>5, <2>4, SessionOfOthers DEF ReceiveSubOrder, TypeOK
<1>6. CASE Disconnect(c)
  <2>1. SessionAt(c)'
    BY <1>6 DEF Disconnect, SayGoodbye, SessionAt, TypeOK
  <2> QED BY <1>6, <2>1, SessionOfOthers DEF Disconnect, SayGoodbye, TypeOK
<1> QED BY <1>1, <1>2, <1>3, <1>4, <1>5, <1>6 DEF ClientStep

\* So does what the user does.
LEMMA UserKeepsSession ==
  ASSUME TypeOK, SessionDiscipline, NEW c \in Clients, UserStep(c)
  PROVE  SessionDiscipline'
<1> USE DEF serverVars, deskVars, SendUp
<1>0. SessionAt(c)
  BY DEF SessionDiscipline
<1>1. CASE Connect(c)
  <2>1. SessionAt(c)'
    BY <1>0, <1>1 DEF Connect, SessionAt, TypeOK
  <2> QED BY <1>1, <2>1, SessionOfOthers DEF Connect, TypeOK
<1>2. CASE SubmitCommand(c)
  <2>1. Between(c) /\ up[c] = <<>> /\ down[c] = <<>>
    BY <1>0, <1>2 DEF SubmitCommand, SessionAt
  <2>2. cpc'[c] = "ordering" /\ up'[c] = <<Code("CMD_PLACE_ORDER")>> /\ down' = down /\ spc' = spc
    BY <1>2, <2>1 DEF SubmitCommand, TypeOK
  <2>3. SessionAt(c)'
    BY <2>1, <2>2 DEF SessionAt, Between
  <2> QED BY <1>2, <2>3, SessionOfOthers DEF SubmitCommand, TypeOK
<1>3. CASE Quit(c)
  <2>1. SessionAt(c)'
    BY <1>0, <1>3 DEF Quit, SessionAt, Between, TypeOK
  <2> QED BY <1>3, <2>1, SessionOfOthers DEF Quit, TypeOK
<1>4. CASE Interrupt(c)
  <2>1. SessionAt(c)'
    BY <1>4 DEF Interrupt, SayGoodbye, SessionAt, TypeOK
  <2> QED BY <1>4, <2>1, SessionOfOthers DEF Interrupt, SayGoodbye, TypeOK
<1>5. CASE Kill(c)
  <2>1. SessionAt(c)'
    BY <1>5 DEF Kill, SessionAt, TypeOK
  <2> QED BY <1>5, <2>1, SessionOfOthers DEF Kill, TypeOK
<1>6. ASSUME NEW p \in Products, NEW n \in 1 .. MaxStock, AddToOrder(c, p, n)
      PROVE  SessionDiscipline'
  <2>1. SessionAt(c)'
    BY <1>0, <1>6 DEF AddToOrder, SessionAt, Between, TypeOK
  <2> QED BY <1>6, <2>1, SessionOfOthers DEF AddToOrder, TypeOK
<1> QED BY <1>1, <1>2, <1>3, <1>4, <1>5, <1>6 DEF UserStep

\* At most one server is about to read an answer from the database or pass it on.
LEMMA OnlyTheHolderReads ==
  ASSUME ExchangeDiscipline, NEW c \in Clients, spc[c] \in Holding
  PROVE  /\ mutex = c /\ ExchangeAt(c)
         /\ \A d \in Clients \ {c} : spc[d] \notin {"oread", "osend", "osub"}
  BY DEF ExchangeDiscipline, Holding

\* By the place of its server, what a connected client is doing.
LEMMA ClientOfServer ==
  ASSUME NEW c \in Clients, SessionAt(c), TypeOK, cpc[c] # "gone"
  PROVE  /\ spc[c] \in {"plock", "pwrite", "pread"} =>
              cpc[c] = "fetch" /\ up[c] = <<>> /\ down[c] = <<>>
         /\ spc[c] = "psend" =>
              /\ cpc[c] = "fetch" /\ up[c] = <<>> /\ down[c] = <<>>
              /\ sbuf[c].type \in {"PRODUCTS", "MESSAGE_ERROR"}
         /\ spc[c] = "orecv" =>
              \/ cpc[c] = "ordering" /\ up[c] = <<>>
              \/ cpc[c] = "reply" /\ up[c] = <<OrderMsg(c, order[c])>> /\ down[c] = <<>>
         /\ spc[c] \in {"olock", "owcode", "oword"} =>
              /\ cpc[c] = "reply" /\ up[c] = <<>> /\ down[c] = <<>>
              /\ sbuf[c] = OrderMsg(c, order[c])
         /\ spc[c] = "oread" =>
              /\ cpc[c] = "reply" /\ up[c] = <<>> /\ down[c] = <<>>
              /\ sbuf[c] = OrderMsg(c, order[c])
              /\ Len(fromDb) = 2 => CutDown(c, fromDb[2])
         /\ spc[c] = "osend" =>
              /\ cpc[c] = "reply" /\ up[c] = <<>> /\ down[c] = <<>>
              /\ fromDb # <<>> => CutDown(c, Head(fromDb))
         /\ spc[c] = "osub" =>
              /\ CutDown(c, Head(fromDb)) /\ up[c] = <<>>
              /\ \/ cpc[c] = "reply" /\ down[c] = <<Code("MESSAGE_UNSATISFIABLE_ORDER")>>
                 \/ cpc[c] = "sub" /\ down[c] = <<>>
         /\ spc[c] = "osendsub" =>
              /\ CutDown(c, sbuf[c]) /\ up[c] = <<>>
              /\ \/ cpc[c] = "reply" /\ down[c] = <<Code("MESSAGE_UNSATISFIABLE_ORDER")>>
                 \/ cpc[c] = "sub" /\ down[c] = <<>>
         /\ spc[c] \notin {"shut", "spin", "dead", "exited"}
<1>1. CASE cpc[c] = "fetch"
  BY <1>1 DEF SessionAt, ProductsUnderWay
<1>2. CASE cpc[c] = "reply"
  BY <1>2 DEF SessionAt, OrderUnderWay, Answered, Between
<1>3. CASE cpc[c] = "sub"
  BY <1>3 DEF SessionAt, SubOrderUnderWay, Between
<1>4. CASE cpc[c] \in {"off", "hello", "menu", "quit", "ordering"}
  BY <1>4 DEF SessionAt, Between
<1> QED BY <1>1, <1>2, <1>3, <1>4 DEF TypeOK, ClientPlaces

\* Each step of forkedServer.c keeps its session in step.
LEMMA ServerKeepsSession ==
  ASSUME TypeOK, ExchangeDiscipline, SessionDiscipline, NEW c \in Clients, ServerStep(c)
  PROVE  SessionDiscipline'
<1> USE DEF clientVars, serverVars, deskVars, Go, Hand
<1>0. SessionAt(c) /\ UNCHANGED clientVars
  BY DEF SessionDiscipline, ServerStep, ReceiveCode, ReadEndOfFile, OpenConnection, AskForProducts,
         ReadProducts, SendProducts, ReceiveOrder, ForwardCommand, ForwardOrder, ReadAnswer,
         SendAnswer, CloseConnection, ShutDown
<1>1. \A d \in Clients \ {c} :
        /\ up'[d] = up[d] /\ down'[d] = down[d] /\ spc'[d] = spc[d] /\ sbuf'[d] = sbuf[d]
        /\ spc[d] \in {"oread", "osend", "osub"} => fromDb' = fromDb
  <2>1. CASE ReadProducts(c) \/ ReadAnswer(c)
    <3>1. spc[c] \in Holding
      BY <2>1 DEF ReadProducts, ReadAnswer, Holding
    <3> QED BY <2>1, <3>1, OnlyTheHolderReads DEF ReadProducts, ReadAnswer, TypeOK
  <2>2. CASE ~(ReadProducts(c) \/ ReadAnswer(c))
    BY <2>2 DEF ServerStep, ReceiveCode, ReadEndOfFile, OpenConnection, AskForProducts, SendProducts,
                ReceiveOrder, ForwardCommand, ForwardOrder, SendAnswer, CloseConnection, ShutDown,
                SendDown, TypeOK
  <2> QED BY <2>1, <2>2
<1>2. SUFFICES ASSUME cpc[c] # "gone"
               PROVE  SessionAt(c)'
  BY <1>0, <1>1, GoneIsInOrder, SessionOfOthers DEF SessionAt
<1> USE <1>0, <1>2
<1>3. CASE ReceiveCode(c)
  <2>1. up'[c] = Tail(up[c]) /\ down'[c] = down[c] /\ sbuf' = sbuf /\ fromDb' = fromDb
    BY <1>3 DEF ReceiveCode, TypeOK
  <2>2. CASE cpc[c] = "fetch"
    <3>1. up[c] = <<Code("CMD_GET_PRODUCTS")>> /\ down[c] = <<>>
      BY <1>3, <2>2 DEF ReceiveCode, SessionAt, ProductsUnderWay
    <3>2. up'[c] = <<>> /\ spc'[c] = "plock"
      BY <1>3, <3>1 DEF ReceiveCode, Code, TypeOK
    <3> QED BY <2>1, <2>2, <3>1, <3>2 DEF SessionAt, ProductsUnderWay
  <2>3. CASE cpc[c] = "ordering"
    <3>1. up[c] = <<Code("CMD_PLACE_ORDER")>> /\ down[c] = <<>>
      BY <1>3, <2>3 DEF ReceiveCode, SessionAt
    <3>2. up'[c] = <<>> /\ spc'[c] = "orecv"
      BY <1>3, <3>1 DEF ReceiveCode, Code, TypeOK
    <3> QED BY <2>1, <2>3, <3>1, <3>2 DEF SessionAt
  <2>4. CASE cpc[c] = "reply"
    <3>1. up[c] = <<Code("CMD_PLACE_ORDER"), OrderMsg(c, order[c])>> /\ down[c] = <<>>
      BY <1>3, <2>4 DEF ReceiveCode, SessionAt, OrderUnderWay
    <3>2. up'[c] = <<OrderMsg(c, order[c])>> /\ spc'[c] = "orecv"
      BY <1>3, <3>1 DEF ReceiveCode, Code, TypeOK
    <3> QED BY <2>1, <2>4, <3>1, <3>2 DEF SessionAt, OrderUnderWay
  <2> QED BY <1>3, <2>2, <2>3, <2>4 DEF ReceiveCode, SessionAt, TypeOK, ClientPlaces
<1>4. CASE ReadEndOfFile(c)
  BY <1>4 DEF ReadEndOfFile
<1>5. CASE OpenConnection(c)
  <2>1. CASE spc[c] = "plock"
    <3>1. cpc[c] = "fetch" /\ up[c] = <<>> /\ down[c] = <<>>
      BY <2>1, ClientOfServer
    <3>2. spc'[c] = "pwrite" /\ up' = up /\ down' = down
      BY <1>5, <2>1 DEF OpenConnection, TypeOK
    <3> QED BY <3>1, <3>2 DEF SessionAt, ProductsUnderWay
  <2>2. CASE spc[c] = "olock"
    <3>1. cpc[c] = "reply" /\ up[c] = <<>> /\ down[c] = <<>> /\ sbuf[c] = OrderMsg(c, order[c])
      BY <2>2, ClientOfServer
    <3>2. spc'[c] = "owcode" /\ up' = up /\ down' = down /\ sbuf' = sbuf
      BY <1>5, <2>2 DEF OpenConnection, TypeOK
    <3> QED BY <3>1, <3>2 DEF SessionAt, OrderUnderWay
  <2> QED BY <1>5, <2>1, <2>2 DEF OpenConnection
<1>6. CASE AskForProducts(c)
  <2>1. cpc[c] = "fetch" /\ up[c] = <<>> /\ down[c] = <<>>
    BY <1>6, ClientOfServer DEF AskForProducts
  <2>2. spc'[c] = "pread" /\ up' = up /\ down' = down
    BY <1>6 DEF AskForProducts, TypeOK
  <2> QED BY <2>1, <2>2 DEF SessionAt, ProductsUnderWay
<1>7. CASE ReadProducts(c)
  <2>1. cpc[c] = "fetch" /\ up[c] = <<>> /\ down[c] = <<>>
    BY <1>7, ClientOfServer DEF ReadProducts
  <2>2. Head(fromDb).type \in {"PRODUCTS", "MESSAGE_ERROR"}
    <3>1. ExchangeAt(c)
      BY <1>7, OnlyTheHolderReads DEF ReadProducts, Holding
    <3> QED BY <1>7, <3>1 DEF ReadProducts, ExchangeAt, ProductsFailed, ProductsArrived, Code
  <2>3. spc'[c] = "psend" /\ sbuf'[c] = Head(fromDb) /\ up' = up /\ down' = down
    BY <1>7 DEF ReadProducts, TypeOK
  <2> QED BY <2>1, <2>2, <2>3 DEF SessionAt, ProductsUnderWay
<1>8. CASE SendProducts(c)
  <2>1. /\ cpc[c] = "fetch" /\ up[c] = <<>> /\ down[c] = <<>>
        /\ sbuf[c].type \in {"PRODUCTS", "MESSAGE_ERROR"}
    BY <1>8, ClientOfServer DEF SendProducts
  <2>2. spc'[c] = "recv" /\ down'[c] = <<sbuf[c]>> /\ up' = up
    BY <1>8, <2>1 DEF SendProducts, SendDown, TypeOK
  <2> QED BY <2>1, <2>2 DEF SessionAt, ProductsUnderWay
<1>9. CASE ReceiveOrder(c)
  <2>1. cpc[c] = "reply" /\ up[c] = <<OrderMsg(c, order[c])>> /\ down[c] = <<>>
    BY <1>9, ClientOfServer DEF ReceiveOrder
  <2>2. spc'[c] = "olock" /\ up'[c] = <<>> /\ sbuf'[c] = OrderMsg(c, order[c]) /\ down' = down
    BY <1>9, <2>1 DEF ReceiveOrder, TypeOK
  <2> QED BY <2>1, <2>2 DEF SessionAt, OrderUnderWay
<1>10. CASE ForwardCommand(c)
  <2>1. cpc[c] = "reply" /\ up[c] = <<>> /\ down[c] = <<>> /\ sbuf[c] = OrderMsg(c, order[c])
    BY <1>10, ClientOfServer DEF ForwardCommand
  <2>2. spc'[c] = "oword" /\ up' = up /\ down' = down /\ sbuf' = sbuf
    BY <1>10 DEF ForwardCommand, TypeOK
  <2> QED BY <2>1, <2>2 DEF SessionAt, OrderUnderWay
<1>11. CASE ForwardOrder(c)
  <2>1. cpc[c] = "reply" /\ up[c] = <<>> /\ down[c] = <<>> /\ sbuf[c] = OrderMsg(c, order[c])
    BY <1>11, ClientOfServer DEF ForwardOrder
  <2>2. fromDb = <<>>
    <3>1. ExchangeAt(c)
      BY <1>11, OnlyTheHolderReads DEF ForwardOrder, Holding
    <3> QED BY <1>11, <3>1 DEF ForwardOrder, ExchangeAt
  <2>3. spc'[c] = "oread" /\ up' = up /\ down' = down /\ sbuf' = sbuf /\ fromDb' = <<>>
    BY <1>11, <2>2 DEF ForwardOrder, TypeOK
  <2> QED BY <2>1, <2>3 DEF SessionAt, OrderUnderWay
<1>12. CASE ReadAnswer(c) /\ spc[c] = "oread"
  <2>1. /\ cpc[c] = "reply" /\ up[c] = <<>> /\ down[c] = <<>>
        /\ Len(fromDb) = 2 => CutDown(c, fromDb[2])
    BY <1>12, ClientOfServer
  <2>2. OrderAnswered
    <3>1. ExchangeAt(c)
      BY <1>12, OnlyTheHolderReads DEF Holding
    <3> QED BY <1>12, <3>1 DEF ReadAnswer, ExchangeAt
  <2>3. spc'[c] = "osend" /\ up' = up /\ down' = down /\ fromDb' = Tail(fromDb)
    BY <1>12 DEF ReadAnswer, Collect, TypeOK
  <2>4. fromDb' # <<>> => fromDb' = <<fromDb[2]>> /\ CutDown(c, fromDb[2])
    <3>1. CASE Len(fromDb) = 2
      BY <2>1, <2>3, <3>1, TailOfTwo DEF TypeOK
    <3>2. CASE Len(fromDb) # 2
      <4>1. Len(fromDb) = 1
        BY <2>2, <3>2 DEF OrderAnswered
      <4> QED BY <2>3, <4>1, TailOfOne DEF TypeOK
    <3> QED BY <3>1, <3>2
  <2>5. fromDb' # <<>> => CutDown(c, Head(fromDb))'
    BY <2>4 DEF CutDown
  <2> QED BY <2>1, <2>3, <2>5 DEF SessionAt, OrderUnderWay
<1>13. CASE ReadAnswer(c) /\ spc[c] = "osub"
  <2>1. /\ CutDown(c, Head(fromDb)) /\ up[c] = <<>>
        /\ \/ cpc[c] = "reply" /\ down[c] = <<Code("MESSAGE_UNSATISFIABLE_ORDER")>>
           \/ cpc[c] = "sub" /\ down[c] = <<>>
    BY <1>13, ClientOfServer
  <2>2. spc'[c] = "osendsub" /\ sbuf'[c] = Head(fromDb) /\ up' = up /\ down' = down
    BY <1>13 DEF ReadAnswer, TypeOK
  <2>3. CutDown(c, sbuf[c])'
    BY <2>1, <2>2 DEF CutDown
  <2> QED BY <2>1, <2>2, <2>3 DEF SessionAt, OrderUnderWay, Answered, SubOrderUnderWay
<1>14. CASE SendAnswer(c) /\ spc[c] = "osend"
  <2>1. /\ cpc[c] = "reply" /\ up[c] = <<>> /\ down[c] = <<>>
        /\ fromDb # <<>> => CutDown(c, Head(fromDb))
    BY <1>14, ClientOfServer
  <2>2. /\ sbuf[c] \in {Code("MESSAGE_OK"), Code("MESSAGE_ERROR"),
                        Code("MESSAGE_UNSATISFIABLE_ORDER")}
        /\ sbuf[c] = Code("MESSAGE_UNSATISFIABLE_ORDER") => fromDb # <<>>
    <3>1. ExchangeAt(c)
      BY <1>14, OnlyTheHolderReads DEF Holding
    <3>2. \/ sbuf[c] \in {Code("MESSAGE_OK"), Code("MESSAGE_ERROR")} /\ fromDb = <<>>
          \/ sbuf[c] = Code("MESSAGE_UNSATISFIABLE_ORDER") /\ SubOrderArrived
      BY <1>14, <3>1 DEF ExchangeAt
    <3> QED BY <3>2, EmptySeq DEF SubOrderArrived, Code, TypeOK
  <2>3. /\ down'[c] = <<sbuf[c]>> /\ up' = up /\ fromDb' = fromDb
        /\ spc'[c] = IF sbuf[c].type = "MESSAGE_UNSATISFIABLE_ORDER" THEN "osub" ELSE "ounlock"
    BY <1>14, <2>1 DEF SendAnswer, SendDown, TypeOK
  <2>4. CASE sbuf[c] = Code("MESSAGE_UNSATISFIABLE_ORDER")
    <3>1. CutDown(c, Head(fromDb))' /\ spc'[c] = "osub"
      BY <2>1, <2>2, <2>3, <2>4 DEF CutDown, Code
    <3> QED BY <2>1, <2>3, <2>4, <3>1 DEF SessionAt, OrderUnderWay, Answered
  <2>5. CASE sbuf[c] \in {Code("MESSAGE_OK"), Code("MESSAGE_ERROR")}
    <3>1. spc'[c] = "ounlock"
      BY <2>3, <2>5 DEF Code
    <3>2. down'[c] \in {<<Code("MESSAGE_OK")>>, <<Code("MESSAGE_ERROR")>>}
      BY <2>3, <2>5
    <3> QED BY <2>1, <2>3, <3>1, <3>2 DEF SessionAt, OrderUnderWay, Answered, Between
  <2> QED BY <2>2, <2>4, <2>5
<1>15. CASE SendAnswer(c) /\ spc[c] = "osendsub"
  <2>1. /\ CutDown(c, sbuf[c]) /\ up[c] = <<>>
        /\ \/ cpc[c] = "reply" /\ down[c] = <<Code("MESSAGE_UNSATISFIABLE_ORDER")>>
           \/ cpc[c] = "sub" /\ down[c] = <<>>
    BY <1>15, ClientOfServer
  <2>2. /\ down'[c] = Append(down[c], sbuf[c]) /\ up' = up /\ spc'[c] = "ounlock"
    BY <1>15, <2>1 DEF SendAnswer, SendDown, CutDown, TypeOK
  <2>3. CASE cpc[c] = "reply"
    <3> DEFINE two == <<Code("MESSAGE_UNSATISFIABLE_ORDER"), sbuf[c]>>
    <3>1. down'[c] = two
      BY <2>1, <2>2, <2>3, AppendToOne
    <3>2. Len(two) = 2 /\ two[1] = Code("MESSAGE_UNSATISFIABLE_ORDER") /\ two[2] = sbuf[c]
      OBVIOUS
    <3> HIDE DEF two
    <3>3. CutDown(c, down[c][2])'
      BY <2>1, <3>1, <3>2 DEF CutDown
    <3> QED BY <2>1, <2>2, <2>3, <3>1, <3>2, <3>3 DEF SessionAt, OrderUnderWay, Answered, Between
  <2>4. CASE cpc[c] = "sub"
    <3>1. down'[c] = <<sbuf[c]>>
      <4>1. Append(<<>>, sbuf[c]) = <<sbuf[c]>>
        OBVIOUS
      <4> QED BY <2>1, <2>2, <2>4, <4>1
    <3>2. Len(down'[c]) = 1 /\ Head(down'[c]) = sbuf[c]
      BY <3>1
    <3>3. CutDown(c, Head(down[c]))'
      BY <2>1, <3>2 DEF CutDown
    <3> QED BY <2>1, <2>2, <2>4, <3>2, <3>3 DEF SessionAt, SubOrderUnderWay, Between
  <2> QED BY <2>1, <2>3, <2>4
<1>16. CASE CloseConnection(c)
  <2>1. spc'[c] = "recv" /\ UNCHANGED <<up, down, sbuf, fromDb>> /\ Between(c) /\ Between(c)'
    BY <1>16 DEF CloseConnection, Between, TypeOK
  <2>2. CASE cpc[c] = "reply"
    <3>1. \/ up[c] = <<Code("CMD_PLACE_ORDER"), OrderMsg(c, order[c])>> /\ down[c] = <<>>
          \/ up[c] = <<>> /\ down[c] \in {<<Code("MESSAGE_OK")>>, <<Code("MESSAGE_ERROR")>>}
          \/ /\ up[c] = <<>> /\ Len(down[c]) = 2
             /\ down[c][1] = Code("MESSAGE_UNSATISFIABLE_ORDER")
             /\ CutDown(c, down[c][2])
      BY <1>16, <2>2 DEF CloseConnection, SessionAt, OrderUnderWay, Answered
    <3> QED BY <2>1, <2>2, <3>1 DEF SessionAt, OrderUnderWay, Answered, CutDown
  <2>3. CASE cpc[c] = "sub"
    <3>1. up[c] = <<>> /\ Len(down[c]) = 1 /\ CutDown(c, Head(down[c]))
      BY <1>16, <2>3 DEF CloseConnection, SessionAt, SubOrderUnderWay
    <3> QED BY <2>1, <2>3, <3>1 DEF SessionAt, SubOrderUnderWay, CutDown
  <2>4. CASE cpc[c] \in {"menu", "quit", "ordering"}
    BY <1>16, <2>1, <2>4 DEF CloseConnection, SessionAt
  <2>5. cpc[c] \notin {"off", "hello", "fetch"}
    BY <1>16 DEF CloseConnection, SessionAt, ProductsUnderWay
  <2> QED BY <2>2, <2>3, <2>4, <2>5 DEF TypeOK, ClientPlaces
<1>17. CASE ShutDown(c)
  BY <1>17, ClientOfServer DEF ShutDown
<1>18. ReadAnswer(c) => spc[c] \in {"oread", "osub"}
  BY DEF ReadAnswer
<1>19. SendAnswer(c) => spc[c] \in {"osend", "osendsub"}
  BY DEF SendAnswer
<1> QED BY <1>3, <1>4, <1>5, <1>6, <1>7, <1>8, <1>9, <1>10, <1>11, <1>12, <1>13, <1>14, <1>15,
           <1>16, <1>17, <1>18, <1>19 DEF ServerStep

\* The database server answers the session of the holder with its own order.
LEMMA DbKeepsSession ==
  ASSUME TypeOK, ExchangeDiscipline, SessionDiscipline, DbStep
  PROVE  SessionDiscipline'
<1>1. PICK c \in Clients : mutex = c /\ ExchangeAt(c) /\ UNCHANGED <<spc, sbuf>>
  BY DbServesTheHolder
<1>2. toDb # <<>> /\ UNCHANGED <<clientVars, up, down>>
  BY DEF DbStep, DbReadCode, DbReadOrder, DbReadJunk
<1>3. \A d \in Clients \ {c} : spc[d] \notin {"oread", "osend", "osub"}
  BY <1>1, ShopAssumption DEF ExchangeDiscipline, Holding
<1>4. SUFFICES SessionAt(c)'
  BY <1>1, <1>2, <1>3, SessionOfOthers DEF clientVars
<1>5. SessionAt(c) /\ spc[c] \notin {"osend", "osub"}
  BY <1>1, <1>2 DEF SessionDiscipline, ExchangeAt
<1>6. CASE spc[c] # "oread" \/ cpc[c] = "gone"
  <2>1. CASE spc[c] # "oread"
    BY <1>1, <1>2, <1>5, <2>1, SessionFrame DEF clientVars
  <2>2. CASE cpc[c] = "gone"
    BY <1>2, <2>2, GoneIsInOrder DEF clientVars, SessionAt
  <2> QED BY <1>6, <2>1, <2>2
<1>7. CASE spc[c] = "oread" /\ cpc[c] # "gone"
  <2>1. /\ cpc[c] = "reply" /\ up[c] = <<>> /\ down[c] = <<>>
        /\ sbuf[c] = OrderMsg(c, order[c])
    BY <1>5, <1>7, ClientOfServer
  <2>2. fromDb = <<>> /\ toDb \in {<<Code("CMD_PLACE_ORDER"), sbuf[c]>>, <<sbuf[c]>>}
        /\ (toDb = <<sbuf[c]>> => db = "order")
    BY <1>1, <1>2, <1>7 DEF ExchangeAt
  <2>3. Len(fromDb') = 2 => CutDown(c, fromDb[2])'
    <3>1. CASE DbReadCode
      <4>1. toDb # <<sbuf[c]>>
        BY <2>2, <3>1 DEF DbReadCode
      <4>2. Head(toDb) = Code("CMD_PLACE_ORDER")
        BY <2>2, <4>1
      <4>3. fromDb' = <<>>
        BY <2>2, <3>1, <4>2 DEF DbReadCode, Code, deskVars
      <4> QED BY <4>3
    <3>2. CASE DbReadOrder
      <4>1. Head(toDb) = OrderMsg(c, order[c])
        BY <1>1, <1>7, <2>1, <2>2, <3>2 DEF DbReadOrder, ExchangeAt
      <4>2. AnswerOrder(c, order[c])
        BY <3>2, <4>1 DEF DbReadOrder, OrderMsg
      <4>3. Len(fromDb') = 2 =>
              \E unread \in Unread(order[c]) : fromDb'[2] = OrderMsg(c, SubOrder(order[c], unread))
        BY <2>2, <4>2, AnswerToAnOrder
      <4>4. ASSUME NEW unread
            PROVE  LET m == OrderMsg(c, SubOrder(order[c], unread)) IN
                   /\ m.type = "ORDER" /\ m.address = c
                   /\ DOMAIN m.items = DOMAIN order[c]
                   /\ \A p \in DOMAIN order[c] : m.items[p] <= order[c][p]
        <5>1. DOMAIN order[c] \subseteq Products /\ order[c] \in [DOMAIN order[c] -> Quantities]
          BY ItemsAreFunctions DEF TypeOK
        <5>2. \A p \in DOMAIN order[c] : ReadStock(p, unread) \in Int /\ order[c][p] \in Int
          BY <5>1, DeskAssumption DEF TypeOK, Shelves, ReadStock, Quantities
        <5> QED BY <5>2 DEF OrderMsg, SubOrder
      <4> QED BY <1>2, <4>3, <4>4 DEF CutDown, clientVars
    <3>3. CASE DbReadJunk
      <4>1. Head(toDb).type # "ORDER" /\ db = "order"
        BY <3>3 DEF DbReadJunk
      <4>2. toDb = <<sbuf[c]>>
        BY <1>1, <1>7, <4>1 DEF ExchangeAt
      <4> QED BY <2>1, <4>1, <4>2 DEF OrderMsg
    <3> QED BY <3>1, <3>2, <3>3 DEF DbStep
  <2> QED BY <1>1, <1>2, <1>7, <2>1, <2>3 DEF SessionAt, OrderUnderWay, clientVars
<1> QED BY <1>6, <1>7

-----------------------------------------------------------------------------
(* The inductive invariant and what follows from it.                       *)

\* The inductive invariant.
IInv == TypeOK /\ ExchangeDiscipline /\ SessionDiscipline /\ CartFits

\* The inductive invariant holds when the programs start.
THEOREM IInvInitially == Init => IInv
<1> SUFFICES ASSUME Init
             PROVE  IInv
  OBVIOUS
<1>1. TypeOK
  BY TypesInitially
<1>2. ExchangeDiscipline
  BY ShopAssumption DEF Init, DeskInit, ExchangeDiscipline, Holding, Quiet
<1>3. SessionDiscipline
  BY DEF Init, SessionDiscipline, SessionAt
<1>4. CartFits
  BY EmptyOrderIsOrder DEF Init, CartFits
<1> QED BY <1>1, <1>2, <1>3, <1>4 DEF IInv

\* Every step of every process (client.c, forkedServer.c, databaseServer.c) keeps
\* the inductive invariant.
THEOREM IInvStep == IInv /\ [Next]_vars => IInv'
<1> SUFFICES ASSUME IInv, [Next]_vars
             PROVE  IInv'
  OBVIOUS
<1> USE DEF IInv
<1>1. ASSUME NEW c \in Clients, ClientStep(c)
      PROVE  IInv'
  BY <1>1, ClientKeepsTypes, ClientKeepsExchange, ClientKeepsSession, ClientKeepsCart
<1>2. ASSUME NEW c \in Clients, UserStep(c)
      PROVE  IInv'
  BY <1>2, UserKeepsTypes, UserKeepsExchange, UserKeepsSession, UserKeepsCart
<1>3. ASSUME NEW c \in Clients, ServerStep(c)
      PROVE  IInv'
  <2>1. UNCHANGED clientVars
    BY <1>3 DEF ServerStep, ReceiveCode, ReadEndOfFile, OpenConnection, AskForProducts, ReadProducts,
                SendProducts, ReceiveOrder, ForwardCommand, ForwardOrder, ReadAnswer, SendAnswer,
                CloseConnection, ShutDown
  <2>2. CartFits'
    BY <2>1, CartFrame DEF clientVars
  <2> QED BY <1>3, <2>2, ServerKeepsTypes, ServerKeepsExchange, ServerKeepsSession
<1>4. CASE DbStep
  <2>1. CartFits'
    BY <1>4, CartFrame DEF DbStep, DbReadCode, DbReadOrder, DbReadJunk, clientVars
  <2> QED BY <1>4, <2>1, DbKeepsTypes, DbKeepsExchange, DbKeepsSession
<1>5. CASE UNCHANGED vars
  <2>1. TypeOK'
    BY <1>5 DEF vars, clientVars, serverVars, deskVars, TypeOK
  <2>2. ExchangeDiscipline'
    BY <1>5, ExchangeFrame DEF vars, serverVars, deskVars
  <2>3. SessionDiscipline'
    BY <1>5, SessionFrame DEF vars, clientVars, serverVars, deskVars, SessionDiscipline
  <2>4. CartFits'
    BY <1>5, CartFrame DEF vars, clientVars
  <2> QED BY <2>1, <2>2, <2>3, <2>4
<1> QED BY <1>1, <1>2, <1>3, <1>4, <1>5 DEF Next

\* Whatever customers do, whichever of them are killed or interrupted, and
\* whatever the database file's other users do, the invariant holds.
THEOREM Invariance == Spec => []IInv
  BY IInvInitially, IInvStep, PTL DEF Spec

\* No order ever takes a quantity below zero (databaseServer.c:253-280 against
\* the CHECK at :290), and no message carries an order larger than the shelf.
THEOREM TypeCorrectness == Spec => []TypeOK
<1>1. IInv => TypeOK
  BY DEF IInv
<1> QED BY <1>1, Invariance, PTL

\* Behind the mutex of server/dbConn.c:74-80 there is one exchange at a time, and
\* the pipes are empty whenever it is free, for any number of clients.
THEOREM ExchangesAreDisciplined == Spec => []ExchangeDiscipline
<1>1. IInv => ExchangeDiscipline
  BY DEF IInv
<1> QED BY <1>1, Invariance, PTL

\* A connected client and its forked server stay in step (client.c:181-260,
\* forkedServer.c:24-109), for any number of other clients and any faults.
THEOREM SessionsStayInStep == Spec => []SessionDiscipline
<1>1. IInv => SessionDiscipline
  BY DEF IInv
<1> QED BY <1>1, Invariance, PTL

\* What a client ordered and what its list still shows never exceed what was on
\* the shelf (client.c:131-155 and the sub-order of client.c:250-255).
THEOREM CartsFit == Spec => []CartFits
<1>1. IInv => CartFits
  BY DEF IInv
<1> QED BY <1>1, Invariance, PTL

\* A client reads answers to its own requests only, and a sub-order it reads is
\* its own order cut down (client.c:240-259).
THEOREM AnswersBelong == Spec => []AnswersAreMine
<1>1. IInv => AnswersAreMine
  <2> SUFFICES ASSUME IInv, NEW c \in Clients
               PROVE
                 /\ cpc[c] \in {"off", "hello", "menu", "ordering", "quit"} => down[c] = <<>>
                 /\ cpc[c] = "fetch" /\ down[c] # <<>> =>
                      Head(down[c]).type \in {"PRODUCTS", "MESSAGE_ERROR"}
                 /\ cpc[c] = "reply" /\ down[c] # <<>> =>
                      Head(down[c]).type \in {"MESSAGE_OK", "MESSAGE_ERROR",
                                              "MESSAGE_UNSATISFIABLE_ORDER"}
                 /\ cpc[c] = "sub" /\ down[c] # <<>> => CutDown(c, Head(down[c]))
    BY DEF AnswersAreMine
  <2>1. SessionAt(c) /\ TypeOK
    BY DEF IInv, SessionDiscipline
  <2>2. cpc[c] \in {"off", "hello", "menu", "ordering", "quit"} => down[c] = <<>>
    BY <2>1 DEF SessionAt
  <2>3. cpc[c] = "fetch" /\ down[c] # <<>> => Head(down[c]).type \in {"PRODUCTS", "MESSAGE_ERROR"}
    BY <2>1 DEF SessionAt, ProductsUnderWay
  <2>4. ASSUME cpc[c] = "reply", down[c] # <<>>
        PROVE  Head(down[c]).type \in {"MESSAGE_OK", "MESSAGE_ERROR",
                                       "MESSAGE_UNSATISFIABLE_ORDER"}
    <3>1. Answered(c)
      BY <2>1, <2>4 DEF SessionAt, OrderUnderWay
    <3>2. \/ down[c] \in {<<Code("MESSAGE_OK")>>, <<Code("MESSAGE_ERROR")>>,
                          <<Code("MESSAGE_UNSATISFIABLE_ORDER")>>}
          \/ down[c][1] = Code("MESSAGE_UNSATISFIABLE_ORDER")
      BY <3>1 DEF Answered
    <3> QED BY <2>1, <3>2 DEF Code, TypeOK
  <2>5. cpc[c] = "sub" /\ down[c] # <<>> => CutDown(c, Head(down[c]))
    BY <2>1 DEF SessionAt, SubOrderUnderWay
  <2> QED BY <2>2, <2>3, <2>4, <2>5
<1> QED BY <1>1, Invariance, PTL
==============================================================================
