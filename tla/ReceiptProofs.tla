---------------------------- MODULE ReceiptProofs ----------------------------
(***************************************************************************)
(* For every set of clients and products, either transport and whatever    *)
(* faults: a session places at most one order, and a customer who is told  *)
(* "Order placed" has one.  Where no client is interrupted inside          *)
(* submitOrder, rows are written in the name of the server that holds the  *)
(* shared connection and waits for the answer, and in no other.            *)
(*                                                                         *)
(* The invariant of ShopProofs says which message is where while a client  *)
(* is connected.  The two theorems need it of clients that have gone too:  *)
(* their forked servers read on, and an order that was sent is placed with *)
(* nobody left to hear of it.  So Receipts follows the one order of each   *)
(* session from the socket to the tables, and back to the customer as the  *)
(* answer, and says that no second one is on the way.                      *)
(*                                                                         *)
(* For every finite set of clients and with nothing going wrong, the books *)
(* agree with the receipts: once nobody waits for an answer, the entries   *)
(* sold are exactly those of the customers who were told "Order placed",   *)
(* and they are what is missing from the shelves.                          *)
(***************************************************************************)
EXTENDS ShopProofs, FiniteSetTheorems

-----------------------------------------------------------------------------
(* Orders on a channel.                                                    *)

\* No message of s is an order.
NoOrderIn(s) == \A i \in 1 .. Len(s) : s[i].type # "ORDER"

\* At most one message of s is an order.
OneOrderIn(s) ==
  \A i, j \in 1 .. Len(s) : s[i].type = "ORDER" /\ s[j].type = "ORDER" => i = j

\* The orders of s are client c's.
OrdersAreOf(c, s) == \A i \in 1 .. Len(s) : s[i].type = "ORDER" => s[i].address = c

\* Behind a command to place an order comes the order.
OrderFollows(s) ==
  \A i \in 1 .. Len(s) - 1 : s[i] = Code("CMD_PLACE_ORDER") => s[i + 1].type = "ORDER"

-----------------------------------------------------------------------------
(* The invariant.                                                          *)

\* Places of a forked server from the order to its answer.
Ordering == {"olock", "owcode", "oword", "oread"}

\* The server of c has an order that the database has not read yet.
InHand(c) ==
  /\ sbuf[c].type = "ORDER"
  /\ spc[c] \in Ordering
  /\ spc[c] = "oread" => toDb # <<>>

\* A server's orders are those of its own client.
Named(c) ==
  /\ OrdersAreOf(c, up[c])
  /\ spc[c] \in Ordering /\ sbuf[c].type = "ORDER" => sbuf[c].address = c

\* At most one order of c is sent, in the server's hands or in the tables.
Sole(c) ==
  /\ OneOrderIn(up[c])
  /\ InHand(c) => NoOrderIn(up[c])
  /\ placed[c] \in {0, 1}
  /\ placed[c] = 1 =>
       ~InHand(c) /\ NoOrderIn(up[c]) /\ cpc[c] \in {"reply", "quit", "gone"}

\* The answer to the order of c that says m is on its way to the client.
AnswerOnItsWay(c, m) ==
  \/ spc[c] = "oread" /\ fromDb = <<m>>
  \/ spc[c] = "osend" /\ sbuf[c] = m
  \/ down[c] = <<m>>

\* MESSAGE_OK is on its way, or was received, only when there is a row; when
\* there is one, the answer is MESSAGE_OK or MESSAGE_ERROR.
Receipt(c) ==
  /\ cpc[c] = "reply" /\ AnswerOnItsWay(c, Code("MESSAGE_OK")) => placed[c] = 1
  /\ cpc[c] = "reply" /\ placed[c] = 1 =>
       \/ AnswerOnItsWay(c, Code("MESSAGE_OK"))
       \/ AnswerOnItsWay(c, Code("MESSAGE_ERROR"))
  /\ told[c] = "placed" => placed[c] = 1

\* The one order of every session, followed to the tables and back.
Receipts == \A c \in Clients : Named(c) /\ Sole(c) /\ Receipt(c)

\* With no client interrupted inside submitOrder, a server that places an order
\* has one.
WholeOrder(c) ==
  /\ OrderFollows(up[c])
  /\ spc[c] = "orecv" /\ up[c] # <<>> => up[c][1].type = "ORDER"
  /\ spc[c] \in Ordering => sbuf[c].type = "ORDER"

WholeOrders == \A c \in Clients : WholeOrder(c)

-----------------------------------------------------------------------------
(* Reading from a channel and writing to it.                               *)

\* What is left on a channel after a read holds no more orders than before, and
\* none if the one that was read was one.
LEMMA AfterARead ==
  ASSUME NEW s \in Seq(Messages), s # <<>>, NEW c
  PROVE  /\ NoOrderIn(s) => Head(s).type # "ORDER" /\ NoOrderIn(Tail(s))
         /\ OneOrderIn(s) => OneOrderIn(Tail(s)) /\ (Head(s).type = "ORDER" => NoOrderIn(Tail(s)))
         /\ OrdersAreOf(c, s) =>
              OrdersAreOf(c, Tail(s)) /\ (Head(s).type = "ORDER" => Head(s).address = c)
         /\ OrderFollows(s) =>
              /\ OrderFollows(Tail(s))
              /\ Head(s) = Code("CMD_PLACE_ORDER") /\ Tail(s) # <<>> => Tail(s)[1].type = "ORDER"
<1> DEFINE t == Tail(s)
<1>1. /\ Len(s) \in Nat \ {0} /\ Len(t) = Len(s) - 1 /\ Head(s) = s[1]
      /\ \A i \in 1 .. Len(t) : t[i] = s[i + 1]
  BY HeadTailProperties, EmptySeq, LenProperties
<1>2. t # <<>> => Len(t) > 0 /\ Len(s) > 1
  BY <1>1, HeadTailProperties, EmptySeq
<1> HIDE DEF t
<1>3. NoOrderIn(s) => Head(s).type # "ORDER" /\ NoOrderIn(t)
  BY <1>1 DEF NoOrderIn
<1>4. OneOrderIn(s) => OneOrderIn(t)
  <2> SUFFICES ASSUME OneOrderIn(s), NEW i \in 1 .. Len(t), NEW j \in 1 .. Len(t),
                      t[i].type = "ORDER", t[j].type = "ORDER"
               PROVE  i = j
    BY DEF OneOrderIn
  <2>1. i + 1 \in 1 .. Len(s) /\ j + 1 \in 1 .. Len(s) /\ i \in Int /\ j \in Int
    BY <1>1
  <2>2. s[i + 1].type = "ORDER" /\ s[j + 1].type = "ORDER"
    BY <1>1
  <2>3. i + 1 = j + 1
    BY <2>1, <2>2 DEF OneOrderIn
  <2> QED BY <2>1, <2>3
<1>5. OneOrderIn(s) /\ Head(s).type = "ORDER" => NoOrderIn(t)
  <2> SUFFICES ASSUME OneOrderIn(s), s[1].type = "ORDER", NEW i \in 1 .. Len(t),
                      t[i].type = "ORDER"
               PROVE  FALSE
    BY <1>1 DEF NoOrderIn
  <2>1. i + 1 \in 1 .. Len(s) /\ 1 \in 1 .. Len(s) /\ s[i + 1].type = "ORDER" /\ i \in 1 .. Len(t)
    BY <1>1
  <2>2. i + 1 = 1
    BY <2>1 DEF OneOrderIn
  <2> QED BY <1>1, <2>1, <2>2
<1>6. OrdersAreOf(c, s) => OrdersAreOf(c, t) /\ (Head(s).type = "ORDER" => Head(s).address = c)
  BY <1>1 DEF OrdersAreOf
<1>7. OrderFollows(s) => OrderFollows(t)
  <2> SUFFICES ASSUME OrderFollows(s), NEW i \in 1 .. Len(t) - 1, t[i] = Code("CMD_PLACE_ORDER")
               PROVE  t[i + 1].type = "ORDER"
    BY DEF OrderFollows
  <2>1. i + 1 \in 1 .. Len(s) - 1 /\ i \in 1 .. Len(t) /\ i + 1 \in 1 .. Len(t) /\ i \in Int
    BY <1>1
  <2>2. s[i + 1] = Code("CMD_PLACE_ORDER") /\ t[i + 1] = s[(i + 1) + 1]
    BY <1>1, <2>1
  <2> QED BY <2>1, <2>2 DEF OrderFollows
<1>8. OrderFollows(s) /\ Head(s) = Code("CMD_PLACE_ORDER") /\ t # <<>> => t[1].type = "ORDER"
  <2> SUFFICES ASSUME OrderFollows(s), s[1] = Code("CMD_PLACE_ORDER"), t # <<>>
               PROVE  t[1].type = "ORDER"
    BY <1>1
  <2>1. 1 \in 1 .. Len(s) - 1 /\ 1 \in 1 .. Len(t)
    BY <1>1, <1>2
  <2>2. t[1] = s[1 + 1]
    BY <1>1, <2>1
  <2> QED BY <2>1, <2>2 DEF OrderFollows
<1> QED BY <1>3, <1>4, <1>5, <1>6, <1>7, <1>8 DEF t

\* Codes written to a channel bring no order.
LEMMA AfterCodes ==
  ASSUME NEW s \in Seq(Messages), NEW ms \in Seq(Messages), NoOrderIn(ms), NEW c
  PROVE  /\ NoOrderIn(s) => NoOrderIn(s \o ms)
         /\ OneOrderIn(s) => OneOrderIn(s \o ms)
         /\ OrdersAreOf(c, s) => OrdersAreOf(c, s \o ms)
<1> DEFINE t == s \o ms
<1>1. /\ Len(s) \in Nat /\ Len(ms) \in Nat /\ Len(t) = Len(s) + Len(ms)
      /\ \A i \in 1 .. Len(t) : t[i] = IF i <= Len(s) THEN s[i] ELSE ms[i - Len(s)]
  BY ConcatProperties, LenProperties
<1> HIDE DEF t
<1>2. ASSUME NEW i \in 1 .. Len(t), t[i].type = "ORDER"
      PROVE  i \in 1 .. Len(s) /\ t[i] = s[i]
  <2>1. CASE i <= Len(s)
    BY <1>1, <2>1
  <2>2. CASE i > Len(s)
    <3>1. i - Len(s) \in 1 .. Len(ms) /\ t[i] = ms[i - Len(s)]
      BY <1>1, <2>2
    <3> QED BY <1>2, <3>1 DEF NoOrderIn
  <2> QED BY <1>1, <2>1, <2>2
<1>3. NoOrderIn(s) => NoOrderIn(t)
  BY <1>2 DEF NoOrderIn
<1>4. OneOrderIn(s) => OneOrderIn(t)
  BY <1>2 DEF OneOrderIn
<1>5. OrdersAreOf(c, s) => OrdersAreOf(c, t)
  BY <1>2 DEF OrdersAreOf
<1> QED BY <1>3, <1>4, <1>5 DEF t

\* Channels with at most one command on them.
LEMMA ShortChannels ==
  /\ NoOrderIn(<<>>)
  /\ NoOrderIn(<<Code("CMD_GET_PRODUCTS")>>)
  /\ NoOrderIn(<<Code("CMD_PLACE_ORDER")>>)
  /\ NoOrderIn(<<Code("MESSAGE_CLOSE")>>)
  /\ NoOrderIn(<<Code("MESSAGE_CLOSE"), Code("MESSAGE_CLOSE")>>)
  BY DEF NoOrderIn, Code

\* With no order on a channel there is nothing to say of its orders.
LEMMA NoOrderIsFine ==
  ASSUME NEW s, NoOrderIn(s), NEW c
  PROVE  OneOrderIn(s) /\ OrdersAreOf(c, s)
  BY DEF NoOrderIn, OneOrderIn, OrdersAreOf

-----------------------------------------------------------------------------
(* Sessions do not disturb one another.                                    *)

\* What a session's server still has and has answered does not change while its
\* own variables do not, and neither do the pipes while it waits at them.
LEMMA ReceiptFrame ==
  ASSUME NEW d \in Clients, Named(d), Sole(d), Receipt(d),
         cpc'[d] = cpc[d], told'[d] = told[d], up'[d] = up[d], down'[d] = down[d],
         spc'[d] = spc[d], sbuf'[d] = sbuf[d], placed'[d] = placed[d],
         spc[d] = "oread" => toDb' = toDb /\ fromDb' = fromDb
  PROVE  Named(d)' /\ Sole(d)' /\ Receipt(d)'
<1>1. Named(d)'
  BY DEF Named, OrdersAreOf
<1>2. InHand(d)' <=> InHand(d)
  BY DEF InHand, Ordering
<1>3. Sole(d)'
  BY <1>2 DEF Sole, OneOrderIn, NoOrderIn
<1>4. ASSUME NEW m
      PROVE  AnswerOnItsWay(d, m)' <=> AnswerOnItsWay(d, m)
  BY DEF AnswerOnItsWay
<1>5. /\ AnswerOnItsWay(d, Code("MESSAGE_OK"))' <=> AnswerOnItsWay(d, Code("MESSAGE_OK"))
      /\ AnswerOnItsWay(d, Code("MESSAGE_ERROR"))' <=> AnswerOnItsWay(d, Code("MESSAGE_ERROR"))
  BY DEF AnswerOnItsWay, Code
<1>6. Receipt(d)'
  BY <1>5 DEF Receipt
<1> QED BY <1>1, <1>3, <1>6

\* A step of session c that leaves the tables and the others' variables alone
\* keeps Receipts if it does so for c.
LEMMA ReceiptsOfOthers ==
  ASSUME Receipts, NEW c \in Clients, Named(c)', Sole(c)', Receipt(c)',
         \A d \in Clients \ {c} :
           /\ cpc'[d] = cpc[d] /\ told'[d] = told[d] /\ up'[d] = up[d] /\ down'[d] = down[d]
           /\ spc'[d] = spc[d] /\ sbuf'[d] = sbuf[d] /\ placed'[d] = placed[d]
           /\ spc[d] = "oread" => toDb' = toDb /\ fromDb' = fromDb
  PROVE  Receipts'
<1>1. ASSUME NEW d \in Clients
      PROVE  Named(d)' /\ Sole(d)' /\ Receipt(d)'
  <2>1. CASE d = c
    BY <2>1
  <2>2. CASE d # c
    <3>1. Named(d) /\ Sole(d) /\ Receipt(d)
      BY DEF Receipts
    <3> QED BY <2>2, <3>1, ReceiptFrame
  <2> QED BY <2>1, <2>2
<1> QED BY <1>1 DEF Receipts

\* A client that is not waiting for the answer to an order has nothing on its
\* way: neither the order nor, unless it has gone, an answer.
LEMMA NothingInHand ==
  ASSUME TypeOK, NEW c \in Clients, SessionAt(c), cpc[c] \notin {"reply", "gone"}
  PROVE  ~InHand(c) /\ NoOrderIn(up[c]) /\ spc[c] \notin Ordering
<1>1. spc[c] \notin Ordering
  BY ClientOfServer DEF Ordering
<1>2. up[c] \in {<<>>, <<Code("CMD_GET_PRODUCTS")>>, <<Code("CMD_PLACE_ORDER")>>}
  BY DEF SessionAt, ProductsUnderWay, TypeOK, ClientPlaces
<1> QED BY <1>1, <1>2, ShortChannels DEF InHand

-----------------------------------------------------------------------------
(* The client.                                                             *)

\* A client step that sends codes only, and no answer read, keeps Receipts.
LEMMA CodesKeepReceipts ==
  ASSUME TypeOK, Receipts, NEW c \in Clients,
         NEW ms \in Seq(Messages), NoOrderIn(ms), up' = [up EXCEPT ![c] = @ \o ms],
         \A d \in Clients \ {c} : cpc'[d] = cpc[d],
         cpc[c] \in {"reply", "quit", "gone"} => cpc'[c] \in {"quit", "gone"},
         cpc'[c] # "reply",
         UNCHANGED <<told, down, spc, sbuf, placed, toDb, fromDb>>
  PROVE  Receipts'
<1>1. Named(c) /\ Sole(c) /\ Receipt(c)
  BY DEF Receipts
<1>2. up[c] \in Seq(Messages) /\ up'[c] = up[c] \o ms
  BY DEF TypeOK
<1>3. /\ NoOrderIn(up[c]) => NoOrderIn(up'[c])
      /\ OneOrderIn(up[c]) => OneOrderIn(up'[c])
      /\ OrdersAreOf(c, up[c]) => OrdersAreOf(c, up'[c])
  BY <1>2, AfterCodes
<1>4. InHand(c)' <=> InHand(c)
  BY DEF InHand, Ordering
<1>5. NoOrderIn(up[c])' <=> NoOrderIn(up'[c])
  BY DEF NoOrderIn
<1>6. OneOrderIn(up[c])' <=> OneOrderIn(up'[c])
  BY DEF OneOrderIn
<1>7. OrdersAreOf(c, up[c])' <=> OrdersAreOf(c, up'[c])
  BY DEF OrdersAreOf
<1>8. Named(c)'
  BY <1>1, <1>3, <1>7 DEF Named
<1>9. Sole(c)'
  BY <1>1, <1>3, <1>4, <1>5, <1>6 DEF Sole
<1>10. Receipt(c)'
  BY <1>1 DEF Receipt
<1>11. \A d \in Clients \ {c} : up'[d] = up[d]
  BY DEF TypeOK
<1> QED BY <1>8, <1>9, <1>10, <1>11, ReceiptsOfOthers

\* Each step of client.c keeps Receipts: it sends its order when none is under
\* way, and believes what the answer says.
LEMMA ClientKeepsReceipts ==
  ASSUME TypeOK, SessionDiscipline, Receipts, NEW c \in Clients, ClientStep(c)
  PROVE  Receipts'
<1> USE DEF serverVars, deskVars, SendUp
<1>0. SessionAt(c) /\ Named(c) /\ Sole(c) /\ Receipt(c)
  BY DEF SessionDiscipline, Receipts
<1>1. CASE RequestProducts(c)
  <2>1. <<Code("CMD_GET_PRODUCTS")>> \in Seq(Messages)
    BY CodesAreMessages
  <2> QED BY <1>1, <2>1, ShortChannels, CodesKeepReceipts DEF RequestProducts, TypeOK
<1>2. CASE ReceiveProducts(c) \/ ReceiveSubOrder(c)
  <2>1. /\ cpc[c] \in {"fetch", "sub"} /\ cpc'[c] \in {"menu", "quit"} /\ placed' = placed
        /\ UNCHANGED <<up, spc, sbuf, toDb, told>>
    BY <1>2 DEF ReceiveProducts, ReceiveSubOrder, TypeOK
  <2>2. Named(c)'
    BY <1>0, <2>1 DEF Named, OrdersAreOf
  <2>3. ~InHand(c)' /\ NoOrderIn(up[c])' /\ OneOrderIn(up[c])'
    <3>1. ~InHand(c) /\ NoOrderIn(up[c])
      BY <1>0, <2>1, NothingInHand
    <3> QED BY <2>1, <3>1, <1>0 DEF InHand, Ordering, NoOrderIn, OneOrderIn, Sole
  <2>4. placed[c] # 1
    BY <1>0, <2>1 DEF Sole
  <2>5. Sole(c)'
    BY <1>0, <2>1, <2>3, <2>4 DEF Sole
  <2>6. Receipt(c)'
    BY <1>0, <2>1 DEF Receipt
  <2> QED BY <1>2, <2>2, <2>5, <2>6, ReceiptsOfOthers DEF ReceiveProducts, ReceiveSubOrder, TypeOK
<1>3. CASE SubmitOrder(c)
  <2> DEFINE o == OrderMsg(c, order[c])
  <2>1. /\ \/ up[c] = <<Code("CMD_PLACE_ORDER")>>
           \/ up[c] = <<>>
        /\ down[c] = <<>> /\ spc[c] \notin Ordering \cup {"osend"}
    BY <1>0, <1>3 DEF SubmitOrder, SessionAt, Between, Ordering
  <2>2. <<Code("CMD_PLACE_ORDER")>> \o <<o>> = <<Code("CMD_PLACE_ORDER"), o>>
    BY ConcatOneAndOne
  <2>3. <<>> \o <<o>> = <<o>>
    OBVIOUS
  <2>4. cpc'[c] = "reply" /\ UNCHANGED <<down, spc, sbuf, told, placed, fromDb>>
        /\ up'[c] = up[c] \o <<o>>
    BY <1>3 DEF SubmitOrder, TypeOK
  <2>5. o.type = "ORDER" /\ o.address = c
    BY DEF OrderMsg
  <2> HIDE DEF o
  <2>6. up'[c] \in {<<Code("CMD_PLACE_ORDER"), o>>, <<o>>}
    BY <2>1, <2>2, <2>3, <2>4
  <2>7. OneOrderIn(up[c])'
    BY <2>5, <2>6 DEF OneOrderIn, Code
  <2>8. OrdersAreOf(c, up[c])'
    BY <2>5, <2>6 DEF OrdersAreOf, Code
  <2>9. ~InHand(c)' /\ placed[c] # 1
    BY <1>0, <1>3, <2>1, <2>4 DEF InHand, Sole, SubmitOrder
  <2>10. Sole(c)'
    BY <1>0, <2>4, <2>7, <2>9 DEF Sole
  <2>11. Receipt(c)'
    <3>1. ~AnswerOnItsWay(c, Code("MESSAGE_OK"))'
      BY <2>1, <2>4 DEF AnswerOnItsWay, Ordering
    <3> QED BY <1>0, <2>4, <2>9, <3>1 DEF Receipt
  <2>12. Named(c)'
    BY <2>1, <2>4, <2>8 DEF Named
  <2> QED BY <1>3, <2>10, <2>11, <2>12, ReceiptsOfOthers DEF SubmitOrder, TypeOK
<1>4. CASE ReceiveReply(c)
  <2>1. up[c] = <<>> /\ Answered(c)
    BY <1>0, <1>4 DEF ReceiveReply, SessionAt, OrderUnderWay
  <2>2. /\ cpc[c] = "reply" /\ cpc'[c] \in {"quit", "sub"}
        /\ UNCHANGED <<up, spc, sbuf, placed, toDb, fromDb>>
    BY <1>4 DEF ReceiveReply, TypeOK
  <2>3. spc[c] \notin Ordering \cup {"osend"}
    BY <2>1 DEF Answered, Between, Ordering
  <2>4. Named(c)'
    BY <1>0, <2>2 DEF Named, OrdersAreOf
  <2>5. ~InHand(c)' /\ NoOrderIn(up[c])' /\ OneOrderIn(up[c])'
    BY <2>1, <2>2, <2>3 DEF InHand, NoOrderIn, OneOrderIn
  <2>6. ASSUME down[c] = <<Code("MESSAGE_OK")>>
        PROVE  Sole(c)' /\ Receipt(c)'
    <3>1. placed[c] = 1
      BY <1>0, <2>2, <2>6 DEF Receipt, AnswerOnItsWay
    <3>2. Head(down[c]).type = "MESSAGE_OK"
      BY <2>6 DEF Code
    <3>3. cpc'[c] = "quit"
      BY <1>4, <3>2 DEF ReceiveReply, TypeOK
    <3> QED BY <2>2, <2>5, <3>1, <3>3 DEF Sole, Receipt
  <2>7. ASSUME down[c] = <<Code("MESSAGE_ERROR")>>
        PROVE  Sole(c)' /\ Receipt(c)'
    <3>0. Head(down[c]).type = "MESSAGE_ERROR"
      BY <2>7 DEF Code
    <3>1. cpc'[c] = "quit" /\ told'[c] = "error"
      BY <1>4, <3>0 DEF ReceiveReply, TypeOK
    <3> QED BY <1>0, <2>2, <2>5, <3>1 DEF Sole, Receipt
  <2>8. ASSUME down[c] \notin {<<Code("MESSAGE_OK")>>, <<Code("MESSAGE_ERROR")>>}
        PROVE  Sole(c)' /\ Receipt(c)'
    <3>1. placed[c] # 1
      BY <1>0, <2>2, <2>3, <2>8 DEF Receipt, AnswerOnItsWay, Ordering
    <3>2. Head(down[c]).type = "MESSAGE_UNSATISFIABLE_ORDER"
      BY <2>1, <2>8 DEF Answered, Code, TypeOK
    <3>3. told' = told /\ cpc'[c] = "sub"
      BY <1>4, <3>2 DEF ReceiveReply, TypeOK
    <3> QED BY <1>0, <2>2, <2>5, <3>1, <3>3 DEF Sole, Receipt
  <2>9. Sole(c)' /\ Receipt(c)'
    BY <2>6, <2>7, <2>8
  <2> QED BY <1>4, <2>4, <2>9, ReceiptsOfOthers DEF ReceiveReply, TypeOK
<1>5. CASE Disconnect(c)
  <2>1. <<Code("MESSAGE_CLOSE"), Code("MESSAGE_CLOSE")>> \in Seq(Messages)
        /\ <<Code("MESSAGE_CLOSE")>> \in Seq(Messages)
    BY CodesAreMessages
  <2> QED BY <1>5, <2>1, ShortChannels, CodesKeepReceipts DEF Disconnect, SayGoodbye, TypeOK
<1> QED BY <1>1, <1>2, <1>3, <1>4, <1>5 DEF ClientStep

\* What its user does, and SIGINT and SIGKILL at any moment, keep Receipts.
LEMMA UserKeepsReceipts ==
  ASSUME TypeOK, SessionDiscipline, Receipts, NEW c \in Clients, UserStep(c)
  PROVE  Receipts'
<1> USE DEF serverVars, deskVars, SendUp
<1>0. SessionAt(c) /\ Named(c) /\ Sole(c) /\ Receipt(c)
  BY DEF SessionDiscipline, Receipts
<1>1. CASE SubmitCommand(c)
  <2>1. <<Code("CMD_PLACE_ORDER")>> \in Seq(Messages)
    BY CodesAreMessages
  <2> QED BY <1>1, <2>1, ShortChannels, CodesKeepReceipts DEF SubmitCommand, TypeOK
<1>2. CASE Interrupt(c)
  <2>1. <<Code("MESSAGE_CLOSE"), Code("MESSAGE_CLOSE")>> \in Seq(Messages)
        /\ <<Code("MESSAGE_CLOSE")>> \in Seq(Messages)
    BY CodesAreMessages
  <2> QED BY <1>2, <2>1, ShortChannels, CodesKeepReceipts DEF Interrupt, SayGoodbye, TypeOK
<1>3. CASE Kill(c) \/ Quit(c) \/ Connect(c) \/ \E p \in Products, n \in 1 .. MaxStock : AddToOrder(c, p, n)
  <2>1. /\ UNCHANGED <<up, down, sbuf, told, placed, toDb, fromDb>>
        /\ \A d \in Clients \ {c} : cpc'[d] = cpc[d] /\ spc'[d] = spc[d]
    BY <1>3 DEF Kill, Quit, Connect, AddToOrder, TypeOK
  <2>2. cpc'[c] # "reply" /\ (placed[c] = 1 => cpc'[c] \in {"quit", "gone"})
    BY <1>0, <1>3 DEF Kill, Quit, Connect, AddToOrder, TypeOK, Sole
  <2>3. spc'[c] = spc[c] \/ spc'[c] = "recv"
    BY <1>3 DEF Kill, Quit, Connect, AddToOrder, TypeOK
  <2>4. InHand(c)' => InHand(c)
    BY <2>1, <2>3 DEF InHand, Ordering
  <2>5. Named(c)'
    BY <1>0, <2>1, <2>3 DEF Named, OrdersAreOf, Ordering
  <2>6. Sole(c)'
    BY <1>0, <2>1, <2>2, <2>4 DEF Sole, NoOrderIn, OneOrderIn
  <2>7. Receipt(c)'
    BY <1>0, <2>1, <2>2 DEF Receipt
  <2> QED BY <2>1, <2>5, <2>6, <2>7, ReceiptsOfOthers
<1> QED BY <1>1, <1>2, <1>3 DEF UserStep

-----------------------------------------------------------------------------
(* The forked server.                                                      *)

\* A server that takes nothing from its client has an order in its hands after
\* the step only if it was the one it had before.
LEMMA ServerKeepsHand ==
  ASSUME NEW c \in Clients, Named(c), Sole(c),
         UNCHANGED <<cpc, placed, up>>,
         spc'[c] \in Ordering =>
           /\ spc[c] \in Ordering /\ sbuf'[c] = sbuf[c]
           /\ spc[c] = "oread" => spc'[c] = "oread" /\ toDb' = toDb
  PROVE  Named(c)' /\ Sole(c)'
<1>1. InHand(c)' => InHand(c)
  BY DEF InHand, Ordering
<1>2. Named(c)'
  BY DEF Named, OrdersAreOf, Ordering
<1>3. Sole(c)'
  BY <1>1 DEF Sole, NoOrderIn, OneOrderIn
<1> QED BY <1>2, <1>3

\* A forked server changes its own session only, and the pipes only while no
\* other waits at them.
LEMMA ServersKeepApart ==
  ASSUME TypeOK, ExchangeDiscipline, NEW c \in Clients, ServerStep(c)
  PROVE  \A d \in Clients \ {c} :
           /\ up'[d] = up[d] /\ down'[d] = down[d] /\ spc'[d] = spc[d] /\ sbuf'[d] = sbuf[d]
           /\ spc[d] = "oread" => toDb' = toDb /\ fromDb' = fromDb
<1> USE DEF serverVars, deskVars, Go, Hand
<1>1. CASE ReadProducts(c) \/ ReadAnswer(c) \/ AskForProducts(c) \/ ForwardCommand(c) \/ ForwardOrder(c)
  <2>1. spc[c] \in Holding
    BY <1>1 DEF ReadProducts, ReadAnswer, AskForProducts, ForwardCommand, ForwardOrder, Holding
  <2>2. \A d \in Clients \ {c} : spc[d] # "oread"
    BY <2>1, OnlyTheHolderReads
  <2> QED BY <1>1, <2>2 DEF ReadProducts, ReadAnswer, AskForProducts, ForwardCommand, ForwardOrder,
                            TypeOK
<1>2. CASE ~(ReadProducts(c) \/ ReadAnswer(c) \/ AskForProducts(c) \/ ForwardCommand(c) \/ ForwardOrder(c))
  BY <1>2 DEF ServerStep, ReceiveCode, ReadEndOfFile, OpenConnection, SendProducts, ReceiveOrder,
              SendAnswer, CloseConnection, ShutDown, SendDown, TypeOK
<1> QED BY <1>1, <1>2

\* Each step of forkedServer.c keeps Receipts: it takes the order from the
\* connection, hands it to the database once, and passes the answer on.
LEMMA ServerKeepsReceipts ==
  ASSUME TypeOK, ExchangeDiscipline, SessionDiscipline, Receipts, NEW c \in Clients, ServerStep(c)
  PROVE  Receipts'
<1> USE DEF serverVars, deskVars, tables, Go, Hand
<1>0. /\ SessionAt(c) /\ Named(c) /\ Sole(c) /\ Receipt(c)
      /\ UNCHANGED <<cpc, told, placed>>
  BY DEF SessionDiscipline, Receipts, ServerStep, ReceiveCode, ReadEndOfFile, OpenConnection,
         AskForProducts, ReadProducts, SendProducts, ReceiveOrder, ForwardCommand, ForwardOrder,
         ReadAnswer, SendAnswer, CloseConnection, ShutDown, clientVars, Collect
<1>1. \A d \in Clients \ {c} :
        /\ up'[d] = up[d] /\ down'[d] = down[d] /\ spc'[d] = spc[d] /\ sbuf'[d] = sbuf[d]
        /\ spc[d] = "oread" => toDb' = toDb /\ fromDb' = fromDb
  BY ServersKeepApart
<1>2. SUFFICES Named(c)' /\ Sole(c)' /\ Receipt(c)'
  BY <1>0, <1>1, ReceiptsOfOthers
<1>3. CASE ReceiveCode(c)
  <2>1. /\ up'[c] = Tail(up[c]) /\ up[c] # <<>> /\ up[c] \in Seq(Messages)
        /\ spc[c] = "recv" /\ spc'[c] \notin Ordering \cup {"osend"} /\ UNCHANGED <<sbuf, down>>
    BY <1>3 DEF ReceiveCode, TypeOK, Ordering
  <2>2. /\ NoOrderIn(up[c]) => NoOrderIn(up'[c])
        /\ OneOrderIn(up'[c]) /\ OrdersAreOf(c, up'[c])
    BY <1>0, <2>1, AfterARead DEF Sole, Named
  <2>3. Named(c)'
    BY <2>1, <2>2 DEF Named, OrdersAreOf
  <2>4. ~InHand(c)'
    BY <2>1 DEF InHand
  <2>5. Sole(c)'
    BY <1>0, <2>2, <2>4 DEF Sole, NoOrderIn, OneOrderIn
  <2>6. Receipt(c)'
    BY <1>0, <2>1 DEF Receipt, AnswerOnItsWay, Ordering
  <2> QED BY <2>3, <2>5, <2>6
<1>4. CASE ReceiveOrder(c)
  <2>1. /\ up'[c] = Tail(up[c]) /\ up[c] # <<>> /\ up[c] \in Seq(Messages)
        /\ spc[c] = "orecv" /\ spc'[c] = "olock" /\ sbuf'[c] = Head(up[c]) /\ UNCHANGED down
    BY <1>4 DEF ReceiveOrder, TypeOK
  <2>2. /\ NoOrderIn(up[c]) => NoOrderIn(up'[c]) /\ sbuf'[c].type # "ORDER"
        /\ OneOrderIn(up'[c]) /\ OrdersAreOf(c, up'[c])
        /\ sbuf'[c].type = "ORDER" => sbuf'[c].address = c /\ NoOrderIn(up'[c])
    BY <1>0, <2>1, AfterARead DEF Sole, Named
  <2>3. Named(c)'
    BY <2>1, <2>2 DEF Named, OrdersAreOf
  <2>4. Sole(c)'
    BY <1>0, <2>2 DEF Sole, InHand, NoOrderIn, OneOrderIn
  <2>5. Receipt(c)'
    BY <1>0, <2>1 DEF Receipt, AnswerOnItsWay
  <2> QED BY <2>3, <2>4, <2>5
<1>5. CASE ReadEndOfFile(c) \/ OpenConnection(c) \/ AskForProducts(c) \/ ForwardCommand(c) \/ CloseConnection(c) \/ ShutDown(c)
  <2>1. /\ UNCHANGED <<up, sbuf, down>> /\ spc[c] \notin {"oread", "osend"}
        /\ spc'[c] \notin {"oread", "osend"} /\ (spc'[c] \in Ordering => spc[c] \in Ordering)
    BY <1>5 DEF ReadEndOfFile, OpenConnection, AskForProducts, ForwardCommand, CloseConnection,
                ShutDown, TypeOK, Ordering
  <2>2. Named(c)' /\ Sole(c)'
    BY <1>0, <2>1, ServerKeepsHand
  <2>3. Receipt(c)'
    BY <1>0, <2>1 DEF Receipt, AnswerOnItsWay
  <2> QED BY <2>2, <2>3
<1>6. CASE ForwardOrder(c)
  <2>1. /\ UNCHANGED <<up, sbuf, down, fromDb>> /\ spc[c] = "oword" /\ spc'[c] = "oread"
    BY <1>6 DEF ForwardOrder, TypeOK
  <2>2. fromDb = <<>>
    <3>1. ExchangeAt(c)
      BY <2>1, OnlyTheHolderReads DEF Holding
    <3> QED BY <2>1, <3>1 DEF ExchangeAt
  <2>3. Named(c)' /\ Sole(c)'
    BY <1>0, <2>1, ServerKeepsHand DEF Ordering
  <2>4. Receipt(c)'
    BY <1>0, <2>1, <2>2 DEF Receipt, AnswerOnItsWay
  <2> QED BY <2>3, <2>4
<1>7. CASE ReadProducts(c) \/ SendProducts(c)
  <2>1. /\ UNCHANGED up /\ spc[c] \in {"pread", "psend"} /\ spc'[c] \notin Ordering
    BY <1>7 DEF ReadProducts, SendProducts, SendDown, TypeOK, Ordering
  <2>2. Named(c)' /\ Sole(c)'
    BY <1>0, <2>1, ServerKeepsHand
  <2>3. cpc[c] # "reply"
    BY <1>0, <2>1, ClientOfServer
  <2>4. Receipt(c)'
    BY <1>0, <2>3 DEF Receipt
  <2> QED BY <2>2, <2>4
<1>8. CASE ReadAnswer(c)
  <2>1. /\ UNCHANGED <<up, down>> /\ spc[c] \in {"oread", "osub"} /\ sbuf'[c] = Head(fromDb)
        /\ spc'[c] = IF spc[c] = "oread" THEN "osend" ELSE "osendsub"
        /\ fromDb # <<>>
    BY <1>8 DEF ReadAnswer, TypeOK
  <2>2. Named(c)' /\ Sole(c)'
    BY <1>0, <2>1, ServerKeepsHand DEF Ordering
  <2>3. CASE spc[c] = "oread"
    <3>1. ExchangeAt(c)
      BY <2>3, OnlyTheHolderReads DEF Holding
    <3>2. OrderAnswered
      BY <2>1, <2>3, <3>1 DEF ExchangeAt
    <3>3. \A m : fromDb = <<m>> => Head(fromDb) = m
      OBVIOUS
    <3>4. Head(fromDb) = Code("MESSAGE_OK") => fromDb = <<Code("MESSAGE_OK")>>
      BY <3>2 DEF OrderAnswered, Code
    <3> QED BY <1>0, <2>1, <2>2, <2>3, <3>3, <3>4 DEF Receipt, AnswerOnItsWay
  <2>4. CASE spc[c] = "osub"
    BY <1>0, <2>1, <2>2, <2>4 DEF Receipt, AnswerOnItsWay
  <2> QED BY <2>1, <2>3, <2>4
<1>9. CASE SendAnswer(c)
  <2>1. /\ UNCHANGED <<up, sbuf>> /\ spc[c] \in {"osend", "osendsub"}
        /\ spc'[c] \notin Ordering \cup {"osend"}
    BY <1>9 DEF SendAnswer, SendDown, TypeOK, Ordering
  <2>2. Named(c)' /\ Sole(c)'
    BY <1>0, <2>1, ServerKeepsHand
  <2>3. CASE cpc[c] # "reply"
    BY <1>0, <2>2, <2>3 DEF Receipt
  <2>4. CASE cpc[c] = "reply" /\ spc[c] = "osend"
    <3>1. down[c] = <<>>
      BY <1>0, <2>4, ClientOfServer
    <3>2. down'[c] = <<sbuf[c]>>
      BY <1>9, <2>4, <3>1 DEF SendAnswer, SendDown, TypeOK
    <3>3. \A m, n : <<m>> = <<n>> => m = n
      OBVIOUS
    <3> QED BY <1>0, <2>1, <2>2, <2>4, <3>1, <3>2, <3>3 DEF Receipt, AnswerOnItsWay, Ordering
  <2>5. CASE cpc[c] = "reply" /\ spc[c] = "osendsub"
    <3>1. down[c] = <<Code("MESSAGE_UNSATISFIABLE_ORDER")>>
      BY <1>0, <2>5, ClientOfServer
    <3>2. down'[c] = <<Code("MESSAGE_UNSATISFIABLE_ORDER"), sbuf[c]>>
      BY <1>9, <2>5, <3>1, AppendToOne DEF SendAnswer, SendDown, TypeOK
    <3>3. placed[c] # 1
      BY <1>0, <2>5, <3>1 DEF Receipt, AnswerOnItsWay, Code
    <3>4. down'[c] # <<Code("MESSAGE_OK")>>
      BY <3>2 DEF Code
    <3> QED BY <1>0, <2>1, <2>2, <2>5, <3>3, <3>4 DEF Receipt, AnswerOnItsWay, Ordering
  <2> QED BY <2>1, <2>3, <2>4, <2>5
<1> QED BY <1>3, <1>4, <1>5, <1>6, <1>7, <1>8, <1>9 DEF ServerStep

-----------------------------------------------------------------------------
(* The database server.                                                    *)

\* What place_order writes to the tables and what it answers: MESSAGE_OK for a
\* row, MESSAGE_UNSATISFIABLE_ORDER for none, MESSAGE_ERROR for either; and
\* without the row of the order no other row is written.
LEMMA RowAndAnswer ==
  ASSUME fromDb = <<>>, NEW a, NEW i, AnswerOrder(a, i)
  PROVE  /\ \/ fromDb' = <<Code("MESSAGE_OK")>> /\ placed' = [placed EXCEPT ![a] = @ + 1]
            \/ fromDb' = <<Code("MESSAGE_ERROR")>>
               /\ (placed' = placed \/ placed' = [placed EXCEPT ![a] = @ + 1])
            \/ Len(fromDb') = 2 /\ placed' = placed
         /\ tables' # tables => placed' = [placed EXCEPT ![a] = @ + 1]
<1>1. PICK unread \in Unread(i) :
        Accept(a, i, unread) \/ Refuse(a, i, unread) \/ Fail(a, i, unread)
  BY DEF AnswerOrder
<1>2. CASE Accept(a, i, unread)
  BY <1>2 DEF Accept, Record
<1>3. CASE Refuse(a, i, unread)
  <2> DEFINE two == <<Code("MESSAGE_UNSATISFIABLE_ORDER"), OrderMsg(a, SubOrder(i, unread))>>
  <2>1. <<>> \o two = two /\ Len(two) = 2
    OBVIOUS
  <2> HIDE DEF two
  <2>2. fromDb' = two
    BY <1>3, <2>1 DEF Refuse, two
  <2> QED BY <1>3, <2>1, <2>2 DEF Refuse, tables
<1>4. CASE Fail(a, i, unread)
  <2>1. fromDb' = <<Code("MESSAGE_ERROR")>>
    BY <1>4 DEF Fail
  <2>2. UNCHANGED tables \/ placed' = [placed EXCEPT ![a] = @ + 1]
    BY <1>4 DEF Fail, Record
  <2>3. UNCHANGED tables => placed' = placed
    BY DEF tables
  <2> QED BY <2>1, <2>2, <2>3
<1> QED BY <1>1, <1>2, <1>3, <1>4

\* The order that the database reads is the holder's, and it is read while the
\* holder waits for the answer.
LEMMA OrderOfTheHolder ==
  ASSUME TypeOK, ExchangeDiscipline, DbReadOrder \/ DbReadJunk
  PROVE  /\ mutex \in Clients /\ spc[mutex] = "oread"
         /\ toDb = <<sbuf[mutex]>> /\ fromDb = <<>> /\ toDb' = <<>>
         /\ UNCHANGED <<mutex, clientVars, up, down, spc, sbuf>>
<1>1. mutex \in Clients /\ ExchangeAt(mutex)
  BY DbServesTheHolder DEF DbStep
<1>2. db = "order" /\ toDb # <<>> /\ toDb' = Tail(toDb)
      /\ UNCHANGED <<mutex, clientVars, up, down, spc, sbuf>>
  BY DEF DbReadOrder, DbReadJunk, serverVars
<1>3. spc[mutex] = "oread" /\ toDb = <<sbuf[mutex]>> /\ fromDb = <<>>
  BY <1>1, <1>2 DEF ExchangeAt, Quiet
<1>4. \A m : Tail(<<m>>) = <<>>
  OBVIOUS
<1> QED BY <1>1, <1>2, <1>3, <1>4

\* Each step of databaseServer.c keeps Receipts: the row is written as the order
\* leaves the server's hands.
LEMMA DbKeepsReceipts ==
  ASSUME TypeOK, ExchangeDiscipline, SessionDiscipline, Receipts, DbStep
  PROVE  Receipts'
<1>1. PICK c \in Clients : mutex = c /\ ExchangeAt(c)
                           /\ UNCHANGED <<clientVars, up, down, spc, sbuf>>
  <2>1. mutex \in Clients /\ ExchangeAt(mutex)
    BY DbServesTheHolder
  <2> QED BY <2>1 DEF DbStep, DbReadCode, DbReadOrder, DbReadJunk, serverVars
<1>2. UNCHANGED <<cpc, told>>
  BY <1>1 DEF clientVars
<1>3. SessionAt(c) /\ Named(c) /\ Sole(c) /\ Receipt(c)
  BY DEF SessionDiscipline, Receipts
<1>4. \A d \in Clients \ {c} : spc[d] # "oread"
  BY <1>1, ShopAssumption DEF ExchangeDiscipline, Holding
<1>5. ASSUME \A d \in Clients \ {c} : placed'[d] = placed[d], Sole(c)', Receipt(c)'
      PROVE  Receipts'
  <2>1. Named(c)'
    BY <1>1, <1>3 DEF Named, OrdersAreOf, Ordering
  <2> QED BY <1>1, <1>2, <1>4, <1>5, <2>1, ReceiptsOfOthers
<1>6. CASE DbReadCode
  <2>1. placed' = placed /\ toDb # <<>>
    BY <1>6 DEF DbReadCode, ListProducts, ListFails, tables, deskVars
  <2>2. InHand(c)' => InHand(c)
    BY <1>1, <2>1 DEF InHand, Ordering
  <2>3. Sole(c)'
    BY <1>1, <1>2, <1>3, <2>1, <2>2 DEF Sole, NoOrderIn, OneOrderIn
  <2>4. spc[c] = "oread" => fromDb' = fromDb
    <3>1. SUFFICES ASSUME spc[c] = "oread"
                   PROVE  fromDb' = fromDb
      OBVIOUS
    <3>2. toDb = <<Code("CMD_PLACE_ORDER"), sbuf[c]>>
      BY <1>1, <1>6, <2>1, <3>1 DEF ExchangeAt, DbReadCode
    <3>3. Head(toDb).type = "CMD_PLACE_ORDER"
      BY <3>2 DEF Code
    <3> QED BY <1>6, <3>3 DEF DbReadCode, deskVars
  <2>5. Receipt(c)'
    BY <1>1, <1>2, <1>3, <2>1, <2>4 DEF Receipt, AnswerOnItsWay
  <2> QED BY <1>5, <2>1, <2>3, <2>5
<1>7. CASE DbReadOrder
  <2>1. spc[c] = "oread" /\ toDb = <<sbuf[c]>> /\ fromDb = <<>> /\ toDb' = <<>>
    BY <1>1, <1>7, OrderOfTheHolder
  <2>2. Head(toDb) = sbuf[c] /\ sbuf[c].type = "ORDER"
    BY <1>7, <2>1 DEF DbReadOrder
  <2>3. sbuf[c].address = c
    BY <1>3, <2>1, <2>2 DEF Named, Ordering
  <2>4. AnswerOrder(c, sbuf[c].items)
    BY <1>7, <2>2, <2>3 DEF DbReadOrder
  <2>5. /\ \/ fromDb' = <<Code("MESSAGE_OK")>> /\ placed' = [placed EXCEPT ![c] = @ + 1]
           \/ fromDb' = <<Code("MESSAGE_ERROR")>>
              /\ (placed' = placed \/ placed' = [placed EXCEPT ![c] = @ + 1])
           \/ Len(fromDb') = 2 /\ placed' = placed
    BY <2>1, <2>4, RowAndAnswer
  <2>6. InHand(c)
    BY <2>1, <2>2 DEF InHand, Ordering
  <2>7. placed[c] = 0 /\ NoOrderIn(up[c])
    BY <1>3, <2>6 DEF Sole
  <2>8. c \in Addresses /\ placed \in [Addresses -> Nat]
    BY ShopAssumption DEF TypeOK
  <2>9. /\ \/ fromDb' = <<Code("MESSAGE_OK")>> /\ placed'[c] = 1
           \/ fromDb' = <<Code("MESSAGE_ERROR")>> /\ placed'[c] \in {0, 1}
           \/ Len(fromDb') = 2 /\ placed'[c] = 0
        /\ \A d \in Clients \ {c} : placed'[d] = placed[d]
    <3>1. CASE placed' = [placed EXCEPT ![c] = @ + 1]
      <4>1. placed'[c] = 1 /\ \A d \in Clients \ {c} : placed'[d] = placed[d]
        BY <2>7, <2>8, <3>1, ShopAssumption
      <4>2. placed' # placed
        BY <2>7, <4>1
      <4> QED BY <2>5, <4>1, <4>2
    <3>2. CASE placed' = placed
      <4>1. placed' # [placed EXCEPT ![c] = @ + 1]
        BY <2>7, <2>8, <3>2
      <4> QED BY <2>5, <2>7, <3>2, <4>1
    <3> QED BY <2>5, <3>1, <3>2
  <2>10. cpc[c] \in {"reply", "gone"} /\ (cpc[c] = "reply" => down[c] = <<>>)
    BY <1>3, <2>1, ClientOfServer
  <2>11. ~InHand(c)'
    BY <1>1, <2>1 DEF InHand
  <2>12. Sole(c)'
    BY <1>1, <1>2, <1>3, <2>7, <2>9, <2>10, <2>11 DEF Sole, NoOrderIn, OneOrderIn
  <2>13. told[c] = "placed" => FALSE
    BY <1>3, <2>7 DEF Receipt
  <2>14. fromDb' = <<Code("MESSAGE_OK")>> => placed'[c] = 1
    BY <2>9 DEF Code
  <2>15. placed'[c] = 1 => fromDb' \in {<<Code("MESSAGE_OK")>>, <<Code("MESSAGE_ERROR")>>}
    BY <2>9
  <2>16. Receipt(c)'
    <3>1. ~(<<>> = <<Code("MESSAGE_OK")>>)
      OBVIOUS
    <3> QED BY <1>1, <1>2, <2>1, <2>10, <2>13, <2>14, <2>15, <3>1 DEF Receipt, AnswerOnItsWay
  <2> QED BY <1>5, <2>9, <2>12, <2>16
<1>8. CASE DbReadJunk
  <2>1. spc[c] = "oread" /\ toDb = <<sbuf[c]>> /\ fromDb = <<>> /\ toDb' = <<>>
    BY <1>1, <1>8, OrderOfTheHolder
  <2>2. sbuf[c].type # "ORDER"
    BY <1>8, <2>1 DEF DbReadJunk
  <2>3. cpc[c] = "gone"
    <3>1. cpc[c] # "gone" => sbuf[c] = OrderMsg(c, order[c])
      BY <1>3, <2>1, ClientOfServer
    <3>2. OrderMsg(c, order[c]).type = "ORDER"
      BY DEF OrderMsg
    <3> QED BY <2>2, <3>1, <3>2
  <2>4. \A d \in Clients : placed'[d] = placed[d]
    <3>1. CASE UNCHANGED deskVars
      BY <3>1 DEF deskVars
    <3>2. CASE \E i \in Items : AnswerOrder(Nowhere, i)
      <4>1. placed' = placed \/ placed' = [placed EXCEPT ![Nowhere] = @ + 1]
        BY <2>1, <3>2, RowAndAnswer
      <4> QED BY <4>1, ShopAssumption DEF TypeOK
    <3> QED BY <1>8, <3>1, <3>2 DEF DbReadJunk
  <2>5. ~InHand(c)'
    BY <1>1, <2>1 DEF InHand
  <2>6. Sole(c)'
    BY <1>1, <1>2, <1>3, <2>4, <2>5 DEF Sole, NoOrderIn, OneOrderIn
  <2>7. Receipt(c)'
    BY <1>2, <1>3, <2>3, <2>4 DEF Receipt
  <2> QED BY <1>5, <2>4, <2>6, <2>7
<1> QED BY <1>6, <1>7, <1>8 DEF DbStep

-----------------------------------------------------------------------------
(* Orders and receipts.                                                    *)

\* No order and no receipt exists before the first step.
THEOREM ReceiptsInitially == Init => Receipts
<1> SUFFICES ASSUME Init, NEW c \in Clients
             PROVE  Named(c) /\ Sole(c) /\ Receipt(c)
  BY DEF Receipts
<1>1. up[c] = <<>> /\ cpc[c] = "off" /\ told[c] = "nothing" /\ spc[c] = "none" /\ placed[c] = 0
  BY ShopAssumption DEF Init, DeskInit
<1>2. NoOrderIn(up[c]) /\ OneOrderIn(up[c]) /\ OrdersAreOf(c, up[c])
  BY <1>1, ShortChannels, NoOrderIsFine
<1> QED BY <1>1, <1>2 DEF Named, Sole, Receipt, InHand, Ordering

\* Every step of every process keeps the order of every session single.
THEOREM ReceiptsStep == IInv /\ Receipts /\ [Next]_vars => Receipts'
<1> SUFFICES ASSUME IInv, Receipts, [Next]_vars
             PROVE  Receipts'
  OBVIOUS
<1> USE DEF IInv
<1>1. ASSUME NEW c \in Clients, ClientStep(c)
      PROVE  Receipts'
  BY <1>1, ClientKeepsReceipts
<1>2. ASSUME NEW c \in Clients, UserStep(c)
      PROVE  Receipts'
  BY <1>2, UserKeepsReceipts
<1>3. ASSUME NEW c \in Clients, ServerStep(c)
      PROVE  Receipts'
  BY <1>3, ServerKeepsReceipts
<1>4. CASE DbStep
  BY <1>4, DbKeepsReceipts
<1>5. CASE UNCHANGED vars
  <2> SUFFICES ASSUME NEW d \in Clients
               PROVE  Named(d)' /\ Sole(d)' /\ Receipt(d)'
    BY DEF Receipts
  <2>1. Named(d) /\ Sole(d) /\ Receipt(d)
    BY DEF Receipts
  <2> QED BY <1>5, <2>1, ReceiptFrame DEF vars, clientVars, serverVars, deskVars
<1> QED BY <1>1, <1>2, <1>3, <1>4, <1>5 DEF Next

\* One session places one order at most, and who is told "Order placed"
\* (client.c:108-111) has a row in orders: with any number of clients, whichever
\* of them are interrupted or killed at whatever moment, and with a database
\* file that other processes lock.
THEOREM OneOrderEach == Spec => []OneOrderPerReceipt
<1>1. Receipts => OneOrderPerReceipt
  BY DEF Receipts, Sole, Receipt, OneOrderPerReceipt
<1> QED BY <1>1, Invariance, ReceiptsInitially, ReceiptsStep, PTL DEF Spec

-----------------------------------------------------------------------------
(* Whose rows they are.                                                    *)

\* A session's commands and orders stay in order while its own channel and its
\* server stay as they are.
LEMMA WholeOrderOfOthers ==
  ASSUME WholeOrders, NEW c \in Clients, WholeOrder(c)',
         \A d \in Clients \ {c} : up'[d] = up[d] /\ spc'[d] = spc[d] /\ sbuf'[d] = sbuf[d]
  PROVE  WholeOrders'
<1>1. ASSUME NEW d \in Clients
      PROVE  WholeOrder(d)'
  <2>1. CASE d = c
    BY <2>1
  <2>2. CASE d # c
    BY <2>2 DEF WholeOrders, WholeOrder, OrderFollows, Ordering
  <2> QED BY <2>1, <2>2
<1> QED BY <1>1 DEF WholeOrders

\* On a channel of one message, and on one of a command and an order or of two
\* other messages, orders are in their place.
LEMMA OrdersInPlace ==
  ASSUME NEW m, NEW n
  PROVE  /\ OrderFollows(<<m>>)
         /\ m # Code("CMD_PLACE_ORDER") \/ n.type = "ORDER" => OrderFollows(<<m, n>>)
<1>1. OrderFollows(<<m>>)
  BY DEF OrderFollows
<1>2. ASSUME m # Code("CMD_PLACE_ORDER") \/ n.type = "ORDER"
      PROVE  OrderFollows(<<m, n>>)
  <2> DEFINE two == <<m, n>>
  <2>1. Len(two) = 2 /\ two[1] = m /\ two[2] = n
    OBVIOUS
  <2> HIDE DEF two
  <2>2. \A i \in 1 .. Len(two) - 1 : i = 1
    BY <2>1
  <2>3. OrderFollows(two)
    BY <1>2, <2>1, <2>2 DEF OrderFollows
  <2> QED BY <2>3 DEF two
<1> QED BY <1>1, <1>2

\* Unless it is interrupted, a client sends the order right behind its command
\* (client.c:229-241), so commands and orders stay in order.
LEMMA ClientsKeepOrdersWhole ==
  ASSUME TypeOK, SessionDiscipline, WholeOrders, "sigint" \notin Faults,
         NEW c \in Clients, ClientStep(c) \/ UserStep(c)
  PROVE  WholeOrders'
<1> USE DEF serverVars, deskVars, SendUp
<1>0. SessionAt(c) /\ WholeOrder(c)
  BY DEF SessionDiscipline, WholeOrders
<1>1. CASE RequestProducts(c) \/ SubmitCommand(c) \/ Disconnect(c)
  <2>1. up[c] = <<>> /\ Between(c) /\ UNCHANGED <<spc, sbuf>>
    BY <1>0, <1>1 DEF RequestProducts, SubmitCommand, Disconnect, SayGoodbye, SessionAt, Between
  <2>2. \A ms : <<>> \o ms = ms \/ ms \notin Seq(Messages)
    OBVIOUS
  <2>3. /\ <<Code("CMD_GET_PRODUCTS")>> \in Seq(Messages)
        /\ <<Code("CMD_PLACE_ORDER")>> \in Seq(Messages)
        /\ <<Code("MESSAGE_CLOSE")>> \in Seq(Messages)
        /\ <<Code("MESSAGE_CLOSE"), Code("MESSAGE_CLOSE")>> \in Seq(Messages)
    BY CodesAreMessages
  <2>4. up'[c] \in {<<Code("CMD_GET_PRODUCTS")>>, <<Code("CMD_PLACE_ORDER")>>,
                    <<Code("MESSAGE_CLOSE")>>, <<Code("MESSAGE_CLOSE"), Code("MESSAGE_CLOSE")>>}
    BY <1>1, <2>1, <2>2, <2>3 DEF RequestProducts, SubmitCommand, Disconnect, SayGoodbye, TypeOK
  <2>5. OrderFollows(up[c])'
    <3>1. \A m, n : OrderFollows(<<m>>) /\ (m # Code("CMD_PLACE_ORDER") => OrderFollows(<<m, n>>))
      BY OrdersInPlace
    <3>2. OrderFollows(up'[c])
      BY <2>4, <3>1 DEF Code
    <3> QED BY <3>2 DEF OrderFollows
  <2>6. WholeOrder(c)'
    BY <1>0, <2>1, <2>5 DEF WholeOrder, Between, Ordering
  <2> QED BY <1>1, <2>6, WholeOrderOfOthers DEF RequestProducts, SubmitCommand, Disconnect,
                                               SayGoodbye, TypeOK
<1>2. CASE SubmitOrder(c)
  <2> DEFINE o == OrderMsg(c, order[c])
  <2>1. /\ \/ up[c] = <<Code("CMD_PLACE_ORDER")>> /\ Between(c)
           \/ up[c] = <<>> /\ spc[c] = "orecv"
        /\ UNCHANGED <<spc, sbuf>>
    BY <1>0, <1>2 DEF SubmitOrder, SessionAt
  <2>2. <<Code("CMD_PLACE_ORDER")>> \o <<o>> = <<Code("CMD_PLACE_ORDER"), o>>
    BY ConcatOneAndOne
  <2>3. <<>> \o <<o>> = <<o>>
    OBVIOUS
  <2>4. up'[c] = up[c] \o <<o>> /\ o.type = "ORDER"
    BY <1>2 DEF SubmitOrder, TypeOK, OrderMsg
  <2> HIDE DEF o
  <2>5. \/ up'[c] = <<Code("CMD_PLACE_ORDER"), o>> /\ Between(c)
        \/ up'[c] = <<o>> /\ spc[c] = "orecv"
    BY <2>1, <2>2, <2>3, <2>4
  <2>6. OrderFollows(up[c])'
    <3>1. OrderFollows(up'[c])
      BY <2>4, <2>5, OrdersInPlace
    <3> QED BY <3>1 DEF OrderFollows
  <2>7. WholeOrder(c)'
    BY <1>0, <2>1, <2>4, <2>5, <2>6 DEF WholeOrder, Between, Ordering
  <2> QED BY <1>2, <2>7, WholeOrderOfOthers DEF SubmitOrder, TypeOK
<1>3. CASE Connect(c)
  <2>1. WholeOrder(c)'
    BY <1>0, <1>3 DEF Connect, WholeOrder, OrderFollows, Ordering, TypeOK
  <2> QED BY <1>3, <2>1, WholeOrderOfOthers DEF Connect, TypeOK
<1>4. CASE ~(RequestProducts(c) \/ SubmitCommand(c) \/ Disconnect(c) \/ SubmitOrder(c) \/ Connect(c))
  <2>1. UNCHANGED <<up, spc, sbuf>>
    BY <1>4 DEF ClientStep, UserStep, ReceiveProducts, ReceiveReply, ReceiveSubOrder, Quit, Kill,
                Interrupt, AddToOrder
  <2>2. WholeOrder(c)'
    BY <1>0, <2>1 DEF WholeOrder, OrderFollows, Ordering
  <2> QED BY <2>1, <2>2, WholeOrderOfOthers
<1> QED BY <1>1, <1>2, <1>3, <1>4

\* A server that has read the command to place an order reads the order next
\* (forkedServer.c:42-44, 78-92).
LEMMA ServersKeepOrdersWhole ==
  ASSUME TypeOK, WholeOrders, NEW c \in Clients, ServerStep(c)
  PROVE  WholeOrders'
<1> USE DEF Go, Hand
<1>0. WholeOrder(c)
  BY DEF WholeOrders
<1>1. SUFFICES WholeOrder(c)'
  <2>1. \A d \in Clients \ {c} : up'[d] = up[d] /\ spc'[d] = spc[d] /\ sbuf'[d] = sbuf[d]
    BY DEF ServerStep, ReceiveCode, ReadEndOfFile, OpenConnection, AskForProducts, ReadProducts,
           SendProducts, ReceiveOrder, ForwardCommand, ForwardOrder, ReadAnswer, SendAnswer,
           CloseConnection, ShutDown, SendDown, serverVars, TypeOK
  <2> QED BY <2>1, WholeOrderOfOthers
<1>2. CASE ReceiveCode(c)
  <2>1. /\ up[c] # <<>> /\ up[c] \in Seq(Messages) /\ up'[c] = Tail(up[c])
        /\ spc'[c] \notin Ordering /\ (spc'[c] = "orecv" => Head(up[c]).type = "CMD_PLACE_ORDER")
    BY <1>2 DEF ReceiveCode, TypeOK, Ordering
  <2>2. Head(up[c]) \in Messages
    BY <2>1, HeadAndTail
  <2>3. spc'[c] = "orecv" => Head(up[c]) = Code("CMD_PLACE_ORDER")
    BY <2>1, <2>2 DEF Messages, StatusCodes, Code
  <2>4. /\ OrderFollows(up'[c])
        /\ spc'[c] = "orecv" /\ up'[c] # <<>> => up'[c][1].type = "ORDER"
    BY <1>0, <2>1, <2>3, AfterARead DEF WholeOrder
  <2> QED BY <2>1, <2>4 DEF WholeOrder, OrderFollows
<1>3. CASE ReceiveOrder(c)
  <2>1. /\ up[c] # <<>> /\ up[c] \in Seq(Messages) /\ up'[c] = Tail(up[c])
        /\ spc[c] = "orecv" /\ spc'[c] = "olock" /\ sbuf'[c] = up[c][1]
    BY <1>3 DEF ReceiveOrder, TypeOK
  <2>2. OrderFollows(up'[c]) /\ sbuf'[c].type = "ORDER"
    BY <1>0, <2>1, AfterARead DEF WholeOrder
  <2> QED BY <2>1, <2>2 DEF WholeOrder, OrderFollows
<1>4. CASE ~(ReceiveCode(c) \/ ReceiveOrder(c))
  <2>1. /\ UNCHANGED up /\ spc'[c] # "orecv"
        /\ spc'[c] \in Ordering => spc[c] \in Ordering /\ sbuf'[c] = sbuf[c]
    BY <1>4 DEF ServerStep, ReadEndOfFile, OpenConnection, AskForProducts, ReadProducts,
           SendProducts, ForwardCommand, ForwardOrder, ReadAnswer, SendAnswer,
           CloseConnection, ShutDown, SendDown, serverVars, TypeOK, Ordering
  <2> QED BY <1>0, <2>1 DEF WholeOrder, OrderFollows
<1> QED BY <1>2, <1>3, <1>4

\* Rows are written for the server that holds the shared connection and waits
\* for the answer, in its client's name and in no other (forkedServer.c:86-109,
\* databaseServer.c:253-280), for any number of clients, killed at any moment,
\* and with a locked database file.  SIGINT is left out: a client interrupted
\* between the command and the order leaves MESSAGE_CLOSE in the order's place,
\* and what the database reads out of that names nobody.
THEOREM RowsForTheHolder ==
  ASSUME "sigint" \notin Faults
  PROVE  Spec => RowsAreTheHolders
<1>1. Init => WholeOrders
  BY DEF Init, WholeOrders, WholeOrder, OrderFollows, Ordering
<1>2. IInv /\ WholeOrders /\ [Next]_vars => WholeOrders'
  <2> SUFFICES ASSUME IInv, WholeOrders, [Next]_vars
               PROVE  WholeOrders'
    OBVIOUS
  <2> USE DEF IInv
  <2>1. ASSUME NEW c \in Clients, ClientStep(c) \/ UserStep(c)
        PROVE  WholeOrders'
    BY <2>1, ClientsKeepOrdersWhole
  <2>2. ASSUME NEW c \in Clients, ServerStep(c)
        PROVE  WholeOrders'
    BY <2>2, ServersKeepOrdersWhole
  <2>3. CASE UNCHANGED <<up, spc, sbuf>>
    BY <2>3 DEF WholeOrders, WholeOrder, OrderFollows, Ordering
  <2>4. DbStep \/ UNCHANGED vars => UNCHANGED <<up, spc, sbuf>>
    BY DEF DbStep, DbReadCode, DbReadOrder, DbReadJunk, vars, serverVars
  <2> QED BY <2>1, <2>2, <2>3, <2>4 DEF Next
<1>3. ASSUME IInv, Receipts, WholeOrders, [Next]_vars, tables' # tables
      PROVE  /\ mutex \in Clients /\ spc[mutex] \in {"oread"}
             /\ placed' = [placed EXCEPT ![mutex] = @ + 1]
  <2>1. DbReadOrder \/ DbReadJunk
    <3> USE DEF deskVars, tables
    <3>1. ASSUME NEW c \in Clients, ClientStep(c) \/ UserStep(c)
          PROVE  UNCHANGED tables
      BY <3>1 DEF ClientStep, UserStep, RequestProducts, ReceiveProducts, SubmitOrder,
                  ReceiveReply, ReceiveSubOrder, Disconnect, SayGoodbye, Connect,
                  SubmitCommand, Quit, Interrupt, Kill, AddToOrder
    <3>2. ASSUME NEW c \in Clients, ServerStep(c)
          PROVE  UNCHANGED tables
      BY <3>2 DEF ServerStep, ReceiveCode, ReadEndOfFile, OpenConnection, AskForProducts,
                  ReadProducts, SendProducts, ReceiveOrder, ForwardCommand, ForwardOrder,
                  ReadAnswer, SendAnswer, CloseConnection, ShutDown, Collect
    <3>3. DbReadCode \/ UNCHANGED vars => UNCHANGED tables
      BY DEF DbReadCode, ListProducts, ListFails, vars
    <3> QED BY <1>3, <3>1, <3>2, <3>3 DEF Next, DbStep
  <2>2. /\ mutex \in Clients /\ spc[mutex] = "oread" /\ toDb = <<sbuf[mutex]>> /\ fromDb = <<>>
    BY <1>3, <2>1, OrderOfTheHolder DEF IInv
  <2>3. sbuf[mutex].type = "ORDER" /\ sbuf[mutex].address = mutex /\ Head(toDb) = sbuf[mutex]
    BY <1>3, <2>2 DEF WholeOrders, WholeOrder, Receipts, Named, Ordering
  <2>4. AnswerOrder(mutex, sbuf[mutex].items)
    BY <2>1, <2>3 DEF DbReadOrder, DbReadJunk
  <2> QED BY <1>3, <2>2, <2>4, RowAndAnswer
<1>4. IInv /\ Receipts /\ WholeOrders /\ [Next]_vars =>
        [tables' # tables => /\ mutex \in Clients /\ spc[mutex] \in {"oread"}
                             /\ placed' = [placed EXCEPT ![mutex] = @ + 1]]_vars
  BY <1>3
<1> QED BY <1>1, <1>2, <1>4, Invariance, ReceiptsInitially, ReceiptsStep, PTL
        DEF Spec, RowsAreTheHolders

-----------------------------------------------------------------------------
(* Sums over finite sets.  The entries sold are a sum over the clients.    *)
(* MapThenSumSet defines it by recursion over the subsets of Clients, and  *)
(* what is needed of it, that it exists and that it changes by what one    *)
(* client's part changes, is proved by looking at a smallest subset for    *)
(* which it fails: the strict inclusion of finite sets is well founded.    *)

\* The element with which MapThenSumSet takes a set apart.
Pick(s) == CHOOSE x \in s : TRUE

\* g maps every subset of S to the sum of f over it.
Summing(f, S, g) ==
  g = [s \in SUBSET S |-> IF s = {} THEN 0 ELSE f[Pick(s)] + g[s \ {Pick(s)}]]

\* The sum of f over S.
SumOf(f, S) == (CHOOSE g : Summing(f, S, g))[S]

\* Pick takes an element, and leaves a smaller set.
LEMMA PickIsElement ==
  ASSUME NEW s, s # {}
  PROVE  Pick(s) \in s /\ s \ {Pick(s)} \subseteq s /\ s \ {Pick(s)} # s
  BY DEF Pick

\* Among some subsets of a finite set there is one that includes no other.
LEMMA SmallestSubset ==
  ASSUME NEW S, IsFiniteSet(S), NEW T, T \subseteq SUBSET S, T # {}
  PROVE  \E x \in T : \A y \in T : ~(y \subseteq x /\ y # x)
<1> DEFINE R == StrictSubsetOrdering(S)
<1>1. IsWellFoundedOn(R, SUBSET S)
  BY FS_StrictSubsetOrderingWellFounded, FS_FiniteSubsetsOfFinite
<1> HIDE DEF R
<1>2. \E x \in T : \A y \in T : ~(<<y, x>> \in R)
  BY <1>1, WFMin
<1> QED BY <1>2 DEF R, StrictSubsetOrdering

\* What a summing function is at the empty set and at the others.
LEMMA SummingAt ==
  ASSUME NEW f, NEW S, NEW g, Summing(f, S, g), NEW s \in SUBSET S
  PROVE  /\ s = {} => g[s] = 0
         /\ s # {} => g[s] = f[Pick(s)] + g[s \ {Pick(s)}]
  BY DEF Summing

\* Two summing functions, of different sets even, agree where both are defined.
LEMMA SummingsAgree ==
  ASSUME NEW f, NEW S1, NEW S2, NEW g1, NEW g2,
         Summing(f, S1, g1), Summing(f, S2, g2),
         NEW T, IsFiniteSet(T), T \subseteq S1, T \subseteq S2
  PROVE  g1[T] = g2[T]
<1> DEFINE Bad == {U \in SUBSET T : g1[U] # g2[U]}
<1>1. SUFFICES ASSUME Bad # {}
               PROVE  FALSE
  OBVIOUS
<1>2. PICK U \in Bad : \A V \in Bad : ~(V \subseteq U /\ V # U)
  <2>1. Bad \subseteq SUBSET T
    OBVIOUS
  <2> HIDE DEF Bad
  <2> QED BY <1>1, <2>1, SmallestSubset
<1>3. U \in SUBSET S1 /\ U \in SUBSET S2 /\ g1[U] # g2[U] /\ U \subseteq T
  BY <1>2
<1>4. U # {}
  BY <1>3, SummingAt
<1>5. g1[U \ {Pick(U)}] = g2[U \ {Pick(U)}]
  BY <1>2, <1>3, <1>4, PickIsElement
<1>6. /\ g1[U] = f[Pick(U)] + g1[U \ {Pick(U)}]
      /\ g2[U] = f[Pick(U)] + g2[U \ {Pick(U)}]
  BY <1>3, <1>4, SummingAt
<1> QED BY <1>3, <1>5, <1>6

\* Every function has its summing function over a finite set.
LEMMA SummingExists ==
  ASSUME NEW f, NEW S, IsFiniteSet(S)
  PROVE  \E g : Summing(f, S, g)
<1> DEFINE Bad == {U \in SUBSET S : ~\E g : Summing(f, U, g)}
           V(u) == (CHOOSE h : Summing(f, u, h))[u]
<1>1. SUFFICES ASSUME Bad # {}
               PROVE  FALSE
  <2>1. S \in SUBSET S
    OBVIOUS
  <2> QED BY <1>1, <2>1
<1>2. PICK U \in Bad : \A W \in Bad : ~(W \subseteq U /\ W # U)
  <2>1. Bad \subseteq SUBSET S
    OBVIOUS
  <2> HIDE DEF Bad
  <2> QED BY <1>1, <2>1, SmallestSubset
<1>3. U \in SUBSET S /\ ~\E g : Summing(f, U, g)
  BY <1>2
<1> DEFINE G == [s \in SUBSET U |-> IF s = {} THEN 0 ELSE f[Pick(s)] + V(s \ {Pick(s)})]
<1>4. ASSUME NEW s \in SUBSET U, s # U
      PROVE  Summing(f, s, CHOOSE h : Summing(f, s, h))
  <2>1. \E g : Summing(f, s, g)
    BY <1>2, <1>3, <1>4
  <2> QED BY <2>1
<1>5. ASSUME NEW s \in SUBSET U, s # U
      PROVE  V(s) = G[s]
  <2> DEFINE h == CHOOSE k : Summing(f, s, k)
  <2>1. Summing(f, s, h)
    BY <1>4, <1>5
  <2>2. V(s) = h[s]
    OBVIOUS
  <2> HIDE DEF h
  <2>3. s \in SUBSET s
    OBVIOUS
  <2>4. CASE s = {}
    BY <2>1, <2>2, <2>3, <2>4, SummingAt
  <2>5. CASE s # {}
    <3> DEFINE t == s \ {Pick(s)}
               k == CHOOSE j : Summing(f, t, j)
    <3>1. t \in SUBSET U /\ t # U /\ t \subseteq s /\ IsFiniteSet(t)
      <4>1. t \subseteq s /\ t # s
        BY <2>5, PickIsElement
      <4>2. IsFiniteSet(S) /\ t \subseteq S
        BY <1>3, <4>1
      <4> QED BY <1>5, <4>1, <4>2, FS_Subset
    <3>2. Summing(f, t, k)
      BY <1>4, <3>1
    <3>3. V(t) = k[t]
      OBVIOUS
    <3>4. h[s] = f[Pick(s)] + h[t]
      BY <2>1, <2>3, <2>5, SummingAt
    <3>5. G[s] = f[Pick(s)] + V(t)
      BY <2>5
    <3> HIDE DEF t, k
    <3>6. h[t] = k[t]
      BY <2>1, <3>1, <3>2, SummingsAgree
    <3> QED BY <2>2, <3>3, <3>4, <3>5, <3>6
  <2> QED BY <2>4, <2>5
<1>6. ASSUME NEW s \in SUBSET U, s # {}
      PROVE  V(s \ {Pick(s)}) = G[s \ {Pick(s)}]
  <2>1. s \ {Pick(s)} \in SUBSET U /\ s \ {Pick(s)} # U
    BY <1>6, PickIsElement
  <2> QED BY <1>5, <2>1
<1> HIDE DEF V
<1>7. G = [s \in SUBSET U |-> IF s = {} THEN 0 ELSE f[Pick(s)] + G[s \ {Pick(s)}]]
  <2>1. \A s \in SUBSET U : (IF s = {} THEN 0 ELSE f[Pick(s)] + V(s \ {Pick(s)}))
                            = (IF s = {} THEN 0 ELSE f[Pick(s)] + G[s \ {Pick(s)}])
    BY <1>6
  <2> HIDE DEF G
  <2>2. G = [s \in SUBSET U |-> IF s = {} THEN 0 ELSE f[Pick(s)] + V(s \ {Pick(s)})]
    BY DEF G
  <2> QED BY <2>1, <2>2
<1>8. Summing(f, U, G)
  BY <1>7 DEF Summing
<1> QED BY <1>3, <1>8

\* The function whose value SumOf takes sums up.
LEMMA SumOfIsSum ==
  ASSUME NEW f, NEW S, IsFiniteSet(S)
  PROVE  \E g : Summing(f, S, g) /\ SumOf(f, S) = g[S]
<1> DEFINE g == CHOOSE h : Summing(f, S, h)
<1>1. Summing(f, S, g)
  BY SummingExists
<1>2. SumOf(f, S) = g[S]
  BY DEF SumOf
<1> HIDE DEF g
<1> QED BY <1>1, <1>2

\* The sum of zeros.
LEMMA SumOfZeros ==
  ASSUME NEW f, NEW S, IsFiniteSet(S), \A x \in S : f[x] = 0
  PROVE  SumOf(f, S) = 0
<1>1. PICK g : Summing(f, S, g) /\ SumOf(f, S) = g[S]
  BY SumOfIsSum
<1> DEFINE Bad == {U \in SUBSET S : g[U] # 0}
<1>2. SUFFICES ASSUME Bad # {}
               PROVE  FALSE
  BY <1>1
<1>3. PICK U \in Bad : \A W \in Bad : ~(W \subseteq U /\ W # U)
  <2>1. Bad \subseteq SUBSET S
    OBVIOUS
  <2> HIDE DEF Bad
  <2> QED BY <1>2, <2>1, SmallestSubset
<1>4. U \in SUBSET S /\ g[U] # 0
  BY <1>3
<1>5. U # {}
  BY <1>1, <1>4, SummingAt
<1>6. g[U \ {Pick(U)}] = 0
  BY <1>3, <1>4, <1>5, PickIsElement
<1>7. g[U] = f[Pick(U)] + g[U \ {Pick(U)}] /\ f[Pick(U)] = 0
  BY <1>1, <1>4, <1>5, SummingAt, PickIsElement
<1> QED BY <1>4, <1>6, <1>7

\* A sum of integers is one, and it changes by what one of them changes.
LEMMA SumOfUpdate ==
  ASSUME NEW S, IsFiniteSet(S), NEW f, NEW h, NEW c \in S,
         \A x \in S : f[x] \in Int /\ h[x] \in Int,
         \A x \in S \ {c} : h[x] = f[x]
  PROVE  /\ SumOf(f, S) \in Int
         /\ SumOf(h, S) = SumOf(f, S) + h[c] - f[c]
<1>1. PICK g : Summing(f, S, g) /\ SumOf(f, S) = g[S]
  BY SumOfIsSum
<1>2. PICK k : Summing(h, S, k) /\ SumOf(h, S) = k[S]
  BY SumOfIsSum
<1> DEFINE Right(U) == /\ g[U] \in Int
                       /\ k[U] = g[U] + (IF c \in U THEN h[c] - f[c] ELSE 0)
           Bad == {U \in SUBSET S : ~Right(U)}
<1>3. SUFFICES ASSUME Bad # {}
               PROVE  FALSE
  BY <1>1, <1>2
<1>4. PICK U \in Bad : \A W \in Bad : ~(W \subseteq U /\ W # U)
  <2>1. Bad \subseteq SUBSET S
    OBVIOUS
  <2> HIDE DEF Bad
  <2> QED BY <1>3, <2>1, SmallestSubset
<1>5. U \in SUBSET S /\ ~Right(U)
  BY <1>4
<1> HIDE DEF Bad, Right
<1>6. /\ U = {} => g[U] = 0
      /\ U # {} => g[U] = f[Pick(U)] + g[U \ {Pick(U)}]
  <2>1. U \in SUBSET S
    BY <1>5
  <2>2. Summing(f, S, g)
    BY <1>1
  <2> QED BY <2>1, <2>2, SummingAt
<1>7. /\ U = {} => k[U] = 0
      /\ U # {} => k[U] = h[Pick(U)] + k[U \ {Pick(U)}]
  <2>1. U \in SUBSET S
    BY <1>5
  <2>2. Summing(h, S, k)
    BY <1>2
  <2> QED BY <2>1, <2>2, SummingAt
<1> USE DEF Right
<1>8. U # {}
  <2>1. U = {} => g[U] = 0 /\ k[U] = 0
    BY <1>6, <1>7
  <2>2. U = {} => c \notin U
    OBVIOUS
  <2>3. U = {} => Right(U)
    BY <2>1, <2>2
  <2> QED BY <1>5, <2>3
<1> DEFINE x == Pick(U)
           W == U \ {x}
<1>9. x \in U /\ W \in SUBSET S /\ W \subseteq U /\ W # U
  BY <1>5, <1>8, PickIsElement
<1>10. Right(W)
  <2>1. W \notin Bad
    BY <1>4, <1>9
  <2> HIDE DEF W, Right
  <2> QED BY <1>9, <2>1 DEF Bad
<1>11. g[U] = f[x] + g[W] /\ k[U] = h[x] + k[W]
  BY <1>6, <1>7, <1>8
<1>12. c \in W <=> c \in U /\ c # x
  OBVIOUS
<1>13. f[x] \in Int /\ h[x] \in Int /\ f[c] \in Int /\ h[c] \in Int /\ (x # c => h[x] = f[x])
  BY <1>5, <1>9
<1> HIDE DEF x, W
<1>14. CASE x = c
  BY <1>5, <1>9, <1>10, <1>11, <1>12, <1>13, <1>14
<1>15. CASE x # c
  BY <1>5, <1>9, <1>10, <1>11, <1>12, <1>13, <1>15
<1> QED BY <1>14, <1>15

\* What each client has bought of product p, as a function.
Purchases(p) == [c \in Clients |-> Bought(c, p)]

\* The sum in ReceiptsMatchTables is the sum of the purchases.
LEMMA ReceiptsAsSum ==
  ASSUME NEW p, IsFiniteSet(Clients)
  PROVE  MapThenSumSet(LAMBDA c : Bought(c, p), Clients) = SumOf(Purchases(p), Clients)
<1> DEFINE S == Clients
           Sums(g) == g = [s \in SUBSET S |->
                             IF s = {} THEN 0 ELSE Bought(Pick(s), p) + g[s \ {Pick(s)}]]
           k == CHOOSE g : Sums(g)
<1>1. MapThenSumSet(LAMBDA c : Bought(c, p), S) = k[S]
  BY DEF MapThenSumSet, MapThenFoldSet, Pick
<1>2. \A s \in SUBSET S : s # {} => Bought(Pick(s), p) = Purchases(p)[Pick(s)]
  BY PickIsElement DEF Purchases
<1>3. ASSUME NEW g
      PROVE  Sums(g) <=> Summing(Purchases(p), S, g)
  <2> DEFINE A == [s \in SUBSET S |-> IF s = {} THEN 0 ELSE Bought(Pick(s), p) + g[s \ {Pick(s)}]]
             B == [s \in SUBSET S |-> IF s = {} THEN 0 ELSE Purchases(p)[Pick(s)] + g[s \ {Pick(s)}]]
  <2>1. A = B
    BY <1>2
  <2>2. (Sums(g) <=> g = A) /\ (Summing(Purchases(p), S, g) <=> g = B)
    BY DEF Summing
  <2> QED BY <2>1, <2>2
<1> HIDE DEF Sums
<1>4. \E g : Sums(g)
  BY <1>3, SummingExists
<1>5. Summing(Purchases(p), S, k)
  BY <1>3, <1>4
<1>6. PICK g : Summing(Purchases(p), S, g) /\ SumOf(Purchases(p), S) = g[S]
  BY SumOfIsSum
<1> HIDE DEF k
<1>7. k[S] = g[S]
  BY <1>5, <1>6, SummingsAgree
<1> QED BY <1>1, <1>6, <1>7

-----------------------------------------------------------------------------
(* The invariant.                                                          *)

\* What the tables hold of client c's order, for each client and one product.
Booked(p) ==
  [c \in Clients |-> IF placed[c] = 1 /\ p \in DOMAIN order[c] THEN order[c][p] ELSE 0]

\* An order that m carries, or that a message of s carries, has no negative
\* quantity.
NonNegative(m) == m.type = "ORDER" => \A p \in DOMAIN m.items : m.items[p] >= 0
NoneNegative(s) == \A i \in 1 .. Len(s) : NonNegative(s[i])

\* With every query answered no -1 gets into an order or a sub-order.
OrdersNonNegative ==
  /\ NoneNegative(fromDb)
  /\ \A c \in Clients :
       /\ \A p \in DOMAIN order[c] : order[c][p] >= 0
       /\ NonNegative(sbuf[c])
       /\ NoneNegative(down[c])

\* The server of a client that has said goodbye has only that left to read.
Parted(c) ==
  cpc[c] = "gone" =>
    /\ spc[c] \in {"recv", "ounlock", "shut", "exited", "dead", "spin"}
    /\ \A i \in 1 .. Len(up[c]) : up[c][i] = Code("MESSAGE_CLOSE")

\* Whoever has an order in the tables has been told, or is about to be.
Acknowledged(c) ==
  placed[c] = 1 =>
    \/ cpc[c] = "reply" /\ AnswerOnItsWay(c, Code("MESSAGE_OK"))
    \/ cpc[c] \in {"quit", "gone"} /\ told[c] = "placed"

\* What was sold is what the clients ordered, and what is missing on the shelves.
BooksBalance ==
  \A p \in Products : /\ sold[p] = SumOf(Booked(p), Clients)
                      /\ stock[p] = InitialStock[p] - sold[p]

\* What holds while nothing goes wrong.
Sales ==
  /\ OrdersNonNegative
  /\ \A c \in Clients : Parted(c) /\ Acknowledged(c)
  /\ BooksBalance

-----------------------------------------------------------------------------
(* Quantities.                                                             *)

\* What is read from a channel without negative quantities, and what is left
\* there, has none.
LEMMA ReadNonNegative ==
  ASSUME NEW s \in Seq(Messages), s # <<>>, NoneNegative(s)
  PROVE  NonNegative(Head(s)) /\ NoneNegative(Tail(s))
<1>1. /\ Len(s) \in Nat \ {0} /\ Len(Tail(s)) = Len(s) - 1 /\ Head(s) = s[1]
      /\ \A i \in 1 .. Len(Tail(s)) : Tail(s)[i] = s[i + 1]
  BY HeadTailProperties, EmptySeq, LenProperties
<1> DEFINE t == Tail(s)
<1>2. Len(t) = Len(s) - 1 /\ \A i \in 1 .. Len(t) : t[i] = s[i + 1]
  BY <1>1
<1> HIDE DEF t
<1>3. NoneNegative(t)
  BY <1>1, <1>2 DEF NoneNegative
<1> QED BY <1>1, <1>3 DEF NoneNegative, t

\* A message without negative quantities brings none onto a channel.
LEMMA WriteNonNegative ==
  ASSUME NEW s \in Seq(Messages), NoneNegative(s), NEW m \in Messages, NonNegative(m)
  PROVE  NoneNegative(Append(s, m))
<1> DEFINE t == Append(s, m)
<1>1. /\ Len(s) \in Nat /\ Len(t) = Len(s) + 1 /\ t[Len(s) + 1] = m
      /\ \A i \in 1 .. Len(s) : t[i] = s[i]
  BY AppendProperties, LenProperties
<1> HIDE DEF t
<1>2. \A i \in 1 .. Len(t) : i \in 1 .. Len(s) \/ i = Len(s) + 1
  BY <1>1
<1>3. NoneNegative(t)
  BY <1>1, <1>2 DEF NoneNegative
<1> QED BY <1>3 DEF t

\* Nobody else's quantities change in a step of session c.
LEMMA QuantitiesOfOthers ==
  ASSUME OrdersNonNegative, NEW c \in Clients,
         NoneNegative(fromDb'), NonNegative(sbuf'[c]), NoneNegative(down'[c]),
         \A p \in DOMAIN order'[c] : order'[c][p] >= 0,
         \A d \in Clients \ {c} : order'[d] = order[d] /\ sbuf'[d] = sbuf[d] /\ down'[d] = down[d]
  PROVE  OrdersNonNegative'
<1>1. \A d \in Clients :
        /\ \A p \in DOMAIN order'[d] : order'[d][p] >= 0
        /\ NonNegative(sbuf'[d]) /\ NoneNegative(down'[d])
  BY DEF OrdersNonNegative
<1>2. OrdersNonNegative' <=>
        /\ NoneNegative(fromDb')
        /\ \A d \in Clients :
             /\ \A p \in DOMAIN order'[d] : order'[d][p] >= 0
             /\ NonNegative(sbuf'[d]) /\ NoneNegative(down'[d])
  BY DEF OrdersNonNegative, NonNegative, NoneNegative
<1> QED BY <1>1, <1>2

\* A step that touches none of the quantities.
LEMMA QuantitiesFrame ==
  ASSUME OrdersNonNegative, UNCHANGED <<order, sbuf, down, fromDb>>
  PROVE  OrdersNonNegative'
  BY DEF OrdersNonNegative, NonNegative, NoneNegative

\* The client adds to its order and takes over a sub-order, neither with a
\* negative quantity (client.c:131-155, 250-255).
LEMMA ClientsKeepQuantities ==
  ASSUME TypeOK, SessionDiscipline, OrdersNonNegative,
         NEW c \in Clients, ClientStep(c) \/ UserStep(c)
  PROVE  OrdersNonNegative'
<1> USE DEF serverVars, deskVars
<1>0. /\ SessionAt(c) /\ down[c] \in Seq(Messages)
      /\ NonNegative(sbuf[c]) /\ NoneNegative(down[c]) /\ NoneNegative(fromDb)
      /\ \A p \in DOMAIN order[c] : order[c][p] >= 0
  BY DEF SessionDiscipline, OrdersNonNegative, TypeOK
<1>1. CASE ReceiveProducts(c) \/ ReceiveReply(c)
  <2>1. /\ down[c] # <<>> /\ down'[c] = Tail(down[c]) /\ UNCHANGED <<order, sbuf, fromDb>>
        /\ \A d \in Clients \ {c} : down'[d] = down[d]
    BY <1>1 DEF ReceiveProducts, ReceiveReply, TypeOK
  <2>2. NoneNegative(down'[c])
    BY <1>0, <2>1, ReadNonNegative
  <2> QED BY <1>0, <2>1, <2>2, QuantitiesOfOthers
<1>2. CASE ReceiveSubOrder(c)
  <2>1. /\ down[c] # <<>> /\ down'[c] = Tail(down[c]) /\ UNCHANGED <<sbuf, fromDb>>
        /\ order'[c] = Head(down[c]).items
        /\ \A d \in Clients \ {c} : down'[d] = down[d] /\ order'[d] = order[d]
    BY <1>2 DEF ReceiveSubOrder, TypeOK
  <2>2. NonNegative(Head(down[c])) /\ NoneNegative(down'[c])
    BY <1>0, <2>1, ReadNonNegative
  <2>3. Head(down[c]).type = "ORDER"
    BY <1>0, <1>2 DEF ReceiveSubOrder, SessionAt, SubOrderUnderWay, CutDown
  <2>4. \A p \in DOMAIN order'[c] : order'[c][p] >= 0
    BY <2>1, <2>2, <2>3 DEF NonNegative
  <2> QED BY <1>0, <2>1, <2>2, <2>4, QuantitiesOfOthers
<1>3. ASSUME NEW p \in Products, NEW n \in 1 .. MaxStock, AddToOrder(c, p, n)
      PROVE  OrdersNonNegative'
  <2>1. UNCHANGED <<sbuf, fromDb, down>> /\ \A d \in Clients \ {c} : order'[d] = order[d]
    BY <1>3 DEF AddToOrder, TypeOK
  <2>2. order'[c] = [q \in DOMAIN order[c] \cup {p} |->
                       IF q # p THEN order[c][q] ELSE IF p \in DOMAIN order[c] THEN order[c][p] + n ELSE n]
    BY <1>3 DEF AddToOrder, TypeOK
  <2>3. \A q \in DOMAIN order[c] : order[c][q] \in Int
    BY ItemsAreFunctions, DeskAssumption DEF TypeOK, Quantities
  <2>4. \A q \in DOMAIN order'[c] : order'[c][q] >= 0
    BY <1>0, <2>2, <2>3, DeskAssumption
  <2> QED BY <1>0, <2>1, <2>4, QuantitiesOfOthers
<1>4. CASE /\ ~(ReceiveProducts(c) \/ ReceiveReply(c) \/ ReceiveSubOrder(c))
           /\ ~\E p \in Products, n \in 1 .. MaxStock : AddToOrder(c, p, n)
  <2>1. UNCHANGED <<order, sbuf, down, fromDb>>
    BY <1>4 DEF ClientStep, UserStep, RequestProducts, SubmitOrder, Disconnect, SayGoodbye, Connect,
                SubmitCommand, Quit, Interrupt, Kill
  <2> QED BY <2>1, QuantitiesFrame
<1> QED BY <1>1, <1>2, <1>3, <1>4

\* The server passes on what it was sent.
LEMMA ServersKeepQuantities ==
  ASSUME TypeOK, SessionDiscipline, OrdersNonNegative,
         NEW c \in Clients, ServerStep(c), Parted(c)
  PROVE  OrdersNonNegative'
<1> USE DEF clientVars, serverVars, deskVars, Go, Hand
<1>0. /\ SessionAt(c) /\ down[c] \in Seq(Messages) /\ sbuf[c] \in Messages /\ fromDb \in Seq(Messages)
      /\ NonNegative(sbuf[c]) /\ NoneNegative(down[c]) /\ NoneNegative(fromDb)
      /\ \A p \in DOMAIN order[c] : order[c][p] >= 0
  BY DEF SessionDiscipline, OrdersNonNegative, TypeOK
<1>1. CASE ReadProducts(c) \/ ReadAnswer(c)
  <2>1. /\ fromDb # <<>> /\ fromDb' = Tail(fromDb) /\ sbuf'[c] = Head(fromDb)
        /\ UNCHANGED <<order, down>> /\ \A d \in Clients \ {c} : sbuf'[d] = sbuf[d]
    BY <1>1 DEF ReadProducts, ReadAnswer, Collect, TypeOK
  <2>2. NonNegative(sbuf'[c]) /\ NoneNegative(fromDb')
    BY <1>0, <2>1, ReadNonNegative
  <2> QED BY <1>0, <2>1, <2>2, QuantitiesOfOthers
<1>2. CASE ReceiveOrder(c)
  <2>1. /\ sbuf'[c] = Head(up[c]) /\ spc[c] = "orecv" /\ up[c] # <<>>
        /\ UNCHANGED <<order, down, fromDb>> /\ \A d \in Clients \ {c} : sbuf'[d] = sbuf[d]
    BY <1>2 DEF ReceiveOrder, TypeOK
  <2>2. up[c] = <<OrderMsg(c, order[c])>>
    <3>1. cpc[c] # "gone"
      BY <2>1 DEF Parted
    <3> QED BY <1>0, <2>1, <3>1, ClientOfServer
  <2>3. sbuf'[c] = OrderMsg(c, order[c])
    BY <2>1, <2>2
  <2>4. NonNegative(sbuf'[c])
    BY <1>0, <2>3 DEF NonNegative, OrderMsg
  <2> QED BY <1>0, <2>1, <2>4, QuantitiesOfOthers
<1>3. CASE SendProducts(c) \/ SendAnswer(c)
  <2>1. /\ \A d \in Clients \ {c} : down'[d] = down[d]
        /\ UNCHANGED <<order, sbuf, fromDb>>
        /\ down'[c] = down[c] \/ down'[c] = Append(down[c], sbuf[c])
    BY <1>3 DEF SendProducts, SendAnswer, SendDown, TypeOK
  <2>2. NoneNegative(down'[c])
    BY <1>0, <2>1, WriteNonNegative
  <2> QED BY <1>0, <2>1, <2>2, QuantitiesOfOthers
<1>4. CASE ~(ReadProducts(c) \/ ReadAnswer(c) \/ ReceiveOrder(c) \/ SendProducts(c) \/ SendAnswer(c))
  <2>1. UNCHANGED <<order, sbuf, down, fromDb>>
    BY <1>4 DEF ServerStep, ReceiveCode, ReadEndOfFile, OpenConnection, AskForProducts,
                ForwardCommand, ForwardOrder, CloseConnection, ShutDown
  <2> QED BY <2>1, QuantitiesFrame
<1> QED BY <1>1, <1>2, <1>3, <1>4

-----------------------------------------------------------------------------
(* The books.                                                              *)

\* What BooksBalance says of the next state.
LEMMA BooksNext ==
  ASSUME \A p \in Products :
           LET h == [c \in Clients |-> IF placed'[c] = 1 /\ p \in DOMAIN order'[c]
                                         THEN order'[c][p] ELSE 0] IN
           sold'[p] = SumOf(h, Clients) /\ stock'[p] = InitialStock[p] - sold'[p]
  PROVE  BooksBalance'
  BY DEF BooksBalance, Booked, SumOf, Summing

\* The books stay as they are while the tables do and no order that is in them
\* changes.
LEMMA BooksFrame ==
  ASSUME BooksBalance, UNCHANGED <<stock, sold>>,
         \A c \in Clients : placed'[c] = placed[c] /\ (placed[c] = 1 => order'[c] = order[c])
  PROVE  BooksBalance'
<1> SUFFICES ASSUME NEW p \in Products
             PROVE  LET h == [c \in Clients |-> IF placed'[c] = 1 /\ p \in DOMAIN order'[c]
                                                  THEN order'[c][p] ELSE 0] IN
                    sold'[p] = SumOf(h, Clients) /\ stock'[p] = InitialStock[p] - sold'[p]
  BY BooksNext
<1> DEFINE h == [c \in Clients |-> IF placed'[c] = 1 /\ p \in DOMAIN order'[c]
                                     THEN order'[c][p] ELSE 0]
<1>1. h = Booked(p)
  BY DEF Booked
<1> HIDE DEF h
<1>2. sold[p] = SumOf(h, Clients) /\ stock[p] = InitialStock[p] - sold[p]
  BY <1>1 DEF BooksBalance
<1> QED BY <1>2 DEF h

\* With every query answered and every statement carried out, an order is sold
\* as it is or not at all (databaseServer.c:253-280).
LEMMA SoldOrRefused ==
  ASSUME TypeOK, Faults = {}, fromDb = <<>>,
         NEW a \in Addresses, NEW i \in Items, \A p \in DOMAIN i : i[p] >= 0,
         AnswerOrder(a, i)
  PROVE  /\ NoneNegative(fromDb')
         /\ \/ /\ fromDb' = <<Code("MESSAGE_OK")>> /\ placed' = [placed EXCEPT ![a] = @ + 1]
               /\ \A p \in Products :
                    /\ sold'[p] = sold[p] + (IF p \in DOMAIN i THEN i[p] ELSE 0)
                    /\ stock'[p] = stock[p] - (IF p \in DOMAIN i THEN i[p] ELSE 0)
            \/ Len(fromDb') = 2 /\ UNCHANGED <<stock, sold, placed>>
<1>1. Accept(a, i, {}) \/ Refuse(a, i, {})
  BY DEF AnswerOrder, Unread
<1>2. DOMAIN i \subseteq Products /\ i \in [DOMAIN i -> Quantities]
  BY ItemsAreFunctions
<1>3. \A p \in Products : stock[p] \in 0 .. MaxStock /\ sold[p] \in Int
  BY DEF TypeOK, Shelves
<1>4. CASE Accept(a, i, {})
  <2>1. fromDb' = <<Code("MESSAGE_OK")>> /\ Record(a, i, DOMAIN i, DOMAIN i)
    BY <1>4 DEF Accept
  <2>2. NoneNegative(fromDb')
    BY <2>1 DEF NoneNegative, NonNegative, Code
  <2>3. \A p \in DOMAIN i : Taken(i[p]) = i[p] /\ i[p] \in Int
    BY <1>2, DeskAssumption DEF Taken, Quantities
  <2>4. \A p \in Products :
          /\ sold'[p] = sold[p] + (IF p \in DOMAIN i THEN i[p] ELSE 0)
          /\ stock'[p] = stock[p] - (IF p \in DOMAIN i THEN i[p] ELSE 0)
    BY <1>3, <2>1, <2>3 DEF Record
  <2> QED BY <2>1, <2>2, <2>4 DEF Record
<1>5. CASE Refuse(a, i, {})
  <2> DEFINE two == <<Code("MESSAGE_UNSATISFIABLE_ORDER"), OrderMsg(a, SubOrder(i, {}))>>
  <2>1. <<>> \o two = two /\ Len(two) = 2 /\ two[1] = Code("MESSAGE_UNSATISFIABLE_ORDER")
        /\ two[2] = OrderMsg(a, SubOrder(i, {}))
    OBVIOUS
  <2>2. \A p \in DOMAIN i : SubOrder(i, {})[p] >= 0
    <3>1. ASSUME NEW p \in DOMAIN i
          PROVE  i[p] \in Int /\ i[p] >= 0 /\ stock[p] \in Int /\ stock[p] >= 0
      <4>1. p \in Products
        BY <1>2
      <4>2. i[p] \in Int
        BY <1>2, DeskAssumption DEF Quantities
      <4>3. stock[p] \in 0 .. MaxStock
        BY <1>3, <4>1
      <4>4. stock[p] \in Int /\ stock[p] >= 0
        BY <4>3, DeskAssumption
      <4> QED BY <4>2, <4>4
    <3> QED BY <3>1 DEF SubOrder, ReadStock
  <2>3. DOMAIN SubOrder(i, {}) = DOMAIN i
    BY DEF SubOrder
  <2>4. NonNegative(two[1]) /\ NonNegative(two[2])
    BY <2>1, <2>2, <2>3 DEF NonNegative, Code, OrderMsg
  <2> HIDE DEF two
  <2>5. fromDb' = two
    BY <1>5, <2>1 DEF Refuse, two
  <2>6. \A k \in 1 .. Len(two) : k = 1 \/ k = 2
    BY <2>1
  <2>7. NoneNegative(two)
    BY <2>4, <2>6 DEF NoneNegative
  <2> QED BY <1>5, <2>1, <2>5, <2>7 DEF Refuse, tables
<1> QED BY <1>1, <1>4, <1>5

\* While nothing goes wrong the database reads orders of connected clients only.
LEMMA OrderOfAClient ==
  ASSUME TypeOK, ExchangeDiscipline, SessionDiscipline, Receipts,
         \A c \in Clients : Parted(c), DbReadOrder \/ DbReadJunk
  PROVE  \E c \in Clients :
           /\ cpc[c] = "reply" /\ spc[c] = "oread" /\ down[c] = <<>> /\ fromDb = <<>>
           /\ toDb' = <<>> /\ placed[c] = 0
           /\ AnswerOrder(c, order[c])
           /\ UNCHANGED <<clientVars, up, down, spc, sbuf>>
<1>1. /\ mutex \in Clients /\ spc[mutex] = "oread" /\ toDb = <<sbuf[mutex]>> /\ fromDb = <<>>
      /\ toDb' = <<>> /\ UNCHANGED <<clientVars, up, down, spc, sbuf>>
  BY OrderOfTheHolder
<1>2. PICK c \in Clients : c = mutex
  BY <1>1
<1>3. cpc[c] # "gone" /\ SessionAt(c) /\ Sole(c)
  BY <1>1, <1>2 DEF Parted, SessionDiscipline, Receipts
<1>4. cpc[c] = "reply" /\ down[c] = <<>> /\ sbuf[c] = OrderMsg(c, order[c])
  BY <1>1, <1>2, <1>3, ClientOfServer
<1>5. Head(toDb) = OrderMsg(c, order[c])
  BY <1>1, <1>2, <1>4
<1>6. DbReadOrder /\ AnswerOrder(c, order[c])
  BY <1>5 DEF DbReadOrder, DbReadJunk, OrderMsg
<1>7. InHand(c)
  BY <1>1, <1>2, <1>4 DEF InHand, Ordering, OrderMsg
<1>8. placed[c] = 0
  BY <1>3, <1>7 DEF Sole
<1> QED BY <1>1, <1>2, <1>4, <1>6, <1>8

\* The database server writes an order into the books and answers MESSAGE_OK, or
\* does neither.
LEMMA DbKeepsSales ==
  ASSUME TypeOK, ExchangeDiscipline, SessionDiscipline, Receipts, Sales, DbStep,
         Faults = {}, IsFiniteSet(Clients)
  PROVE  Sales'
<1>1. CASE DbReadCode
  <2>1. /\ UNCHANGED <<stock, sold, placed, order, sbuf, down, cpc, spc, up, told>>
        /\ fromDb \in Seq(Messages) /\ NoneNegative(fromDb)
    BY <1>1 DEF DbReadCode, ListProducts, ListFails, tables, deskVars, clientVars, serverVars,
                TypeOK, Sales, OrdersNonNegative
  <2>2. fromDb' = fromDb \/ \E m \in Messages : NonNegative(m) /\ fromDb' = Append(fromDb, m)
    <3>1. CASE ListProducts
      <4>1. ProductsMsg(stock) \in Messages /\ NonNegative(ProductsMsg(stock))
        BY DEF ProductsMsg, Messages, NonNegative, TypeOK
      <4> QED BY <3>1, <4>1 DEF ListProducts
    <3> QED BY <1>1, <3>1 DEF DbReadCode, deskVars
  <2>3. NoneNegative(fromDb')
    BY <2>1, <2>2, WriteNonNegative
  <2>4. OrdersNonNegative'
    <3>1. \A d \in Clients :
            /\ \A p \in DOMAIN order'[d] : order'[d][p] >= 0
            /\ NonNegative(sbuf'[d]) /\ NoneNegative(down'[d])
      BY <2>1 DEF Sales, OrdersNonNegative
    <3>2. OrdersNonNegative' <=>
            /\ NoneNegative(fromDb')
            /\ \A d \in Clients :
                 /\ \A p \in DOMAIN order'[d] : order'[d][p] >= 0
                 /\ NonNegative(sbuf'[d]) /\ NoneNegative(down'[d])
      BY DEF OrdersNonNegative, NonNegative, NoneNegative
    <3> QED BY <2>3, <3>1, <3>2
  <2>5. ASSUME NEW c \in Clients
        PROVE  Parted(c)' /\ Acknowledged(c)'
    <3>1. Parted(c) /\ Acknowledged(c)
      BY DEF Sales
    <3>2. Parted(c)'
      BY <2>1, <3>1 DEF Parted
    <3>3. spc[c] = "oread" => fromDb' = fromDb
      <4>1. SUFFICES ASSUME spc[c] = "oread"
                     PROVE  fromDb' = fromDb
        OBVIOUS
      <4>2. toDb # <<>>
        BY <1>1 DEF DbReadCode
      <4>3. ExchangeAt(c)
        BY <4>1, OnlyTheHolderReads DEF Holding
      <4>4. toDb = <<Code("CMD_PLACE_ORDER"), sbuf[c]>>
        BY <1>1, <4>1, <4>2, <4>3 DEF ExchangeAt, DbReadCode
      <4>5. Head(toDb).type = "CMD_PLACE_ORDER"
        BY <4>4 DEF Code
      <4> QED BY <1>1, <4>5 DEF DbReadCode, deskVars
    <3>4. Acknowledged(c)'
      BY <2>1, <3>1, <3>3 DEF Acknowledged, AnswerOnItsWay
    <3> QED BY <3>2, <3>4
  <2>6. BooksBalance'
    BY <2>1, BooksFrame DEF Sales
  <2> QED BY <2>4, <2>5, <2>6 DEF Sales
<1>2. CASE DbReadOrder \/ DbReadJunk
  <2>0. \A d \in Clients : Parted(d)
    BY DEF Sales
  <2>1. PICK c \in Clients :
           /\ cpc[c] = "reply" /\ spc[c] = "oread" /\ down[c] = <<>> /\ fromDb = <<>>
           /\ toDb' = <<>> /\ placed[c] = 0
           /\ AnswerOrder(c, order[c])
           /\ UNCHANGED <<clientVars, up, down, spc, sbuf>>
    BY <1>2, <2>0, OrderOfAClient
  <2>2. UNCHANGED <<cpc, told, order>>
    BY <2>1 DEF clientVars
  <2>3. c \in Addresses /\ order[c] \in Items /\ \A p \in DOMAIN order[c] : order[c][p] >= 0
    BY ShopAssumption DEF TypeOK, Sales, OrdersNonNegative
  <2>4. /\ NoneNegative(fromDb')
        /\ \/ /\ fromDb' = <<Code("MESSAGE_OK")>> /\ placed' = [placed EXCEPT ![c] = @ + 1]
              /\ \A p \in Products :
                   /\ sold'[p] = sold[p] + (IF p \in DOMAIN order[c] THEN order[c][p] ELSE 0)
                   /\ stock'[p] = stock[p] - (IF p \in DOMAIN order[c] THEN order[c][p] ELSE 0)
           \/ Len(fromDb') = 2 /\ UNCHANGED <<stock, sold, placed>>
    BY <2>1, <2>3, SoldOrRefused
  <2>5. \A d \in Clients \ {c} : placed'[d] = placed[d] /\ spc[d] # "oread"
    <3>0. spc[c] \in Holding
      BY <2>1 DEF Holding
    <3>1. \A d \in Clients \ {c} : spc[d] # "oread"
      <4>1. ExchangeDiscipline
        OBVIOUS
      <4> QED BY <3>0, <4>1 DEF ExchangeDiscipline, Holding
    <3>2. \A d \in Clients \ {c} : placed'[d] = placed[d]
      BY <2>4, ShopAssumption DEF TypeOK
    <3> QED BY <3>1, <3>2
  <2>6. OrdersNonNegative'
    <3>1. NonNegative(sbuf[c]) /\ NoneNegative(down[c]) /\ OrdersNonNegative
      BY DEF Sales, OrdersNonNegative
    <3> QED BY <2>1, <2>2, <2>3, <2>4, <3>1, QuantitiesOfOthers
  <2>7. ASSUME NEW d \in Clients
        PROVE  Parted(d)' /\ Acknowledged(d)'
    <3>1. Parted(d) /\ Acknowledged(d)
      BY DEF Sales
    <3>2. Parted(d)'
      BY <2>1, <2>2, <3>1 DEF Parted
    <3>3. CASE d # c
      BY <2>1, <2>2, <2>5, <3>1, <3>2, <3>3 DEF Acknowledged, AnswerOnItsWay
    <3>4. CASE d = c
      <4>1. fromDb' = <<Code("MESSAGE_OK")>> \/ placed'[c] = 0
        BY <2>1, <2>4
      <4> QED BY <2>1, <2>2, <3>2, <3>4, <4>1 DEF Acknowledged, AnswerOnItsWay
    <3> QED BY <3>3, <3>4
  <2>8. BooksBalance'
    <3>1. CASE UNCHANGED <<stock, sold, placed>>
      BY <2>2, <3>1, BooksFrame DEF Sales
    <3>2. CASE ~UNCHANGED <<stock, sold, placed>>
      <4>1. placed'[c] = 1
        BY <2>1, <2>3, <2>4, <3>2 DEF TypeOK
      <4> SUFFICES ASSUME NEW p \in Products
                   PROVE  LET h == [d \in Clients |-> IF placed'[d] = 1 /\ p \in DOMAIN order'[d]
                                                        THEN order'[d][p] ELSE 0] IN
                          sold'[p] = SumOf(h, Clients) /\ stock'[p] = InitialStock[p] - sold'[p]
        BY BooksNext
      <4> DEFINE h == [d \in Clients |-> IF placed'[d] = 1 /\ p \in DOMAIN order'[d]
                                           THEN order'[d][p] ELSE 0]
                 q == IF p \in DOMAIN order[c] THEN order[c][p] ELSE 0
                 f == Booked(p)
      <4>2. \A d \in Clients : \A r \in DOMAIN order[d] : order[d][r] \in Int
        BY ItemsAreFunctions, DeskAssumption DEF TypeOK, Quantities
      <4>3. \A x \in Clients : f[x] \in Int /\ h[x] \in Int
        BY <2>2, <4>2 DEF Booked
      <4>4. \A x \in Clients \ {c} : h[x] = f[x]
        BY <2>2, <2>5 DEF Booked
      <4>5. h[c] = q /\ f[c] = 0 /\ q \in Int
        BY <2>1, <2>2, <4>1, <4>2 DEF Booked
      <4>6. sold[p] = SumOf(f, Clients) /\ stock[p] = InitialStock[p] - sold[p]
        BY DEF Sales, BooksBalance
      <4>7. sold'[p] = sold[p] + q /\ stock'[p] = stock[p] - q
        BY <2>4, <3>2
      <4> HIDE DEF h, q, f
      <4>8. /\ SumOf(f, Clients) \in Int
            /\ SumOf(h, Clients) = SumOf(f, Clients) + h[c] - f[c]
        <5>1. IsFiniteSet(Clients)
          OBVIOUS
        <5>2. c \in Clients
          OBVIOUS
        <5>3. \A x \in Clients : f[x] \in Int /\ h[x] \in Int
          BY <4>3
        <5>4. \A x \in Clients \ {c} : h[x] = f[x]
          BY <4>4
        <5> QED BY <5>1, <5>2, <5>3, <5>4, SumOfUpdate
      <4>9. InitialStock[p] \in Int
        BY DeskAssumption
      <4>10. sold'[p] = SumOf(h, Clients) /\ stock'[p] = InitialStock[p] - sold'[p]
        BY <4>5, <4>6, <4>7, <4>8, <4>9
      <4> QED BY <4>10 DEF h
    <3> QED BY <3>1, <3>2
  <2> QED BY <2>6, <2>7, <2>8 DEF Sales
<1> QED BY <1>1, <1>2 DEF DbStep

\* Sessions that do not take part in a step stay as Sales has them.
LEMMA SalesOfOthers ==
  ASSUME Sales, NEW c \in Clients, OrdersNonNegative', BooksBalance', Parted(c)', Acknowledged(c)',
         \A d \in Clients \ {c} :
           /\ cpc'[d] = cpc[d] /\ told'[d] = told[d] /\ up'[d] = up[d] /\ down'[d] = down[d]
           /\ spc'[d] = spc[d] /\ sbuf'[d] = sbuf[d] /\ placed'[d] = placed[d]
           /\ spc[d] = "oread" => fromDb' = fromDb
  PROVE  Sales'
<1>1. ASSUME NEW d \in Clients
      PROVE  Parted(d)' /\ Acknowledged(d)'
  <2>1. CASE d = c
    BY <2>1
  <2>2. CASE d # c
    <3>1. Parted(d) /\ Acknowledged(d)
      BY DEF Sales
    <3> QED BY <2>2, <3>1 DEF Parted, Acknowledged, AnswerOnItsWay
  <2> QED BY <2>1, <2>2
<1> QED BY <1>1 DEF Sales

\* A client that nothing happens to hears of its order before it disconnects,
\* and disconnects with nothing under way (client.c:122-128, 240-259).
LEMMA ClientKeepsSales ==
  ASSUME TypeOK, SessionDiscipline, Receipts, Sales, Faults = {},
         NEW c \in Clients, ClientStep(c) \/ UserStep(c)
  PROVE  Sales'
<1> USE DEF serverVars, deskVars, SendUp
<1>0. /\ SessionAt(c) /\ Sole(c) /\ Parted(c) /\ Acknowledged(c)
      /\ OrdersNonNegative /\ BooksBalance
  BY DEF SessionDiscipline, Receipts, Sales
<1>1. /\ UNCHANGED <<stock, sold, placed, fromDb, sbuf>>
      /\ \A d \in Clients \ {c} :
           /\ cpc'[d] = cpc[d] /\ told'[d] = told[d] /\ order'[d] = order[d]
           /\ up'[d] = up[d] /\ down'[d] = down[d] /\ spc'[d] = spc[d]
  BY DEF ClientStep, UserStep, RequestProducts, ReceiveProducts, SubmitOrder, ReceiveReply,
         ReceiveSubOrder, Disconnect, SayGoodbye, Connect, SubmitCommand, Quit, Interrupt, Kill,
         AddToOrder, TypeOK
<1>2. OrdersNonNegative'
  BY <1>0, ClientsKeepQuantities
<1>3. BooksBalance'
  <2>1. order'[c] = order[c] \/ cpc[c] \in {"menu", "sub"}
    BY DEF ClientStep, UserStep, RequestProducts, ReceiveProducts, SubmitOrder, ReceiveReply,
           ReceiveSubOrder, Disconnect, SayGoodbye, Connect, SubmitCommand, Quit, Interrupt, Kill,
           AddToOrder
  <2>2. \A d \in Clients : placed'[d] = placed[d] /\ (placed[d] = 1 => order'[d] = order[d])
    BY <1>0, <1>1, <2>1 DEF Sole
  <2> QED BY <1>0, <1>1, <2>2, BooksFrame
<1>4. CASE Disconnect(c)
  <2>1. /\ cpc[c] = "quit" /\ up[c] = <<>> /\ Between(c)
        /\ cpc'[c] = "gone" /\ UNCHANGED <<spc, told, down>>
    BY <1>0, <1>4 DEF Disconnect, SayGoodbye, SessionAt, TypeOK
  <2>2. \A ms \in Seq(Messages) : <<>> \o ms = ms
    OBVIOUS
  <2>3. up'[c] \in {<<Code("MESSAGE_CLOSE")>>, <<Code("MESSAGE_CLOSE"), Code("MESSAGE_CLOSE")>>}
    BY <1>4, <2>1, <2>2, CodesAreMessages DEF Disconnect, SayGoodbye, TypeOK
  <2>4. \A i \in 1 .. Len(up'[c]) : up'[c][i] = Code("MESSAGE_CLOSE")
    BY <2>3
  <2>5. Parted(c)'
    BY <2>1, <2>4 DEF Parted, Between
  <2>6. Acknowledged(c)'
    BY <1>0, <1>1, <2>1 DEF Acknowledged
  <2> QED BY <1>1, <1>2, <1>3, <2>5, <2>6, SalesOfOthers
<1>5. CASE ReceiveReply(c)
  <2>1. /\ cpc[c] = "reply" /\ cpc'[c] \in {"quit", "sub"} /\ down[c] # <<>>
    BY <1>5 DEF ReceiveReply, TypeOK
  <2>2. Between(c) \/ down[c] # <<Code("MESSAGE_OK")>>
    BY <1>0, <2>1 DEF SessionAt, OrderUnderWay, Answered, Code
  <2>3. spc[c] \notin {"oread", "osend"}
    BY <1>0, <2>1 DEF SessionAt, OrderUnderWay, Answered, Between
  <2>4. placed[c] = 1 => down[c] = <<Code("MESSAGE_OK")>>
    BY <1>0, <2>1, <2>3 DEF Acknowledged, AnswerOnItsWay
  <2>5. ASSUME placed[c] = 1
        PROVE  cpc'[c] = "quit" /\ told'[c] = "placed"
    <3>1. Head(down[c]).type = "MESSAGE_OK"
      BY <2>4, <2>5 DEF Code
    <3> QED BY <1>5, <3>1 DEF ReceiveReply, TypeOK
  <2>6. Acknowledged(c)'
    BY <1>1, <2>5 DEF Acknowledged
  <2>7. Parted(c)'
    BY <2>1 DEF Parted
  <2> QED BY <1>1, <1>2, <1>3, <2>6, <2>7, SalesOfOthers
<1>6. CASE ~Disconnect(c) /\ ~ReceiveReply(c)
  <2>1. ~Interrupt(c) /\ ~Kill(c)
    BY DEF Interrupt, Kill
  <2>2. cpc[c] \notin {"reply", "quit", "gone"} /\ cpc'[c] # "gone"
    BY <1>6, <2>1 DEF ClientStep, UserStep, RequestProducts, ReceiveProducts, SubmitOrder,
                      ReceiveSubOrder, Connect, SubmitCommand, Quit, AddToOrder, TypeOK
  <2>3. Parted(c)'
    BY <2>2 DEF Parted
  <2>4. Acknowledged(c)'
    BY <1>0, <1>1, <2>2 DEF Acknowledged
  <2> QED BY <1>1, <1>2, <1>3, <2>3, <2>4, SalesOfOthers
<1> QED BY <1>4, <1>5, <1>6

\* What MESSAGE_CLOSE left on a connection is read to its end, and reading it
\* never brings a server back to an order (forkedServer.c:24-55).
LEMMA ServersKeepParted ==
  ASSUME TypeOK, NEW c \in Clients, Parted(c), ServerStep(c)
  PROVE  Parted(c)'
<1> USE DEF Go
<1> SUFFICES ASSUME cpc[c] = "gone"
             PROVE  Parted(c)'
  <2>1. cpc' = cpc
    BY DEF ServerStep, ReceiveCode, ReadEndOfFile, OpenConnection, AskForProducts, ReadProducts,
           SendProducts, ReceiveOrder, ForwardCommand, ForwardOrder, ReadAnswer, SendAnswer,
           CloseConnection, ShutDown, clientVars
  <2> QED BY <2>1 DEF Parted
<1>0. /\ spc[c] \in {"recv", "ounlock", "shut", "exited", "dead", "spin"}
      /\ \A i \in 1 .. Len(up[c]) : up[c][i] = Code("MESSAGE_CLOSE")
      /\ up[c] \in Seq(Messages)
  BY DEF Parted, TypeOK
<1>1. CASE ReceiveCode(c)
  <2> DEFINE s == up[c]
  <2>1. s # <<>> /\ up'[c] = Tail(s)
    BY <1>1 DEF ReceiveCode, TypeOK
  <2>2. /\ Len(s) \in Nat \ {0} /\ Len(Tail(s)) = Len(s) - 1 /\ Head(s) = s[1]
        /\ \A i \in 1 .. Len(Tail(s)) : Tail(s)[i] = s[i + 1]
    BY <1>0, <2>1, HeadTailProperties, EmptySeq, LenProperties
  <2>3. Head(s).type = "MESSAGE_CLOSE"
    BY <1>0, <2>2 DEF Code
  <2>4. spc'[c] = "shut"
    BY <1>1, <2>3 DEF ReceiveCode, TypeOK
  <2>5. \A i \in 1 .. Len(up'[c]) : up'[c][i] = Code("MESSAGE_CLOSE")
    BY <1>0, <2>1, <2>2
  <2> QED BY <2>4, <2>5 DEF Parted
<1>2. CASE ReadEndOfFile(c) \/ CloseConnection(c) \/ ShutDown(c)
  <2>1. up' = up /\ spc'[c] \in {"recv", "exited", "dead", "spin"}
    BY <1>2 DEF ReadEndOfFile, CloseConnection, ShutDown, TypeOK
  <2> QED BY <1>0, <2>1 DEF Parted
<1> QED BY <1>0, <1>1, <1>2 DEF ServerStep, OpenConnection, AskForProducts, ReadProducts,
           SendProducts, ReceiveOrder, ForwardCommand, ForwardOrder, ReadAnswer, SendAnswer

\* MESSAGE_OK gets from the database to the client that waits for it
\* (forkedServer.c:94-107).
LEMMA ServersKeepAcknowledged ==
  ASSUME TypeOK, SessionDiscipline, NEW c \in Clients, Acknowledged(c), ServerStep(c)
  PROVE  Acknowledged(c)'
<1> USE DEF Go, Hand
<1>0. SessionAt(c) /\ UNCHANGED <<cpc, told, placed>>
  BY DEF SessionDiscipline, ServerStep, ReceiveCode, ReadEndOfFile, OpenConnection, AskForProducts,
         ReadProducts, SendProducts, ReceiveOrder, ForwardCommand, ForwardOrder, ReadAnswer,
         SendAnswer, CloseConnection, ShutDown, clientVars, deskVars, Collect, tables
<1> DEFINE ok == Code("MESSAGE_OK")
<1>1. SUFFICES ASSUME cpc[c] = "reply", AnswerOnItsWay(c, ok)
               PROVE  AnswerOnItsWay(c, ok)'
  BY <1>0 DEF Acknowledged
<1> HIDE DEF ok
<1>2. CASE spc[c] = "oread" /\ fromDb = <<ok>>
  <2>1. ReadAnswer(c)
    BY <1>2 DEF ServerStep, ReceiveCode, ReadEndOfFile, OpenConnection, AskForProducts,
         ReadProducts, SendProducts, ReceiveOrder, ForwardCommand, ForwardOrder,
         SendAnswer, CloseConnection, ShutDown
  <2>2. spc'[c] = "osend" /\ sbuf'[c] = ok
    BY <1>2, <2>1 DEF ReadAnswer, TypeOK
  <2> QED BY <2>2 DEF AnswerOnItsWay, ok
<1>3. CASE spc[c] = "osend" /\ sbuf[c] = ok
  <2>1. SendAnswer(c)
    BY <1>3 DEF ServerStep, ReceiveCode, ReadEndOfFile, OpenConnection, AskForProducts,
         ReadProducts, SendProducts, ReceiveOrder, ForwardCommand, ForwardOrder,
         ReadAnswer, CloseConnection, ShutDown
  <2>2. down[c] = <<>>
    BY <1>0, <1>1, <1>3, ClientOfServer
  <2>3. down'[c] = <<ok>>
    BY <1>1, <1>3, <2>1, <2>2 DEF SendAnswer, SendDown, TypeOK
  <2> QED BY <2>3 DEF AnswerOnItsWay, ok
<1>4. CASE down[c] = <<ok>>
  <2>1. Between(c) /\ up[c] = <<>>
    BY <1>0, <1>1, <1>4 DEF SessionAt, OrderUnderWay, Answered, Code, ok
  <2>2. CloseConnection(c)
    BY <1>1, <2>1 DEF Between, ServerStep, ReceiveCode, ReadEndOfFile, OpenConnection,
         AskForProducts, ReadProducts, SendProducts, ReceiveOrder, ForwardCommand, ForwardOrder,
         ReadAnswer, SendAnswer, ShutDown
  <2>3. down'[c] = <<ok>>
    BY <1>4, <2>2 DEF CloseConnection
  <2> QED BY <2>3 DEF AnswerOnItsWay, ok
<1> QED BY <1>1, <1>2, <1>3, <1>4 DEF AnswerOnItsWay

\* Each step of forkedServer.c keeps Sales.
LEMMA ServerKeepsSales ==
  ASSUME TypeOK, ExchangeDiscipline, SessionDiscipline, Sales,
         NEW c \in Clients, ServerStep(c)
  PROVE  Sales'
<1>1. UNCHANGED <<cpc, told, order, stock, sold, placed>>
  BY DEF ServerStep, ReceiveCode, ReadEndOfFile, OpenConnection, AskForProducts, ReadProducts,
         SendProducts, ReceiveOrder, ForwardCommand, ForwardOrder, ReadAnswer, SendAnswer,
         CloseConnection, ShutDown, clientVars, deskVars, Collect, tables
<1>2. Parted(c) /\ Acknowledged(c) /\ OrdersNonNegative /\ BooksBalance
  BY DEF Sales
<1>3. OrdersNonNegative'
  BY <1>2, ServersKeepQuantities
<1>4. BooksBalance'
  BY <1>1, <1>2, BooksFrame
<1>5. Parted(c)' /\ Acknowledged(c)'
  BY <1>2, ServersKeepParted, ServersKeepAcknowledged
<1>6. \A d \in Clients \ {c} :
        /\ up'[d] = up[d] /\ down'[d] = down[d] /\ spc'[d] = spc[d] /\ sbuf'[d] = sbuf[d]
        /\ spc[d] = "oread" => toDb' = toDb /\ fromDb' = fromDb
  BY ServersKeepApart
<1> QED BY <1>1, <1>3, <1>4, <1>5, <1>6, SalesOfOthers

-----------------------------------------------------------------------------
(* Receipts and tables.                                                    *)

\* Nothing is sold before the first step.
THEOREM SalesInitially ==
  ASSUME IsFiniteSet(Clients)
  PROVE  Init => Sales
<1> SUFFICES ASSUME Init
             PROVE  Sales
  OBVIOUS
<1>1. OrdersNonNegative
  BY DEF Init, DeskInit, OrdersNonNegative, NoneNegative, NonNegative, EmptyOrder, Code
<1>2. \A c \in Clients : Parted(c) /\ Acknowledged(c)
  BY ShopAssumption DEF Init, DeskInit, Parted, Acknowledged
<1>3. ASSUME NEW p \in Products
      PROVE  sold[p] = SumOf(Booked(p), Clients) /\ stock[p] = InitialStock[p] - sold[p]
  <2> DEFINE f == Booked(p)
  <2>1. \A c \in Clients : f[c] = 0
    BY ShopAssumption DEF Booked, Init, DeskInit
  <2> HIDE DEF f
  <2>2. SumOf(f, Clients) = 0
    BY <2>1, SumOfZeros
  <2>3. sold[p] = 0 /\ stock[p] = InitialStock[p] /\ InitialStock[p] \in Int
    BY DeskAssumption DEF Init, DeskInit
  <2> QED BY <2>2, <2>3 DEF f
<1> QED BY <1>1, <1>2, <1>3 DEF Sales, BooksBalance

\* With nothing going wrong every step keeps the books.
THEOREM SalesStep ==
  ASSUME Faults = {}, IsFiniteSet(Clients)
  PROVE  IInv /\ Receipts /\ Sales /\ [Next]_vars => Sales'
<1> SUFFICES ASSUME IInv, Receipts, Sales, [Next]_vars
             PROVE  Sales'
  OBVIOUS
<1> USE DEF IInv
<1>1. ASSUME NEW c \in Clients, ClientStep(c) \/ UserStep(c)
      PROVE  Sales'
  BY <1>1, ClientKeepsSales
<1>2. ASSUME NEW c \in Clients, ServerStep(c)
      PROVE  Sales'
  BY <1>2, ServerKeepsSales
<1>3. CASE DbStep
  BY <1>3, DbKeepsSales
<1>4. CASE UNCHANGED vars
  <2>1. UNCHANGED <<cpc, told, order, up, down, spc, sbuf, stock, sold, placed, fromDb>>
    BY <1>4 DEF vars, clientVars, serverVars, deskVars
  <2>2. OrdersNonNegative' /\ BooksBalance'
    BY <2>1, QuantitiesFrame, BooksFrame DEF Sales
  <2>3. \A c \in Clients : Parted(c)' /\ Acknowledged(c)'
    BY <2>1 DEF Sales, Parted, Acknowledged, AnswerOnItsWay
  <2> QED BY <2>2, <2>3 DEF Sales
<1> QED BY <1>1, <1>2, <1>3, <1>4 DEF Next

\* Once nobody waits for an answer, what the clients who were told "Order placed"
\* ordered is what the entries say and what is missing on the shelves
\* (client.c:108-111, databaseServer.c:253-280): for every finite set of clients
\* in any interleaving, with either transport.  It is the promise of the program
\* for when nothing goes wrong: a client that is killed does not hear of its
\* order, and a statement that fails leaves those before it standing.
THEOREM SalesMatchReceipts ==
  ASSUME Faults = {}, IsFiniteSet(Clients)
  PROVE  Spec => []ReceiptsMatchTables
<1>1. ASSUME Receipts, Sales
      PROVE  ReceiptsMatchTables
  <2> SUFFICES ASSUME \A c \in Clients : ~Waiting(c), NEW p \in Products
               PROVE  /\ sold[p] = MapThenSumSet(LAMBDA c : Bought(c, p), Clients)
                      /\ stock[p] = InitialStock[p] - sold[p]
    BY DEF ReceiptsMatchTables
  <2>1. \A c \in Clients : placed[c] = 1 <=> told[c] = "placed"
    BY <1>1 DEF Receipts, Receipt, Sales, Acknowledged, Waiting
  <2>2. Purchases(p) = Booked(p)
    BY <2>1 DEF Purchases, Booked, Bought
  <2>3. MapThenSumSet(LAMBDA c : Bought(c, p), Clients) = SumOf(Purchases(p), Clients)
    BY ReceiptsAsSum
  <2>4. sold[p] = SumOf(Booked(p), Clients) /\ stock[p] = InitialStock[p] - sold[p]
    BY <1>1 DEF Sales, BooksBalance
  <2> QED BY <2>2, <2>3, <2>4
<1> QED BY <1>1, Invariance, ReceiptsInitially, ReceiptsStep, SalesInitially, SalesStep, PTL
        DEF Spec
==============================================================================
