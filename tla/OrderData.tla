------------------------------ MODULE OrderData ------------------------------
(***************************************************************************)
(* Orders and products (common/order.c, common/product.c), and what they   *)
(* look like in memory once they are serialised.                           *)
(*                                                                         *)
(* A value of several bytes is the sequence of its bytes, each of which    *)
(* says of which value it is which byte; a text is a sequence of           *)
(* characters, numbers other than NUL.                                     *)
(*                                                                         *)
(* A float is the whole number of its units: with Scale = 2^149 units to   *)
(* one and MantissaLimit = 2^24, the floats are those of IEEE 754 single   *)
(* precision, only that none is too large.                                 *)
(***************************************************************************)
EXTENDS Integers, Sequences, SequencesExt

CONSTANTS SizeT,          \* bytes of a size_t
          IntSize,        \* bytes of an int, and of a float
          ORDER_MAX_SIZE,
          Scale,          \* units of a float in 1
          MantissaLimit,  \* numbers below it are floats; above, only some
          NULL

ASSUME OrderDataAssumption ==
  /\ SizeT \in Nat \ {0} /\ IntSize \in Nat \ {0}
  /\ ORDER_MAX_SIZE \in Nat
  /\ Scale \in Nat \ {0} /\ MantissaLimit \in Nat \ {0}

NUL == 0

Byte == Nat \X Nat \X Int
Character == Nat \ {NUL}

Bytes(value, size) == [i \in 1 .. size |-> <<i, size, value>>]
Text(characters) == FlattenSeq([i \in 1 .. Len(characters) |-> Bytes(characters[i], 1)]) \o Bytes(NUL, 1)

\* memcpy(&value, data + offset, size): bytes that do not belong together make a
\* number that nobody wrote, for which zero stands.
Value(data, offset, size) ==
  LET bytes == SubSeq(data, offset + 1, offset + size)
  IN  IF bytes # <<>> /\ bytes = Bytes(bytes[1][3], size) THEN bytes[1][3] ELSE 0

\* strncpy(text, data + offset, size)
Characters(data, offset, size) ==
  LET from == SubSeq(data, offset + 1, offset + size)
      end  == SelectInSeq(from, LAMBDA byte : byte[3] = NUL)
  IN  [i \in 1 .. (IF end = 0 THEN Len(from) ELSE end - 1) |-> from[i][3]]

-----------------------------------------------------------------------------
(* Floats.                                                                 *)

Abs(n) == IF n < 0 THEN - n ELSE n

\* n / d, to the nearest whole number, and of two that are as near to the even one.
Nearest(n, d) ==
  LET q == n \div d
      r == n % d
  IN  IF 2 * r > d \/ (2 * r = d /\ q % 2 = 1) THEN q + 1 ELSE q

\* How far the floats around n are from each other.
Ulp[n \in Nat] == IF n < MantissaLimit THEN 1 ELSE 2 * Ulp[n \div 2]

\* The float that arithmetic makes of n.
ToFloat(n) ==
  LET ulp == Ulp[Abs(n)]
      nearest == ulp * Nearest(Abs(n), ulp)
  IN  IF n < 0 THEN - nearest ELSE nearest

-----------------------------------------------------------------------------
(* Orders.                                                                 *)

orderNew == [address |-> NULL, items |-> <<>>]

EntryOf(order, product_id) == SelectInSeq(order.items, LAMBDA e : e.product_id = product_id)

\* orderAdd returns -1
Full(order, product_id) ==
  EntryOf(order, product_id) = 0 /\ Len(order.items) >= ORDER_MAX_SIZE

\* Mutant of orderAdd: the product is not looked for.
orderAddAgain(order, product_id, quantity, price) ==
  [order EXCEPT !.items =
     Append(@, [product_id |-> product_id, quantity |-> quantity, price |-> price])]

orderAdd(order, product_id, quantity, price) ==
  IF EntryOf(order, product_id) # 0
    THEN [order EXCEPT !.items[EntryOf(order, product_id)].quantity = @ + quantity]
    ELSE [order EXCEPT !.items =
            Append(@, [product_id |-> product_id, quantity |-> quantity, price |-> price])]

orderSetAddress(order, address) == [order EXCEPT !.address = address]

\* The quantity becomes a float, and the product and the sum are rounded to floats.
orderGetTotal(order) ==
  FoldLeft(LAMBDA sum, e : ToFloat(sum + ToFloat(e.price * ToFloat(e.quantity))), 0, order.items)

EntryBytes(e) == Bytes(e.product_id, IntSize) \o Bytes(e.quantity, IntSize) \o Bytes(e.price, IntSize)

\* Mutant of orderSerialize: the length of the address leaves out its NUL.
orderSerializeShort(order) ==
  Bytes(Len(order.address), SizeT)
    \o Text(order.address)
    \o Bytes(Len(order.items), IntSize)
    \o FlattenSeq([i \in 1 .. Len(order.items) |-> EntryBytes(order.items[i])])

orderSerialize(order) ==
  LET address == IF order.address = NULL THEN <<>> ELSE Text(order.address)
  IN  Bytes(Len(address), SizeT)
        \o address
        \o Bytes(Len(order.items), IntSize)
        \o FlattenSeq([i \in 1 .. Len(order.items) |-> EntryBytes(order.items[i])])

orderUnserialize(data) ==
  LET addressLen == Value(data, 0, SizeT)
      numEntries == Value(data, SizeT + addressLen, IntSize)
      Entry(i)   ==
        LET offset == SizeT + addressLen + IntSize + (i - 1) * 3 * IntSize
        IN  [product_id |-> Value(data, offset, IntSize),
             quantity   |-> Value(data, offset + IntSize, IntSize),
             price      |-> Value(data, offset + 2 * IntSize, IntSize)]
  IN  [address |-> IF addressLen = 0 THEN NULL ELSE Characters(data, SizeT, addressLen),
       items   |-> [i \in 1 .. numEntries |-> Entry(i)]]

-----------------------------------------------------------------------------
(* Products.                                                               *)

Product == [id : Int, name : Seq(Character), description : Seq(Character), price : Int, stock : Int]

productSetStock(p, stock) == IF stock < 0 THEN p ELSE [p EXCEPT !.stock = stock]

productSerialize(p) ==
  LET name == Text(p.name)
      description == Text(p.description)
  IN  Bytes(p.id, IntSize)
        \o Bytes(Len(name), IntSize) \o name
        \o Bytes(Len(description), IntSize) \o description
        \o Bytes(p.price, IntSize) \o Bytes(p.stock, IntSize)

\* Mutant of productUnserialize: the second length is looked for too early.
productUnserializeEarly(data) ==
  LET nameLen  == Value(data, IntSize, IntSize)
      afterName == IntSize + nameLen
      descrLen == Value(data, afterName, IntSize)
      afterDescription == afterName + IntSize + descrLen
  IN  [id          |-> Value(data, 0, IntSize),
       name        |-> Characters(data, 2 * IntSize, nameLen),
       description |-> Characters(data, afterName + IntSize, descrLen),
       price       |-> Value(data, afterDescription, IntSize),
       stock       |-> Value(data, afterDescription + IntSize, IntSize)]

productUnserialize(data) ==
  LET nameLen  == Value(data, IntSize, IntSize)
      afterName == 2 * IntSize + nameLen
      descrLen == Value(data, afterName, IntSize)
      afterDescription == afterName + IntSize + descrLen
  IN  [id          |-> Value(data, 0, IntSize),
       name        |-> Characters(data, 2 * IntSize, nameLen),
       description |-> Characters(data, afterName + IntSize, descrLen),
       price       |-> Value(data, afterDescription, IntSize),
       stock       |-> Value(data, afterDescription + IntSize, IntSize)]
==============================================================================
