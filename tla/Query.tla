-------------------------------- MODULE Query --------------------------------
(***************************************************************************)
(* How store_verified_order (databaseServer.c) writes its INSERTs: piece   *)
(* by piece, each with sprintf at the position at which countDigits and    *)
(* the lengths of the pieces before it have arrived.                       *)
(*                                                                         *)
(* A piece of n characters is the sequence of their places in it.          *)
(***************************************************************************)
EXTENDS OrderData

CONSTANTS BaseLen, \* strlen(baseQuery)
          TimeLen, \* digits of the time, the same until 2038
          INT_MAX

ASSUME QueryAssumption == BaseLen \in Nat /\ TimeLen \in Nat /\ INT_MAX \in Nat

\* The loop of countDigits.
DigitsFrom[n \in Nat] == IF n = 0 THEN 0 ELSE 1 + DigitsFrom[n \div 10]

\* Mutant of countDigits: the minus sign does not count.
countDigitsOnly(number) == (IF number = 0 THEN 1 ELSE 0) + DigitsFrom[Abs(number)]

countDigits(number) == (IF number <= 0 THEN 1 ELSE 0) + DigitsFrom[Abs(number)]

\* (int) of a float, which is undefined unless an int can hold it.
InInt(t) == Abs(t) \div Scale <= INT_MAX
Truncated(t) == IF t < 0 THEN - (Abs(t) \div Scale) ELSE t \div Scale

\* What printf makes of an int, and of a float with "%.2f": of the float itself, which
\* is seldom the decimal number that it stands for, the nearest hundredth.
Sign(n) == IF n < 0 THEN 1 ELSE 0
Digits(n) == IF n = 0 THEN 1 ELSE DigitsFrom[n]
PrintedInt(n) == Sign(n) + Digits(Abs(n))
PrintedFloat(t) == Sign(t) + Digits(Nearest(100 * Abs(t), Scale) \div 100) + 1 + 2

\* A piece: its name, its characters, and by how many the index advances.
Piece(name, printed, counted) ==
  [text |-> [i \in 1 .. printed |-> <<name, i>>], counted |-> counted]

InsertOrder(order) ==
  LET total == orderGetTotal(order)
      quoted == 1 + Len(order.address) + 1 + 1
  IN  << Piece("base", BaseLen, BaseLen),
         Piece("total", PrintedFloat(total) + 1, countDigits(Truncated(total)) + 1 + 2 + 1),
         Piece("address", quoted, quoted),
         Piece("time", TimeLen + 1, TimeLen + 1) >>

InsertEntry(orderID, e) ==
  LET Number(name, n) == Piece(name, PrintedInt(n) + 1, countDigits(n) + 1)
  IN  << Piece("base", BaseLen, BaseLen),
         Number("order", orderID), Number("product", e.product_id), Number("quantity", e.quantity) >>

\* sprintf(query + index, ...): it ends the text, and what it writes beyond the
\* end of the text that is there is not part of it.
sprintf(query, index, text) ==
  IF index <= Len(query) THEN SubSeq(query, 1, index) \o text ELSE query

\* The query that is run: all pieces, and query[index] = 0.
QueryOf(pieces) ==
  LET Write(s, p) == [query |-> sprintf(s.query, s.index, p.text), index |-> s.index + p.counted]
      written == FoldLeft(Write, [query |-> <<>>, index |-> 0], pieces)
  IN  sprintf(written.query, written.index, <<>>)
==============================================================================
