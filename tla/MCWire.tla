-------------------------------- MODULE MCWire --------------------------------
(***************************************************************************)
(* An instance of Wire for TLC: bytes are few, but a size_t has more than  *)
(* an int, and messages are longer than the streams can hold.  Floats have *)
(* 13 bits, and these prices are 4.69, 0.62 and 9.995 as such floats: two  *)
(* of the first and one of the second make 9.998, which prints as 10.00,   *)
(* and the third alone prints as 9.99.                                     *)
(***************************************************************************)
EXTENDS Wire

MCLinks == {"fromDb", "down", "up", "toDb"}
MCCatalogue ==
  << [id |-> 1, name |-> <<114>>, description |-> <<>>, price |-> 38416, stock |-> 2],
     [id |-> 2, name |-> <<103, 105>>, description |-> <<120>>, price |-> 5079, stock |-> 1],
     [id |-> 3, name |-> <<>>, description |-> <<122>>, price |-> 81872, stock |-> 1] >>
MCDeliveryAddresses == {<<>>, <<97, 98>>}
MCStocks == {-1, 1, 2}
==============================================================================
