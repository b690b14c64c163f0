------------------------------- MODULE MCShop --------------------------------
(***************************************************************************)
(* Shop on small instances: two clients, so that one can be overtaken by   *)
(* the other at every step, and one or two products.                       *)
(***************************************************************************)
EXTENDS ShopProperties, TLC

CONSTANTS ann, bob, gin, rum, nowhere

TwoClients   == {ann, bob}
AllAddresses == {ann, bob, nowhere}

OneProduct  == {gin}
TwoProducts == {gin, rum}

OneLeft  == [p \in Products |-> 1]
TwoLeft  == [p \in Products |-> 2]
Uneven   == gin :> 1 @@ rum :> 2

NoFaults      == {}
ClientKilled  == {"sigkill"}
ClientSignals == {"sigint", "sigkill"}
AnyFault      == {"sigint", "sigkill", "busy"}
==============================================================================
