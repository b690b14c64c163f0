----------------------------- MODULE MCDatabase ------------------------------
(***************************************************************************)
(* Small instances of Database for TLC.                                    *)
(***************************************************************************)
EXTENDS DatabaseProperties

\* A bottle and two bottles of the two products.
OneAndTwo == [p \in Products |-> IF p = (CHOOSE q \in Products : TRUE) THEN 1 ELSE MaxStock]

Lockers == {"reserved", "exclusive"}
Editors == {"restock", "insert", "delete"}
==============================================================================
