------------------------------ MODULE MCLogging ------------------------------
(***************************************************************************)
(* An instance of Logging for TLC.                                         *)
(***************************************************************************)
EXTENDS Logging

CONSTANTS main, session

MCProcesses == {main, session}
MCParent == [p \in MCProcesses |-> main]
==============================================================================
