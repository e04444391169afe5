-------------------------- MODULE MCSocketRecords --------------------------
(* Instances of SocketRecords for TLC: a game that listens on the relay, the *)
(* beacon beside it on an address of its own.                                *)
EXTENDS SocketRecords

CONSTANTS Game, Beacon

MCAddress == (Game :> "relay") @@ (Beacon :> "lan")
=============================================================================
