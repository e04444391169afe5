--------------------------- MODULE MCAuthTickets ---------------------------
(* Instances of AuthTickets for TLC.                                       *)
EXTENDS AuthTickets
=============================================================================
