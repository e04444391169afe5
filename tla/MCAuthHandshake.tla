-------------------------- MODULE MCAuthHandshake --------------------------
(* AuthHandshake has no constants; TLC explores it whole.                  *)
EXTENDS AuthHandshake
=============================================================================
