--------------------------- MODULE MCAuthSessions ---------------------------
(* Instances of AuthSessions for TLC.                                      *)
EXTENDS AuthSessions, TLC

CONSTANTS u1, u2, c1, c2, c3

TwoUsers   == {u1, u2}
OneUser    == {u1}
TwoConns   == {c1, c2}
ThreeConns == {c1, c2, c3}

ServerOnly    == {"server"}
UserOnly      == {"user"}
Both          == {"server", "user"}

\* The memory of a destroyed handler still reads as it did, or reads anything.
MemoryIntact  == {TRUE}
MemoryReused  == BOOLEAN

Symmetric == Permutations(TwoUsers) \cup Permutations(ThreeConns)
=============================================================================
