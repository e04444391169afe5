----------------------------- MODULE MCLobbies -----------------------------
(* Instances of Lobbies for TLC.                                           *)
EXTENDS Lobbies, TLC

CONSTANTS l1, l2

TwoLobbies == {l1, l2}
Symmetric  == Permutations(TwoLobbies) \cup Permutations(Peer)
=============================================================================
