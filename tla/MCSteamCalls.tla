---------------------------- MODULE MCSteamCalls ----------------------------
(* An instance of SteamCalls for TLC: two instances of the services, one of *)
(* which issues a second request, whose answer the other one awaits too.    *)
EXTENDS SteamCalls, TLC

CONSTANTS r1, r2, r3, i1, i2, m1, m2

MCOwner  == r1 :> i1 @@ r2 :> i1 @@ r3 :> i2
MCAwaits == r1 :> m1 @@ r2 :> m2 @@ r3 :> m1
=============================================================================
