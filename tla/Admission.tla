----------------------------- MODULE Admission -----------------------------
(***************************************************************************)
(* What proving who is joining promises the two ends of a connection, with *)
(* no packets in it: a host that has services lets a player in only on     *)
(* their word, asked for once; a player who offered a proof enters only a  *)
(* host that took it; and the player who is let in is the one vouched for. *)
(***************************************************************************)
VARIABLES
  asks,     \* the host has services to ask
  word,     \* what the services said of the player: "none", "asked", "yes", "no"
  host,     \* "shut", "open" to the player, "closed" for good
  proof,    \* the player offered a proof
  player,   \* "outside", "inside" as far as the player knows, "gone"
  welcome   \* the game took the player's login: "none", "same", "other"

doorVars == <<asks, word, host, proof, player, welcome>>

Init ==
  /\ asks \in BOOLEAN
  /\ word = "none" /\ host = "shut"
  /\ proof = FALSE /\ player = "outside"
  /\ welcome = "none"

Offer ==
  /\ player = "outside" /\ proof' = TRUE
  /\ UNCHANGED <<asks, word, host, player, welcome>>

Ask ==
  /\ asks /\ proof /\ host = "shut" /\ word = "none"
  /\ word' = "asked"
  /\ UNCHANGED <<asks, host, proof, player, welcome>>

\* The services answer; a host that has closed in the meantime stays closed.
Vouch ==
  /\ word = "asked" /\ word' = "yes"
  /\ host' = IF host = "shut" THEN "open" ELSE host
  /\ UNCHANGED <<asks, proof, player, welcome>>

Refuse ==
  /\ word = "asked" /\ word' = "no"
  /\ host' = "closed"
  /\ UNCHANGED <<asks, proof, player, welcome>>

OpenUnasked ==
  /\ ~asks /\ host = "shut" /\ host' = "open"
  /\ UNCHANGED <<asks, word, proof, player, welcome>>

Enter ==
  /\ player = "outside" /\ (proof => word = "yes")
  /\ player' = "inside"
  /\ UNCHANGED <<asks, word, host, proof, welcome>>

\* The game takes a login; over an identity that was vouched for, it is that one.
Welcome ==
  /\ host = "open" /\ player # "outside" /\ welcome = "none"
  /\ welcome' \in IF word = "yes" THEN {"same"} ELSE {"same", "other"}
  /\ UNCHANGED <<asks, word, host, proof, player>>

CloseHost ==
  /\ host # "closed" /\ host' = "closed"
  /\ UNCHANGED <<asks, word, proof, player, welcome>>

Leave ==
  /\ player # "gone" /\ player' = "gone"
  /\ UNCHANGED <<asks, word, host, proof, welcome>>

Next ==
  \/ Offer \/ Ask \/ Vouch \/ Refuse \/ OpenUnasked
  \/ Enter \/ Welcome \/ CloseHost \/ Leave

Spec == Init /\ [][Next]_doorVars
=============================================================================
