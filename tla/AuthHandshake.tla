--------------------------- MODULE AuthHandshake ---------------------------
(***************************************************************************)
(* Both ends of one connection proving who is joining (FAuthHandlerSteam). *)
(*                                                                         *)
(* The exchange is four packets - Ticket, Verdict and a resend request for *)
(* each - over a channel that loses, repeats and reorders them: a channel  *)
(* is the set of packets that may still arrive, reading leaves a packet    *)
(* where it is and Lose takes it away.  The services are asked and answer  *)
(* later; AuthSessions is what they do in between.                         *)
(***************************************************************************)

VARIABLES
  asks,       \* the server found services when the handshake began
  offers,     \* the client found services with somebody signed in
  client,     \* the client's State, "Begin" before NotifyHandshakeBegin
  server,     \* the server's State, likewise
  ticket,     \* the client's ticket: "none", "asked", "issued"
  word,       \* the services of the server: "none", "asked", "yes", "no"
  account,    \* the server's Account names the client
  clientOpen, serverOpen,   \* the connection is not closed at that end
  toServer, toClient,       \* packets that may still arrive
  login       \* the login the server let in: "none", "same", "other"

clientVars == <<offers, client, ticket, clientOpen>>
serverVars == <<asks, server, word, account, serverOpen, login>>
vars == <<clientVars, serverVars, toServer, toClient>>

Init ==
  /\ asks \in BOOLEAN /\ offers \in BOOLEAN
  /\ client = "Begin" /\ server = "Begin"
  /\ ticket = "none" /\ word = "none" /\ account = FALSE
  /\ clientOpen = TRUE /\ serverOpen = TRUE
  /\ toServer = {} /\ toClient = {}
  /\ login = "none"

-----------------------------------------------------------------------------
(* The client.                                                             *)

\* NotifyHandshakeBegin: with no services or nobody signed in there is nothing
\* to offer and this end is ready at once; otherwise it asks for a ticket.
ClientBegin ==
  /\ clientOpen /\ client = "Begin"
  /\ client' = IF offers THEN "Idle" ELSE "Ready"
  /\ ticket' = IF offers THEN "asked" ELSE "none"
  /\ UNCHANGED <<offers, clientOpen, serverVars, toServer, toClient>>

OfferTicket ==
  /\ toServer' = toServer \cup {"Ticket"}
  /\ client' = "SentTicket"

\* The services issued a ticket; one that does not fit in a packet closes.
TicketIssued ==
  /\ clientOpen /\ ticket = "asked"
  /\ ticket' = "issued"
  /\ \/ OfferTicket /\ UNCHANGED clientOpen
     \/ clientOpen' = FALSE /\ UNCHANGED <<client, toServer>>
  /\ UNCHANGED <<offers, serverVars, toClient>>

\* The services did not issue one; the client goes on without proof.
NoTicketIssued ==
  /\ clientOpen /\ ticket = "asked"
  /\ ticket' = "none"
  /\ client' = "Ready"
  /\ UNCHANGED <<offers, clientOpen, serverVars, toServer, toClient>>

\* The server took the ticket.
ClientTakesYes ==
  /\ clientOpen /\ client = "SentTicket" /\ "VerdictYes" \in toClient
  /\ client' = "Ready"
  /\ UNCHANGED <<offers, ticket, clientOpen, serverVars, toServer, toClient>>

\* The server refused it: an error on the packet closes the connection.
ClientTakesNo ==
  /\ clientOpen /\ client = "SentTicket" /\ "VerdictNo" \in toClient
  /\ clientOpen' = FALSE
  /\ UNCHANGED <<offers, client, ticket, serverVars, toServer, toClient>>

ClientResendsTicket ==
  /\ clientOpen /\ client = "SentTicket" /\ "ResendTicket" \in toClient
  /\ OfferTicket
  /\ UNCHANGED <<offers, ticket, clientOpen, serverVars, toClient>>

\* Tick: nothing was heard for two seconds.
ClientTick ==
  /\ clientOpen /\ client = "SentTicket"
  /\ toServer' = toServer \cup {"ResendVerdict"}
  /\ UNCHANGED <<clientVars, serverVars, toClient>>

CloseClient ==
  /\ clientOpen /\ clientOpen' = FALSE
  /\ UNCHANGED <<offers, client, ticket, serverVars, toServer, toClient>>

-----------------------------------------------------------------------------
(* The server.                                                             *)

ServerBegin ==
  /\ serverOpen /\ server = "Begin"
  /\ server' = IF asks THEN "WaitingForTicket" ELSE "Ready"
  /\ UNCHANGED <<asks, word, account, serverOpen, login, clientVars, toServer, toClient>>

Refuse ==
  /\ toClient' = toClient \cup {"VerdictNo"}
  /\ serverOpen' = FALSE

\* A ticket the services are asked about.
ServerTakesTicket ==
  /\ serverOpen /\ server = "WaitingForTicket" /\ "Ticket" \in toServer
  /\ account' = TRUE
  /\ word' = "asked"
  /\ server' = "WaitingForVerdict"
  /\ UNCHANGED <<asks, serverOpen, login, clientVars, toServer, toClient>>

\* A ticket that cannot be read, whose account does not resolve, that names
\* somebody other than the relay does, or that nobody is left to ask about.
ServerRefusesTicket ==
  /\ serverOpen /\ server = "WaitingForTicket" /\ "Ticket" \in toServer
  /\ account' \in BOOLEAN
  /\ Refuse
  /\ UNCHANGED <<asks, server, word, login, clientVars, toServer>>

\* The services vouched; the handler outlives the close of its connection.
ServicesVouch ==
  /\ word = "asked"
  /\ word' = "yes"
  /\ toClient' = toClient \cup {"VerdictYes"}
  /\ server' = "Ready"
  /\ UNCHANGED <<asks, account, serverOpen, login, clientVars, toServer>>

\* Mutant of ServicesRefuse: the refusal is sent and nothing is closed.
ServicesRefuseOnly ==
  /\ word = "asked"
  /\ word' = "no"
  /\ toClient' = toClient \cup {"VerdictNo"}
  /\ server' = "Ready"
  /\ UNCHANGED <<asks, account, serverOpen, login, clientVars, toServer>>

\* Any error of the services, a timeout among them.
ServicesRefuse ==
  /\ word = "asked"
  /\ word' = "no"
  /\ Refuse
  /\ UNCHANGED <<asks, server, account, login, clientVars, toServer>>

\* Mutant of ServerResendsVerdict: the ticket was taken, so it is called good.
ServerResendsEarly ==
  /\ asks /\ serverOpen /\ "ResendVerdict" \in toServer
  /\ server \in {"WaitingForVerdict", "Ready"}
  /\ toClient' = toClient \cup {"VerdictYes"}
  /\ UNCHANGED <<serverVars, clientVars, toServer>>

\* Mutant of ServerResendsVerdict: once ready, the handshake is over.
ServerResendsNothing ==
  /\ asks /\ serverOpen /\ "ResendVerdict" \in toServer
  /\ server = "WaitingForTicket"
  /\ toClient' = toClient \cup {"ResendTicket"}
  /\ UNCHANGED <<serverVars, clientVars, toServer>>

\* Asked for a verdict: it is repeated, or the ticket it needs is asked for.
ServerResendsVerdict ==
  /\ asks /\ serverOpen /\ "ResendVerdict" \in toServer
  /\ \/ server = "Ready" /\ toClient' = toClient \cup {"VerdictYes"}
     \/ server = "WaitingForTicket" /\ toClient' = toClient \cup {"ResendTicket"}
  /\ UNCHANGED <<serverVars, clientVars, toServer>>

ServerTick ==
  /\ serverOpen /\ server = "WaitingForTicket"
  /\ toClient' = toClient \cup {"ResendTicket"}
  /\ UNCHANGED <<serverVars, clientVars, toServer>>

CloseServer ==
  /\ serverOpen /\ serverOpen' = FALSE
  /\ UNCHANGED <<asks, server, word, account, login, clientVars, toServer, toClient>>

\* Mutant of Welcomed: the login is not held against the proof.
WelcomedUnchecked ==
  /\ serverOpen /\ server = "Ready" /\ client = "Ready" /\ login = "none"
  /\ login' \in {"same", "other"}
  /\ UNCHANGED <<asks, server, word, account, serverOpen, clientVars, toServer, toClient>>

\* The game took a login; one that names another account than the handshake
\* did closes the connection before anything exists for it.
Welcomed ==
  /\ serverOpen /\ server = "Ready" /\ client = "Ready" /\ login = "none"
  /\ \/ login' = "same" /\ UNCHANGED serverOpen
     \/ ~account /\ login' = "other" /\ UNCHANGED serverOpen
     \/ account /\ serverOpen' = FALSE /\ UNCHANGED login
  /\ UNCHANGED <<asks, server, word, account, clientVars, toServer, toClient>>

-----------------------------------------------------------------------------
Lose ==
  \/ \E p \in toServer : /\ toServer' = toServer \ {p}
                         /\ UNCHANGED <<serverVars, clientVars, toClient>>
  \/ \E p \in toClient : /\ toClient' = toClient \ {p}
                         /\ UNCHANGED <<serverVars, clientVars, toServer>>

ClientStep ==
  \/ ClientBegin \/ TicketIssued \/ NoTicketIssued
  \/ ClientTakesYes \/ ClientTakesNo \/ ClientResendsTicket \/ ClientTick

ServerStep ==
  \/ ServerBegin \/ ServerTakesTicket \/ ServerRefusesTicket
  \/ ServicesVouch \/ ServicesRefuse \/ ServerResendsVerdict \/ ServerTick

Next == ClientStep \/ ServerStep \/ Welcomed \/ CloseClient \/ CloseServer \/ Lose

Spec == Init /\ [][Next]_vars

\* Both ends tick and read what keeps arriving, and the services answer (a
\* request ends on its deadline at the latest).  Nobody has to close or time out.
Fairness ==
  /\ WF_vars(ServerBegin) /\ WF_vars(ClientTick) /\ WF_vars(ServerTick)
  /\ SF_vars(ClientTakesYes) /\ SF_vars(ClientTakesNo) /\ SF_vars(ClientResendsTicket)
  /\ SF_vars(ServerTakesTicket \/ ServerRefusesTicket)
  /\ SF_vars(ServerResendsVerdict)
  /\ WF_vars(ServicesVouch \/ ServicesRefuse)

FairSpec == Spec /\ Fairness

-----------------------------------------------------------------------------
(* Properties.                                                             *)

\* Both ends hold values of their types, and what the server's State says of
\* the services is what they said: it waits for them once it asked them about
\* an account it read, and where it asks it is ready on their yes alone.
TypeOK ==
  /\ asks \in BOOLEAN /\ offers \in BOOLEAN
  /\ client \in {"Begin", "Idle", "SentTicket", "Ready"}
  /\ server \in {"Begin", "WaitingForTicket", "WaitingForVerdict", "Ready"}
  /\ ticket \in {"none", "asked", "issued"}
  /\ word \in {"none", "asked", "yes", "no"}
  /\ account \in BOOLEAN
  /\ clientOpen \in BOOLEAN /\ serverOpen \in BOOLEAN
  /\ toServer \subseteq {"Ticket", "ResendVerdict"}
  /\ toClient \subseteq {"VerdictYes", "VerdictNo", "ResendTicket"}
  /\ login \in {"none", "same", "other"}
  /\ word # "none" => account /\ asks
  /\ (server = "WaitingForVerdict") <=> (word \in {"asked", "no"})
  /\ (asks /\ server = "Ready") <=> (word = "yes")
  /\ server = "WaitingForTicket" => asks

\* The client never hears both answers, however packets are repeated and
\* whenever a resend is asked for.
OneVerdict == ~({"VerdictYes", "VerdictNo"} \subseteq toClient)

\* What the proofs add to make these inductive: a verdict on its way is the one
\* the services gave, a refusal comes from an end that closed without a yes, and
\* a ticket on its way was offered by a client that does not take that back.
Offered == client = "SentTicket" \/ (client = "Ready" /\ ticket = "issued")

VerdictsAreTheirs ==
  /\ "VerdictYes" \in toClient => word = "yes"
  /\ "VerdictNo" \in toClient => ~serverOpen /\ word \in {"none", "no"}
  /\ word = "no" => ~serverOpen

TicketsAreOffered ==
  /\ "Ticket" \in toServer => Offered
  /\ client = "Begin" => ticket = "none"
  /\ ticket = "asked" => client = "Idle"
  /\ client = "SentTicket" => ticket = "issued"
  /\ word # "none" => Offered

\* A ticket that was offered to a server that asks is decided, whatever packets
\* are lost: both ends become ready or one of them closes.  Neither end can be
\* left waiting for a packet the other will not send again.
HandshakeFinishes ==
  (asks /\ client = "SentTicket") ~>
    (client = "Ready" /\ server = "Ready") \/ ~clientOpen \/ ~serverOpen

-----------------------------------------------------------------------------
(* The exchange implements what admission promises.                        *)

Door == INSTANCE Admission WITH
  host    <- IF ~serverOpen THEN "closed" ELSE IF server = "Ready" THEN "open" ELSE "shut",
  proof   <- Offered,
  player  <- IF ~clientOpen THEN "gone" ELSE IF client = "Ready" THEN "inside" ELSE "outside",
  welcome <- login

\* What the two ends do, seen without packets, is an admission: nobody is let in
\* before the services vouched, a client that offered proof goes on only once
\* the server took it, and the login is the one that was proved.
AdmissionSpec == Door!Spec
=============================================================================
