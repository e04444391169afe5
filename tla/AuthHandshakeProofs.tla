------------------------ MODULE AuthHandshakeProofs ------------------------
(***************************************************************************)
(* The handshake implements admission, whatever the channel does: the      *)
(* inductive invariant ties what is on its way in either direction to what *)
(* the two ends have done, and every step of the two ends is then a step   *)
(* of Admission or leaves it alone.                                        *)
(***************************************************************************)
EXTENDS AuthHandshake, TLAPS

HandshakeInv == TypeOK /\ VerdictsAreTheirs /\ TicketsAreOffered

\* The two ends start with nothing said and nothing on its way.
LEMMA InitInv == Init => HandshakeInv
BY DEF Init, HandshakeInv, TypeOK, VerdictsAreTheirs, TicketsAreOffered, Offered

\* Every step of either end keeps its variables in their types and the server's
\* State in line with what the services said.
LEMMA StepTypes == HandshakeInv /\ [Next]_vars => TypeOK'
<1> SUFFICES ASSUME HandshakeInv, [Next]_vars PROVE TypeOK'
    OBVIOUS
<1> USE DEF HandshakeInv, TypeOK
<1>1. CASE ClientStep
  <2> USE DEF serverVars
  <2>1. CASE ClientBegin BY <2>1 DEF ClientBegin
  <2>2. CASE TicketIssued BY <2>2 DEF TicketIssued, OfferTicket
  <2>3. CASE NoTicketIssued BY <2>3 DEF NoTicketIssued
  <2>4. CASE ClientTakesYes BY <2>4 DEF ClientTakesYes
  <2>5. CASE ClientTakesNo BY <2>5 DEF ClientTakesNo
  <2>6. CASE ClientResendsTicket BY <2>6 DEF ClientResendsTicket, OfferTicket
  <2>7. CASE ClientTick BY <2>7 DEF ClientTick, clientVars
  <2> QED BY <1>1, <2>1, <2>2, <2>3, <2>4, <2>5, <2>6, <2>7 DEF ClientStep
<1>2. CASE ServerStep
  <2> USE DEF clientVars
  <2>1. CASE ServerBegin BY <2>1 DEF ServerBegin
  <2>2. CASE ServerTakesTicket BY <2>2 DEF ServerTakesTicket
  <2>3. CASE ServerRefusesTicket BY <2>3 DEF ServerRefusesTicket, Refuse
  <2>4. CASE ServicesVouch BY <2>4 DEF ServicesVouch
  <2>5. CASE ServicesRefuse BY <2>5 DEF ServicesRefuse, Refuse
  <2>6. CASE ServerResendsVerdict BY <2>6 DEF ServerResendsVerdict, serverVars
  <2>7. CASE ServerTick BY <2>7 DEF ServerTick, serverVars
  <2> QED BY <1>2, <2>1, <2>2, <2>3, <2>4, <2>5, <2>6, <2>7 DEF ServerStep
<1>3. CASE Welcomed BY <1>3 DEF Welcomed, clientVars
<1>4. CASE CloseClient BY <1>4 DEF CloseClient, serverVars
<1>5. CASE CloseServer BY <1>5 DEF CloseServer, clientVars
<1>6. CASE Lose
  <2>1. UNCHANGED <<asks, server, word, account, serverOpen, login>>
    BY <1>6 DEF Lose, serverVars
  <2>2. UNCHANGED <<offers, client, ticket, clientOpen>>
    BY <1>6 DEF Lose, clientVars
  <2>3. toServer' \subseteq toServer /\ toClient' \subseteq toClient
    BY <1>6 DEF Lose
  <2> QED BY <2>1, <2>2, <2>3
<1>7. CASE UNCHANGED vars BY <1>7 DEF vars, serverVars, clientVars
<1> QED BY <1>1, <1>2, <1>3, <1>4, <1>5, <1>6, <1>7 DEF Next

\* A verdict on its way stays the one the services gave.
LEMMA StepVerdicts == HandshakeInv /\ [Next]_vars => VerdictsAreTheirs'
<1> SUFFICES ASSUME HandshakeInv, [Next]_vars PROVE VerdictsAreTheirs'
    OBVIOUS
<1> USE DEF HandshakeInv, VerdictsAreTheirs
<1>1. CASE ClientStep
  <2> USE DEF serverVars
  <2>1. UNCHANGED <<word, serverOpen, toClient>>
    BY <1>1 DEF ClientStep, ClientBegin, TicketIssued, NoTicketIssued, ClientTakesYes,
                ClientTakesNo, ClientResendsTicket, ClientTick
  <2> QED BY <2>1
<1>2. CASE ServerStep
  <2> USE DEF TypeOK
  <2>1. CASE ServerBegin BY <2>1 DEF ServerBegin
  <2>2. CASE ServerTakesTicket BY <2>2 DEF ServerTakesTicket
  <2>3. CASE ServerRefusesTicket BY <2>3 DEF ServerRefusesTicket, Refuse
  <2>4. CASE ServicesVouch BY <2>4 DEF ServicesVouch
  <2>5. CASE ServicesRefuse BY <2>5 DEF ServicesRefuse, Refuse
  <2>6. CASE ServerResendsVerdict BY <2>6 DEF ServerResendsVerdict, serverVars
  <2>7. CASE ServerTick BY <2>7 DEF ServerTick, serverVars
  <2> QED BY <1>2, <2>1, <2>2, <2>3, <2>4, <2>5, <2>6, <2>7 DEF ServerStep
<1>3. CASE Welcomed BY <1>3 DEF Welcomed
<1>4. CASE CloseClient BY <1>4 DEF CloseClient, serverVars
<1>5. CASE CloseServer BY <1>5 DEF CloseServer
<1>6. CASE Lose BY <1>6 DEF Lose, serverVars
<1>7. CASE UNCHANGED vars BY <1>7 DEF vars, serverVars
<1> QED BY <1>1, <1>2, <1>3, <1>4, <1>5, <1>6, <1>7 DEF Next

\* A ticket on its way, or one the services were asked about, stays offered.
LEMMA StepTickets == HandshakeInv /\ [Next]_vars => TicketsAreOffered'
<1> SUFFICES ASSUME HandshakeInv, [Next]_vars PROVE TicketsAreOffered'
    OBVIOUS
<1> USE DEF HandshakeInv, TicketsAreOffered, Offered
<1>1. CASE ClientStep
  <2> USE DEF serverVars
  <2>1. CASE ClientBegin BY <2>1 DEF ClientBegin
  <2>2. CASE TicketIssued BY <2>2 DEF TicketIssued, OfferTicket
  <2>3. CASE NoTicketIssued BY <2>3 DEF NoTicketIssued
  <2>4. CASE ClientTakesYes BY <2>4 DEF ClientTakesYes
  <2>5. CASE ClientTakesNo BY <2>5 DEF ClientTakesNo
  <2>6. CASE ClientResendsTicket BY <2>6 DEF ClientResendsTicket, OfferTicket
  <2>7. CASE ClientTick BY <2>7 DEF ClientTick, clientVars
  <2> QED BY <1>1, <2>1, <2>2, <2>3, <2>4, <2>5, <2>6, <2>7 DEF ClientStep
<1>2. CASE ServerStep
  <2>1. UNCHANGED <<client, ticket, toServer>>
    BY <1>2 DEF ServerStep, ServerBegin, ServerTakesTicket, ServerRefusesTicket, ServicesVouch,
                ServicesRefuse, ServerResendsVerdict, ServerTick, clientVars
  <2>2. word' = "none" \/ word # "none" \/ "Ticket" \in toServer
    BY <1>2 DEF ServerStep, ServerBegin, ServerTakesTicket, ServerRefusesTicket, ServicesVouch,
                ServicesRefuse, ServerResendsVerdict, ServerTick, serverVars
  <2> QED BY <2>1, <2>2
<1>3. CASE Welcomed BY <1>3 DEF Welcomed, clientVars
<1>4. CASE CloseClient BY <1>4 DEF CloseClient, serverVars
<1>5. CASE CloseServer BY <1>5 DEF CloseServer, clientVars
<1>6. CASE Lose BY <1>6 DEF Lose, serverVars, clientVars
<1>7. CASE UNCHANGED vars BY <1>7 DEF vars, serverVars, clientVars
<1> QED BY <1>1, <1>2, <1>3, <1>4, <1>5, <1>6, <1>7 DEF Next

\* The inductive invariant of the exchange.
THEOREM HandshakeInvHolds == Spec => []HandshakeInv
<1>1. HandshakeInv /\ [Next]_vars => HandshakeInv'
  BY StepTypes, StepVerdicts, StepTickets DEF HandshakeInv
<1> QED BY InitInv, <1>1, PTL DEF Spec

\* Both ends' variables keep to their types, and the server's State to what the
\* services said.
THEOREM HandshakeTypeCorrect == Spec => []TypeOK
<1>1. HandshakeInv => TypeOK BY DEF HandshakeInv
<1> QED BY <1>1, HandshakeInvHolds, PTL

\* The client never hears both answers.
THEOREM OneVerdictHolds == Spec => []OneVerdict
<1>1. HandshakeInv => OneVerdict BY DEF HandshakeInv, VerdictsAreTheirs, OneVerdict
<1> QED BY <1>1, HandshakeInvHolds, PTL

\* The two ends start as an admission does.
LEMMA InitAdmits == Init => Door!Init
BY DEF Init, Door!Init, Offered

\* What the client does is an offer, an entry, a departure or nothing.
LEMMA ClientAdmits ==
  ASSUME HandshakeInv, ClientStep
  PROVE  Door!Next \/ UNCHANGED Door!doorVars
<1> USE DEF HandshakeInv, TypeOK, VerdictsAreTheirs, TicketsAreOffered, Offered, serverVars,
        clientVars, Door!doorVars
<1>1. CASE ClientBegin
  BY <1>1 DEF ClientBegin, Door!Next, Door!Enter
<1>2. CASE TicketIssued
  BY <1>2 DEF TicketIssued, OfferTicket, Door!Next, Door!Offer, Door!Leave
<1>3. CASE NoTicketIssued
  BY <1>3 DEF NoTicketIssued, Door!Next, Door!Enter
<1>4. CASE ClientTakesYes
  BY <1>4 DEF ClientTakesYes, Door!Next, Door!Enter
<1>5. CASE ClientTakesNo
  BY <1>5 DEF ClientTakesNo, Door!Next, Door!Leave
<1>6. CASE ClientResendsTicket
  BY <1>6 DEF ClientResendsTicket, OfferTicket
<1>7. CASE ClientTick
  BY <1>7 DEF ClientTick
<1> QED BY <1>1, <1>2, <1>3, <1>4, <1>5, <1>6, <1>7 DEF ClientStep

\* What the server does is to ask, to hear the services, to open unasked, to
\* close or nothing.
LEMMA ServerAdmits ==
  ASSUME HandshakeInv, ServerStep
  PROVE  Door!Next \/ UNCHANGED Door!doorVars
<1> USE DEF HandshakeInv, TypeOK, VerdictsAreTheirs, TicketsAreOffered, Offered, serverVars,
        clientVars, Door!doorVars
<1>1. CASE ServerBegin
  BY <1>1 DEF ServerBegin, Door!Next, Door!OpenUnasked
<1>2. CASE ServerTakesTicket
  BY <1>2 DEF ServerTakesTicket, Door!Next, Door!Ask
<1>3. CASE ServerRefusesTicket
  BY <1>3 DEF ServerRefusesTicket, Refuse, Door!Next, Door!CloseHost
<1>4. CASE ServicesVouch
  BY <1>4 DEF ServicesVouch, Door!Next, Door!Vouch
<1>5. CASE ServicesRefuse
  BY <1>5 DEF ServicesRefuse, Refuse, Door!Next, Door!Refuse
<1>6. CASE ServerResendsVerdict
  BY <1>6 DEF ServerResendsVerdict
<1>7. CASE ServerTick
  BY <1>7 DEF ServerTick
<1> QED BY <1>1, <1>2, <1>3, <1>4, <1>5, <1>6, <1>7 DEF ServerStep

\* The handshake implements admission: every step of the two ends, and every
\* loss of a packet, is a step of Admission or a stutter.
THEOREM HandshakeAdmits == Spec => AdmissionSpec
<1>1. HandshakeInv /\ [Next]_vars => [Door!Next]_Door!doorVars
  <2> SUFFICES ASSUME HandshakeInv, [Next]_vars PROVE Door!Next \/ UNCHANGED Door!doorVars
      OBVIOUS
  <2>1. CASE ClientStep BY <2>1, ClientAdmits
  <2>2. CASE ServerStep BY <2>2, ServerAdmits
  <2> USE DEF HandshakeInv, TypeOK, Offered, serverVars, clientVars, Door!doorVars
  <2>3. CASE Welcomed BY <2>3 DEF Welcomed, Door!Next, Door!Welcome, Door!CloseHost
  <2>4. CASE CloseClient BY <2>4 DEF CloseClient, Door!Next, Door!Leave
  <2>5. CASE CloseServer BY <2>5 DEF CloseServer, Door!Next, Door!CloseHost
  <2>6. CASE Lose BY <2>6 DEF Lose
  <2>7. CASE UNCHANGED vars BY <2>7 DEF vars
  <2> QED BY <2>1, <2>2, <2>3, <2>4, <2>5, <2>6, <2>7 DEF Next
<1> QED BY <1>1, InitAdmits, HandshakeInvHolds, PTL DEF Spec, AdmissionSpec, Door!Spec
=============================================================================
