------------------------ MODULE SocketRecordsProofs ------------------------
(* What is proved of SocketRecords: the address a lobby is pointed at, and   *)
(* that handles, records, sockets and Steam keep agreeing with each other.   *)
EXTENDS SocketRecords, TLAPS

States == {"new", "waiting", "listening", "idle", "gone"}

\* Two drivers never listen on one address.
AddressesApart ==
  \A d, e \in Drivers :
    (driver[d] = "listening" /\ driver[e] = "listening" /\ Address[d] = Address[e]) => d = e

\* The address that is published is that of a driver that listens; it is only
\* known to be withdrawn by the right one because no two share it.
AddressInv ==
  /\ driver \in [Drivers -> States]
  /\ AddressesApart
  /\ AddressHasAListener

\* What the steps that touch neither a driver nor the address have in common.
Elsewhere == UNCHANGED <<driver, address, down>>

\* Every other step of the specification is one of these: a driver comes up,
\* fails to, goes, or the subsystem does.
Comes(d, after) ==
  /\ driver[d] \in {"new", "waiting"} /\ after \in {"gone", "idle"}
  /\ \/ /\ ~Taken(Address[d]) /\ driver' = [driver EXCEPT ![d] = "listening"]
        /\ address' = Address[d]
     \/ /\ ~Taken(Address[d]) /\ driver' = [driver EXCEPT ![d] = after]
        /\ address' = AddressWithout(d)
     \/ driver' = [driver EXCEPT ![d] = after] /\ address' = address
  /\ down' = down

Waits(d) == driver[d] = "new" /\ driver' = [driver EXCEPT ![d] = "waiting"] /\ UNCHANGED <<address, down>>

Goes(d) ==
  /\ driver' = [driver EXCEPT ![d] = "gone"] /\ down' = down
  /\ address' = IF driver[d] = "listening" THEN AddressWithout(d) ELSE address

AllGo ==
  /\ down' /\ address' = None
  /\ driver' = [d \in Drivers |-> IF d \in logins /\ driver[d] = "waiting" THEN "idle" ELSE driver[d]]

\* There are no other steps.
LEMMA StepsOnAddress ==
  ASSUME [Next]_vars
  PROVE  \/ Elsewhere \/ AllGo
         \/ \E d \in Drivers : Waits(d) \/ Goes(d) \/ \E after \in {"gone", "idle"} : Comes(d, after)
<1>1. CASE \E d \in Drivers : InitListen(d)
  BY <1>1 DEF InitListen, ListenSucceeds, ListenHasNoPollGroup, ListenRefused, Comes
<1>2. CASE \E d \in Drivers : AddDelayedListener(d)
  BY <1>2 DEF AddDelayedListener, Waits
<1>3. CASE \E d \in Drivers : LoginAnswered(d)
  BY <1>3 DEF LoginAnswered, ListenSucceeds, ListenHasNoPollGroup, ListenRefused, Comes,
              Elsewhere, socketVars
<1>4. CASE \E d \in Drivers : Shutdown(d)
  BY <1>4 DEF Shutdown, Goes
<1>5. CASE SteamStep
  BY <1>5 DEF SteamStep, Ring, Establish, End, Elsewhere, socketVars
<1>6. CASE Event
  BY <1>6 DEF Event, CreatedUnanswered, CreatedRefused, CreatedNamesNobody, CreatedAccepted,
              Connected, Ended, Dispatch, Elsewhere, socketVars
<1>7. CASE \E c \in Links : CloseLocally(c) \/ CleanUp(c)
  BY <1>7 DEF CloseLocally, CleanUp, Elsewhere, socketVars
<1>8. CASE SweepClosedSockets
  BY <1>8 DEF SweepClosedSockets, Elsewhere
<1>9. CASE SubsystemShutdown
  BY <1>9 DEF SubsystemShutdown, AllGo
<1>10. CASE UNCHANGED vars
  BY <1>10 DEF vars, socketVars, Elsewhere
<1> QED BY <1>1, <1>2, <1>3, <1>4, <1>5, <1>6, <1>7, <1>8, <1>9, <1>10 DEF Next

\* Nothing is published at first.
LEMMA AddressInvInit == Init => AddressInv
BY DEF Init, AddressInv, States, AddressesApart, AddressHasAListener

\* Every step keeps the published address listened on.
LEMMA AddressInvStep == AddressInv /\ [Next]_vars => AddressInv'
<1> SUFFICES ASSUME AddressInv, [Next]_vars PROVE AddressInv'
  OBVIOUS
<1> USE DEF AddressInv, States, AddressesApart, AddressHasAListener, Taken
<1>1. CASE Elsewhere
  BY <1>1 DEF Elsewhere
<1>2. CASE AllGo
  BY <1>2 DEF AllGo
<1>3. CASE \E d \in Drivers : Waits(d)
  BY <1>3 DEF Waits
<1>4. CASE \E d \in Drivers : Goes(d)
  BY <1>4 DEF Goes, AddressWithout
<1>5. ASSUME NEW d \in Drivers, NEW after \in {"gone", "idle"}, Comes(d, after) PROVE AddressInv'
  <2>1. CASE /\ ~Taken(Address[d]) /\ driver' = [driver EXCEPT ![d] = "listening"]
             /\ address' = Address[d]
    BY <1>5, <2>1 DEF Comes
  <2>2. CASE /\ ~Taken(Address[d]) /\ driver' = [driver EXCEPT ![d] = after]
             /\ address' = AddressWithout(d)
    BY <1>5, <2>2 DEF Comes, AddressWithout
  <2>3. CASE driver' = [driver EXCEPT ![d] = after] /\ address' = address
    BY <1>5, <2>3 DEF Comes
  <2> QED BY <1>5, <2>1, <2>2, <2>3 DEF Comes
<1> QED BY <1>1, <1>2, <1>3, <1>4, <1>5, StepsOnAddress

\* FSocketSubsystemSteam::GetListenAddress: what a lobby is pointed at is listened
\* on, for every set of drivers and every way their addresses coincide.
THEOREM PublishedAddressIsListenedOn == Spec => []AddressHasAListener
<1>1. AddressInv => AddressHasAListener
  BY DEF AddressInv
<1> QED BY AddressInvInit, AddressInvStep, <1>1, PTL DEF Spec

\* The end of DestroySocket: only the listener the address belongs to withdraws
\* it, and a listener that failed to come up withdraws nobody's.
THEOREM AddressWithdrawnByItsListener == Spec => AddressGoesWithItsListener
<1>1. AddressInv /\ [Next]_vars =>
        [\A d \in Drivers : (address = Address[d] /\ address' = None) =>
            (down' \/ driver'[d] # "listening")]_vars
  <2> SUFFICES ASSUME AddressInv, [Next]_vars, NEW d \in Drivers, address = Address[d], address' = None
               PROVE  down' \/ driver'[d] # "listening"
    OBVIOUS
  <2>0. address # None
    BY ConstantsAssumption
  <2> USE DEF AddressInv, States, AddressesApart, Taken
  <2>1. CASE Elsewhere
    BY <2>0, <2>1 DEF Elsewhere
  <2>2. CASE AllGo
    BY <2>2 DEF AllGo
  <2>3. CASE \E e \in Drivers : Waits(e)
    BY <2>0, <2>3 DEF Waits
  <2>4. CASE \E e \in Drivers : Goes(e)
    BY <2>0, <2>4 DEF Goes, AddressWithout
  <2>5. CASE \E e \in Drivers : \E after \in {"gone", "idle"} : Comes(e, after)
    BY <2>0, <2>5, ConstantsAssumption DEF Comes, AddressWithout
  <2> QED BY <2>1, <2>2, <2>3, <2>4, <2>5, StepsOnAddress
<1> QED BY AddressInvInit, AddressInvStep, <1>1, PTL DEF Spec, AddressGoesWithItsListener

-----------------------------------------------------------------------------
(* The agreement of handles, records, sockets and Steam while the subsystem *)
(* is up, and what is left of it when it is down.                           *)

Event0  == [what : {"created", "connected", "ended"}, about : Handles, on : Handles]
Record0 == [socket : Sockets \cup {None}, parent : Drivers \cup {None},
            driver : Drivers \cup {None}, marked : BOOLEAN]
Call0   == [is : {"nothing", "listener", "ringing", "routing", "connected", "over"},
            on : Handles \cup {None}]

AddressTyped == address \in {Address[d] : d \in Drivers} \cup {None}

Types ==
  /\ driver \in [Drivers -> States]
  /\ conn \in [Links -> {"unborn", "pending", "open", "closed", "gone"}]
  /\ ofDriver \in [Links -> Drivers \cup {None}]
  /\ peer \subseteq Links /\ owned \subseteq Sockets
  /\ handle \in [Sockets -> Handles \cup {None}]
  /\ record \in [Handles -> Record0 \cup {None}]
  /\ AddressTyped
  /\ logins \subseteq Drivers
  /\ steam \in [Handles -> Call0]
  /\ pipe \in Seq(Event0)
  /\ down \in BOOLEAN

Live(c)     == conn[c] \in {"pending", "open", "closed"}
Answered(h) == \E c \in Links : Live(c) /\ handle[c] = h

\* A driver that listens has its handle, its record and its listener at Steam.
ListenersHold ==
  \A d \in Drivers :
    IF driver[d] = "listening"
    THEN /\ handle[d] \in Handles /\ d \in owned
         /\ record[handle[d]] = Record(d, None, d, FALSE)
         /\ steam[handle[d]] = Stands("listener", None)
    ELSE handle[d] = None

\* A connection the engine has not cleaned up has its handle, its socket and its
\* record; the record is marked only when nothing more will be heard of it.
LinkHolds(c) ==
  /\ c \in peer /\ c \in owned /\ handle[c] \in Handles
  /\ ofDriver[c] \in Drivers /\ driver[ofDriver[c]] = "listening"
  /\ record[handle[c]] # None
  /\ record[handle[c]] = Record(c, ofDriver[c], ofDriver[c], record[handle[c]].marked)
  /\ steam[handle[c]].is \in {"routing", "connected", "over"}
  /\ steam[handle[c]].on = handle[ofDriver[c]]
  /\ record[handle[c]].marked =>
       /\ conn[c] = "closed" /\ steam[handle[c]].is = "over"
       /\ \A i \in 1..Len(pipe) : pipe[i].about # handle[c]

LinkRests(c) == handle[c] = None /\ c \notin peer /\ c \notin owned

LinksHold == \A c \in Links : IF Live(c) THEN LinkHolds(c) ELSE LinkRests(c)

\* A record names the socket that has its handle, or none; one that is not marked
\* names one.
RecordsHold ==
  \A h \in Handles : record[h] # None =>
    /\ record[h].socket # None => handle[record[h].socket] = h
    /\ ~record[h].marked => record[h].socket # None

\* Steam's listeners are ours, its calls came in on one of them, and a caller
\* that rings is still to be dispatched.
CallHolds(h) ==
  /\ steam[h].is = "listener" => \E d \in Drivers : driver[d] = "listening" /\ handle[d] = h
  /\ IF steam[h].is \in {"nothing", "listener"} THEN steam[h].on = None
     ELSE steam[h].on \in Handles /\ steam[steam[h].on].is = "listener"
  /\ steam[h].is = "ringing" =>
       \E i \in 1..Len(pipe) : pipe[i].what = "created" /\ pipe[i].about = h
                               /\ pipe[i].on = steam[h].on
  /\ steam[h].is \in {"routing", "connected"} => Answered(h)

CallsHold == \A h \in Handles : CallHolds(h)

\* The events about a handle begin with its creation, before anybody answers, and
\* end with its end.
EventHolds(i) ==
  /\ steam[pipe[i].about].is # "listener"
  /\ pipe[i].what = "created" =>
       /\ steam[pipe[i].about].is \in {"ringing", "over", "nothing"} /\ ~Answered(pipe[i].about)
       /\ \A j \in 1..Len(pipe) : j < i => pipe[j].about # pipe[i].about
  /\ pipe[i].what = "ended" =>
       /\ steam[pipe[i].about].is \in {"over", "nothing"}
       /\ \A j \in 1..Len(pipe) : j > i => pipe[j].about # pipe[i].about

PipeHolds == \A i \in 1..Len(pipe) : EventHolds(i)

Agree == ListenersHold /\ LinksHold /\ RecordsHold /\ CallsHold /\ PipeHolds

Silent ==
  /\ \A s \in Sockets : handle[s] = None
  /\ \A h \in Handles : steam[h].is \in {"nothing", "over"}

RecordsInv == Types /\ IF down THEN Silent ELSE Agree

\* A record is never mistaken for none.
LEMMA RecordIsSome ==
  \A s \in Sockets \cup {None}, p, d \in Drivers \cup {None}, m \in BOOLEAN :
    Record(s, p, d, m) # None /\ Record(s, p, d, m) \in Record0
BY ConstantsAssumption DEF Record, Record0, Sockets

\* The agreement holds before anything happens.
LEMMA RecordsInvInit == Init => RecordsInv
<1> SUFFICES ASSUME Init PROVE RecordsInv
  OBVIOUS
<1>1. Types
  <2>1. steam \in [Handles -> Call0]
    BY DEF Init, Nothing, Stands, Call0
  <2>2. driver \in [Drivers -> States] /\ conn \in [Links -> {"unborn", "pending", "open", "closed", "gone"}]
    BY DEF Init, States
  <2>3. record \in [Handles -> Record0 \cup {None}]
    BY DEF Init
  <2>6. handle \in [Sockets -> Handles \cup {None}]
    BY DEF Init
  <2>4. AddressTyped
    BY DEF Init, AddressTyped
  <2>5. /\ ofDriver \in [Links -> Drivers \cup {None}] /\ peer \subseteq Links /\ owned \subseteq Sockets
        /\ logins \subseteq Drivers /\ pipe \in Seq(Event0)
    BY DEF Init
  <2>7. down \in BOOLEAN
    BY DEF Init
  <2> QED BY <2>1, <2>2, <2>3, <2>4, <2>5, <2>6, <2>7 DEF Types
<1>2. ListenersHold /\ LinksHold /\ RecordsHold
  BY ConstantsAssumption DEF Init, ListenersHold, LinksHold, LinkRests, RecordsHold, Sockets, Live
<1>3. CallsHold /\ PipeHolds
  BY DEF Init, CallsHold, CallHolds, PipeHolds, Nothing, Stands
<1> QED BY <1>1, <1>2, <1>3 DEF Init, RecordsInv, Agree

\* No two sockets share a handle, and what has one is known to Steam.
LEMMA HandlesApart ==
  ASSUME Types, Agree
  PROVE  /\ \A s, t \in Sockets : handle[s] = handle[t] /\ handle[s] # None => s = t
         /\ \A s \in Sockets : handle[s] # None =>
              /\ handle[s] \in Handles
              /\ record[handle[s]] # None /\ record[handle[s]].socket = s
              /\ steam[handle[s]].is \in {"listener", "routing", "connected", "over"}
         /\ \A h \in Handles : steam[h].is \in {"nothing", "ringing"} =>
              (record[h] # None => record[h].marked)
<1>1. ASSUME NEW s \in Sockets, handle[s] # None
      PROVE  /\ record[handle[s]] # None /\ record[handle[s]].socket = s
             /\ steam[handle[s]].is \in {"listener", "routing", "connected", "over"}
  <2>0. handle[s] \in Handles
    BY <1>1 DEF Types
  <2>1. CASE s \in Drivers
    <3>1. record[handle[s]] = Record(s, None, s, FALSE) /\ steam[handle[s]] = Stands("listener", None)
      BY <1>1, <2>1 DEF Agree, ListenersHold
    <3>2. Record(s, None, s, FALSE) # None
      BY <2>1, RecordIsSome DEF Sockets
    <3> QED BY <3>1, <3>2 DEF Record, Stands
  <2>2. CASE s \in Links
    <3>1. LinkHolds(s)
      BY <1>1, <2>2 DEF Agree, LinksHold, LinkRests
    <3> QED BY <3>1 DEF LinkHolds, Record
  <2> QED BY <2>1, <2>2 DEF Sockets
<1>2. \A s \in Sockets : handle[s] # None => handle[s] \in Handles
  BY DEF Types
<1>3. ASSUME NEW h \in Handles, steam[h].is \in {"nothing", "ringing"}, record[h] # None, ~record[h].marked
      PROVE  FALSE
  <2>1. record[h] \in Record0
    BY <1>3 DEF Types
  <2>2. record[h].socket \in Sockets /\ handle[record[h].socket] = h
    BY <1>3, <2>1 DEF Agree, RecordsHold, Record0
  <2>3. h # None
    BY ConstantsAssumption
  <2> QED BY <1>1, <1>3, <2>2, <2>3
<1> QED BY <1>1, <1>2, <1>3

\* What Steam tells of has a handle.
LEMMA PipeEvents ==
  ASSUME Types
  PROVE  \A i \in 1..Len(pipe) : pipe[i] \in Event0 /\ pipe[i].about \in Handles /\ pipe[i].on \in Handles
<1>1. ASSUME NEW i \in 1..Len(pipe) PROVE pipe[i] \in Event0
  BY DEF Types
<1> QED BY <1>1 DEF Event0

\* A handle that stands for nothing, and that no event is about, is nobody's.
LEMMA UnusedHandle ==
  ASSUME Types, Agree, NEW h \in Handles, Unused(h)
  PROVE  /\ steam[h].is = "nothing" /\ steam[h].on = None
         /\ \A i \in 1..Len(pipe) : pipe[i].about # h
         /\ \A s \in Sockets : handle[s] # h
         /\ record[h] # None => record[h].marked
         /\ \A g \in Handles : steam[g].on # h
<1>1. steam[h].is = "nothing" /\ steam[h].on = None
  BY DEF Unused, Nothing, Stands
<1>2. h # None
  BY ConstantsAssumption
<1>3. \A s \in Sockets : handle[s] # h
  BY <1>1, <1>2, HandlesApart
<1>4. record[h] # None => record[h].marked
  BY <1>1, HandlesApart
<1>5. ASSUME NEW g \in Handles, steam[g].on = h PROVE FALSE
  BY <1>1, <1>2, <1>5 DEF Agree, CallsHold, CallHolds
<1> QED BY <1>1, <1>3, <1>4, <1>5 DEF Unused

\* FSocketSteam::Listen has the handle, and LinkNetDriver the record.
LEMMA ListenSucceedsAgrees ==
  ASSUME Types, Agree, NEW d \in Drivers, driver[d] \in {"new", "waiting"},
         ListenSucceeds(d), UNCHANGED <<linkVars, pipe>>
  PROVE  Agree'
<1>1. PICK h \in Handles :
        /\ Unused(h)
        /\ steam' = [steam EXCEPT ![h] = Stands("listener", None)]
        /\ handle' = [handle EXCEPT ![d] = h]
        /\ record' = Linked(Filed(h, d, None), h, d)
  BY DEF ListenSucceeds
<1>2. /\ steam[h].is = "nothing" /\ steam[h].on = None
      /\ \A i \in 1..Len(pipe) : pipe[i].about # h
      /\ \A s \in Sockets : handle[s] # h
      /\ record[h] # None => record[h].marked
      /\ \A g \in Handles : steam[g].on # h
  BY <1>1, UnusedHandle
<1>3. record' = [record EXCEPT ![h] = Record(d, None, d, FALSE)]
  BY <1>1, <1>2 DEF Linked, Filed, Types, Record
<1>4. Record(d, None, d, FALSE) # None
  BY RecordIsSome DEF Sockets
<1>5. /\ d \in Sockets /\ d \notin Links /\ handle[d] = None /\ h # None
      /\ \A c \in Links : c \in Sockets /\ c # d
      /\ \A e \in Drivers : e \in Sockets
  BY ConstantsAssumption DEF Sockets, Agree, ListenersHold
<1>6. driver' = [driver EXCEPT ![d] = "listening"] /\ owned' = owned \cup {d}
  BY DEF ListenSucceeds
<1>7. /\ driver' \in [Drivers -> States] /\ driver'[d] = "listening"
      /\ \A e \in Drivers : e # d => driver'[e] = driver[e]
  BY <1>6 DEF Types, States
<1>8. /\ \A s \in Sockets : handle'[s] = IF s = d THEN h ELSE handle[s]
      /\ \A g \in Handles : record'[g] = IF g = h THEN Record(d, None, d, FALSE) ELSE record[g]
      /\ \A g \in Handles : steam'[g] = IF g = h THEN Stands("listener", None) ELSE steam[g]
  BY <1>1, <1>3, <1>5 DEF Types
<1>9. ListenersHold'
  <2> SUFFICES ASSUME NEW e \in Drivers
               PROVE  IF driver'[e] = "listening"
                      THEN /\ handle'[e] \in Handles /\ e \in owned'
                           /\ record'[handle'[e]] = Record(e, None, e, FALSE)
                           /\ steam'[handle'[e]] = Stands("listener", None)
                      ELSE handle'[e] = None
    BY DEF ListenersHold
  <2>1. CASE e = d
    BY <2>1, <1>5, <1>6, <1>7, <1>8
  <2>2. CASE e # d
    <3>1. driver'[e] = driver[e] /\ handle'[e] = handle[e] /\ handle[e] # h /\ (e \in owned => e \in owned')
      BY <2>2, <1>2, <1>5, <1>6, <1>7, <1>8
    <3>2. handle[e] \in Handles => record'[handle[e]] = record[handle[e]] /\ steam'[handle[e]] = steam[handle[e]]
      BY <3>1, <1>8
    <3> QED BY <3>1, <3>2 DEF Agree, ListenersHold
  <2> QED BY <2>1, <2>2
<1>10. LinksHold'
  <2> SUFFICES ASSUME NEW c \in Links
               PROVE  IF Live(c)' THEN LinkHolds(c)' ELSE LinkRests(c)'
    BY DEF LinksHold
  <2>1. handle'[c] = handle[c] /\ (c \in owned' <=> c \in owned) /\ handle[c] # h
        /\ UNCHANGED <<conn, ofDriver, peer, pipe>>
    BY <1>2, <1>5, <1>6, <1>8 DEF linkVars
  <2>2. CASE Live(c)
    <3>1. LinkHolds(c)
      BY <2>2 DEF Agree, LinksHold
    <3>2. handle[ofDriver[c]] # h /\ ofDriver[c] # d /\ ofDriver[c] \in Sockets
      BY <3>1, <1>2, <1>5 DEF LinkHolds
    <3>3. /\ driver'[ofDriver[c]] = driver[ofDriver[c]] /\ handle'[ofDriver[c]] = handle[ofDriver[c]]
          /\ record'[handle[c]] = record[handle[c]] /\ steam'[handle[c]] = steam[handle[c]]
      BY <2>1, <3>1, <3>2, <1>7, <1>8 DEF LinkHolds
    <3> QED BY <2>1, <2>2, <3>1, <3>3 DEF LinkHolds, Live
  <2>3. CASE ~Live(c)
    BY <2>1, <2>3 DEF Agree, LinksHold, LinkRests, Live
  <2> QED BY <2>2, <2>3
<1>11. RecordsHold'
  <2> SUFFICES ASSUME NEW g \in Handles, record'[g] # None
               PROVE  /\ record'[g].socket # None => handle'[record'[g].socket] = g
                      /\ ~record'[g].marked => record'[g].socket # None
    BY DEF RecordsHold
  <2>1. CASE g = h
    BY <2>1, <1>5, <1>8, ConstantsAssumption DEF Record
  <2>2. CASE g # h
    <3>1. record'[g] = record[g] /\ record[g] \in Record0
      BY <2>2, <1>8 DEF Types
    <3>2. record[g].socket \in Sockets \cup {None}
      BY <3>1 DEF Record0
    <3>3. g # None
      BY ConstantsAssumption
    <3> QED BY <2>2, <3>1, <3>2, <3>3, <1>5, <1>8 DEF Agree, RecordsHold
  <2> QED BY <2>1, <2>2
<1>12. \A g \in Handles : Answered(g)' <=> Answered(g)
  BY <1>5, <1>8 DEF Answered, Live, linkVars
<1>13. CallsHold'
  <2> SUFFICES ASSUME NEW g \in Handles
               PROVE  CallHolds(g)'
    BY DEF CallsHold
  <2>1. CASE g = h
    BY <2>1, <1>5, <1>7, <1>8 DEF Stands, CallHolds
  <2>2. CASE g # h
    <3>1. steam'[g] = steam[g]
      BY <2>2, <1>8
    <3>2. steam[g].is = "listener" => \E e \in Drivers : driver'[e] = "listening" /\ handle'[e] = g
      BY <1>5, <1>7, <1>8 DEF Agree, CallsHold, CallHolds
    <3>3. steam[g].on \in Handles => steam'[steam[g].on] = steam[steam[g].on]
      BY <1>2, <1>8
    <3> QED BY <3>1, <3>2, <3>3, <1>12 DEF Agree, CallsHold, CallHolds
  <2> QED BY <2>1, <2>2
<1>14. PipeHolds'
  <2>1. \A i \in 1..Len(pipe) : pipe[i].about \in Handles /\ steam'[pipe[i].about] = steam[pipe[i].about]
    BY <1>2, <1>8, PipeEvents
  <2> QED BY <2>1, <1>12 DEF Agree, PipeHolds, EventHolds
<1> QED BY <1>9, <1>10, <1>11, <1>13, <1>14 DEF Agree

\* What the agreement is about.
LEMMA UnchangedAgrees ==
  ASSUME Agree, UNCHANGED <<driver, conn, ofDriver, peer, owned, handle, record, steam, pipe>>
  PROVE  Agree'
<1>1. ListenersHold' /\ RecordsHold'
  BY DEF Agree, ListenersHold, RecordsHold
<1>2. LinksHold'
  BY DEF Agree, LinksHold, LinkHolds, LinkRests, Live
<1>3. CallsHold'
  BY DEF Agree, CallsHold, CallHolds, Answered, Live
<1>4. PipeHolds'
  BY DEF Agree, PipeHolds, EventHolds, Answered, Live
<1> QED BY <1>1, <1>2, <1>3, <1>4 DEF Agree

\* A driver that does not listen, and still does not: it waits for the login, or
\* it could not listen, and the record it had for a moment is marked.
LEMMA NotListeningAgrees ==
  ASSUME Types, Agree, NEW d \in Drivers, driver[d] # "listening",
         NEW after \in States \ {"listening"}, driver' = [driver EXCEPT ![d] = after],
         \A s \in Sockets \ {d} : s \in owned' <=> s \in owned,
         UNCHANGED <<linkVars, handle, steam, pipe>>,
         \/ record' = record
         \/ \E h \in Handles : Unused(h) /\ \A g \in Handles :
              record'[g] = IF g = h THEN Record(None, None, None, TRUE) ELSE record[g]
  PROVE  Agree'
<1>1. /\ driver'[d] # "listening" /\ \A e \in Drivers : e # d => driver'[e] = driver[e]
      /\ handle[d] = None
  BY DEF Types, Agree, ListenersHold
<1>2. \A c \in Links : c \in Sockets /\ c # d /\ (c \in owned' <=> c \in owned)
  BY ConstantsAssumption DEF Sockets
<1>3. \A e \in Drivers : driver'[e] = "listening" =>
        e # d /\ driver[e] = "listening" /\ (e \in owned' <=> e \in owned)
  BY <1>1 DEF Sockets
<1>4. \A s \in Sockets : handle[s] \in Handles => record'[handle[s]] = record[handle[s]]
  BY UnusedHandle DEF Types
<1>5. ListenersHold'
  <2> SUFFICES ASSUME NEW e \in Drivers
               PROVE  IF driver'[e] = "listening"
                      THEN /\ handle'[e] \in Handles /\ e \in owned'
                           /\ record'[handle'[e]] = Record(e, None, e, FALSE)
                           /\ steam'[handle'[e]] = Stands("listener", None)
                      ELSE handle'[e] = None
    BY DEF ListenersHold
  <2>1. e \in Sockets
    BY DEF Sockets
  <2> QED BY <1>1, <1>3, <1>4, <2>1 DEF Agree, ListenersHold
<1>6. LinksHold'
  <2> SUFFICES ASSUME NEW c \in Links
               PROVE  IF Live(c)' THEN LinkHolds(c)' ELSE LinkRests(c)'
    BY DEF LinksHold
  <2>1. UNCHANGED <<conn, ofDriver, peer, pipe>>
    BY DEF linkVars
  <2>2. CASE Live(c)
    <3>1. LinkHolds(c)
      BY <2>2 DEF Agree, LinksHold
    <3>2. driver'[ofDriver[c]] = driver[ofDriver[c]] /\ record'[handle[c]] = record[handle[c]]
      BY <3>1, <1>1, <1>2, <1>4 DEF LinkHolds
    <3> QED BY <2>1, <2>2, <3>1, <3>2, <1>2 DEF LinkHolds, Live
  <2>3. CASE ~Live(c)
    BY <2>1, <2>3, <1>2 DEF Agree, LinksHold, LinkRests, Live
  <2> QED BY <2>2, <2>3
<1>7. RecordsHold'
  <2>1. CASE record' = record
    BY <2>1 DEF Agree, RecordsHold
  <2>2. ASSUME NEW h \in Handles,
               \A g \in Handles : record'[g] = IF g = h THEN Record(None, None, None, TRUE) ELSE record[g]
        PROVE  RecordsHold'
    <3>1. \A g \in Handles : g # h => record'[g] = record[g]
      BY <2>2 DEF Types
    <3>2. record'[h].socket = None /\ record'[h].marked
      BY <2>2 DEF Types, Record
    <3> QED BY <3>1, <3>2 DEF Agree, RecordsHold
  <2> QED BY <2>1, <2>2
<1>8. \A g \in Handles : Answered(g)' <=> Answered(g)
  BY DEF Answered, Live, linkVars
<1>9. CallsHold'
  <2>1. \A e \in Drivers : driver[e] = "listening" => driver'[e] = "listening"
    BY <1>1
  <2> QED BY <2>1, <1>8 DEF Agree, CallsHold, CallHolds
<1>10. PipeHolds'
  BY <1>8, PipeEvents DEF Agree, PipeHolds, EventHolds
<1> QED BY <1>5, <1>6, <1>7, <1>9, <1>10 DEF Agree

\* Listen fails: there was no poll group, or no handle to begin with.
LEMMA ListenFailsAgrees ==
  ASSUME Types, Agree, NEW d \in Drivers, driver[d] \in {"new", "waiting"},
         NEW after \in {"gone", "idle"}, ListenHasNoPollGroup(d, after) \/ ListenRefused(d, after),
         UNCHANGED <<linkVars, pipe>>
  PROVE  Agree'
<1>1. /\ driver' = [driver EXCEPT ![d] = after] /\ UNCHANGED <<handle, steam>>
      /\ \A s \in Sockets \ {d} : s \in owned' <=> s \in owned
  BY DEF ListenHasNoPollGroup, ListenRefused
<1>2. \/ record' = record
      \/ \E h \in Handles : Unused(h) /\ \A g \in Handles :
           record'[g] = IF g = h THEN Record(None, None, None, TRUE) ELSE record[g]
  <2>1. CASE ListenRefused(d, after)
    BY <2>1 DEF ListenRefused
  <2>2. CASE ListenHasNoPollGroup(d, after)
    <3>1. PICK h \in Handles : Unused(h) /\ record' = Released(Filed(h, d, None), {h})
      BY <2>2 DEF ListenHasNoPollGroup
    <3>2. record[h] # None => record[h].marked
      BY <3>1, UnusedHandle
    <3>3. Filed(h, d, None) = [record EXCEPT ![h] = Record(d, None, None, FALSE)]
      BY <3>2 DEF Filed
    <3>4. Record(d, None, None, FALSE) # None
      BY RecordIsSome DEF Sockets
    <3>5. ASSUME NEW g \in Handles
          PROVE  record'[g] = IF g = h THEN Record(None, None, None, TRUE) ELSE record[g]
      <4>1. Filed(h, d, None)[g] = IF g = h THEN Record(d, None, None, FALSE) ELSE record[g]
        BY <3>3 DEF Types
      <4>2. Record(d, None, None, FALSE).parent = None /\ Record(d, None, None, FALSE).driver = None
        BY DEF Record
      <4> QED BY <3>1, <3>4, <4>1, <4>2 DEF Released
    <3> QED BY <3>1, <3>5
  <2> QED BY <2>1, <2>2
<1>3. after \in States \ {"listening"} /\ driver[d] # "listening"
  BY DEF States
<1> QED BY <1>1, <1>2, <1>3, NotListeningAgrees

\* InitListen, the delayed listener and the answer to its login.
LEMMA DriverComesAgrees ==
  ASSUME Types, Agree, NEW d \in Drivers,
         InitListen(d) \/ AddDelayedListener(d) \/ LoginAnswered(d)
  PROVE  Agree'
<1>1. CASE InitListen(d)
  BY <1>1, ListenSucceedsAgrees, ListenFailsAgrees DEF InitListen
<1>2. CASE AddDelayedListener(d)
  <2>1. "waiting" \in States \ {"listening"} /\ driver[d] # "listening"
    BY <1>2 DEF AddDelayedListener, States
  <2>2. /\ driver' = [driver EXCEPT ![d] = "waiting"] /\ UNCHANGED <<linkVars, handle, steam, pipe>>
        /\ \A s \in Sockets \ {d} : s \in owned' <=> s \in owned
        /\ record' = record
    BY <1>2 DEF AddDelayedListener, steamVars
  <2> QED BY <2>1, <2>2, NotListeningAgrees
<1>3. CASE LoginAnswered(d)
  <2>1. CASE driver[d] = "waiting"
    BY <1>3, <2>1, ListenSucceedsAgrees, ListenFailsAgrees DEF LoginAnswered
  <2>2. CASE driver[d] # "waiting"
    <3>1. UNCHANGED <<driver, conn, ofDriver, peer, owned, handle, record, steam, pipe>>
      BY <1>3, <2>2 DEF LoginAnswered, socketVars, linkVars
    <3> QED BY <3>1, UnchangedAgrees
  <2> QED BY <2>1, <2>2
<1> QED BY <1>1, <1>2, <1>3

-----------------------------------------------------------------------------
(* Steam's steps, and the events.                                           *)

\* What one more event makes of the pipe.
LEMMA PipeAppended ==
  ASSUME Types, NEW e, pipe' = Append(pipe, e)
  PROVE  /\ Len(pipe') = Len(pipe) + 1 /\ Len(pipe) \in Nat
         /\ \A i \in 1..Len(pipe) : pipe'[i] = pipe[i] /\ i \in 1..Len(pipe')
         /\ \A i \in 1..Len(pipe') : i \notin 1..Len(pipe) => i = Len(pipe) + 1 /\ pipe'[i] = e
         /\ Len(pipe) + 1 \in 1..Len(pipe') /\ pipe'[Len(pipe) + 1] = e
BY DEF Types

\* What one event less makes of it.
LEMMA PipeShifted ==
  ASSUME Types, pipe # <<>>, pipe' = Tail(pipe)
  PROVE  /\ 1 \in 1..Len(pipe) /\ Head(pipe) = pipe[1] /\ Len(pipe) \in Nat
         /\ \A i \in 1..Len(pipe') : i + 1 \in 1..Len(pipe) /\ pipe'[i] = pipe[i + 1]
         /\ \A i \in 1..Len(pipe) : i # 1 => i - 1 \in 1..Len(pipe') /\ pipe'[i - 1] = pipe[i]
BY DEF Types

\* Steam tells of what it does with a call that is not a listener, and nothing else moves.
LEMMA SteamFrame ==
  ASSUME Types, Agree, UNCHANGED <<driver, conn, ofDriver, peer, owned, handle, record>>,
         \A g \in Handles : steam[g].is = "listener" => steam'[g] = steam[g]
  PROVE  ListenersHold' /\ RecordsHold' /\ \A g \in Handles : Answered(g)' <=> Answered(g)
<1>1. ListenersHold'
  <2>1. Stands("listener", None).is = "listener"
    BY DEF Stands
  <2> QED BY <2>1 DEF Agree, ListenersHold
<1>2. RecordsHold'
  BY DEF Agree, RecordsHold
<1> QED BY <1>1, <1>2 DEF Answered, Live

\* A peer calls one of the listeners.
LEMMA RingAgrees ==
  ASSUME Types, Agree, NEW h \in Handles, Ring(h)
  PROVE  Agree'
<1>1. PICK l \in Handles : steam[l].is = "listener" /\ steam' = [steam EXCEPT ![h] = Stands("ringing", l)]
  BY DEF Ring
<1>2. /\ steam[h].is = "nothing" /\ steam[h].on = None
      /\ \A i \in 1..Len(pipe) : pipe[i].about # h
      /\ \A s \in Sockets : handle[s] # h
      /\ \A g \in Handles : steam[g].on # h
  BY UnusedHandle DEF Ring
<1>3. /\ steam'[h].is = "ringing" /\ steam'[h].on = l
      /\ \A g \in Handles : g # h => steam'[g] = steam[g]
  BY <1>1 DEF Types, Stands
<1>4. PICK e : /\ e = [what |-> "created", about |-> h, on |-> l]
               /\ pipe' = Append(pipe, e)
  BY <1>3 DEF Ring, Post
<1>5. e.what = "created" /\ e.about = h /\ e.on = l
  BY <1>4
<1>6. UNCHANGED <<driver, conn, ofDriver, peer, owned, handle, record>>
  BY DEF Ring, linkVars, socketVars
<1>7. /\ \A i \in 1..Len(pipe) : pipe'[i] = pipe[i] /\ i \in 1..Len(pipe')
      /\ \A i \in 1..Len(pipe') : i \notin 1..Len(pipe) => i = Len(pipe) + 1 /\ pipe'[i] = e
      /\ Len(pipe) + 1 \in 1..Len(pipe') /\ pipe'[Len(pipe) + 1] = e /\ Len(pipe) \in Nat
  BY <1>4, PipeAppended
<1>8. ListenersHold' /\ RecordsHold' /\ \A g \in Handles : Answered(g)' <=> Answered(g)
  BY <1>2, <1>3, <1>6, SteamFrame
<1>9. LinksHold'
  <2> SUFFICES ASSUME NEW c \in Links
               PROVE  IF Live(c)' THEN LinkHolds(c)' ELSE LinkRests(c)'
    BY DEF LinksHold
  <2>1. CASE Live(c)
    <3>1. LinkHolds(c)
      BY <2>1 DEF Agree, LinksHold
    <3>2. handle[c] # h /\ steam'[handle[c]] = steam[handle[c]]
      BY <3>1, <1>2, <1>3 DEF LinkHolds, Sockets
    <3> QED BY <2>1, <3>1, <3>2, <1>5, <1>6, <1>7 DEF LinkHolds, Live
  <2>2. CASE ~Live(c)
    BY <2>2, <1>6 DEF Agree, LinksHold, LinkRests, Live
  <2> QED BY <2>1, <2>2
<1>10. CallsHold'
  <2> SUFFICES ASSUME NEW g \in Handles
               PROVE  CallHolds(g)'
    BY DEF CallsHold
  <2>1. CASE g = h
    BY <2>1, <1>1, <1>2, <1>3, <1>5, <1>7 DEF CallHolds
  <2>2. CASE g # h
    <3>1. steam'[g] = steam[g] /\ steam'[steam[g].on] = steam'[steam[g].on]
      BY <2>2, <1>3
    <3>2. steam[g].is = "ringing" =>
            \E i \in 1..Len(pipe') : pipe'[i].what = "created" /\ pipe'[i].about = g /\ pipe'[i].on = steam[g].on
      BY <1>7 DEF Agree, CallsHold, CallHolds
    <3>3. steam[g].on \in Handles => steam'[steam[g].on] = steam[steam[g].on]
      BY <1>2, <1>3
    <3> QED BY <3>1, <3>2, <3>3, <1>6, <1>8 DEF Agree, CallsHold, CallHolds
  <2> QED BY <2>1, <2>2
<1>11. PipeHolds'
  <2> SUFFICES ASSUME NEW i \in 1..Len(pipe')
               PROVE  EventHolds(i)'
    BY DEF PipeHolds
  <2>1. CASE i \in 1..Len(pipe)
    <3>1. pipe'[i] = pipe[i] /\ pipe[i].about \in Handles /\ pipe[i].about # h
      BY <2>1, <1>2, <1>7, PipeEvents
    <3>2. steam'[pipe[i].about] = steam[pipe[i].about] /\ (Answered(pipe[i].about)' <=> Answered(pipe[i].about))
      BY <3>1, <1>3, <1>8
    <3>3. \A j \in 1..Len(pipe') : j < i => j \in 1..Len(pipe) /\ pipe'[j] = pipe[j]
      BY <2>1, <1>7
    <3>4. \A j \in 1..Len(pipe') : (pipe'[j] = pipe[j] /\ j \in 1..Len(pipe)) \/ pipe'[j].about = h
      BY <1>5, <1>7
    <3>5. EventHolds(i)
      BY <2>1 DEF Agree, PipeHolds
    <3> QED BY <3>1, <3>2, <3>3, <3>4, <3>5 DEF EventHolds
  <2>2. CASE i \notin 1..Len(pipe)
    <3>1. i = Len(pipe) + 1 /\ pipe'[i] = e
      BY <2>2, <1>7
    <3>2. ~Answered(h)
      BY <1>2 DEF Answered, Sockets
    <3>3. \A j \in 1..Len(pipe') : j < i => j \in 1..Len(pipe) /\ pipe'[j] = pipe[j]
      BY <3>1, <1>7
    <3>4. \A j \in 1..Len(pipe') : j < i => pipe'[j].about # h
      BY <3>3, <1>2
    <3> QED BY <3>1, <3>2, <3>4, <1>3, <1>5, <1>8 DEF EventHolds
  <2> QED BY <2>1, <2>2
<1> QED BY <1>8, <1>9, <1>10, <1>11 DEF Agree

LEMMA CallMovesAgrees ==
  ASSUME Types, Agree, NEW h \in Handles, Establish(h) \/ End(h)
  PROVE  Agree'
<1>1. PICK is \in {"connected", "over"}, what \in {"connected", "ended"} :
        /\ steam' = [steam EXCEPT ![h] = Stands(is, steam[h].on)]
        /\ pipe' = Append(pipe, [what |-> what, about |-> h, on |-> steam'[h].on])
        /\ steam[h].is \in {"ringing", "routing", "connected"}
        /\ is = "connected" => steam[h].is = "routing"
        /\ what = "ended" => is = "over"
  <2>1. CASE Establish(h)
    BY <2>1 DEF Establish, Post
  <2>2. CASE End(h)
    BY <2>2 DEF End, Post
  <2> QED BY <2>1, <2>2
<1>2. UNCHANGED <<driver, conn, ofDriver, peer, owned, handle, record>>
  BY DEF Establish, End, linkVars, socketVars
<1>3. /\ steam'[h].is = is /\ steam'[h].on = steam[h].on
      /\ \A g \in Handles : g # h => steam'[g] = steam[g]
  BY <1>1 DEF Types, Stands
<1>4. PICK e : e.what = what /\ e.about = h /\ pipe' = Append(pipe, e)
  BY <1>1
<1>5. /\ \A i \in 1..Len(pipe) : pipe'[i] = pipe[i] /\ i \in 1..Len(pipe')
      /\ \A i \in 1..Len(pipe') : i \notin 1..Len(pipe) => i = Len(pipe) + 1 /\ pipe'[i] = e
      /\ Len(pipe) + 1 \in 1..Len(pipe') /\ pipe'[Len(pipe) + 1] = e /\ Len(pipe) \in Nat
      /\ Len(pipe') = Len(pipe) + 1
  BY <1>4, PipeAppended
<1>6. ListenersHold' /\ RecordsHold' /\ \A g \in Handles : Answered(g)' <=> Answered(g)
  BY <1>1, <1>2, <1>3, SteamFrame
<1>7. LinksHold'
  <2> SUFFICES ASSUME NEW c \in Links
               PROVE  IF Live(c)' THEN LinkHolds(c)' ELSE LinkRests(c)'
    BY DEF LinksHold
  <2>1. CASE Live(c)
    <3>1. LinkHolds(c)
      BY <2>1 DEF Agree, LinksHold
    <3>2. CASE handle[c] = h
      <4>1. ~record[h].marked
        BY <3>1, <3>2, <1>1 DEF LinkHolds
      <4>2. steam'[h].is \in {"connected", "over"} /\ steam'[h].on = handle[ofDriver[c]]
        BY <3>1, <3>2, <1>3 DEF LinkHolds
      <4> QED BY <2>1, <3>1, <3>2, <4>1, <4>2, <1>2 DEF LinkHolds, Live
    <3>3. CASE handle[c] # h
      <4>1. steam'[handle[c]] = steam[handle[c]]
        BY <3>1, <3>3, <1>3 DEF LinkHolds
      <4>2. (\A i \in 1..Len(pipe) : pipe[i].about # handle[c]) =>
              \A i \in 1..Len(pipe') : pipe'[i].about # handle[c]
        BY <3>3, <1>4, <1>5
      <4> QED BY <2>1, <3>1, <4>1, <4>2, <1>2 DEF LinkHolds, Live
    <3> QED BY <3>2, <3>3
  <2>2. CASE ~Live(c)
    BY <2>2, <1>2 DEF Agree, LinksHold, LinkRests, Live
  <2> QED BY <2>1, <2>2
<1>8. CallsHold'
  <2> SUFFICES ASSUME NEW g \in Handles PROVE CallHolds(g)'
    BY DEF CallsHold
  <2>0. CallHolds(g) /\ CallHolds(h)
    BY DEF Agree, CallsHold
  <2>1. \A l \in Handles : steam[l].is = "listener" => steam'[l].is = "listener"
    BY <1>1, <1>3
  <2>2. CASE g = h
    BY <2>0, <2>1, <2>2, <1>1, <1>3, <1>6 DEF CallHolds
  <2>3. CASE g # h
    <3>1. steam'[g] = steam[g]
      BY <2>3, <1>3
    <3>2. steam[g].is = "ringing" =>
            \E i \in 1..Len(pipe') : pipe'[i].what = "created" /\ pipe'[i].about = g /\ pipe'[i].on = steam[g].on
      BY <2>0, <1>5 DEF CallHolds
    <3> QED BY <2>0, <2>1, <3>1, <3>2, <1>2, <1>6 DEF CallHolds
  <2> QED BY <2>2, <2>3
<1>9. PipeHolds'
  <2> SUFFICES ASSUME NEW i \in 1..Len(pipe') PROVE EventHolds(i)'
    BY DEF PipeHolds
  <2>1. CASE i \in 1..Len(pipe)
    <3>1. pipe'[i] = pipe[i] /\ pipe[i].about \in Handles
      BY <2>1, <1>5, PipeEvents
    <3>2. EventHolds(i)
      BY <2>1 DEF Agree, PipeHolds
    <3>3. /\ \A j \in 1..Len(pipe') : j < i => j \in 1..Len(pipe) /\ pipe'[j] = pipe[j]
          /\ \A j \in 1..Len(pipe') : (pipe'[j] = pipe[j] /\ j \in 1..Len(pipe)) \/ pipe'[j].about = h
      BY <2>1, <1>4, <1>5
    <3>4. steam'[pipe[i].about].is # "listener"
      BY <3>1, <3>2, <1>3 DEF EventHolds
    <3>5. CASE pipe[i].what = "created"
      <4>1. pipe[i].about = h => steam[h].is = "ringing"
        BY <3>2, <3>5, <1>1 DEF EventHolds
      <4>2. steam'[pipe[i].about].is \in {"ringing", "over", "nothing"} /\ ~Answered(pipe[i].about)'
        BY <3>1, <3>2, <3>5, <4>1, <1>1, <1>3, <1>6 DEF EventHolds
      <4>3. \A j \in 1..Len(pipe') : j < i => pipe'[j].about # pipe'[i].about
        BY <3>1, <3>2, <3>3, <3>5 DEF EventHolds
      <4> QED BY <3>1, <3>4, <3>5, <4>2, <4>3 DEF EventHolds
    <3>6. CASE pipe[i].what # "created"
      <4>1. pipe[i].what = "ended" => pipe[i].about # h
        BY <3>2, <1>1 DEF EventHolds
      <4>2. pipe[i].what = "ended" => steam'[pipe[i].about].is \in {"over", "nothing"}
        BY <3>1, <3>2, <4>1, <1>3 DEF EventHolds
      <4>3. pipe[i].what = "ended" => \A j \in 1..Len(pipe') : j > i => pipe'[j].about # pipe'[i].about
        BY <3>1, <3>2, <3>3, <4>1 DEF EventHolds
      <4> QED BY <3>1, <3>4, <3>6, <4>2, <4>3 DEF EventHolds
    <3> QED BY <3>5, <3>6
  <2>2. CASE i \notin 1..Len(pipe)
    <3>1. i = Len(pipe) + 1 /\ pipe'[i].what = what /\ pipe'[i].about = h
      BY <2>2, <1>4, <1>5
    <3>2. \A j \in 1..Len(pipe') : ~(j > i)
      BY <3>1, <1>5
    <3> QED BY <3>1, <3>2, <1>1, <1>3 DEF EventHolds
  <2> QED BY <2>1, <2>2
<1> QED BY <1>6, <1>7, <1>8, <1>9 DEF Agree

\* No event is put into the pipe, and what Steam holds is kept or becomes nothing.
LEMMA QuietPipe ==
  ASSUME Types, Agree, pipe' = pipe \/ (pipe # <<>> /\ pipe' = Tail(pipe)),
         \A g \in Handles : steam'[g] = steam[g] \/ steam'[g].is = "nothing",
         \A g \in Handles : Answered(g)' => Answered(g)
  PROVE  /\ PipeHolds'
         /\ \A g \in Handles : (\A i \in 1..Len(pipe) : pipe[i].about # g) =>
                                \A i \in 1..Len(pipe') : pipe'[i].about # g
<1>1. CASE pipe' = pipe
  BY <1>1, PipeEvents DEF Agree, PipeHolds, EventHolds
<1>2. CASE pipe # <<>> /\ pipe' = Tail(pipe)
  <2>1. \A i \in 1..Len(pipe') : i + 1 \in 1..Len(pipe) /\ pipe'[i] = pipe[i + 1]
    BY <1>2, PipeShifted
  <2>2. ASSUME NEW i \in 1..Len(pipe') PROVE EventHolds(i)'
    <3>1. EventHolds(i + 1) /\ pipe'[i] = pipe[i + 1] /\ pipe[i + 1].about \in Handles
      BY <2>1, PipeEvents DEF Agree, PipeHolds
    <3>2. ASSUME NEW j \in 1..Len(pipe')
          PROVE  /\ j + 1 \in 1..Len(pipe) /\ pipe'[j] = pipe[j + 1]
                 /\ (j < i => j + 1 < i + 1) /\ (j > i => j + 1 > i + 1)
      <4>1. j + 1 \in 1..Len(pipe) /\ pipe'[j] = pipe[j + 1]
        BY <2>1
      <4>2. j \in Int /\ i \in Int
        OBVIOUS
      <4>3. (j < i => j + 1 < i + 1) /\ (j > i => j + 1 > i + 1)
        BY <4>2
      <4> QED BY <4>1, <4>3
    <3>3. steam'[pipe'[i].about] = steam[pipe[i + 1].about] \/ steam'[pipe'[i].about].is = "nothing"
      BY <3>1
    <3>4. Answered(pipe[i].about)' => Answered(pipe[i + 1].about)
      BY <3>1
    <3> QED BY <3>1, <3>2, <3>3, <3>4 DEF EventHolds
  <2> QED BY <2>1, <2>2 DEF PipeHolds
<1> QED BY <1>1, <1>2

\* A caller that still rings when its event is dispatched called a listener of ours.
LEMMA RingingIsOurs ==
  ASSUME Types, Agree, pipe # <<>>, Head(pipe).what = "created", steam[Head(pipe).about].is = "ringing"
  PROVE  /\ steam[Head(pipe).about].on = Head(pipe).on
         /\ DriverOf(Head(pipe).on) \in Drivers /\ Answers(DriverOf(Head(pipe).on), Head(pipe).on)
<1>1. 1 \in 1..Len(pipe) /\ Head(pipe) = pipe[1] /\ Len(pipe) \in Nat
  BY DEF Types
<1>2. pipe[1].about \in Handles /\ pipe[1].on \in Handles
  BY <1>1, PipeEvents
<1>3. PICK i \in 1..Len(pipe) :
        pipe[i].what = "created" /\ pipe[i].about = pipe[1].about /\ pipe[i].on = steam[pipe[1].about].on
  BY <1>1, <1>2 DEF Agree, CallsHold, CallHolds
<1>4. i = 1
  <2>1. EventHolds(i)
    BY DEF Agree, PipeHolds
  <2> QED BY <2>1, <1>1, <1>3 DEF EventHolds
<1>5. steam[pipe[1].on].is = "listener"
  BY <1>1, <1>2, <1>3, <1>4 DEF Agree, CallsHold, CallHolds
<1>6. PICK d \in Drivers : driver[d] = "listening" /\ handle[d] = pipe[1].on
  BY <1>2, <1>5 DEF Agree, CallsHold, CallHolds
<1>7. record[pipe[1].on] = Record(d, None, d, FALSE)
  BY <1>6 DEF Agree, ListenersHold
<1>8. Record(d, None, d, FALSE) # None /\ Record(d, None, d, FALSE).driver = d /\ d # None
  BY RecordIsSome, ConstantsAssumption DEF Sockets, Record
<1> QED BY <1>1, <1>3, <1>4, <1>6, <1>7, <1>8 DEF DriverOf, Answers

\* The event of a creation finds nobody connected, and a handle that is not a listener's.
LEMMA CreatedIsUnanswered ==
  ASSUME Types, Agree, pipe # <<>>, Head(pipe).what = "created"
  PROVE  /\ Head(pipe).about \in Handles /\ Head(pipe).on \in Handles
         /\ ~Answered(Head(pipe).about)
         /\ steam[Head(pipe).about].is # "listener"
         /\ \A g \in Handles : steam[g].on # Head(pipe).about
<1>1. 1 \in 1..Len(pipe) /\ Head(pipe) = pipe[1]
  BY DEF Types
<1>2. pipe[1].about \in Handles /\ pipe[1].on \in Handles /\ EventHolds(1)
  BY <1>1, PipeEvents DEF Agree, PipeHolds
<1>3. ~Answered(pipe[1].about) /\ steam[pipe[1].about].is # "listener"
  BY <1>1, <1>2 DEF EventHolds
<1>4. ASSUME NEW g \in Handles, steam[g].on = pipe[1].about PROVE FALSE
  BY <1>2, <1>3, <1>4, ConstantsAssumption DEF Agree, CallsHold, CallHolds
<1> QED BY <1>1, <1>2, <1>3, <1>4

\* The call is not answered, is refused, or was accepted and named nobody.
LEMMA CreatedRefusedAgrees ==
  ASSUME Types, Agree, CreatedUnanswered \/ CreatedRefused \/ CreatedNamesNobody
  PROVE  Agree'
<1> DEFINE h == Head(pipe).about
<1>1. /\ pipe # <<>> /\ Head(pipe).what = "created" /\ pipe' = Tail(pipe)
      /\ UNCHANGED <<driver, conn, ofDriver, peer, owned, handle>>
  BY DEF CreatedUnanswered, CreatedRefused, CreatedNamesNobody, Dispatch, linkVars, socketVars
<1>2. /\ h \in Handles /\ ~Answered(h) /\ steam[h].is # "listener"
      /\ \A g \in Handles : steam[g].on # h
  BY <1>1, CreatedIsUnanswered
<1>3. /\ steam'[h].is # "ringing" /\ (steam'[h] = steam[h] \/ steam'[h] = Nothing)
      /\ \A g \in Handles : g # h => steam'[g] = steam[g]
  <2>1. CASE CreatedUnanswered
    <3>1. steam[h].is # "ringing" /\ steam' = steam
      BY <2>1, <1>1, RingingIsOurs DEF CreatedUnanswered
    <3> QED BY <3>1
  <2>2. CASE CreatedRefused \/ CreatedNamesNobody
    <3>1. steam' = ClosedAtSteam({h})
      BY <2>2 DEF CreatedRefused, CreatedNamesNobody
    <3>2. \A g \in Handles : steam'[g] = IF g = h THEN Nothing ELSE steam[g]
      BY <3>1, <1>2 DEF ClosedAtSteam
    <3> QED BY <3>2, <1>2 DEF Nothing, Stands
  <2> QED BY <2>1, <2>2
<1>4. \A g \in Handles : g # h => record'[g] = record[g]
  BY <1>2 DEF CreatedUnanswered, CreatedRefused, CreatedNamesNobody, socketVars, Released
<1>5. record'[h] = record[h] \/ (record'[h].socket = None /\ record'[h].marked)
  <2>1. CASE CreatedUnanswered \/ CreatedRefused
    BY <2>1 DEF CreatedUnanswered, CreatedRefused, socketVars
  <2>2. CASE CreatedNamesNobody
    BY <2>2, <1>2 DEF CreatedNamesNobody, Released, Record
  <2> QED BY <2>1, <2>2
<1>6. Nothing.is = "nothing" /\ Nothing.on = None
  BY DEF Nothing, Stands
<1>7. \A g \in Handles : Answered(g)' <=> Answered(g)
  BY <1>1 DEF Answered, Live
<1>8. /\ PipeHolds'
      /\ \A g \in Handles : (\A i \in 1..Len(pipe) : pipe[i].about # g) =>
                             \A i \in 1..Len(pipe') : pipe'[i].about # g
  BY <1>1, <1>3, <1>6, <1>7, QuietPipe
<1>9. \A d \in Drivers : driver[d] = "listening" => handle[d] \in Handles /\ handle[d] # h
  <2>1. Stands("listener", None).is = "listener"
    BY DEF Stands
  <2> QED BY <2>1, <1>2 DEF Agree, ListenersHold
<1>10. ListenersHold'
  BY <1>1, <1>3, <1>4, <1>9 DEF Agree, ListenersHold
<1>11. LinksHold'
  <2> SUFFICES ASSUME NEW c \in Links PROVE IF Live(c)' THEN LinkHolds(c)' ELSE LinkRests(c)'
    BY DEF LinksHold
  <2>1. CASE Live(c)
    <3>1. LinkHolds(c)
      BY <2>1 DEF Agree, LinksHold
    <3>2. handle[c] # h /\ handle[c] \in Handles
      BY <2>1, <3>1, <1>2 DEF Answered, LinkHolds
    <3>3. record'[handle[c]] = record[handle[c]] /\ steam'[handle[c]] = steam[handle[c]]
      BY <3>2, <1>3, <1>4
    <3> QED BY <2>1, <3>1, <3>2, <3>3, <1>1, <1>8 DEF LinkHolds, Live
  <2>2. CASE ~Live(c)
    BY <2>2, <1>1 DEF Agree, LinksHold, LinkRests, Live
  <2> QED BY <2>1, <2>2
<1>12. RecordsHold'
  BY <1>1, <1>2, <1>4, <1>5 DEF Agree, RecordsHold
<1>13. CallsHold'
  <2> SUFFICES ASSUME NEW g \in Handles PROVE CallHolds(g)'
    BY DEF CallsHold
  <2>1. CallHolds(g)
    BY DEF Agree, CallsHold
  <2>2. CASE steam'[g].is = "nothing" /\ steam'[g].on = None
    BY <2>2 DEF CallHolds
  <2>3. CASE steam'[g] = steam[g]
    <3>1. steam[g].on \in Handles => steam'[steam[g].on] = steam[steam[g].on]
      BY <1>2, <1>3
    <3>2. steam[g].is = "ringing" =>
            \E i \in 1..Len(pipe') : pipe'[i].what = "created" /\ pipe'[i].about = g /\ pipe'[i].on = steam[g].on
      <4> SUFFICES ASSUME steam[g].is = "ringing"
                   PROVE  \E i \in 1..Len(pipe') : pipe'[i].what = "created" /\ pipe'[i].about = g
                                                   /\ pipe'[i].on = steam[g].on
        OBVIOUS
      <4>1. PICK i \in 1..Len(pipe) : pipe[i].what = "created" /\ pipe[i].about = g /\ pipe[i].on = steam[g].on
        BY <2>1 DEF CallHolds
      <4>2. i # 1
        BY <4>1, <2>3, <1>1, <1>3, PipeShifted
      <4> QED BY <4>1, <4>2, <1>1, PipeShifted
    <3> QED BY <2>1, <2>3, <3>1, <3>2, <1>1, <1>7 DEF CallHolds
  <2> QED BY <2>2, <2>3, <1>3, <1>6
<1> QED BY <1>8, <1>10, <1>11, <1>12, <1>13 DEF Agree

LEMMA AcceptedPipe ==
  ASSUME Types, pipe # <<>>, NEW e, pipe' = Tail(pipe) \/ pipe' = Append(Tail(pipe), e)
  PROVE  /\ \A i \in 1..Len(pipe') : \/ i + 1 \in 1..Len(pipe) /\ pipe'[i] = pipe[i + 1]
                                     \/ i = Len(pipe) /\ pipe'[i] = e
         /\ \A i \in 1..Len(pipe) : i # 1 => i - 1 \in 1..Len(pipe') /\ pipe'[i - 1] = pipe[i]
         /\ Len(pipe) \in Nat /\ 1 \in 1..Len(pipe) /\ Head(pipe) = pipe[1]
<1>1. CASE pipe' = Tail(pipe)
  BY <1>1 DEF Types
<1>2. CASE pipe' = Append(Tail(pipe), e)
  <2>1. Tail(pipe) \in Seq(Event0) /\ Len(Tail(pipe)) = Len(pipe) - 1 /\ Len(pipe) \in Nat /\ Len(pipe) > 0
        /\ \A i \in 1..(Len(pipe) - 1) : Tail(pipe)[i] = pipe[i + 1]
        /\ Head(pipe) = pipe[1]
    BY DEF Types
  <2>2. Len(pipe') = Len(pipe) /\ pipe'[Len(pipe)] = e
        /\ \A i \in 1..(Len(pipe) - 1) : pipe'[i] = Tail(pipe)[i]
    BY <1>2, <2>1
  <2>3. ASSUME NEW i \in 1..Len(pipe')
        PROVE  (i + 1 \in 1..Len(pipe) /\ pipe'[i] = pipe[i + 1]) \/ (i = Len(pipe) /\ pipe'[i] = e)
    <3>1. CASE i = Len(pipe)
      BY <3>1, <2>2
    <3>2. CASE i # Len(pipe)
      <4>1. i \in 1..Len(pipe) /\ Len(pipe) \in Nat
        BY <2>1, <2>2
      <4>2. i \in 1..(Len(pipe) - 1) /\ i + 1 \in 1..Len(pipe)
        BY <4>1, <3>2
      <4> QED BY <4>2, <2>1, <2>2
    <3> QED BY <3>1, <3>2
  <2>4. ASSUME NEW i \in 1..Len(pipe), i # 1
        PROVE  i - 1 \in 1..Len(pipe') /\ pipe'[i - 1] = pipe[i]
    <3>1. i - 1 \in 1..(Len(pipe) - 1) /\ i - 1 \in 1..Len(pipe') /\ (i - 1) + 1 = i
      BY <2>1, <2>2, <2>4
    <3> QED BY <3>1, <2>1, <2>2
  <2>5. Len(pipe) \in Nat /\ 1 \in 1..Len(pipe) /\ Head(pipe) = pipe[1]
    BY <2>1
  <2> QED BY <2>3, <2>4, <2>5
<1> QED BY <1>1, <1>2

\* The call is accepted: the connection takes the handle that rang.
LEMMA CreatedAcceptedAgrees ==
  ASSUME Types, Agree, NEW c \in Links, CreatedAccepted(c)
  PROVE  Agree'
<1>0. PICK h, l, d : h = Head(pipe).about /\ l = Head(pipe).on /\ d = DriverOf(l)
  OBVIOUS
<1>1. /\ pipe # <<>> /\ Head(pipe).what = "created" /\ conn[c] = "unborn"
      /\ steam[h].is = "ringing" /\ Answers(d, l)
      /\ UNCHANGED driver
  BY <1>0 DEF CreatedAccepted
<1>2. /\ h \in Handles /\ l \in Handles /\ ~Answered(h)
      /\ steam[h].on = l /\ d \in Drivers /\ driver[d] = "listening" /\ handle[d] = l
      /\ \A g \in Handles : steam[g].on # h
  BY <1>0, <1>1, CreatedIsUnanswered, RingingIsOurs DEF Answers
<1>3. /\ \A s \in Sockets : handle[s] # h
      /\ record[h] # None => record[h].marked
      /\ h # None
  BY <1>1, <1>2, HandlesApart, ConstantsAssumption
<1>4. PICK is \in {"routing", "connected"}, state \in {"pending", "open"},
            e \in {[what |-> "connected", about |-> h, on |-> l]} :
        /\ e.what = "connected" /\ e.about = h
        /\ steam' = [steam EXCEPT ![h] = Stands(is, l)]
        /\ conn' = [conn EXCEPT ![c] = state]
        /\ pipe' = Tail(pipe) \/ pipe' = Append(Tail(pipe), e)
  <2>1. CASE /\ steam' = [steam EXCEPT ![h] = Stands("routing", l)]
             /\ pipe' = Tail(pipe)
             /\ conn' = [conn EXCEPT ![c] = "pending"]
    BY <2>1
  <2>2. CASE /\ steam' = [steam EXCEPT ![h] = Stands("connected", l)]
             /\ pipe' = Append(Tail(pipe), [what |-> "connected", about |-> h, on |-> l])
             /\ conn' = [conn EXCEPT ![c] = "open"]
    BY <2>2
  <2> QED BY <1>0, <2>1, <2>2 DEF CreatedAccepted
<1>5. /\ c \in Sockets /\ c \notin Drivers /\ \A x \in Links : x \in Sockets
      /\ \A x \in Drivers : x \in Sockets /\ x # c
  BY ConstantsAssumption DEF Sockets
<1>6. /\ steam'[h].is = is /\ steam'[h].on = l
      /\ \A g \in Handles : g # h => steam'[g] = steam[g]
      /\ conn'[c] = state /\ \A x \in Links : x # c => conn'[x] = conn[x]
  BY <1>2, <1>4 DEF Types, Stands
<1>7. /\ ofDriver'[c] = d /\ \A x \in Links : x # c => ofDriver'[x] = ofDriver[x]
      /\ handle'[c] = h /\ \A x \in Sockets : x # c => handle'[x] = handle[x]
      /\ peer' = peer \cup {c} /\ owned' = owned \cup {c}
  BY <1>0, <1>5 DEF CreatedAccepted, Types
<1>8. /\ record'[h] = Record(c, d, d, FALSE)
      /\ \A g \in Handles : g # h => record'[g] = record[g]
  <2>1. record' = Linked(Filed(h, c, d), h, d)
    BY <1>0 DEF CreatedAccepted
  <2>2. Filed(h, c, d) = [record EXCEPT ![h] = Record(c, d, None, FALSE)]
    BY <1>3 DEF Filed
  <2>3. /\ Filed(h, c, d)[h] = Record(c, d, None, FALSE)
        /\ \A g \in Handles : g # h => Filed(h, c, d)[g] = record[g]
        /\ DOMAIN Filed(h, c, d) = Handles
    BY <1>2, <2>2 DEF Types
  <2>4. /\ Record(c, d, None, FALSE).socket = c /\ Record(c, d, None, FALSE).parent = d
        /\ Record(c, d, None, FALSE).marked = FALSE
    BY DEF Record
  <2>5. record' = [Filed(h, c, d) EXCEPT ![h] = Record(c, d, d, FALSE)]
    BY <2>1, <2>3, <2>4 DEF Linked
  <2> QED BY <1>2, <2>3, <2>5
<1>9. Record(c, d, d, FALSE) # None
  BY <1>2, <1>5, RecordIsSome
<1>10. /\ \A i \in 1..Len(pipe') : \/ i + 1 \in 1..Len(pipe) /\ pipe'[i] = pipe[i + 1]
                                   \/ i = Len(pipe) /\ pipe'[i] = e
       /\ \A i \in 1..Len(pipe) : i # 1 => i - 1 \in 1..Len(pipe') /\ pipe'[i - 1] = pipe[i]
       /\ Len(pipe) \in Nat /\ 1 \in 1..Len(pipe) /\ pipe[1].about = h /\ pipe[1].what = "created"
  BY <1>0, <1>1, <1>4, AcceptedPipe
<1>11. /\ \A g \in Handles : g # h => (Answered(g)' <=> Answered(g))
       /\ Answered(h)'
  <2>1. ~Live(c) /\ Live(c)' /\ \A x \in Links : x # c => (Live(x)' <=> Live(x)) /\ handle'[x] = handle[x]
    BY <1>1, <1>5, <1>6, <1>7 DEF Live
  <2> QED BY <2>1, <1>7 DEF Answered
<1>12. ListenersHold'
  <2> SUFFICES ASSUME NEW x \in Drivers
               PROVE  IF driver'[x] = "listening"
                      THEN /\ handle'[x] \in Handles /\ x \in owned'
                           /\ record'[handle'[x]] = Record(x, None, x, FALSE)
                           /\ steam'[handle'[x]] = Stands("listener", None)
                      ELSE handle'[x] = None
    BY DEF ListenersHold
  <2>1. handle'[x] = handle[x] /\ handle[x] # h
    BY <1>3, <1>5, <1>7
  <2> QED BY <2>1, <1>1, <1>6, <1>7, <1>8 DEF Agree, ListenersHold
<1>13. LinksHold'
  <2> SUFFICES ASSUME NEW x \in Links PROVE IF Live(x)' THEN LinkHolds(x)' ELSE LinkRests(x)'
    BY DEF LinksHold
  <2>1. CASE x = c
    <3>1. handle'[d] = l
      BY <1>2, <1>5, <1>7
    <3>2. Live(c)'
      BY <1>6 DEF Live
    <3>3. record'[h].marked = FALSE
      BY <1>8 DEF Record
    <3>4. driver'[d] = "listening" /\ ofDriver'[c] = d /\ handle'[c] = h
      BY <1>1, <1>2, <1>7
    <3>5. record'[handle'[c]] = Record(c, ofDriver'[c], ofDriver'[c], record'[handle'[c]].marked)
      BY <1>8, <3>3, <3>4
    <3> QED BY <2>1, <3>1, <3>2, <3>3, <3>4, <3>5, <1>2, <1>6, <1>7, <1>8, <1>9 DEF LinkHolds
  <2>2. CASE x # c /\ Live(x)
    <3>1. LinkHolds(x)
      BY <2>2 DEF Agree, LinksHold
    <3>2. handle'[x] = handle[x] /\ handle[x] # h /\ handle[x] \in Handles
      BY <2>2, <3>1, <1>3, <1>5, <1>7 DEF LinkHolds
    <3>3. ofDriver'[x] = ofDriver[x] /\ handle'[ofDriver[x]] = handle[ofDriver[x]]
      BY <2>2, <3>1, <1>5, <1>7 DEF LinkHolds
    <3>4. record'[handle[x]] = record[handle[x]] /\ steam'[handle[x]] = steam[handle[x]]
      BY <3>2, <1>6, <1>8
    <3>5. (\A i \in 1..Len(pipe) : pipe[i].about # handle[x]) =>
            \A i \in 1..Len(pipe') : pipe'[i].about # handle[x]
      BY <3>2, <1>4, <1>10
    <3>6. Live(x)' /\ conn'[x] = conn[x] /\ x \in peer' /\ x \in owned'
      BY <2>2, <3>1, <1>6, <1>7 DEF Live, LinkHolds
    <3> QED BY <3>1, <3>2, <3>3, <3>4, <3>5, <3>6, <1>1 DEF LinkHolds
  <2>3. CASE x # c /\ ~Live(x)
    BY <2>3, <1>5, <1>6, <1>7 DEF Agree, LinksHold, LinkRests, Live
  <2> QED BY <2>1, <2>2, <2>3
<1>14. RecordsHold'
  <2> SUFFICES ASSUME NEW g \in Handles, record'[g] # None
               PROVE  /\ record'[g].socket # None => handle'[record'[g].socket] = g
                      /\ ~record'[g].marked => record'[g].socket # None
    BY DEF RecordsHold
  <2>1. CASE g = h
    BY <2>1, <1>7, <1>8, ConstantsAssumption DEF Record
  <2>2. CASE g # h
    <3>1. record'[g] = record[g] /\ record[g] \in Record0
      BY <2>2, <1>8 DEF Types
    <3>2. record[g].socket \in Sockets \cup {None}
      BY <3>1 DEF Record0
    <3>3. record[g].socket = c => FALSE
      BY <2>2, <3>1, <1>1, ConstantsAssumption DEF Agree, RecordsHold, LinksHold, LinkRests, Live
    <3> QED BY <3>1, <3>2, <3>3, <1>7 DEF Agree, RecordsHold
  <2> QED BY <2>1, <2>2
<1>15. CallsHold'
  <2> SUFFICES ASSUME NEW g \in Handles PROVE CallHolds(g)'
    BY DEF CallsHold
  <2>0. CallHolds(g) /\ CallHolds(h)
    BY <1>2 DEF Agree, CallsHold
  <2>1. \A x \in Handles : steam[x].is = "listener" => steam'[x].is = "listener"
    BY <1>1, <1>6
  <2>2. CASE g = h
    BY <2>0, <2>1, <2>2, <1>1, <1>2, <1>6, <1>11 DEF CallHolds
  <2>3. CASE g # h
    <3>1. steam'[g] = steam[g]
      BY <2>3, <1>6
    <3>2. steam[g].is = "ringing" =>
            \E i \in 1..Len(pipe') : pipe'[i].what = "created" /\ pipe'[i].about = g /\ pipe'[i].on = steam[g].on
      <4> SUFFICES ASSUME steam[g].is = "ringing"
                   PROVE  \E i \in 1..Len(pipe') : pipe'[i].what = "created" /\ pipe'[i].about = g
                                                   /\ pipe'[i].on = steam[g].on
        OBVIOUS
      <4>1. PICK i \in 1..Len(pipe) : pipe[i].what = "created" /\ pipe[i].about = g /\ pipe[i].on = steam[g].on
        BY <2>0 DEF CallHolds
      <4> QED BY <4>1, <2>3, <1>10
    <3>3. steam[g].is = "listener" => \E x \in Drivers : driver'[x] = "listening" /\ handle'[x] = g
      BY <2>0, <1>1, <1>5, <1>7 DEF CallHolds
    <3> QED BY <2>0, <2>1, <2>3, <3>1, <3>2, <3>3, <1>11 DEF CallHolds
  <2> QED BY <2>2, <2>3
<1>16. PipeHolds'
  <2> SUFFICES ASSUME NEW i \in 1..Len(pipe') PROVE EventHolds(i)'
    BY DEF PipeHolds
  <2>1. CASE i + 1 \in 1..Len(pipe) /\ pipe'[i] = pipe[i + 1]
    <3>1. EventHolds(i + 1) /\ EventHolds(1) /\ pipe[i + 1].about \in Handles
      BY <2>1, <1>10, PipeEvents DEF Agree, PipeHolds
    <3>2. CASE pipe[i + 1].about = h
      <4>1. 1 < i + 1
        BY <2>1, <1>10
      <4>2. pipe[i + 1].what # "created" /\ pipe[i + 1].what # "ended"
        BY <3>1, <3>2, <4>1, <1>1, <1>10 DEF EventHolds
      <4> QED BY <2>1, <3>2, <4>2, <1>6 DEF EventHolds
    <3>3. CASE pipe[i + 1].about # h
      <4>1. steam'[pipe[i + 1].about] = steam[pipe[i + 1].about]
            /\ (Answered(pipe[i].about)' <=> Answered(pipe[i + 1].about))
        BY <2>1, <3>1, <3>3, <1>6, <1>11
      <4>2. /\ \A j \in 1..Len(pipe') : j < i =>
                 j + 1 \in 1..Len(pipe) /\ j + 1 < i + 1 /\ pipe'[j] = pipe[j + 1]
            /\ \A j \in 1..Len(pipe') : j > i =>
                 pipe'[j].about = h \/ (j + 1 \in 1..Len(pipe) /\ j + 1 > i + 1 /\ pipe'[j] = pipe[j + 1])
        BY <2>1, <1>4, <1>10
      <4> QED BY <2>1, <3>1, <3>3, <4>1, <4>2 DEF EventHolds
    <3> QED BY <3>2, <3>3
  <2>2. CASE pipe'[i] = e
    BY <2>2, <1>4, <1>6 DEF EventHolds
  <2> QED BY <2>1, <2>2, <1>10
<1> QED BY <1>12, <1>13, <1>14, <1>15, <1>16 DEF Agree

\* A connection is opened or closed and keeps what it has; a record may be marked.
LEMMA ConnectionMovesAgrees ==
  ASSUME Types, Agree, UNCHANGED <<driver, ofDriver, peer, owned, handle, steam>>,
         \A c \in Links : Live(c)' <=> Live(c),
         \/ pipe' = pipe
         \/ pipe # <<>> /\ Head(pipe).what # "created" /\ pipe' = Tail(pipe),
         \A g \in Handles :
           \/ record'[g] = record[g]
           \/ record[g] # None /\ record[g].parent # None /\ record'[g] = Marked(record[g]),
         \A c \in Links : Live(c) /\ record'[handle[c]].marked =>
           /\ conn'[c] = "closed" /\ steam[handle[c]].is = "over"
           /\ \A i \in 1..Len(pipe') : pipe'[i].about # handle[c]
  PROVE  Agree'
<1>1. \A g \in Handles : Answered(g)' <=> Answered(g)
  BY DEF Answered
<1>2. PipeHolds'
  BY <1>1, QuietPipe
<1>3. ListenersHold'
  <2> SUFFICES ASSUME NEW d \in Drivers
               PROVE  IF driver'[d] = "listening"
                      THEN /\ handle'[d] \in Handles /\ d \in owned'
                           /\ record'[handle'[d]] = Record(d, None, d, FALSE)
                           /\ steam'[handle'[d]] = Stands("listener", None)
                      ELSE handle'[d] = None
    BY DEF ListenersHold
  <2>1. Record(d, None, d, FALSE).parent = None
    BY DEF Record
  <2> QED BY <2>1 DEF Agree, ListenersHold
<1>4. LinksHold'
  <2> SUFFICES ASSUME NEW c \in Links PROVE IF Live(c)' THEN LinkHolds(c)' ELSE LinkRests(c)'
    BY DEF LinksHold
  <2>1. CASE Live(c)
    <3>1. LinkHolds(c)
      BY <2>1 DEF Agree, LinksHold
    <3>2. record'[handle[c]] # None
          /\ record'[handle[c]] = Record(c, ofDriver[c], ofDriver[c], record'[handle[c]].marked)
      <4>1. CASE record'[handle[c]] = record[handle[c]]
        BY <3>1, <4>1 DEF LinkHolds
      <4>2. CASE record'[handle[c]] = Marked(record[handle[c]])
        <5>0. /\ record[handle[c]].socket = c /\ record[handle[c]].parent = ofDriver[c]
              /\ record[handle[c]].driver = ofDriver[c]
          BY <3>1 DEF LinkHolds, Record
        <5>1. record'[handle[c]] = Record(c, ofDriver[c], ofDriver[c], TRUE)
          BY <4>2, <5>0 DEF Marked
        <5>2. Record(c, ofDriver[c], ofDriver[c], TRUE) # None
          BY <3>1, RecordIsSome DEF LinkHolds, Sockets
        <5> QED BY <5>1, <5>2 DEF Record
      <4> QED BY <3>1, <4>1, <4>2 DEF LinkHolds
    <3> QED BY <2>1, <3>1, <3>2 DEF LinkHolds
  <2>2. CASE ~Live(c)
    BY <2>2 DEF Agree, LinksHold, LinkRests
  <2> QED BY <2>1, <2>2
<1>5. RecordsHold'
  <2> SUFFICES ASSUME NEW g \in Handles, record'[g] # None
               PROVE  /\ record'[g].socket # None => handle'[record'[g].socket] = g
                      /\ ~record'[g].marked => record'[g].socket # None
    BY DEF RecordsHold
  <2>1. CASE record'[g] = record[g]
    BY <2>1 DEF Agree, RecordsHold
  <2>2. CASE record[g] # None /\ record'[g] = Marked(record[g])
    <3>1. record'[g].socket = record[g].socket /\ record'[g].marked
      BY <2>2 DEF Marked, Record
    <3> QED BY <2>2, <3>1 DEF Agree, RecordsHold
  <2> QED BY <2>1, <2>2
<1>6. CallsHold'
  <2> SUFFICES ASSUME NEW g \in Handles PROVE CallHolds(g)'
    BY DEF CallsHold
  <2>1. CallHolds(g)
    BY DEF Agree, CallsHold
  <2>2. steam[g].is = "ringing" =>
          \E i \in 1..Len(pipe') : pipe'[i].what = "created" /\ pipe'[i].about = g /\ pipe'[i].on = steam[g].on
    <3>1. CASE pipe' = pipe
      BY <2>1, <3>1 DEF CallHolds
    <3>2. CASE pipe # <<>> /\ Head(pipe).what # "created" /\ pipe' = Tail(pipe)
      <4> SUFFICES ASSUME steam[g].is = "ringing"
                   PROVE  \E i \in 1..Len(pipe') : pipe'[i].what = "created" /\ pipe'[i].about = g
                                                   /\ pipe'[i].on = steam[g].on
        OBVIOUS
      <4>1. PICK i \in 1..Len(pipe) : pipe[i].what = "created" /\ pipe[i].about = g /\ pipe[i].on = steam[g].on
        BY <2>1 DEF CallHolds
      <4>2. Head(pipe) = pipe[1] /\ \A j \in 1..Len(pipe) : j # 1 => j - 1 \in 1..Len(pipe') /\ pipe'[j - 1] = pipe[j]
        BY <3>2, PipeShifted
      <4>3. i # 1
        BY <3>2, <4>1, <4>2
      <4> QED BY <4>1, <4>2, <4>3
    <3> QED BY <3>1, <3>2
  <2> QED BY <2>1, <2>2, <1>1 DEF CallHolds
<1> QED BY <1>2, <1>3, <1>4, <1>5, <1>6 DEF Agree

\* The engine closes a connection and leaves it for the next tick.
LEMMA CloseLocallyAgrees ==
  ASSUME Types, Agree, NEW c \in Links, CloseLocally(c)
  PROVE  Agree'
<1>1. /\ UNCHANGED <<driver, ofDriver, peer, owned, handle, steam, record, pipe>>
      /\ Live(c) /\ conn'[c] = "closed" /\ \A x \in Links : x # c => conn'[x] = conn[x]
  BY DEF CloseLocally, socketVars, steamVars, Live, Types
<1>2. \A x \in Links : Live(x)' <=> Live(x)
  BY <1>1 DEF Live
<1>3. ASSUME NEW x \in Links, Live(x), record'[handle[x]].marked
      PROVE  /\ conn'[x] = "closed" /\ steam[handle[x]].is = "over"
             /\ \A i \in 1..Len(pipe') : pipe'[i].about # handle[x]
  <2>1. LinkHolds(x)
    BY <1>3 DEF Agree, LinksHold
  <2> QED BY <2>1, <1>1, <1>3 DEF LinkHolds
<1> QED BY <1>1, <1>2, <1>3, ConnectionMovesAgrees

\* The connection an event is about, when there is one, was not marked.
LEMMA FoundIsTheOne ==
  ASSUME Types, Agree, pipe # <<>>, NEW c \in Links, Live(c), handle[c] = Head(pipe).about
  PROVE  /\ c \in Found(Head(pipe).about) /\ ~record[handle[c]].marked /\ LinkHolds(c)
         /\ Found(Head(pipe).about) = {c}
<1>1. LinkHolds(c) /\ 1 \in 1..Len(pipe) /\ Head(pipe) = pipe[1]
  BY DEF Agree, LinksHold, Types
<1>2. ~record[handle[c]].marked
  BY <1>1 DEF LinkHolds
<1>3. record[handle[c]].driver = ofDriver[c]
  BY <1>1 DEF LinkHolds, Record
<1>4. c \in Found(Head(pipe).about)
  BY <1>1, <1>3 DEF LinkHolds, Found, ChildrenOf, DriverOf, Live
<1>5. ASSUME NEW x \in Found(Head(pipe).about) PROVE x = c
  <2>1. x \in Sockets /\ c \in Sockets /\ handle[x] = handle[c] /\ handle[c] \in Handles
    BY <1>1 DEF Found, ChildrenOf, Sockets, LinkHolds
  <2> QED BY <2>1, HandlesApart, ConstantsAssumption
<1> QED BY <1>1, <1>2, <1>4, <1>5

\* OnConnectionUpdated.
LEMMA ConnectedAgrees ==
  ASSUME Types, Agree, Connected
  PROVE  Agree'
<1>1. PICK h : h = Head(pipe).about
  OBVIOUS
<1>2. /\ UNCHANGED <<driver, ofDriver, peer, owned, handle, steam, record>>
      /\ pipe # <<>> /\ Head(pipe).what # "created" /\ pipe' = Tail(pipe)
      /\ \A x \in Links : conn'[x] = IF x \in Found(h) THEN "open" ELSE conn[x]
  BY <1>1 DEF Connected, Dispatch, socketVars, SetState
<1>3. \A x \in Found(h) : x \in Links /\ Live(x) /\ handle[x] = h
  BY DEF Found, ChildrenOf, Live
<1>4. \A x \in Links : Live(x)' <=> Live(x)
  BY <1>2, <1>3 DEF Live
<1>5. ASSUME NEW x \in Links, Live(x), record'[handle[x]].marked
      PROVE  /\ conn'[x] = "closed" /\ steam[handle[x]].is = "over"
             /\ \A i \in 1..Len(pipe') : pipe'[i].about # handle[x]
  <2>1. LinkHolds(x)
    BY <1>5 DEF Agree, LinksHold
  <2>2. x \notin Found(h)
    BY <1>1, <1>2, <1>3, <1>5, FoundIsTheOne
  <2>3. \A i \in 1..Len(pipe') : pipe'[i].about # handle[x]
    BY <2>1, <1>2, <1>5, PipeShifted DEF LinkHolds
  <2> QED BY <2>1, <2>2, <2>3, <1>2, <1>5 DEF LinkHolds
<1> QED BY <1>2, <1>4, <1>5, ConnectionMovesAgrees

\* OnConnectionDisconnected.
LEMMA EndedAgrees ==
  ASSUME Types, Agree, Ended
  PROVE  Agree'
<1>1. PICK h : h = Head(pipe).about
  OBVIOUS
<1>2. /\ UNCHANGED <<driver, ofDriver, peer, owned, handle, steam>>
      /\ pipe # <<>> /\ Head(pipe).what = "ended" /\ pipe' = Tail(pipe)
  BY DEF Ended, Dispatch
<1>3. \A x \in Found(h) : x \in Links /\ Live(x) /\ handle[x] = h
  BY DEF Found, ChildrenOf, Live
<1>4. /\ 1 \in 1..Len(pipe) /\ Head(pipe) = pipe[1] /\ h \in Handles
      /\ steam[h].is \in {"over", "nothing"}
      /\ \A i \in 1..Len(pipe') : pipe'[i].about # h
  <2>1. 1 \in 1..Len(pipe) /\ Head(pipe) = pipe[1]
    BY <1>2 DEF Types
  <2>2. EventHolds(1) /\ h \in Handles
    BY <2>1, <1>1, PipeEvents DEF Agree, PipeHolds
  <2>3. \A i \in 1..Len(pipe') : i + 1 \in 1..Len(pipe) /\ i + 1 > 1 /\ pipe'[i] = pipe[i + 1]
    BY <1>2, PipeShifted
  <2> QED BY <2>1, <2>2, <2>3, <1>1, <1>2 DEF EventHolds
<1>5. /\ \A x \in Links : conn'[x] = conn[x] \/ (x \in Found(h) /\ conn'[x] = "closed")
      /\ \A g \in Handles : g # h => record'[g] = record[g]
      /\ \/ record'[h] = record[h]
         \/ record[h] # None /\ record[h].parent # None /\ record'[h] = Marked(record[h])
            /\ \A x \in Found(h) : conn'[x] = "closed"
  <2>1. CASE record[h] # None /\ record[h].socket \in Links /\ Alive(record[h].socket)
    <3>1. /\ SetState(Found(h), "closed")
          /\ record' = IF record[h].parent # None /\ Alive(record[h].parent)
                       THEN [record EXCEPT ![h] = Marked(record[h])] ELSE record
      BY <1>1, <2>1 DEF Ended
    <3>2. /\ \A g \in Handles : g # h => record'[g] = record[g]
          /\ \/ record'[h] = record[h]
             \/ record[h] # None /\ record[h].parent # None /\ record'[h] = Marked(record[h])
      BY <1>4, <2>1, <3>1 DEF Types
    <3>3. \A x \in Links : conn'[x] = IF x \in Found(h) THEN "closed" ELSE conn[x]
      BY <3>1 DEF SetState
    <3> QED BY <1>3, <3>2, <3>3
  <2>2. CASE ~(record[h] # None /\ record[h].socket \in Links /\ Alive(record[h].socket))
    BY <1>1, <2>2 DEF Ended
  <2> QED BY <2>1, <2>2
<1>6. \A x \in Links : Live(x)' <=> Live(x)
  BY <1>3, <1>5 DEF Live
<1>7. ASSUME NEW x \in Links, Live(x), record'[handle[x]].marked
      PROVE  /\ conn'[x] = "closed" /\ steam[handle[x]].is = "over"
             /\ \A i \in 1..Len(pipe') : pipe'[i].about # handle[x]
  <2>1. LinkHolds(x)
    BY <1>7 DEF Agree, LinksHold
  <2>2. CASE handle[x] = h
    <3>1. x \in Found(h) /\ ~record[h].marked
      BY <1>1, <1>2, <1>7, <2>2, FoundIsTheOne
    <3>2. steam[h].is = "over"
      BY <2>1, <2>2, <1>4 DEF LinkHolds
    <3>3. conn'[x] = "closed"
      BY <3>1, <2>2, <1>5, <1>7
    <3> QED BY <2>2, <3>2, <3>3, <1>4
  <2>3. CASE handle[x] # h
    <3>1. record[handle[x]].marked /\ x \notin Found(h)
      BY <2>1, <2>3, <1>3, <1>5, <1>7 DEF LinkHolds
    <3>2. \A i \in 1..Len(pipe') : pipe'[i].about # handle[x]
      BY <2>1, <3>1, <1>2, PipeShifted DEF LinkHolds
    <3> QED BY <2>1, <3>1, <3>2, <1>5 DEF LinkHolds
  <2> QED BY <2>2, <2>3
<1>8. \A g \in Handles :
        \/ record'[g] = record[g]
        \/ record[g] # None /\ record[g].parent # None /\ record'[g] = Marked(record[g])
  BY <1>5
<1> QED BY <1>2, <1>6, <1>7, <1>8, ConnectionMovesAgrees

-----------------------------------------------------------------------------
(* What goes, and the end.                                                  *)

\* SweepClosedSockets drops no record that a socket is found by.
LEMMA SweepAgrees ==
  ASSUME Types, Agree, SweepClosedSockets
  PROVE  Agree'
<1>1. /\ UNCHANGED <<driver, conn, ofDriver, peer, owned, handle, steam, pipe>>
      /\ \A g \in Handles :
           record'[g] = IF record[g] # None /\ record[g].marked /\ ~Alive(record[g].socket)
                        THEN None ELSE record[g]
  BY DEF SweepClosedSockets, linkVars, steamVars
<1>2. ListenersHold'
  <2> SUFFICES ASSUME NEW d \in Drivers
               PROVE  IF driver'[d] = "listening"
                      THEN /\ handle'[d] \in Handles /\ d \in owned'
                           /\ record'[handle'[d]] = Record(d, None, d, FALSE)
                           /\ steam'[handle'[d]] = Stands("listener", None)
                      ELSE handle'[d] = None
    BY DEF ListenersHold
  <2>1. Record(d, None, d, FALSE).marked = FALSE
    BY DEF Record
  <2> QED BY <2>1, <1>1 DEF Agree, ListenersHold
<1>3. LinksHold'
  <2> SUFFICES ASSUME NEW c \in Links PROVE IF Live(c)' THEN LinkHolds(c)' ELSE LinkRests(c)'
    BY DEF LinksHold
  <2>1. CASE Live(c)
    <3>1. LinkHolds(c)
      BY <2>1 DEF Agree, LinksHold
    <3>2. record[handle[c]].socket = c /\ Alive(c) /\ handle[c] \in Handles
      BY <3>1 DEF LinkHolds, Record, Alive
    <3>3. record'[handle[c]] = record[handle[c]]
      BY <3>2, <1>1
    <3> QED BY <2>1, <3>1, <3>3, <1>1 DEF LinkHolds, Live
  <2>2. CASE ~Live(c)
    BY <2>2, <1>1 DEF Agree, LinksHold, LinkRests, Live
  <2> QED BY <2>1, <2>2
<1>4. RecordsHold'
  BY <1>1 DEF Agree, RecordsHold
<1>5. \A g \in Handles : Answered(g)' <=> Answered(g)
  BY <1>1 DEF Answered, Live
<1>6. CallsHold'
  BY <1>1, <1>5 DEF Agree, CallsHold, CallHolds
<1>7. PipeHolds'
  BY <1>1, <1>5, QuietPipe
<1> QED BY <1>2, <1>3, <1>4, <1>6, <1>7 DEF Agree

\* Sockets go and take their handles with them; a listener takes what came in on it.
LEMMA SocketsGoAgrees ==
  ASSUME Types, Agree, NEW gone \in SUBSET Sockets, UNCHANGED <<ofDriver, pipe>>,
         \A s \in Sockets : handle'[s] = IF s \in gone THEN None ELSE handle[s],
         \A s \in Sockets : s \in owned' <=> s \in owned /\ s \notin gone,
         \A c \in Links : c \in peer' <=> c \in peer /\ c \notin gone,
         \A c \in Links : conn'[c] = IF c \in gone THEN "gone" ELSE conn[c],
         \A c \in Links : Live(c) /\ ofDriver[c] \in gone => c \in gone,
         \A d \in Drivers : driver'[d] = IF d \in gone THEN "gone" ELSE driver[d],
         steam' = ClosedAtSteam(HandlesOf(gone)),
         \A g \in Handles :
           \/ record'[g] = record[g] /\ g \notin HandlesOf(gone)
           \/ /\ record'[g].marked /\ record'[g].socket = None
              /\ \A s \in Sockets \ gone : handle[s] # g
  PROVE  Agree'
<1>1. \A s \in Sockets : s \in gone /\ handle[s] # None => handle[s] \in HandlesOf(gone)
  BY DEF HandlesOf
<1>2. \A s \in Sockets : s \notin gone => handle[s] \notin HandlesOf(gone)
  BY HandlesApart DEF HandlesOf
<1>3. None \notin HandlesOf(gone)
  BY DEF HandlesOf
<1>4. Nothing.is = "nothing" /\ Nothing.on = None
  BY DEF Nothing, Stands
<1>5. \A g \in Handles : steam'[g] = IF g \in HandlesOf(gone) \/ steam[g].on \in HandlesOf(gone)
                                     THEN Nothing ELSE steam[g]
  BY DEF ClosedAtSteam
<1>6. /\ \A c \in Links : c \in Sockets /\ c \notin Drivers
      /\ \A d \in Drivers : d \in Sockets
  BY ConstantsAssumption DEF Sockets
<1>7. \A c \in Links : Live(c)' <=> Live(c) /\ c \notin gone
  BY DEF Live
<1>8. \A g \in Handles : Answered(g)' => Answered(g)
  BY <1>6, <1>7 DEF Answered
<1>9. PipeHolds'
  BY <1>4, <1>5, <1>8, QuietPipe
<1>10. ListenersHold'
  <2> SUFFICES ASSUME NEW d \in Drivers
               PROVE  IF driver'[d] = "listening"
                      THEN /\ handle'[d] \in Handles /\ d \in owned'
                           /\ record'[handle'[d]] = Record(d, None, d, FALSE)
                           /\ steam'[handle'[d]] = Stands("listener", None)
                      ELSE handle'[d] = None
    BY DEF ListenersHold
  <2>1. CASE d \in gone
    BY <2>1, <1>6
  <2>2. CASE d \notin gone
    <3>1. handle'[d] = handle[d] /\ driver'[d] = driver[d] /\ handle[d] \notin HandlesOf(gone)
          /\ (d \in owned' <=> d \in owned)
      BY <2>2, <1>2, <1>6
    <3>2. CASE driver[d] # "listening"
      BY <3>1, <3>2 DEF Agree, ListenersHold
    <3>3. CASE driver[d] = "listening"
      <4>1. /\ handle[d] \in Handles /\ d \in owned
            /\ record[handle[d]] = Record(d, None, d, FALSE)
            /\ steam[handle[d]] = Stands("listener", None)
        BY <3>3 DEF Agree, ListenersHold
      <4>2. record'[handle[d]] = record[handle[d]]
        BY <2>2, <4>1, <1>6
      <4>3. Stands("listener", None).on = None
        BY DEF Stands
      <4>4. steam'[handle[d]] = steam[handle[d]]
        BY <3>1, <4>1, <4>3, <1>3, <1>5
      <4> QED BY <3>1, <3>3, <4>1, <4>2, <4>4
    <3> QED BY <3>2, <3>3
  <2> QED BY <2>1, <2>2
<1>11. LinksHold'
  <2> SUFFICES ASSUME NEW c \in Links PROVE IF Live(c)' THEN LinkHolds(c)' ELSE LinkRests(c)'
    BY DEF LinksHold
  <2>1. CASE c \in gone
    BY <2>1, <1>6, <1>7 DEF LinkRests
  <2>2. CASE c \notin gone /\ ~Live(c)
    BY <2>2, <1>6, <1>7 DEF Agree, LinksHold, LinkRests
  <2>3. CASE c \notin gone /\ Live(c)
    <3>1. LinkHolds(c) /\ ofDriver[c] \in Drivers /\ ofDriver[c] \notin gone /\ Live(c)'
      BY <2>3, <1>7 DEF Agree, LinksHold, LinkHolds
    <3>2. /\ handle'[c] = handle[c] /\ handle[c] \notin HandlesOf(gone) /\ handle[c] \in Handles
          /\ handle'[ofDriver[c]] = handle[ofDriver[c]] /\ handle[ofDriver[c]] \notin HandlesOf(gone)
      BY <2>3, <3>1, <1>2, <1>6 DEF LinkHolds
    <3>3. record'[handle[c]] = record[handle[c]]
      BY <2>3, <3>2, <1>6
    <3>4. steam'[handle[c]] = steam[handle[c]]
      BY <3>1, <3>2, <1>5 DEF LinkHolds
    <3>5. c \in peer' /\ c \in owned' /\ conn'[c] = conn[c] /\ driver'[ofDriver[c]] = driver[ofDriver[c]]
      BY <2>3, <3>1, <1>6 DEF LinkHolds
    <3> QED BY <3>1, <3>2, <3>3, <3>4, <3>5 DEF LinkHolds
  <2> QED BY <2>1, <2>2, <2>3
<1>12. RecordsHold'
  <2> SUFFICES ASSUME NEW g \in Handles, record'[g] # None
               PROVE  /\ record'[g].socket # None => handle'[record'[g].socket] = g
                      /\ ~record'[g].marked => record'[g].socket # None
    BY DEF RecordsHold
  <2>1. CASE record'[g] = record[g] /\ g \notin HandlesOf(gone)
    <3>1. record[g].socket \in Sockets \cup {None}
      BY <2>1 DEF Types, Record0
    <3>2. record[g].socket # None => handle[record[g].socket] = g
      BY <2>1 DEF Agree, RecordsHold
    <3>3. record[g].socket # None => record[g].socket \notin gone
      BY <2>1, <3>1, <3>2, <1>1, ConstantsAssumption
    <3> QED BY <2>1, <3>1, <3>2, <3>3 DEF Agree, RecordsHold
  <2>2. CASE record'[g].marked /\ record'[g].socket = None
    BY <2>2
  <2> QED BY <2>1, <2>2
<1>13. CallsHold'
  <2> SUFFICES ASSUME NEW g \in Handles PROVE CallHolds(g)'
    BY DEF CallsHold
  <2>1. CallHolds(g)
    BY DEF Agree, CallsHold
  <2>2. CASE steam'[g] = Nothing
    BY <2>2, <1>4 DEF CallHolds
  <2>3. CASE steam'[g] = steam[g] /\ g \notin HandlesOf(gone) /\ steam[g].on \notin HandlesOf(gone)
    <3>1. steam[g].is = "listener" => \E d \in Drivers : driver'[d] = "listening" /\ handle'[d] = g
      <4> SUFFICES ASSUME steam[g].is = "listener"
                   PROVE  \E d \in Drivers : driver'[d] = "listening" /\ handle'[d] = g
        OBVIOUS
      <4>1. PICK d \in Drivers : driver[d] = "listening" /\ handle[d] = g
        BY <2>1 DEF CallHolds
      <4>2. d \notin gone /\ d \in Sockets
        BY <4>1, <2>3, <1>1, <1>6, ConstantsAssumption
      <4> QED BY <4>1, <4>2
    <3>2. steam[g].on \in Handles /\ steam[steam[g].on].is = "listener" =>
            steam'[steam[g].on].is = "listener"
      <4> SUFFICES ASSUME steam[g].on \in Handles, steam[steam[g].on].is = "listener"
                   PROVE  steam'[steam[g].on] = steam[steam[g].on]
        OBVIOUS
      <4>1. steam[steam[g].on].on = None
        BY DEF Agree, CallsHold, CallHolds
      <4> QED BY <4>1, <2>3, <1>3, <1>5
    <3>3. Answered(g) => Answered(g)'
      <4> SUFFICES ASSUME Answered(g) PROVE Answered(g)'
        OBVIOUS
      <4>1. PICK c \in Links : Live(c) /\ handle[c] = g
        BY DEF Answered
      <4>2. c \notin gone /\ c \in Sockets
        BY <4>1, <2>3, <1>1, <1>6, ConstantsAssumption
      <4>3. Live(c)' /\ handle'[c] = g
        BY <4>1, <4>2, <1>7
      <4> QED BY <4>3 DEF Answered
    <3> QED BY <2>1, <2>3, <3>1, <3>2, <3>3 DEF CallHolds
  <2> QED BY <2>2, <2>3, <1>5
<1> QED BY <1>9, <1>10, <1>11, <1>12, <1>13 DEF Agree

\* UNetConnectionSteam::CleanUp.
LEMMA CleanUpAgrees ==
  ASSUME Types, Agree, ~down, NEW c \in Links, CleanUp(c)
  PROVE  Agree'
<1>1. Live(c) /\ LinkHolds(c)
  BY DEF CleanUp, Live, Agree, LinksHold
<1>2. /\ handle[c] \in Handles /\ record[handle[c]] # None /\ record[handle[c]].driver \in Drivers
      /\ record[handle[c]].parent \in Drivers /\ c \in peer
      /\ handle[c] # None /\ c \in Sockets /\ c \notin Drivers
  BY <1>1, ConstantsAssumption DEF LinkHolds, Record, Sockets
<1>3. Unlinked({c}) = {c} /\ HandlesOf({c}) = {handle[c]}
  BY <1>2, ConstantsAssumption DEF Unlinked, HandlesOf
<1>4. /\ conn' = [conn EXCEPT ![c] = "gone"] /\ record' = Released(record, {handle[c]})
      /\ peer' = peer \ {c} /\ steam' = ClosedAtSteam({handle[c]})
      /\ handle' = [handle EXCEPT ![c] = None] /\ owned' = owned \ {c}
      /\ UNCHANGED <<driver, ofDriver, pipe>>
  BY <1>2, <1>3 DEF CleanUp
<1>5. /\ \A s \in Sockets : handle'[s] = IF s \in {c} THEN None ELSE handle[s]
      /\ \A x \in Links : conn'[x] = IF x \in {c} THEN "gone" ELSE conn[x]
      /\ \A d \in Drivers : driver'[d] = IF d \in {c} THEN "gone" ELSE driver[d]
      /\ \A x \in Links : Live(x) /\ ofDriver[x] \in {c} => x \in {c}
  BY <1>2, <1>4 DEF Types, Agree, LinksHold, LinkHolds
<1>6. ASSUME NEW g \in Handles
      PROVE  \/ record'[g] = record[g] /\ g \notin HandlesOf({c})
             \/ /\ record'[g].marked /\ record'[g].socket = None
                /\ \A s \in Sockets \ {c} : handle[s] # g
  <2>1. CASE g # handle[c]
    BY <2>1, <1>3, <1>4 DEF Released
  <2>2. CASE g = handle[c]
    <3>1. record'[g].marked /\ record'[g].socket = None
      BY <2>2, <1>2, <1>4 DEF Released, Record
    <3> QED BY <2>2, <3>1, <1>2, HandlesApart
  <2> QED BY <2>1, <2>2
<1>7. {c} \in SUBSET Sockets
  BY <1>2
<1> QED BY <1>3, <1>4, <1>5, <1>6, <1>7, SocketsGoAgrees

\* UNetDriverSteam::Shutdown takes every connection of the driver.
LEMMA ShutdownAgrees ==
  ASSUME Types, Agree, NEW d \in Drivers, Shutdown(d)
  PROVE  Agree'
<1>1. PICK ends : ends = ChildrenOf(d)
  OBVIOUS
<1>2. PICK gone : gone = ends \cup {d}
  OBVIOUS
<1>3. /\ \A c \in Links : c \in ends <=> Live(c) /\ ofDriver[c] = d
      /\ ends \subseteq Links /\ ends \subseteq peer /\ d \notin Links
      /\ \A c \in Links : c \in Sockets /\ c \notin Drivers /\ (c \in gone <=> c \in ends)
      /\ \A e \in Drivers : e \in gone <=> e = d
      /\ gone \in SUBSET Sockets
  BY <1>1, <1>2, ConstantsAssumption DEF ChildrenOf, Live, Agree, LinksHold, LinkHolds, Sockets
<1>4. Unlinked(ends) = ends
  <2>1. ASSUME NEW c \in ends, handle[c] # None
        PROVE  record[handle[c]] # None /\ record[handle[c]].driver # None
    <3>1. LinkHolds(c)
      BY <1>3 DEF Agree, LinksHold
    <3>2. record[handle[c]].driver = ofDriver[c] /\ ofDriver[c] # None
      BY <3>1, ConstantsAssumption DEF LinkHolds, Record
    <3> QED BY <3>1, <3>2, ConstantsAssumption DEF LinkHolds
  <2> QED BY <2>1 DEF Unlinked
<1>5. ChildrenOf(d) \cap peer = ends
  BY <1>1, <1>3
<1>6. /\ driver' = [driver EXCEPT ![d] = "gone"]
      /\ \A c \in Links : conn'[c] = IF c \in ends THEN "gone" ELSE conn[c]
      /\ peer' = peer \ ends
      /\ record' = Orphaned(Released(record, HandlesOf(gone)), d)
      /\ steam' = ClosedAtSteam(HandlesOf(gone))
      /\ handle' = [s \in Sockets |-> IF s \in gone THEN None ELSE handle[s]]
      /\ owned' = owned \ gone
      /\ UNCHANGED <<ofDriver, pipe>>
  BY <1>1, <1>2, <1>4, <1>5 DEF Shutdown, SetState
<1>7. /\ \A e \in Drivers : driver'[e] = IF e \in gone THEN "gone" ELSE driver[e]
      /\ \A s \in Sockets : handle'[s] = IF s \in gone THEN None ELSE handle[s]
      /\ \A s \in Sockets : s \in owned' <=> s \in owned /\ s \notin gone
      /\ \A c \in Links : c \in peer' <=> c \in peer /\ c \notin gone
      /\ \A c \in Links : conn'[c] = IF c \in gone THEN "gone" ELSE conn[c]
  BY <1>3, <1>6 DEF Types
<1>8. \A c \in Links : Live(c) /\ ofDriver[c] \in gone => c \in gone
  BY <1>3 DEF Agree, LinksHold, LinkHolds
<1>9. ASSUME NEW g \in Handles
      PROVE  \/ record'[g] = record[g] /\ g \notin HandlesOf(gone)
             \/ /\ record'[g].marked /\ record'[g].socket = None
                /\ \A s \in Sockets \ gone : handle[s] # g
  <2> DEFINE r == Released(record, HandlesOf(gone))
  <2>0. record'[g] = IF r[g] # None /\ r[g].parent = d THEN Record(r[g].socket, None, None, TRUE) ELSE r[g]
    BY <1>6 DEF Orphaned
  <2>1. CASE g \in HandlesOf(gone)
    <3>1. PICK s \in gone : handle[s] = g /\ g # None
      BY <2>1 DEF HandlesOf
    <3>2. record[g] # None /\ s \in Sockets
      BY <3>1, <1>3, HandlesApart
    <3>3. r[g].socket = None /\ r[g].marked
      BY <2>1, <3>2 DEF Released, Record
    <3>4. record'[g].marked /\ record'[g].socket = None
      BY <2>0, <3>3 DEF Record
    <3>5. \A t \in Sockets \ gone : handle[t] # g
      BY <3>1, <3>2, HandlesApart
    <3> QED BY <3>4, <3>5
  <2>2. CASE g \notin HandlesOf(gone)
    <3>1. r[g] = record[g]
      BY <2>2 DEF Released
    <3>2. CASE record[g] # None /\ record[g].parent = d
      <4>1. ASSUME NEW s \in Sockets, handle[s] = g PROVE FALSE
        <5>1. g # None
          BY ConstantsAssumption
        <5>2. CASE s \in Drivers
          <6>1. record[g] = Record(s, None, s, FALSE)
            BY <4>1, <5>1, <5>2 DEF Agree, ListenersHold
          <6> QED BY <3>2, <6>1, ConstantsAssumption DEF Record
        <5>3. CASE s \in Links
          <6>1. Live(s) /\ LinkHolds(s)
            BY <4>1, <5>1, <5>3 DEF Agree, LinksHold, LinkRests
          <6>2. ofDriver[s] = d
            BY <4>1, <3>2, <6>1 DEF LinkHolds, Record
          <6>3. s \in gone
            BY <5>3, <6>1, <6>2, <1>3
          <6> QED BY <2>2, <4>1, <5>1, <6>3 DEF HandlesOf
        <5> QED BY <5>2, <5>3 DEF Sockets
      <4>2. record[g].socket = None
        <5>1. record[g].socket \in Sockets \cup {None}
          BY <3>2 DEF Types, Record0
        <5> QED BY <3>2, <4>1, <5>1 DEF Agree, RecordsHold
      <4>3. record'[g].marked /\ record'[g].socket = None
        BY <2>0, <3>1, <3>2, <4>2 DEF Record
      <4> QED BY <4>1, <4>3
    <3>3. CASE ~(record[g] # None /\ record[g].parent = d)
      BY <2>0, <2>2, <3>1, <3>3
    <3> QED BY <3>2, <3>3
  <2> QED BY <2>1, <2>2
<1> QED BY <1>3, <1>6, <1>7, <1>8, <1>9, SocketsGoAgrees

\* FSocketSubsystemSteam::Shutdown leaves no handle and no call behind.
LEMMA SubsystemShutdownSilences ==
  ASSUME Types, Agree, SubsystemShutdown
  PROVE  Silent'
<1>1. /\ steam' = ClosedAtSteam(HandlesOf(owned))
      /\ handle' = [s \in Sockets |-> IF s \in owned THEN None ELSE handle[s]]
  BY DEF SubsystemShutdown
<1>2. \A s \in Sockets : s \notin owned => handle[s] = None
  BY DEF Agree, ListenersHold, LinksHold, LinkHolds, LinkRests, Sockets
<1>3. ASSUME NEW g \in Handles, steam[g].is = "listener" PROVE g \in HandlesOf(owned)
  <2>1. PICK d \in Drivers : driver[d] = "listening" /\ handle[d] = g
    BY <1>3 DEF Agree, CallsHold, CallHolds
  <2>2. d \in owned
    BY <2>1 DEF Agree, ListenersHold
  <2> QED BY <2>1, <2>2, ConstantsAssumption DEF HandlesOf
<1>4. ASSUME NEW g \in Handles PROVE steam'[g].is = "nothing"
  <2>1. steam'[g] = IF g \in HandlesOf(owned) \/ steam[g].on \in HandlesOf(owned) THEN Nothing ELSE steam[g]
    BY <1>1 DEF ClosedAtSteam
  <2>2. steam[g].is = "nothing" \/ g \in HandlesOf(owned) \/ steam[g].on \in HandlesOf(owned)
    BY <1>3 DEF Agree, CallsHold, CallHolds
  <2> QED BY <2>1, <2>2 DEF Nothing, Stands
<1> QED BY <1>1, <1>2, <1>4 DEF Silent

\* Once it is down it stays silent.
LEMMA SilentStays ==
  ASSUME Types, Silent, down, [Next]_vars
  PROVE  down' /\ Silent'
<1>1. \A h \in Handles : ~Establish(h) /\ ~End(h)
  BY DEF Establish, End, Silent
<1>2. down' /\ UNCHANGED <<handle, steam>>
  <2>1. CASE SteamStep
    BY <1>1, <2>1 DEF SteamStep, Ring
  <2>2. CASE \E c \in Links : CloseLocally(c) \/ CleanUp(c)
    BY <2>2 DEF CloseLocally, CleanUp, socketVars, steamVars
  <2>3. CASE UNCHANGED vars
    BY <2>3 DEF vars, socketVars, steamVars
  <2>4. CASE Event
    BY <2>4 DEF Event, CreatedUnanswered, CreatedRefused, CreatedNamesNobody, CreatedAccepted,
                Connected, Ended, Dispatch
  <2>5. CASE \E d \in Drivers : InitListen(d) \/ AddDelayedListener(d) \/ LoginAnswered(d) \/ Shutdown(d)
    BY <2>5 DEF InitListen, AddDelayedListener, LoginAnswered, Shutdown
  <2> QED BY <2>1, <2>2, <2>3, <2>4, <2>5 DEF Next, SweepClosedSockets, SubsystemShutdown
<1> QED BY <1>2 DEF Silent

\* While it is up every step but the shutdown keeps the agreement.
LEMMA AgreementStays ==
  ASSUME Types, Agree, ~down, [Next]_vars
  PROVE  IF down' THEN Silent' ELSE Agree'
<1>1. CASE SubsystemShutdown
  BY <1>1, SubsystemShutdownSilences DEF SubsystemShutdown
<1>2. CASE \E d \in Drivers : InitListen(d) \/ AddDelayedListener(d) \/ LoginAnswered(d) \/ Shutdown(d)
  <2>1. ~down'
    BY <1>2 DEF InitListen, AddDelayedListener, LoginAnswered, Shutdown
  <2> QED BY <1>2, <2>1, DriverComesAgrees, ShutdownAgrees
<1>3. CASE SteamStep
  <2>1. ~down'
    BY <1>3 DEF SteamStep, Ring, Establish, End
  <2> QED BY <1>3, <2>1, RingAgrees, CallMovesAgrees DEF SteamStep
<1>4. CASE Event
  <2>1. ~down'
    BY <1>4 DEF Event, CreatedUnanswered, CreatedRefused, CreatedNamesNobody, CreatedAccepted,
                Connected, Ended, Dispatch
  <2> QED BY <1>4, <2>1, CreatedRefusedAgrees, CreatedAcceptedAgrees, ConnectedAgrees, EndedAgrees DEF Event
<1>5. CASE \E c \in Links : CloseLocally(c) \/ CleanUp(c)
  <2>1. ~down'
    BY <1>5 DEF CloseLocally, CleanUp
  <2> QED BY <1>5, <2>1, CloseLocallyAgrees, CleanUpAgrees
<1>6. CASE SweepClosedSockets
  BY <1>6, SweepAgrees DEF SweepClosedSockets
<1>7. CASE UNCHANGED vars
  <2>1. UNCHANGED <<driver, conn, ofDriver, peer, owned, handle, record, steam, pipe, down>>
    BY <1>7 DEF vars, linkVars, socketVars, steamVars
  <2> QED BY <2>1, UnchangedAgrees
<1> QED BY <1>1, <1>2, <1>3, <1>4, <1>5, <1>6, <1>7 DEF Next

-----------------------------------------------------------------------------
(* Types.                                                                   *)

\* The variables that hold no record, call or event.
LEMMA PlainTypes ==
  ASSUME Types, [Next]_vars
  PROVE  /\ driver' \in [Drivers -> States]
         /\ conn' \in [Links -> {"unborn", "pending", "open", "closed", "gone"}]
         /\ peer' \subseteq Links /\ owned' \subseteq Sockets
         /\ logins' \subseteq Drivers /\ down' \in BOOLEAN
<1> USE DEF Types
<1>1. CASE \E d \in Drivers : InitListen(d) \/ AddDelayedListener(d) \/ LoginAnswered(d)
  BY <1>1 DEF InitListen, AddDelayedListener, LoginAnswered, ListenSucceeds, ListenHasNoPollGroup,
              ListenRefused, States, Sockets, linkVars, socketVars
<1>2. CASE \E d \in Drivers : Shutdown(d)
  BY <1>2 DEF Shutdown, SetState, States
<1>3. CASE SteamStep
  BY <1>3 DEF SteamStep, Ring, Establish, End, linkVars, socketVars
<1>4. CASE Event
  BY <1>4 DEF Event, CreatedUnanswered, CreatedRefused, CreatedNamesNobody, CreatedAccepted,
              Connected, Ended, Dispatch, SetState, Sockets, linkVars, socketVars
<1>5. CASE \E c \in Links : CloseLocally(c) \/ CleanUp(c)
  BY <1>5 DEF CloseLocally, CleanUp, socketVars
<1>6. CASE SweepClosedSockets
  BY <1>6 DEF SweepClosedSockets, linkVars
<1>7. CASE SubsystemShutdown
  BY <1>7 DEF SubsystemShutdown, States, linkVars
<1>8. CASE UNCHANGED vars
  BY <1>8 DEF vars, linkVars, socketVars
<1> QED BY <1>1, <1>2, <1>3, <1>4, <1>5, <1>6, <1>7, <1>8 DEF Next

LEMMA CallsTyped ==
  ASSUME Types
  PROVE  /\ \A is \in {"nothing", "listener", "ringing", "routing", "connected", "over"},
              on \in Handles \cup {None} : Stands(is, on) \in Call0
         /\ \A hs : ClosedAtSteam(hs) \in [Handles -> Call0]
         /\ \A h \in Handles : steam[h].on \in Handles \cup {None}
BY DEF Types, Stands, Call0, ClosedAtSteam, Nothing

\* What a handle stands for.
LEMMA SteamTypes ==
  ASSUME Types, [Next]_vars
  PROVE  steam' \in [Handles -> Call0]
<1>1. CASE steam' = steam \/ \E hs : steam' = ClosedAtSteam(hs)
  BY <1>1, CallsTyped DEF Types
<1>2. CASE \E h \in Handles, is \in {"listener", "ringing", "routing", "connected", "over"},
             on \in Handles \cup {None} : steam' = [steam EXCEPT ![h] = Stands(is, on)]
  BY <1>2, CallsTyped DEF Types
<1>3. CASE \E d \in Drivers : InitListen(d) \/ AddDelayedListener(d) \/ LoginAnswered(d)
  BY <1>1, <1>2, <1>3 DEF InitListen, AddDelayedListener, LoginAnswered, ListenSucceeds,
                          ListenHasNoPollGroup, ListenRefused, steamVars
<1>4. CASE \E d \in Drivers : Shutdown(d)
  BY <1>1, <1>4 DEF Shutdown
<1>5. CASE SteamStep
  BY <1>2, <1>5, CallsTyped DEF SteamStep, Ring, Establish, End
<1>6. CASE Event
  <2>1. CASE CreatedUnanswered \/ CreatedRefused \/ CreatedNamesNobody \/ Connected \/ Ended
    BY <1>1, <2>1 DEF CreatedUnanswered, CreatedRefused, CreatedNamesNobody, Connected, Ended
  <2>2. ASSUME NEW c \in Links, CreatedAccepted(c) PROVE steam' \in [Handles -> Call0]
    <3>1. Head(pipe).about \in Handles /\ Head(pipe).on \in Handles
      BY <2>2, PipeEvents DEF CreatedAccepted, Types
    <3> QED BY <1>2, <2>2, <3>1 DEF CreatedAccepted
  <2> QED BY <1>6, <2>1, <2>2 DEF Event
<1>7. CASE \E c \in Links : CloseLocally(c) \/ CleanUp(c)
  BY <1>1, <1>7 DEF CloseLocally, CleanUp, steamVars
<1>8. CASE SweepClosedSockets \/ SubsystemShutdown \/ UNCHANGED vars
  BY <1>1, <1>8 DEF SweepClosedSockets, SubsystemShutdown, vars, steamVars
<1> QED BY <1>3, <1>4, <1>5, <1>6, <1>7, <1>8 DEF Next

\* Every event names a listener: a call that is over still knows its own.
LEMMA PipeTypes ==
  ASSUME RecordsInv, [Next]_vars
  PROVE  pipe' \in Seq(Event0)
<1>0. Types
  BY DEF RecordsInv
<1>1. CASE pipe' = pipe \/ (pipe # <<>> /\ pipe' = Tail(pipe))
  BY <1>0, <1>1 DEF Types
<1>2. CASE SteamStep
  <2>1. ASSUME NEW h \in Handles, Ring(h) \/ Establish(h) \/ End(h) PROVE steam'[h].on \in Handles
    <3>1. CASE Ring(h)
      BY <1>0, <3>1 DEF Ring, Types, Stands
    <3>2. CASE Establish(h) \/ End(h)
      <4>1. steam[h].is \in {"ringing", "routing", "connected"} /\ steam'[h].on = steam[h].on
        BY <1>0, <3>2 DEF Establish, End, Types, Stands
      <4>2. ~down /\ Agree
        BY <4>1 DEF RecordsInv, Silent
      <4> QED BY <4>1, <4>2 DEF Agree, CallsHold, CallHolds
    <3> QED BY <2>1, <3>1, <3>2
  <2>2. PICK h \in Handles, what \in {"created", "connected", "ended"} :
          /\ pipe' = Append(pipe, [what |-> what, about |-> h, on |-> steam'[h].on])
          /\ steam'[h].on \in Handles
    BY <1>2, <2>1 DEF SteamStep, Ring, Establish, End, Post
  <2>3. [what |-> what, about |-> h, on |-> steam'[h].on] \in Event0
    BY <2>2 DEF Event0
  <2> QED BY <1>0, <2>2, <2>3 DEF Types
<1>3. CASE Event
  <2>1. CASE CreatedUnanswered \/ CreatedRefused \/ CreatedNamesNobody \/ Connected \/ Ended
    BY <1>1, <2>1 DEF CreatedUnanswered, CreatedRefused, CreatedNamesNobody, Connected, Ended, Dispatch
  <2>2. ASSUME NEW c \in Links, CreatedAccepted(c) PROVE pipe' \in Seq(Event0)
    <3>1. Head(pipe).about \in Handles /\ Head(pipe).on \in Handles /\ Tail(pipe) \in Seq(Event0)
      BY <1>0, <2>2, PipeEvents DEF CreatedAccepted, Types
    <3>2. [what |-> "connected", about |-> Head(pipe).about, on |-> Head(pipe).on] \in Event0
      BY <3>1 DEF Event0
    <3>3. pipe' = Tail(pipe) \/
          pipe' = Append(Tail(pipe), [what |-> "connected", about |-> Head(pipe).about, on |-> Head(pipe).on])
      BY <2>2 DEF CreatedAccepted
    <3> QED BY <3>1, <3>2, <3>3
  <2> QED BY <1>3, <2>1, <2>2 DEF Event
<1>4. CASE \E d \in Drivers : InitListen(d) \/ AddDelayedListener(d) \/ LoginAnswered(d) \/ Shutdown(d)
  BY <1>1, <1>4 DEF InitListen, AddDelayedListener, LoginAnswered, Shutdown, steamVars
<1>5. CASE \E c \in Links : CloseLocally(c) \/ CleanUp(c)
  BY <1>1, <1>5 DEF CloseLocally, CleanUp, steamVars
<1>6. CASE SweepClosedSockets \/ SubsystemShutdown \/ UNCHANGED vars
  BY <1>1, <1>6 DEF SweepClosedSockets, SubsystemShutdown, vars, steamVars
<1> QED BY <1>2, <1>3, <1>4, <1>5, <1>6 DEF Next

\* What is done to records leaves records.
LEMMA RecordsTyped ==
  ASSUME NEW recs \in [Handles -> Record0 \cup {None}]
  PROVE  /\ \A h \in Handles : recs[h] # None =>
              /\ recs[h].socket \in Sockets \cup {None} /\ recs[h].parent \in Drivers \cup {None}
              /\ recs[h].driver \in Drivers \cup {None} /\ recs[h].marked \in BOOLEAN
         /\ \A hs : Released(recs, hs) \in [Handles -> Record0 \cup {None}]
         /\ \A d : Orphaned(recs, d) \in [Handles -> Record0 \cup {None}]
         /\ \A h \in Handles, s \in Sockets \cup {None}, p, d \in Drivers \cup {None}, m \in BOOLEAN :
              [recs EXCEPT ![h] = Record(s, p, d, m)] \in [Handles -> Record0 \cup {None}]
<1>1. \A h \in Handles : recs[h] # None =>
        /\ recs[h].socket \in Sockets \cup {None} /\ recs[h].parent \in Drivers \cup {None}
        /\ recs[h].driver \in Drivers \cup {None} /\ recs[h].marked \in BOOLEAN
  BY DEF Record0
<1>2. ASSUME NEW hs PROVE Released(recs, hs) \in [Handles -> Record0 \cup {None}]
  BY <1>1, RecordIsSome DEF Released
<1>3. ASSUME NEW d PROVE Orphaned(recs, d) \in [Handles -> Record0 \cup {None}]
  BY <1>1, RecordIsSome DEF Orphaned
<1>4. \A h \in Handles, s \in Sockets \cup {None}, p, d \in Drivers \cup {None}, m \in BOOLEAN :
        [recs EXCEPT ![h] = Record(s, p, d, m)] \in [Handles -> Record0 \cup {None}]
  BY RecordIsSome
<1> QED BY <1>1, <1>2, <1>3, <1>4

\* AddSocket and LinkNetDriver.
LEMMA FiledTyped ==
  ASSUME Types, NEW h \in Handles, NEW s \in Sockets, NEW p \in Drivers \cup {None}, NEW d \in Drivers
  PROVE  /\ Filed(h, s, p) \in [Handles -> Record0 \cup {None}]
         /\ Linked(Filed(h, s, p), h, d) \in [Handles -> Record0 \cup {None}]
<1>1. Filed(h, s, p) \in [Handles -> Record0 \cup {None}]
  BY RecordsTyped DEF Filed, Types
<1>2. Filed(h, s, p)[h] # None
  <2>1. CASE record[h] # None /\ ~record[h].marked
    BY <2>1 DEF Filed
  <2>2. CASE ~(record[h] # None /\ ~record[h].marked)
    <3>1. Filed(h, s, p)[h] = Record(s, p, None, FALSE)
      BY <2>2 DEF Filed, Types
    <3> QED BY <3>1, RecordIsSome
  <2> QED BY <2>1, <2>2
<1>3. Linked(Filed(h, s, p), h, d) \in [Handles -> Record0 \cup {None}]
  BY <1>1, <1>2, RecordsTyped DEF Linked
<1> QED BY <1>1, <1>3

\* The map of records.
LEMMA RecordTypes ==
  ASSUME Types, [Next]_vars
  PROVE  record' \in [Handles -> Record0 \cup {None}]
<1>0. record \in [Handles -> Record0 \cup {None}]
  BY DEF Types
<1>1. CASE record' = record \/ \E hs : record' = Released(record, hs)
  BY <1>0, <1>1, RecordsTyped
<1>2. ASSUME NEW d \in Drivers, NEW after,
             ListenSucceeds(d) \/ ListenHasNoPollGroup(d, after) \/ ListenRefused(d, after)
      PROVE  record' \in [Handles -> Record0 \cup {None}]
  <2>1. d \in Sockets
    BY DEF Sockets
  <2>2. CASE ListenSucceeds(d)
    BY <2>1, <2>2, FiledTyped DEF ListenSucceeds
  <2>3. CASE ListenHasNoPollGroup(d, after)
    <3>1. PICK h \in Handles : record' = Released(Filed(h, d, None), {h})
      BY <2>3 DEF ListenHasNoPollGroup
    <3>2. Filed(h, d, None) \in [Handles -> Record0 \cup {None}]
      BY <2>1, FiledTyped
    <3> QED BY <3>1, <3>2, RecordsTyped
  <2> QED BY <1>0, <1>2, <2>2, <2>3 DEF ListenRefused
<1>3. CASE \E d \in Drivers : InitListen(d) \/ AddDelayedListener(d) \/ LoginAnswered(d)
  BY <1>1, <1>2, <1>3 DEF InitListen, AddDelayedListener, LoginAnswered, socketVars
<1>4. CASE \E d \in Drivers : Shutdown(d)
  <2>1. PICK d \in Drivers : \E hs : record' = Orphaned(Released(record, hs), d)
    BY <1>4 DEF Shutdown
  <2>. PICK hs : record' = Orphaned(Released(record, hs), d)
    BY <2>1
  <2>2. Released(record, hs) \in [Handles -> Record0 \cup {None}]
    BY <1>0, RecordsTyped
  <2> QED BY <2>2, RecordsTyped
<1>5. CASE SteamStep
  BY <1>1, <1>5 DEF SteamStep, Ring, Establish, End, socketVars
<1>6. CASE Event
  <2>1. CASE CreatedUnanswered \/ CreatedRefused \/ CreatedNamesNobody \/ Connected
    BY <1>1, <2>1 DEF CreatedUnanswered, CreatedRefused, CreatedNamesNobody, Connected, socketVars
  <2>2. CASE Ended
    <3>1. Head(pipe).about \in Handles
      BY <2>2, PipeEvents DEF Ended, Dispatch, Types
    <3>2. \A h \in Handles : record[h] # None =>
            [record EXCEPT ![h] = Marked(record[h])] \in [Handles -> Record0 \cup {None}]
      BY <1>0, RecordsTyped DEF Marked
    <3> QED BY <1>0, <2>2, <3>1, <3>2 DEF Ended
  <2>3. ASSUME NEW c \in Links, CreatedAccepted(c) PROVE record' \in [Handles -> Record0 \cup {None}]
    <3>1. Head(pipe).about \in Handles /\ Head(pipe).on \in Handles
      BY <2>3, PipeEvents DEF CreatedAccepted, Types
    <3>2. DriverOf(Head(pipe).on) \in Drivers
      BY <1>0, <2>3, <3>1, RecordsTyped DEF CreatedAccepted, Answers, DriverOf
    <3> QED BY <2>3, <3>1, <3>2, FiledTyped DEF CreatedAccepted, Sockets
  <2> QED BY <1>6, <2>1, <2>2, <2>3 DEF Event
<1>7. CASE \E c \in Links : CloseLocally(c) \/ CleanUp(c)
  BY <1>1, <1>7 DEF CloseLocally, CleanUp, socketVars
<1>8. CASE SweepClosedSockets \/ SubsystemShutdown \/ UNCHANGED vars
  BY <1>0, <1>8 DEF SweepClosedSockets, SubsystemShutdown, vars, socketVars
<1> QED BY <1>3, <1>4, <1>5, <1>6, <1>7, <1>8 DEF Next

LEMMA HandleTypes ==
  ASSUME Types, [Next]_vars
  PROVE  /\ handle' \in [Sockets -> Handles \cup {None}]
         /\ ofDriver' \in [Links -> Drivers \cup {None}]
<1> USE DEF Types
<1>1. CASE \E d \in Drivers : InitListen(d) \/ AddDelayedListener(d) \/ LoginAnswered(d)
  BY <1>1 DEF InitListen, AddDelayedListener, LoginAnswered, ListenSucceeds, ListenHasNoPollGroup,
              ListenRefused, Sockets, linkVars, socketVars
<1>2. CASE \E d \in Drivers : Shutdown(d)
  BY <1>2 DEF Shutdown
<1>3. CASE SteamStep
  BY <1>3 DEF SteamStep, Ring, Establish, End, linkVars, socketVars
<1>4. CASE Event
  <2>1. CASE CreatedUnanswered \/ CreatedRefused \/ CreatedNamesNobody \/ Connected \/ Ended
    BY <2>1 DEF CreatedUnanswered, CreatedRefused, CreatedNamesNobody, Connected, Ended,
                linkVars, socketVars
  <2>2. ASSUME NEW c \in Links, CreatedAccepted(c)
        PROVE  /\ handle' \in [Sockets -> Handles \cup {None}]
               /\ ofDriver' \in [Links -> Drivers \cup {None}]
    <3>1. Head(pipe).about \in Handles /\ Head(pipe).on \in Handles
      BY <2>2, PipeEvents DEF CreatedAccepted
    <3>2. DriverOf(Head(pipe).on) \in Drivers
      BY <2>2, <3>1, RecordsTyped DEF CreatedAccepted, Answers, DriverOf
    <3> QED BY <2>2, <3>1, <3>2 DEF CreatedAccepted
  <2> QED BY <1>4, <2>1, <2>2 DEF Event
<1>5. CASE \E c \in Links : CloseLocally(c) \/ CleanUp(c)
  BY <1>5 DEF CloseLocally, CleanUp, socketVars
<1>6. CASE SweepClosedSockets
  BY <1>6 DEF SweepClosedSockets, linkVars
<1>7. CASE SubsystemShutdown
  BY <1>7 DEF SubsystemShutdown, linkVars
<1>8. CASE UNCHANGED vars
  BY <1>8 DEF vars, linkVars, socketVars
<1> QED BY <1>1, <1>2, <1>3, <1>4, <1>5, <1>6, <1>7, <1>8 DEF Next

\* The published address.
LEMMA AddressTypes ==
  ASSUME AddressTyped, [Next]_vars
  PROVE  AddressTyped'
<1>1. CASE Elsewhere
  BY <1>1 DEF Elsewhere, AddressTyped
<1>2. CASE AllGo
  BY <1>2 DEF AllGo, AddressTyped
<1>3. CASE \E d \in Drivers : Waits(d) \/ Goes(d) \/ \E after \in {"gone", "idle"} : Comes(d, after)
  <2>1. address' \in {Address[d] : d \in Drivers} \/ address' = None \/ address' = address
    BY <1>3 DEF Waits, Goes, Comes, AddressWithout
  <2> QED BY <2>1 DEF AddressTyped
<1> QED BY <1>1, <1>2, <1>3, StepsOnAddress

\* Every step keeps the agreement.
LEMMA RecordsInvStep == RecordsInv /\ [Next]_vars => RecordsInv'
<1> SUFFICES ASSUME RecordsInv, [Next]_vars PROVE RecordsInv'
  OBVIOUS
<1>1. Types'
  BY PlainTypes, SteamTypes, PipeTypes, RecordTypes, HandleTypes, AddressTypes DEF RecordsInv, Types
<1>2. IF down' THEN Silent' ELSE Agree'
  BY SilentStays, AgreementStays DEF RecordsInv
<1> QED BY <1>1, <1>2 DEF RecordsInv

\* Handles, records, sockets and Steam agree as long as the subsystem is up.
THEOREM RecordsAgree == Spec => []RecordsInv
BY RecordsInvInit, RecordsInvStep, PTL DEF Spec

-----------------------------------------------------------------------------
(* What follows from the agreement.                                         *)

\* The variables hold what the program can hold, no two sockets share a handle,
\* and a connection holds its socket until it is cleaned up.
THEOREM TypesAreKept == Spec => []TypeOK
<1>1. RecordsInv => TypeOK
  <2> SUFFICES ASSUME RecordsInv PROVE TypeOK
    OBVIOUS
  <2>1. Types
    BY DEF RecordsInv
  <2>2. \A s, t \in Sockets : handle[s] = handle[t] /\ handle[s] # None => s = t
    BY <2>1, HandlesApart DEF RecordsInv, Silent
  <2>3. ~down => peer = {c \in Links : conn[c] \in {"pending", "open", "closed"}}
    BY <2>1 DEF RecordsInv, Types, Agree, LinksHold, LinkHolds, LinkRests, Live
  <2> QED BY <2>1, <2>2, <2>3 DEF Types, TypeOK, States, Record0, Call0, Event0, AddressTyped
<1> QED BY <1>1, RecordsAgree, PTL

\* FindClientConnectionForHandle finds the connection an event is about, in the
\* driver that accepted it, by a record that is nobody else's.
THEOREM EventsFindTheirConnection == Spec => []OpenConnectionIsFound
<1>1. RecordsInv => OpenConnectionIsFound
  <2> SUFFICES ASSUME RecordsInv, NEW c \in Links, conn[c] \in {"pending", "open"}, ~down
               PROVE  /\ c \in peer \cap owned /\ handle[c] # None
                      /\ record[handle[c]] = Record(c, ofDriver[c], ofDriver[c], FALSE)
                      /\ steam[handle[c]].is \in {"routing", "connected", "over"}
                      /\ steam[handle[c]].on = handle[ofDriver[c]]
    BY DEF OpenConnectionIsFound
  <2>1. LinkHolds(c)
    BY DEF RecordsInv, Agree, LinksHold, Live
  <2>2. record[handle[c]] \in Record0 /\ ~record[handle[c]].marked
    BY <2>1 DEF LinkHolds, RecordsInv, Types
  <2>3. record[handle[c]].marked = FALSE
    BY <2>2 DEF Record0
  <2> QED BY <2>1, <2>3, ConstantsAssumption DEF LinkHolds
<1> QED BY <1>1, RecordsAgree, PTL

\* Steam listens for nobody but the drivers that listen, and each of those is
\* found by the handle of its listener.
THEOREM ListenersAreTheDrivers == Spec => []ListenersAreDriven
<1>1. RecordsInv => ListenersAreDriven
  <2> SUFFICES ASSUME RecordsInv, ~down, NEW h \in Handles
               PROVE  steam[h].is = "listener" <=>
                        \E d \in Drivers :
                          /\ driver[d] = "listening" /\ handle[d] = h /\ d \in owned
                          /\ record[h] = Record(d, None, d, FALSE)
    BY DEF ListenersAreDriven
  <2>1. ListenersHold /\ CallHolds(h)
    BY DEF RecordsInv, Agree, CallsHold
  <2>2. Stands("listener", None).is = "listener"
    BY DEF Stands
  <2> QED BY <2>1, <2>2 DEF ListenersHold, CallHolds
<1> QED BY <1>1, RecordsAgree, PTL

\* A peer that called is answered, or will be when its event is dispatched, or has
\* been hung up on.
THEOREM CallersAreAnswered == Spec => []NobodyIsLeftRinging
<1>1. RecordsInv => NobodyIsLeftRinging
  <2> SUFFICES ASSUME RecordsInv, NEW h \in Handles, steam[h].is \in {"ringing", "routing", "connected"}
               PROVE  \/ steam[h].is = "ringing" /\ Answers(DriverOf(steam[h].on), steam[h].on)
                         /\ \E i \in 1..Len(pipe) : pipe[i].what = "created" /\ pipe[i].about = h
                      \/ \E c \in Links : handle[c] = h /\ conn[c] \in {"pending", "open", "closed"}
    BY DEF NobodyIsLeftRinging
  <2>1. Agree /\ CallHolds(h)
    BY DEF RecordsInv, Silent, Agree, CallsHold
  <2>2. CASE steam[h].is = "ringing"
    <3>1. PICK l \in Handles : l = steam[h].on /\ steam[l].is = "listener"
      BY <2>1, <2>2 DEF CallHolds
    <3>2. PICK d \in Drivers : driver[d] = "listening" /\ handle[d] = l
      BY <2>1, <3>1 DEF Agree, CallsHold, CallHolds
    <3>3. record[l] = Record(d, None, d, FALSE) /\ record[l] # None
      BY <2>1, <3>2, RecordIsSome DEF Agree, ListenersHold, Sockets
    <3>4. DriverOf(l) = d /\ d # None
      BY <3>3, ConstantsAssumption DEF DriverOf, Record
    <3> QED BY <2>1, <2>2, <3>1, <3>2, <3>4 DEF Answers, CallHolds
  <2>3. CASE steam[h].is \in {"routing", "connected"}
    BY <2>1, <2>3 DEF CallHolds, Answered, Live
  <2> QED BY <2>2, <2>3
<1> QED BY <1>1, RecordsAgree, PTL
=============================================================================
