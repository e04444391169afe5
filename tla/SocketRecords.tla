--------------------------- MODULE SocketRecords ---------------------------
(***************************************************************************)
(* The sockets of the default transport and the records they are found by: *)
(* FSocketSubsystemSteam, FSocketSteam, and what UNetDriverSteam and       *)
(* UNetConnectionSteam do to them on the side that listens.                *)
(*                                                                         *)
(* Steam names a listener or a connection by a handle, tells of it by an   *)
(* event that is dispatched later, and may give a handle out again.  The   *)
(* subsystem files a record under the handle, marks it when the socket     *)
(* goes and drops it at a later tick.  Whose connection an event is about  *)
(* is read from the record, so a record that is wrong loses a connection   *)
(* or hands it to somebody else.  A driver that comes up before the login  *)
(* waits for it with no handle at all.                                     *)
(*                                                                         *)
(* A driver and the socket it listens on share a name, and so do a         *)
(* connection and the socket that was accepted for it.                     *)
(***************************************************************************)
EXTENDS Naturals, Sequences, SequencesExt

CONSTANTS
  Drivers,   \* net drivers, each of which is asked to listen once
  Relay,     \* those that listen on a Steam identity, and need a login for it
  Links,     \* connections, each of which is accepted once
  Handles,   \* what Steam names listeners and connections with
  Address,   \* the address, with its channel or port, a driver binds
  None       \* no handle, socket, driver, record or address

ASSUME ConstantsAssumption ==
  /\ Relay \subseteq Drivers /\ Drivers \cap Links = {}
  /\ None \notin Drivers \cup Links \cup Handles
  /\ \A d \in Drivers : Address[d] # None
  /\ \A s, p, d \in Drivers \cup Links \cup {None}, m \in BOOLEAN :
       [socket |-> s, parent |-> p, driver |-> d, marked |-> m] # None

VARIABLES
  driver,     \* what each driver is doing
  conn,       \* the state of each connection
  ofDriver,   \* the driver that accepted it
  peer,       \* the connections whose PeerSocket is set
  owned,      \* OwnedSockets
  handle,     \* SteamHandle of each socket
  record,     \* SocketInformationMap
  address,    \* GetListenAddressStorage()
  logins,     \* the drivers a login completion still names
  steam,      \* Steam: what a handle stands for, and the listener it came in on
  pipe,       \* Steam: the events that were not dispatched yet
  down        \* the subsystem was shut down

linkVars   == <<conn, ofDriver, peer>>
socketVars == <<owned, handle, record, address>>
steamVars  == <<steam, pipe>>
vars == <<driver, linkVars, socketVars, logins, steamVars, down>>

Sockets == Drivers \cup Links
Stands(what, on) == [is |-> what, on |-> on]
Nothing == Stands("nothing", None)

Init ==
  /\ driver = [d \in Drivers |-> "new"]
  /\ conn = [c \in Links |-> "unborn"]
  /\ ofDriver = [c \in Links |-> None]
  /\ peer = {} /\ owned = {}
  /\ handle = [s \in Sockets |-> None]
  /\ record = [h \in Handles |-> None]
  /\ address = None /\ logins = {}
  /\ steam = [h \in Handles |-> Nothing] /\ pipe = <<>>
  /\ down = FALSE

-----------------------------------------------------------------------------
(* The records.  A record's socket and parent are weak references.         *)

Alive(s)      == s \in owned \/ s \in peer
ChildrenOf(d) == {c \in Links : ofDriver[c] = d /\ conn[c] \in {"pending", "open", "closed"}}
HandlesOf(ss) == {handle[s] : s \in ss} \ {None}

\* FSocketRecord and its MarkForDeletion.
Record(s, parent, d, marked) ==
  [socket |-> s, parent |-> parent, driver |-> d, marked |-> marked]
Marked(r) == Record(r.socket, r.parent, r.driver, TRUE)

\* Mutant of Filed: a record that is only marked keeps the handle as well.
FiledOnce(h, s, parent) ==
  IF record[h] # None THEN record
  ELSE [record EXCEPT ![h] = Record(s, parent, None, FALSE)]

\* AddSocket: a record that is not marked keeps the handle to itself.
Filed(h, s, parent) ==
  IF record[h] # None /\ ~record[h].marked THEN record
  ELSE [record EXCEPT ![h] = Record(s, parent, None, FALSE)]

\* LinkNetDriver.
Linked(recs, h, d) ==
  [recs EXCEPT ![h] = Record(recs[h].socket, recs[h].parent, d, recs[h].marked)]

\* DestroySocket, as the records see it: the socket goes and the mark is set.
Released(recs, hs) ==
  [h \in Handles |->
    IF h \in hs /\ recs[h] # None THEN Record(None, recs[h].parent, recs[h].driver, TRUE)
    ELSE recs[h]]

\* RemoveSocketsForListener: nothing that came in on it is answered for any more.
Orphaned(recs, d) ==
  [h \in Handles |->
    IF recs[h] # None /\ recs[h].parent = d
    THEN Record(recs[h].socket, None, None, TRUE)
    ELSE recs[h]]

\* Mutant of Unlinked: the lookup passes over marked records, and CleanUp has just
\* marked it.
UnlinkedUnmarked(cs) == {c \in cs : handle[c] = None}

\* ResetSocketInfo is reached through the driver on the record.
Unlinked(cs) == {c \in cs : handle[c] # None => record[handle[c]] # None /\ record[handle[c]].driver # None}

\* CloseConnection and CloseListenSocket, which takes what it accepted with it.
ClosedAtSteam(hs) ==
  [h \in Handles |-> IF h \in hs \/ steam[h].on \in hs THEN Nothing ELSE steam[h]]

\* Mutant of AddressWithout: whichever listener goes, the address goes.
NoAddress(d) == None

\* Mutant of AddressWithout: the address is left behind.
AddressKept(d) == address

\* DestroySocket withdraws the address of the listener that is destroyed.
AddressWithout(d) == IF address = Address[d] THEN None ELSE address

-----------------------------------------------------------------------------
(* A driver that listens.                                                  *)

\* FSocketSteam::Listen, the driver and the address filed with it.
\* Bound: a handle is given out again once no event about it is left.
Unused(h) == steam[h] = Nothing /\ \A i \in 1..Len(pipe) : pipe[i].about # h
Taken(a)  == \E d \in Drivers : driver[d] = "listening" /\ Address[d] = a

ListenSucceeds(d) ==
  /\ ~Taken(Address[d])
  /\ \E h \in Handles :
       /\ Unused(h)
       /\ steam' = [steam EXCEPT ![h] = Stands("listener", None)]
       /\ handle' = [handle EXCEPT ![d] = h]
       /\ record' = Linked(Filed(h, d, None), h, d)
  /\ driver' = [driver EXCEPT ![d] = "listening"]
  /\ owned' = owned \cup {d} /\ address' = Address[d]

\* Mutant of ListenHasNoPollGroup: the listener is left open at Steam.
ListenIsLeftOpen(d, after) ==
  /\ ~Taken(Address[d])
  /\ \E h \in Handles :
       /\ Unused(h) /\ record' = Released(Filed(h, d, None), {h})
       /\ steam' = [steam EXCEPT ![h] = Stands("listener", None)]
  /\ address' = AddressWithout(d)
  /\ driver' = [driver EXCEPT ![d] = after]
  /\ owned' = owned \ {d} /\ UNCHANGED handle

\* There is no poll group: the listener is closed again, and its record marked.
ListenHasNoPollGroup(d, after) ==
  /\ ~Taken(Address[d])
  /\ \E h \in Handles : Unused(h) /\ record' = Released(Filed(h, d, None), {h})
  /\ address' = AddressWithout(d)
  /\ driver' = [driver EXCEPT ![d] = after]
  /\ owned' = owned \ {d} /\ UNCHANGED <<handle, steam>>

\* Steam has no handle for it, most often because the address is taken.
ListenRefused(d, after) ==
  /\ driver' = [driver EXCEPT ![d] = after]
  /\ owned' = owned \ {d} /\ UNCHANGED <<handle, record, address, steam>>

\* InitListen with nothing to wait for.  The engine destroys a driver that failed.
InitListen(d) ==
  /\ ~down /\ driver[d] = "new"
  /\ ListenSucceeds(d) \/ ListenHasNoPollGroup(d, "gone") \/ ListenRefused(d, "gone")
  /\ UNCHANGED <<linkVars, logins, pipe, down>>

\* InitListen before the login: AddDelayedListener keeps the socket open for it.
AddDelayedListener(d) ==
  /\ ~down /\ driver[d] = "new" /\ d \in Relay
  /\ driver' = [driver EXCEPT ![d] = "waiting"]
  /\ owned' = owned \cup {d} /\ logins' = logins \cup {d}
  /\ UNCHANGED <<linkVars, handle, record, address, steamVars, down>>

\* The login completes.  A driver that cannot listen after all is shut down and
\* stays where it is, idle; one that went in the meantime is not looked for.
LoginAnswered(d) ==
  /\ ~down /\ d \in logins /\ logins' = logins \ {d}
  /\ IF driver[d] = "waiting"
     THEN ListenSucceeds(d) \/ ListenHasNoPollGroup(d, "idle") \/ ListenRefused(d, "idle")
     ELSE UNCHANGED <<driver, socketVars, steam>>
  /\ UNCHANGED <<linkVars, pipe, down>>

-----------------------------------------------------------------------------
(* Steam.                                                                  *)

Post(what, h) == pipe' = Append(pipe, [what |-> what, about |-> h, on |-> steam'[h].on])

\* A peer calls a listener.
Ring(h) ==
  /\ ~down /\ Unused(h)
  /\ \E l \in Handles :
       steam[l].is = "listener" /\ steam' = [steam EXCEPT ![h] = Stands("ringing", l)]
  /\ Post("created", h)
  /\ UNCHANGED <<driver, linkVars, socketVars, logins, down>>

\* An accepted connection has found its route.
Establish(h) ==
  /\ steam[h].is = "routing"
  /\ steam' = [steam EXCEPT ![h] = Stands("connected", steam[h].on)]
  /\ Post("connected", h)
  /\ UNCHANGED <<driver, linkVars, socketVars, logins, down>>

\* The peer goes, or the way to it is lost.  The handle is kept until it is closed.
End(h) ==
  /\ steam[h].is \in {"ringing", "routing", "connected"}
  /\ steam' = [steam EXCEPT ![h] = Stands("over", steam[h].on)]
  /\ Post("ended", h)
  /\ UNCHANGED <<driver, linkVars, socketVars, logins, down>>

-----------------------------------------------------------------------------
(* OnConnectionStatusChanged.                                              *)

Dispatch(what) ==
  /\ ~down /\ pipe # <<>> /\ Head(pipe).what = what
  /\ pipe' = Tail(pipe)
  /\ UNCHANGED <<driver, logins, down>>

\* The driver the record of a handle names, None for nobody.
DriverOf(h) == IF record[h] = None THEN None ELSE record[h].driver

\* OnConnectionCreated is answered only by the driver that listens on the handle.
Answers(d, l) == d # None /\ driver[d] = "listening" /\ handle[d] = l

\* Nobody is there to answer, or AcceptConnection failed: the peer is gone again.
CreatedUnanswered ==
  /\ Dispatch("created")
  /\ LET e == Head(pipe) IN ~Answers(DriverOf(e.on), e.on) \/ steam[e.about].is # "ringing"
  /\ UNCHANGED <<linkVars, socketVars, steam>>

\* Mutant of CreatedRefused: the connection is refused by not answering it.
CreatedIgnored ==
  /\ Dispatch("created")
  /\ LET e == Head(pipe) IN Answers(DriverOf(e.on), e.on)
  /\ UNCHANGED <<linkVars, socketVars, steam>>

\* The engine takes no connection now.
CreatedRefused ==
  /\ Dispatch("created")
  /\ LET e == Head(pipe) IN
       Answers(DriverOf(e.on), e.on) /\ steam' = ClosedAtSteam({e.about})
  /\ UNCHANGED <<linkVars, socketVars>>

\* It was accepted and Steam names no peer: the new socket is destroyed at once.
CreatedNamesNobody ==
  /\ Dispatch("created")
  /\ LET e == Head(pipe) IN
       /\ Answers(DriverOf(e.on), e.on) /\ steam[e.about].is = "ringing"
       /\ record' = Released(record, {e.about})
       /\ steam' = ClosedAtSteam({e.about})
  /\ UNCHANGED <<linkVars, owned, handle, address>>

\* It is accepted, filed and handed to the engine, open or not as Steam has it.
CreatedAccepted(c) ==
  /\ ~down /\ pipe # <<>> /\ Head(pipe).what = "created" /\ conn[c] = "unborn"
  /\ LET h == Head(pipe).about
         l == Head(pipe).on
         d == DriverOf(l) IN
       /\ Answers(d, l) /\ steam[h].is = "ringing"
       /\ \/ /\ steam' = [steam EXCEPT ![h] = Stands("routing", l)]
             /\ pipe' = Tail(pipe)
             /\ conn' = [conn EXCEPT ![c] = "pending"]
          \/ /\ steam' = [steam EXCEPT ![h] = Stands("connected", l)]
             /\ pipe' = Append(Tail(pipe), [what |-> "connected", about |-> h, on |-> l])
             /\ conn' = [conn EXCEPT ![c] = "open"]
       /\ ofDriver' = [ofDriver EXCEPT ![c] = d]
       /\ peer' = peer \cup {c} /\ owned' = owned \cup {c}
       /\ handle' = [handle EXCEPT ![c] = h]
       /\ record' = Linked(Filed(h, c, d), h, d)
  /\ UNCHANGED <<driver, address, logins, down>>

\* FindClientConnectionForHandle, in the driver the record names.
Found(h) == {c \in ChildrenOf(DriverOf(h)) \cap peer : handle[c] = h}

SetState(cs, state) == conn' = [c \in Links |-> IF c \in cs THEN state ELSE conn[c]]

\* OnConnectionUpdated.
Connected ==
  /\ Dispatch("connected")
  /\ SetState(Found(Head(pipe).about), "open")
  /\ UNCHANGED <<ofDriver, peer, socketVars, steam>>

\* OnConnectionDisconnected; the record of one that still has its parent is marked.
Ended ==
  /\ Dispatch("ended")
  /\ LET h == Head(pipe).about IN
       IF record[h] # None /\ record[h].socket \in Links /\ Alive(record[h].socket)
       THEN /\ SetState(Found(h), "closed")
            /\ record' = IF record[h].parent # None /\ Alive(record[h].parent)
                         THEN [record EXCEPT ![h] = Marked(record[h])] ELSE record
       ELSE UNCHANGED <<conn, record>>
  /\ UNCHANGED <<ofDriver, peer, owned, handle, address, steam>>

-----------------------------------------------------------------------------
(* The engine.                                                             *)

\* UNetConnection::Close: a kick, a refused login, a timeout.
CloseLocally(c) ==
  /\ conn[c] \in {"pending", "open"}
  /\ conn' = [conn EXCEPT ![c] = "closed"]
  /\ UNCHANGED <<driver, ofDriver, peer, socketVars, logins, steamVars, down>>

\* Mutant of CleanUp: the record is marked and the socket is left to the driver.
CleanUpMarksOnly(c) ==
  /\ conn[c] = "closed"
  /\ conn' = [conn EXCEPT ![c] = "gone"]
  /\ record' = [h \in Handles |-> IF h = handle[c] /\ record[h] # None
                                  THEN Marked(record[h]) ELSE record[h]]
  /\ UNCHANGED <<driver, ofDriver, peer, owned, handle, address, logins, steamVars, down>>

\* UNetConnectionSteam::CleanUp, at the tick after a connection was closed.
CleanUp(c) ==
  /\ conn[c] = "closed"
  /\ conn' = [conn EXCEPT ![c] = "gone"]
  /\ IF down \/ c \notin peer THEN UNCHANGED <<peer, socketVars, steam>>
     ELSE /\ record' = Released(record, {handle[c]})
          /\ peer' = peer \ Unlinked({c})
          /\ steam' = ClosedAtSteam({handle[c]})
          /\ handle' = [handle EXCEPT ![c] = None]
          /\ owned' = owned \ {c} /\ UNCHANGED address
  /\ UNCHANGED <<driver, ofDriver, logins, pipe, down>>

\* UNetDriverSteam::Shutdown: the engine cleans up every connection first.
Shutdown(d) ==
  /\ ~down /\ driver[d] \in {"waiting", "listening", "idle"}
  /\ driver' = [driver EXCEPT ![d] = "gone"]
  /\ SetState(ChildrenOf(d), "gone")
  /\ LET ends == ChildrenOf(d) \cap peer
         hs   == HandlesOf(ends \cup {d}) IN
       /\ peer' = peer \ Unlinked(ends)
       /\ record' = Orphaned(Released(record, hs), d)
       /\ steam' = ClosedAtSteam(hs)
       /\ handle' = [s \in Sockets |-> IF s \in ends \cup {d} THEN None ELSE handle[s]]
       /\ owned' = owned \ (ends \cup {d})
  /\ address' = IF driver[d] = "listening" THEN AddressWithout(d) ELSE address
  /\ UNCHANGED <<ofDriver, logins, pipe, down>>

\* Mutant of SweepClosedSockets: a record with a driver on it is kept.
SweepUndriven ==
  /\ ~down /\ \E d \in Drivers : driver[d] \in {"waiting", "listening", "idle"}
  /\ record' = [h \in Handles |->
                 IF record[h] # None /\ record[h].marked /\ ~Alive(record[h].socket)
                      /\ record[h].driver = None
                 THEN None ELSE record[h]]
  /\ UNCHANGED <<driver, linkVars, owned, handle, address, logins, steamVars, down>>

\* SweepClosedSockets, at every driver's tick.
SweepClosedSockets ==
  /\ ~down /\ \E d \in Drivers : driver[d] \in {"waiting", "listening", "idle"}
  /\ record' = [h \in Handles |->
                 IF record[h] # None /\ record[h].marked /\ ~Alive(record[h].socket)
                 THEN None ELSE record[h]]
  /\ UNCHANGED <<driver, linkVars, owned, handle, address, logins, steamVars, down>>

\* FSocketSubsystemSteam::Shutdown, after the login queue was cancelled.
SubsystemShutdown ==
  /\ ~down /\ down' = TRUE
  /\ driver' = [d \in Drivers |-> IF d \in logins /\ driver[d] = "waiting" THEN "idle" ELSE driver[d]]
  /\ logins' = {}
  /\ steam' = ClosedAtSteam(HandlesOf(owned))
  /\ handle' = [s \in Sockets |-> IF s \in owned THEN None ELSE handle[s]]
  /\ owned' = {} /\ record' = [h \in Handles |-> None] /\ address' = None
  /\ UNCHANGED <<linkVars, pipe>>

-----------------------------------------------------------------------------
SteamStep == \E h \in Handles : Ring(h) \/ Establish(h) \/ End(h)

Event ==
  \/ CreatedUnanswered \/ CreatedRefused \/ CreatedNamesNobody
  \/ \E c \in Links : CreatedAccepted(c)
  \/ Connected \/ Ended

Next ==
  \/ \E d \in Drivers :
       InitListen(d) \/ AddDelayedListener(d) \/ LoginAnswered(d) \/ Shutdown(d)
  \/ SteamStep \/ Event
  \/ \E c \in Links : CloseLocally(c) \/ CleanUp(c)
  \/ SweepClosedSockets \/ SubsystemShutdown

Spec == Init /\ [][Next]_vars

\* Steam's events are dispatched every frame, a driver is ticked every frame,
\* and its tick cleans up the connections that were closed.
FairSpec ==
  /\ Spec /\ WF_vars(Event) /\ WF_vars(SweepClosedSockets)
  /\ \A c \in Links : WF_vars(CleanUp(c))

-----------------------------------------------------------------------------
(* Properties.                                                             *)

\* Every variable holds values the program can hold, no two sockets share a
\* handle, and a connection holds its socket until it is cleaned up.
TypeOK ==
  /\ driver \in [Drivers -> {"new", "waiting", "listening", "idle", "gone"}]
  /\ conn \in [Links -> {"unborn", "pending", "open", "closed", "gone"}]
  /\ ofDriver \in [Links -> Drivers \cup {None}]
  /\ peer \subseteq Links /\ owned \subseteq Sockets
  /\ handle \in [Sockets -> Handles \cup {None}]
  /\ record \in [Handles -> [socket : Sockets \cup {None}, parent : Drivers \cup {None},
                             driver : Drivers \cup {None}, marked : BOOLEAN] \cup {None}]
  /\ address \in {Address[d] : d \in Drivers} \cup {None}
  /\ logins \subseteq Drivers
  /\ steam \in [Handles -> [is : {"nothing", "listener", "ringing", "routing", "connected", "over"},
                            on : Handles \cup {None}]]
  /\ pipe \in Seq([what : {"created", "connected", "ended"}, about : Handles, on : Handles])
  /\ down \in BOOLEAN
  /\ \A s, t \in Sockets : handle[s] = handle[t] /\ handle[s] # None => s = t
  /\ ~down => peer = {c \in Links : conn[c] \in {"pending", "open", "closed"}}

\* A connection the engine speaks through is found by the handle Steam names it
\* with, by nobody else's record, and in the driver that accepted it, whatever
\* handles were given out and taken back before.
OpenConnectionIsFound ==
  \A c \in Links : (conn[c] \in {"pending", "open"} /\ ~down) =>
    /\ c \in peer \cap owned /\ handle[c] # None
    /\ record[handle[c]] = Record(c, ofDriver[c], ofDriver[c], FALSE)
    /\ steam[handle[c]].is \in {"routing", "connected", "over"}
    /\ steam[handle[c]].on = handle[ofDriver[c]]

\* Steam keeps no caller waiting that nobody will answer: one that rings is still
\* to be dispatched to the driver of its listener, and one that was answered has
\* a connection of the engine's that has not been cleaned up.
NobodyIsLeftRinging ==
  \A h \in Handles : steam[h].is \in {"ringing", "routing", "connected"} =>
    \/ steam[h].is = "ringing" /\ Answers(DriverOf(steam[h].on), steam[h].on)
       /\ \E i \in 1..Len(pipe) : pipe[i].what = "created" /\ pipe[i].about = h
    \/ \E c \in Links : handle[c] = h /\ conn[c] \in {"pending", "open", "closed"}

\* Steam's listeners are the drivers that listen, each with a record of its own.
ListenersAreDriven ==
  ~down => \A h \in Handles : steam[h].is = "listener" <=>
    \E d \in Drivers :
      /\ driver[d] = "listening" /\ handle[d] = h /\ d \in owned
      /\ record[h] = Record(d, None, d, FALSE)

\* What a lobby is pointed at is listened on.
AddressHasAListener == ~down /\ address # None => Taken(address)

\* The address is withdrawn by the listener it belongs to or by the end of the
\* subsystem, and by no other listener that goes or fails.
AddressGoesWithItsListener ==
  [][\A d \in Drivers : (address = Address[d] /\ address' = None) =>
       (down' \/ driver'[d] # "listening")]_vars

\* A connection whose peer is gone is forgotten: by the engine, by the records
\* and by Steam.
EndedIsForgotten ==
  \A c \in Links : (conn[c] # "unborn" /\ handle[c] # None /\ steam[handle[c]].is = "over") ~>
    down \/ (/\ conn[c] = "gone" /\ handle[c] = None /\ ~Alive(c)
             /\ \A h \in Handles : record[h] # None => record[h].socket # c)

\* A record that was marked is dropped or given to somebody else, as long as a
\* driver ticks: the map does not grow with every connection ever made.
MarkedRecordsGo ==
  \A h \in Handles : (record[h] # None /\ record[h].marked) ~>
    \/ record[h] = None \/ ~record[h].marked
    \/ down \/ \A d \in Drivers : driver[d] \notin {"waiting", "listening", "idle"}
=============================================================================
