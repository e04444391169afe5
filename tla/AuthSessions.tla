---------------------------- MODULE AuthSessions ----------------------------
(***************************************************************************)
(* A server verifying the players who connect to it.                       *)
(*                                                                         *)
(* Three parties are composed here.  One handler per connection            *)
(* (FAuthHandlerSteam, server end) receives a ticket, asks the services to *)
(* verify it and closes the session it was granted when it is destroyed.   *)
(* The services (FAuthSteam) run every request through one serial queue    *)
(* and keep the sessions they granted in VerifiedAuthSessions.  Steam keeps*)
(* a ledger of its own, one entry per user, and posts its verdicts to a    *)
(* pipe that is read once per frame.                                       *)
(*                                                                         *)
(* A frame is: whatever the net driver does ("Net"), the deadlines, the    *)
(* pipe ("Pump") and then the queue ("Queue"); FOnlineServicesSteam::Tick  *)
(* runs the last three in that order, Steam acts in between at any time.   *)
(* The contents of a ticket are abstracted to the outcomes they can have.  *)
(***************************************************************************)
EXTENDS Naturals, Sequences, FiniteSets

CONSTANTS
  Users,           \* the Steam users who may connect
  Conns,           \* the connections; each is opened once
  Accounts,        \* the local accounts logged in: "server", "user" or both
  FreedAuthReads,  \* what IsValid can answer on a destroyed handler's Auth
  NoConn           \* names no connection

ASSUME ConstantsAssumption ==
  /\ NoConn \notin Conns
  /\ Accounts \subseteq {"server", "user"}
  /\ FreedAuthReads \subseteq BOOLEAN

VARIABLES
  phase,      \* where the frame is
  handler,    \* the state of each connection's handler
  closing,    \* connections closed whose handler is not destroyed yet
  account,    \* the user a connection offered a ticket of
  session,    \* the session the handler holds, NoSession for none
  queue,      \* GetSerialQueue(): operations not started yet
  running,    \* the connection whose BeginVerifiedAuthSession awaits Steam
  sessions,   \* VerifiedAuthSessions
  nextIndex,  \* NextAuthSessionIndex
  steam,      \* Steam's ledger
  pipe,       \* verdicts posted by Steam and not dispatched yet
  login,      \* the login of each local account
  shut        \* the services were destroyed

netVars  == <<handler, closing, account, session>>
authVars == <<queue, running, sessions, nextIndex, login>>
vars == <<phase, netVars, authVars, steam, pipe, shut>>

NoSession == 0
NoUser    == "nobody"

Untracked == [stage |-> "None", ticket |-> NoConn]
Tracked   == [stage : {"Checking", "Vouched", "Refused"}, ticket : Conns]
Verdict   == [user : Users, ok : BOOLEAN, ticket : Conns]

BeginOp(c)   == [op |-> "Begin", conn |-> c]
EndOp(id)    == [op |-> "End", id |-> id]
LogoutOp(a)  == [op |-> "Logout", who |-> a]

Ops == [op : {"Begin"}, conn : Conns] \cup [op : {"End"}, id : Nat]
         \cup [op : {"Logout"}, who : Accounts]

-----------------------------------------------------------------------------
Init ==
  /\ phase = "Net"
  /\ handler = [c \in Conns |-> "Unborn"]
  /\ closing = {}
  /\ account = [c \in Conns |-> NoUser]
  /\ session = [c \in Conns |-> NoSession]
  /\ queue = <<>>
  /\ running = NoConn
  /\ sessions = {}
  /\ nextIndex = 1
  /\ steam = [u \in Users |-> Untracked]
  /\ pipe = <<>>
  /\ login = [a \in Accounts |-> "LoggedIn"]
  /\ shut = FALSE

-----------------------------------------------------------------------------
(* The pieces the operations share.                                        *)

\* The handler object exists; Liveness is its weak reference to itself.
Alive(c) == handler[c] \in {"WaitingForTicket", "WaitingForVerdict", "Ready"}

\* Mutant of Refuse: the continuation does not ask whether its handler lives.
RefuseUnasked(c) == closing' = closing \cup {c}

\* Refuse closes the connection; the handler goes with the driver's own tick.
\* A continuation whose handler is gone returns without doing anything.
Refuse(c) == closing' = IF Alive(c) THEN closing \cup {c} ELSE closing

\* EndAuthSession: Steam forgets the users it is told of.
StopTracking(us) ==
  steam' = [u \in Users |-> IF u \in us THEN Untracked ELSE steam[u]]

UsersOf(ss) == {s.user : s \in ss}

-----------------------------------------------------------------------------
(* The net driver: connections and their handlers.                         *)

HandshakeBegin(c) ==
  /\ phase = "Net" /\ ~shut
  /\ handler[c] = "Unborn"
  /\ handler' = [handler EXCEPT ![c] = "WaitingForTicket"]
  /\ UNCHANGED <<phase, closing, account, session, authVars, steam, pipe, shut>>

\* A ticket arrives: malformed, for an account that does not resolve or that
\* the relay did not vouch for, it refuses the connection; else it is queued
\* for verification.
ReceiveTicket(c) ==
  /\ phase = "Net" /\ ~shut
  /\ handler[c] = "WaitingForTicket" /\ c \notin closing
  /\ \/ /\ \E u \in Users \cup {NoUser} : account' = [account EXCEPT ![c] = u]
        /\ Refuse(c)
        /\ UNCHANGED <<handler, queue>>
     \/ /\ \E u \in Users : account' = [account EXCEPT ![c] = u]
        /\ queue' = Append(queue, BeginOp(c))
        /\ handler' = [handler EXCEPT ![c] = "WaitingForVerdict"]
        /\ UNCHANGED closing
  /\ UNCHANGED <<phase, session, running, sessions, nextIndex, login, steam,
                 pipe, shut>>

\* The peer leaves or the game closes the connection.
Close(c) ==
  /\ phase = "Net" /\ ~shut
  /\ Alive(c) /\ c \notin closing
  /\ closing' = closing \cup {c}
  /\ UNCHANGED <<phase, handler, account, session, authVars, steam, pipe, shut>>

\* Mutant of Destroy: the destructor leaves the session open.
DestroyKeepingTheSession(c) ==
  /\ phase = "Net" /\ ~shut
  /\ Alive(c) /\ c \in closing
  /\ handler' = [handler EXCEPT ![c] = "Destroyed"]
  /\ closing' = closing \ {c}
  /\ UNCHANGED <<phase, account, session, authVars, steam, pipe, shut>>

\* The driver's tick destroys the handler of a closed connection, and the
\* destructor asks for the end of the session it held.
Destroy(c) ==
  /\ phase = "Net" /\ ~shut
  /\ Alive(c) /\ c \in closing
  /\ handler' = [handler EXCEPT ![c] = "Destroyed"]
  /\ closing' = closing \ {c}
  /\ queue' = IF session[c] # NoSession THEN Append(queue, EndOp(session[c]))
              ELSE queue
  /\ UNCHANGED <<phase, account, session, running, sessions, nextIndex, login,
                 steam, pipe, shut>>

\* The game logs an account out.  Bound: once per account.
RequestLogout(a) ==
  /\ phase = "Net" /\ ~shut
  /\ login[a] = "LoggedIn"
  /\ login' = [login EXCEPT ![a] = "Leaving"]
  /\ queue' = Append(queue, LogoutOp(a))
  /\ UNCHANGED <<phase, netVars, running, sessions, nextIndex, steam, pipe, shut>>

-----------------------------------------------------------------------------
(* FOnlineServicesSteam::Tick, first the deadlines and then the pipe.      *)

TickTimeouts ==
  /\ phase = "Net" /\ ~shut
  /\ phase' = "Pump"
  /\ UNCHANGED <<netVars, authVars, steam, pipe, shut>>

\* Mutant of Expire: a timeout is an error like the others and closes nothing.
ExpireLeavingTheSession ==
  /\ phase = "Net" /\ ~shut
  /\ running # NoConn
  /\ Refuse(running)
  /\ running' = NoConn
  /\ phase' = "Pump"
  /\ UNCHANGED <<handler, account, session, queue, sessions, nextIndex, login,
                 steam, pipe, shut>>

\* Mutant of Expire: the handler is not told.
ExpireUnannounced ==
  /\ phase = "Net" /\ ~shut
  /\ running # NoConn
  /\ StopTracking({account[running]})
  /\ running' = NoConn
  /\ phase' = "Pump"
  /\ UNCHANGED <<netVars, queue, sessions, nextIndex, login, pipe, shut>>

\* The request in flight ran into its deadline.  Steam may have a session
\* open for it, so it is closed; the handler refuses the player.
Expire ==
  /\ phase = "Net" /\ ~shut
  /\ running # NoConn
  /\ StopTracking({account[running]})
  /\ Refuse(running)
  /\ running' = NoConn
  /\ phase' = "Pump"
  /\ UNCHANGED <<handler, account, session, queue, sessions, nextIndex, login,
                 pipe, shut>>

\* A verdict the request in flight is waiting for: only the user is compared.
Awaited(m) == running # NoConn /\ account[running] = m.user

\* Steam vouched for the user.  The session is recorded and handed to the
\* handler; if that is gone, the answer is to end it again, and whether it
\* does hangs on a member read after the handler was destroyed.
AnswerGranted ==
  /\ phase = "Pump" /\ ~shut /\ pipe # <<>>
  /\ Awaited(Head(pipe)) /\ Head(pipe).ok
  /\ pipe' = Tail(pipe)
  /\ sessions' = sessions \cup {[id |-> nextIndex, user |-> Head(pipe).user]}
  /\ nextIndex' = nextIndex + 1
  /\ running' = NoConn
  /\ IF Alive(running)
     THEN /\ session' = [session EXCEPT ![running] = nextIndex]
          /\ handler' = [handler EXCEPT ![running] = "Ready"]
          /\ UNCHANGED queue
     ELSE /\ \E valid \in FreedAuthReads :
               queue' = IF valid THEN Append(queue, EndOp(nextIndex)) ELSE queue
          /\ UNCHANGED <<session, handler>>
  /\ UNCHANGED <<phase, closing, account, login, steam, shut>>

\* Mutant of Forget: the session is ended at Steam and stays in the map.
ForgetNothing(user) == UNCHANGED <<sessions>> /\ user \in Users

\* A recorded session of the user is forgotten.
Forget(user) ==
  IF user \in UsersOf(sessions)
  THEN \E s \in sessions : s.user = user /\ sessions' = sessions \ {s}
  ELSE UNCHANGED sessions

\* Mutant of AnswerRefused: a refusal is taken for the end of the session.
AnswerRefusedLeavingTheSession ==
  /\ phase = "Pump" /\ ~shut /\ pipe # <<>>
  /\ Awaited(Head(pipe)) /\ ~Head(pipe).ok
  /\ pipe' = Tail(pipe)
  /\ Forget(Head(pipe).user)
  /\ Refuse(running)
  /\ running' = NoConn
  /\ UNCHANGED <<phase, handler, account, session, queue, nextIndex, login,
                 steam, shut>>

\* Steam refused the user.  MakeResult closes what the request opened, and
\* the component's own listener sees the same message.
AnswerRefused ==
  /\ phase = "Pump" /\ ~shut /\ pipe # <<>>
  /\ Awaited(Head(pipe)) /\ ~Head(pipe).ok
  /\ pipe' = Tail(pipe)
  /\ StopTracking({Head(pipe).user})
  /\ Forget(Head(pipe).user)
  /\ Refuse(running)
  /\ running' = NoConn
  /\ UNCHANGED <<phase, handler, account, session, queue, nextIndex, login, shut>>

\* A verdict no request waits for: a session that was granted is withdrawn,
\* anything else is dropped.
OnAuthSessionVerdict ==
  /\ phase = "Pump" /\ ~shut /\ pipe # <<>>
  /\ ~Awaited(Head(pipe))
  /\ pipe' = Tail(pipe)
  /\ IF ~Head(pipe).ok /\ Head(pipe).user \in UsersOf(sessions)
     THEN StopTracking({Head(pipe).user}) /\ Forget(Head(pipe).user)
     ELSE UNCHANGED <<steam, sessions>>
  /\ UNCHANGED <<phase, netVars, queue, running, nextIndex, login, shut>>

\* Mutant of PumpDone: a pump that may stop before the pipe is empty.
PumpDoneEarly ==
  /\ phase = "Pump" /\ ~shut
  /\ phase' = "Queue"
  /\ UNCHANGED <<netVars, authVars, steam, pipe, shut>>

PumpDone ==
  /\ phase = "Pump" /\ ~shut /\ pipe = <<>>
  /\ phase' = "Queue"
  /\ UNCHANGED <<netVars, authVars, steam, pipe, shut>>

-----------------------------------------------------------------------------
(* The serial queue, ticked last: one operation at a time.                 *)

Starts(kind) ==
  /\ phase = "Queue" /\ ~shut
  /\ running = NoConn
  /\ queue # <<>> /\ Head(queue).op = kind
  /\ queue' = Tail(queue)

\* Steam takes the ticket for checking; it does so once per user.
BeginAccepted ==
  /\ Starts("Begin")
  /\ LET c == Head(queue).conn  u == account[c] IN
       /\ steam[u] = Untracked
       /\ steam' = [steam EXCEPT ![u] = [stage |-> "Checking", ticket |-> c]]
       /\ running' = c
  /\ UNCHANGED <<phase, netVars, sessions, nextIndex, login, pipe, shut>>

\* Mutant of BeginRejected: every failure closes a session of that user, as a
\* timeout does.
BeginRejectedClosing ==
  /\ Starts("Begin")
  /\ LET u == account[Head(queue).conn] IN StopTracking({u}) /\ Forget(u)
  /\ Refuse(Head(queue).conn)
  /\ UNCHANGED <<phase, handler, account, session, running, nextIndex, login,
                 pipe, shut>>

\* The parameters or Steam itself (DuplicateRequest among the reasons) turn
\* the ticket down at once.
BeginRejected ==
  /\ Starts("Begin")
  /\ Refuse(Head(queue).conn)
  /\ UNCHANGED <<phase, handler, account, session, running, sessions, nextIndex,
                 login, steam, pipe, shut>>

\* EndVerifiedAuthSession; a session that is not recorded is NotFound.
EndVerified ==
  /\ Starts("End")
  /\ LET ended == {s \in sessions : s.id = Head(queue).id} IN
       /\ StopTracking(UsersOf(ended))
       /\ sessions' = sessions \ ended
  /\ UNCHANGED <<phase, netVars, running, nextIndex, login, pipe, shut>>

\* Logging the game server out ends every session; logging a user out
\* cancels the tickets that user issued, which are not modelled here.
Logout ==
  /\ Starts("Logout")
  /\ login' = [login EXCEPT ![Head(queue).who] = "NotLoggedIn"]
  /\ IF Head(queue).who = "server"
     THEN StopTracking(UsersOf(sessions)) /\ sessions' = {}
     ELSE UNCHANGED <<steam, sessions>>
  /\ UNCHANGED <<phase, netVars, running, nextIndex, pipe, shut>>

QueueDone ==
  /\ phase = "Queue" /\ ~shut
  /\ running # NoConn \/ queue = <<>>
  /\ phase' = "Net"
  /\ UNCHANGED <<netVars, authVars, steam, pipe, shut>>

-----------------------------------------------------------------------------
\* FOnlineServicesSteam::Destroy: PreShutdown ends what is recorded, then
\* CancelAll fails the request in flight, whose continuation ends its own.
\* What was queued or posted finds nobody any more.
Shutdown ==
  /\ phase = "Net" /\ ~shut
  /\ StopTracking(UsersOf(sessions)
                    \cup (IF running = NoConn THEN {} ELSE {account[running]}))
  /\ sessions' = {}
  /\ IF running = NoConn THEN UNCHANGED closing ELSE Refuse(running)
  /\ running' = NoConn
  /\ queue' = <<>>
  /\ pipe' = <<>>
  /\ shut' = TRUE
  /\ UNCHANGED <<phase, handler, account, session, nextIndex, login>>

-----------------------------------------------------------------------------
(* Steam, at any moment.                                                   *)

Posts(u, stage, ok) ==
  /\ steam' = [steam EXCEPT ![u] = [stage |-> stage, ticket |-> steam[u].ticket]]
  /\ pipe' = Append(pipe, [user |-> u, ok |-> ok, ticket |-> steam[u].ticket])
  /\ UNCHANGED <<phase, netVars, authVars, shut>>

SteamAnswers(u) ==
  /\ ~shut /\ steam[u].stage = "Checking"
  /\ Posts(u, "Vouched", TRUE) \/ Posts(u, "Refused", FALSE)

SteamWithdraws(u) ==
  /\ ~shut /\ steam[u].stage = "Vouched"
  /\ Posts(u, "Refused", FALSE)

-----------------------------------------------------------------------------
NetStep == \E c \in Conns :
  HandshakeBegin(c) \/ ReceiveTicket(c) \/ Close(c) \/ Destroy(c)

SteamStep == \E u \in Users : SteamAnswers(u) \/ SteamWithdraws(u)

PumpStep == AnswerGranted \/ AnswerRefused \/ OnAuthSessionVerdict

QueueStep == BeginAccepted \/ BeginRejected \/ EndVerified \/ Logout

FrameStep == TickTimeouts \/ Expire \/ PumpStep \/ PumpDone \/ QueueStep \/ QueueDone

Next ==
  \/ NetStep
  \/ SteamStep
  \/ FrameStep
  \/ \E a \in Accounts : RequestLogout(a)
  \/ Shutdown

Spec == Init /\ [][Next]_vars

\* The engine ticks the services every frame and the driver destroys what it
\* closed; a deadline passes.  Steam and the peers promise nothing.
Fairness ==
  /\ WF_vars(FrameStep)
  /\ SF_vars(Expire)
  /\ \A c \in Conns : SF_vars(Destroy(c))

FairSpec == Spec /\ Fairness

-----------------------------------------------------------------------------
(* Properties.                                                             *)

\* Every variable holds values the program can hold, and only a connection
\* whose handler exists is being closed.
TypeOK ==
  /\ phase \in {"Net", "Pump", "Queue"}
  /\ handler \in [Conns -> {"Unborn", "WaitingForTicket", "WaitingForVerdict",
                            "Ready", "Destroyed"}]
  /\ closing \subseteq {c \in Conns : Alive(c)}
  /\ account \in [Conns -> Users \cup {NoUser}]
  /\ session \in [Conns -> Nat]
  /\ queue \in Seq(Ops)
  /\ running \in Conns \cup {NoConn}
  /\ sessions \subseteq [id : Nat, user : Users]
  /\ nextIndex \in Nat
  /\ steam \in [Users -> Tracked \cup {Untracked}]
  /\ pipe \in Seq(Verdict)
  /\ login \in [Accounts -> {"LoggedIn", "Leaving", "NotLoggedIn"}]
  /\ shut \in BOOLEAN

\* Whoever Steam tracks is accounted for: the request in flight asked for it
\* or a recorded session stands for it, so a timeout, a refusal, a logout and
\* a shutdown leave nobody behind to be answered DuplicateRequest for ever.
SteamIsAccountedFor ==
  \A u \in Users : steam[u] # Untracked =>
    (running # NoConn /\ account[running] = u) \/ u \in UsersOf(sessions)

\* VerifiedAuthSessions claims nothing Steam does not track, and has a user
\* once: Steam tracks the user of the request in flight, who is not recorded.
RecordedOnce ==
  /\ \A s \in sessions : steam[s.user] # Untracked
  /\ \A s, t \in sessions : s.user = t.user \/ s.id = t.id => s = t
  /\ running # NoConn => /\ account[running] \notin UsersOf(sessions)
                         /\ steam[account[running]] # Untracked

\* Every recorded session is still somebody's to close: a handler that exists
\* holds it, or its end is queued.
EverySessionHasACloser ==
  \A s \in sessions :
    \/ \E c \in Conns : Alive(c) /\ session[c] = s.id
    \/ \E i \in 1..Len(queue) : queue[i] = EndOp(s.id)

\* What the proofs add to make the three above inductive.  A verification that
\* is queued or in flight belongs to a handler that holds no session yet, and
\* each has one; indices are not reused; Steam checks nothing but the ticket of
\* the request in flight; and a grant still in the pipe is for that ticket,
\* unless the request expired earlier in this frame.
Requested(c) ==
  /\ account[c] \in Users
  /\ handler[c] \in {"WaitingForVerdict", "Destroyed"}
  /\ session[c] = NoSession

RequestsPending ==
  /\ \A c \in Conns : handler[c] \in {"Unborn", "WaitingForTicket"} =>
       session[c] = NoSession
  /\ running # NoConn => Requested(running)
  /\ \A i \in 1..Len(queue) : queue[i].op = "Begin" =>
       Requested(queue[i].conn) /\ queue[i].conn # running
  /\ \A i, j \in 1..Len(queue) :
       queue[i].op = "Begin" /\ queue[j].op = "Begin" /\ queue[i].conn = queue[j].conn
         => i = j

IndicesUsed == nextIndex # NoSession /\ \A s \in sessions : s.id \in 1..(nextIndex - 1)

ChecksForTheRequest == \A u \in Users : steam[u].stage = "Checking" =>
  steam[u].ticket = running /\ running # NoConn /\ account[running] = u

GrantsInThePipe == \A i \in 1..Len(pipe) : pipe[i].ok =>
  IF running = NoConn THEN phase = "Pump"
  ELSE pipe[i].ticket = running /\ steam[account[running]].stage # "Checking"

\* A player who was let in stays vouched for until Steam says otherwise, the
\* server logs out or the services go: no other connection of that user, no
\* late answer and no end of another session takes the session away.
OnlySteamTakesASession ==
  [][\A c \in Conns : \A s \in sessions :
       (Alive(c) /\ session[c] = s.id /\ s \notin sessions') =>
         \/ pipe # <<>> /\ pipe' = Tail(pipe)
              /\ Head(pipe).user = s.user /\ ~Head(pipe).ok
         \/ login' # login
         \/ shut']_vars

\* A session is granted on Steam's verdict on the very ticket that was offered,
\* although the verdict only names the user: an answer to an earlier request
\* that timed out never vouches for a later one.
GrantedForItsOwnTicket ==
  [][nextIndex' # nextIndex => Head(pipe).ticket = running]_vars

\* Nobody waits for a verdict for ever, whether Steam answers or not.
EveryTicketIsAnswered ==
  \A c \in Conns : handler[c] = "WaitingForVerdict" ~>
    handler[c] # "WaitingForVerdict" \/ c \in closing \/ shut

Connected(u) == \E c \in Conns : Alive(c) /\ account[c] = u

\* A user with no connection left is dropped by Steam, so that the next attempt
\* is not turned down as a duplicate.
NobodyIsLockedOut ==
  \A u \in Users : (steam[u] # Untracked /\ ~Connected(u)) ~>
    steam[u] = Untracked \/ Connected(u)

\* The listener of the component says of a verdict: "A refusal of a
\* verification still in flight belongs to the request which asked for it".
RefusalBelongsToItsRequest ==
  [][pipe # <<>> /\ pipe' = Tail(pipe) /\ Awaited(Head(pipe)) /\ ~Head(pipe).ok
       => Head(pipe).ticket = running]_vars

\* Logout says of what is asked for as an identity: "Left behind, they outlive
\* the login they belong to".  The identity that verifies is the game server
\* where there is one and the user otherwise.
VerifyingAccount == IF "server" \in Accounts THEN "server" ELSE "user"

NothingOutlivesTheLogin ==
  [][\A a \in Accounts :
       (a = VerifyingAccount /\ login[a] = "Leaving" /\ login'[a] = "NotLoggedIn")
         => sessions' = {}]_vars
=============================================================================
