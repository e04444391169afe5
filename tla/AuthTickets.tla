---------------------------- MODULE AuthTickets ----------------------------
(***************************************************************************)
(* The tickets a client proves itself with, from the call that issues one  *)
(* to the call that withdraws it (FAuthSteam and the client's end of       *)
(* FAuthHandlerSteam).                                                     *)
(*                                                                         *)
(* Steam makes a ticket good the moment it is asked for and confirms it    *)
(* later; what is confirmed is recorded in IssuedAuthTickets so that it    *)
(* can be withdrawn.  A connection asks for a ticket of its own and        *)
(* cancels it when its handler goes; the game asks for tokens to show to   *)
(* somebody else.  All of it runs through one serial queue.  A ticket is   *)
(* named by the request it was issued for.                                 *)
(***************************************************************************)
EXTENDS Naturals, Sequences

CONSTANTS
  Conns,    \* the connections a ticket is asked for, each once
  Tokens,   \* the tokens the game asks for, each once
  None      \* no request

ASSUME ConstantsAssumption == Conns \cap Tokens = {} /\ None \notin Conns \cup Tokens

VARIABLES
  handler,    \* the state of each connection's handler
  held,       \* IssuedTicket of each handler, NoTicket for none
  queue,      \* GetSerialQueue(): operations not started yet
  running,    \* the request whose ticket awaits Steam's confirmation
  issued,     \* IssuedAuthTickets
  nextIndex,  \* NextAuthTicketIndex
  good,       \* Steam: the tickets that are good wherever they are shown
  loggedIn,   \* the user's login
  shut        \* the services were destroyed

handlerVars == <<handler, held>>
vars == <<handlerVars, queue, running, issued, nextIndex, good, loggedIn, shut>>

NoTicket == 0
Asked    == Conns \cup Tokens
Recorded == {t.request : t \in issued}

IssueOp(r)   == [op |-> "Issue", request |-> r]
CancelOp(id) == [op |-> "Cancel", id |-> id]
LogoutOp     == [op |-> "Logout"]

Init ==
  /\ handler = [c \in Conns |-> "Unborn"]
  /\ held = [c \in Conns |-> NoTicket]
  /\ queue = <<>> /\ running = None
  /\ issued = {} /\ nextIndex = 1 /\ good = {}
  /\ loggedIn = TRUE /\ shut = FALSE

-----------------------------------------------------------------------------
Alive(c) == handler[c] \in {"Asking", "Offered", "Ready"}

\* CancelAuthTicket: Steam withdraws the tickets it is told of.
Withdraw(tickets) == good' = good \ {t.request : t \in tickets}

\* The continuation of a request that failed: a connection that is still there
\* goes on without proof.
GoOnUnproved(r) ==
  /\ handler' = IF r \in Conns /\ Alive(r) THEN [handler EXCEPT ![r] = "Ready"] ELSE handler
  /\ UNCHANGED held

AskForTicket(c) ==
  /\ ~shut /\ handler[c] = "Unborn"
  /\ handler' = [handler EXCEPT ![c] = "Asking"]
  /\ queue' = Append(queue, IssueOp(c))
  /\ UNCHANGED <<held, running, issued, nextIndex, good, loggedIn, shut>>

\* QueryExternalAuthToken.  Bound: not while that token is asked for or good.
AskForToken(t) ==
  /\ ~shut /\ t \notin good /\ t # running
  /\ \A i \in 1..Len(queue) : queue[i] # IssueOp(t)
  /\ queue' = Append(queue, IssueOp(t))
  /\ UNCHANGED <<handlerVars, running, issued, nextIndex, good, loggedIn, shut>>

\* The server took the ticket; the connection is ready with it.
ServerTakesTicket(c) ==
  /\ ~shut /\ handler[c] = "Offered"
  /\ handler' = [handler EXCEPT ![c] = "Ready"]
  /\ UNCHANGED <<held, queue, running, issued, nextIndex, good, loggedIn, shut>>

\* Mutant of DestroyHandler: the ticket is left to whoever holds it.
DestroyHandlerOnly(c) ==
  /\ ~shut /\ Alive(c)
  /\ handler' = [handler EXCEPT ![c] = "Destroyed"]
  /\ UNCHANGED <<held, queue, running, issued, nextIndex, good, loggedIn, shut>>

\* The connection ends, and with it its handler, which cancels its ticket.
DestroyHandler(c) ==
  /\ ~shut /\ Alive(c)
  /\ handler' = [handler EXCEPT ![c] = "Destroyed"]
  /\ queue' = IF held[c] # NoTicket THEN Append(queue, CancelOp(held[c])) ELSE queue
  /\ UNCHANGED <<held, running, issued, nextIndex, good, loggedIn, shut>>

RequestLogout ==
  /\ ~shut /\ loggedIn /\ \A i \in 1..Len(queue) : queue[i] # LogoutOp
  /\ queue' = Append(queue, LogoutOp)
  /\ UNCHANGED <<handlerVars, running, issued, nextIndex, good, loggedIn, shut>>

-----------------------------------------------------------------------------
(* The serial queue: one operation at a time.                              *)

Starts(kind) ==
  /\ ~shut /\ running = None
  /\ queue # <<>> /\ Head(queue).op = kind
  /\ queue' = Tail(queue)

\* Mutant of IssueTicket: a handle that is no ticket is waited for all the same.
IssueUnchecked ==
  /\ Starts("Issue") /\ loggedIn
  /\ running' = Head(queue).request
  /\ UNCHANGED <<handlerVars, issued, nextIndex, good, loggedIn, shut>>

\* Steam hands the ticket over and confirms it later.
IssueTicket ==
  /\ Starts("Issue") /\ loggedIn
  /\ running' = Head(queue).request
  /\ good' = good \cup {Head(queue).request}
  /\ UNCHANGED <<handlerVars, issued, nextIndex, loggedIn, shut>>

\* Nobody is logged in, or Steam has no ticket to give.
IssueFails ==
  /\ Starts("Issue")
  /\ GoOnUnproved(Head(queue).request)
  /\ UNCHANGED <<running, issued, nextIndex, good, loggedIn, shut>>

\* CancelVerifiedAuthTicket; a ticket that is not recorded is NotFound.
CancelTicket ==
  /\ Starts("Cancel")
  /\ LET cancelled == {t \in issued : t.id = Head(queue).id} IN
       Withdraw(cancelled) /\ issued' = issued \ cancelled
  /\ UNCHANGED <<handlerVars, running, nextIndex, loggedIn, shut>>

\* Mutant of Logout: Steam withdraws the tickets and the map keeps them.
LogoutWithdrawsOnly ==
  /\ Starts("Logout")
  /\ Withdraw(issued)
  /\ loggedIn' = FALSE
  /\ UNCHANGED <<handlerVars, running, issued, nextIndex, shut>>

\* Logging the user out withdraws every ticket that is recorded.
Logout ==
  /\ Starts("Logout")
  /\ Withdraw(issued) /\ issued' = {}
  /\ loggedIn' = FALSE
  /\ UNCHANGED <<handlerVars, running, nextIndex, shut>>

-----------------------------------------------------------------------------
(* What ends the request in flight.                                        *)

\* Mutant of Confirmed: the index is not advanced.
ConfirmedUncounted ==
  /\ ~shut /\ running # None
  /\ running' = None
  /\ IF running \in Conns
     THEN /\ issued' = issued \cup {[id |-> nextIndex, request |-> running]}
          /\ IF Alive(running)
             THEN /\ handler' = [handler EXCEPT ![running] = "Offered"]
                  /\ held' = [held EXCEPT ![running] = nextIndex]
             ELSE UNCHANGED handlerVars
     ELSE UNCHANGED <<issued, handlerVars>>
  /\ UNCHANGED <<queue, nextIndex, good, loggedIn, shut>>

\* Steam confirms the ticket.  A connection's ticket is recorded and handed to
\* its handler, if that is still there; a token is handed to the game.
Confirmed ==
  /\ ~shut /\ running # None
  /\ running' = None
  /\ IF running \in Conns
     THEN /\ issued' = issued \cup {[id |-> nextIndex, request |-> running]}
          /\ nextIndex' = nextIndex + 1
          /\ IF Alive(running)
             THEN /\ handler' = [handler EXCEPT ![running] = "Offered"]
                  /\ held' = [held EXCEPT ![running] = nextIndex]
             ELSE UNCHANGED handlerVars
     ELSE UNCHANGED <<issued, nextIndex, handlerVars>>
  /\ UNCHANGED <<queue, good, loggedIn, shut>>

\* Steam does not stand by it.
NotConfirmed ==
  /\ ~shut /\ running # None
  /\ running' = None
  /\ good' = good \ {running}
  /\ GoOnUnproved(running)
  /\ UNCHANGED <<queue, issued, nextIndex, loggedIn, shut>>

\* The request ran into its deadline before Steam said anything.
Expire ==
  /\ ~shut /\ running # None
  /\ running' = None
  /\ GoOnUnproved(running)
  /\ UNCHANGED <<queue, issued, nextIndex, good, loggedIn, shut>>

\* Destroy: PreShutdown withdraws what is recorded, CancelAll fails the request.
Shutdown ==
  /\ ~shut /\ shut' = TRUE
  /\ Withdraw(issued) /\ issued' = {}
  /\ IF running # None THEN GoOnUnproved(running) ELSE UNCHANGED handlerVars
  /\ running' = None /\ queue' = <<>>
  /\ UNCHANGED <<nextIndex, loggedIn>>

-----------------------------------------------------------------------------
QueueStep   == IssueTicket \/ IssueFails \/ CancelTicket \/ Logout
RequestEnds == Confirmed \/ NotConfirmed \/ Expire

Next ==
  \/ \E c \in Conns : AskForTicket(c) \/ ServerTakesTicket(c) \/ DestroyHandler(c)
  \/ \E t \in Tokens : AskForToken(t)
  \/ RequestLogout \/ QueueStep \/ RequestEnds \/ Shutdown

Spec == Init /\ [][Next]_vars

\* The queue is ticked every frame and a deadline passes.
FairSpec == Spec /\ WF_vars(QueueStep) /\ WF_vars(RequestEnds)

-----------------------------------------------------------------------------
(* Properties.                                                             *)

\* Every variable holds values the program can hold, and a request in flight
\* has a ticket that Steam handed over.
TypeOK ==
  /\ handler \in [Conns -> {"Unborn", "Asking", "Offered", "Ready", "Destroyed"}]
  /\ held \in [Conns -> Nat]
  /\ \A i \in 1..Len(queue) :
       \/ queue[i].op = "Issue" /\ queue[i].request \in Asked
       \/ queue[i].op = "Cancel" /\ queue[i].id \in Nat
       \/ queue[i] = LogoutOp
  /\ running \in Asked \cup {None}
  /\ issued \subseteq [id : Nat, request : Conns]
  /\ nextIndex \in Nat
  /\ good \subseteq Asked
  /\ loggedIn \in BOOLEAN /\ shut \in BOOLEAN
  /\ running # None => running \in good

\* The record and Steam agree: what is recorded is good, under one number, and
\* is recorded only while the user whose ticket it is is logged in.
RecordedIsGood ==
  /\ Recorded \subseteq good
  /\ \A s, t \in issued : s.id = t.id \/ s.request = t.request => s = t
  /\ issued # {} => loggedIn

\* The ticket a connection offered is its own and stays good for as long as the
\* connection lives, unless the user logs out or the services go: no other
\* connection that ends, and no late cancel, takes it away.
OfferedStaysGood ==
  \A c \in Conns : (Alive(c) /\ held[c] # NoTicket /\ loggedIn /\ ~shut) =>
    [id |-> held[c], request |-> c] \in issued

\* Once a connection that offered a ticket is gone the ticket is withdrawn, so
\* that whoever still holds it drops the session.
TicketsGoWithTheirConnection ==
  \A c \in Conns : (handler[c] = "Destroyed" /\ held[c] # NoTicket) ~> c \notin good

\* PreShutdown says of users and tickets: "nothing is left behind here".
NothingIsLeftBehind == shut => good = {}
=============================================================================
