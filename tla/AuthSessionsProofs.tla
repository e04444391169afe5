------------------------- MODULE AuthSessionsProofs -------------------------
(***************************************************************************)
(* Proofs about AuthSessions, for any number of users and connections.     *)
(***************************************************************************)
EXTENDS AuthSessions, TLAPS

-----------------------------------------------------------------------------
(* Types.                                                                  *)

\* The initial state is well typed.
LEMMA InitTypes == Init => TypeOK
<1> SUFFICES ASSUME Init PROVE TypeOK
  OBVIOUS
<1> USE DEF Init
<1>1. handler \in [Conns -> {"Unborn", "WaitingForTicket", "WaitingForVerdict",
                            "Ready", "Destroyed"}]
  OBVIOUS
<1>2. account \in [Conns -> Users \cup {NoUser}] /\ session \in [Conns -> Nat]
  BY DEF NoSession
<1>3. steam \in [Users -> Tracked \cup {Untracked}]
  OBVIOUS
<1>4. login \in [Accounts -> {"LoggedIn", "Leaving", "NotLoggedIn"}]
  OBVIOUS
<1>5. queue \in Seq(Ops) /\ pipe \in Seq(Verdict)
  OBVIOUS
<1> QED BY <1>1, <1>2, <1>3, <1>4, <1>5 DEF TypeOK

\* Every step keeps the types.
LEMMA StepTypes == TypeOK /\ [Next]_vars => TypeOK'
<1> SUFFICES ASSUME TypeOK, [Next]_vars PROVE TypeOK'
  OBVIOUS
<1> USE DEF TypeOK
<1>1. ASSUME NEW c \in Conns, HandshakeBegin(c) PROVE TypeOK'
  BY <1>1 DEF HandshakeBegin, authVars, Alive
<1>2. ASSUME NEW c \in Conns, ReceiveTicket(c) PROVE TypeOK'
  <2>1. BeginOp(c) \in Ops
    BY DEF BeginOp, Ops
  <2>2. CASE UNCHANGED <<handler, queue>>
    <3>1. PICK u \in Users \cup {NoUser} : account' = [account EXCEPT ![c] = u]
      BY <1>2 DEF ReceiveTicket
    <3>2. account' \in [Conns -> Users \cup {NoUser}]
      BY <3>1
    <3>3. closing' \subseteq {d \in Conns : Alive(d)}
      BY <1>2 DEF ReceiveTicket, Refuse, Alive
    <3> QED BY <1>2, <2>2, <3>2, <3>3 DEF ReceiveTicket, Alive
  <2>3. CASE /\ queue' = Append(queue, BeginOp(c))
             /\ handler' = [handler EXCEPT ![c] = "WaitingForVerdict"]
             /\ UNCHANGED closing
    <3>1. account' \in [Conns -> Users \cup {NoUser}]
      BY <1>2 DEF ReceiveTicket
    <3>2. queue' \in Seq(Ops)
      BY <2>1, <2>3
    <3>3. closing' \subseteq {d \in Conns : Alive(d)'}
      BY <2>3 DEF Alive
    <3> QED BY <1>2, <2>3, <3>1, <3>2, <3>3 DEF ReceiveTicket
  <2> QED BY <1>2, <2>2, <2>3 DEF ReceiveTicket
<1>3. ASSUME NEW c \in Conns, Close(c) PROVE TypeOK'
  BY <1>3 DEF Close, authVars, Alive
<1>4. ASSUME NEW c \in Conns, Destroy(c) PROVE TypeOK'
  <2>1. EndOp(session[c]) \in Ops
    BY DEF EndOp, Ops
  <2> QED BY <1>4, <2>1 DEF Destroy, Alive
<1>5. ASSUME NEW a \in Accounts, RequestLogout(a) PROVE TypeOK'
  <2>1. LogoutOp(a) \in Ops
    BY DEF LogoutOp, Ops
  <2> QED BY <1>5, <2>1 DEF RequestLogout, netVars, Alive
<1>6. CASE TickTimeouts
  BY <1>6 DEF TickTimeouts, netVars, authVars, Alive
<1>7. CASE Expire
  BY <1>7, ConstantsAssumption DEF Expire, StopTracking, Refuse, Alive, Untracked
<1>8. CASE AnswerGranted
  <2>1. Head(pipe) \in Verdict /\ Tail(pipe) \in Seq(Verdict)
    BY <1>8 DEF AnswerGranted
  <2>2. EndOp(nextIndex) \in Ops
    BY DEF EndOp, Ops
  <2>3. running \in Conns /\ running' = NoConn
    BY <1>8 DEF AnswerGranted, Awaited
  <2>4. [id |-> nextIndex, user |-> Head(pipe).user] \in [id : Nat, user : Users]
    BY <2>1 DEF Verdict
  <2>5. closing' = closing /\ \A c \in Conns : Alive(c) => Alive(c)'
    BY <1>8, <2>3 DEF AnswerGranted, Alive
  <2>6. sessions' \subseteq [id : Nat, user : Users] /\ nextIndex' \in Nat
        /\ pipe' \in Seq(Verdict) /\ running' \in Conns \cup {NoConn}
    BY <1>8, <2>1, <2>3, <2>4 DEF AnswerGranted
  <2>7. CASE Alive(running)
    <3>1. /\ session' = [session EXCEPT ![running] = nextIndex]
          /\ handler' = [handler EXCEPT ![running] = "Ready"]
          /\ queue' = queue
      BY <1>8, <2>7 DEF AnswerGranted
    <3>2. session' \in [Conns -> Nat] /\ queue' \in Seq(Ops)
      BY <3>1
    <3>3. handler' \in [Conns -> {"Unborn", "WaitingForTicket",
                                 "WaitingForVerdict", "Ready", "Destroyed"}]
      BY <3>1
    <3> QED BY <1>8, <2>5, <2>6, <3>2, <3>3 DEF AnswerGranted
  <2>8. CASE ~Alive(running)
    <3>1. queue' \in {queue, Append(queue, EndOp(nextIndex))}
      BY <1>8, <2>8, Zenon DEF AnswerGranted
    <3>2. UNCHANGED <<session, handler>>
      BY <1>8, <2>8 DEF AnswerGranted
    <3>3. queue' \in Seq(Ops)
      <4>1. Append(queue, EndOp(nextIndex)) \in Seq(Ops)
        BY <2>2
      <4> QED BY <3>1, <4>1
    <3> QED BY <1>8, <2>5, <2>6, <3>2, <3>3 DEF AnswerGranted
  <2> QED BY <2>7, <2>8
<1>9. CASE AnswerRefused
  <2>1. Head(pipe) \in Verdict /\ Tail(pipe) \in Seq(Verdict)
    BY <1>9 DEF AnswerRefused
  <2> QED BY <1>9, <2>1, ConstantsAssumption
      DEF AnswerRefused, StopTracking, Refuse, Alive, Untracked, Forget, Awaited
<1>10. CASE OnAuthSessionVerdict
  <2>1. Head(pipe) \in Verdict /\ Tail(pipe) \in Seq(Verdict)
    BY <1>10 DEF OnAuthSessionVerdict
  <2> QED BY <1>10, <2>1
      DEF OnAuthSessionVerdict, StopTracking, Forget, Untracked, netVars, Alive
<1>11. CASE PumpDone
  BY <1>11 DEF PumpDone, netVars, authVars, Alive
<1>12. CASE BeginAccepted
  <2>1. Head(queue) \in Ops /\ Tail(queue) \in Seq(Ops)
    BY <1>12 DEF BeginAccepted, Starts
  <2>2. Head(queue).conn \in Conns
    BY <1>12, <2>1 DEF BeginAccepted, Starts, Ops
  <2> QED BY <1>12, <2>1, <2>2 DEF BeginAccepted, Starts, netVars, Alive, Tracked
<1>13. CASE BeginRejected
  <2>1. Head(queue) \in Ops /\ Tail(queue) \in Seq(Ops)
    BY <1>13 DEF BeginRejected, Starts
  <2>2. Head(queue).conn \in Conns
    BY <1>13, <2>1 DEF BeginRejected, Starts, Ops
  <2> QED BY <1>13, <2>1, <2>2 DEF BeginRejected, Starts, Refuse, Alive
<1>14. CASE EndVerified
  <2>1. Tail(queue) \in Seq(Ops)
    BY <1>14 DEF EndVerified, Starts
  <2> QED BY <1>14, <2>1 DEF EndVerified, Starts, StopTracking, Untracked, netVars, Alive
<1>15. CASE Logout
  <2>1. Tail(queue) \in Seq(Ops)
    BY <1>15 DEF Logout, Starts
  <2> QED BY <1>15, <2>1 DEF Logout, Starts, StopTracking, Untracked, netVars, Alive
<1>16. CASE QueueDone
  BY <1>16 DEF QueueDone, netVars, authVars, Alive
<1>17. CASE Shutdown
  <2>1. closing' \in {closing, closing \cup {running}}
        /\ (closing' # closing => running \in Conns /\ Alive(running))
    BY <1>17 DEF Shutdown, Refuse
  <2>2. \A c \in Conns : Alive(c)' <=> Alive(c)
    BY <1>17 DEF Shutdown, Alive
  <2> QED BY <1>17, <2>1, <2>2 DEF Shutdown, StopTracking, Untracked
<1>18. \A u \in Users, stage \in {"Vouched", "Refused"}, ok \in BOOLEAN :
         steam[u] # Untracked /\ Posts(u, stage, ok) => TypeOK'
  <2> SUFFICES ASSUME NEW u \in Users, NEW stage \in {"Vouched", "Refused"},
                      NEW ok \in BOOLEAN, steam[u] # Untracked, Posts(u, stage, ok)
               PROVE  TypeOK'
    OBVIOUS
  <2>1. steam[u].ticket \in Conns
    BY DEF Tracked
  <2>2. [user |-> u, ok |-> ok, ticket |-> steam[u].ticket] \in Verdict
    BY <2>1 DEF Verdict
  <2>3. [stage |-> stage, ticket |-> steam[u].ticket] \in Tracked
    BY <2>1 DEF Tracked
  <2> QED BY <2>2, <2>3 DEF Posts, netVars, authVars, Alive
<1>19. ASSUME NEW u \in Users, SteamAnswers(u) \/ SteamWithdraws(u) PROVE TypeOK'
  <2>1. steam[u] # Untracked
    <3>1. steam[u].stage = "Checking" \/ steam[u].stage = "Vouched"
      BY <1>19, Zenon DEF SteamAnswers, SteamWithdraws
    <3>2. Untracked.stage = "None"
      BY DEF Untracked
    <3> QED BY <3>1, <3>2
  <2>2. \/ Posts(u, "Vouched", TRUE)
        \/ Posts(u, "Refused", FALSE)
    BY <1>19 DEF SteamAnswers, SteamWithdraws
  <2>3. CASE Posts(u, "Vouched", TRUE)
    BY <1>18, <2>1, <2>3, Zenon
  <2>4. CASE Posts(u, "Refused", FALSE)
    <3>1. "Refused" \in {"Vouched", "Refused"}
      OBVIOUS
    <3> QED BY <1>18, <2>1, <2>4, <3>1, Zenon
  <2> QED BY <2>2, <2>3, <2>4
<1>20. CASE UNCHANGED vars
  BY <1>20 DEF vars, netVars, authVars, Alive
<1> QED
  BY <1>1, <1>2, <1>3, <1>4, <1>5, <1>6, <1>7, <1>8, <1>9, <1>10, <1>11, <1>12,
     <1>13, <1>14, <1>15, <1>16, <1>17, <1>19, <1>20
  DEF Next, NetStep, SteamStep, FrameStep, PumpStep, QueueStep

\* The services' handlers, queue and ledger always hold values of their types.
THEOREM TypeCorrect == Spec => []TypeOK
BY InitTypes, StepTypes, PTL DEF Spec

-----------------------------------------------------------------------------
(* Sequences.                                                              *)

\* Appending keeps every element where it is and puts the new one last.
LEMMA Appended ==
  ASSUME NEW S, NEW s \in Seq(S), NEW e \in S
  PROVE  /\ Append(s, e) \in Seq(S)
         /\ Len(Append(s, e)) = Len(s) + 1
         /\ \A i \in 1..(Len(s) + 1) :
              Append(s, e)[i] = IF i = Len(s) + 1 THEN e ELSE s[i]
OBVIOUS

\* Dropping the head moves every other element one place down.
LEMMA Dropped ==
  ASSUME NEW S, NEW s \in Seq(S), s # <<>>
  PROVE  /\ Head(s) \in S /\ Head(s) = s[1]
         /\ Tail(s) \in Seq(S)
         /\ Len(s) \in Nat \ {0} /\ Len(Tail(s)) = Len(s) - 1
         /\ \A i \in 1..(Len(s) - 1) : Tail(s)[i] = s[i + 1]
OBVIOUS

-----------------------------------------------------------------------------
(* Requests.                                                               *)

\* A verification queued or in flight is its connection's only one, and that
\* connection holds no session yet.
LEMMA RequestsStayPending ==
  TypeOK /\ TypeOK' /\ RequestsPending /\ [Next]_vars => RequestsPending'
<1> SUFFICES ASSUME TypeOK, TypeOK', RequestsPending, [Next]_vars
             PROVE  RequestsPending'
  OBVIOUS
<1> USE DEF RequestsPending, Requested
<1>t. /\ queue \in Seq(Ops) /\ queue' \in Seq(Ops)
      /\ handler \in [Conns -> {"Unborn", "WaitingForTicket", "WaitingForVerdict",
                               "Ready", "Destroyed"}]
      /\ account \in [Conns -> Users \cup {NoUser}]
      /\ session \in [Conns -> Nat]
      /\ running \in Conns \cup {NoConn}
  BY DEF TypeOK
<1>b. \A i \in 1..Len(queue) : queue[i].op = "Begin" => queue[i].conn \in Conns
  BY <1>t DEF Ops
<1>1. ASSUME NEW c \in Conns, HandshakeBegin(c) PROVE RequestsPending'
  BY <1>t, <1>b, <1>1 DEF HandshakeBegin, authVars
<1>2. ASSUME NEW c \in Conns, ReceiveTicket(c) PROVE RequestsPending'
  <2>1. c # running /\ \A i \in 1..Len(queue) : queue[i].op = "Begin" => queue[i].conn # c
    BY <1>t, <1>2, ConstantsAssumption DEF ReceiveTicket
  <2>2. \A d \in Conns : d # c => account'[d] = account[d]
    BY <1>t, <1>2 DEF ReceiveTicket
  <2>3. running' = running /\ session' = session
    BY <1>2 DEF ReceiveTicket
  <2>4. CASE UNCHANGED <<handler, queue>>
    BY <1>t, <1>b, <2>1, <2>2, <2>3, <2>4
  <2>5. CASE /\ \E u \in Users : account' = [account EXCEPT ![c] = u]
             /\ queue' = Append(queue, BeginOp(c))
             /\ handler' = [handler EXCEPT ![c] = "WaitingForVerdict"]
    <3>1. /\ Len(queue') = Len(queue) + 1
          /\ \A i \in 1..(Len(queue) + 1) :
               queue'[i] = IF i = Len(queue) + 1 THEN BeginOp(c) ELSE queue[i]
      <4>1. BeginOp(c) \in Ops
        BY DEF BeginOp, Ops
      <4> QED BY <1>t, <2>5, <4>1, Appended
    <3>2. account'[c] \in Users /\ handler'[c] = "WaitingForVerdict"
          /\ session'[c] = NoSession
      BY <1>t, <1>2, <2>3, <2>5 DEF ReceiveTicket
    <3>3. \A d \in Conns : d # c => account'[d] = account[d] /\ handler'[d] = handler[d]
                                    /\ session'[d] = session[d]
      BY <1>t, <2>2, <2>3, <2>5
    <3>4. BeginOp(c).op = "Begin" /\ BeginOp(c).conn = c
      BY DEF BeginOp
    <3>5. \A i \in 1..Len(queue') : \/ i \in 1..Len(queue) /\ queue'[i] = queue[i]
                                    \/ i = Len(queue) + 1 /\ queue'[i] = BeginOp(c)
      BY <1>t, <3>1
    <3>6. \A d \in Conns : handler'[d] \in {"Unborn", "WaitingForTicket"} =>
            session'[d] = NoSession
      BY <3>2, <3>3
    <3>7. \A d \in Conns : Requested(d) \/ d = c => Requested(d)'
      BY <3>2, <3>3
    <3>8. running' # NoConn => Requested(running)'
      BY <1>t, <2>3, <3>7
    <3>9. \A i \in 1..Len(queue') : queue'[i].op = "Begin" =>
            Requested(queue[i].conn)' /\ queue'[i].conn # running'
      BY <1>b, <2>1, <2>3, <3>4, <3>5, <3>7
    <3>10. \A i, j \in 1..Len(queue') :
             queue'[i].op = "Begin" /\ queue'[j].op = "Begin"
                /\ queue'[i].conn = queue'[j].conn => i = j
      BY <2>1, <3>4, <3>5
    <3> QED BY <3>6, <3>8, <3>9, <3>10
  <2> QED BY <1>2, <2>4, <2>5 DEF ReceiveTicket
<1>a. ASSUME NEW o \in Ops, o.op # "Begin", queue' \in {queue, Append(queue, o)},
             running' \in {running, NoConn},
             \A c \in Conns : Requested(c) =>
               Requested(c)' \/ (c = running /\ running' = NoConn),
             \A c \in Conns : handler'[c] \in {"Unborn", "WaitingForTicket"} =>
               handler'[c] = handler[c] /\ session'[c] = session[c]
      PROVE RequestsPending'
  <2>1. CASE queue' = queue
    <3>1. \A c \in Conns : handler'[c] \in {"Unborn", "WaitingForTicket"} =>
            session'[c] = NoSession
      BY <1>a
    <3>2. running' # NoConn => Requested(running)'
      BY <1>t, <1>a, ConstantsAssumption
    <3>3. \A i \in 1..Len(queue') : queue'[i].op = "Begin" =>
            Requested(queue[i].conn)' /\ queue'[i].conn # running'
      BY <1>b, <1>a, <2>1, ConstantsAssumption
    <3> QED BY <2>1, <3>1, <3>2, <3>3
  <2>2. CASE queue' = Append(queue, o)
    <3>1. /\ Len(queue') = Len(queue) + 1
          /\ \A i \in 1..(Len(queue) + 1) :
               queue'[i] = IF i = Len(queue) + 1 THEN o ELSE queue[i]
      BY <1>t, <2>2, Appended
    <3>2. \A i \in 1..Len(queue') : queue'[i].op = "Begin" =>
            i \in 1..Len(queue) /\ queue'[i] = queue[i]
      BY <1>t, <1>a, <3>1
    <3>3. \A c \in Conns : handler'[c] \in {"Unborn", "WaitingForTicket"} =>
            session'[c] = NoSession
      BY <1>a
    <3>4. running' # NoConn => Requested(running)'
      BY <1>t, <1>a, ConstantsAssumption
    <3>5. \A i \in 1..Len(queue') : queue'[i].op = "Begin" =>
            Requested(queue[i].conn)' /\ queue'[i].conn # running'
      BY <1>b, <1>a, <3>2, ConstantsAssumption
    <3>6. \A i, j \in 1..Len(queue') :
             queue'[i].op = "Begin" /\ queue'[j].op = "Begin"
                /\ queue'[i].conn = queue'[j].conn => i = j
      BY <3>2
    <3> QED BY <3>3, <3>4, <3>5, <3>6
  <2> QED BY <1>a, <2>1, <2>2
<1>3. ASSUME NEW c \in Conns, Destroy(c) PROVE RequestsPending'
  <2>1. EndOp(session[c]) \in Ops /\ EndOp(session[c]).op # "Begin"
    BY <1>t DEF EndOp, Ops
  <2> QED BY <1>t, <1>3, <1>a, <2>1 DEF Destroy
<1>4. ASSUME NEW a \in Accounts, RequestLogout(a) PROVE RequestsPending'
  <2>1. LogoutOp(a) \in Ops /\ LogoutOp(a).op # "Begin"
    BY DEF LogoutOp, Ops
  <2> QED BY <1>t, <1>4, <1>a, <2>1 DEF RequestLogout, netVars
<1>5. ASSUME UNCHANGED <<queue, handler, account, session>>, running' \in {running, NoConn}
      PROVE RequestsPending'
  BY <1>t, <1>b, <1>5, ConstantsAssumption
<1>6. CASE AnswerGranted
  <2>1. EndOp(nextIndex) \in Ops /\ EndOp(nextIndex).op # "Begin"
    BY DEF EndOp, Ops, TypeOK
  <2>2. queue' \in {queue, Append(queue, EndOp(nextIndex))}
    BY <1>6, Zenon DEF AnswerGranted
  <2>3. running \in Conns /\ running' = NoConn /\ account' = account
    BY <1>t, <1>6 DEF AnswerGranted, Awaited
  <2>4. \A c \in Conns : c # running => handler'[c] = handler[c] /\ session'[c] = session[c]
    BY <1>t, <1>6 DEF AnswerGranted
  <2>5. handler'[running] \in {"Ready", "Destroyed"}
    BY <1>t, <1>6, <2>3, ConstantsAssumption DEF AnswerGranted, Alive
  <2>6. \A c \in Conns : handler'[c] \in {"Unborn", "WaitingForTicket"} =>
           handler'[c] = handler[c] /\ session'[c] = session[c]
    BY <2>4, <2>5
  <2>7. \A c \in Conns : Requested(c) =>
           Requested(c)' \/ (c = running /\ running' = NoConn)
    BY <2>3, <2>4
  <2> QED BY <1>a, <2>1, <2>2, <2>3, <2>6, <2>7
<1>d. ASSUME queue # <<>>, queue' = Tail(queue)
      PROVE  /\ Head(queue) = queue[1] /\ 1 \in 1..Len(queue)
             /\ \A i \in 1..Len(queue') : /\ i + 1 \in 2..Len(queue)
                                         /\ queue'[i] = queue[i + 1]
  BY <1>t, <1>d, Dropped
<1>7. CASE BeginAccepted
  <2>1. UNCHANGED <<handler, account, session>> /\ queue # <<>> /\ queue' = Tail(queue)
        /\ Head(queue).op = "Begin" /\ running' = Head(queue).conn
    BY <1>7 DEF BeginAccepted, Starts, netVars
  <2>2. Requested(running') /\ running' \in Conns
    BY <1>b, <1>d, <2>1
  <2>3. \A i \in 1..Len(queue') : queue'[i].op = "Begin" => queue'[i].conn # running'
    BY <1>d, <2>1
  <2>4. \A i \in 1..Len(queue') : queue'[i].op = "Begin" => Requested(queue[i].conn)'
    BY <1>b, <1>d, <2>1
  <2>5. \A i, j \in 1..Len(queue') :
             queue'[i].op = "Begin" /\ queue'[j].op = "Begin"
                /\ queue'[i].conn = queue'[j].conn => i = j
    BY <1>t, <1>d, <2>1
  <2> QED BY <2>1, <2>2, <2>3, <2>4, <2>5
<1>8. ASSUME UNCHANGED <<handler, account, session, running>>, queue # <<>>,
             queue' = Tail(queue)
      PROVE RequestsPending'
  <2>1. \A i \in 1..Len(queue') : queue'[i].op = "Begin" =>
           Requested(queue[i].conn)' /\ queue'[i].conn # running'
    BY <1>b, <1>d, <1>8
  <2>2. \A i, j \in 1..Len(queue') :
             queue'[i].op = "Begin" /\ queue'[j].op = "Begin"
                /\ queue'[i].conn = queue'[j].conn => i = j
    BY <1>t, <1>d, <1>8
  <2> QED BY <1>8, <2>1, <2>2
<1>9. CASE Shutdown
  BY <1>9 DEF Shutdown
<1> QED
  BY <1>1, <1>2, <1>3, <1>4, <1>5, <1>6, <1>7, <1>8, <1>9
  DEF Next, NetStep, SteamStep, FrameStep, PumpStep, QueueStep, Close,
      TickTimeouts, Expire, AnswerRefused, OnAuthSessionVerdict, PumpDone,
      BeginRejected, EndVerified, Logout, QueueDone, SteamAnswers,
      SteamWithdraws, Posts, Starts, vars, netVars, authVars

-----------------------------------------------------------------------------
(* The ledger and the session map.                                         *)

\* The users of a map with one more session.
LEMMA UsersOfOneMore ==
  ASSUME NEW ss, NEW i, NEW u
  PROVE  UsersOf(ss \cup {[id |-> i, user |-> u]}) = UsersOf(ss) \cup {u}
<1>1. [id |-> i, user |-> u].user = u
  OBVIOUS
<1> QED BY <1>1 DEF UsersOf

\* What is at the head of the pipe is a verdict on a user.
LEMMA HeadOfPipe == TypeOK /\ pipe # <<>> => Head(pipe) \in Verdict /\ Head(pipe).user \in Users
<1> SUFFICES ASSUME TypeOK, pipe # <<>> PROVE Head(pipe) \in Verdict /\ Head(pipe).user \in Users
  OBVIOUS
<1>1. pipe \in Seq(Verdict)
  BY DEF TypeOK
<1>2. Head(pipe) \in Verdict
  BY <1>1, Dropped
<1> QED BY <1>2 DEF Verdict

\* What is at the head of the queue is an operation.
LEMMA HeadOfQueue ==
  TypeOK /\ queue # <<>> =>
    Head(queue) \in Ops /\ (Head(queue).op = "Begin" => Head(queue).conn \in Conns)
<1> SUFFICES ASSUME TypeOK, queue # <<>>
             PROVE  Head(queue) \in Ops /\ (Head(queue).op = "Begin" => Head(queue).conn \in Conns)
  OBVIOUS
<1>1. queue \in Seq(Ops)
  BY DEF TypeOK
<1>2. Head(queue) \in Ops
  BY <1>1, Dropped
<1> QED BY <1>2 DEF Ops

\* Indices are handed out in order and never again.
LEMMA IndicesStayUsed ==
  TypeOK /\ IndicesUsed /\ [Next]_vars => IndicesUsed'
<1> SUFFICES ASSUME TypeOK, IndicesUsed, [Next]_vars PROVE IndicesUsed'
  OBVIOUS
<1> USE DEF IndicesUsed, NoSession
<1>t. nextIndex \in Nat /\ sessions \subseteq [id : Nat, user : Users]
  BY DEF TypeOK
<1>1. CASE AnswerGranted
  BY <1>t, <1>1 DEF AnswerGranted
<1>2. ASSUME sessions' \subseteq sessions, nextIndex' = nextIndex PROVE IndicesUsed'
  BY <1>t, <1>2
<1>3. ASSUME NEW u, Forget(u) PROVE sessions' \subseteq sessions
  BY <1>3 DEF Forget
<1>4. ASSUME AnswerRefused \/ OnAuthSessionVerdict
      PROVE  sessions' \subseteq sessions /\ nextIndex' = nextIndex
  BY <1>3, <1>4 DEF AnswerRefused, OnAuthSessionVerdict
<1> QED
  BY <1>1, <1>2, <1>4
  DEF Next, NetStep, SteamStep, FrameStep, PumpStep, QueueStep, HandshakeBegin,
      ReceiveTicket, Close, Destroy, RequestLogout, TickTimeouts, Expire, PumpDone,
      BeginAccepted, BeginRejected, EndVerified, Logout, QueueDone, Shutdown,
      SteamAnswers, SteamWithdraws, Posts, vars, netVars, authVars

\* Nobody is tracked by Steam without a request or a recorded session.
LEMMA SteamStaysAccountedFor ==
  TypeOK /\ RequestsPending /\ SteamIsAccountedFor /\ [Next]_vars => SteamIsAccountedFor'
<1> SUFFICES ASSUME TypeOK, RequestsPending, SteamIsAccountedFor, [Next]_vars
             PROVE  SteamIsAccountedFor'
  OBVIOUS
<1> USE DEF SteamIsAccountedFor, UsersOf
<1>t. /\ steam \in [Users -> Tracked \cup {Untracked}]
      /\ running \in Conns \cup {NoConn}
      /\ account \in [Conns -> Users \cup {NoUser}]
      /\ sessions \subseteq [id : Nat, user : Users]
      /\ queue \in Seq(Ops)
  BY DEF TypeOK
<1>1. ASSUME UNCHANGED <<steam, running, account, sessions>> PROVE SteamIsAccountedFor'
  BY <1>1
<1>2. ASSUME NEW c \in Conns, ReceiveTicket(c) PROVE SteamIsAccountedFor'
  <2>1. running # c
    BY <1>2, ConstantsAssumption DEF ReceiveTicket, RequestsPending, Requested
  <2>2. running # NoConn => account'[running] = account[running]
    BY <1>t, <1>2, <2>1 DEF ReceiveTicket
  <2> QED BY <1>2, <2>2 DEF ReceiveTicket
<1>3. CASE Expire
  BY <1>t, <1>3 DEF Expire, StopTracking
<1>4. CASE AnswerGranted
  <2>1. /\ sessions' = sessions \cup {[id |-> nextIndex, user |-> account[running]]}
        /\ UNCHANGED <<steam, account>>
    BY <1>4 DEF AnswerGranted, Awaited
  <2>2. UsersOf(sessions)' = UsersOf(sessions) \cup {account[running]}
    <3> HIDE DEF UsersOf
    <3> QED BY <2>1, UsersOfOneMore
  <2> QED BY <2>1, <2>2 DEF UsersOf
<1>5. ASSUME NEW u \in Users, Forget(u), StopTracking({u}), account' = account,
             running' = running \/ account[running] = u
      PROVE SteamIsAccountedFor'
  BY <1>t, <1>5 DEF Forget, StopTracking
<1>6. CASE AnswerRefused \/ OnAuthSessionVerdict
  <2>1. Head(pipe).user \in Users
    BY <1>6, HeadOfPipe DEF AnswerRefused, OnAuthSessionVerdict
  <2>2. CASE AnswerRefused
    BY <1>5, <2>1, <2>2 DEF AnswerRefused, Awaited
  <2>3. CASE OnAuthSessionVerdict
    BY <1>1, <1>5, <2>1, <2>3 DEF OnAuthSessionVerdict, netVars
  <2> QED BY <1>6, <2>2, <2>3
<1>7. CASE BeginAccepted
  <2> DEFINE c == Head(queue).conn
  <2>1. /\ running = NoConn /\ running' = c
        /\ UNCHANGED <<account, sessions>>
        /\ steam' = [steam EXCEPT ![account[c]] = [stage |-> "Checking", ticket |-> c]]
    BY <1>7 DEF BeginAccepted, Starts, netVars
  <2>2. \A v \in Users : v # account[c] => steam'[v] = steam[v]
    BY <1>t, <2>1
  <2>3. c \in Conns
    BY <1>7, HeadOfQueue DEF BeginAccepted, Starts
  <2>4. running' # NoConn
    BY <2>1, <2>3, ConstantsAssumption
  <2> QED BY <2>1, <2>2, <2>4
<1>8. CASE EndVerified
  BY <1>t, <1>8 DEF EndVerified, Starts, StopTracking, netVars
<1>9. CASE Logout
  BY <1>t, <1>9 DEF Logout, Starts, StopTracking, netVars
<1>10. CASE Shutdown
  BY <1>t, <1>10 DEF Shutdown, StopTracking
<1>11. ASSUME NEW u \in Users, SteamAnswers(u) \/ SteamWithdraws(u)
       PROVE SteamIsAccountedFor'
  <2>1. steam[u] # Untracked
    <3>1. steam[u].stage = "Checking" \/ steam[u].stage = "Vouched"
      BY <1>11, Zenon DEF SteamAnswers, SteamWithdraws
    <3>2. Untracked.stage = "None"
      BY DEF Untracked
    <3> QED BY <3>1, <3>2
  <2>2. (\A v \in Users : v # u => steam'[v] = steam[v])
        /\ UNCHANGED <<running, account, sessions>>
    BY <1>t, <1>11 DEF SteamAnswers, SteamWithdraws, Posts, netVars, authVars
  <2> QED BY <2>1, <2>2
<1> QED
  BY <1>1, <1>2, <1>3, <1>4, <1>6, <1>7, <1>8, <1>9, <1>10, <1>11
  DEF Next, NetStep, SteamStep, FrameStep, PumpStep, QueueStep, HandshakeBegin,
      Close, Destroy, RequestLogout, TickTimeouts, PumpDone, BeginRejected,
      QueueDone, Starts, vars, netVars, authVars

\* What is recorded is tracked, once per user, and never for the request in
\* flight.
LEMMA StaysRecordedOnce ==
  TypeOK /\ RequestsPending /\ IndicesUsed /\ RecordedOnce /\ [Next]_vars => RecordedOnce'
<1> SUFFICES ASSUME TypeOK, RequestsPending, IndicesUsed, RecordedOnce, [Next]_vars
             PROVE  RecordedOnce'
  OBVIOUS
<1> USE DEF RecordedOnce, UsersOf
<1>t. /\ steam \in [Users -> Tracked \cup {Untracked}]
      /\ running \in Conns \cup {NoConn}
      /\ account \in [Conns -> Users \cup {NoUser}]
      /\ sessions \subseteq [id : Nat, user : Users]
      /\ queue \in Seq(Ops)
      /\ nextIndex \in Nat
  BY DEF TypeOK
<1>r. running # NoConn => account[running] \in Users
  BY DEF RequestsPending, Requested
<1>1. ASSUME UNCHANGED <<steam, running, account, sessions>> PROVE RecordedOnce'
  BY <1>1
<1>2. ASSUME NEW c \in Conns, ReceiveTicket(c) PROVE RecordedOnce'
  <2>1. running # c
    BY <1>2, ConstantsAssumption DEF ReceiveTicket, RequestsPending, Requested
  <2>2. running # NoConn => account'[running] = account[running]
    BY <1>t, <1>2, <2>1 DEF ReceiveTicket
  <2> QED BY <1>2, <2>2 DEF ReceiveTicket
<1>3. ASSUME NEW us, StopTracking(us), sessions' \subseteq sessions, account' = account,
             \A s \in sessions' : s.user \notin us,
             running' = NoConn \/ (running' = running /\ account[running] \notin us)
      PROVE  RecordedOnce'
  <2>1. \A u \in Users : u \notin us => steam'[u] = steam[u]
    BY <1>t, <1>3 DEF StopTracking
  <2>2. \A s \in sessions' : s.user \in Users /\ s.user \notin us
    BY <1>t, <1>3
  <2>3. \A s \in sessions' : steam'[s.user] # Untracked
    BY <1>3, <2>1, <2>2
  <2>4. running' # NoConn => /\ running' = running /\ account' = account
                             /\ account[running] \in Users /\ account[running] \notin us
    BY <1>r, <1>3
  <2>5. running' # NoConn => /\ account'[running'] \notin UsersOf(sessions)'
                             /\ steam'[account'[running']] # Untracked
    BY <1>3, <2>1, <2>4
  <2> QED BY <1>3, <2>3, <2>5
<1>4. CASE Expire
  BY <1>3, <1>4 DEF Expire
<1>5. CASE AnswerGranted
  <2> DEFINE new == [id |-> nextIndex, user |-> account[running]]
  <2>1. /\ sessions' = sessions \cup {new} /\ running' = NoConn /\ running # NoConn
        /\ UNCHANGED <<steam, account>>
    BY <1>5 DEF AnswerGranted, Awaited
  <2>2. new.id = nextIndex /\ new.user = account[running]
    OBVIOUS
  <2>3. \A s \in sessions : s.id # new.id /\ s.user # new.user
    BY <1>t, <2>1, <2>2 DEF IndicesUsed
  <2>4. steam'[new.user] # Untracked
    BY <2>1, <2>2
  <2> HIDE DEF new
  <2> QED BY <2>1, <2>3, <2>4
<1>6. ASSUME NEW u \in Users, Forget(u)
      PROVE  sessions' \subseteq sessions /\ \A s \in sessions' : s.user # u
  BY <1>6 DEF Forget
<1>7. CASE AnswerRefused
  <2>1. Head(pipe).user \in Users
    BY <1>7, HeadOfPipe DEF AnswerRefused
  <2>2. sessions' \subseteq sessions /\ \A s \in sessions' : s.user # Head(pipe).user
    BY <1>6, <1>7, <2>1 DEF AnswerRefused
  <2>3. \A s \in sessions' : s.user \notin {Head(pipe).user}
    BY <2>2
  <2>4. /\ StopTracking({Head(pipe).user})
        /\ account' = account /\ running' = NoConn
    BY <1>7 DEF AnswerRefused
  <2> QED BY <1>3, <2>2, <2>3, <2>4, Zenon
<1>8. CASE OnAuthSessionVerdict
  <2>1. Head(pipe).user \in Users
    BY <1>8, HeadOfPipe DEF OnAuthSessionVerdict
  <2>2. CASE StopTracking({Head(pipe).user}) /\ Forget(Head(pipe).user)
    <3>1. sessions' \subseteq sessions /\ \A s \in sessions' : s.user # Head(pipe).user
      BY <1>6, <2>1, <2>2
    <3>2. account' = account /\ running' = running
          /\ (running = NoConn \/ account[running] # Head(pipe).user)
      BY <1>8 DEF OnAuthSessionVerdict, Awaited, netVars
    <3>3. \A s \in sessions' : s.user \notin {Head(pipe).user}
      BY <3>1
    <3>4. running' = NoConn \/ (running' = running /\ account[running] \notin {Head(pipe).user})
      BY <3>2
    <3> QED BY <1>3, <2>2, <3>1, <3>2, <3>3, <3>4, Zenon
  <2>3. CASE UNCHANGED <<steam, sessions>>
    BY <1>1, <1>8, <2>3 DEF OnAuthSessionVerdict, netVars
  <2> QED BY <1>8, <2>2, <2>3 DEF OnAuthSessionVerdict
<1>9. CASE BeginAccepted
  <2> DEFINE c == Head(queue).conn
  <2>1. /\ running' = c /\ UNCHANGED <<account, sessions>>
        /\ steam[account[c]] = Untracked
        /\ steam' = [steam EXCEPT ![account[c]] = [stage |-> "Checking", ticket |-> c]]
    BY <1>9 DEF BeginAccepted, Starts, netVars
  <2>2. account[c] \in Users
    BY <1>t, <1>9, Dropped DEF BeginAccepted, Starts, RequestsPending, Requested
  <2>3. \A v \in Users : v # account[c] => steam'[v] = steam[v]
    BY <1>t, <2>1
  <2>4. steam'[account[c]] # Untracked
    <3>1. steam'[account[c]].stage = "Checking"
      BY <1>t, <2>1, <2>2
    <3>2. Untracked.stage = "None"
      BY DEF Untracked
    <3> QED BY <3>1, <3>2
  <2>5. \A s \in sessions : s.user \in Users /\ s.user # account[c]
    BY <1>t, <2>1
  <2> HIDE DEF c
  <2> QED BY <2>1, <2>3, <2>4, <2>5
<1>10. CASE EndVerified
  <2> DEFINE ended == {s \in sessions : s.id = Head(queue).id}
  <2>1. /\ StopTracking(UsersOf(ended)) /\ sessions' = sessions \ ended
        /\ account' = account /\ running = NoConn /\ running' = running
    BY <1>10 DEF EndVerified, Starts, netVars
  <2>2. \A s \in sessions' : s.user \notin UsersOf(ended)
    BY <2>1
  <2>3. sessions' \subseteq sessions
    BY <2>1
  <2>4. running' = NoConn
    BY <2>1
  <2> HIDE DEF ended, UsersOf
  <2> QED BY <1>3, <2>1, <2>2, <2>3, <2>4, Zenon
<1>11. CASE Logout
  <2>1. CASE Head(queue).who = "server"
    BY <1>3, <1>11, <2>1 DEF Logout, Starts, netVars
  <2>2. CASE Head(queue).who # "server"
    BY <1>1, <1>11, <2>2 DEF Logout, Starts, netVars
  <2> QED BY <2>1, <2>2
<1>12. CASE Shutdown
  BY <1>12 DEF Shutdown
<1>13. ASSUME NEW u \in Users, NEW stage \in {"Vouched", "Refused"}, NEW ok,
              Posts(u, stage, ok)
       PROVE  RecordedOnce'
  <2>1. /\ \A v \in Users : v # u => steam'[v] = steam[v]
        /\ steam'[u].stage = stage
        /\ UNCHANGED <<running, account, sessions>>
    BY <1>t, <1>13 DEF Posts, netVars, authVars
  <2>2. steam'[u] # Untracked
    <3>1. Untracked.stage = "None"
      BY DEF Untracked
    <3> QED BY <2>1, <3>1
  <2> QED BY <1>t, <1>r, <2>1, <2>2
<1>14. ASSUME NEW u \in Users, SteamAnswers(u) \/ SteamWithdraws(u)
       PROVE  RecordedOnce'
  <2>1. CASE Posts(u, "Vouched", TRUE)
    BY <1>13, <2>1
  <2>2. CASE Posts(u, "Refused", FALSE)
    BY <1>13, <2>2
  <2> QED BY <1>14, <2>1, <2>2 DEF SteamAnswers, SteamWithdraws
<1> QED
  BY <1>1, <1>2, <1>4, <1>5, <1>7, <1>8, <1>9, <1>10, <1>11, <1>12, <1>14
  DEF Next, NetStep, SteamStep, FrameStep, PumpStep, QueueStep, HandshakeBegin,
      Close, Destroy, RequestLogout, TickTimeouts, PumpDone, BeginRejected,
      QueueDone, Starts, vars, netVars, authVars

\* As long as the memory of a destroyed handler still says that there are
\* services, every recorded session has somebody who will end it.
LEMMA SessionsKeepACloser ==
  ASSUME FALSE \notin FreedAuthReads
  PROVE  TypeOK /\ RequestsPending /\ IndicesUsed /\ EverySessionHasACloser
           /\ [Next]_vars => EverySessionHasACloser'
<1> SUFFICES ASSUME TypeOK, RequestsPending, IndicesUsed, EverySessionHasACloser,
                    [Next]_vars
             PROVE  EverySessionHasACloser'
  OBVIOUS
<1> DEFINE HeldBy(s, c) == Alive(c) /\ session[c] = s.id
           Queued(s) == \E i \in 1..Len(queue) : queue[i] = EndOp(s.id)
<1>t. /\ queue \in Seq(Ops)
      /\ handler \in [Conns -> {"Unborn", "WaitingForTicket", "WaitingForVerdict",
                               "Ready", "Destroyed"}]
      /\ session \in [Conns -> Nat]
      /\ running \in Conns \cup {NoConn}
      /\ nextIndex \in Nat
      /\ sessions \subseteq [id : Nat, user : Users]
  BY DEF TypeOK
<1>i. \A s \in sessions : (\E c \in Conns : HeldBy(s, c)) \/ Queued(s)
  BY DEF EverySessionHasACloser
<1>g. SUFFICES \A s \in sessions' : (\E c \in Conns : HeldBy(s, c)') \/ Queued(s)'
  BY DEF EverySessionHasACloser
<1>a. ASSUME NEW o \in Ops, queue' \in {queue, Append(queue, o)}, NEW s, Queued(s)
      PROVE  Queued(s)'
  <2>1. CASE queue' = queue
    BY <1>a, <2>1
  <2>2. CASE queue' = Append(queue, o)
    <3>1. /\ Len(queue') = Len(queue) + 1
          /\ \A i \in 1..(Len(queue) + 1) :
               queue'[i] = IF i = Len(queue) + 1 THEN o ELSE queue[i]
      BY <1>t, <2>2, Appended
    <3>2. Len(queue) \in Nat
      BY <1>t
    <3> QED BY <1>a, <3>1, <3>2
  <2> QED BY <1>a, <2>1, <2>2
<1>b. ASSUME NEW o \in Ops, queue' = Append(queue, o)
      PROVE  \E i \in 1..Len(queue') : queue'[i] = o
  <2>1. Len(queue) \in Nat /\ Len(queue') = Len(queue) + 1 /\ queue'[Len(queue) + 1] = o
    BY <1>t, <1>b, Appended
  <2> QED BY <2>1
<1>d. ASSUME queue # <<>>, queue' = Tail(queue), NEW s, Queued(s), Head(queue) # EndOp(s.id)
      PROVE  Queued(s)'
  <2>1. /\ Head(queue) = queue[1] /\ Len(queue) \in Nat /\ Len(queue') = Len(queue) - 1
        /\ \A i \in 1..(Len(queue) - 1) : queue'[i] = queue[i + 1]
    BY <1>t, <1>d, Dropped
  <2>2. PICK i \in 1..Len(queue) : queue[i] = EndOp(s.id)
    BY <1>d
  <2>3. i # 1 /\ i - 1 \in 1..(Len(queue) - 1) /\ queue'[i - 1] = queue[(i - 1) + 1]
    BY <1>d, <2>1, <2>2
  <2>4. queue'[i - 1] = EndOp(s.id) /\ i - 1 \in 1..Len(queue')
    BY <2>1, <2>2, <2>3
  <2> QED BY <2>4
<1>1. ASSUME UNCHANGED <<queue, session>>, sessions' \subseteq sessions,
             \A c \in Conns : Alive(c) => Alive(c)'
      PROVE  \A s \in sessions' : (\E c \in Conns : HeldBy(s, c)') \/ Queued(s)'
  BY <1>i, <1>1
<1>2. ASSUME NEW o \in Ops, queue' \in {queue, Append(queue, o)}, session' = session,
             sessions' = sessions, \A c \in Conns : Alive(c) => Alive(c)'
      PROVE  \A s \in sessions' : (\E c \in Conns : HeldBy(s, c)') \/ Queued(s)'
  <2> HIDE DEF Queued
  <2> QED BY <1>i, <1>a, <1>2
<1>3. ASSUME NEW c \in Conns, HandshakeBegin(c)
      PROVE  \A s \in sessions' : (\E d \in Conns : HeldBy(s, d)') \/ Queued(s)'
  BY <1>t, <1>1, <1>3 DEF HandshakeBegin, authVars, Alive
<1>4. ASSUME NEW c \in Conns, ReceiveTicket(c)
      PROVE  \A s \in sessions' : (\E d \in Conns : HeldBy(s, d)') \/ Queued(s)'
  <2>1. BeginOp(c) \in Ops
    BY DEF BeginOp, Ops
  <2>2. queue' \in {queue, Append(queue, BeginOp(c))}
    BY <1>4, Zenon DEF ReceiveTicket
  <2>3. \A d \in Conns : Alive(d) => Alive(d)'
    BY <1>t, <1>4 DEF ReceiveTicket, Alive
  <2> QED BY <1>2, <1>4, <2>1, <2>2, <2>3 DEF ReceiveTicket
<1>5. ASSUME NEW c \in Conns, Destroy(c)
      PROVE  \A s \in sessions' : (\E d \in Conns : HeldBy(s, d)') \/ Queued(s)'
  <2>1. EndOp(session[c]) \in Ops
    BY <1>t DEF EndOp, Ops
  <2>2. queue' \in {queue, Append(queue, EndOp(session[c]))}
    BY <1>5, Zenon DEF Destroy
  <2>3. \A d \in Conns : d # c /\ Alive(d) => Alive(d)'
    BY <1>t, <1>5 DEF Destroy, Alive
  <2>4. sessions' = sessions /\ session' = session
    BY <1>5 DEF Destroy
  <2> SUFFICES ASSUME NEW s \in sessions
               PROVE  (\E d \in Conns : HeldBy(s, d)') \/ Queued(s)'
    BY <2>4
  <2>5. CASE Queued(s)
    BY <1>a, <2>1, <2>2, <2>5
  <2>6. CASE HeldBy(s, c)
    <3>1. session[c] # NoSession
      BY <2>6 DEF IndicesUsed, NoSession
    <3>2. queue' = Append(queue, EndOp(s.id)) /\ EndOp(s.id) \in Ops
      BY <1>5, <2>1, <2>6, <3>1 DEF Destroy
    <3> QED BY <1>b, <3>2
  <2>7. CASE \E d \in Conns : d # c /\ HeldBy(s, d)
    BY <2>3, <2>4, <2>7
  <2> QED BY <1>i, <2>5, <2>6, <2>7
<1>6. ASSUME NEW a \in Accounts, RequestLogout(a)
      PROVE  \A s \in sessions' : (\E d \in Conns : HeldBy(s, d)') \/ Queued(s)'
  <2>1. LogoutOp(a) \in Ops
    BY DEF LogoutOp, Ops
  <2>2. queue' \in {queue, Append(queue, LogoutOp(a))}
        /\ UNCHANGED <<session, sessions, handler>>
    BY <1>6 DEF RequestLogout, netVars
  <2>3. \A d \in Conns : Alive(d) => Alive(d)'
    BY <2>2 DEF Alive
  <2> QED BY <1>2, <2>1, <2>2, <2>3
<1>7. CASE AnswerGranted
  <2>1. PICK new : sessions' = sessions \cup {new} /\ new.id = nextIndex
    <3>1. [id |-> nextIndex, user |-> Head(pipe).user].id = nextIndex
      OBVIOUS
    <3> QED BY <1>7, <3>1 DEF AnswerGranted
  <2>r. running \in Conns
    BY <1>t, <1>7 DEF AnswerGranted, Awaited
  <2>2. session[running] = NoSession
    BY <1>7 DEF AnswerGranted, Awaited, RequestsPending, Requested
  <2>3. EndOp(nextIndex) \in Ops
    BY <1>t DEF EndOp, Ops
  <2>4. queue' \in {queue, Append(queue, EndOp(nextIndex))}
    BY <1>7, Zenon DEF AnswerGranted
  <2>5. \A d \in Conns : d # running => (Alive(d) => Alive(d)') /\ session'[d] = session[d]
    BY <1>t, <1>7 DEF AnswerGranted, Alive
  <2>6. ASSUME NEW s \in sessions
        PROVE  (\E d \in Conns : HeldBy(s, d)') \/ Queued(s)'
    <3>1. s.id # NoSession
      BY <1>t DEF IndicesUsed, NoSession
    <3>2. CASE Queued(s)
      BY <1>a, <2>3, <2>4, <3>2
    <3>3. CASE \E d \in Conns : HeldBy(s, d)
      BY <2>2, <2>5, <2>r, <3>1, <3>3
    <3> QED BY <1>i, <3>2, <3>3
  <2>7. (\E d \in Conns : HeldBy(new, d)') \/ Queued(new)'
    <3>1. CASE Alive(running)
      <4>1. session'[running] = nextIndex /\ handler'[running] = "Ready"
        BY <1>t, <1>7, <2>r, <3>1 DEF AnswerGranted
      <4> QED BY <2>1, <2>r, <4>1 DEF Alive
    <3>2. CASE ~Alive(running)
      <4>1. PICK valid \in FreedAuthReads :
              queue' = IF valid THEN Append(queue, EndOp(nextIndex)) ELSE queue
        BY <1>7, <3>2, Zenon DEF AnswerGranted
      <4>2. valid = TRUE
        BY ConstantsAssumption
      <4>3. queue' = Append(queue, EndOp(nextIndex))
        BY <4>1, <4>2
      <4>4. \E i \in 1..Len(queue') : queue'[i] = EndOp(nextIndex)
        BY <1>b, <2>3, <4>3
      <4> QED BY <2>1, <4>4
    <3> QED BY <3>1, <3>2
  <2> QED BY <2>1, <2>6, <2>7
<1>8. CASE AnswerRefused \/ OnAuthSessionVerdict
  <2>1. sessions' \subseteq sessions /\ UNCHANGED <<queue, session, handler>>
    BY <1>8 DEF AnswerRefused, OnAuthSessionVerdict, Forget, netVars
  <2> QED BY <1>1, <2>1 DEF Alive
<1>9. CASE BeginAccepted \/ BeginRejected
  <2>1. /\ UNCHANGED <<session, handler, sessions>>
        /\ queue # <<>> /\ queue' = Tail(queue) /\ Head(queue).op = "Begin"
    BY <1>9 DEF BeginAccepted, BeginRejected, Starts, netVars
  <2>2. \A s : Head(queue) # EndOp(s.id)
    BY <2>1 DEF EndOp
  <2>3. \A s \in sessions : Queued(s) => Queued(s)'
    BY <1>d, <2>1, <2>2
  <2> QED BY <1>i, <2>1, <2>3 DEF Alive
<1>10. CASE EndVerified
  <2>1. /\ UNCHANGED <<session, handler>> /\ sessions' \subseteq sessions
        /\ queue # <<>> /\ queue' = Tail(queue)
        /\ \A s \in sessions' : s.id # Head(queue).id
    BY <1>10 DEF EndVerified, Starts, netVars
  <2>2. \A s \in sessions' : Head(queue) # EndOp(s.id)
    BY <2>1 DEF EndOp
  <2>3. \A s \in sessions' : Queued(s) => Queued(s)'
    BY <1>d, <2>1, <2>2
  <2> QED BY <1>i, <2>1, <2>3 DEF Alive
<1>11. CASE Logout
  <2>1. /\ UNCHANGED <<session, handler>> /\ sessions' \subseteq sessions
        /\ queue # <<>> /\ queue' = Tail(queue) /\ Head(queue).op = "Logout"
    BY <1>11 DEF Logout, Starts, netVars
  <2>2. \A s : Head(queue) # EndOp(s.id)
    BY <2>1 DEF EndOp
  <2>3. \A s \in sessions' : Queued(s) => Queued(s)'
    BY <1>d, <2>1, <2>2
  <2> QED BY <1>i, <2>1, <2>3 DEF Alive
<1>12. CASE Shutdown
  BY <1>12 DEF Shutdown
<1>13. CASE /\ UNCHANGED <<queue, session, handler, sessions>>
  BY <1>1, <1>13 DEF Alive
<1> HIDE DEF HeldBy, Queued
<1> QED
  BY <1>3, <1>4, <1>5, <1>6, <1>7, <1>8, <1>9, <1>10, <1>11, <1>12, <1>13
  DEF Next, NetStep, SteamStep, FrameStep, PumpStep, QueueStep, Close,
      TickTimeouts, Expire, PumpDone, QueueDone, SteamAnswers, SteamWithdraws,
      Posts, vars, netVars, authVars

-----------------------------------------------------------------------------
(* Verdicts.                                                               *)

\* Steam checks the ticket of the request in flight and no other, and a grant
\* that is still in the pipe answers that ticket.
LEMMA GrantsStayInOrder ==
  TypeOK /\ TypeOK' /\ RequestsPending /\ RecordedOnce /\ ChecksForTheRequest
    /\ GrantsInThePipe /\ [Next]_vars => ChecksForTheRequest' /\ GrantsInThePipe'
<1> SUFFICES ASSUME TypeOK, TypeOK', RequestsPending, RecordedOnce,
                    ChecksForTheRequest, GrantsInThePipe, [Next]_vars
             PROVE  ChecksForTheRequest' /\ GrantsInThePipe'
  OBVIOUS
<1> USE DEF ChecksForTheRequest, GrantsInThePipe
<1>t. /\ steam \in [Users -> Tracked \cup {Untracked}]
      /\ running \in Conns \cup {NoConn}
      /\ account \in [Conns -> Users \cup {NoUser}]
      /\ pipe \in Seq(Verdict)
  BY DEF TypeOK
<1>r. running # NoConn => account[running] \in Users
  BY DEF RequestsPending, Requested
<1>u. Untracked.stage # "Checking"
  BY DEF Untracked
<1>1. ASSUME UNCHANGED <<steam, running, pipe>>,
             running # NoConn => account'[running] = account[running],
             phase' = phase \/ phase' = "Pump" \/ pipe = <<>>
      PROVE  ChecksForTheRequest' /\ GrantsInThePipe'
  BY <1>t, <1>1
<1>2. ASSUME NEW c \in Conns, ReceiveTicket(c)
      PROVE  ChecksForTheRequest' /\ GrantsInThePipe'
  <2>1. running # c
    BY <1>2, ConstantsAssumption DEF ReceiveTicket, RequestsPending, Requested
  <2>2. running # NoConn => account'[running] = account[running]
    BY <1>t, <1>2, <2>1 DEF ReceiveTicket
  <2> QED BY <1>1, <1>2, <2>2 DEF ReceiveTicket
<1>d. ASSUME pipe # <<>>, pipe' = Tail(pipe)
      PROVE  /\ Head(pipe) = pipe[1] /\ 1 \in 1..Len(pipe)
             /\ \A i \in 1..Len(pipe') : /\ i + 1 \in 1..Len(pipe)
                                        /\ pipe'[i] = pipe[i + 1]
  BY <1>t, <1>d, Dropped
<1>3. CASE Expire
  <2>1. /\ steam' = [u \in Users |-> IF u = account[running] THEN Untracked ELSE steam[u]]
        /\ running # NoConn /\ running' = NoConn /\ phase' = "Pump"
    BY <1>3 DEF Expire, StopTracking
  <2>2. \A u \in Users : steam'[u].stage # "Checking"
    BY <1>u, <2>1
  <2> QED BY <2>1, <2>2
<1>4. CASE AnswerGranted
  <2>1. /\ running # NoConn /\ running' = NoConn /\ steam' = steam /\ phase' = "Pump"
        /\ pipe # <<>> /\ pipe' = Tail(pipe) /\ Head(pipe).ok
    BY <1>4 DEF AnswerGranted, Awaited
  <2>2. steam[account[running]].stage # "Checking"
    BY <1>d, <2>1
  <2>3. \A u \in Users : steam[u].stage # "Checking"
    BY <2>2
  <2> QED BY <2>1, <2>3
<1>5. CASE AnswerRefused
  <2>1. /\ steam' = [u \in Users |-> IF u = account[running] THEN Untracked ELSE steam[u]]
        /\ running # NoConn /\ running' = NoConn /\ phase' = "Pump"
    BY <1>5 DEF AnswerRefused, StopTracking, Awaited
  <2>2. \A u \in Users : steam'[u].stage # "Checking"
    BY <1>u, <2>1
  <2> QED BY <2>1, <2>2
<1>6. CASE OnAuthSessionVerdict
  <2>1. /\ UNCHANGED <<running, account, phase>> /\ pipe # <<>> /\ pipe' = Tail(pipe)
        /\ phase = "Pump"
    BY <1>6 DEF OnAuthSessionVerdict, netVars
  <2>2. \A u \in Users : steam'[u] = steam[u] \/ steam'[u] = Untracked
    BY <1>t, <1>6 DEF OnAuthSessionVerdict, StopTracking
  <2>3. ChecksForTheRequest'
    BY <1>u, <2>1, <2>2
  <2>4. GrantsInThePipe'
    BY <1>d, <1>r, <1>u, <2>1, <2>2
  <2> QED BY <2>3, <2>4
<1>7. CASE BeginAccepted
  <2> DEFINE c == Head(queue).conn
  <2>1. /\ running = NoConn /\ running' = c /\ phase = "Queue" /\ pipe' = pipe
        /\ account' = account
        /\ steam' = [steam EXCEPT ![account[c]] = [stage |-> "Checking", ticket |-> c]]
    BY <1>7 DEF BeginAccepted, Starts, netVars
  <2>2. c \in Conns
    BY <1>7, HeadOfQueue DEF BeginAccepted, Starts
  <2>3. \A i \in 1..Len(pipe') : ~pipe'[i].ok
    BY <2>1
  <2>4. \A v \in Users : v # account[c] => steam'[v].stage # "Checking"
    BY <1>t, <2>1
  <2>5. account[c] \in Users => steam'[account[c]].ticket = c
    BY <1>t, <2>1
  <2> QED BY <2>1, <2>2, <2>3, <2>4, <2>5, ConstantsAssumption
<1>8. ASSUME NEW us, StopTracking(us), UNCHANGED <<running, account, phase, pipe>>
      PROVE  ChecksForTheRequest' /\ GrantsInThePipe'
  <2>1. \A u \in Users : steam'[u] = steam[u] \/ steam'[u] = Untracked
    BY <1>t, <1>8 DEF StopTracking
  <2>2. ChecksForTheRequest'
    BY <1>u, <1>8, <2>1
  <2>3. GrantsInThePipe'
    BY <1>r, <1>u, <1>8, <2>1
  <2> QED BY <2>2, <2>3
<1>9. CASE EndVerified \/ Logout
  <2>1. CASE UNCHANGED <<steam, running, account, phase, pipe>>
    BY <1>1, <2>1
  <2>2. UNCHANGED <<running, account, phase, pipe>>
    BY <1>9 DEF EndVerified, Logout, Starts, netVars
  <2>3. CASE \E us : StopTracking(us)
    BY <1>8, <2>2, <2>3
  <2> QED BY <1>9, <2>1, <2>2, <2>3 DEF EndVerified, Logout
<1>10. CASE Shutdown
  <2>1. /\ \A u \in Users : \/ steam'[u] = Untracked
                            \/ steam'[u] = steam[u] /\ ~(running # NoConn /\ account[running] = u)
        /\ running' = NoConn /\ pipe' = <<>>
    BY <1>t, <1>10 DEF Shutdown, StopTracking
  <2>2. \A u \in Users : steam'[u].stage # "Checking"
    BY <1>u, <2>1
  <2> QED BY <2>1, <2>2
<1>11. ASSUME NEW u \in Users, NEW stage \in {"Vouched", "Refused"}, NEW ok \in BOOLEAN,
              Posts(u, stage, ok), ok => steam[u].stage = "Checking", steam[u] # Untracked
       PROVE  ChecksForTheRequest' /\ GrantsInThePipe'
  <2> DEFINE m == [user |-> u, ok |-> ok, ticket |-> steam[u].ticket]
  <2>1. /\ steam' = [steam EXCEPT ![u] = [stage |-> stage, ticket |-> steam[u].ticket]]
        /\ pipe' = Append(pipe, m)
        /\ UNCHANGED <<running, account, phase>>
    BY <1>11 DEF Posts, netVars, authVars
  <2>2. (\A v \in Users : v # u => steam'[v] = steam[v]) /\ steam'[u].stage # "Checking"
    BY <1>t, <2>1
  <2>3. m \in Verdict /\ m.ok = ok /\ m.ticket = steam[u].ticket
    BY <1>t, <1>11 DEF Verdict, Tracked
  <2>4. /\ Len(pipe') = Len(pipe) + 1
        /\ \A i \in 1..(Len(pipe) + 1) :
             pipe'[i] = IF i = Len(pipe) + 1 THEN m ELSE pipe[i]
    BY <1>t, <2>1, <2>3, Appended
  <2>5. \A i \in 1..Len(pipe') : (i \in 1..Len(pipe) /\ pipe'[i] = pipe[i]) \/ pipe'[i] = m
    BY <1>t, <2>4
  <2>6. ChecksForTheRequest'
    BY <2>1, <2>2
  <2>7. ok => running # NoConn /\ steam[u].ticket = running /\ account[running] = u
    BY <1>11
  <2>8. GrantsInThePipe'
    BY <1>r, <2>1, <2>2, <2>3, <2>5, <2>7
  <2> QED BY <2>6, <2>8
<1>12. ASSUME NEW u \in Users, SteamAnswers(u) \/ SteamWithdraws(u)
       PROVE  ChecksForTheRequest' /\ GrantsInThePipe'
  <2>1. steam[u].stage = "Checking" \/ steam[u].stage = "Vouched"
    BY <1>12, Zenon DEF SteamAnswers, SteamWithdraws
  <2>2. steam[u] # Untracked
    <3>1. Untracked.stage = "None"
      BY DEF Untracked
    <3> QED BY <2>1, <3>1
  <2>3. CASE Posts(u, "Vouched", TRUE) /\ steam[u].stage = "Checking"
    BY <1>11, <2>2, <2>3
  <2>4. CASE Posts(u, "Refused", FALSE)
    BY <1>11, <2>2, <2>4
  <2> QED BY <1>12, <2>3, <2>4 DEF SteamAnswers, SteamWithdraws
<1>13. CASE PumpDone
  BY <1>1, <1>13 DEF PumpDone, netVars, authVars
<1>14. CASE QueueDone
  <2>1. running # NoConn \/ \A i \in 1..Len(pipe) : ~pipe[i].ok
    BY <1>14 DEF QueueDone
  <2> QED BY <1>14, <2>1 DEF QueueDone, netVars, authVars
<1> QED
  BY <1>1, <1>2, <1>3, <1>4, <1>5, <1>6, <1>7, <1>9, <1>10, <1>12, <1>13, <1>14
  DEF Next, NetStep, SteamStep, FrameStep, PumpStep, QueueStep, HandshakeBegin,
      Close, Destroy, RequestLogout, TickTimeouts, BeginRejected, Starts,
      vars, netVars, authVars

-----------------------------------------------------------------------------
(* The inductive invariant and what follows from it.                       *)

SessionsInv ==
  /\ TypeOK
  /\ RequestsPending
  /\ IndicesUsed
  /\ SteamIsAccountedFor
  /\ RecordedOnce
  /\ ChecksForTheRequest
  /\ GrantsInThePipe

\* Nobody is tracked, recorded or asked about at the start.
LEMMA SessionsInvInit == Init => SessionsInv /\ EverySessionHasACloser
<1> SUFFICES ASSUME Init PROVE SessionsInv /\ EverySessionHasACloser
  OBVIOUS
<1>1. TypeOK
  BY InitTypes
<1>2. RequestsPending /\ IndicesUsed
  BY DEF Init, RequestsPending, IndicesUsed, NoSession
<1>3. \A u \in Users : steam[u] = Untracked /\ Untracked.stage = "None"
  BY DEF Init, Untracked
<1>4. SteamIsAccountedFor /\ ChecksForTheRequest
  BY <1>3 DEF SteamIsAccountedFor, ChecksForTheRequest
<1>5. RecordedOnce /\ GrantsInThePipe /\ EverySessionHasACloser
  BY DEF Init, RecordedOnce, GrantsInThePipe, EverySessionHasACloser
<1> QED BY <1>1, <1>2, <1>4, <1>5 DEF SessionsInv

\* Every step keeps the parts of the invariant, each by the lemma of that part.
LEMMA SessionsInvStep == SessionsInv /\ [Next]_vars => SessionsInv'
BY StepTypes, RequestsStayPending, IndicesStayUsed, SteamStaysAccountedFor,
   StaysRecordedOnce, GrantsStayInOrder
DEF SessionsInv

\* The inductive invariant of the server's sessions.
THEOREM SessionsInvHolds == Spec => []SessionsInv
BY SessionsInvInit, SessionsInvStep, PTL DEF Spec

\* Steam tracks nobody behind the server's back, whatever timed out, was
\* refused, logged out or shut down.
THEOREM SteamAccounted == Spec => []SteamIsAccountedFor
BY SessionsInvHolds, PTL DEF SessionsInv

\* A user is recorded once, and only while Steam tracks them.
THEOREM RecordedOnceHolds == Spec => []RecordedOnce
BY SessionsInvHolds, PTL DEF SessionsInv

\* Every session the services granted will be ended by somebody, provided the
\* late answer's read of a destroyed handler yields what was there.
THEOREM CloserHolds ==
  ASSUME FALSE \notin FreedAuthReads
  PROVE  Spec => []EverySessionHasACloser
<1>1. SessionsInv /\ EverySessionHasACloser /\ [Next]_vars => EverySessionHasACloser'
  BY SessionsKeepACloser DEF SessionsInv
<1> QED BY <1>1, SessionsInvInit, SessionsInvHolds, PTL DEF Spec

\* A session is only granted on Steam's answer to the ticket it was asked with,
\* because the pipe is emptied between a timeout and the next request.
THEOREM GrantIsForItsTicket == Spec => GrantedForItsOwnTicket
<1>1. SessionsInv /\ [Next]_vars => [nextIndex' # nextIndex => Head(pipe).ticket = running]_vars
  <2> SUFFICES ASSUME SessionsInv, [Next]_vars, nextIndex' # nextIndex
               PROVE  Head(pipe).ticket = running
    OBVIOUS
  <2>1. AnswerGranted
    BY DEF Next, NetStep, SteamStep, FrameStep, PumpStep, QueueStep, HandshakeBegin,
      ReceiveTicket, Close, Destroy, RequestLogout, TickTimeouts, Expire,
      AnswerRefused, OnAuthSessionVerdict, PumpDone, BeginAccepted, BeginRejected,
      EndVerified, Logout, QueueDone, Shutdown, SteamAnswers, SteamWithdraws,
      Posts, vars, netVars, authVars
  <2>2. pipe \in Seq(Verdict) /\ pipe # <<>> /\ Head(pipe).ok /\ running # NoConn
    BY <2>1 DEF AnswerGranted, Awaited, SessionsInv, TypeOK
  <2>3. Head(pipe) = pipe[1] /\ 1 \in 1..Len(pipe)
    BY <2>2, Dropped
  <2> QED BY <2>2, <2>3 DEF SessionsInv, GrantsInThePipe
<1> QED BY <1>1, SessionsInvHolds, PTL DEF Spec, GrantedForItsOwnTicket

-----------------------------------------------------------------------------
(* Who may take a session.                                                 *)

\* The end of a session is asked for by the connection it was given to when that is
\* gone: none that lives holds it, nor will one.
EndsAreForTheGone ==
  /\ \A c \in Conns : session[c] < nextIndex
  /\ \A c, d \in Conns : session[c] = session[d] /\ session[c] # NoSession => c = d
  /\ \A i \in 1..Len(queue) : queue[i].op = "End" =>
       /\ queue[i].id # NoSession /\ queue[i].id < nextIndex
       /\ \A c \in Conns : Alive(c) => session[c] # queue[i].id

\* A logout that waits is its account's only one, and that account is still leaving.
LogoutsPending ==
  /\ \A i \in 1..Len(queue) : queue[i].op = "Logout" => login[queue[i].who] = "Leaving"
  /\ \A i, j \in 1..Len(queue) :
       queue[i].op = "Logout" /\ queue[j].op = "Logout" /\ queue[i].who = queue[j].who => i = j

\* Where each operation of a longer queue comes from.
LEMMA Lengthened ==
  ASSUME queue \in Seq(Ops), NEW o \in Ops, queue' = Append(queue, o)
  PROVE  \A i \in 1..Len(queue') :
           \/ i \in 1..Len(queue) /\ queue'[i] = queue[i]
           \/ i = Len(queue) + 1 /\ queue'[i] = o
<1>1. Len(queue') = Len(queue) + 1 /\ Len(queue) \in Nat BY Appended
<1> QED BY <1>1, Appended

\* Where each operation of a shorter queue comes from.
LEMMA Shortened ==
  ASSUME queue \in Seq(Ops), queue # <<>>, queue' = Tail(queue)
  PROVE  /\ 1 \in 1..Len(queue) /\ Head(queue) = queue[1]
         /\ \A i \in 1..Len(queue') : i + 1 \in 1..Len(queue) /\ i + 1 # 1 /\ queue'[i] = queue[i + 1]
<1>1. Len(queue') = Len(queue) - 1 /\ Len(queue) \in Nat \ {0} BY Dropped
<1> QED BY <1>1, Dropped

\* Every step keeps the ends that wait for connections that are gone.
LEMMA EndsStayForTheGone ==
  SessionsInv /\ EndsAreForTheGone /\ [Next]_vars => EndsAreForTheGone'
<1> SUFFICES ASSUME SessionsInv, EndsAreForTheGone, [Next]_vars PROVE EndsAreForTheGone'
  OBVIOUS
<1>t. /\ TypeOK /\ queue \in Seq(Ops) /\ nextIndex \in Nat /\ nextIndex # NoSession
      /\ \A c \in Conns : session[c] \in Nat
      /\ handler \in [Conns -> {"Unborn", "WaitingForTicket", "WaitingForVerdict", "Ready", "Destroyed"}]
  BY DEF SessionsInv, TypeOK, IndicesUsed
\* What a step does that gives out no index and asks for no end.
<1>1. ASSUME UNCHANGED <<session, nextIndex>>,
             \A c \in Conns : Alive(c)' => Alive(c) \/ session[c] = NoSession,
             \A i \in 1..Len(queue') : queue'[i].op = "End" => \E j \in 1..Len(queue) : queue[j] = queue'[i]
      PROVE  EndsAreForTheGone'
  BY <1>1 DEF EndsAreForTheGone
<1>2. ASSUME queue' = queue
      PROVE  \A i \in 1..Len(queue') : queue'[i].op = "End" => \E j \in 1..Len(queue) : queue[j] = queue'[i]
  BY <1>2
<1>3. ASSUME NEW o \in Ops, o.op # "End", queue' = Append(queue, o)
      PROVE  \A i \in 1..Len(queue') : queue'[i].op = "End" => \E j \in 1..Len(queue) : queue[j] = queue'[i]
  BY <1>t, <1>3, Lengthened
<1>4. ASSUME queue # <<>>, queue' = Tail(queue)
      PROVE  \A i \in 1..Len(queue') : queue'[i].op = "End" => \E j \in 1..Len(queue) : queue[j] = queue'[i]
  BY <1>t, <1>4, Shortened
<1>5. ASSUME NEW c \in Conns, HandshakeBegin(c) PROVE EndsAreForTheGone'
  <2>1. \A d \in Conns : Alive(d)' => Alive(d) \/ session[d] = NoSession
    BY <1>t, <1>5 DEF HandshakeBegin, Alive, SessionsInv, RequestsPending
  <2> QED BY <1>1, <1>2, <1>5, <2>1 DEF HandshakeBegin, authVars
<1>6. ASSUME NEW c \in Conns, ReceiveTicket(c) PROVE EndsAreForTheGone'
  <2>1. \A d \in Conns : Alive(d)' => Alive(d) BY <1>t, <1>6 DEF ReceiveTicket, Alive
  <2>2. BeginOp(c) \in Ops /\ BeginOp(c).op # "End" BY DEF BeginOp, Ops
  <2>3. queue' \in {queue, Append(queue, BeginOp(c))} BY <1>6, Zenon DEF ReceiveTicket
  <2> QED BY <1>1, <1>2, <1>3, <1>6, <2>1, <2>2, <2>3 DEF ReceiveTicket
<1>7. ASSUME NEW c \in Conns, Destroy(c) PROVE EndsAreForTheGone'
  <2>1. /\ \A d \in Conns : Alive(d)' => Alive(d) /\ d # c
        /\ UNCHANGED <<session, nextIndex>>
    BY <1>t, <1>7 DEF Destroy, Alive
  <2>2. CASE session[c] = NoSession
    BY <1>1, <1>2, <1>7, <2>1, <2>2 DEF Destroy
  <2>3. CASE session[c] # NoSession
    <3>1. queue' = Append(queue, EndOp(session[c])) BY <1>7, <2>3 DEF Destroy
    <3>2. EndOp(session[c]) \in Ops /\ EndOp(session[c]).id = session[c]
      BY <1>t DEF EndOp, Ops
    <3>3. \A i \in 1..Len(queue') : (\E j \in 1..Len(queue) : queue[j] = queue'[i]) \/ queue'[i] = EndOp(session[c])
      BY <1>t, <3>1, <3>2, Lengthened
    <3> QED BY <2>1, <2>3, <3>2, <3>3 DEF EndsAreForTheGone
  <2> QED BY <2>2, <2>3
<1>8. ASSUME NEW a \in Accounts, RequestLogout(a) PROVE EndsAreForTheGone'
  <2>1. LogoutOp(a) \in Ops /\ LogoutOp(a).op # "End" BY DEF LogoutOp, Ops
  <2> QED BY <1>1, <1>3, <1>8, <2>1 DEF RequestLogout, netVars, Alive
<1>9. CASE AnswerGranted
  <2>1. running \in Conns /\ nextIndex' = nextIndex + 1
    BY <1>t, <1>9 DEF AnswerGranted, Awaited, TypeOK
  <2>2. CASE Alive(running)
    <3>1. /\ session' = [session EXCEPT ![running] = nextIndex] /\ queue' = queue
          /\ handler' = [handler EXCEPT ![running] = "Ready"]
      BY <1>9, <2>2 DEF AnswerGranted
    <3>2. \A c \in Conns : session'[c] = IF c = running THEN nextIndex ELSE session[c]
      BY <1>t, <3>1 DEF TypeOK
    <3>3. \A c \in Conns : Alive(c)' => Alive(c) BY <1>t, <2>2, <3>1 DEF Alive
    <3>4. \A c \in Conns : session[c] < nextIndex /\ session'[c] < nextIndex'
      BY <1>t, <2>1, <3>2 DEF EndsAreForTheGone
    <3>5. \A c, d \in Conns : session'[c] = session'[d] /\ session'[c] # NoSession => c = d
      BY <1>t, <3>2, <3>4 DEF EndsAreForTheGone
    <3>6. \A i \in 1..Len(queue) : queue[i].op = "End" => queue[i].id \in Nat
      BY <1>t DEF Ops
    <3>7. \A i \in 1..Len(queue') : queue'[i].op = "End" =>
            /\ queue'[i].id # NoSession /\ queue'[i].id < nextIndex'
            /\ \A c \in Conns : Alive(c)' => session'[c] # queue'[i].id
      BY <1>t, <2>1, <3>1, <3>2, <3>3, <3>6 DEF EndsAreForTheGone
    <3> QED BY <3>4, <3>5, <3>7 DEF EndsAreForTheGone
  <2>3. CASE ~Alive(running)
    <3>1. /\ UNCHANGED <<session, handler>>
          /\ queue' \in {queue, Append(queue, EndOp(nextIndex))}
      BY <1>9, <2>3, Zenon DEF AnswerGranted
    <3>2. EndOp(nextIndex) \in Ops /\ EndOp(nextIndex).id = nextIndex
      BY <1>t DEF EndOp, Ops
    <3>3. \A i \in 1..Len(queue') : (\E j \in 1..Len(queue) : queue[j] = queue'[i]) \/ queue'[i] = EndOp(nextIndex)
      BY <1>t, <3>1, <3>2, Lengthened
    <3>4. \A j \in 1..Len(queue) : queue[j].op = "End" => queue[j].id \in Nat
      BY <1>t DEF Ops
    <3>5. \A c \in Conns : Alive(c)' <=> Alive(c) BY <3>1 DEF Alive
    <3>6. \A c \in Conns : session[c] < nextIndex /\ session[c] < nextIndex'
      BY <1>t, <2>1 DEF EndsAreForTheGone
    <3>7. \A i \in 1..Len(queue') : queue'[i].op = "End" =>
            /\ queue'[i].id # NoSession /\ queue'[i].id < nextIndex'
            /\ \A c \in Conns : Alive(c) => session[c] # queue'[i].id
      <4> SUFFICES ASSUME NEW i \in 1..Len(queue'), queue'[i].op = "End"
                   PROVE  /\ queue'[i].id # NoSession /\ queue'[i].id < nextIndex'
                          /\ \A c \in Conns : Alive(c) => session[c] # queue'[i].id
        OBVIOUS
      <4>1. CASE queue'[i] = EndOp(nextIndex)
        BY <1>t, <2>1, <3>2, <3>6, <4>1
      <4>2. CASE \E j \in 1..Len(queue) : queue[j] = queue'[i]
        BY <1>t, <2>1, <3>4, <4>2 DEF EndsAreForTheGone
      <4> QED BY <3>3, <4>1, <4>2
    <3> QED BY <3>1, <3>5, <3>6, <3>7 DEF EndsAreForTheGone
  <2> QED BY <2>2, <2>3
<1>10. CASE BeginAccepted \/ BeginRejected \/ EndVerified \/ Logout
  BY <1>1, <1>4, <1>10 DEF BeginAccepted, BeginRejected, EndVerified, Logout, Starts, netVars, Alive
<1>11. CASE Shutdown
  <2>1. \A i \in 1..Len(queue') : FALSE BY <1>11 DEF Shutdown
  <2> QED BY <1>1, <1>11, <2>1 DEF Shutdown, Alive
<1>12. ASSUME UNCHANGED <<handler, session, nextIndex, queue>> PROVE EndsAreForTheGone'
  BY <1>1, <1>2, <1>12 DEF Alive
<1> QED
  BY <1>5, <1>6, <1>7, <1>8, <1>9, <1>10, <1>11, <1>12
  DEF Next, NetStep, SteamStep, FrameStep, PumpStep, QueueStep, Close, TickTimeouts, Expire,
      AnswerRefused, OnAuthSessionVerdict, PumpDone, QueueDone, SteamAnswers, SteamWithdraws,
      Posts, vars, netVars, authVars

\* Every step keeps the logouts that wait for accounts that are leaving.
LEMMA LogoutsStayPending == TypeOK /\ LogoutsPending /\ [Next]_vars => LogoutsPending'
<1> SUFFICES ASSUME TypeOK, LogoutsPending, [Next]_vars PROVE LogoutsPending'
  OBVIOUS
<1>t. /\ queue \in Seq(Ops) /\ login \in [Accounts -> {"LoggedIn", "Leaving", "NotLoggedIn"}]
      /\ \A i \in 1..Len(queue) : queue[i].op = "Logout" => queue[i].who \in Accounts
  BY DEF TypeOK, Ops
<1>1. ASSUME NEW o \in Ops, o.op # "Logout", queue' \in {queue, Append(queue, o)}, login' = login
      PROVE  LogoutsPending'
  <2>1. CASE queue' = queue
    BY <1>1, <2>1 DEF LogoutsPending
  <2>2. CASE queue' = Append(queue, o)
    <3>1. \A i \in 1..Len(queue') : queue'[i].op = "Logout" => i \in 1..Len(queue) /\ queue'[i] = queue[i]
      BY <1>t, <1>1, <2>2, Lengthened
    <3> QED BY <1>1, <3>1 DEF LogoutsPending
  <2> QED BY <1>1, <2>1, <2>2
<1>2. ASSUME UNCHANGED <<queue, login>> PROVE LogoutsPending'
  BY <1>2 DEF LogoutsPending
<1>3. ASSUME NEW c \in Conns, ReceiveTicket(c) PROVE LogoutsPending'
  <2>1. BeginOp(c) \in Ops /\ BeginOp(c).op # "Logout" BY DEF BeginOp, Ops
  <2>2. queue' \in {queue, Append(queue, BeginOp(c))} /\ login' = login
    BY <1>3, Zenon DEF ReceiveTicket
  <2> QED BY <1>1, <2>1, <2>2
<1>4. ASSUME NEW c \in Conns, Destroy(c) PROVE LogoutsPending'
  <2>1. EndOp(session[c]) \in Ops /\ EndOp(session[c]).op # "Logout"
    BY DEF EndOp, Ops, TypeOK
  <2>2. queue' \in {queue, Append(queue, EndOp(session[c]))} /\ login' = login
    BY <1>4, Zenon DEF Destroy
  <2> QED BY <1>1, <2>1, <2>2
<1>5. ASSUME NEW a \in Accounts, RequestLogout(a) PROVE LogoutsPending'
  <2>1. /\ queue' = Append(queue, LogoutOp(a)) /\ login[a] = "LoggedIn"
        /\ \A b \in Accounts : login'[b] = IF b = a THEN "Leaving" ELSE login[b]
    BY <1>t, <1>5 DEF RequestLogout
  <2>2. LogoutOp(a) \in Ops /\ LogoutOp(a).who = a BY DEF LogoutOp, Ops
  <2>3. \A i \in 1..Len(queue') : \/ i \in 1..Len(queue) /\ queue'[i] = queue[i]
                                  \/ i = Len(queue) + 1 /\ queue'[i] = LogoutOp(a)
    BY <1>t, <2>1, <2>2, Lengthened
  <2>4. \A i \in 1..Len(queue) : queue[i].op = "Logout" => queue[i].who # a
    BY <2>1 DEF LogoutsPending
  <2>5. \A i \in 1..Len(queue') : queue'[i].op = "Logout" => login'[queue'[i].who] = "Leaving"
    BY <1>t, <2>1, <2>2, <2>3 DEF LogoutsPending
  <2>6. \A i, j \in 1..Len(queue') :
          queue'[i].op = "Logout" /\ queue'[j].op = "Logout" /\ queue'[i].who = queue'[j].who => i = j
    BY <2>2, <2>3, <2>4 DEF LogoutsPending
  <2> QED BY <2>5, <2>6 DEF LogoutsPending
<1>6. CASE AnswerGranted
  <2>1. EndOp(nextIndex) \in Ops /\ EndOp(nextIndex).op # "Logout"
    BY DEF EndOp, Ops, TypeOK
  <2>2. queue' \in {queue, Append(queue, EndOp(nextIndex))} /\ login' = login
    BY <1>6, Zenon DEF AnswerGranted
  <2> QED BY <1>1, <2>1, <2>2
<1>7. ASSUME queue # <<>>, queue' = Tail(queue),
             \A i \in 2..Len(queue) : queue[i].op = "Logout" => login'[queue[i].who] = "Leaving"
      PROVE  LogoutsPending'
  <2>1. \A i \in 1..Len(queue') : i + 1 \in 2..Len(queue) /\ i + 1 \in 1..Len(queue) /\ queue'[i] = queue[i + 1]
    BY <1>t, <1>7, Shortened
  <2> QED BY <1>7, <2>1 DEF LogoutsPending
<1>8. CASE BeginAccepted \/ BeginRejected \/ EndVerified
  <2>1. queue # <<>> /\ queue' = Tail(queue) /\ login' = login
    BY <1>8 DEF BeginAccepted, BeginRejected, EndVerified, Starts
  <2> QED BY <1>7, <2>1 DEF LogoutsPending
<1>9. CASE Logout
  <2>1. /\ queue # <<>> /\ queue' = Tail(queue) /\ Head(queue).op = "Logout"
        /\ login' = [login EXCEPT ![Head(queue).who] = "NotLoggedIn"]
    BY <1>9 DEF Logout, Starts
  <2>2. Head(queue) = queue[1] /\ 1 \in 1..Len(queue)
    BY <1>t, <2>1, Shortened
  <2>3. \A b \in Accounts : b # queue[1].who => login'[b] = login[b]
    BY <1>t, <2>1, <2>2
  <2>4. \A i \in 2..Len(queue) : queue[i].op = "Logout" => queue[i].who # queue[1].who
    BY <2>1, <2>2 DEF LogoutsPending
  <2> QED BY <1>t, <1>7, <2>1, <2>3, <2>4 DEF LogoutsPending
<1>10. CASE Shutdown
  <2>1. \A i \in 1..Len(queue') : FALSE BY <1>10 DEF Shutdown
  <2> QED BY <2>1 DEF LogoutsPending
<1> QED
  BY <1>2, <1>3, <1>4, <1>5, <1>6, <1>8, <1>9, <1>10
  DEF Next, NetStep, SteamStep, FrameStep, PumpStep, QueueStep, HandshakeBegin, Close, TickTimeouts,
      Expire, AnswerRefused, OnAuthSessionVerdict, PumpDone, QueueDone, SteamAnswers, SteamWithdraws,
      Posts, vars, netVars, authVars

\* A step that takes a session from a connection that lives is Steam's refusal of its
\* user, the server's own logout or the end of the services.
LEMMA TakenForAReason ==
  ASSUME SessionsInv, EndsAreForTheGone, LogoutsPending, [Next]_vars,
         NEW c \in Conns, NEW s \in sessions, Alive(c), session[c] = s.id, s \notin sessions'
  PROVE  \/ pipe # <<>> /\ pipe' = Tail(pipe) /\ Head(pipe).user = s.user /\ ~Head(pipe).ok
         \/ login' # login
         \/ shut'
<1>t. TypeOK /\ queue \in Seq(Ops) /\ sessions \subseteq [id : Nat, user : Users]
      /\ login \in [Accounts -> {"LoggedIn", "Leaving", "NotLoggedIn"}]
  BY DEF SessionsInv, TypeOK
<1>1. CASE AnswerRefused \/ OnAuthSessionVerdict
  <2>1. pipe # <<>> /\ pipe' = Tail(pipe) /\ ~Head(pipe).ok /\ Forget(Head(pipe).user)
    BY <1>1 DEF AnswerRefused, OnAuthSessionVerdict
  <2>2. s.user = Head(pipe).user
    BY <2>1 DEF Forget
  <2> QED BY <2>1, <2>2
<1>2. CASE EndVerified
  <2>1. /\ queue # <<>> /\ queue' = Tail(queue) /\ Head(queue).op = "End"
        /\ s.id = Head(queue).id
    BY <1>2 DEF EndVerified, Starts
  <2>2. Head(queue) = queue[1] /\ 1 \in 1..Len(queue)
    BY <1>t, <2>1, Shortened
  <2> QED BY <2>1, <2>2 DEF EndsAreForTheGone
<1>3. CASE Logout
  <2>1. /\ queue # <<>> /\ queue' = Tail(queue) /\ Head(queue).op = "Logout"
        /\ login' = [login EXCEPT ![Head(queue).who] = "NotLoggedIn"]
    BY <1>3 DEF Logout, Starts
  <2>2. Head(queue) = queue[1] /\ 1 \in 1..Len(queue)
    BY <1>t, <2>1, Shortened
  <2>3. queue[1].who \in Accounts /\ login[queue[1].who] = "Leaving"
    BY <1>t, <2>1, <2>2 DEF Ops, LogoutsPending
  <2>4. login'[queue[1].who] = "NotLoggedIn"
    BY <1>t, <2>1, <2>2, <2>3
  <2> QED BY <2>3, <2>4
<1>4. CASE Shutdown
  BY <1>4 DEF Shutdown
<1>5. CASE AnswerGranted
  BY <1>5 DEF AnswerGranted
<1> QED
  BY <1>1, <1>2, <1>3, <1>4, <1>5
  DEF Next, NetStep, SteamStep, FrameStep, PumpStep, QueueStep, HandshakeBegin, ReceiveTicket, Close,
      Destroy, RequestLogout, TickTimeouts, Expire, PumpDone, BeginAccepted, BeginRejected, QueueDone,
      SteamAnswers, SteamWithdraws, Posts, vars, netVars, authVars

\* No session was given to anybody at the start, and nothing waits in the queue.
LEMMA TakenInit == Init => EndsAreForTheGone /\ LogoutsPending
<1> SUFFICES ASSUME Init PROVE EndsAreForTheGone /\ LogoutsPending
  OBVIOUS
<1>1. /\ \A c \in Conns : session[c] = NoSession
      /\ nextIndex = 1 /\ NoSession < 1
      /\ \A i \in 1..Len(queue) : FALSE
  BY DEF Init, NoSession
<1> QED BY <1>1 DEF EndsAreForTheGone, LogoutsPending

\* A player who was let in keeps the session until Steam refuses that user, the server
\* logs out or the services go: no other connection, late answer or end takes it.
THEOREM SessionsStayGranted == Spec => OnlySteamTakesASession
<1>1. SessionsInv /\ EndsAreForTheGone /\ LogoutsPending /\ [Next]_vars
        => (EndsAreForTheGone /\ LogoutsPending)'
  BY EndsStayForTheGone, LogoutsStayPending DEF SessionsInv
<1>2. SessionsInv /\ EndsAreForTheGone /\ LogoutsPending /\ [Next]_vars =>
        [\A c \in Conns : \A s \in sessions :
           (Alive(c) /\ session[c] = s.id /\ s \notin sessions') =>
             \/ pipe # <<>> /\ pipe' = Tail(pipe)
                  /\ Head(pipe).user = s.user /\ ~Head(pipe).ok
             \/ login' # login
             \/ shut']_vars
  BY TakenForAReason
<1> QED BY <1>1, <1>2, TakenInit, SessionsInvHolds, PTL DEF Spec, OnlySteamTakesASession
=============================================================================
