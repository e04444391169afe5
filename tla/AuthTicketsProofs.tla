-------------------------- MODULE AuthTicketsProofs --------------------------
(***************************************************************************)
(* Proofs about AuthTickets, for any number of connections and tokens.     *)
(***************************************************************************)
EXTENDS AuthTickets, TLAPS

Ops == [op : {"Issue"}, request : Asked] \cup [op : {"Cancel"}, id : Nat] \cup {LogoutOp}

Waits(o) == \E i \in 1..Len(queue) : queue[i] = o
Once(o)  == \A i, j \in 1..Len(queue) : queue[i] = o /\ queue[j] = o => i = j

\* The types the runs check, and that what waits is a sequence of operations.
Types == TypeOK /\ queue \in Seq(Ops)

\* A connection asks for a ticket once, so that a request which ends can take back
\* the ticket it was for without taking one that was confirmed before.
AskedOnce ==
  /\ \A c \in Conns : Waits(IssueOp(c)) \/ running = c \/ c \in Recorded => handler[c] # "Unborn"
  /\ \A c \in Conns : Waits(IssueOp(c)) => running # c /\ c \notin Recorded
  /\ running \notin Recorded
  /\ \A c \in Conns : Once(IssueOp(c))

\* Numbers are given out in order, and a ticket is cancelled by the connection it was
\* given to, when that connection is gone.
NumbersAreOnes ==
  /\ nextIndex # NoTicket
  /\ \A t \in issued : t.id < nextIndex
  /\ \A c \in Conns : held[c] < nextIndex /\ (held[c] # NoTicket => handler[c] # "Unborn")
  /\ \A c, d \in Conns : held[c] = held[d] /\ held[c] # NoTicket => c = d
  /\ \A id \in Nat : Waits(CancelOp(id)) =>
       \E c \in Conns : held[c] = id /\ id # NoTicket /\ handler[c] = "Destroyed"

\* A ticket is asked for in the name of a user who is logged in, until it is answered.
IssuedToTheUser == running # None => loggedIn

TicketsInv ==
  /\ Types
  /\ AskedOnce
  /\ NumbersAreOnes
  /\ IssuedToTheUser
  /\ RecordedIsGood
  /\ OfferedStaysGood

-----------------------------------------------------------------------------
(* The queue.                                                              *)

\* An operation is one of three kinds and says what it is about.
LEMMA OpsApart ==
  /\ \A r \in Asked : IssueOp(r) \in Ops
  /\ \A id \in Nat : CancelOp(id) \in Ops
  /\ LogoutOp \in Ops
  /\ \A r, s : IssueOp(r) = IssueOp(s) => r = s
  /\ \A id, jd : CancelOp(id) = CancelOp(jd) => id = jd
  /\ \A r, id : IssueOp(r) # CancelOp(id) /\ IssueOp(r) # LogoutOp /\ CancelOp(id) # LogoutOp
BY DEF Ops, IssueOp, CancelOp, LogoutOp

\* One more operation waits, behind the others.
LEMMA Grows ==
  ASSUME queue \in Seq(Ops), NEW o \in Ops, queue' = Append(queue, o)
  PROVE  /\ queue' \in Seq(Ops)
         /\ \A p : Waits(p)' <=> Waits(p) \/ p = o
         /\ \A p : Once(p) /\ ~(Waits(p) /\ p = o) => Once(p)'
<1>1. queue' \in Seq(Ops) /\ Len(queue') = Len(queue) + 1 /\ queue'[Len(queue) + 1] = o
      /\ \A i \in 1..Len(queue) : queue'[i] = queue[i]
  OBVIOUS
<1>2. \A i \in 1..Len(queue') : i \in 1..Len(queue) \/ i = Len(queue) + 1
  BY <1>1
<1> QED BY <1>1, <1>2 DEF Waits, Once

\* The first of those that wait is taken.
LEMMA Shrinks ==
  ASSUME queue \in Seq(Ops), queue # <<>>, queue' = Tail(queue)
  PROVE  /\ queue' \in Seq(Ops) /\ Head(queue) \in Ops /\ Waits(Head(queue))
         /\ \A p : Waits(p)' => Waits(p)
         /\ \A p : Once(p) => Once(p)'
         /\ Once(Head(queue)) => ~\E i \in 1..Len(queue') : queue'[i] = Head(queue)
<1>1. /\ queue' \in Seq(Ops) /\ Head(queue) = queue[1] /\ Len(queue) >= 1
      /\ Len(queue') = Len(queue) - 1
      /\ \A i \in 1..Len(queue') : i + 1 \in 1..Len(queue) /\ queue'[i] = queue[i + 1]
  OBVIOUS
<1>2. 1 \in 1..Len(queue) /\ Head(queue) \in Ops BY <1>1
<1> QED BY <1>1, <1>2 DEF Waits, Once

\* An operation that starts is the one at the head, and waits no more.
LEMMA Started ==
  ASSUME Types, NEW kind, Starts(kind)
  PROVE  /\ queue' \in Seq(Ops) /\ Head(queue) \in Ops /\ Waits(Head(queue))
         /\ Head(queue).op = kind /\ ~shut /\ running = None
         /\ \A p : Waits(p)' => Waits(p)
         /\ \A p : Once(p) => Once(p)'
         /\ Once(Head(queue)) => ~\E i \in 1..Len(queue') : queue'[i] = Head(queue)
         /\ kind = "Issue" => Head(queue).request \in Asked /\ Head(queue) = IssueOp(Head(queue).request)
         /\ kind = "Cancel" => Head(queue).id \in Nat /\ Head(queue) = CancelOp(Head(queue).id)
<1>1. queue \in Seq(Ops) /\ queue # <<>> /\ queue' = Tail(queue) /\ Head(queue).op = kind
      /\ ~shut /\ running = None
  BY DEF Types, Starts
<1>2. Head(queue) \in Ops BY <1>1, Shrinks
<1>3. kind = "Issue" => Head(queue).request \in Asked /\ Head(queue) = IssueOp(Head(queue).request)
  BY <1>1, <1>2 DEF Ops, IssueOp, LogoutOp
<1>4. kind = "Cancel" => Head(queue).id \in Nat /\ Head(queue) = CancelOp(Head(queue).id)
  BY <1>1, <1>2 DEF Ops, CancelOp, LogoutOp
<1> QED BY <1>1, <1>3, <1>4, Shrinks

-----------------------------------------------------------------------------
(* Types.                                                                  *)

\* A request that failed leaves the handlers typed.
LEMMA GoOnTyped ==
  ASSUME TypeOK, NEW r, GoOnUnproved(r)
  PROVE  handler' \in [Conns -> {"Unborn", "Asking", "Offered", "Ready", "Destroyed"}]
         /\ held' = held
BY DEF TypeOK, GoOnUnproved

\* Every step keeps the types.
LEMMA TypesKept == TicketsInv /\ [Next]_vars => Types'
<1> SUFFICES ASSUME TicketsInv, [Next]_vars PROVE Types'
  OBVIOUS
<1>1. Types /\ TypeOK /\ queue \in Seq(Ops) BY DEF TicketsInv, Types
<1>2. ASSUME queue' \in Seq(Ops),
             /\ handler' \in [Conns -> {"Unborn", "Asking", "Offered", "Ready", "Destroyed"}]
             /\ held' \in [Conns -> Nat] /\ running' \in Asked \cup {None}
             /\ issued' \subseteq [id : Nat, request : Conns] /\ nextIndex' \in Nat
             /\ good' \subseteq Asked /\ loggedIn' \in BOOLEAN /\ shut' \in BOOLEAN
             /\ running' # None => running' \in good'
      PROVE  Types'
  <2>1. \A i \in 1..Len(queue') :
          \/ queue'[i].op = "Issue" /\ queue'[i].request \in Asked
          \/ queue'[i].op = "Cancel" /\ queue'[i].id \in Nat
          \/ queue'[i] = LogoutOp
    BY <1>2 DEF Ops
  <2> QED BY <1>2, <2>1 DEF Types, TypeOK
<1>3. ASSUME NEW c \in Conns, AskForTicket(c) PROVE Types'
  <2>1. IssueOp(c) \in Ops BY OpsApart DEF Asked
  <2>2. queue' \in Seq(Ops) BY <1>1, <1>3, <2>1, Grows DEF AskForTicket
  <2> QED BY <1>1, <1>2, <1>3, <2>2 DEF AskForTicket, TypeOK
<1>4. ASSUME NEW t \in Tokens, AskForToken(t) PROVE Types'
  <2>1. IssueOp(t) \in Ops BY OpsApart DEF Asked
  <2>2. queue' \in Seq(Ops) BY <1>1, <1>4, <2>1, Grows DEF AskForToken
  <2> QED BY <1>1, <1>2, <1>4, <2>2 DEF AskForToken, TypeOK, handlerVars
<1>5. ASSUME NEW c \in Conns, ServerTakesTicket(c) PROVE Types'
  BY <1>1, <1>2, <1>5 DEF ServerTakesTicket, TypeOK
<1>6. ASSUME NEW c \in Conns, DestroyHandler(c) PROVE Types'
  <2>1. CancelOp(held[c]) \in Ops BY <1>1, OpsApart DEF TypeOK
  <2>2. queue' \in Seq(Ops) BY <1>1, <1>6, <2>1, Grows DEF DestroyHandler
  <2> QED BY <1>1, <1>2, <1>6, <2>2 DEF DestroyHandler, TypeOK
<1>7. CASE RequestLogout
  <2>1. queue' \in Seq(Ops) BY <1>1, <1>7, OpsApart, Grows DEF RequestLogout
  <2> QED BY <1>1, <1>2, <1>7, <2>1 DEF RequestLogout, TypeOK, handlerVars
<1>8. CASE IssueTicket
  BY <1>1, <1>2, <1>8, Started DEF IssueTicket, TypeOK, handlerVars
<1>9. CASE IssueFails
  BY <1>1, <1>2, <1>9, Started, GoOnTyped DEF IssueFails, TypeOK
<1>10. CASE CancelTicket
  BY <1>1, <1>2, <1>10, Started DEF CancelTicket, Withdraw, TypeOK, handlerVars
<1>11. CASE Logout
  BY <1>1, <1>2, <1>11, Started DEF Logout, Withdraw, TypeOK, handlerVars
<1>12. CASE Confirmed
  BY <1>1, <1>2, <1>12 DEF Confirmed, TypeOK, handlerVars
<1>13. CASE NotConfirmed \/ Expire
  BY <1>1, <1>2, <1>13, GoOnTyped DEF NotConfirmed, Expire, TypeOK
<1>14. CASE Shutdown
  BY <1>1, <1>2, <1>14, GoOnTyped DEF Shutdown, Withdraw, TypeOK, handlerVars
<1>15. CASE UNCHANGED vars
  BY <1>1, <1>2, <1>15 DEF vars, handlerVars, TypeOK
<1> QED BY <1>3, <1>4, <1>5, <1>6, <1>7, <1>8, <1>9, <1>10, <1>11, <1>12, <1>13, <1>14, <1>15
        DEF Next, QueueStep, RequestEnds

-----------------------------------------------------------------------------
(* A connection asks once.                                                 *)

\* What is recorded under a number is recorded.
LEMMA RecordedGrows ==
  ASSUME NEW n, NEW r, issued' = issued \cup {[id |-> n, request |-> r]}
  PROVE  Recorded' = Recorded \cup {r}
<1> DEFINE t == [id |-> n, request |-> r]
<1>1. t.request = r OBVIOUS
<1> HIDE DEF t
<1>2. issued' = issued \cup {t} BY DEF t
<1>3. {s.request : s \in issued \cup {t}} = {s.request : s \in issued} \cup {t.request}
  OBVIOUS
<1> QED BY <1>1, <1>2, <1>3 DEF Recorded

\* A request that ends leaves every handler that was born born.
LEMMA BornStays ==
  ASSUME TypeOK, NEW r, GoOnUnproved(r), NEW c \in Conns, handler[c] # "Unborn"
  PROVE  handler'[c] # "Unborn"
BY DEF TypeOK, GoOnUnproved

\* Every step keeps that a connection asks once.
LEMMA AskedOnceKept == TicketsInv /\ [Next]_vars => AskedOnce'
<1> SUFFICES ASSUME TicketsInv, [Next]_vars PROVE AskedOnce'
  OBVIOUS
<1>1. Types /\ TypeOK /\ queue \in Seq(Ops) /\ AskedOnce BY DEF TicketsInv, Types
<1>2. \A c \in Conns : c \in Asked /\ c # None BY ConstantsAssumption DEF Asked
\* What a step does that begins nothing and records nothing.
<1>3. ASSUME \A c \in Conns : handler[c] # "Unborn" => handler'[c] # "Unborn",
             \A c \in Conns : Waits(IssueOp(c))' => Waits(IssueOp(c)),
             \A c \in Conns : Once(IssueOp(c))',
             running' \in {running, None}, issued' \subseteq issued
      PROVE  AskedOnce'
  <2>1. \A r : r \in Recorded' => r \in Recorded BY <1>3 DEF Recorded
  <2>2. None \notin Recorded BY <1>1, <1>2 DEF Recorded, TypeOK
  <2> QED BY <1>1, <1>2, <1>3, <2>1, <2>2 DEF AskedOnce
<1>4. ASSUME NEW c \in Conns, AskForTicket(c) PROVE AskedOnce'
  <2>1. IssueOp(c) \in Ops BY OpsApart DEF Asked
  <2>2. /\ queue' = Append(queue, IssueOp(c)) /\ UNCHANGED <<running, issued>>
        /\ handler[c] = "Unborn" /\ handler' = [handler EXCEPT ![c] = "Asking"]
    BY <1>4 DEF AskForTicket
  <2>3. /\ \A p : Waits(p)' <=> Waits(p) \/ p = IssueOp(c)
        /\ \A p : Once(p) /\ ~(Waits(p) /\ p = IssueOp(c)) => Once(p)'
    BY <1>1, <2>1, <2>2, Grows
  <2>4. ~Waits(IssueOp(c)) /\ running # c /\ c \notin Recorded
    BY <1>1, <2>2 DEF AskedOnce
  <2>5. \A d \in Conns : IssueOp(d) = IssueOp(c) => d = c BY OpsApart
  <2>6. \A d \in Conns : Once(IssueOp(d))' BY <1>1, <2>3, <2>4 DEF AskedOnce
  <2>7. \A d \in Conns : handler'[d] # "Unborn" <=> handler[d] # "Unborn" \/ d = c
    BY <1>1, <2>2 DEF TypeOK
  <2>8. Recorded' = Recorded BY <2>2 DEF Recorded
  <2> QED BY <1>1, <2>2, <2>3, <2>4, <2>5, <2>6, <2>7, <2>8 DEF AskedOnce
<1>5. ASSUME NEW o \in Ops, \A c \in Conns : IssueOp(c) # o, queue' = Append(queue, o)
      PROVE  \A c \in Conns : (Waits(IssueOp(c))' => Waits(IssueOp(c))) /\ Once(IssueOp(c))'
  BY <1>1, <1>5, Grows DEF AskedOnce
<1>6. ASSUME NEW t \in Tokens, AskForToken(t) PROVE AskedOnce'
  <2>1. IssueOp(t) \in Ops /\ \A c \in Conns : IssueOp(c) # IssueOp(t)
    BY OpsApart, ConstantsAssumption DEF Asked
  <2> QED BY <1>3, <1>5, <1>6, <2>1 DEF AskForToken, handlerVars
<1>7. ASSUME NEW c \in Conns, ServerTakesTicket(c) PROVE AskedOnce'
  <2>1. \A d \in Conns : (Waits(IssueOp(d))' => Waits(IssueOp(d))) /\ Once(IssueOp(d))'
    BY <1>1, <1>7 DEF ServerTakesTicket, Waits, Once, AskedOnce
  <2>2. \A d \in Conns : handler[d] # "Unborn" => handler'[d] # "Unborn"
    BY <1>1, <1>7 DEF ServerTakesTicket, TypeOK
  <2> QED BY <1>3, <1>7, <2>1, <2>2 DEF ServerTakesTicket
<1>8. ASSUME NEW c \in Conns, DestroyHandler(c) PROVE AskedOnce'
  <2>1. CancelOp(held[c]) \in Ops /\ \A d \in Conns : IssueOp(d) # CancelOp(held[c])
    BY <1>1, OpsApart DEF TypeOK
  <2>2. \A d \in Conns : (Waits(IssueOp(d))' => Waits(IssueOp(d))) /\ Once(IssueOp(d))'
    <3>1. CASE queue' = queue BY <1>1, <3>1 DEF Waits, Once, AskedOnce
    <3>2. CASE queue' = Append(queue, CancelOp(held[c])) BY <1>5, <2>1, <3>2
    <3> QED BY <1>8, <3>1, <3>2 DEF DestroyHandler
  <2>3. \A d \in Conns : handler[d] # "Unborn" => handler'[d] # "Unborn"
    BY <1>1, <1>8 DEF DestroyHandler, TypeOK
  <2> QED BY <1>3, <1>8, <2>2, <2>3 DEF DestroyHandler
<1>9. CASE RequestLogout
  <2>1. LogoutOp \in Ops /\ \A c \in Conns : IssueOp(c) # LogoutOp BY OpsApart
  <2> QED BY <1>3, <1>5, <1>9, <2>1 DEF RequestLogout, handlerVars
<1>10. ASSUME NEW kind, Starts(kind)
       PROVE  \A c \in Conns : (Waits(IssueOp(c))' => Waits(IssueOp(c))) /\ Once(IssueOp(c))'
  BY <1>1, <1>10, Started DEF AskedOnce
<1>11. CASE IssueTicket
  <2> DEFINE r == Head(queue).request
  <2>1. /\ Waits(IssueOp(r)) /\ r \in Asked
        /\ r \in Conns => ~\E i \in 1..Len(queue') : queue'[i] = IssueOp(r)
        /\ UNCHANGED <<handler, issued>> /\ running' = r
    BY <1>1, <1>11, Started DEF IssueTicket, handlerVars, AskedOnce
  <2>2. \A c \in Conns : (Waits(IssueOp(c))' => Waits(IssueOp(c))) /\ Once(IssueOp(c))'
    BY <1>10, <1>11 DEF IssueTicket
  <2>3. Recorded' = Recorded /\ Recorded \subseteq Conns BY <1>1, <2>1 DEF Recorded, TypeOK
  <2> HIDE DEF r
  <2>4. \A c \in Conns : Waits(IssueOp(c))' => c # r
    BY <2>1 DEF Waits
  <2> QED BY <1>1, <2>1, <2>2, <2>3, <2>4 DEF AskedOnce
<1>12. CASE IssueFails
  BY <1>1, <1>3, <1>10, <1>12, BornStays DEF IssueFails
<1>13. CASE CancelTicket
  BY <1>1, <1>3, <1>10, <1>13 DEF CancelTicket, handlerVars
<1>14. CASE Logout
  BY <1>1, <1>3, <1>10, <1>14 DEF Logout, handlerVars
<1>15. ASSUME queue' = queue
       PROVE  \A c \in Conns : (Waits(IssueOp(c))' <=> Waits(IssueOp(c))) /\ Once(IssueOp(c))'
  BY <1>1, <1>15 DEF Waits, Once, AskedOnce
<1>16. CASE Confirmed
  <2>1. \A c \in Conns : handler[c] # "Unborn" => handler'[c] # "Unborn"
    BY <1>1, <1>16 DEF Confirmed, handlerVars, TypeOK
  <2>2. CASE running \notin Conns
    BY <1>3, <1>15, <1>16, <2>1, <2>2 DEF Confirmed
  <2>3. CASE running \in Conns
    <3>1. issued' = issued \cup {[id |-> nextIndex, request |-> running]} /\ running' = None
          /\ queue' = queue
      BY <1>16, <2>3 DEF Confirmed
    <3>2. Recorded' = Recorded \cup {running} BY <3>1, RecordedGrows
    <3>3. None \notin Recorded' BY <1>1, <1>2, <2>3, <3>2 DEF Recorded, TypeOK
    <3> QED BY <1>1, <1>2, <1>15, <2>1, <2>3, <3>1, <3>2, <3>3 DEF AskedOnce
  <2> QED BY <2>2, <2>3
<1>17. CASE NotConfirmed \/ Expire
  BY <1>1, <1>3, <1>15, <1>17, BornStays DEF NotConfirmed, Expire
<1>18. CASE Shutdown
  <2>1. queue' = <<>> /\ issued' = {} /\ running' = None BY <1>18 DEF Shutdown
  <2>2. \A c \in Conns : ~Waits(IssueOp(c))' /\ Once(IssueOp(c))' BY <2>1 DEF Waits, Once
  <2> QED BY <1>1, <1>3, <1>18, <2>1, <2>2, BornStays DEF Shutdown, handlerVars
<1>19. CASE UNCHANGED vars
  BY <1>3, <1>15, <1>19 DEF vars, handlerVars
<1> QED BY <1>4, <1>6, <1>7, <1>8, <1>9, <1>11, <1>12, <1>13, <1>14, <1>16, <1>17, <1>18, <1>19
        DEF Next, QueueStep, RequestEnds

-----------------------------------------------------------------------------
(* Numbers, the record and what Steam holds good.                          *)

\* A request that ends leaves every handler that is gone gone, and makes none alive.
LEMMA GoneStays ==
  ASSUME TypeOK, NEW r, GoOnUnproved(r), NEW c \in Conns
  PROVE  /\ handler[c] = "Destroyed" => handler'[c] = "Destroyed"
         /\ Alive(c)' => Alive(c)
BY DEF TypeOK, GoOnUnproved, Alive

\* Every step keeps numbers apart and cancels to the connections they were given to.
LEMMA NumbersKept == TicketsInv /\ [Next]_vars => NumbersAreOnes'
<1> SUFFICES ASSUME TicketsInv, [Next]_vars PROVE NumbersAreOnes'
  OBVIOUS
<1>1. Types /\ TypeOK /\ queue \in Seq(Ops) /\ NumbersAreOnes BY DEF TicketsInv, Types
\* What a step does that gives out no number and cancels nothing.
<1>2. ASSUME UNCHANGED <<nextIndex, held>>, issued' \subseteq issued,
             \A id \in Nat : Waits(CancelOp(id))' => Waits(CancelOp(id)),
             \A c \in Conns : handler[c] = "Destroyed" => handler'[c] = "Destroyed",
             \A c \in Conns : handler[c] # "Unborn" => handler'[c] # "Unborn"
      PROVE  NumbersAreOnes'
  BY <1>1, <1>2 DEF NumbersAreOnes
<1>3. ASSUME NEW o \in Ops, \A id \in Nat : CancelOp(id) # o, queue' = Append(queue, o)
      PROVE  \A id \in Nat : Waits(CancelOp(id))' => Waits(CancelOp(id))
  BY <1>1, <1>3, Grows
<1>4. ASSUME NEW r \in Asked, queue' = Append(queue, IssueOp(r))
      PROVE  \A id \in Nat : Waits(CancelOp(id))' => Waits(CancelOp(id))
  BY <1>3, <1>4, OpsApart
<1>5. ASSUME queue' = queue
      PROVE  \A id \in Nat : Waits(CancelOp(id))' <=> Waits(CancelOp(id))
  BY <1>5 DEF Waits
<1>6. ASSUME NEW kind, Starts(kind)
      PROVE  \A id \in Nat : Waits(CancelOp(id))' => Waits(CancelOp(id))
  BY <1>1, <1>6, Started
<1>7. ASSUME NEW c \in Conns, AskForTicket(c) PROVE NumbersAreOnes'
  <2>1. \A d \in Conns : /\ handler[d] = "Destroyed" => handler'[d] = "Destroyed"
                         /\ handler[d] # "Unborn" => handler'[d] # "Unborn"
    BY <1>1, <1>7 DEF AskForTicket, TypeOK
  <2> QED BY <1>2, <1>4, <1>7, <2>1 DEF AskForTicket, Asked
<1>8. ASSUME NEW t \in Tokens, AskForToken(t) PROVE NumbersAreOnes'
  BY <1>2, <1>4, <1>8 DEF AskForToken, Asked, handlerVars
<1>9. ASSUME NEW c \in Conns, ServerTakesTicket(c) PROVE NumbersAreOnes'
  <2>1. \A d \in Conns : /\ handler[d] = "Destroyed" => handler'[d] = "Destroyed"
                         /\ handler[d] # "Unborn" => handler'[d] # "Unborn"
    BY <1>1, <1>9 DEF ServerTakesTicket, TypeOK
  <2> QED BY <1>2, <1>5, <1>9, <2>1 DEF ServerTakesTicket
<1>10. ASSUME NEW c \in Conns, DestroyHandler(c) PROVE NumbersAreOnes'
  <2>1. handler' = [handler EXCEPT ![c] = "Destroyed"] /\ UNCHANGED <<held, issued, nextIndex>>
    BY <1>10 DEF DestroyHandler
  <2>2. \A d \in Conns : handler'[d] = IF d = c THEN "Destroyed" ELSE handler[d]
    BY <1>1, <2>1 DEF TypeOK
  <2>3. CASE held[c] = NoTicket
    BY <1>2, <1>5, <1>10, <2>1, <2>2, <2>3 DEF DestroyHandler
  <2>4. CASE held[c] # NoTicket
    <3>1. queue' = Append(queue, CancelOp(held[c])) /\ CancelOp(held[c]) \in Ops
      BY <1>1, <1>10, <2>4, OpsApart DEF DestroyHandler, TypeOK
    <3>2. \A id \in Nat : Waits(CancelOp(id))' => Waits(CancelOp(id)) \/ id = held[c]
      BY <1>1, <3>1, Grows, OpsApart
    <3>3. \A id \in Nat : Waits(CancelOp(id))' =>
            \E d \in Conns : held'[d] = id /\ id # NoTicket /\ handler'[d] = "Destroyed"
      BY <1>1, <2>1, <2>2, <2>4, <3>2 DEF NumbersAreOnes
    <3> QED BY <1>1, <2>1, <2>2, <3>3 DEF NumbersAreOnes
  <2> QED BY <2>3, <2>4
<1>11. CASE RequestLogout
  <2>1. \A id \in Nat : CancelOp(id) # LogoutOp BY OpsApart
  <2> QED BY <1>2, <1>3, <1>11, <2>1, OpsApart DEF RequestLogout, handlerVars
<1>12. CASE IssueTicket \/ CancelTicket \/ Logout
  BY <1>1, <1>2, <1>6, <1>12 DEF IssueTicket, CancelTicket, Logout, handlerVars
<1>13. CASE IssueFails
  BY <1>1, <1>2, <1>6, <1>13, BornStays, GoneStays, GoOnTyped DEF IssueFails
<1>14. CASE Confirmed
  <2>1. CASE running \notin Conns
    BY <1>2, <1>5, <1>14, <2>1 DEF Confirmed, handlerVars
  <2>2. CASE running \in Conns
    <3>1. /\ issued' = issued \cup {[id |-> nextIndex, request |-> running]}
          /\ nextIndex' = nextIndex + 1 /\ queue' = queue /\ nextIndex \in Nat
      BY <1>1, <1>14, <2>2 DEF Confirmed, TypeOK
    <3>2. \A t \in issued' : t.id < nextIndex'
      BY <1>1, <3>1 DEF NumbersAreOnes, TypeOK
    <3>3. CASE Alive(running)
      <4>1. /\ handler' = [handler EXCEPT ![running] = "Offered"]
            /\ held' = [held EXCEPT ![running] = nextIndex]
        BY <1>14, <2>2, <3>3 DEF Confirmed
      <4>2. \A c \in Conns : held'[c] = IF c = running THEN nextIndex ELSE held[c]
        BY <1>1, <4>1 DEF TypeOK
      <4>3. \A c \in Conns : handler'[c] = IF c = running THEN "Offered" ELSE handler[c]
        BY <1>1, <4>1 DEF TypeOK
      <4>4. \A c \in Conns : handler[c] = "Destroyed" =>
              handler'[c] = "Destroyed" /\ held'[c] = held[c]
        BY <3>3, <4>2, <4>3 DEF Alive
      <4>5. \A c \in Conns : held[c] \in Nat /\ held[c] < nextIndex /\ held'[c] < nextIndex'
        BY <1>1, <3>1, <4>2 DEF NumbersAreOnes, TypeOK
      <4>6. \A c \in Conns : held'[c] # NoTicket => handler'[c] # "Unborn"
        BY <1>1, <4>2, <4>3 DEF NumbersAreOnes
      <4>7. \A c, d \in Conns : held'[c] = held'[d] /\ held'[c] # NoTicket => c = d
        BY <1>1, <3>1, <4>2, <4>5 DEF NumbersAreOnes
      <4>8. \A id \in Nat : Waits(CancelOp(id))' =>
              \E c \in Conns : held'[c] = id /\ id # NoTicket /\ handler'[c] = "Destroyed"
        BY <1>1, <1>5, <3>1, <4>4 DEF NumbersAreOnes
      <4> QED BY <3>1, <3>2, <4>5, <4>6, <4>7, <4>8 DEF NumbersAreOnes, NoTicket
    <3>4. CASE ~Alive(running)
      <4>1. UNCHANGED <<handler, held>> BY <1>14, <2>2, <3>4 DEF Confirmed, handlerVars
      <4>2. \A c \in Conns : held[c] < nextIndex'
        BY <1>1, <3>1 DEF NumbersAreOnes, TypeOK
      <4> QED BY <1>1, <1>5, <3>1, <3>2, <4>1, <4>2 DEF NumbersAreOnes, NoTicket
    <3> QED BY <3>3, <3>4
  <2> QED BY <2>1, <2>2
<1>15. CASE NotConfirmed \/ Expire
  BY <1>1, <1>2, <1>5, <1>15, BornStays, GoneStays, GoOnTyped DEF NotConfirmed, Expire
<1>16. CASE Shutdown
  <2>1. queue' = <<>> /\ issued' = {} /\ nextIndex' = nextIndex BY <1>16 DEF Shutdown
  <2>2. \A id \in Nat : ~Waits(CancelOp(id))' BY <2>1 DEF Waits
  <2>3. held' = held /\ \A c \in Conns : /\ handler[c] = "Destroyed" => handler'[c] = "Destroyed"
                                         /\ handler[c] # "Unborn" => handler'[c] # "Unborn"
    BY <1>1, <1>16, BornStays, GoneStays, GoOnTyped DEF Shutdown, handlerVars
  <2> QED BY <1>2, <2>1, <2>2, <2>3
<1>17. CASE UNCHANGED vars
  BY <1>2, <1>5, <1>17 DEF vars, handlerVars
<1> QED BY <1>7, <1>8, <1>9, <1>10, <1>11, <1>12, <1>13, <1>14, <1>15, <1>16, <1>17
        DEF Next, QueueStep, RequestEnds

\* Every step keeps what is recorded good, once, and the user's who is logged in.
LEMMA RecordKept == TicketsInv /\ [Next]_vars => RecordedIsGood' /\ IssuedToTheUser'
<1> SUFFICES ASSUME TicketsInv, [Next]_vars PROVE RecordedIsGood' /\ IssuedToTheUser'
  OBVIOUS
<1>1. /\ Types /\ TypeOK /\ queue \in Seq(Ops) /\ AskedOnce /\ NumbersAreOnes
      /\ RecordedIsGood /\ IssuedToTheUser
  BY DEF TicketsInv, Types
<1>2. CASE UNCHANGED <<issued, loggedIn>> /\ good \subseteq good' /\ running' \in {running, None}
  BY <1>1, <1>2 DEF RecordedIsGood, IssuedToTheUser, Recorded
<1>3. CASE IssueTicket
  BY <1>1, <1>3 DEF IssueTicket, RecordedIsGood, IssuedToTheUser, Recorded
<1>4. CASE CancelTicket
  <2> DEFINE gone == {t \in issued : t.id = Head(queue).id}
  <2>1. /\ issued' = issued \ gone /\ good' = good \ {t.request : t \in gone}
        /\ UNCHANGED <<running, loggedIn>>
    BY <1>4 DEF CancelTicket, Withdraw
  <2>2. \A s \in issued', t \in gone : s.request # t.request
    BY <1>1, <2>1 DEF RecordedIsGood
  <2>3. Recorded' \subseteq good' BY <1>1, <2>1, <2>2 DEF RecordedIsGood, Recorded
  <2> QED BY <1>1, <2>1, <2>3 DEF RecordedIsGood, IssuedToTheUser
<1>5. CASE Logout
  BY <1>1, <1>5, Started DEF Logout, RecordedIsGood, IssuedToTheUser, Recorded
<1>6. CASE Confirmed
  <2>1. CASE running \notin Conns BY <1>2, <1>6, <2>1 DEF Confirmed
  <2>2. CASE running \in Conns
    <3> DEFINE t == [id |-> nextIndex, request |-> running]
    <3>1. issued' = issued \cup {t} /\ good' = good /\ loggedIn' = loggedIn /\ running' = None
      BY <1>6, <2>2 DEF Confirmed
    <3>2. Recorded' = Recorded \cup {running} BY <3>1, RecordedGrows
    <3>3. running # None BY <1>6 DEF Confirmed
    <3>4. Recorded' \subseteq good' /\ loggedIn
      BY <1>1, <3>1, <3>2, <3>3 DEF RecordedIsGood, IssuedToTheUser, TypeOK
    <3>5. \A s \in issued : s.id # t.id /\ s.request # t.request
      BY <1>1 DEF NumbersAreOnes, AskedOnce, Recorded, TypeOK
    <3> HIDE DEF t
    <3>6. \A s, r \in issued' : s.id = r.id \/ s.request = r.request => s = r
      BY <1>1, <3>1, <3>5 DEF RecordedIsGood
    <3> QED BY <3>1, <3>4, <3>6 DEF RecordedIsGood, IssuedToTheUser
  <2> QED BY <2>1, <2>2
<1>7. CASE NotConfirmed
  BY <1>1, <1>7 DEF NotConfirmed, AskedOnce, RecordedIsGood, IssuedToTheUser, Recorded
<1>8. CASE Shutdown
  BY <1>8 DEF Shutdown, RecordedIsGood, IssuedToTheUser, Recorded
<1> QED BY <1>2, <1>3, <1>4, <1>5, <1>6, <1>7, <1>8
        DEF Next, QueueStep, RequestEnds, vars, AskForTicket, ServerTakesTicket, DestroyHandler,
            AskForToken, RequestLogout, IssueFails, Expire

\* Every step leaves the ticket of a living connection recorded, but a logout and the end.
LEMMA OfferedKept == TicketsInv /\ [Next]_vars => OfferedStaysGood'
<1> SUFFICES ASSUME TicketsInv, [Next]_vars,
                    NEW c \in Conns, Alive(c)', held'[c] # NoTicket, loggedIn', ~shut'
             PROVE  [id |-> held'[c], request |-> c] \in issued'
  BY DEF OfferedStaysGood
<1>1. /\ Types /\ TypeOK /\ queue \in Seq(Ops) /\ NumbersAreOnes /\ OfferedStaysGood
  BY DEF TicketsInv, Types
<1>2. ASSUME held'[c] = held[c], Alive(c), loggedIn' = loggedIn, shut' = shut
      PROVE  [id |-> held'[c], request |-> c] \in issued
  BY <1>1, <1>2 DEF OfferedStaysGood
<1>3. ASSUME NEW d \in Conns, AskForTicket(d) PROVE [id |-> held'[c], request |-> c] \in issued'
  <2>1. d # c BY <1>1, <1>3 DEF AskForTicket, NumbersAreOnes
  <2> QED BY <1>1, <1>2, <1>3, <2>1 DEF AskForTicket, Alive, TypeOK
<1>4. ASSUME NEW d \in Conns, ServerTakesTicket(d) \/ DestroyHandler(d)
      PROVE  [id |-> held'[c], request |-> c] \in issued'
  BY <1>1, <1>2, <1>4 DEF ServerTakesTicket, DestroyHandler, Alive, TypeOK
<1>5. CASE UNCHANGED <<handlerVars, issued, loggedIn, shut>>
  BY <1>2, <1>5 DEF handlerVars, Alive
<1>6. CASE IssueFails \/ NotConfirmed \/ Expire
  BY <1>1, <1>2, <1>6, GoneStays, GoOnTyped DEF IssueFails, NotConfirmed, Expire
<1>7. CASE CancelTicket
  <2>1. /\ UNCHANGED <<handler, held, loggedIn, shut>>
        /\ issued' = issued \ {t \in issued : t.id = Head(queue).id}
    BY <1>7, Started, <1>1 DEF CancelTicket, handlerVars
  <2>2. Waits(CancelOp(Head(queue).id)) /\ Head(queue).id \in Nat
    BY <1>1, <1>7, Started DEF CancelTicket
  <2>3. PICK d \in Conns : held[d] = Head(queue).id /\ handler[d] = "Destroyed"
    BY <1>1, <2>2 DEF NumbersAreOnes
  <2>4. held[c] # Head(queue).id BY <1>1, <2>1, <2>3 DEF NumbersAreOnes, Alive
  <2>5. [id |-> held[c], request |-> c] \in issued BY <1>2, <2>1 DEF Alive
  <2> QED BY <2>1, <2>4, <2>5
<1>8. CASE Confirmed
  <2>1. CASE c = running /\ Alive(running)
    BY <1>1, <1>8, <2>1 DEF Confirmed, TypeOK
  <2>2. CASE ~(c = running /\ Alive(running))
    <3>1. held'[c] = held[c] /\ Alive(c) /\ issued \subseteq issued'
      BY <1>1, <1>8, <2>2 DEF Confirmed, TypeOK, Alive, handlerVars
    <3> QED BY <1>2, <1>8, <3>1 DEF Confirmed
  <2> QED BY <2>1, <2>2
<1>9. CASE Logout \/ Shutdown
  BY <1>9 DEF Logout, Shutdown
<1> QED BY <1>3, <1>4, <1>5, <1>6, <1>7, <1>8, <1>9
        DEF Next, QueueStep, RequestEnds, AskForToken, RequestLogout, IssueTicket, vars

-----------------------------------------------------------------------------
(* The results.                                                            *)

\* Nobody has asked for anything at the start.
LEMMA TicketsInvInit == Init => TicketsInv
<1> SUFFICES ASSUME Init PROVE TicketsInv
  OBVIOUS
<1> USE DEF Init
<1>1. Recorded = {} /\ \A o : ~Waits(o) /\ Once(o) BY DEF Recorded, Waits, Once
<1>2. Types
  <2>1. queue = <<>> /\ Len(queue) = 0 OBVIOUS
  <2>2. queue \in Seq(Ops)
    <3>1. <<>> \in Seq(Ops) OBVIOUS
    <3> QED BY <2>1, <3>1
  <2>3. handler \in [Conns -> {"Unborn", "Asking", "Offered", "Ready", "Destroyed"}]
        /\ held \in [Conns -> Nat]
    BY DEF NoTicket
  <2>4. \A i \in 1..Len(queue) : FALSE BY <2>1
  <2>5. /\ running = None /\ issued = {} /\ nextIndex = 1 /\ good = {}
        /\ loggedIn = TRUE /\ shut = FALSE
    OBVIOUS
  <2> HIDE DEF Init
  <2> QED BY <2>2, <2>3, <2>4, <2>5 DEF Types, TypeOK
<1>3. AskedOnce BY <1>1, ConstantsAssumption DEF AskedOnce
<1>4. NumbersAreOnes BY <1>1 DEF NumbersAreOnes, NoTicket
<1>5. IssuedToTheUser /\ RecordedIsGood /\ OfferedStaysGood
  BY <1>1 DEF IssuedToTheUser, RecordedIsGood, OfferedStaysGood
<1> QED BY <1>2, <1>3, <1>4, <1>5 DEF TicketsInv

\* The inductive invariant of the tickets of a client.
THEOREM TicketsInvHolds == Spec => []TicketsInv
<1>1. TicketsInv /\ [Next]_vars => TicketsInv'
  BY TypesKept, AskedOnceKept, NumbersKept, RecordKept, OfferedKept DEF TicketsInv
<1> QED BY TicketsInvInit, <1>1, PTL DEF Spec

\* Every variable of FAuthSteam and of the handlers has its type, and a request in flight
\* has a ticket that Steam handed over.
THEOREM TicketTypes == Spec => []TypeOK
BY TicketsInvHolds, PTL DEF TicketsInv, Types

\* What IssuedAuthTickets holds is good at Steam, under one number, and belongs to a user
\* who is logged in.
THEOREM RecordedIsGoodHolds == Spec => []RecordedIsGood
BY TicketsInvHolds, PTL DEF TicketsInv

\* The ticket a connection offered stays recorded and good while the connection lives:
\* CancelVerifiedAuthTicket of another never takes it.
THEOREM OfferedStays == Spec => []OfferedStaysGood
BY TicketsInvHolds, PTL DEF TicketsInv
=============================================================================
