-------------------------- MODULE SteamCallsProofs --------------------------
(***************************************************************************)
(* The dispatcher keeps its promises for any number of requests, instances *)
(* of the services and shared messages: a future is fulfilled at most      *)
(* once, whatever continuations issue while a list of requests is walked,  *)
(* and Steam never calls a request that is complete.                       *)
(***************************************************************************)
EXTENDS SteamCalls, TLAPS

CallsInv == TypeOK /\ OwnedWhileOpen /\ SteamCallsTheLiving /\ GoneIsEmpty

\* Nothing is issued and nothing is walked at the start.
LEMMA CallsInvInit == Init => CallsInv
BY ConstantsAssumption
   DEF Init, CallsInv, TypeOK, OwnedWhileOpen, MovedOut, SteamCallsTheLiving, GoneIsEmpty

\* What Fulfil leaves of the three records of a request, when it was open and
\* when it was not.
LEMMA FulfilLeaves ==
  ASSUME CallsInv, NEW r \in Requests, NEW o \in Outcomes, Fulfil(r, o)
  PROVE  /\ value' \in [Requests -> {"unmade", "open"} \cup Outcomes]
         /\ pending' \in [Instances -> SUBSET Requests]
         /\ listening' = listening \ {r}
         /\ answering' \in BOOLEAN
         /\ \A q \in Requests : value'[q] = "open" <=> value[q] = "open" /\ q # r
         /\ \A q \in Requests : value[q] # "unmade" => value'[q] # "unmade"
         /\ \A i \in Instances : pending'[i] = pending[i] \ {r}
<1>1. Owner[r] \in Instances BY ConstantsAssumption
<1>2. "open" \notin Outcomes /\ "unmade" \notin Outcomes BY DEF Outcomes
<1>3. \A i \in Instances : r \in pending[i] => i = Owner[r] /\ value[r] = "open"
  BY DEF CallsInv, OwnedWhileOpen
<1>4. r \in listening <=> value[r] = "open" BY DEF CallsInv, SteamCallsTheLiving
<1>5. CASE value[r] = "open"
  <2>1. /\ value' = [value EXCEPT ![r] = o]
        /\ listening' = listening \ {r}
        /\ pending' = [pending EXCEPT ![Owner[r]] = @ \ {r}]
        /\ answering' = TRUE
    BY <1>5 DEF Fulfil
  <2>2. \A i \in Instances : pending'[i] = pending[i] \ {r}
    BY <1>1, <1>3, <2>1 DEF CallsInv, TypeOK
  <2> QED BY <1>1, <1>2, <2>1, <2>2 DEF CallsInv, TypeOK
<1>6. CASE value[r] # "open"
  <2>1. UNCHANGED <<value, pending, listening, answering>>
    BY <1>6 DEF Fulfil, requestVars
  <2> QED BY <1>3, <1>4, <1>6, <2>1 DEF CallsInv, TypeOK
<1> QED BY <1>5, <1>6

\* Completing a request that a Tick or a pump is walking to leaves every other
\* request where it was.
LEMMA FulfilKeeps ==
  ASSUME CallsInv, NEW r \in todo, NEW o \in Outcomes, Fulfil(r, o), todo' = todo \ {r},
         walk # "none", UNCHANGED <<overdue, posted, walk, walker, frameVars, destroyed>>
  PROVE  CallsInv'
<1>1. r \in Requests BY DEF CallsInv, TypeOK
<1>2. /\ value' \in [Requests -> {"unmade", "open"} \cup Outcomes]
      /\ pending' \in [Instances -> SUBSET Requests]
      /\ listening' = listening \ {r}
      /\ answering' \in BOOLEAN
      /\ \A q \in Requests : value'[q] = "open" <=> value[q] = "open" /\ q # r
      /\ \A q \in Requests : value[q] # "unmade" => value'[q] # "unmade"
      /\ \A i \in Instances : pending'[i] = pending[i] \ {r}
  BY <1>1, FulfilLeaves
<1>3. TypeOK' BY <1>2 DEF CallsInv, TypeOK, frameVars
<1>4. OwnedWhileOpen'
  <2>1. \A i \in Instances : MovedOut(i)' = MovedOut(i) \ {r} BY DEF MovedOut
  <2>2. \A i \in Instances : (pending[i])' = pending[i] \ {r} BY <1>2
  <2>3. \A i \in Instances : (pending[i])' \cap MovedOut(i)' = {}
    BY <2>1, <2>2 DEF CallsInv, OwnedWhileOpen
  <2>4. \A q \in Requests : \A i \in Instances :
          q \in (pending[i])' \cup MovedOut(i)' <=> i = Owner[q] /\ (value[q])' = "open"
    BY <1>2, <2>1, <2>2 DEF CallsInv, OwnedWhileOpen
  <2> QED BY <2>3, <2>4 DEF OwnedWhileOpen
<1>5. SteamCallsTheLiving' BY <1>2 DEF CallsInv, SteamCallsTheLiving
<1>6. GoneIsEmpty' BY <1>2 DEF CallsInv, GoneIsEmpty, TypeOK
<1> QED BY <1>3, <1>4, <1>5, <1>6 DEF CallsInv

\* A step that touches no request and walks no list that was moved out.
LEMMA WalkKeeps ==
  ASSUME CallsInv, TypeOK', UNCHANGED <<value, pending, listening, destroyed>>,
         \A i \in Instances : MovedOut(i)' = {}, \A i \in Instances : MovedOut(i) = {},
         walk' # "CancelAll"
  PROVE  CallsInv'
BY DEF CallsInv, OwnedWhileOpen, SteamCallsTheLiving, GoneIsEmpty

\* Issuing a request gives it to its dispatcher, or to nobody.
LEMMA IssueKeeps ==
  ASSUME CallsInv, NEW r \in Requests, Issue(r)
  PROVE  CallsInv'
<1>1. Owner[r] \in Instances /\ Owner[r] \notin destroyed BY ConstantsAssumption DEF Issue
<1>2. value[r] = "unmade" BY DEF Issue
<1>3. UNCHANGED <<overdue, posted, walk, walker, todo, answering, ticked, pumped, destroyed>>
  BY DEF Issue, walkVars, frameVars
<1>4. \A i \in Instances : MovedOut(i)' = MovedOut(i) BY <1>3 DEF MovedOut
<1>5. \A i \in Instances : r \notin pending[i] \cup MovedOut(i)
  BY <1>2 DEF CallsInv, OwnedWhileOpen
<1>6. r \notin listening BY <1>2 DEF CallsInv, SteamCallsTheLiving
<1>7. CASE /\ value' = [value EXCEPT ![r] = "open"]
           /\ listening' = listening \cup {r}
           /\ pending' = [pending EXCEPT ![Owner[r]] = @ \cup {r}]
  <2>1. \A q \in Requests : value'[q] = IF q = r THEN "open" ELSE value[q]
    BY <1>7 DEF CallsInv, TypeOK
  <2>2. \A i \in Instances :
          pending'[i] = IF i = Owner[r] THEN pending[i] \cup {r} ELSE pending[i]
    BY <1>7 DEF CallsInv, TypeOK
  <2>3. TypeOK' BY <1>1, <1>3, <1>7, <2>1 DEF CallsInv, TypeOK
  <2>4. ASSUME NEW i \in Instances PROVE (pending[i])' \cap MovedOut(i)' = {}
    <3>1. pending[i] \cap MovedOut(i) = {} /\ r \notin MovedOut(i)
      BY <1>5 DEF CallsInv, OwnedWhileOpen
    <3>2. MovedOut(i)' = MovedOut(i) BY <1>4
    <3>3. (pending[i])' \subseteq pending[i] \cup {r} BY <2>2
    <3> QED BY <3>1, <3>2, <3>3
  <2>5. ASSUME NEW q \in Requests, NEW i \in Instances
        PROVE  q \in (pending[i])' \cup MovedOut(i)' <=> i = Owner[q] /\ (value[q])' = "open"
    <3>1. q \in pending[i] \cup MovedOut(i) <=> i = Owner[q] /\ value[q] = "open"
      BY DEF CallsInv, OwnedWhileOpen
    <3>2. MovedOut(i)' = MovedOut(i) BY <1>4
    <3>3. (value[q])' = IF q = r THEN "open" ELSE value[q] BY <2>1
    <3>4. (pending[i])' = IF i = Owner[r] THEN pending[i] \cup {r} ELSE pending[i] BY <2>2
    <3>5. CASE q = r BY <1>5, <3>2, <3>3, <3>4, <3>5
    <3>6. CASE q # r BY <3>1, <3>2, <3>3, <3>4, <3>6
    <3> QED BY <3>5, <3>6
  <2>6. OwnedWhileOpen' BY <2>4, <2>5 DEF OwnedWhileOpen
  <2>7. SteamCallsTheLiving' BY <1>7, <2>1 DEF CallsInv, SteamCallsTheLiving
  <2>8. GoneIsEmpty' BY <1>1, <1>3, <2>2 DEF CallsInv, GoneIsEmpty, TypeOK
  <2> QED BY <2>3, <2>6, <2>7, <2>8 DEF CallsInv
<1>8. CASE /\ value' = [value EXCEPT ![r] = "answer"]
           /\ UNCHANGED <<pending, listening>>
  <2>1. \A q \in Requests : value'[q] = IF q = r THEN "answer" ELSE value[q]
    BY <1>8 DEF CallsInv, TypeOK
  <2>2. "answer" \in Outcomes BY DEF Outcomes
  <2>3. TypeOK' BY <1>3, <1>8, <2>1, <2>2 DEF CallsInv, TypeOK
  <2>4. \A i \in Instances : (pending[i])' = pending[i] BY <1>8
  <2>5. \A i \in Instances : (pending[i])' \cap MovedOut(i)' = {}
    BY <1>4, <2>4 DEF CallsInv, OwnedWhileOpen
  <2>6. \A q \in Requests : \A i \in Instances :
          q \in (pending[i])' \cup MovedOut(i)' <=> i = Owner[q] /\ (value[q])' = "open"
    BY <1>2, <1>4, <1>5, <2>1, <2>4 DEF CallsInv, OwnedWhileOpen
  <2>7. OwnedWhileOpen' BY <2>5, <2>6 DEF OwnedWhileOpen
  <2>8. SteamCallsTheLiving' BY <1>6, <1>8, <2>1 DEF CallsInv, SteamCallsTheLiving
  <2>9. GoneIsEmpty' BY <1>3, <1>8 DEF CallsInv, GoneIsEmpty
  <2> QED BY <2>3, <2>7, <2>8, <2>9 DEF CallsInv
<1> QED BY <1>7, <1>8 DEF Issue

\* CancelAll and the destructor move the whole list of one instance out.
LEMMA MoveOutKeeps ==
  ASSUME CallsInv, NEW i \in Instances, NEW proc \in {"CancelAll", "Delete"},
         \A j \in Instances : MovedOut(j) = {},
         Walks(proc, i, pending[i]), pending' = [pending EXCEPT ![i] = {}],
         UNCHANGED <<value, listening, overdue, posted, frameVars>>,
         proc = "CancelAll" => i \notin destroyed,
         destroyed' = destroyed \cup (IF proc = "Delete" THEN {i} ELSE {})
  PROVE  CallsInv'
<1>1. walk' = proc /\ walker' = i /\ todo' = pending[i] /\ answering' = FALSE BY DEF Walks
<1>2. \A j \in Instances : pending'[j] = IF j = i THEN {} ELSE pending[j]
  BY DEF CallsInv, TypeOK
<1>3. \A j \in Instances : MovedOut(j)' = IF j = i THEN pending[i] ELSE {}
  BY <1>1 DEF MovedOut
<1>4. TypeOK' BY <1>1, ConstantsAssumption DEF CallsInv, TypeOK, frameVars
<1>5. \A j \in Instances : pending'[j] \cap MovedOut(j)' = {} BY <1>2, <1>3
<1>6. \A j \in Instances : pending'[j] \cup MovedOut(j)' = pending[j] BY <1>2, <1>3
<1>7. \A q \in Requests : \A j \in Instances :
        q \in pending'[j] \cup MovedOut(j)' <=> j = Owner[q] /\ value'[q] = "open"
  BY <1>6 DEF CallsInv, OwnedWhileOpen
<1>8. OwnedWhileOpen' BY <1>5, <1>7 DEF OwnedWhileOpen
<1>9. SteamCallsTheLiving' BY DEF CallsInv, SteamCallsTheLiving
<1>10. GoneIsEmpty' BY <1>1, <1>2 DEF CallsInv, GoneIsEmpty, TypeOK
<1> QED BY <1>4, <1>8, <1>9, <1>10 DEF CallsInv

\* Every step keeps the records of the requests in agreement.
LEMMA CallsInvStep == CallsInv /\ [Next]_vars => CallsInv'
<1> SUFFICES ASSUME CallsInv, [Next]_vars PROVE CallsInv'
    OBVIOUS
<1>0. walk \notin {"CancelAll", "Delete"} \/ todo = {} => \A i \in Instances : MovedOut(i) = {}
  BY DEF MovedOut
<1>1. ASSUME NEW r \in Requests, Issue(r) PROVE CallsInv'
  BY <1>1, IssueKeeps
<1>2. ASSUME NEW r \in Requests, DeadlinePasses(r) PROVE CallsInv'
  <2>1. UNCHANGED <<value, pending, listening, posted, walk, walker, todo, answering, ticked,
                    pumped, destroyed>>
    BY <1>2 DEF DeadlinePasses, requestVars, walkVars, frameVars
  <2>2. TypeOK' BY <1>2, <2>1 DEF CallsInv, TypeOK, DeadlinePasses
  <2>3. \A i \in Instances : MovedOut(i)' = MovedOut(i) BY <2>1 DEF MovedOut
  <2> QED BY <2>1, <2>2, <2>3 DEF CallsInv, OwnedWhileOpen, SteamCallsTheLiving, GoneIsEmpty
<1>3. ASSUME NEW i \in Instances, TickBegin(i) PROVE CallsInv'
  <2>1. walk = "none" /\ walk' = "Tick" BY <1>3 DEF TickBegin, Walks
  <2>2. TypeOK' BY <1>3, ConstantsAssumption DEF CallsInv, TypeOK, TickBegin, Walks, requestVars, frameVars
  <2>3. \A j \in Instances : MovedOut(j)' = {} /\ MovedOut(j) = {} BY <2>1 DEF MovedOut
  <2> QED BY <1>3, <2>1, <2>2, <2>3, WalkKeeps DEF TickBegin, requestVars
<1>4. ASSUME NEW r \in Requests, ExpireNext(r) PROVE CallsInv'
  BY <1>4, FulfilKeeps DEF ExpireNext, Outcomes
<1>5. ASSUME NEW r \in Requests, OnSteamCallback(r) PROVE CallsInv'
  <2>1. CASE r \in listening
    BY <1>5, <2>1, FulfilKeeps DEF OnSteamCallback, Outcomes
  <2>2. CASE r \notin listening
    <3>1. walk = "Pump" /\ walk' = "Pump" BY <1>5 DEF OnSteamCallback
    <3>2. TypeOK' BY <1>5, <2>2 DEF CallsInv, TypeOK, OnSteamCallback, requestVars, frameVars
    <3>3. \A j \in Instances : MovedOut(j)' = {} /\ MovedOut(j) = {} BY <3>1 DEF MovedOut
    <3> QED BY <1>5, <2>2, <3>1, <3>2, <3>3, WalkKeeps DEF OnSteamCallback, requestVars
  <2> QED BY <2>1, <2>2
<1>6. ASSUME NEW m \in Messages, Dispatch(m) PROVE CallsInv'
  <2>1. walk = "Pump" /\ walk' = "Pump" BY <1>6 DEF Dispatch
  <2>2. TypeOK' BY <1>6 DEF CallsInv, TypeOK, Dispatch, requestVars, frameVars
  <2>3. \A j \in Instances : MovedOut(j)' = {} /\ MovedOut(j) = {} BY <2>1 DEF MovedOut
  <2> QED BY <1>6, <2>1, <2>2, <2>3, WalkKeeps DEF Dispatch, requestVars
<1>7. CASE PumpBegin
  <2>1. walk = "Tick" /\ todo' = {} /\ walk' # "CancelAll" BY <1>7 DEF PumpBegin, Walks
  <2>2. TypeOK'
    <3>1. CASE pumped
      BY <1>7, <3>1 DEF CallsInv, TypeOK, PumpBegin, Walks, requestVars
    <3>2. CASE ~pumped
      BY <1>7, <3>2 DEF CallsInv, TypeOK, PumpBegin, Walks, requestVars
    <3> QED BY <3>1, <3>2
  <2>3. \A j \in Instances : MovedOut(j)' = {} /\ MovedOut(j) = {} BY <2>1 DEF MovedOut
  <2> QED BY <1>7, <2>1, <2>2, <2>3, WalkKeeps DEF PumpBegin, requestVars
<1>8. CASE PumpEnd
  <2>1. walk = "Pump" /\ walk' = "none" BY <1>8 DEF PumpEnd, Walks
  <2>2. TypeOK' BY <1>8 DEF CallsInv, TypeOK, PumpEnd, Walks, requestVars, frameVars
  <2>3. \A j \in Instances : MovedOut(j)' = {} /\ MovedOut(j) = {} BY <2>1 DEF MovedOut
  <2> QED BY <1>8, <2>1, <2>2, <2>3, WalkKeeps DEF PumpEnd, requestVars
<1>9. CASE NextFrame
  <2>1. walk = "none" /\ walk' = "none" BY <1>9 DEF NextFrame, walkVars
  <2>2. TypeOK' BY <1>9 DEF CallsInv, TypeOK, NextFrame, requestVars, walkVars
  <2>3. \A j \in Instances : MovedOut(j)' = {} /\ MovedOut(j) = {} BY <2>1 DEF MovedOut
  <2> QED BY <1>9, <2>1, <2>2, <2>3, WalkKeeps DEF NextFrame, requestVars
<1>10. ASSUME NEW r \in Requests, CancelNext(r) PROVE CallsInv'
  BY <1>10, FulfilKeeps DEF CancelNext, Outcomes
<1>11. CASE DeleteDispatcher
  <2>1. walker \in Instances BY <1>11 DEF CallsInv, TypeOK, DeleteDispatcher
  <2> QED BY <1>0, <1>11, <2>1, MoveOutKeeps DEF DeleteDispatcher
<1>12. CASE DestroyEnd
  <2>1. todo = {} /\ walk' = "none" BY <1>12 DEF DestroyEnd, Walks
  <2>2. TypeOK' BY <1>12 DEF CallsInv, TypeOK, DestroyEnd, Walks, requestVars, frameVars
  <2>3. \A j \in Instances : MovedOut(j)' = {} /\ MovedOut(j) = {} BY <2>1 DEF MovedOut
  <2> QED BY <1>12, <2>1, <2>2, <2>3, WalkKeeps DEF DestroyEnd, requestVars
<1>13. ASSUME NEW i \in Instances, CancelAll(i) PROVE CallsInv'
  BY <1>0, <1>13, MoveOutKeeps DEF CancelAll
<1>14. ASSUME NEW m \in Messages, SteamPosts(m) PROVE CallsInv'
  <2>1. UNCHANGED <<value, pending, listening, overdue, walk, walker, todo, answering, ticked,
                    pumped, destroyed>>
    BY <1>14 DEF SteamPosts, requestVars, walkVars, frameVars
  <2>2. TypeOK' BY <1>14, <2>1 DEF CallsInv, TypeOK, SteamPosts
  <2>3. \A i \in Instances : MovedOut(i)' = MovedOut(i) BY <2>1 DEF MovedOut
  <2> QED BY <2>1, <2>2, <2>3 DEF CallsInv, OwnedWhileOpen, SteamCallsTheLiving, GoneIsEmpty
<1>15. CASE UNCHANGED vars
  <2>1. UNCHANGED <<value, pending, listening, overdue, posted, walk, walker, todo, answering,
                    ticked, pumped, destroyed>>
    BY <1>15 DEF vars, requestVars, walkVars, frameVars
  <2>2. TypeOK' BY <2>1 DEF CallsInv, TypeOK
  <2>3. \A i \in Instances : MovedOut(i)' = MovedOut(i) BY <2>1 DEF MovedOut
  <2> QED BY <2>1, <2>2, <2>3 DEF CallsInv, OwnedWhileOpen, SteamCallsTheLiving, GoneIsEmpty
<1> QED BY <1>1, <1>2, <1>3, <1>4, <1>5, <1>6, <1>7, <1>8, <1>9, <1>10, <1>11, <1>12, <1>13,
           <1>14, <1>15
        DEF Next, TickStep, DestroyStep

\* The records of the requests agree in every reachable state.
THEOREM CallsInvHolds == Spec => []CallsInv
BY CallsInvInit, CallsInvStep, PTL DEF Spec

\* Every variable holds values the program can hold.
THEOREM CallsTypeCorrect == Spec => []TypeOK
<1>1. CallsInv => TypeOK BY DEF CallsInv
<1> QED BY <1>1, CallsInvHolds, PTL

\* A request belongs to its dispatcher exactly while it is open.
THEOREM OwnedWhileOpenHolds == Spec => []OwnedWhileOpen
<1>1. CallsInv => OwnedWhileOpen BY DEF CallsInv
<1> QED BY <1>1, CallsInvHolds, PTL

\* Steam never calls a request that is complete.
THEOREM SteamCallsTheLivingHolds == Spec => []SteamCallsTheLiving
<1>1. CallsInv => SteamCallsTheLiving BY DEF CallsInv
<1> QED BY <1>1, CallsInvHolds, PTL

\* Nothing waits on an instance that is gone.
THEOREM NothingWaitsOnTheGoneHolds == Spec => []NothingWaitsOnTheGone
<1>1. CallsInv => NothingWaitsOnTheGone
  <2> SUFFICES ASSUME CallsInv, NEW r \in Requests, Owner[r] \in destroyed, walk # "Delete",
                      value[r] = "open"
               PROVE  FALSE
      BY DEF NothingWaitsOnTheGone
  <2>1. Owner[r] \in Instances /\ pending[Owner[r]] = {}
    BY ConstantsAssumption DEF CallsInv, GoneIsEmpty
  <2>2. r \in MovedOut(Owner[r]) BY <2>1 DEF CallsInv, OwnedWhileOpen
  <2> QED BY <2>2 DEF MovedOut, CallsInv, GoneIsEmpty
<1> QED BY <1>1, CallsInvHolds, PTL

\* The dispatcher implements its promise, as far as safety goes: every step
\* makes one future, fulfils one that was not fulfilled, or does nothing to them.
THEOREM FuturesKept == Spec => FuturesSafety
<1>1. Init => Futures!Init BY DEF Init, Futures!Init
<1>2. CallsInv /\ [Next]_vars => [Futures!Next]_value
  <2> SUFFICES ASSUME CallsInv, [Next]_vars, value' # value PROVE Futures!Next
      OBVIOUS
  <2>1. ASSUME NEW r \in Requests, NEW o \in Outcomes, Fulfil(r, o) PROVE Futures!Next
    <3>1. value[r] = "open" /\ value' = [value EXCEPT ![r] = o] BY <2>1 DEF Fulfil, requestVars
    <3> QED BY <2>1, <3>1 DEF Futures!Next, Futures!Keep, Outcomes, Futures!Outcomes
  <2>2. ASSUME NEW r \in Requests, Issue(r) PROVE Futures!Next
    BY <2>2 DEF Issue, Futures!Next, Futures!Make, Futures!Keep, Futures!Outcomes
  <2>3. ASSUME NEW r \in Requests, ExpireNext(r) \/ OnSteamCallback(r) \/ CancelNext(r)
        PROVE Futures!Next
    <3>1. \E o \in Outcomes : Fulfil(r, o)
      BY <2>3 DEF ExpireNext, OnSteamCallback, CancelNext, Outcomes, requestVars
    <3> QED BY <2>1, <3>1
  <2>4. CASE (\E r \in Requests : DeadlinePasses(r)) \/ (\E i \in Instances : TickBegin(i))
             \/ PumpBegin \/ PumpEnd \/ NextFrame \/ DeleteDispatcher \/ DestroyEnd
             \/ (\E m \in Messages : Dispatch(m) \/ SteamPosts(m))
             \/ (\E i \in Instances : CancelAll(i)) \/ UNCHANGED vars
    BY <2>4 DEF DeadlinePasses, TickBegin, PumpBegin, PumpEnd, NextFrame, DeleteDispatcher,
                DestroyEnd, Dispatch, SteamPosts, CancelAll, requestVars, vars
  <2> QED BY <2>2, <2>3, <2>4 DEF Next, TickStep, DestroyStep
<1> QED BY <1>1, <1>2, CallsInvHolds, PTL DEF Spec, FuturesSafety, Futures!Safety
=============================================================================
