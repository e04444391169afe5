----------------------------- MODULE SteamCalls -----------------------------
(***************************************************************************)
(* The Steam requests in flight (FSteamCallDispatcher) and the frame that  *)
(* completes them (FOnlineServicesSteam::Tick and Destroy).                *)
(*                                                                         *)
(* Everything runs on the game thread, and what makes it hard is           *)
(* re-entrancy: completing a request runs the continuation of its future,  *)
(* which issues further requests while a list of requests is being walked. *)
(* Several instances of the services share one Steam pipe, which whoever   *)
(* ticks first drains for all of them.                                     *)
(***************************************************************************)
CONSTANTS
  Requests,    \* the requests that are ever issued, each once
  Instances,   \* the instances of the services
  Messages,    \* what Steam can post
  Owner,       \* the instance whose dispatcher a request belongs to
  Awaits,      \* the message IsMatch tells to be a request's own
  Nobody       \* no instance

ASSUME ConstantsAssumption ==
  /\ Owner \in [Requests -> Instances]
  /\ Awaits \in [Requests -> Messages]
  /\ Nobody \notin Instances

VARIABLES
  value,      \* of each request's promise; bFulfilled once it is an outcome
  pending,    \* PendingRequests of each instance
  listening,  \* requests whose callback or call result Steam knows
  overdue,    \* requests whose DeadlineSeconds has passed
  posted,     \* messages Steam has posted and not dispatched yet
  walk,       \* the list being walked: "none", "Tick", "Pump", "CancelAll", "Delete"
  walker,     \* the instance walking it
  todo,       \* what is left of that list
  answering,  \* a continuation is running
  ticked,     \* instances that ticked this frame
  pumped,     \* LastPumpedFrame is this frame
  destroyed   \* instances that let go of their dispatcher

requestVars == <<value, pending, listening>>
walkVars    == <<walk, walker, todo, answering>>
frameVars   == <<ticked, pumped>>
vars == <<requestVars, overdue, posted, walkVars, frameVars, destroyed>>

Outcomes == {"answer", "timeout", "cancelled"}

Init ==
  /\ value = [r \in Requests |-> "unmade"]
  /\ pending = [i \in Instances |-> {}]
  /\ listening = {} /\ overdue = {} /\ posted = {}
  /\ walk = "none" /\ walker = Nobody /\ todo = {} /\ answering = FALSE
  /\ ticked = {} /\ pumped = FALSE /\ destroyed = {}

-----------------------------------------------------------------------------
\* Mutant of Fulfil: the completed request stays in the list of the dispatcher.
FulfilUnreleased(r, outcome) ==
  IF value[r] = "open"
  THEN /\ value' = [value EXCEPT ![r] = outcome]
       /\ listening' = listening \ {r}
       /\ UNCHANGED pending
       /\ answering' = TRUE
  ELSE UNCHANGED <<requestVars, answering>>

\* Mutant of Fulfil: the callback stays registered.
FulfilRegistered(r, outcome) ==
  IF value[r] = "open"
  THEN /\ value' = [value EXCEPT ![r] = outcome]
       /\ pending' = [pending EXCEPT ![Owner[r]] = @ \ {r}]
       /\ UNCHANGED listening
       /\ answering' = TRUE
  ELSE UNCHANGED <<requestVars, answering>>

\* The single completion path of a request: Steam stops calling it, the
\* dispatcher lets go of it, and then its continuation runs.
Fulfil(r, outcome) ==
  IF value[r] = "open"
  THEN /\ value' = [value EXCEPT ![r] = outcome]
       /\ listening' = listening \ {r}
       /\ pending' = [pending EXCEPT ![Owner[r]] = @ \ {r}]
       /\ answering' = TRUE
  ELSE UNCHANGED <<requestVars, answering>>

Walks(proc, who, list) ==
  /\ walk' = proc /\ walker' = who /\ todo' = list /\ answering' = FALSE

\* Code of the game or a continuation is running, so calls can be issued.
CodeRuns == walk = "none" \/ answering

-----------------------------------------------------------------------------
\* Call and Listen: the request is handed to the dispatcher and started.  Steam
\* takes it, or it is completed on the spot: answered, or not accepted.
Issue(r) ==
  /\ CodeRuns
  /\ value[r] = "unmade" /\ Owner[r] \notin destroyed
  /\ \/ /\ value' = [value EXCEPT ![r] = "open"]
        /\ listening' = listening \cup {r}
        /\ pending' = [pending EXCEPT ![Owner[r]] = @ \cup {r}]
     \/ /\ value' = [value EXCEPT ![r] = "answer"]
        /\ UNCHANGED <<pending, listening>>
  /\ UNCHANGED <<overdue, posted, walkVars, frameVars, destroyed>>

-----------------------------------------------------------------------------
(* FOnlineServicesSteam::Tick: the deadlines, then the pipe.               *)

\* Mutant of TickBegin: the guard against a second pump covers the deadlines too.
TickBeginOnce(i) ==
  /\ walk = "none" /\ i \notin ticked \cup destroyed
  /\ Walks("Tick", i, IF pumped THEN {} ELSE pending[i] \cap overdue)
  /\ UNCHANGED <<requestVars, overdue, posted, frameVars, destroyed>>

\* The expired requests are collected first and failed after.
TickBegin(i) ==
  /\ walk = "none" /\ i \notin ticked \cup destroyed
  /\ Walks("Tick", i, pending[i] \cap overdue)
  /\ UNCHANGED <<requestVars, overdue, posted, frameVars, destroyed>>

ExpireNext(r) ==
  /\ walk = "Tick" /\ r \in todo
  /\ Fulfil(r, "timeout")
  /\ todo' = todo \ {r}
  /\ UNCHANGED <<overdue, posted, walk, walker, frameVars, destroyed>>

\* A shared service dispatches once per frame however many instances tick it.
PumpBegin ==
  /\ walk = "Tick" /\ todo = {}
  /\ Walks(IF pumped THEN "none" ELSE "Pump", IF pumped THEN Nobody ELSE walker, {})
  /\ pumped' = TRUE
  /\ ticked' = ticked \cup {walker}
  /\ UNCHANGED <<requestVars, overdue, posted, destroyed>>

\* Steam calls everybody who listens; a request filters out what is not its own.
Dispatch(m) ==
  /\ walk = "Pump" /\ todo = {} /\ m \in posted
  /\ posted' = posted \ {m}
  /\ todo' = {r \in listening : Awaits[r] = m}
  /\ UNCHANGED <<requestVars, overdue, walk, walker, answering, frameVars, destroyed>>

OnSteamCallback(r) ==
  /\ walk = "Pump" /\ r \in todo
  /\ IF r \in listening THEN Fulfil(r, "answer") ELSE UNCHANGED <<requestVars, answering>>
  /\ todo' = todo \ {r}
  /\ UNCHANGED <<overdue, posted, walk, walker, frameVars, destroyed>>

PumpEnd ==
  /\ walk = "Pump" /\ todo = {} /\ posted = {}
  /\ Walks("none", Nobody, {})
  /\ UNCHANGED <<requestVars, overdue, posted, frameVars, destroyed>>

NextFrame ==
  /\ walk = "none" /\ ticked \cup destroyed = Instances
  /\ ticked' = {} /\ pumped' = FALSE
  /\ UNCHANGED <<requestVars, overdue, posted, walkVars, destroyed>>

-----------------------------------------------------------------------------
(* FOnlineServicesSteam::Destroy.                                          *)

\* CancelAll moves the list out before it walks it.
CancelAll(i) ==
  /\ walk = "none" /\ i \notin destroyed
  /\ Walks("CancelAll", i, pending[i])
  /\ pending' = [pending EXCEPT ![i] = {}]
  /\ UNCHANGED <<value, listening, overdue, posted, frameVars, destroyed>>

CancelNext(r) ==
  /\ walk \in {"CancelAll", "Delete"} /\ r \in todo
  /\ Fulfil(r, "cancelled")
  /\ todo' = todo \ {r}
  /\ UNCHANGED <<overdue, posted, walk, walker, frameVars, destroyed>>

\* Mutant of DeleteDispatcher: it goes without cancelling again.
DeleteAtOnce ==
  /\ walk = "CancelAll" /\ todo = {}
  /\ destroyed' = destroyed \cup {walker}
  /\ Walks("Delete", walker, {})
  /\ pending' = [pending EXCEPT ![walker] = {}]
  /\ UNCHANGED <<value, listening, overdue, posted, frameVars>>

\* The dispatcher is let go of before its destructor cancels what continuations
\* of the first round issued: nothing can be issued by those of the second.
DeleteDispatcher ==
  /\ walk = "CancelAll" /\ todo = {}
  /\ destroyed' = destroyed \cup {walker}
  /\ Walks("Delete", walker, pending[walker])
  /\ pending' = [pending EXCEPT ![walker] = {}]
  /\ UNCHANGED <<value, listening, overdue, posted, frameVars>>

DestroyEnd ==
  /\ walk = "Delete" /\ todo = {}
  /\ Walks("none", Nobody, {})
  /\ UNCHANGED <<requestVars, overdue, posted, frameVars, destroyed>>

-----------------------------------------------------------------------------
(* Time and Steam.                                                         *)

\* Mutant of DeadlinePasses: the deadline is the timeout without the clock.
DeadlinePassed(r) ==
  /\ r \notin overdue
  /\ overdue' = overdue \cup {r}
  /\ UNCHANGED <<requestVars, posted, walkVars, frameVars, destroyed>>

\* DeadlineSeconds is set when the request is made.
DeadlinePasses(r) ==
  /\ value[r] = "open" /\ r \notin overdue
  /\ overdue' = overdue \cup {r}
  /\ UNCHANGED <<requestVars, posted, walkVars, frameVars, destroyed>>

\* Steam answers what it was asked, or broadcasts the message again.  What it
\* posts while the pipe is drained is taken to be the next frame's.
SteamPosts(m) ==
  /\ walk # "Pump"
  /\ m \notin posted /\ \E r \in Requests : Awaits[r] = m /\ value[r] # "unmade"
  /\ posted' = posted \cup {m}
  /\ UNCHANGED <<requestVars, overdue, walkVars, frameVars, destroyed>>

TickStep ==
  \/ \E i \in Instances : TickBegin(i)
  \/ \E r \in Requests : ExpireNext(r) \/ OnSteamCallback(r)
  \/ \E m \in Messages : Dispatch(m)
  \/ PumpBegin \/ PumpEnd \/ NextFrame

DestroyStep == (\E r \in Requests : CancelNext(r)) \/ DeleteDispatcher \/ DestroyEnd

Next ==
  \/ \E r \in Requests : Issue(r) \/ DeadlinePasses(r)
  \/ TickStep \/ DestroyStep
  \/ \E i \in Instances : CancelAll(i)
  \/ \E m \in Messages : SteamPosts(m)

Spec == Init /\ [][Next]_vars

\* The engine ticks each instance every frame, what it started it finishes, and
\* time passes.  Steam need not answer and nobody need destroy an instance.
Fairness ==
  /\ WF_vars(TickStep) /\ WF_vars(DestroyStep)
  /\ \A i \in Instances : SF_vars(TickBegin(i))
  /\ \A r \in Requests : WF_vars(DeadlinePasses(r))

FairSpec == Spec /\ Fairness

-----------------------------------------------------------------------------
(* Properties.                                                             *)

\* Every variable holds values the program can hold, a walk has a walker, and a
\* deadline is the deadline of a request that was made.
TypeOK ==
  /\ value \in [Requests -> {"unmade", "open"} \cup Outcomes]
  /\ pending \in [Instances -> SUBSET Requests]
  /\ listening \subseteq Requests /\ overdue \subseteq Requests
  /\ \A r \in overdue : value[r] # "unmade"
  /\ posted \subseteq Messages
  /\ walk \in {"none", "Tick", "Pump", "CancelAll", "Delete"}
  /\ walker \in Instances \cup {Nobody}
  /\ walk = "none" <=> walker = Nobody
  /\ todo \subseteq Requests
  /\ answering \in BOOLEAN /\ pumped \in BOOLEAN
  /\ ticked \subseteq Instances /\ destroyed \subseteq Instances

\* The list a CancelAll moved out, which keeps its requests alive.
MovedOut(i) == IF walk \in {"CancelAll", "Delete"} /\ walker = i THEN todo ELSE {}

\* A request that is not complete belongs to its dispatcher, which can time it
\* out, or to the CancelAll that is about to fail it; a complete one to nobody.
\* Whatever is issued while those lists are walked, none is lost or kept.
OwnedWhileOpen ==
  /\ \A i \in Instances : pending[i] \cap MovedOut(i) = {}
  /\ \A r \in Requests : \A i \in Instances :
       r \in pending[i] \cup MovedOut(i) <=> i = Owner[r] /\ value[r] = "open"

\* Steam only ever calls a request that is still there to be called, and every
\* request that waits is one Steam can call: no callback into freed memory and
\* no answer that finds nobody.
SteamCallsTheLiving == \A r \in Requests : r \in listening <=> value[r] = "open"

\* Once an instance is destroyed, "Nothing may be waiting on a Steam callback":
\* not even what the continuations of cancelled requests issued on the way out.
NothingWaitsOnTheGone ==
  \A r \in Requests : Owner[r] \in destroyed /\ walk # "Delete" => value[r] # "open"

\* What the proofs add: an instance that is gone has nothing left but what its
\* destructor is cancelling.
GoneIsEmpty ==
  /\ \A i \in destroyed : pending[i] = {}
  /\ walk = "CancelAll" => walker \notin destroyed

\* The dispatcher "Guarantees that the future returned by a call is fulfilled
\* exactly once: on the Steam callback, on timeout, or on cancellation".
Futures == INSTANCE Promises
FuturesSafety == Futures!Safety
FuturesSpec == Futures!Spec
=============================================================================
