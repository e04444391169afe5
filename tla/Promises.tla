------------------------------ MODULE Promises ------------------------------
(***************************************************************************)
(* What the dispatcher of Steam calls promises its callers: the future a   *)
(* call returns is fulfilled exactly once - with Steam's answer, with a    *)
(* timeout or with a cancellation - and it is always fulfilled.            *)
(***************************************************************************)
CONSTANT Requests
VARIABLE value   \* of each future: not made, open, or what it was fulfilled with

Outcomes == {"answer", "timeout", "cancelled"}

Init == value = [r \in Requests |-> "unmade"]

Make(r) == /\ value[r] = "unmade"
           /\ value' = [value EXCEPT ![r] = "open"]

\* A call that is answered on the spot returns a future that is fulfilled.
Keep(r, o) == /\ value[r] \in {"unmade", "open"}
              /\ value' = [value EXCEPT ![r] = o]

Next == \E r \in Requests : Make(r) \/ \E o \in Outcomes : Keep(r, o)

Kept == \A r \in Requests :
  WF_value(value[r] = "open" /\ \E o \in Outcomes : Keep(r, o))

Safety == Init /\ [][Next]_value

Spec == Safety /\ Kept
=============================================================================
