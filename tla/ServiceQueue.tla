---------------------------- MODULE ServiceQueue ----------------------------
(***************************************************************************)
(* What the components of one services instance share: the login and the  *)
(* serial queue, in which one operation runs at a time.  An operation may *)
(* wait for Steam; callbacks are then dispatched beside it, and no other  *)
(* operation is.  In which order the game filled the queue is the order   *)
(* in which operations begin here; one that begins without a login fails, *)
(* changes nothing, and is left out.                                       *)
(***************************************************************************)
EXTENDS Naturals, Sequences, FiniteSets

CONSTANTS
  Me,        \* the local user
  None,      \* no operation, nothing kept
  MaxMoves   \* bound: what the game and the world outside do in a behaviour

VARIABLES
  login,     \* whether the local user is logged in
  op,        \* the operation that waits for Steam, with what it carries
  moves      \* how often the game or the world outside has acted

queue == <<login, op, moves>>

\* ResolveSteamUser: nothing is done for a user who is not logged in.
Free == op = None /\ login

Moves   == moves < MaxMoves /\ moves' = moves + 1
Outside == Moves /\ UNCHANGED <<login, op>>

Begins(r)  == Free /\ Moves /\ op' = r /\ UNCHANGED login
AtOnce     == Free /\ Outside
Runs(do)   == op # None /\ op.do = do
At(step)   == op # None /\ op.step = step
Goes(step) == op' = [op EXCEPT !.step = step] /\ UNCHANGED <<login, moves>>
Ends       == op' = None /\ UNCHANGED <<login, moves>>
Beside     == UNCHANGED queue

\* Login and Logout are operations of the same queue; only Logout counts as a move.
LogsInOrOut ==
  /\ op = None /\ login' = ~login /\ UNCHANGED op
  /\ IF login THEN Moves ELSE UNCHANGED moves
=============================================================================
