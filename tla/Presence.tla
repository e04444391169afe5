------------------------------- MODULE Presence -------------------------------
(***************************************************************************)
(* FPresenceSteam: what users are doing.                                   *)
(*                                                                         *)
(* Steam holds a presence as flat text.  It publishes the local user's     *)
(* whole, so a partial update starts from the copy kept when the game last *)
(* published, or from Steam's text when there is none.  Steam announces    *)
(* changes, of the local user's too, and an announcement replaces any copy *)
(* that is kept by what Steam holds when it is dispatched.                 *)
(***************************************************************************)
EXTENDS ServiceQueue

CONSTANTS
  Friend,    \* the other users the game asks about
  Field      \* what a presence says: the strings, joinability, the properties

ASSUME PresenceAssumption == Me \notin Friend

VARIABLES
  account,   \* Steam: each user's presence, the state of the account and the text
  kept,      \* CachedPresences
  watched,   \* WatchedUsers
  announced, \* Steam's callbacks, in order: the users whose presence changed
  told,      \* history: the presence the game was last given of a friend
  wanted     \* history: what the game last asked to have published

presenceVars == <<account, kept, watched, announced, told, wanted>>

Person == {Me} \cup Friend
State  == {"online", "away"}

\* A value is text as Steam would hold it, or one that reads otherwise once written (a
\* status without its hash, a number), or one Steam does not take: too long, or an array.
Text  == {"", "written", "other"}
Value == Text \cup {"raw", "oversized"}

\* ToDisplayToken, ToRichPresenceValue, IsWithinSteamLimits.
ToRichPresence(v) ==
  IF v = "raw" THEN "written" ELSE IF v = "oversized" THEN "" ELSE v

ReadUserPresence(u) == account[u]

\* The text is the kept copy's; the state of the account is Steam's either way.
GetLocalPresence ==
  IF kept[Me] = None THEN ReadUserPresence(Me)
  ELSE [kept[Me] EXCEPT !.state = account[Me].state]

GetCachedPresence(u) == IF u = Me THEN GetLocalPresence ELSE kept[u]

Announces(u) == announced' = Append(announced, u)

\* Mutant of WriteLocalPresence: what is not in the presence any more is not cleared.
WriteOver(text) ==
  account' = [account EXCEPT ![Me].text =
                [f \in Field |-> IF ToRichPresence(text[f]) = "" THEN @[f] ELSE ToRichPresence(text[f])]]

\* WriteLocalPresence: everything is cleared, and what can be said is set again.
WriteLocalPresence(text) ==
  account' = [account EXCEPT ![Me].text = [f \in Field |-> ToRichPresence(text[f])]]

PublishLocalPresence(text) ==
  /\ WriteLocalPresence(text)
  /\ kept' = [kept EXCEPT ![Me] = [state |-> account[Me].state, text |-> text]]
  /\ UNCHANGED announced \/ Announces(Me)
  /\ UNCHANGED <<watched, told>>

-----------------------------------------------------------------------------

UpdatePresence(text) ==
  /\ AtOnce /\ PublishLocalPresence(text)
  /\ wanted' = text

\* A property that is removed, or a string that is set empty, is set to "".
Mutated(text, mutations) ==
  [f \in Field |-> IF f \in DOMAIN mutations THEN mutations[f] ELSE text[f]]

PartialUpdatePresence(mutations) ==
  /\ AtOnce /\ PublishLocalPresence(Mutated(GetLocalPresence.text, mutations))
  /\ wanted' = Mutated(wanted, mutations)

\* QueryPresence of one friend, BatchQueryPresence of several.
QueryPresence(targets, bListenToChanges) ==
  /\ Begins([do |-> "QueryPresence", step |-> "asked", of |-> targets, listen |-> bListenToChanges])
  /\ UNCHANGED presenceVars

\* The copies, with those of the targets taken again.
ReadAnew(copies, targets) ==
  [u \in DOMAIN copies |-> IF u \in targets THEN ReadUserPresence(u) ELSE copies[u]]

\* Steam's answer, the keys it held already and the deadline come to the same.
PresenceRead ==
  /\ Runs("QueryPresence") /\ Ends
  /\ kept' = ReadAnew(kept, op.of) /\ told' = ReadAnew(told, op.of)
  /\ watched' = IF op.listen THEN watched \cup op.of ELSE watched
  /\ UNCHANGED <<account, announced, wanted>>

\* Mutant of IsKept: only those the game listens to are kept in step.
IsWatched(u) == u \in watched

\* Nobody ever asked about a user of whom nothing is kept.
IsKept(u) == kept[u] # None

\* OnPersonaStateChange and OnFriendRichPresenceUpdate.  Whom the news is for is the user
\* Steam runs as, so that the game hears it after a logout too.
RefreshPresence ==
  /\ announced # <<>> /\ announced' = Tail(announced) /\ Beside
  /\ LET u == Head(announced)
     IN /\ kept' = IF IsKept(u) THEN [kept EXCEPT ![u] = ReadUserPresence(u)] ELSE kept
        /\ told' = IF IsKept(u) /\ u \in watched THEN [told EXCEPT ![u] = ReadUserPresence(u)] ELSE told
  /\ UNCHANGED <<account, watched, wanted>>

\* Steam: an account goes away or comes back, a friend's game publishes.
AccountChanges(u) ==
  /\ Outside /\ Announces(u)
  /\ \/ account' = [account EXCEPT ![u].state = CHOOSE s \in State : s # account[u].state]
     \/ /\ u \in Friend
        /\ \E f \in Field : \E v \in Text \ {account[u].text[f]} :
             account' = [account EXCEPT ![u].text[f] = v]
  /\ UNCHANGED <<kept, watched, told, wanted>>

-----------------------------------------------------------------------------

\* An earlier instance may have published, and its text is still with Steam.
PresenceInit ==
  /\ wanted \in {[f \in Field |-> v] : v \in {"", "other"}}
  /\ account = [u \in Person |-> [state |-> "online",
                                  text  |-> IF u = Me THEN wanted ELSE [f \in Field |-> ""]]]
  /\ kept = [u \in Person |-> None]
  /\ told = [u \in Friend |-> None]
  /\ watched = {} /\ announced = <<>>

\* PreShutdown, and a new instance, which has not asked about anybody.
PresenceForgotten ==
  /\ kept' = [u \in Person |-> None] /\ told' = [u \in Friend |-> None]
  /\ watched' = {}
  /\ UNCHANGED <<account, announced, wanted>>

PresenceNext ==
  \/ \E text \in [Field -> Value] : UpdatePresence(text)
  \/ \E fields \in SUBSET Field \ {{}} : \E mutations \in [fields -> Value] : PartialUpdatePresence(mutations)
  \/ \E targets \in SUBSET Friend \ {{}}, listen \in BOOLEAN : QueryPresence(targets, listen)
  \/ PresenceRead \/ RefreshPresence
  \/ \E u \in Person : AccountChanges(u)

-----------------------------------------------------------------------------
(* Properties.                                                             *)

PresenceOp ==
  [do : {"QueryPresence"}, step : {"asked"}, of : SUBSET Friend, listen : BOOLEAN]

PresenceTypeOK ==
  LET Said == [state : State, text : [Field -> Value]] IN
    /\ account \in [Person -> [state : State, text : [Field -> Text]]]
    /\ kept \in [Person -> {None} \cup Said]
    /\ told \in [Friend -> {None} \cup Said]
    /\ watched \subseteq Friend
    /\ announced \in Seq(Person)
    /\ wanted \in [Field -> Value]

\* What Steam publishes of the local user is, field by field, what the game asked for last,
\* whichever of whole updates, partial updates, announcements and new instances came in
\* between; what the game is shown is that and the state the account is in.  A friend the
\* game asked about is shown as Steam has them once every announcement was dispatched, and
\* of one it listens to it was told whatever it would be shown.
PresenceIsTrue ==
  /\ \A f \in Field : account[Me].text[f] = ToRichPresence(wanted[f])
  /\ GetCachedPresence(Me).state = account[Me].state
  /\ \A f \in Field : ToRichPresence(GetCachedPresence(Me).text[f]) = account[Me].text[f]
  /\ \A u \in Friend : GetCachedPresence(u) \in {None, account[u]} \/ \E i \in 1..Len(announced) : announced[i] = u
  /\ \A u \in watched : told[u] = kept[u]
=============================================================================
