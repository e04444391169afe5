-------------------------------- MODULE Social --------------------------------
(***************************************************************************)
(* FSocialSteam: who is what to the local user.  The list is Steam's and   *)
(* changes because the user changed it, in the client or on a page of the  *)
(* overlay the game opened.  It is read whole, by a query or when Steam    *)
(* announces a change, and the game is told of whatever is not as before.  *)
(***************************************************************************)
EXTENDS ServiceQueue

CONSTANT
  Contact    \* whom the local user may have to do with

VARIABLES
  relation, \* Steam: EFriendRelationship of each
  changes,  \* Steam's callbacks: changes of a relationship not dispatched yet
  overlay,  \* Steam: the page of the overlay that is open
  friends,  \* Friends, "NotFriend" for those without an entry
  blocked,  \* BlockedUsers
  heard     \* history: what the game was told each of them is

socialVars == <<relation, changes, overlay, friends, blocked, heard>>

SteamRelation == {"none", "friend", "initiator", "recipient", "blocked", "ignored"}
Relationship  == {"NotFriend", "Friend", "InviteSent", "InviteReceived", "Blocked"}

ASSUME SocialAssumption == None \notin [Contact -> Relationship]

TranslateRelationship(r) ==
  CASE r = "none" -> "NotFriend" [] r = "friend" -> "Friend" [] r = "initiator" -> "InviteSent"
    [] r = "recipient" -> "InviteReceived" [] r \in {"blocked", "ignored"} -> "Blocked"

Nobody == [u \in Contact |-> "NotFriend"]

KnownFriends == IF friends = None THEN Nobody ELSE friends

\* Mutant of IsNews: a friend who becomes blocked, or an invitation accepted, is no news.
CameOrWent(old, new) == (old = "NotFriend") # (new = "NotFriend")

IsNews(old, new) == old # new

\* BroadcastRelationshipUpdated goes out for every difference, then the lists are replaced.
ReadFriends ==
  LET new == [u \in Contact |-> TranslateRelationship(relation[u])] IN
    /\ heard'   = [u \in Contact |-> IF IsNews(KnownFriends[u], new[u]) THEN new[u] ELSE heard[u]]
    /\ friends' = new
    /\ blocked' = {u \in Contact : new[u] = "Blocked"}
    /\ UNCHANGED <<relation, overlay>>

-----------------------------------------------------------------------------

QueryFriends == AtOnce /\ ReadFriends /\ UNCHANGED changes

\* Steam keeps the blocked users in the same list, so one walk answers both.
QueryBlockedUsers == QueryFriends

\* Nothing is read for a game that never asked.
OnPersonaStateChange ==
  /\ changes > 0 /\ changes' = changes - 1 /\ Beside
  /\ \/ friends # None /\ ReadFriends
     \/ friends = None /\ UNCHANGED <<relation, overlay, friends, blocked, heard>>

AskUserToChangeRelationship(u, dialog) ==
  /\ AtOnce /\ overlay' = [page |-> dialog, of |-> u]
  /\ UNCHANGED <<relation, changes, friends, blocked, heard>>

\* The game cannot make, accept or refuse an invitation: it has the user asked.
SendFriendInvite(u)   == AskUserToChangeRelationship(u, "friendadd")
AcceptFriendInvite(u) == AskUserToChangeRelationship(u, "friendrequestaccept")
RejectFriendInvite(u) == AskUserToChangeRelationship(u, "friendrequestignore")

Becomes(u, r) ==
  /\ relation' = [relation EXCEPT ![u] = r] /\ changes' = changes + 1
  /\ UNCHANGED <<friends, blocked, heard>>

\* What a page is for: from which relation the user may make which.
Offer == [friendadd           |-> [was |-> "none", is |-> "initiator"],
          friendrequestaccept |-> [was |-> "recipient", is |-> "friend"],
          friendrequestignore |-> [was |-> "recipient", is |-> "none"]]

\* Steam: the user does what the page offers, if that still is to be done, or closes it.
UserAnswers ==
  /\ overlay # None /\ overlay' = None /\ Beside
  /\ \/ /\ relation[overlay.of] = Offer[overlay.page].was
        /\ Becomes(overlay.of, Offer[overlay.page].is)
     \/ UNCHANGED <<relation, changes, friends, blocked, heard>>

\* Steam: the user in the client, or the other one.
RelationshipChanges(u) ==
  /\ Outside /\ UNCHANGED overlay
  /\ \E r \in SteamRelation \ {relation[u]} : Becomes(u, r)

-----------------------------------------------------------------------------

SocialInit ==
  /\ relation \in [Contact -> {"none", "friend", "recipient"}]
  /\ changes = 0 /\ overlay = None
  /\ friends = None /\ blocked = {} /\ heard = Nobody

\* PreShutdown, and a new instance, of which the game was told nothing.
SocialForgotten ==
  /\ friends' = None /\ blocked' = {} /\ heard' = Nobody
  /\ UNCHANGED <<relation, changes, overlay>>

SocialNext ==
  \/ QueryFriends \/ QueryBlockedUsers \/ OnPersonaStateChange
  \/ \E u \in Contact : SendFriendInvite(u) \/ AcceptFriendInvite(u) \/ RejectFriendInvite(u)
  \/ UserAnswers
  \/ \E u \in Contact : RelationshipChanges(u)

-----------------------------------------------------------------------------
(* Properties.                                                             *)

SocialTypeOK ==
  /\ relation \in [Contact -> SteamRelation]
  /\ changes \in Nat
  /\ overlay \in {None} \cup [page : DOMAIN Offer, of : Contact]
  /\ friends \in {None} \cup [Contact -> Relationship]
  /\ blocked \subseteq Contact
  /\ heard \in [Contact -> Relationship]

\* A game that keeps its own list from what it was told has the list it would be given, and
\* that is Steam's once every announcement was dispatched; the blocked users are those the
\* list calls so, whether it was the friends or they that were asked for.
RelationsAreTrue ==
  /\ heard = KnownFriends
  /\ friends # None /\ changes = 0 => \A u \in Contact : friends[u] = TranslateRelationship(relation[u])
  /\ blocked = {u \in Contact : KnownFriends[u] = "Blocked"}
=============================================================================
