------------------------------- MODULE Lobbies -------------------------------
(***************************************************************************)
(* The lobbies of one user: FLobbiesSteam and the registry of what is      *)
(* known of a lobby, with Steam as the keeper of the lobbies themselves.   *)
(*                                                                         *)
(* An operation waits in the serial queue of the services.  Three of them  *)
(* ask Steam and wait for its answer with the queue held; the others run   *)
(* through at once.  What the other members do arrives through the pipe,   *)
(* in order with the answers, and becomes one more operation of the queue. *)
(* A kick does not: it is obeyed as it is read.  So membership is known in *)
(* three places, at Steam, in ActiveLobbies and in the data shown to the   *)
(* game, and none of them changes together with another.                   *)
(***************************************************************************)
EXTENDS Naturals, SequencesExt

CONSTANTS
  Lobby,      \* lobbies; Steam never gives an id out again
  Peer,       \* the other users, who run the same program
  Me,         \* the local user
  None,       \* nobody, no lobby, no operation, nothing known
  MaxMoves,   \* bound: what the game, the peers and the user do in a behaviour
  MaxQueue    \* bound: operations that wait

ASSUME ConstantsAssumption ==
  /\ Me \notin Peer /\ None \notin Peer \cup {Me} \cup Lobby
  /\ MaxMoves \in Nat /\ MaxQueue \in Nat

VARIABLES
  steam,      \* Steam: each lobby's members, owner and published metadata
  data,       \* FLobbyDataSteam by lobby: what the game is shown of it
  active,     \* ActiveLobbies
  presence,   \* PresenceLobbiesUserMap
  invites,    \* ActiveInvites
  found,      \* ActiveSearchResults
  kicks,      \* PendingKicks
  login,      \* whether the user is logged in
  listening,  \* whether this process has published a listen address
  queue,      \* the serial queue
  op,         \* the operation that waits for Steam
  call,       \* what its call has come to
  inbox,      \* Steam's pipe, answers included
  late,       \* the calls that were given up on and Steam has still to perform
  adrift,     \* history: lobbies where a failure left Steam and this side apart
  moves       \* how often the game, a peer or the user has acted

held == <<active, presence, kicks>>
work == <<queue, op, call>>
vars == <<steam, data, held, invites, found, login, listening, work, inbox, late, adrift, moves>>

Users   == Peer \cup {Me}
Unknown == None

-----------------------------------------------------------------------------
(* What Steam keeps, and what it lets the local user see of it.            *)

Unopened ==
  [born |-> FALSE, members |-> {}, owner |-> None, count |-> 0,
   title |-> 0, policy |-> 0, note |-> 0, server |-> FALSE]
Opened(u) ==
  [Unopened EXCEPT !.born = TRUE, !.members = {u}, !.owner = u, !.count = IF u = Me THEN 0 ELSE 1]
Born(l) == steam[l].born

\* A peer that owns a lobby keeps its count by the same rule.
Counted(r) == IF r.owner \in Peer THEN [r EXCEPT !.count = Cardinality(r.members)] ELSE r

\* The owner who leaves is followed by any of those who stay.
With(r, u) == Counted([r EXCEPT !.members = @ \cup {u}])
Heirs(r, u) ==
  IF r.owner # u THEN {r.owner}
  ELSE IF r.members = {u} THEN {None} ELSE r.members \ {u}
Without(r, u) ==
  {Counted([r EXCEPT !.members = @ \ {u}, !.owner = o, !.note = IF u = Me THEN 0 ELSE @]) :
     o \in Heirs(r, u)}

\* FSteamLeaveLobby: Steam does not answer, and leaving twice is nothing.
SteamLeaveLobby(l) == \E r \in Without(steam[l], Me) : steam' = [steam EXCEPT ![l] = r]

\* FSteamDestroyLobby: there is no such call; the lobby is closed, flagged and left.
SteamDestroyLobby(l) ==
  \E r \in Without(steam[l], Me) : steam' = [steam EXCEPT ![l] = [r EXCEPT !.policy = 1]]

Message(what, l, u) == [what |-> what, lobby |-> l, who |-> u]
Tell(what, l, u)    == inbox' = Append(inbox, Message(what, l, u))
\* Steam tells the members of a lobby what happens in it.
TellMember(what, l, u) ==
  IF Me \in steam[l].members THEN Tell(what, l, u) ELSE UNCHANGED inbox

\* FSteamGetLobbySnapshot: the members are for members.
SteamShows(s, l, bFetchMembers) ==
  LET inside == Me \in s[l].members IN
  [owner |-> IF inside THEN s[l].owner ELSE None,
   members |-> IF inside /\ bFetchMembers THEN s[l].members ELSE {},
   note |-> IF inside THEN s[l].note ELSE 0]

\* GetLobbySnapshot: an owner stands in for the members that were not read.
GetLobbySnapshot(s, l, bCopyMemberData) ==
  LET shown == SteamShows(s, l, bCopyMemberData) IN
  [members |-> IF shown.members = {} /\ shown.owner # None THEN {shown.owner} ELSE shown.members,
   owner |-> shown.owner, title |-> s[l].title, policy |-> s[l].policy, note |-> shown.note]

\* PublishOwnedMetadata: Steam takes it from the owner alone.
Published(s, l) ==
  IF s[l].owner = Me THEN [s EXCEPT ![l].count = Cardinality(s[l].members)] ELSE s

\* FSteamSetLobbyGameServer: it stays with the lobby, whoever comes to own it.
SetLobbyGameServer(r) == [r EXCEPT !.server = TRUE]

\* BindGameServerToOwnedLobby.
Bound(s, l) ==
  IF listening /\ s[l].owner = Me THEN [s EXCEPT ![l] = SetLobbyGameServer(@)] ELSE s

-----------------------------------------------------------------------------
(* What is known here.  The registry holds its entries weakly.             *)

HeldByQueue(l) == \E i \in 1..Len(queue) : queue[i].do = "Notify" /\ queue[i].lobby = l
Held(l) ==
  \/ l \in active \cup invites \cup found
  \/ op # None /\ op.do = "Join" /\ op.lobby = l
  \/ HeldByQueue(l)

\* ~FLobbyDataSteam, Unregister: what nobody holds any more is forgotten.
Registered(d) == data' = [l \in Lobby |-> IF Held(l)' THEN d[l] ELSE Unknown]

Known(l) == data[l] # Unknown

\* FLobbyDataSteam::Create.
NewData(s, l) == [seen |-> GetLobbySnapshot(s, l, FALSE), active |-> FALSE]

\* AddUserLobbyDetails: details of a better source replace, and the active ones are best.
WithDetails(d, isActive) == [d EXCEPT !.active = @ \/ isActive]

\* Mutant of FiledAs: details that are there are kept, whatever they are.
FiledOnce(d, s, l, isActive) ==
  [d EXCEPT ![l] = IF @ = Unknown THEN WithDetails(NewData(s, l), isActive) ELSE @]

\* FindOrCreateFromLobbyDetails.
FiledAs(d, s, l, isActive) ==
  [d EXCEPT ![l] = WithDetails(IF @ = Unknown THEN NewData(s, l) ELSE @, isActive)]

\* CommitServiceSnapshot and CommitClientChanges of a departure.
Refreshed(d, s, l) == [d EXCEPT ![l].seen = GetLobbySnapshot(s, l, TRUE)]
ShownWithoutMe(d, l) == [d EXCEPT ![l].seen.members = @ \ {Me}]

ShownMembers(l) == IF Known(l) THEN data[l].seen.members ELSE {}
ShownOwner(l)   == IF Known(l) THEN data[l].seen.owner ELSE None

\* AddActiveLobby.
AddActiveLobby(l, bPresenceEnabled) ==
  /\ active' = active \cup {l}
  /\ presence' = IF bPresenceEnabled /\ presence = None THEN l ELSE presence
  /\ UNCHANGED kicks

\* Mutant of RemoveActiveLobby: the kicks nobody acted on stay.
RemoveActiveButKicks(l) ==
  /\ active' = active \ {l} /\ kicks' = kicks
  /\ presence' = IF presence = l THEN None ELSE presence

\* RemoveActiveLobby.
RemoveActiveLobby(l) ==
  /\ active' = active \ {l}
  /\ kicks' = [kicks EXCEPT ![l] = {}]
  /\ presence' = IF presence = l THEN None ELSE presence

-----------------------------------------------------------------------------
(* The serial queue.                                                       *)

Request(do, l, u, flag) == [do |-> do, lobby |-> l, who |-> u, flag |-> flag]
Idle == op = None /\ queue # <<>>
Runs(do) == Idle /\ Head(queue).do = do
Pop == queue' = Tail(queue) /\ UNCHANGED <<op, call>>
Awaits == queue' = Tail(queue) /\ op' = Head(queue) /\ call' = "asked"

\* Mutant of Over: the operation goes and its call stays.
OverUnanswered == op' = None /\ UNCHANGED <<queue, call>>

Over == op' = None /\ call' = "none" /\ UNCHANGED queue

ProcessLobbyNotification(l) == queue' = Append(queue, Request("Notify", l, None, FALSE))

Modifies == {"ModifyAttributes", "ModifyPolicy"}

\* The checks an operation begins with, and those of the client data it prepares: who
\* is no member prepares nothing, and only the owner changes what belongs to the lobby.
MayCreate(r) == login /\ (r.flag => presence = None)
MayJoin(r)   == login /\ (r.flag => presence = None) /\ Known(r.lobby)
MayLeave(r)  == login /\ Me \in ShownMembers(r.lobby)
MayInvite(r) == login /\ Known(r.lobby)
MayModify(r) == login /\ ShownOwner(r.lobby) = Me
MayModifyMember(r) == login /\ Me \in ShownMembers(r.lobby)

\* FSteamSendLobbyControlMessage: Steam refuses only who is not in the lobby.
SendControlMessage(l) == Me \in steam[l].members
MayKick(r) == login /\ ShownOwner(r.lobby) = Me /\ SendControlMessage(r.lobby)

\* PromoteLobbyMemberImpl: SetLobbyOwner.
SetLobbyOwner(l, u) == steam[l].owner = Me /\ u \in steam[l].members
MayPromote(r) ==
  login /\ ShownOwner(r.lobby) = Me /\ r.who \in ShownMembers(r.lobby) /\ SetLobbyOwner(r.lobby, r.who)

\* GetActiveLobbyDetails.
MayNotify(r) == Known(r.lobby) /\ data[r.lobby].active

Admitted(r) ==
  CASE r.do = "Create"  -> MayCreate(r)
    [] r.do = "Join"    -> MayJoin(r)
    [] r.do = "Leave"   -> MayLeave(r)
    [] r.do = "Kick"    -> MayKick(r)
    [] r.do = "Promote" -> MayPromote(r)
    [] r.do \in Modifies -> MayModify(r)
    [] r.do = "ModifyMember" -> MayModifyMember(r)
    [] r.do = "Invite"  -> MayInvite(r)
    [] r.do = "Decline" -> r.lobby \in invites
    [] r.do = "Notify"  -> MayNotify(r)
    [] r.do \in {"Find", "Logout"} -> login

\* The operation fails where it stands.
TurnedAway ==
  /\ Idle /\ ~Admitted(Head(queue)) /\ Pop
  /\ UNCHANGED <<steam, held, invites, found, login, listening, inbox, late, adrift, moves>>
  /\ Registered(data)

-----------------------------------------------------------------------------
(* The operations that run through at once.                                *)

\* LeaveLobbyImpl: nobody leaves without a login.
LeaveLobbyImpl(l) == IF login THEN SteamLeaveLobby(l) ELSE UNCHANGED steam

\* LeaveLobby.
LeaveLobby ==
  /\ Runs("Leave") /\ Admitted(Head(queue)) /\ Pop
  /\ LET l == Head(queue).lobby IN
       LeaveLobbyImpl(l) /\ RemoveActiveLobby(l)
  /\ UNCHANGED <<invites, found, login, listening, inbox, late, adrift, moves>>
  /\ Registered(ShownWithoutMe(data, Head(queue).lobby))

\* KickLobbyMember: the member is asked to go, and that it was asked is remembered.
KickLobbyMember ==
  /\ Runs("Kick") /\ Admitted(Head(queue)) /\ Pop
  /\ kicks' = [kicks EXCEPT ![Head(queue).lobby] = @ \cup {Head(queue).who}]
  /\ UNCHANGED <<steam, active, presence, invites, found, login, listening, inbox, late, adrift, moves>>
  /\ Registered(data)

\* PromoteLobbyMember.
PromoteLobbyMember ==
  /\ Runs("Promote") /\ Admitted(Head(queue)) /\ Pop
  /\ LET r == Head(queue) IN
       /\ steam' = [steam EXCEPT ![r.lobby] = Counted([@ EXCEPT !.owner = r.who])]
       /\ Tell("data", r.lobby, None)
  /\ UNCHANGED <<held, invites, found, login, listening, late, adrift, moves>>
  /\ Registered([data EXCEPT ![Head(queue).lobby].seen.owner = Head(queue).who])

\* FSteamUpdateLobbyData: Steam takes the owner's word alone, change by change.
UpdateLobbyData(l, r) ==
  /\ steam[l].owner = Me
  /\ steam' = [steam EXCEPT ![l] = r] /\ Tell("data", l, None)

\* ModifyLobbyAttributes: Steam tells the members of it, this one too.
ModifyLobbyAttributes ==
  /\ Runs("ModifyAttributes") /\ Admitted(Head(queue)) /\ Pop
  /\ LET l == Head(queue).lobby IN
       UpdateLobbyData(l, [steam[l] EXCEPT !.title = 1 - @])
  /\ UNCHANGED <<held, invites, found, login, listening, late, adrift, moves>>
  /\ \/ Registered([data EXCEPT ![Head(queue).lobby].seen.title = steam'[Head(queue).lobby].title])
     \/ Registered(data)   \* a later attribute of the batch was refused

\* The type Steam keeps and the metadata that says so are one change here.
ModifyLobbyJoinPolicy ==
  /\ Runs("ModifyPolicy") /\ Admitted(Head(queue)) /\ Pop
  /\ LET l == Head(queue).lobby IN
       UpdateLobbyData(l, [steam[l] EXCEPT !.policy = 1 - @])
  /\ UNCHANGED <<held, invites, found, login, listening, late, adrift, moves>>
  /\ Registered([data EXCEPT ![Head(queue).lobby].seen.policy = steam'[Head(queue).lobby].policy])

\* ModifyLobbyMemberAttributes: what is not in the lobby any more is not refused.
ModifyLobbyMemberAttributes ==
  /\ Runs("ModifyMember") /\ Admitted(Head(queue)) /\ Pop
  /\ LET l == Head(queue).lobby IN
       IF Me \in steam[l].members
       THEN steam' = [steam EXCEPT ![l].note = 1 - @] /\ Tell("data", l, None)
       ELSE UNCHANGED <<steam, inbox>>
  /\ UNCHANGED <<held, invites, found, login, listening, late, adrift, moves>>
  /\ Registered([data EXCEPT ![Head(queue).lobby].seen.note = 1 - @])

\* ModifyLobbyDataImpl fails: the lobby has passed to somebody else, or the value is no good.
ModifyRefused ==
  /\ Idle /\ Head(queue).do \in Modifies /\ Admitted(Head(queue)) /\ Pop
  /\ UNCHANGED <<steam, held, invites, found, login, listening, inbox, late, adrift, moves>>
  /\ Registered(data)

\* InviteLobbyMember: Steam carries it, and nothing of it is kept here.
InviteLobbyMember ==
  /\ Runs("Invite") /\ Admitted(Head(queue)) /\ Pop
  /\ UNCHANGED <<steam, held, invites, found, login, listening, inbox, late, adrift, moves>>
  /\ Registered(data)

RemoveActiveInvite(l) == invites' = invites \ {l}

DeclineLobbyInvitation ==
  /\ Runs("Decline") /\ Admitted(Head(queue)) /\ Pop
  /\ RemoveActiveInvite(Head(queue).lobby)
  /\ UNCHANGED <<steam, held, found, login, listening, inbox, late, adrift, moves>>
  /\ Registered(data)

\* Mutant of ProcessNotification: who is no longer a member stays active.
ProcessNotificationOnly ==
  /\ Runs("Notify") /\ Admitted(Head(queue)) /\ Pop
  /\ UNCHANGED <<steam, held, invites, found, login, listening, inbox, late, adrift, moves>>
  /\ Registered(Refreshed(data, steam, Head(queue).lobby))

\* ProcessLobbyNotificationImplOp: what Steam shows when the queue gets there.
ProcessNotification ==
  /\ Runs("Notify") /\ Admitted(Head(queue)) /\ Pop
  /\ LET l == Head(queue).lobby IN
       IF Me \in ShownMembers(l) \ GetLobbySnapshot(steam, l, TRUE).members
       THEN RemoveActiveLobby(l) ELSE UNCHANGED held
  /\ UNCHANGED <<steam, invites, found, login, listening, inbox, late, adrift, moves>>
  /\ Registered(Refreshed(data, steam, Head(queue).lobby))

\* FAuthSteam::Logout goes through the same queue and asks no component to let go.
Logout ==
  /\ Runs("Logout") /\ Admitted(Head(queue)) /\ Pop
  /\ login' = FALSE
  /\ UNCHANGED <<steam, held, invites, found, listening, inbox, late, adrift, moves>>
  /\ Registered(data)

-----------------------------------------------------------------------------
(* The operations that wait for Steam.                                     *)

AskCreate ==
  /\ Runs("Create") /\ Admitted(Head(queue)) /\ Awaits
  /\ UNCHANGED <<steam, held, invites, found, login, listening, inbox, late, adrift, moves>>
  /\ Registered(data)

AskJoin ==
  /\ Runs("Join") /\ Admitted(Head(queue)) /\ Awaits
  /\ UNCHANGED <<steam, held, invites, found, login, listening, inbox, late, adrift, moves>>
  /\ Registered(data)

\* FindLobbies gives up the results it had before it asks for others.
FindLobbies ==
  /\ Runs("Find") /\ Admitted(Head(queue)) /\ Awaits
  /\ found' = {}
  /\ UNCHANGED <<steam, held, invites, login, listening, inbox, late, adrift, moves>>
  /\ Registered(data)

\* An answer, and nothing else, is at the head of the pipe.
Answered(what) ==
  /\ inbox # <<>> /\ Head(inbox).what = what
  /\ inbox' = Tail(inbox)

\* Mutant of CreateFails: the lobby is left standing at Steam.
CreateFailsOnly ==
  /\ Answered("created") /\ Over
  /\ UNCHANGED <<steam, held, invites, found, login, listening, late, adrift, moves>>
  /\ Registered(data)

\* Steps 4 to 8 fail, Steam refusing an attribute: DestroyLobbyDuringCreate.
CreateFails ==
  /\ Answered("created") /\ Over
  /\ SteamDestroyLobby(Head(inbox).lobby)
  /\ UNCHANGED <<held, invites, found, login, listening, late, adrift, moves>>
  /\ Registered(data)

\* Step 7 fails, and the operation only reports it: the attributes do not fit the schema,
\* or the lobby has been lost and who is no member prepares nothing.
CreateUnprepared ==
  /\ Answered("created") /\ Over
  /\ adrift' = adrift \cup {Head(inbox).lobby}
  /\ UNCHANGED <<steam, held, invites, found, login, listening, late, moves>>
  /\ Registered(data)

\* Step 9.
CreateSucceeds ==
  /\ Answered("created") /\ Over
  /\ LET l == Head(inbox).lobby IN
       /\ Me \in steam[l].members
       /\ AddActiveLobby(l, op.flag)
       /\ steam' = Published(Bound(steam, l), l)
  /\ UNCHANGED <<invites, found, login, listening, late, adrift, moves>>
  /\ Registered(FiledAs(data, steam, Head(inbox).lobby, TRUE))

\* LeaveLobbyDuringJoin; a lobby that was active before stays so.
LeaveLobbyDuringJoin(l) ==
  /\ Over /\ LeaveLobbyImpl(l)
  /\ adrift' = IF l \in active /\ Me \in steam[l].members THEN adrift \cup {l} ELSE adrift

\* Steam refuses the call. What a refused join may have entered is given back.
CallRefused ==
  /\ Answered("refused")
  /\ IF op.do = "Join" THEN LeaveLobbyDuringJoin(op.lobby)
     ELSE Over /\ UNCHANGED <<steam, adrift>>
  /\ UNCHANGED <<held, invites, found, login, listening, late, moves>>
  /\ Registered(data)

\* Steps 4 to 10 fail; the snapshot may have been taken in by then.  If it does not
\* hold the local user, nothing can be prepared and the join always fails.
JoinFails ==
  /\ Answered("entered") /\ LeaveLobbyDuringJoin(op.lobby)
  /\ LET l == op.lobby
         d == FiledAs(data, steam, l, TRUE) IN
       /\ IF Me \in ShownMembers(l) \ steam[l].members
          THEN RemoveActiveLobby(l) ELSE UNCHANGED held
       /\ UNCHANGED <<invites, found, login, listening, late, moves>>
       /\ \/ Registered(Refreshed(d, steam, l))
          \/ Me \in steam[l].members /\ Registered(d)

\* Step 11, the invitation spent.
JoinSucceeds ==
  /\ Answered("entered") /\ Over
  /\ LET l == op.lobby IN
       /\ Me \in steam[l].members
       /\ AddActiveLobby(l, op.flag)
       /\ RemoveActiveInvite(l)
       /\ steam' = Published(Bound(steam, l), l)
  /\ UNCHANGED <<found, login, listening, late, adrift, moves>>
  /\ Registered(Refreshed(FiledAs(data, steam, op.lobby, TRUE), steam, op.lobby))

\* FLobbySearchSteam::Create: one result that cannot be read loses the whole search.
SearchAnswered ==
  /\ Answered("listed") /\ Over
  /\ found' \in SUBSET {l \in Lobby : Born(l)}
  /\ UNCHANGED <<steam, held, invites, login, listening, late, adrift, moves>>
  /\ Registered([l \in Lobby |-> IF l \in found' THEN FiledAs(data, steam, l, FALSE)[l] ELSE data[l]])

\* One call is under way, and one answer at most is in the pipe.
Answers == {"created", "entered", "refused", "listed"}
HasAnswer(i) == inbox[i].what \in Answers

\* Nobody is left to hear the answer, if it has come.
WithoutAnswer ==
  \/ (\A i \in 1..Len(inbox) : ~HasAnswer(i)) /\ UNCHANGED inbox
  \/ \E i \in 1..Len(inbox) : HasAnswer(i) /\ inbox' = RemoveAt(inbox, i)

\* The deadline of the call.  Steam may have performed it, or perform it later.
TimesOut ==
  /\ op # None
  /\ late' = IF call = "asked" /\ op.do # "Find" THEN late \cup {op} ELSE late
  /\ IF op.do = "Join" THEN LeaveLobbyDuringJoin(op.lobby)
     ELSE /\ Over /\ UNCHANGED steam
          /\ adrift' = adrift \cup {inbox[i].lobby : i \in {j \in 1..Len(inbox) : inbox[j].what = "created"}}
  /\ WithoutAnswer
  /\ UNCHANGED <<held, invites, found, login, listening, moves>>
  /\ Registered(data)

-----------------------------------------------------------------------------
(* What Steam says.  The callbacks run beside the operation that waits.    *)

\* Mutant of MembershipChanged: the count a browser reads is left to the next operation.
MembershipChangedUnpublished ==
  /\ \E what \in {"came", "left"} : Answered(what)
  /\ LET m == Head(inbox) IN
       IF Known(m.lobby)
       THEN /\ kicks' = IF m.what = "left" THEN [kicks EXCEPT ![m.lobby] = @ \ {m.who}] ELSE kicks
            /\ ProcessLobbyNotification(m.lobby)
       ELSE UNCHANGED <<kicks, queue>>
  /\ UNCHANGED <<steam, active, presence, invites, found, login, listening, op, call, late, adrift, moves>>
  /\ Registered(data)

\* OnLobbyChatUpdate: a departure spends the kick that asked for it.
MembershipChanged ==
  /\ \E what \in {"came", "left"} : Answered(what)
  /\ LET m == Head(inbox) IN
       IF Known(m.lobby)
       THEN /\ kicks' = IF m.what = "left" THEN [kicks EXCEPT ![m.lobby] = @ \ {m.who}] ELSE kicks
            /\ steam' = Published(steam, m.lobby)
            /\ ProcessLobbyNotification(m.lobby)
       ELSE UNCHANGED <<kicks, steam, queue>>
  /\ UNCHANGED <<active, presence, invites, found, login, listening, op, call, late, adrift, moves>>
  /\ Registered(data)

\* Mutant of DataChanged: a change that comes while an operation waits is not queued.
DataChangedIfIdle ==
  /\ Answered("data")
  /\ IF Known(Head(inbox).lobby) /\ op = None
     THEN ProcessLobbyNotification(Head(inbox).lobby) ELSE UNCHANGED queue
  /\ UNCHANGED <<steam, held, invites, found, login, listening, op, call, late, adrift, moves>>
  /\ Registered(data)

\* OnLobbyDataUpdate.
DataChanged ==
  /\ Answered("data")
  /\ IF Known(Head(inbox).lobby) THEN ProcessLobbyNotification(Head(inbox).lobby) ELSE UNCHANGED queue
  /\ UNCHANGED <<steam, held, invites, found, login, listening, op, call, late, adrift, moves>>
  /\ Registered(data)

\* OnLobbyChatMessage: a kick is obeyed if it comes from the owner the game is shown.
\* Steam keeps a lobby's messages for its members.
ChatEntryIsRead(m) == Me \in steam[m.lobby].members
Obeyed(m) ==
  /\ Known(m.lobby) /\ ChatEntryIsRead(m)
  /\ ShownOwner(m.lobby) = m.who /\ Me \in ShownMembers(m.lobby)

\* HandleLocalUserKicked: at once, beside whatever waits, and without a login in vain.
LocalUserKicked ==
  /\ Answered("kick") /\ Obeyed(Head(inbox))
  /\ LET l == Head(inbox).lobby IN
       /\ RemoveActiveLobby(l)
       /\ LeaveLobbyImpl(l)
       /\ adrift' = IF login THEN adrift ELSE adrift \cup {l}
  /\ UNCHANGED <<invites, found, login, listening, work, late, moves>>
  /\ Registered(ShownWithoutMe(data, Head(inbox).lobby))

KickIgnored ==
  /\ Answered("kick") /\ ~Obeyed(Head(inbox))
  /\ UNCHANGED <<steam, held, invites, found, login, listening, work, late, adrift, moves>>
  /\ Registered(data)

\* AddActiveInvite: one invitation to a lobby is enough.
AddActiveInvite(l) == invites' = invites \cup {l}

\* OnLobbyInvite, FLobbyInviteDataSteam::Create.
InviteReceived ==
  /\ Answered("invite")
  /\ AddActiveInvite(Head(inbox).lobby)
  /\ UNCHANGED <<steam, held, found, login, listening, work, late, adrift, moves>>
  /\ Registered(FiledAs(data, steam, Head(inbox).lobby, FALSE))

\* RequestUiJoin: what was filed is held by nobody once the game has been told.
JoinRequested ==
  /\ Answered("joinme")
  /\ UNCHANGED <<steam, held, invites, found, login, listening, work, late, adrift, moves>>
  /\ Registered(FiledAs(data, steam, Head(inbox).lobby, FALSE))

-----------------------------------------------------------------------------
(* Steam performs what it was asked.                                       *)

Performed(what, l) ==
  /\ call = "asked" /\ call' = "answered" /\ Tell(what, l, None)
  /\ UNCHANGED <<data, held, invites, found, login, listening, queue, op, late, adrift, moves>>

SteamCreates(l) ==
  /\ op # None /\ op.do = "Create" /\ ~Born(l)
  /\ Performed("created", l)
  /\ steam' = [steam EXCEPT ![l] = Opened(Me)]

SteamLetsIn ==
  /\ op # None /\ op.do = "Join" /\ steam[op.lobby].members # {}
  /\ Performed("entered", op.lobby)
  /\ steam' = [steam EXCEPT ![op.lobby] = With(@, Me)]

SteamSearches ==
  /\ op # None /\ op.do = "Find"
  /\ Performed("listed", None) /\ UNCHANGED steam

SteamRefuses ==
  /\ op # None /\ Performed("refused", op.lobby) /\ UNCHANGED steam

\* A call that was given up on is performed all the same.
SteamIsLate(r) ==
  /\ r \in late /\ late' = late \ {r}
  /\ \E l \in Lobby :
       \/ /\ r.do = "Create" /\ ~Born(l)
          /\ steam' = [steam EXCEPT ![l] = Opened(Me)]
          /\ adrift' = adrift \cup {l}
       \/ /\ r.do = "Join" /\ l = r.lobby /\ steam[l].members # {}
          /\ steam' = [steam EXCEPT ![l] = With(@, Me)]
          /\ adrift' = IF Me \in steam[l].members THEN adrift ELSE adrift \cup {l}
  /\ UNCHANGED <<data, held, invites, found, login, listening, work, inbox, moves>>

-----------------------------------------------------------------------------
(* The game, the other members and the user's own Steam client.            *)

Moves == moves < MaxMoves /\ moves' = moves + 1
OutsideOnly == UNCHANGED <<data, held, invites, found, login, listening, work, late, adrift>>

GameAsks(r) ==
  /\ Moves /\ Len(queue) < MaxQueue
  /\ queue' = Append(queue, r)
  /\ UNCHANGED <<steam, data, held, invites, found, login, listening, op, call, inbox, late, adrift>>

Requests ==
  [do : {"Create"}, lobby : {None}, who : {None}, flag : BOOLEAN]
  \cup [do : {"Find", "Logout"}, lobby : {None}, who : {None}, flag : {FALSE}]
  \cup [do : {"Join"}, lobby : Lobby, who : {None}, flag : BOOLEAN]
  \cup [do : {"Leave", "Decline", "ModifyMember"} \cup Modifies, lobby : Lobby, who : {None}, flag : {FALSE}]
  \cup [do : {"Kick", "Promote", "Invite"}, lobby : Lobby, who : Peer, flag : {FALSE}]

\* Mutant of OnListenAddressChanged: only the lobby that presence points at is bound.
OnListenAddressChangedPresence ==
  /\ Moves /\ ~listening /\ listening' = TRUE
  /\ steam' = [l \in Lobby |-> IF l = presence /\ steam[l].owner = Me
                               THEN SetLobbyGameServer(steam[l]) ELSE steam[l]]
  /\ UNCHANGED <<data, held, invites, found, login, work, inbox, late, adrift>>

\* OnListenAddressChanged: the server of this process has come up.
OnListenAddressChanged ==
  /\ Moves /\ ~listening /\ listening' = TRUE
  /\ steam' = [l \in Lobby |-> IF l \in active /\ steam[l].owner = Me
                               THEN SetLobbyGameServer(steam[l]) ELSE steam[l]]
  /\ UNCHANGED <<data, held, invites, found, login, work, inbox, late, adrift>>

PeerEnters(l, p) ==
  /\ Moves /\ OutsideOnly /\ steam[l].members # {} /\ p \notin steam[l].members
  /\ steam' = [steam EXCEPT ![l] = With(@, p)] /\ TellMember("came", l, p)

PeerLeaves(l, p) ==
  /\ Moves /\ OutsideOnly /\ p \in steam[l].members
  /\ \E r \in Without(steam[l], p) : steam' = [steam EXCEPT ![l] = r]
  /\ TellMember("left", l, p)

PeerInvites(l, p) ==
  /\ Moves /\ OutsideOnly /\ p \in steam[l].members
  /\ Tell("invite", l, p) /\ UNCHANGED steam

PeerKicks(l, p) ==
  /\ Moves /\ OutsideOnly /\ steam[l].owner = p /\ Me \in steam[l].members
  /\ Tell("kick", l, p) /\ UNCHANGED steam

PeerPromotes(l, p) ==
  /\ Moves /\ OutsideOnly /\ steam[l].owner = p /\ Me \in steam[l].members
  /\ steam' = [steam EXCEPT ![l].owner = Me] /\ Tell("data", l, None)

PeerModifies(l, p) ==
  /\ Moves /\ OutsideOnly /\ steam[l].owner = p
  /\ steam' = [steam EXCEPT ![l].title = 1 - @] /\ TellMember("data", l, None)

\* The connection to Steam breaks for a moment.
SteamDropsMe(l) ==
  /\ Moves /\ OutsideOnly /\ Me \in steam[l].members
  /\ \E r \in Without(steam[l], Me) : steam' = [steam EXCEPT ![l] = r]
  /\ Tell("left", l, Me)

\* A friend's lobby, chosen in the overlay, or the one the game was launched for.
UserJoins(l) ==
  /\ Moves /\ OutsideOnly /\ Born(l)
  /\ Tell("joinme", l, None) /\ UNCHANGED steam

-----------------------------------------------------------------------------

\* The peers opened theirs before; the user may be anywhere but in one of them.
Init ==
  /\ steam \in [Lobby -> {Unopened} \cup {Opened(p) : p \in Peer}]
  /\ data = [l \in Lobby |-> Unknown]
  /\ active = {} /\ presence = None /\ invites = {} /\ found = {}
  /\ kicks = [l \in Lobby |-> {}]
  /\ login = TRUE /\ listening = FALSE
  /\ queue = <<>> /\ op = None /\ call = "none"
  /\ inbox = <<>> /\ late = {} /\ adrift = {} /\ moves = 0

Runner ==
  \/ TurnedAway \/ LeaveLobby \/ KickLobbyMember \/ PromoteLobbyMember
  \/ ModifyLobbyAttributes \/ ModifyLobbyJoinPolicy \/ ModifyLobbyMemberAttributes \/ ModifyRefused
  \/ InviteLobbyMember \/ DeclineLobbyInvitation
  \/ ProcessNotification \/ Logout \/ AskCreate \/ AskJoin \/ FindLobbies

Dispatcher ==
  \/ CreateFails \/ CreateUnprepared \/ CreateSucceeds
  \/ CallRefused \/ JoinFails \/ JoinSucceeds \/ SearchAnswered
  \/ MembershipChanged \/ DataChanged \/ LocalUserKicked \/ KickIgnored
  \/ InviteReceived \/ JoinRequested

SteamAnswers ==
  \/ \E l \in Lobby : SteamCreates(l)
  \/ SteamLetsIn \/ SteamSearches \/ SteamRefuses
  \/ \E r \in late : SteamIsLate(r)

Outside ==
  \/ \E r \in Requests : GameAsks(r)
  \/ OnListenAddressChanged
  \/ \E l \in Lobby :
       \/ SteamDropsMe(l) \/ UserJoins(l)
       \/ \E p \in Peer :
            \/ PeerEnters(l, p) \/ PeerLeaves(l, p) \/ PeerInvites(l, p) \/ PeerKicks(l, p)
            \/ PeerPromotes(l, p) \/ PeerModifies(l, p)

Next == Runner \/ Dispatcher \/ TimesOut \/ SteamAnswers \/ Outside
Spec == Init /\ [][Next]_vars

-----------------------------------------------------------------------------
(* Properties.                                                             *)

LobbyType ==
  [born : BOOLEAN, members : SUBSET Users, owner : Users \cup {None}, count : Nat,
   title : 0..1, policy : 0..1, note : 0..1, server : BOOLEAN]
SeenType ==
  [members : SUBSET Users, owner : Users \cup {None}, title : 0..1, policy : 0..1, note : 0..1]
DataType == [seen : SeenType, active : BOOLEAN]
RequestType == Requests \cup [do : {"Notify"}, lobby : Lobby, who : {None}, flag : {FALSE}]
MessageType ==
  [what : {"created", "entered", "data", "joinme"}, lobby : Lobby, who : {None}]
  \cup [what : {"came", "left", "invite", "kick"}, lobby : Lobby, who : Users]
  \cup [what : {"listed", "refused"}, lobby : Lobby \cup {None}, who : {None}]

ASSUME NothingAssumption == None \notin RequestType \cup DataType

\* Every variable has its type, and a call is under way exactly while an operation waits.
TypeOK ==
  /\ steam \in [Lobby -> LobbyType]
  /\ data \in [Lobby -> DataType \cup {Unknown}]
  /\ active \subseteq Lobby /\ invites \subseteq Lobby /\ found \subseteq Lobby
  /\ presence \in Lobby \cup {None}
  /\ kicks \in [Lobby -> SUBSET Peer]
  /\ login \in BOOLEAN /\ listening \in BOOLEAN
  /\ queue \in Seq(RequestType) /\ op \in RequestType \cup {None}
  /\ call \in {"none", "asked", "answered"} /\ (op = None <=> call = "none")
  /\ inbox \in Seq(MessageType)
  /\ late \subseteq RequestType /\ adrift \subseteq Lobby /\ moves \in 0..MaxMoves

\* Steam has the user in no lobby this side knows nothing of, whichever step of a
\* create, a join or a leave failed; adrift names the failures that the code lets go.
Joining(l) == op # None /\ op.do = "Join" /\ op.lobby = l
Creating(l) == \E i \in 1..Len(inbox) : inbox[i] = Message("created", l, None)
MembershipIsAccountedFor ==
  \A l \in Lobby : Me \in steam[l].members => l \in active \cup adrift \/ Joining(l) \/ Creating(l)

\* A lobby listed as joined is one Steam has the user in, or word of the departure is
\* on its way to it.
Departing(l) == HeldByQueue(l) \/ \E i \in 1..Len(inbox) : inbox[i] = Message("left", l, Me)
ActiveIsJoined ==
  \A l \in active : Me \in steam[l].members \/ l \in adrift \/ Departing(l)

\* Nothing points at a lobby that was left: neither presence, which friends follow, nor
\* a kick nobody acted on (RemoveActiveLobby; LobbiesSteam.cpp:45 says what becomes of it).
LeftLobbiesAreForgotten ==
  /\ presence # None => presence \in active
  /\ \A l \in Lobby : kicks[l] # {} => l \in active \cup adrift

\* Once nothing is on its way, the game is shown every lobby it is in as Steam has it,
\* in whatever order answers, notifications and operations came.
Settled == inbox = <<>> /\ queue = <<>> /\ op = None
SettledViewIsTrue ==
  Settled => \A l \in active \ adrift : data[l].seen = GetLobbySnapshot(steam, l, TRUE)

\* Once nothing is on its way, the number of members a browser reads of a lobby the
\* user owns is right (PublishOwnedMetadata).
BrowsedCountIsRight ==
  Settled => \A l \in active \ adrift :
    steam[l].owner = Me => steam[l].count = Cardinality(steam[l].members)

\* The server and the lobby may come up in either order: with the second of them, the
\* server is bound to every lobby the user owns (AddActiveLobby, OnListenAddressChanged).
ServerIsBound ==
  [][\A l \in Lobby :
       listening' /\ l \in active' /\ ~(listening /\ l \in active) /\ steam[l].owner = Me
       => steam'[l].server]_vars
=============================================================================
