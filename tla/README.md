# Online services over Steam: a formal model

TLA+ specifications of the parts of this plugin where order, timing and re-entrancy decide whether it
is correct, the TLC configurations that check them on small instances and the TLAPS proofs that carry
the central results to every instance. File names below are relative to `src/Source`.

## The system

The plugin gives Unreal Engine its online services and its network transport on top of the Steamworks
SDK. Everything but a few disk writes runs on the game thread; what makes it concurrent is that nothing
answers at once. A request to Steam returns a future, Steam posts its answers to a pipe, the pipe is
drained once per frame, and a peer at the other end of a connection has a clock of its own.

| Component | State | Operations | Talks to |
|---|---|---|---|
| Auth sessions (`AuthSteam`, `SteamUserAuth.h`) | `VerifiedAuthSessions`, `NextAuthSessionIndex`, the request in flight | begin, end, verdict, logout, shutdown | Steam's own record of users; the serial queue; the dispatcher |
| Auth tickets (`AuthSteam`) | `IssuedAuthTickets`, `NextAuthTicketIndex` | query, cancel, external token, logout, shutdown | the same |
| Auth handshake (`AuthHandlerSteam`) | `State`, `Account`, `Session`, `IssuedTicket`, `Liveness` of each end | four messages, tick, close, destruction | the peer over datagrams; sessions on a server, tickets on a client |
| Call dispatcher (`SteamCallDispatcher`) | `PendingRequests`, promise and deadline of each request | call, listen, tick, callback, cancel all | Steam's callback registry; continuations of every component |
| Services instance (`OnlineServicesSteam`) | components, dispatcher, shared services | tick: deadlines, pipe, queue; destroy | all of the above |
| Steam services (`SteamServiceBase`) | one slot per API, `bInitialized`, `LastPumpedFrame` | acquire, pump, shut down | the SDK |
| Login and account registries | account infos by user, platform user and handle | login, logout, find | queue, dispatcher, a pool thread for the avatar |
| Socket records (`SocketSubsystemSteam`) | records by Steam handle, marked or not | add, mark, sweep, link, look up | net driver, Steam's connection callbacks |
| Messages transport (`SocketSteamMessages`) | channel owner, `AcceptedPeers`, `PendingSessions`, filed messages | accept, pump, receive, close, fail | Steam's session callbacks |
| Net driver, net connection | listen socket, client map, receive budget | listen, delayed listen, dispatch, login check | socket records, login |
| Lobbies (`LobbiesSteam`, `LobbiesSteamTypes`, `SteamLobby.h`) | `ActiveLobbies`, `ActiveInvites`, `ActiveSearchResults`, the weak registry of lobby data, `PendingKicks`, the presence lobby | create, find, join, leave, kick, promote, invite, decline, modify, notifications | queue, dispatcher, Steam's lobby callbacks, the listen address |
| Stats and achievements (`StatsSteam`, `AchievementsSteam`) | `CachedUsersStats`, `AchievementDefinitions`, `AchievementStates` | query, update, reset, unlock, announcements | queue, dispatcher; both commit with the same call |
| Presence (`PresenceSteam`) | `CachedPresences`, `WatchedUsers` | update, partial update, query, announcements | queue, dispatcher |
| User files (`UserFileSteam`) | `EnumeratedFiles`, the configuration | enumerate, read, write, copy, delete | queue, dispatcher, Steam's cloud |
| Social (`SocialSteam`) | `Friends`, `BlockedUsers` | query, announcements, invitations through the overlay | queue, Steam's overlay |
| Leaderboards, user info, privileges | handles of leaderboards | one query each | dispatcher |

What is hard about them, and what would make them correct:

* **Two books on one subject.** Steam remembers a user it was asked to verify until it is told to forget,
  and the plugin remembers what it was granted. A timeout, a refusal, a logout, a shutdown and a
  connection that went away each have to close both. *Correct: nobody is in Steam's book without a
  request or a record in ours, and every record has somebody who will end it.*
* **Answers outlive questions.** A verdict names a user and not a ticket, continuations outlive the
  handler that asked, and deadlines race the pipe. *Correct: a session is granted on the verdict on its
  own ticket and no late answer takes one away.*
* **Lost packets.** The handshake resends by itself. *Correct: it ends, with one verdict, and lets nobody
  in before the services vouched.*
* **Re-entrancy.** Continuations run inside the loops that complete requests. *Correct: a future is
  fulfilled exactly once and nothing waits on an instance that is gone.*
* **Reuse of names.** Steam gives socket handles out again while events and records about their former
  owners are still around. *Correct: an event reaches the connection it is about or nobody; nothing that
  Steam holds for us is without somebody here who will close it.*
* **Hosting before a login.** A driver that listens on its identity waits for the login and may be gone, or
  refused, when it comes. *Correct: what is published is listened on.*
* **Three views of a lobby.** Steam knows its members, `ActiveLobbies` the lobbies this user is in, and the
  game is shown a snapshot. Creating and joining take several steps of which each may fail or be late, a
  kick is obeyed beside the operation queue, ownership passes without being asked for. *Correct: whoever
  Steam has in a lobby is known here to be in it, or the failure that parted them has a name; when all is
  quiet the game and those who browse are shown what is.*
* **Copies of what is Steam's.** Statistics, presences, friends and file lists are kept here and change
  there: by other commits, by rejections, by announcements, by writes that were given up on. *Correct: the
  copy is what Steam holds whenever nothing is on its way.*

`PROJECT.json` lists every such hazard at its line.

## Modules

`AuthSessions` composes the server's handlers, the services, the serial queue and Steam. A state is: the
state of each connection's handler and what it holds; the queue and the request running; the sessions
recorded; Steam's ledger per user; the verdicts in the pipe. An action is one handler of the code with
everything it calls: `Destroy` is the destructor with the end it queues, `AnswerGranted` is the callback
with the record, the continuation of the handler and, if the handler is gone, what that branch does.
`phase` keeps the frame: net driver, deadlines, pipe, queue, in the order of
`FOnlineServicesSteam::Tick`. `FreedAuthReads` is what `Auth.IsValid()` can answer when it is read from a
handler that has been destroyed (`AuthHandlerSteam.cpp:566`). A ticket is abstracted to the connection
it was offered on, which Steam's ledger and the verdict carry as history: the code never looks at it.

`AuthHandshake` is both ends of one connection. A channel is the set of packets that may still arrive;
a packet may be read any number of times, in any order, and `Lose` takes it away. `AuthSessions` is what
happens between `word = "asked"` and the answer. `Admission` is the same promise without packets, and
`AdmissionSpec` says the exchange implements it.

`SteamCalls` is the dispatcher, with the frame and the destruction of several instances around it. A
*walk* is one of the loops over requests (`Tick`, the pump, `CancelAll`, the destructor); `answering` says
that a continuation is running inside it, which is when `Issue` may interleave. Completing a request is
one operator, `Fulfil`, as it is one function in the code. `Promises` is what callers are promised.

`AuthTickets` is the client's side: tickets issued for connections and tokens issued for others, through
the same queue. Steam makes a ticket good when it is asked and confirms it later, and only a confirmed
one is recorded.

`SocketRecords` is the listening side of the default transport: `FSocketSubsystemSteam` and its sockets,
`UNetDriverSteam` and `UNetConnectionSteam`, and Steam as the giver of handles and events. A driver and
the socket it listens on share a name, and so do a connection and the socket accepted for it. `record` is
`SocketInformationMap` by handle: the weak socket, its parent, the driver, the mark; `owned` is
`OwnedSockets`, `peer` the connections that still hold theirs, `address` the published listen address.
`steam` says what a handle stands for and on which listener it came in, `pipe` which events are not
dispatched yet. `InitListen`, `AddDelayedListener` and `LoginAnswered` bring a driver up, the `Created...`
actions are the branches of `OnConnectionCreated`, `Connected` and `Ended` the other two events,
`CleanUp`, `Shutdown`, `SweepClosedSockets` and `SubsystemShutdown` the ends. Each uses the operators on
the map that the code has functions for: `Filed` (`AddSocket`), `Linked` (`LinkNetDriver`), `Released`
(`DestroySocket`), `Orphaned` (`RemoveSocketsForListener`), `Unlinked` (`ResetSocketInfo`).

`Lobbies` is one user's lobbies with Steam as their keeper. `steam` is what Steam has of each lobby, `data`
what is filed of it in the registry (`FLobbyDataSteam` with the snapshot the game was shown last), `active`,
`invites` and `found` who holds it there: what nobody holds is forgotten at once (`Registered`), as the weak
pointers do. Operations wait in `queue`; `op` is the one that waits for Steam, and an answer is a message
of `inbox` like every announcement, so that all are read in order. A notification becomes one more
operation, `ProcessNotification`; a kick does not and is obeyed as it is read (`LocalUserKicked`). Each
operation is the conjunction of its checks (`May...`), which are those of the code up to the first call to
Steam, and of what its steps do. The other users run the same program: a `Peer` action is what Steam makes
of it. `adrift` is history: lobbies which one of the failures listed below parted from Steam.

`UserServices` composes four components of a user that share the operation queue of `ServiceQueue` and
nothing else. `UserStats`: the Steam client holds values that are set (`held`, `got`), its backend those
that were committed (`stored`, `won`); a commit carries all that is set, is answered on a callback that
names no commit, and when it is rejected puts back what the backend holds; `cached` and `progress` are what
the game is shown. `Presence`: `account` is Steam's, `kept` and `watched` the component's; a value is text
as it stands, one that reads otherwise once it was written, or one that Steam does not take. `Social`:
the relation Steam reports, the two lists, what the game was told, and the page of the overlay that is the
only way a game can change a relation. `UserFiles`: contents are abstracted to three kinds, those that
shrink when packed, those that do not, and those that begin with the mark of a packed file. `Restart` is
`PreShutdown` of every component with whatever operation is under way, and a new instance.

`MC...` modules instantiate these for TLC, `...Proofs` modules hold the theorems.

## Runs

| Run | Expect | What it shows |
|---|---|---|
| `AuthSessions_safety` | pass | two users, three connections, both kinds of logout: books and closers agree; a session is taken away by Steam alone; grants are for their own ticket |
| `AuthSessions_live` | pass | every ticket is answered; nobody stays locked out |
| `AuthSessions_freed` | violation | with the destroyed handler's memory reused, a late grant is left open |
| `AuthSessions_refusal` | violation | a refusal of an earlier ticket answers a later request |
| `AuthSessions_logout` | violation | a listen server's sessions outlive the login they were opened under |
| `AuthHandshake` | pass | the whole space of the exchange: it implements `Admission`, gives one verdict, ends |
| `SteamCalls` | pass | two instances, three requests: exactly one outcome for each future, and always one |
| `AuthTickets` | pass | two connections and a token: records agree with Steam, an offered ticket stays good, and goes with its connection |
| `AuthTickets_shutdown` | violation | unrecorded tickets survive the shutdown |
| `SocketRecords` | pass | a game and a beacon, peers that ring, connect and go, handles given out again: events find their connection, nobody is left ringing, no record or address outlives what it stands for |
| `Lobbies` | pass | two lobbies, two other users: membership is accounted for, departures take kicks and presence with them, the game's view and the browsers' count come true, a server finds its lobby in either order |
| `UserServices` | pass | statistics, achievements, presence, friends and files: what is shown is what Steam holds, or a named failure says why not |

The four violations are what the code does against what a comment or the change log says;
`PROJECT.json` quotes both. A late grant and a mismatched refusal are both repairable in place: capture
the auth interface by value in the continuation, and tell refusals apart by the stage of the request.
None of the other runs depends on them: `AuthSessions_safety` assumes the memory of a destroyed handler
reads as it did (`FreedAuthReads = {TRUE}`), which is what happens when nothing reused it, and a
mismatched refusal is in that run as well, where it refuses a player but leaves the books in order.

**Bounds.** Three connections are the fewest with which a user can have one session open, one request
queued and one connection gone at once, and with two users another user's traffic is between them. Each
connection opens once and each account is logged out once, so queue and pipe are bounded by the model
and not by a constraint: a queue holds one operation per connection and account, the pipe two verdicts
per request at most. Users and connections are symmetric in the safety run; the liveness run has two
connections and no symmetry. `SteamCalls` has three requests because two must share a message and two
must share an instance. `AuthTickets` has two connections and one token for the same reason: one to end
while the other lives, one that nobody records. `SocketRecords` has two drivers, one of which waits for a
login, two connections and three handles, so that the second connection, or the second listener, can get
a handle the first one gave back; a driver is asked to listen once and a connection accepted once. The handshake has no parameters and is explored whole.
`Lobbies` has two lobbies, so that one can be left while another is joined, and two other users, so that
ownership can pass to either and one can be removed while the other stays. `MaxMoves` counts what the
game, the others and the user do; Steam's answers, deadlines, late calls and notifications are free. Four
moves are a create or a join, two things that cross it, and one that follows; five moves with one other
user have been run as well and hold. `MaxQueue` bounds how many operations the game lets wait; what
notifications add is not bounded. In `UserServices` the game uses one component with three moves or two
of them with two (`used`): the components share the queue alone, so a third adds nothing to what two can do
to each other. Three moves are an operation that is given up on, the next one that meets its late answer,
and an announcement, a logout or a restart between them. `Top` is where an int32 ends.

Deadlock is not checked: services that were shut down, closed connections and destroyed instances stop.

**Fairness.** The engine ticks the services every frame and a tick finishes what it started (`WF` on the
steps of a frame). A deadline passes because the clock does, so a request that stays in flight expires
or is answered (`SF(Expire)`, since every frame goes through phases in which nothing expires). The net
driver's tick destroys a closed connection's handler (`SF(Destroy)`, for the same reason). In the
handshake both ends tick, and what is sent again and again arrives (`SF` on each read, the usual
assumption on a lossy channel); the services answer because their requests have deadlines. The
sockets' events are dispatched every frame, and a driver that is up is ticked every frame, which sweeps
the records and cleans up its closed connections (`WF` on each). Steam, the
peers and the game promise nothing: no fairness on answers, closes, logouts or shutdowns.

**Abstractions that limit what a run says.** Within the net driver's part of a frame its steps come in
any order. After the services are shut down, handlers that still exist are not followed. What Steam
posts while the pipe is being drained is read in `SteamCalls` in the next frame and in `AuthSessions` in
the same one. `SocketRecords` takes from Steam that a handle is given out again only when no event about
it is left, and that an address that is taken is not listened on twice; the answer of a login is an input.
The client's own connection, data, and the order of steps within a frame are not in it. A continuation that destroys the very instance whose loop it runs in is not modelled. The
contents of tickets and packets, and the time a resend waits, are not modelled.

`Lobbies` takes from Steam that it posts announcements and answers in order, that it gives no lobby id out
again, and that an owner who leaves is followed by a member; a lobby has one attribute of each kind, of the
lobby, of a member, and the join policy. Filters of a
search and the conversion of attribute values are left out. `UserServices` takes from Steam that it performs
commits and writes in order. An operation that begins without a login fails and changes nothing, and so it
does not appear. `astray` and `unsure` are history: the statistics and the files for which one of the
failures below left the copy apart, and the properties speak of the others.

## Proofs

| Module | Results for every instance |
|---|---|
| `AuthSessionsProofs` | `TypeCorrect`, `SteamAccounted`, `RecordedOnceHolds`, `CloserHolds`, `GrantIsForItsTicket`, `SessionsStayGranted` |
| `AuthTicketsProofs` | `TicketTypes`, `RecordedIsGoodHolds`, `OfferedStays` |
| `AuthHandshakeProofs` | `HandshakeTypeCorrect`, `OneVerdictHolds`, `HandshakeAdmits` (the refinement) |
| `SteamCallsProofs` | `CallsTypeCorrect`, `OwnedWhileOpenHolds`, `SteamCallsTheLivingHolds`, `NothingWaitsOnTheGoneHolds`, `FuturesKept` |
| `SocketRecordsProofs` | `TypesAreKept`, `EventsFindTheirConnection`, `ListenersAreTheDrivers`, `CallersAreAnswered`, `PublishedAddressIsListenedOn`, `AddressWithdrawnByItsListener` |
| `LobbiesProofs` | `LobbyTypes`, `MembershipAccountedHolds`, `ActiveIsJoinedHolds`, `LeftLobbiesForgottenHolds`, `SettledViewHolds`, `BrowsedCountHolds`, `ServerIsBoundHolds` |
| `UserServicesProofs` | `PeopleAreShown` |
| `UserDataProofs` | `ServicesTypes`, `FilesAreTheGamesHolds`, `StatsAreSteamsHolds` |

Between them they state every invariant and every action property that a passing run checks, for any number
of users, connections, requests, lobbies, statistics, achievements and files, and for any bound on moves and
queues. Each rests on an inductive invariant (`SessionsInv`, `HandshakeInv`, `CallsInv`, `RecordsInv` and
`AddressInv`, `TicketsInv`, `LobbiesInv`, `IInv`, `DataInv`); what follows says what it adds to the
properties and why that is needed.

*Sessions.* `SessionsInv` strengthens what is wanted by four facts. `RequestsPending`: a connection has at
most one verification queued or in flight and holds no session while it does; this is what makes the answer
of a request the first and only session of its handler. `IndicesUsed`: indices are handed out in order, so
an end that is queued names no later session. `ChecksForTheRequest`: Steam checks nothing but the ticket of
the request in flight. `GrantsInThePipe`: a grant that is still in the pipe is for that ticket, or its
request expired earlier in this frame and the pipe will be empty before the queue runs. The last one is why
`Tick` may not be reordered: the pipe is drained after the deadlines and before the queue, and
`GrantIsForItsTicket` rests on it alone. `CloserHolds` assumes `FALSE \notin FreedAuthReads`, the assumption
the run `AuthSessions_freed` drops. For `SessionsStayGranted` two facts are added, about why a session may
be taken. `EndsAreForTheGone`: no two handlers hold the same session, and an end that is queued names one
that no living handler holds. `LogoutsPending`: a logout that is queued belongs to an account that is still
leaving, so when it takes sessions away it changes `login` too.

*Tickets.* `TicketsInv` says that a connection asks for a ticket once, as an operation, as the request under
way or as the ticket it holds (`AskedOnce`); that numbers are given in order, so the number held is that of
one ticket, and that a cancellation which is queued names the ticket of a connection that is gone
(`NumbersAreOnes`); and that a request is under way only while the user is logged in (`IssuedToTheUser`).
The second is what protects a living connection's ticket from another's end (`OfferedStays`).

*Handshake.* The server's state follows from what the services said (`TypeOK`), verdicts on their way are
the one that was given (`VerdictsAreTheirs`), and a ticket on its way was offered by a client that does not
take that back (`TicketsAreOffered`). With these every step maps to a step of `Admission` or to none.

*Calls.* A request is in its dispatcher's list or in the list a `CancelAll` moved out exactly while it is
open, and Steam knows exactly the open ones; an instance that is gone has an empty list. Since `Fulfil`
restores all three before the continuation runs, whatever is issued from inside finds them so.

*Sockets.* The address needs one fact, `AddressesApart`: no two drivers listen on the same address, so the
listener that finds its own address published may withdraw it. Everything else follows from `RecordsInv`,
which says what agrees while the subsystem is up and that no handle is left when it is down. `Agree` has one
part for each party. `ListenersHold`: a driver that listens has a handle, an unmarked record and a listener
at Steam. `LinksHold`: so does a connection that was not cleaned up, and its record is marked only when it
was closed, is over at Steam and nothing more will be heard of it, which is why a mark never costs a
connection its record. `RecordsHold`: a record names the socket that has its handle or none. `CallsHold`:
every connection at Steam came in on a listener of ours, and one that rings has its event in the pipe.
`PipeHolds`: the events about a handle begin with its creation, before it was answered, and end with its
end; with the reuse of handles this is what keeps an event from reaching a successor. A listener can be
closed under connections that were not dispatched: their events then find nobody, and Steam has already
closed them.

*Lobbies.* Steam, the registry and the game's view may differ, and `LobbiesInv` says that a difference
always has word of it on its way. `AnswersAreAwaited`: an answer in `inbox` is the only one and belongs to
the operation that waits. `BornFirst`: nothing is known or said of a lobby that was not opened.
`NewsFollows`: a lobby the user opens is first heard of by the answer that it is there, and whoever came or
left meanwhile is heard of after it. `ActiveIsShown`: an active lobby is filed and shown, with the user in
it unless a failure parted them. `ViewIsCurrent` and `CountIsCurrent`: the snapshot and the count that
others browse are Steam's or the news is in inbox or queue; with both empty they are `SettledViewIsTrue` and
`BrowsedCountIsRight`. Every action is first shown to be a step of one kind on each part of the state
(`SteamStep`, `DataStep`, `ActiveStep`, `PipeStep`, `QueueStep`), and each part of the invariant is proved
of the kinds, so that an action is opened once.

*People.* `SocialInv` and `PresenceInv`, the type and the property of each component, are inductive on their
own: whatever Steam changes it announces (`BecomesKeeps`, `AccountChangesKeeps`), and an announcement leaves
either the copy as Steam has it or a later one about the same user (`RefreshKeeps`). An update starts from a
copy that reads, once it was written, as what Steam publishes, so folding the same mutations into it and
into what the game wants gives the same text (`UpdatesKeep`). The one fact they need of the others is
`OpShape`: no step of another component makes its operation into a query of presence, or changes one. The
fields, friends and contacts may be any sets.

*Files.* `FilesInv`: a file that is not in `unsure` reads as the game was told, or the operation that wrote
it is about to say so (`FilesAgree`). Steam performs writes in order, and those that were given up on are
still among them; of these every file is in `unsure` (`OthersAreUnsure`), and the write that is awaited is
the last (`WriteIsLast`). So when Steam answers, what it stored is what the waiting operation meant,
whichever late writes went before, and the operation may take its file out of `unsure`. `CopyIsCurrent`: a
copy that is still reading its source goes by what the game was last told of it.

*Statistics and achievements.* A commit's answer names no commit, so `DataInv` speaks of every answer in the
pipe. `PipeInv`: at most one call awaits its answer; progress is never announced after the unlock of the
same achievement, nor behind an answer that says it is unlocked; what the backend has, the client has.
`ShownInv`: a statistic shown otherwise than Steam holds it is one the waiting update or reset is about, or
is astray (`StatsShown`); what a waiting update wrote Steam still holds, or a rejection is on its way
(`UpdateIsHeld`); where only a rejection can still answer a reset, nothing is shown apart (`ResetIsOver`).
`UnlocksInv` says this of achievements, which are announced beside the operation: one that Steam holds and
the game is not shown has a commit or an announcement to come (`AchievementsShown`), what a waiting unlock
set Steam holds unless it is rejected (`UnlockIsGot`), and the answer comes behind every progress that is
still to be told (`UnlockIsLast`). That an answer may be another commit's costs nothing: then a commit or an
answer is left over, and what is believed too early is put under `astray` at that moment. `CommitsAreMoves`
bounds the commits under way by the moves that asked for them. The numbers, the statistics and the
achievements may be any; `MaxMoves` is any positive number.

Assumed are only the named `ASSUME`s of the modules, which TLC evaluates on every run. They keep what stands
for "none" apart from every value (`NothingAssumption`, `FilesAssumption`, `SocialAssumption` and part of
the others), relate parameters (a request's owner is an instance, an account is the server's or the user's),
and say that a statistic can hold at least one value and that achievements are finitely many
(`StatsAssumption`), and that the game may do something (`ServicesAssumption`).

Left to TLC is liveness, which the prover does not do: `EveryTicketIsAnswered`, `NobodyIsLockedOut`,
`HandshakeFinishes`, `TicketsGoWithTheirConnection`, `EndedIsForgotten`, `MarkedRecordsGo`, and the fairness
in `FuturesSpec` (its safety part is `FuturesKept`). The four runs that expect a violation state what does
not hold.

## Observed and not run

These came up while the models were written. Nothing in the repository says otherwise, so no run claims a
disagreement.

* One address is published per process (`SocketSubsystemSteam.cpp:244-257`). A beacon that listens after
  the game replaces the game's address, and takes it away when it ends although the game still listens.
  `AddressHasAListener` and `AddressGoesWithItsListener` are about the address that is published.
* A connection closed here before Steam reports it connected is set open again
  (`NetDriverSteam.cpp:267`), so `EndedIsForgotten` starts from the peer that went and not from a close.
* When `AcceptConnection` fails the handle is not closed (`NetDriverSteam.cpp:174-182`) and stays with
  Steam until the listener goes. `NobodyIsLeftRinging` speaks of connections that are alive.
* The login of a delayed listener can be answered that the user is already signed in
  (`AuthSteam.cpp:279-283`), when the game signed in by other credentials meanwhile; the driver is then
  shut down although it could listen.


Lobbies (all are in the run, under `adrift` where they part Steam from this side):

* A create whose seventh step cannot prepare the client data leaves the lobby at Steam
  (`LobbiesSteam.cpp:297`); so does a create or a join that is answered, or performed, after its deadline:
  the user is then in a lobby nobody here knows.
* A second join of a lobby that is active, when it fails, leaves the lobby at Steam and not here. A kick
  obeyed after a logout removes it here and not at Steam.
* A mark in `PendingKicks` for a user who is not a member any more labels their next departure as a removal
  (`LobbiesSteam.cpp:1125`, consumed at `:45-47`).
* What `RequestUiJoin` files is held by nobody after the broadcast, so a `JoinLobby` that is queued in
  answer to it fails with `InvalidParams`, unless something else holds the lobby.
* Ownership that passes to the user later does not bind the game server; `ServerIsBound` speaks of the
  moments the code answers, a lobby that becomes active and a server that starts.

Copies of what is Steam's (under `astray` and `unsure` in the run):

* The value kept of a statistic is not clamped while Steam's is (`StatsSteam.cpp:379-401`); `StatsAreSteams`
  compares them clamped.
* `UpdateStats` that cannot write one of several statistics, and `UnlockAchievements` that cannot set one of
  several, leave the earlier ones set, and the next commit sends them (`StatsSteam.cpp:332-342`,
  `AchievementsSteam.cpp:472-479`).
* The answer to a commit given up on is taken for the next one's (`SteamUserStats.h:133`); a commit that is
  rejected after its operation was given up on leaves the cache as it was, and so does a reset that fails.
* An announcement about the local user replaces the kept presence by Steam's text of it, so that a number
  becomes a string; `PresenceIsTrue` compares what is published.
* A file whose contents begin with `STZ1` and are stored as they are cannot be read back. A write given up on
  is performed late, and its file is missing from the list until the next enumeration.
* Leaderboards: Steam counts ranks from one and the interface from zero (`LeaderboardsSteam.cpp:20`);
  requests are translated and the ranks in answers are not (`:153-156`). Not modelled.

## Plan

Every component the first sections call modelled has its runs and its proofs. What would extend the project:

1. The messages transport, with the sessions it accepts and the entry a closing socket takes off its
   listener by identity, which is a hazard no property covers yet.
2. A connection closed before Steam reports it connected, and one whose accept fails, as properties of
   `SocketRecords` once the code cleans them up.
3. Refinements of the user's services by a specification without a queue, of which `StatsAreSteams` and
   `FilesAreTheGames` are the safety part.

## Not modelled

* The messages transport (`SocketSteamMessages.cpp`): its sockets are filed by the records `SocketRecords`
  models; accepting, pumping and failing of its peers is not, and the hazard of its close is listed.
* The client's own connection (`InitConnect`), the receive loop and its budget: they move data.
* The steps of `Login` and the avatar it saves, the bring-up of the Steam services once per process, the
  account id registry, which only grows.
* Of lobbies: the one named on the command line, `PreShutdown`, the read-only queries.
* Leaderboards, user info and privileges: one query and one answer each, through the calls `SteamCalls`
  models; handles of leaderboards are kept and never change.
* `SteamDeviceInfo`, the screen keyboard, address conversions, module start-up, build and configuration
  files, which have no state that evolves. The engine and the SDK are outside; what the models take of them
  is marked external.
