---------------------------- MODULE LobbiesProofs ----------------------------
(***************************************************************************)
(* What the game, its friends and the server browser are shown of lobbies  *)
(* is what Steam holds, for any number of lobbies and players.             *)
(***************************************************************************)
EXTENDS Lobbies, FiniteSetTheorems, SequenceTheorems, TLAPS

-----------------------------------------------------------------------------
(* Sequences.                                                              *)

\* What a longer sequence holds, and what it held before.
LEMMA Longer ==
  ASSUME NEW S, NEW s \in Seq(S), NEW e \in S, NEW t, t = Append(s, e)
  PROVE  /\ t \in Seq(S) /\ t # <<>>
         /\ \A i \in 1..Len(t) : (i \in 1..Len(s) /\ t[i] = s[i]) \/ (i = Len(s) + 1 /\ t[i] = e)
         /\ \A i \in 1..Len(s) : i \in 1..Len(t) /\ t[i] = s[i]
         /\ Len(s) + 1 \in 1..Len(t) /\ t[Len(s) + 1] = e
<1>1. Len(t) = Len(s) + 1 /\ Len(s) \in Nat OBVIOUS
<1> QED BY <1>1

\* What a sequence holds once its head is gone.
LEMMA Shorter ==
  ASSUME NEW S, NEW s \in Seq(S), s # <<>>, NEW t, t = Tail(s)
  PROVE  /\ t \in Seq(S) /\ Head(s) \in S /\ Head(s) = s[1] /\ 1 \in 1..Len(s)
         /\ \A i \in 1..Len(t) : i + 1 \in 1..Len(s) /\ i + 1 # 1 /\ t[i] = s[i + 1]
         /\ \A i \in 1..Len(s) : i # 1 => i - 1 \in 1..Len(t) /\ t[i - 1] = s[i]
<1>1. Len(t) = Len(s) - 1 /\ Len(s) \in Nat \ {0} OBVIOUS
<1> QED BY <1>1

\* What a sequence holds once an element in it is gone.
LEMMA OneLess ==
  ASSUME NEW S, NEW s \in Seq(S), NEW k \in 1..Len(s), NEW t, t = RemoveAt(s, k)
  PROVE  /\ t \in Seq(S) /\ Len(t) = Len(s) - 1
         /\ \A i \in 1..Len(t) : t[i] = IF i < k THEN s[i] ELSE s[i + 1]
<1>1. Len(s) \in Nat /\ k \in Nat OBVIOUS
<1> DEFINE a == SubSeq(s, 1, k - 1)
           b == SubSeq(s, k + 1, Len(s))
<1>2. a \in Seq(S) /\ Len(a) = k - 1 /\ \A i \in 1..(k - 1) : a[i] = s[i]
  BY <1>1
<1>3. b \in Seq(S) /\ Len(b) = Len(s) - k /\ \A i \in 1..(Len(s) - k) : b[i] = s[i + k]
  BY <1>1
<1> HIDE DEF a, b
<1>4. t = a \o b BY DEF a, b, RemoveAt
<1>5. /\ t \in Seq(S) /\ Len(t) = Len(a) + Len(b)
      /\ \A i \in 1..(Len(a) + Len(b)) : t[i] = IF i <= Len(a) THEN a[i] ELSE b[i - Len(a)]
  <2>1. a \in Seq(S) /\ b \in Seq(S) BY <1>2, <1>3
  <2> QED BY <1>4, <2>1, ConcatProperties, Zenon
<1>6. Len(t) = Len(s) - 1
  <2>1. Len(t) = Len(a) + Len(b) /\ Len(a) = k - 1 /\ Len(b) = Len(s) - k BY <1>2, <1>3, <1>5
  <2>2. \A m, n \in Nat : (n - 1) + (m - n) = m - 1 OBVIOUS
  <2> QED BY <1>1, <2>1, <2>2
<1>7. ASSUME NEW i \in 1..Len(t) PROVE t[i] = IF i < k THEN s[i] ELSE s[i + 1]
  <2>1. CASE i < k
    <3>1. i <= Len(a) /\ i \in 1..(k - 1) /\ i \in 1..(Len(a) + Len(b)) BY <1>1, <1>2, <1>3, <1>6, <2>1
    <3> QED BY <1>2, <1>5, <2>1, <3>1
  <2>2. CASE ~(i < k)
    <3>1. /\ ~(i <= Len(a)) /\ i - Len(a) \in 1..(Len(s) - k) /\ i \in 1..(Len(a) + Len(b))
          /\ (i - Len(a)) + k = i + 1
      <4>1. Len(a) = k - 1 /\ Len(b) = Len(s) - k BY <1>2, <1>3
      <4>2. \A m, n, j \in Nat : j \in 1..(m - 1) /\ n \in 1..m /\ ~(j < n) =>
              /\ ~(j <= n - 1) /\ j - (n - 1) \in 1..(m - n) /\ j \in 1..((n - 1) + (m - n))
              /\ (j - (n - 1)) + n = j + 1
        OBVIOUS
      <4>3. i \in Nat /\ i \in 1..(Len(s) - 1) BY <1>1, <1>6, <1>7
      <4>4. /\ ~(i <= k - 1) /\ i - (k - 1) \in 1..(Len(s) - k) /\ i \in 1..((k - 1) + (Len(s) - k))
            /\ (i - (k - 1)) + k = i + 1
        BY <1>1, <2>2, <4>2, <4>3
      <4> QED BY <4>1, <4>4
    <3>2. t[i] = b[i - Len(a)] BY <1>5, <3>1
    <3>3. b[i - Len(a)] = s[(i - Len(a)) + k] BY <1>3, <3>1
    <3> QED BY <2>2, <3>1, <3>2, <3>3
  <2> QED BY <2>1, <2>2
<1> QED BY <1>5, <1>6, <1>7

-----------------------------------------------------------------------------
(* What requests and messages are.                                         *)

\* Which requests name a lobby, and which a player.
LEMMA RequestShape ==
  ASSUME NEW r \in RequestType
  PROVE  /\ r.do \notin {"Create", "Find", "Logout"} => r.lobby \in Lobby
         /\ r.do \in {"Kick", "Promote", "Invite"} => r.who \in Peer
         /\ r.lobby \in Lobby \cup {None} /\ r.flag \in BOOLEAN
         /\ r # None => "do" \in DOMAIN r
BY DEF RequestType, Requests, Modifies

\* Which messages name a lobby.
LEMMA MessageShape ==
  ASSUME NEW m \in MessageType
  PROVE  /\ m.what \notin {"listed", "refused"} => m.lobby \in Lobby
         /\ m.lobby \in Lobby \cup {None} /\ m.who \in Users \cup {None}
BY DEF MessageType, Users

\* What an operation that is admitted has found out.
LEMMA AdmittedMeans ==
  ASSUME NEW r, Admitted(r)
  PROVE  /\ r.do = "Create" => MayCreate(r)
         /\ r.do = "Join" => MayJoin(r)
         /\ r.do = "Leave" => MayLeave(r)
         /\ r.do = "Kick" => MayKick(r)
         /\ r.do = "Promote" => MayPromote(r)
         /\ r.do \in Modifies => MayModify(r)
         /\ r.do = "ModifyMember" => MayModifyMember(r)
         /\ r.do = "Notify" => MayNotify(r)
         /\ r.do \in {"Find", "Logout"} => login
BY DEF Admitted, Modifies

\* The operation at the head of the queue, and what is left of the queue without it.
LEMMA HeadRequest ==
  ASSUME TypeOK, queue # <<>>
  PROVE  Head(queue) \in RequestType /\ Tail(queue) \in Seq(RequestType)
BY Shorter DEF TypeOK

\* The message at the head of the pipe, and what is left of the pipe without it.
LEMMA HeadMessage ==
  ASSUME TypeOK, NEW what, Answered(what)
  PROVE  /\ Head(inbox) \in MessageType /\ Head(inbox).what = what
         /\ inbox' = Tail(inbox) /\ inbox' \in Seq(MessageType) /\ inbox # <<>>
BY Shorter DEF TypeOK, Answered

-----------------------------------------------------------------------------
(* Lobbies at Steam.                                                       *)

\* A lobby has finitely many members, so that they can be counted; one of them owns it, and
\* a peer who does counts them.
Sound(r) == r \in LobbyType /\ IsFiniteSet(r.members)
Fine(r) ==
  /\ Sound(r)
  /\ r.members # {} => r.born /\ r.owner \in r.members
  /\ r.members = {} => r.owner = None
  /\ r.owner \in Peer => r.count = Cardinality(r.members)

\* What counting leaves as it is.
LEMMA CountedKeeps ==
  ASSUME NEW r, Sound(r)
  PROVE  /\ Sound(Counted(r))
         /\ \A f \in {"born", "members", "owner", "title", "policy", "note", "server"} :
              Counted(r)[f] = r[f]
         /\ r.owner \in Peer => Counted(r).count = Cardinality(r.members)
         /\ r.owner \notin Peer => Counted(r) = r
<1>1. Cardinality(r.members) \in Nat BY FS_CardinalityType DEF Sound
<1>2. r \in LobbyType BY DEF Sound
<1>3. [r EXCEPT !.count = Cardinality(r.members)] \in LobbyType
  BY <1>1, <1>2 DEF LobbyType
<1> QED BY <1>2, <1>3 DEF Counted, LobbyType, Sound

\* A lobby that somebody enters.
LEMMA WithKeeps ==
  ASSUME NEW r, Sound(r), NEW u \in Users
  PROVE  /\ Sound(With(r, u)) /\ With(r, u).members = r.members \cup {u}
         /\ \A f \in {"born", "owner", "title", "policy", "note", "server"} : With(r, u)[f] = r[f]
         /\ r.owner \in Peer => With(r, u).count = Cardinality(With(r, u).members)
         /\ r.owner \notin Peer => With(r, u).count = r.count
<1> DEFINE q == [r EXCEPT !.members = @ \cup {u}]
<1>1. IsFiniteSet(r.members \cup {u}) BY FS_AddElement DEF Sound
<1>2. /\ q \in LobbyType /\ q.members = r.members \cup {u} /\ q.count = r.count
      /\ \A f \in {"born", "owner", "title", "policy", "note", "server"} : q[f] = r[f]
  BY DEF Sound, LobbyType, Users
<1>3. Sound(q) BY <1>1, <1>2 DEF Sound
<1>4. With(r, u) = Counted(q) BY DEF With
<1> HIDE DEF q
<1> QED BY <1>2, <1>3, <1>4, CountedKeeps

\* A lobby that somebody leaves.
LEMMA WithoutKeeps ==
  ASSUME NEW r, Sound(r), NEW u \in Users, NEW x \in Without(r, u)
  PROVE  /\ Sound(x) /\ x.members = r.members \ {u}
         /\ \A f \in {"born", "title", "policy", "server"} : x[f] = r[f]
         /\ x.note = IF u = Me THEN 0 ELSE r.note
         /\ x.owner \in Heirs(r, u)
         /\ x.owner \in Peer => x.count = Cardinality(x.members)
         /\ x.owner \notin Peer => x.count = r.count
<1>1. PICK o \in Heirs(r, u) : x = Counted([r EXCEPT !.members = @ \ {u}, !.owner = o,
                                                     !.note = IF u = Me THEN 0 ELSE @])
  BY DEF Without
<1> DEFINE n == IF u = Me THEN 0 ELSE r.note
           q == [r EXCEPT !.members = @ \ {u}, !.owner = o, !.note = n]
<1>2. o \in Users \cup {None} BY DEF Heirs, Sound, LobbyType
<1>3. IsFiniteSet(r.members \ {u}) BY FS_RemoveElement DEF Sound
<1>4. /\ q \in LobbyType /\ q.members = r.members \ {u} /\ q.count = r.count /\ q.owner = o
      /\ \A f \in {"born", "title", "policy", "server"} : q[f] = r[f]
      /\ q.note = IF u = Me THEN 0 ELSE r.note
  <2>1. n \in 0..1 BY DEF Sound, LobbyType
  <2>2. r \in LobbyType BY DEF Sound
  <2>3. q.note = n BY <2>2 DEF LobbyType
  <2>4. q.note = IF u = Me THEN 0 ELSE r.note BY <2>3
  <2> HIDE DEF n
  <2> QED BY <1>2, <2>1, <2>2, <2>4 DEF LobbyType
<1>5. Sound(q) BY <1>3, <1>4 DEF Sound
<1>6. x = Counted(q) BY <1>1
<1> HIDE DEF q
<1> QED BY <1>4, <1>5, <1>6, CountedKeeps

\* What the owner publishes of a lobby.
LEMMA PublishedKeeps ==
  ASSUME NEW s \in [Lobby -> LobbyType], \A k \in Lobby : Sound(s[k]), NEW l \in Lobby,
         NEW t, t = Published(s, l)
  PROVE  /\ t \in [Lobby -> LobbyType] /\ \A k \in Lobby : Sound(t[k])
         /\ \A k \in Lobby : \A f \in {"born", "members", "owner", "title", "policy", "note", "server"} :
              t[k][f] = s[k][f]
         /\ \A k \in Lobby : k # l => t[k] = s[k]
         /\ s[l].owner = Me => t[l].count = Cardinality(s[l].members)
         /\ s[l].owner # Me => t[l] = s[l]
<1>1. CASE s[l].owner # Me BY <1>1 DEF Published
<1>2. CASE s[l].owner = Me
  <2> DEFINE r == [s[l] EXCEPT !.count = Cardinality(s[l].members)]
  <2>1. Cardinality(s[l].members) \in Nat BY FS_CardinalityType DEF Sound
  <2>2. s[l] \in LobbyType OBVIOUS
  <2>3. /\ r \in LobbyType /\ r.count = Cardinality(s[l].members)
        /\ \A f \in {"born", "members", "owner", "title", "policy", "note", "server"} : r[f] = s[l][f]
    BY <2>1, <2>2 DEF LobbyType
  <2>4. t = [s EXCEPT ![l] = r] BY <1>2 DEF Published
  <2>5. Sound(r) BY <2>3 DEF Sound
  <2> HIDE DEF r
  <2>6. \A k \in Lobby : t[k] = IF k = l THEN r ELSE s[k] BY <2>4
  <2> QED BY <1>2, <2>3, <2>4, <2>5, <2>6
<1> QED BY <1>1, <1>2

\* What binding the server changes.
LEMMA BoundKeeps ==
  ASSUME NEW s \in [Lobby -> LobbyType], \A k \in Lobby : Sound(s[k]), NEW l \in Lobby,
         NEW t, t = Bound(s, l)
  PROVE  /\ t \in [Lobby -> LobbyType] /\ \A k \in Lobby : Sound(t[k])
         /\ \A k \in Lobby : \A f \in {"born", "members", "owner", "count", "title", "policy", "note"} :
              t[k][f] = s[k][f]
         /\ \A k \in Lobby : k # l => t[k] = s[k]
         /\ listening /\ s[l].owner = Me => t[l].server
<1>1. CASE ~(listening /\ s[l].owner = Me) BY <1>1 DEF Bound
<1>2. CASE listening /\ s[l].owner = Me
  <2> DEFINE r == [s[l] EXCEPT !.server = TRUE]
  <2>1. s[l] \in LobbyType OBVIOUS
  <2>2. /\ r \in LobbyType /\ r.server = TRUE
        /\ \A f \in {"born", "members", "owner", "count", "title", "policy", "note"} : r[f] = s[l][f]
    BY <2>1 DEF LobbyType
  <2>3. t = [s EXCEPT ![l] = r] BY <1>2 DEF Bound, SetLobbyGameServer
  <2>4. Sound(r) BY <2>2 DEF Sound
  <2> HIDE DEF r
  <2>5. \A k \in Lobby : t[k] = IF k = l THEN r ELSE s[k] BY <2>3
  <2> QED BY <1>2, <2>2, <2>3, <2>4, <2>5
<1> QED BY <1>1, <1>2

\* A lobby that is opened.
LEMMA OpenedIsSound ==
  ASSUME NEW u \in Users
  PROVE  /\ Sound(Opened(u)) /\ Opened(u).members = {u} /\ Opened(u).owner = u /\ Opened(u).born
         /\ Opened(u).count = IF u = Me THEN 0 ELSE 1
         /\ Sound(Unopened) /\ Unopened.members = {} /\ Unopened.owner = None
<1>1. IsFiniteSet({u}) /\ IsFiniteSet({}) BY FS_Singleton, FS_EmptySet
<1>2. /\ Opened(u) \in LobbyType /\ Opened(u).members = {u} /\ Opened(u).owner = u /\ Opened(u).born
      /\ Opened(u).count = IF u = Me THEN 0 ELSE 1
  <2> DEFINE n == IF u = Me THEN 0 ELSE 1
             q == [born |-> TRUE, members |-> {u}, owner |-> u, count |-> n,
                   title |-> 0, policy |-> 0, note |-> 0, server |-> FALSE]
  <2>1. Opened(u) = [Unopened EXCEPT !.born = TRUE, !.members = {u}, !.owner = u, !.count = n]
    BY DEF Opened
  <2>2. n \in Nat /\ n = IF u = Me THEN 0 ELSE 1 OBVIOUS
  <2> HIDE DEF n
  <2>4. Opened(u) = q BY <2>1 DEF Unopened
  <2>3. q \in LobbyType BY <2>2 DEF LobbyType, Users
  <2> QED BY <2>2, <2>3, <2>4
<1>3. Unopened \in LobbyType /\ Unopened.members = {} /\ Unopened.owner = None
  BY DEF Unopened, LobbyType
<1> QED BY <1>1, <1>2, <1>3 DEF Sound

\* A lobby whose title, policy or note is another, or whose owner is.
LEMMA ChangedIsSound ==
  ASSUME NEW r, Sound(r)
  PROVE  /\ Sound([r EXCEPT !.title = 1 - @]) /\ Sound([r EXCEPT !.policy = 1 - @])
         /\ Sound([r EXCEPT !.note = 1 - @]) /\ Sound([r EXCEPT !.policy = 1])
         /\ Sound([r EXCEPT !.server = TRUE])
         /\ \A u \in Users : Sound([r EXCEPT !.owner = u])
<1>1. r \in LobbyType /\ IsFiniteSet(r.members) /\ 1 - r.title \in 0..1 /\ 1 - r.policy \in 0..1
      /\ 1 - r.note \in 0..1
  BY DEF Sound, LobbyType
<1>2. Sound([r EXCEPT !.title = 1 - @]) /\ Sound([r EXCEPT !.policy = 1 - @])
      /\ Sound([r EXCEPT !.note = 1 - @])
  BY <1>1 DEF Sound, LobbyType
<1>3. Sound([r EXCEPT !.policy = 1]) /\ Sound([r EXCEPT !.server = TRUE])
  <2>1. ASSUME NEW n \in 0..1 PROVE Sound([r EXCEPT !.policy = n])
    BY <1>1 DEF Sound, LobbyType
  <2>2. ASSUME NEW b \in BOOLEAN PROVE Sound([r EXCEPT !.server = b])
    BY <1>1 DEF Sound, LobbyType
  <2>3. 1 \in 0..1 /\ TRUE \in BOOLEAN OBVIOUS
  <2> QED BY <2>1, <2>2, <2>3
<1>4. ASSUME NEW u \in Users PROVE Sound([r EXCEPT !.owner = u])
  BY <1>1 DEF Sound, LobbyType
<1> QED BY <1>2, <1>3, <1>4

\* Who enters and who leaves a lobby leaves it with an owner who is in it.
LEMMA MembersAreFine ==
  ASSUME NEW r, Fine(r), NEW u \in Users
  PROVE  /\ r.members # {} => Fine(With(r, u))
         /\ \A x \in Without(r, u) : Fine(x)
<1>1. Sound(r) BY DEF Fine
<1>2. ASSUME r.members # {} PROVE Fine(With(r, u))
  BY <1>1, <1>2, WithKeeps DEF Fine
<1>3. ASSUME NEW x \in Without(r, u) PROVE Fine(x)
  <2>1. /\ Sound(x) /\ x.members = r.members \ {u} /\ x.born = r.born /\ x.owner \in Heirs(r, u)
        /\ x.owner \in Peer => x.count = Cardinality(x.members)
    BY <1>1, WithoutKeeps
  <2>2. u # None BY ConstantsAssumption DEF Users
  <2> QED BY <2>1, <2>2 DEF Heirs, Fine
<1> QED BY <1>2, <1>3

\* A lobby that is opened is fine, and so is one that is not.
LEMMA OpenedIsFine ==
  ASSUME NEW u \in Users
  PROVE  Fine(Opened(u)) /\ Fine(Unopened)
<1>1. Cardinality({u}) = 1 BY FS_Singleton
<1>2. u \in Peer => u # Me BY ConstantsAssumption
<1>3. None \notin Peer BY ConstantsAssumption
<1> QED BY <1>1, <1>2, <1>3, OpenedIsSound DEF Fine

\* What is said of a lobby may change.
LEMMA ChangedIsFine ==
  ASSUME NEW r, Fine(r)
  PROVE  /\ Fine([r EXCEPT !.title = 1 - @]) /\ Fine([r EXCEPT !.policy = 1 - @])
         /\ Fine([r EXCEPT !.note = 1 - @]) /\ Fine([r EXCEPT !.policy = 1])
         /\ Fine([r EXCEPT !.server = TRUE])
<1> DEFINE Same(q) == \A f \in {"born", "members", "owner", "count"} : q[f] = r[f]
<1>1. r \in LobbyType BY DEF Fine, Sound
<1>2. /\ Same([r EXCEPT !.title = 1 - @]) /\ Same([r EXCEPT !.policy = 1 - @])
      /\ Same([r EXCEPT !.note = 1 - @]) /\ Same([r EXCEPT !.policy = 1])
      /\ Same([r EXCEPT !.server = TRUE])
  BY <1>1 DEF LobbyType
<1>3. ASSUME NEW q, Same(q), Sound(q) PROVE Fine(q)
  BY <1>3 DEF Fine
<1> HIDE DEF Same
<1> QED BY <1>2, <1>3, ChangedIsSound DEF Fine

\* A member may be made the owner.
LEMMA PromotedIsFine ==
  ASSUME NEW r, Fine(r), NEW u \in r.members
  PROVE  /\ Fine(Counted([r EXCEPT !.owner = u]))
         /\ Counted([r EXCEPT !.owner = u]).members = r.members
         /\ u = Me => Fine([r EXCEPT !.owner = u])
<1> DEFINE q == [r EXCEPT !.owner = u]
<1>1. u \in Users /\ r \in LobbyType BY DEF Fine, Sound, LobbyType
<1>2. Sound(q) BY <1>1, ChangedIsSound DEF Fine
<1>3. q.owner = u /\ q.members = r.members /\ q.born = r.born BY <1>1 DEF LobbyType
<1> HIDE DEF q
<1>4. Fine(Counted(q)) /\ Counted(q).members = r.members BY <1>2, <1>3, CountedKeeps DEF Fine
<1>5. u = Me => Fine(q) BY <1>2, <1>3, ConstantsAssumption DEF Fine
<1> QED BY <1>4, <1>5 DEF q

-----------------------------------------------------------------------------
(* The inductive invariant.                                                *)

\* Operations that wait were admitted with a login, and an answer in the pipe is the only
\* one and belongs to the operation that waits.
AnswersAreAwaited ==
  /\ op # None => login
  /\ \A i \in 1..Len(inbox) : HasAnswer(i) =>
       /\ call = "answered"
       /\ inbox[i].what = "created" => op.do = "Create"
       /\ inbox[i].what = "entered" => op.do = "Join" /\ op.lobby = inbox[i].lobby
       /\ inbox[i].what = "listed" => op.do = "Find"
  /\ \A i, j \in 1..Len(inbox) : HasAnswer(i) /\ HasAnswer(j) => i = j

\* Nothing is known or said of a lobby that has not been opened.
BornFirst ==
  /\ \A l \in Lobby : Known(l) \/ l \in active => Born(l)
  /\ \A i \in 1..Len(inbox) : inbox[i].what \notin {"refused", "listed"} => Born(inbox[i].lobby)

\* Word of who came and went, and of any change, is on its way.
Moved(l) == \E i \in 1..Len(inbox) : inbox[i].lobby = l /\ inbox[i].what \in {"came", "left"}
NewsOf(l) ==
  HeldByQueue(l) \/ \E i \in 1..Len(inbox) : inbox[i].lobby = l /\ inbox[i].what \in {"came", "left", "data"}

\* The first that is heard of a lobby the user opens is that it is there; what happens in
\* it before that is heard of after.
NewsFollows ==
  \A i \in 1..Len(inbox) : inbox[i].what = "created" =>
    /\ ~Known(inbox[i].lobby) /\ inbox[i].lobby \notin active
    /\ \A j \in 1..(i - 1) : inbox[j].lobby # inbox[i].lobby
    /\ Me \in steam[inbox[i].lobby].members /\ inbox[i].lobby \notin adrift =>
         /\ steam[inbox[i].lobby].owner = Me
         /\ steam[inbox[i].lobby].members = {Me} \/ Moved(inbox[i].lobby)

\* The game is shown every lobby listed as joined, with the user in it.
ActiveIsShown ==
  \A l \in active : Known(l) /\ data[l].active /\ (Me \in data[l].seen.members \/ l \in adrift)

\* What it is shown is what Steam has, or word of the difference is on its way.
ViewIsCurrent ==
  \A l \in active \ adrift : data[l].seen = GetLobbySnapshot(steam, l, TRUE) \/ NewsOf(l)

\* So is the count that the browser reads of a lobby the user owns.
CountIsCurrent ==
  \A l \in active \ adrift : steam[l].owner = Me =>
    steam[l].count = Cardinality(steam[l].members) \/ Moved(l)

-----------------------------------------------------------------------------
(* Steam's lobbies, step by step.                                          *)

SteamIsFine == steam \in [Lobby -> LobbyType] /\ \A l \in Lobby : Fine(steam[l])

\* No lobby that was opened is unopened again.
StaysBorn == \A l \in Lobby : Born(l) => Born(l)'

\* A step that changes one of Steam's lobbies.
LEMMA OneLobby ==
  ASSUME SteamIsFine, NEW l \in Lobby, NEW r, Fine(r), steam' = [steam EXCEPT ![l] = r]
  PROVE  /\ SteamIsFine' /\ \A k \in Lobby : steam'[k] = IF k = l THEN r ELSE steam[k]
         /\ r.born \/ ~Born(l) => StaysBorn
BY DEF SteamIsFine, Fine, Sound, StaysBorn, Born

\* What members, owner and note become where somebody leaves.
LEMMA GoneFromLobby ==
  ASSUME SteamIsFine, NEW l \in Lobby, NEW u \in Users, NEW r \in Without(steam[l], u)
  PROVE  /\ Fine(r) /\ r.born = steam[l].born /\ r.members = steam[l].members \ {u}
         /\ r.title = steam[l].title /\ r.policy = steam[l].policy
         /\ u \notin steam[l].members => r.owner = steam[l].owner
         /\ u # steam[l].owner => r.owner = steam[l].owner
<1>1. Fine(steam[l]) /\ Sound(steam[l]) BY DEF SteamIsFine, Fine
<1>2. Fine(r) BY <1>1, MembersAreFine
<1>3. /\ r.members = steam[l].members \ {u} /\ r.owner \in Heirs(steam[l], u)
      /\ \A f \in {"born", "title", "policy", "server"} : r[f] = steam[l][f]
  BY <1>1, WithoutKeeps
<1>4. u \notin steam[l].members => r.owner = steam[l].owner
  <2>1. u # None BY ConstantsAssumption DEF Users
  <2> QED BY <1>1, <1>3, <2>1 DEF Heirs, Fine
<1>5. u # steam[l].owner => r.owner = steam[l].owner BY <1>3 DEF Heirs
<1> QED BY <1>2, <1>3, <1>4, <1>5

\* The user leaves a lobby, if logged in.
LEMMA LeavingIsFine ==
  ASSUME SteamIsFine, NEW l \in Lobby, LeaveLobbyImpl(l)
  PROVE  /\ SteamIsFine' /\ StaysBorn
         /\ \A k \in Lobby : k # l => steam'[k] = steam[k]
         /\ login => steam'[l].members = steam[l].members \ {Me}
         /\ ~login => steam' = steam
<1>1. CASE login
  <2>1. PICK r \in Without(steam[l], Me) : steam' = [steam EXCEPT ![l] = r]
    BY <1>1 DEF LeaveLobbyImpl, SteamLeaveLobby
  <2>2. Me \in Users BY DEF Users
  <2>3. Fine(r) /\ r.born = steam[l].born /\ r.members = steam[l].members \ {Me}
    BY <2>1, <2>2, GoneFromLobby
  <2>4. /\ SteamIsFine' /\ \A k \in Lobby : steam'[k] = IF k = l THEN r ELSE steam[k]
        /\ r.born \/ ~Born(l) => StaysBorn
    BY <2>1, <2>3, OneLobby
  <2> QED BY <1>1, <2>3, <2>4 DEF Born
<1>2. CASE ~login
  BY <1>2 DEF LeaveLobbyImpl, SteamIsFine, StaysBorn, Born
<1> QED BY <1>1, <1>2

\* What publishing and binding leave of the lobbies.
LEMMA PublishedIsFine ==
  ASSUME SteamIsFine, NEW l \in Lobby,
         steam' = Published(steam, l) \/ steam' = Published(Bound(steam, l), l)
  PROVE  /\ SteamIsFine' /\ StaysBorn
         /\ \A k \in Lobby : \A f \in {"born", "members", "owner", "title", "policy", "note"} :
              steam'[k][f] = steam[k][f]
         /\ \A k \in Lobby : k # l => steam'[k] = steam[k]
         /\ steam[l].owner = Me => steam'[l].count = Cardinality(steam[l].members)
<1>1. steam \in [Lobby -> LobbyType] /\ \A k \in Lobby : Sound(steam[k])
  BY DEF SteamIsFine, Fine
<1>2. PICK s \in [Lobby -> LobbyType] :
        /\ \A k \in Lobby : Sound(s[k])
        /\ \A k \in Lobby : \A f \in {"born", "members", "owner", "count", "title", "policy", "note"} :
             s[k][f] = steam[k][f]
        /\ \A k \in Lobby : k # l => s[k] = steam[k]
        /\ steam' = Published(s, l)
  <2>1. CASE steam' = Published(steam, l) BY <1>1, <2>1
  <2>2. CASE steam' = Published(Bound(steam, l), l)
    <3>1. PICK s : s = Bound(steam, l) OBVIOUS
    <3> QED BY <1>1, <2>2, <3>1, BoundKeeps
  <2> QED BY <2>1, <2>2
<1>3. /\ steam' \in [Lobby -> LobbyType] /\ \A k \in Lobby : Sound(steam'[k])
      /\ \A k \in Lobby : \A f \in {"born", "members", "owner", "title", "policy", "note"} :
           steam'[k][f] = s[k][f]
      /\ \A k \in Lobby : k # l => steam'[k] = s[k]
      /\ s[l].owner = Me => steam'[l].count = Cardinality(s[l].members)
      /\ s[l].owner # Me => steam'[l] = s[l]
  BY <1>2, PublishedKeeps
<1>4. \A k \in Lobby : \A f \in {"born", "members", "owner", "title", "policy", "note"} :
        steam'[k][f] = steam[k][f]
  BY <1>2, <1>3
<1>5. \A k \in Lobby : k # l => steam'[k] = steam[k] BY <1>2, <1>3
<1>6. steam[l].owner = Me => steam'[l].count = Cardinality(steam[l].members) BY <1>2, <1>3
<1>7. steam[l].owner # Me => steam'[l].count = steam[l].count BY <1>2, <1>3
<1>8. Me \notin Peer BY ConstantsAssumption
<1>9. \A k \in Lobby : Fine(steam'[k])
  <2> SUFFICES ASSUME NEW k \in Lobby PROVE Fine(steam'[k])
    OBVIOUS
  <2>1. CASE k # l BY <1>5, <2>1 DEF SteamIsFine
  <2>2. CASE k = l
    <3>1. Fine(steam[l]) BY DEF SteamIsFine
    <3> QED BY <1>3, <1>4, <1>7, <1>8, <2>2, <3>1 DEF Fine
  <2> QED BY <2>1, <2>2
<1> QED BY <1>3, <1>4, <1>5, <1>6, <1>9 DEF SteamIsFine, StaysBorn, Born

\* A join that waits names a lobby, and so does the operation an answer belongs to.
LEMMA AwaitedOperation ==
  ASSUME TypeOK, AnswersAreAwaited
  PROVE  /\ op # None => op \in RequestType /\ login
         /\ op # None /\ op.do = "Join" => op.lobby \in Lobby
         /\ Answered("created") => op # None /\ op.do = "Create" /\ Head(inbox).lobby \in Lobby
         /\ Answered("entered") => op # None /\ op.do = "Join" /\ op.lobby \in Lobby /\ op.lobby = Head(inbox).lobby
         /\ Answered("listed") => op # None /\ op.do = "Find"
         /\ Answered("refused") => op # None
<1>1. op # None => op \in RequestType /\ login BY DEF TypeOK, AnswersAreAwaited
<1>2. op # None /\ op.do = "Join" => op.lobby \in Lobby BY <1>1, RequestShape
<1>3. ASSUME NEW w \in Answers, Answered(w)
      PROVE  1 \in 1..Len(inbox) /\ Head(inbox) = inbox[1] /\ HasAnswer(1) /\ inbox[1].what = w
             /\ call = "answered" /\ op # None
  <2>1. 1 \in 1..Len(inbox) /\ Head(inbox) = inbox[1]
    BY <1>3, Shorter DEF Answered, TypeOK
  <2>2. HasAnswer(1) /\ inbox[1].what = w BY <1>3, <2>1 DEF Answered, HasAnswer
  <2> QED BY <2>1, <2>2 DEF AnswersAreAwaited, TypeOK
<1>4. Answers = {"created", "entered", "refused", "listed"} BY DEF Answers
<1>5. Answered("created") => op # None /\ op.do = "Create" /\ Head(inbox).lobby \in Lobby
  <2>1. Answered("created") => Head(inbox) \in MessageType /\ Head(inbox).what = "created"
    BY HeadMessage
  <2> QED BY <1>3, <1>4, <2>1, MessageShape DEF AnswersAreAwaited
<1>6. Answered("entered") => op # None /\ op.do = "Join" /\ op.lobby = Head(inbox).lobby
  BY <1>3, <1>4 DEF AnswersAreAwaited
<1>7. Answered("listed") => op # None /\ op.do = "Find"
  BY <1>3, <1>4 DEF AnswersAreAwaited
<1>8. Answered("refused") => op # None BY <1>3, <1>4
<1> QED BY <1>1, <1>2, <1>5, <1>6, <1>7, <1>8

\* The lobby of the operation at the head of the queue.
LEMMA HeadLobby ==
  ASSUME TypeOK, NEW do, do \notin {"Create", "Find", "Logout"}, Runs(do)
  PROVE  Head(queue) \in RequestType /\ Head(queue).lobby \in Lobby
BY HeadRequest, RequestShape DEF Runs, Idle

\* Every step leaves Steam's lobbies fine, and those that were opened open.
LEMMA SteamStaysFine ==
  ASSUME TypeOK, SteamIsFine, AnswersAreAwaited, [Next]_vars
  PROVE  SteamIsFine' /\ StaysBorn
<1> DEFINE Goal == SteamIsFine' /\ StaysBorn
<1>1. ASSUME UNCHANGED steam PROVE Goal
  BY <1>1 DEF SteamIsFine, StaysBorn, Born
<1>2. ASSUME NEW l \in Lobby, NEW r, Fine(r), r.born \/ ~Born(l), steam' = [steam EXCEPT ![l] = r] PROVE Goal
  BY <1>2, OneLobby
<1>3. ASSUME NEW l \in Lobby, LeaveLobbyImpl(l) PROVE Goal
  BY <1>3, LeavingIsFine
<1>4. ASSUME NEW l \in Lobby PROVE Fine(steam[l]) /\ steam[l] \in LobbyType
  BY DEF SteamIsFine
<1>5. ASSUME NEW l \in Lobby, LeaveLobbyDuringJoin(l) PROVE Goal
  BY <1>3, <1>5 DEF LeaveLobbyDuringJoin
<1> HIDE DEF Goal
<1>6. CASE LeaveLobby
  <2>1. Head(queue).lobby \in Lobby /\ LeaveLobbyImpl(Head(queue).lobby)
    BY <1>6, HeadLobby DEF LeaveLobby
  <2> QED BY <1>3, <2>1 DEF Goal
<1>7. CASE PromoteLobbyMember
  <2>1. Head(queue).lobby \in Lobby /\ MayPromote(Head(queue))
    BY <1>7, HeadLobby, AdmittedMeans DEF PromoteLobbyMember, Runs
  <2> DEFINE l == Head(queue).lobby
             r == Counted([steam[l] EXCEPT !.owner = Head(queue).who])
  <2>2. steam' = [steam EXCEPT ![l] = r] BY <1>7 DEF PromoteLobbyMember
  <2>3. Head(queue).who \in steam[l].members BY <2>1 DEF MayPromote, SetLobbyOwner
  <2>4. Fine(r) /\ r.members = steam[l].members BY <1>4, <2>1, <2>3, PromotedIsFine
  <2>5. r.born BY <2>3, <2>4 DEF Fine
  <2> HIDE DEF l, r
  <2> QED BY <1>2, <2>1, <2>2, <2>4, <2>5 DEF Goal, l
<1>c. ASSUME NEW l \in Lobby
      PROVE  /\ Fine([steam[l] EXCEPT !.title = 1 - @]) /\ [steam[l] EXCEPT !.title = 1 - @].born = steam[l].born
             /\ Fine([steam[l] EXCEPT !.policy = 1 - @]) /\ [steam[l] EXCEPT !.policy = 1 - @].born = steam[l].born
             /\ Fine([steam[l] EXCEPT !.note = 1 - @]) /\ [steam[l] EXCEPT !.note = 1 - @].born = steam[l].born
  BY <1>4, ChangedIsFine DEF LobbyType
<1>8. CASE ModifyLobbyAttributes
  <2>1. Head(queue).lobby \in Lobby BY <1>8, HeadLobby DEF ModifyLobbyAttributes
  <2>2. steam' = [steam EXCEPT ![Head(queue).lobby] = [steam[Head(queue).lobby] EXCEPT !.title = 1 - @]]
    BY <1>8 DEF ModifyLobbyAttributes, UpdateLobbyData
  <2> QED BY <1>2, <1>c, <2>1, <2>2 DEF Goal, Born
<1>9. CASE ModifyLobbyJoinPolicy
  <2>1. Head(queue).lobby \in Lobby BY <1>9, HeadLobby DEF ModifyLobbyJoinPolicy
  <2>2. steam' = [steam EXCEPT ![Head(queue).lobby] = [steam[Head(queue).lobby] EXCEPT !.policy = 1 - @]]
    BY <1>9 DEF ModifyLobbyJoinPolicy, UpdateLobbyData
  <2> QED BY <1>2, <1>c, <2>1, <2>2 DEF Goal, Born
<1>10. CASE ModifyLobbyMemberAttributes
  <2>1. Head(queue).lobby \in Lobby BY <1>10, HeadLobby DEF ModifyLobbyMemberAttributes
  <2>2. \/ steam' = [steam EXCEPT ![Head(queue).lobby] = [steam[Head(queue).lobby] EXCEPT !.note = 1 - @]]
        \/ UNCHANGED steam
    BY <1>10 DEF ModifyLobbyMemberAttributes
  <2> QED BY <1>1, <1>2, <1>c, <2>1, <2>2 DEF Goal, Born
<1>11. CASE CreateFails
  <2>1. Head(inbox).lobby \in Lobby BY <1>11, AwaitedOperation DEF CreateFails
  <2> DEFINE l == Head(inbox).lobby
  <2>2. PICK x \in Without(steam[l], Me) : steam' = [steam EXCEPT ![l] = [x EXCEPT !.policy = 1]]
    BY <1>11 DEF CreateFails, SteamDestroyLobby
  <2>3. Fine(x) /\ x.born = steam[l].born BY <2>1, GoneFromLobby DEF Users
  <2>4. Fine([x EXCEPT !.policy = 1]) /\ [x EXCEPT !.policy = 1].born = x.born
    BY <2>3, ChangedIsFine DEF Fine, Sound, LobbyType
  <2> HIDE DEF l
  <2> QED BY <1>2, <2>1, <2>2, <2>3, <2>4 DEF Goal, Born, l
<1>12. CASE CreateSucceeds
  <2>1. Head(inbox).lobby \in Lobby BY <1>12, AwaitedOperation DEF CreateSucceeds
  <2> QED BY <1>12, <2>1, PublishedIsFine DEF CreateSucceeds, Goal
<1>13. CASE JoinSucceeds
  <2>1. op.lobby \in Lobby BY <1>13, AwaitedOperation DEF JoinSucceeds
  <2> QED BY <1>13, <2>1, PublishedIsFine DEF JoinSucceeds, Goal
<1>14. CASE JoinFails
  <2>1. op.lobby \in Lobby BY <1>14, AwaitedOperation DEF JoinFails
  <2>2. LeaveLobbyDuringJoin(op.lobby) BY <1>14 DEF JoinFails
  <2> QED BY <1>5, <2>1, <2>2 DEF Goal
<1>15. CASE CallRefused
  <2>1. op # None BY <1>15, AwaitedOperation DEF CallRefused
  <2>2. CASE op.do = "Join"
    <3>1. op.lobby \in Lobby BY <2>1, <2>2, AwaitedOperation
    <3>2. LeaveLobbyDuringJoin(op.lobby) BY <1>15, <2>2 DEF CallRefused
    <3> QED BY <1>5, <3>1, <3>2 DEF Goal
  <2>3. CASE op.do # "Join"
    BY <1>1, <1>15, <2>3 DEF CallRefused, Goal
  <2> QED BY <2>2, <2>3
<1>16. CASE TimesOut
  <2>1. CASE op.do = "Join"
    <3>1. op.lobby \in Lobby BY <1>16, <2>1, AwaitedOperation DEF TimesOut
    <3>2. LeaveLobbyDuringJoin(op.lobby) BY <1>16, <2>1 DEF TimesOut
    <3> QED BY <1>5, <3>1, <3>2 DEF Goal
  <2>2. CASE op.do # "Join"
    BY <1>1, <1>16, <2>2 DEF TimesOut, Goal
  <2> QED BY <2>1, <2>2
<1>17. CASE MembershipChanged
  <2>1. PICK w \in {"came", "left"} : Answered(w) BY <1>17 DEF MembershipChanged
  <2>2. Head(inbox).lobby \in Lobby BY <2>1, HeadMessage, MessageShape
  <2>3. steam' = Published(steam, Head(inbox).lobby) \/ UNCHANGED steam
    BY <1>17 DEF MembershipChanged
  <2> QED BY <1>1, <2>2, <2>3, PublishedIsFine DEF Goal
<1>18. CASE LocalUserKicked
  <2>1. Head(inbox).lobby \in Lobby /\ LeaveLobbyImpl(Head(inbox).lobby)
    BY <1>18, HeadMessage, MessageShape DEF LocalUserKicked
  <2> QED BY <1>3, <2>1 DEF Goal
<1>19. ASSUME NEW l \in Lobby, SteamCreates(l) PROVE Goal
  <2>1. Me \in Users BY DEF Users
  <2> QED BY <1>2, <1>19, <2>1, OpenedIsFine DEF SteamCreates, Goal
<1>20. CASE SteamLetsIn
  <2>1. op # None /\ op.do = "Join" /\ op.lobby \in Lobby BY <1>20, AwaitedOperation DEF SteamLetsIn
  <2>2. Me \in Users BY DEF Users
  <2>3. /\ steam' = [steam EXCEPT ![op.lobby] = With(steam[op.lobby], Me)]
        /\ steam[op.lobby].members # {}
    BY <1>20 DEF SteamLetsIn
  <2>4. Fine(With(steam[op.lobby], Me)) /\ With(steam[op.lobby], Me).born = steam[op.lobby].born
    BY <1>4, <2>1, <2>2, <2>3, MembersAreFine, WithKeeps DEF Fine
  <2> QED BY <1>2, <2>1, <2>3, <2>4 DEF Goal, Born
<1>21. ASSUME NEW r \in late, SteamIsLate(r) PROVE Goal
  <2>1. Me \in Users BY DEF Users
  <2>2. PICK l \in Lobby :
          \/ ~Born(l) /\ steam' = [steam EXCEPT ![l] = Opened(Me)]
          \/ steam[l].members # {} /\ steam' = [steam EXCEPT ![l] = With(steam[l], Me)]
    BY <1>21 DEF SteamIsLate
  <2>3. CASE ~Born(l) /\ steam' = [steam EXCEPT ![l] = Opened(Me)]
    BY <1>2, <2>1, <2>3, OpenedIsFine DEF Goal
  <2>4. CASE steam[l].members # {} /\ steam' = [steam EXCEPT ![l] = With(steam[l], Me)]
    <3>1. Fine(With(steam[l], Me)) /\ With(steam[l], Me).born = steam[l].born
      BY <1>4, <2>1, <2>4, MembersAreFine, WithKeeps DEF Fine
    <3> QED BY <1>2, <2>4, <3>1 DEF Goal, Born
  <2> QED BY <2>2, <2>3, <2>4
<1>22. CASE OnListenAddressChanged
  <2>1. /\ steam' = [l \in Lobby |-> IF l \in active /\ steam[l].owner = Me
                                     THEN [steam[l] EXCEPT !.server = TRUE] ELSE steam[l]]
    BY <1>22 DEF OnListenAddressChanged, SetLobbyGameServer
  <2>2. \A l \in Lobby : Fine(steam'[l]) /\ steam'[l].born = steam[l].born
    BY <1>4, <2>1, ChangedIsFine DEF LobbyType
  <2> QED BY <2>1, <2>2 DEF Goal, SteamIsFine, StaysBorn, Born, Fine, Sound
<1>23. ASSUME NEW l \in Lobby, NEW p \in Peer, PeerEnters(l, p) PROVE Goal
  <2>1. p \in Users BY DEF Users
  <2>2. steam[l].members # {} /\ steam' = [steam EXCEPT ![l] = With(steam[l], p)]
    BY <1>23 DEF PeerEnters
  <2>3. Fine(With(steam[l], p)) /\ With(steam[l], p).born = steam[l].born
    BY <1>4, <2>1, <2>2, MembersAreFine, WithKeeps DEF Fine
  <2> QED BY <1>2, <2>2, <2>3 DEF Goal, Born
<1>24. ASSUME NEW l \in Lobby, NEW u \in Users,
              \E r \in Without(steam[l], u) : steam' = [steam EXCEPT ![l] = r] PROVE Goal
  BY <1>2, <1>24, GoneFromLobby DEF Goal, Born
<1>25. ASSUME NEW l \in Lobby, NEW p \in Peer, PeerPromotes(l, p) PROVE Goal
  <2>1. Me \in steam[l].members /\ steam' = [steam EXCEPT ![l] = [steam[l] EXCEPT !.owner = Me]]
    BY <1>25 DEF PeerPromotes
  <2>2. Fine([steam[l] EXCEPT !.owner = Me]) /\ [steam[l] EXCEPT !.owner = Me].born = steam[l].born
    BY <1>4, <2>1, PromotedIsFine DEF LobbyType
  <2> QED BY <1>2, <2>1, <2>2 DEF Goal, Born
<1>26. ASSUME NEW l \in Lobby, NEW p \in Peer, PeerModifies(l, p) PROVE Goal
  BY <1>2, <1>26, <1>c DEF PeerModifies, Goal, Born
<1>27. ASSUME NEW l \in Lobby, NEW p \in Peer, PeerLeaves(l, p) PROVE Goal
  <2>1. p \in Users BY DEF Users
  <2> QED BY <1>24, <1>27, <2>1 DEF PeerLeaves
<1>28. ASSUME NEW l \in Lobby, SteamDropsMe(l) PROVE Goal
  <2>1. Me \in Users BY DEF Users
  <2> QED BY <1>24, <1>28, <2>1 DEF SteamDropsMe
<1>29. Goal
  BY <1>1, <1>6, <1>7, <1>8, <1>9, <1>10, <1>11, <1>12, <1>13, <1>14, <1>15, <1>16, <1>17, <1>18,
     <1>19, <1>20, <1>21, <1>22, <1>23, <1>25, <1>26, <1>27, <1>28
  DEF Next, Runner, Dispatcher, SteamAnswers, Outside, TurnedAway, KickLobbyMember, ModifyRefused,
      InviteLobbyMember, DeclineLobbyInvitation, ProcessNotification, Logout, AskCreate, AskJoin,
      FindLobbies, CreateUnprepared, SearchAnswered, DataChanged, KickIgnored, InviteReceived,
      JoinRequested, SteamSearches, SteamRefuses, GameAsks, UserJoins, PeerInvites, PeerKicks, vars, Goal
<1> QED BY <1>29 DEF Goal

-----------------------------------------------------------------------------
(* What is known here, step by step.                                       *)

\* What Steam shows of a lobby: all to a member, the title and the policy to anybody.
LEMMA SnapshotShows ==
  ASSUME SteamIsFine, NEW l \in Lobby
  PROVE  /\ \A b \in BOOLEAN : GetLobbySnapshot(steam, l, b) \in SeenType
         /\ Me \in steam[l].members => Me \in GetLobbySnapshot(steam, l, TRUE).members
         /\ Me \notin steam[l].members =>
              \A b \in BOOLEAN : GetLobbySnapshot(steam, l, b).members = {}
         /\ steam[l].owner = Me => Me \in GetLobbySnapshot(steam, l, FALSE).members
         /\ steam[l].owner = Me /\ steam[l].members = {Me} =>
              GetLobbySnapshot(steam, l, FALSE) = GetLobbySnapshot(steam, l, TRUE)
<1> DEFINE m == steam[l].members
           o == steam[l].owner
           t == steam[l].title
           p == steam[l].policy
           n == steam[l].note
           Seen(x, y, z) == [members |-> x, owner |-> y, title |-> t, policy |-> p, note |-> z]
<1>1. Fine(steam[l]) /\ steam[l] \in LobbyType BY DEF SteamIsFine
<1>2. Me \in Users /\ Me # None /\ None \notin Users BY ConstantsAssumption DEF Users
<1>3. m \subseteq Users /\ t \in 0..1 /\ p \in 0..1 /\ n \in 0..1 BY <1>1 DEF LobbyType
<1>4. (m # {} => o \in m) /\ (o = Me => Me \in m) BY <1>1, <1>2 DEF Fine
<1>5. Me \in m => /\ GetLobbySnapshot(steam, l, TRUE) = Seen(m, o, n)
                  /\ GetLobbySnapshot(steam, l, FALSE) = Seen({o}, o, n)
  <2> SUFFICES ASSUME Me \in m
               PROVE  /\ GetLobbySnapshot(steam, l, TRUE) = Seen(m, o, n)
                      /\ GetLobbySnapshot(steam, l, FALSE) = Seen({o}, o, n)
    OBVIOUS
  <2>1. o # None /\ m # {} BY <1>2, <1>3, <1>4
  <2> QED BY <2>1 DEF GetLobbySnapshot, SteamShows
<1>6. Me \notin m => \A b \in BOOLEAN : GetLobbySnapshot(steam, l, b) = Seen({}, None, 0)
  BY DEF GetLobbySnapshot, SteamShows
<1> HIDE DEF m, o, t, p, n
<1>7. ASSUME NEW x \in SUBSET Users, NEW y \in Users \cup {None}, NEW z \in 0..1
      PROVE  Seen(x, y, z) \in SeenType /\ Seen(x, y, z).members = x
  BY <1>3 DEF SeenType
<1> HIDE DEF Seen
<1>8. CASE Me \in m
  <2>1. o \in Users /\ {o} \in SUBSET Users /\ m \in SUBSET Users BY <1>3, <1>4, <1>8
  <2>2. Seen(m, o, n) \in SeenType /\ Seen(m, o, n).members = m BY <1>3, <1>7, <2>1
  <2>3. Seen({o}, o, n) \in SeenType /\ Seen({o}, o, n).members = {o} BY <1>3, <1>7, <2>1
  <2>4. \A b \in BOOLEAN : b = TRUE \/ b = FALSE OBVIOUS
  <2>5. \A b \in BOOLEAN : GetLobbySnapshot(steam, l, b) \in SeenType BY <1>5, <1>8, <2>2, <2>3, <2>4
  <2>6. Me \in GetLobbySnapshot(steam, l, TRUE).members BY <1>5, <1>8, <2>2
  <2>7. o = Me => Me \in GetLobbySnapshot(steam, l, FALSE).members BY <1>5, <1>8, <2>3
  <2>8. o = Me /\ m = {Me} => GetLobbySnapshot(steam, l, FALSE) = GetLobbySnapshot(steam, l, TRUE)
    BY <1>5, <1>8
  <2> QED BY <1>8, <2>5, <2>6, <2>7, <2>8 DEF m, o
<1>9. CASE Me \notin m
  <2>1. {} \in SUBSET Users /\ None \in Users \cup {None} /\ 0 \in 0..1 OBVIOUS
  <2>2. Seen({}, None, 0) \in SeenType /\ Seen({}, None, 0).members = {} BY <1>7, <2>1
  <2>3. \A b \in BOOLEAN : GetLobbySnapshot(steam, l, b) \in SeenType BY <1>6, <1>9, <2>2
  <2>4. \A b \in BOOLEAN : GetLobbySnapshot(steam, l, b).members = {} BY <1>6, <1>9, <2>2
  <2> QED BY <1>4, <1>9, <2>3, <2>4 DEF m, o
<1> QED BY <1>8, <1>9

DataTyped(d) == d \in [Lobby -> DataType \cup {Unknown}]

OnlyAt(e, d, l)        == \A k \in Lobby : k # l => e[k] = d[k]
Filed(d, l)            == FiledAs(d, steam, l, FALSE)
IsFiled(e, d, l)       == e = Filed(d, l)
IsFiledActive(e, d, l) == e = FiledAs(d, steam, l, TRUE)
IsRefreshed(e, d, l)   == e = Refreshed(d, steam, l)

\* What is filed of a lobby: what is there stays, what is not is read.
LEMMA FiledKeeps ==
  ASSUME SteamIsFine, NEW d, DataTyped(d), NEW l \in Lobby, NEW e, IsFiled(e, d, l)
  PROVE  /\ DataTyped(e)
         /\ OnlyAt(e, d, l)
         /\ e[l] \in DataType /\ (d[l] # Unknown => e[l].active = d[l].active)
         /\ d[l] = Unknown => e[l].seen = GetLobbySnapshot(steam, l, FALSE)
         /\ d[l] # Unknown => e[l].seen = d[l].seen
<1>1. GetLobbySnapshot(steam, l, FALSE) \in SeenType BY SnapshotShows
<1> DEFINE x == WithDetails(IF d[l] = Unknown THEN NewData(steam, l) ELSE d[l], FALSE)
<1>2. /\ x \in DataType /\ (d[l] # Unknown => x.active = d[l].active)
      /\ d[l] = Unknown => x.seen = GetLobbySnapshot(steam, l, FALSE)
      /\ d[l] # Unknown => x.seen = d[l].seen
  <2>1. CASE d[l] = Unknown BY <1>1, <2>1 DEF WithDetails, NewData, DataType
  <2>2. CASE d[l] # Unknown
    <3>1. d[l] \in DataType BY <2>2 DEF DataTyped
    <3> QED BY <2>2, <3>1 DEF WithDetails, DataType
  <2> QED BY <2>1, <2>2
<1>3. e = [d EXCEPT ![l] = x] BY DEF FiledAs, IsFiled, Filed
<1> HIDE DEF x
<1> QED BY <1>2, <1>3 DEF DataTyped, OnlyAt

\* The details of a lobby that is joined are the best there are.
LEMMA FiledActiveKeeps ==
  ASSUME SteamIsFine, NEW d, DataTyped(d), NEW l \in Lobby, NEW e, IsFiledActive(e, d, l)
  PROVE  /\ DataTyped(e)
         /\ OnlyAt(e, d, l)
         /\ e[l] \in DataType /\ e[l].active = TRUE
         /\ d[l] = Unknown => e[l].seen = GetLobbySnapshot(steam, l, FALSE)
         /\ d[l] # Unknown => e[l].seen = d[l].seen
<1>1. GetLobbySnapshot(steam, l, FALSE) \in SeenType BY SnapshotShows
<1> DEFINE x == WithDetails(IF d[l] = Unknown THEN NewData(steam, l) ELSE d[l], TRUE)
<1>2. /\ x \in DataType /\ x.active = TRUE
      /\ d[l] = Unknown => x.seen = GetLobbySnapshot(steam, l, FALSE)
      /\ d[l] # Unknown => x.seen = d[l].seen
  <2>1. CASE d[l] = Unknown BY <1>1, <2>1 DEF WithDetails, NewData, DataType
  <2>2. CASE d[l] # Unknown
    <3>1. d[l] \in DataType BY <2>2 DEF DataTyped
    <3> QED BY <2>2, <3>1 DEF WithDetails, DataType
  <2> QED BY <2>1, <2>2
<1>3. e = [d EXCEPT ![l] = x] BY DEF FiledAs, IsFiledActive
<1> HIDE DEF x
<1> QED BY <1>2, <1>3 DEF DataTyped, OnlyAt

\* What is read again of a lobby that is known.
LEMMA RefreshedKeeps ==
  ASSUME SteamIsFine, NEW d, DataTyped(d), NEW l \in Lobby, d[l] # Unknown,
         NEW e, IsRefreshed(e, d, l)
  PROVE  /\ DataTyped(e)
         /\ OnlyAt(e, d, l)
         /\ e[l] \in DataType /\ e[l].active = d[l].active
         /\ e[l].seen = GetLobbySnapshot(steam, l, TRUE)
<1>1. GetLobbySnapshot(steam, l, TRUE) \in SeenType BY SnapshotShows
<1>2. d[l] \in DataType BY DEF DataTyped
<1> QED BY <1>1, <1>2 DEF DataTyped, Refreshed, DataType, IsRefreshed, OnlyAt

ShownAs(d, l, w) == [d EXCEPT ![l].seen = w]

\* What is shown of a lobby that is known is changed.
LEMMA ShownKeeps ==
  ASSUME NEW d, DataTyped(d), NEW l \in Lobby, d[l] # Unknown, NEW w \in SeenType,
         NEW e, e = ShownAs(d, l, w)
  PROVE  /\ DataTyped(e)
         /\ OnlyAt(e, d, l)
         /\ e[l] \in DataType /\ e[l].active = d[l].active /\ e[l].seen = w
<1>1. d[l] \in DataType BY DEF DataTyped
<1> QED BY <1>1 DEF DataTyped, DataType, ShownAs, OnlyAt

\* What is forgotten is what nobody holds.
LEMMA RegisteredKeeps ==
  ASSUME NEW d, DataTyped(d), Registered(d)
  PROVE  /\ DataTyped(data')
         /\ \A k \in Lobby : data'[k] = IF Held(k)' THEN d[k] ELSE Unknown
         /\ \A k \in active' : k \in Lobby => data'[k] = d[k]
BY DEF Registered, DataTyped, Held

-----------------------------------------------------------------------------
(* The pipe and the queue, step by step.                                   *)

Quiet == UNCHANGED <<inbox, op, call>>
Asks ==
  /\ UNCHANGED <<inbox, login>> /\ op = None /\ login
  /\ op' \in RequestType /\ call' = "asked"
Tells(m) ==
  /\ m.what \notin Answers /\ Born(m.lobby)
  /\ inbox' = Append(inbox, m) /\ UNCHANGED <<op, call>>
Performs(m) ==
  /\ m.what \in Answers /\ inbox' = Append(inbox, m)
  /\ op # None /\ op' = op /\ call = "asked" /\ call' = "answered"
  /\ m.what = "created" => op.do = "Create" /\ SteamCreates(m.lobby)
  /\ m.what = "entered" => op.do = "Join" /\ op.lobby = m.lobby /\ Born(m.lobby)
  /\ m.what = "listed" => op.do = "Find"
Hears ==
  /\ inbox # <<>> /\ inbox' = Tail(inbox) /\ ~HasAnswer(1) /\ UNCHANGED <<op, call>>
  /\ inbox[1].what \in {"came", "left", "data"} /\ Known(inbox[1].lobby) =>
       ProcessLobbyNotification(inbox[1].lobby)
  /\ inbox[1].what \in {"came", "left"} => MembershipChanged
IsAnswered == \E w \in Answers : Answered(w) /\ Over
Expires == op # None /\ Over /\ WithoutAnswer

\* What a message says that is put together.
LEMMA MessageMade ==
  ASSUME NEW l \in Lobby
  PROVE  /\ \A w \in {"created", "entered", "data", "joinme"} :
              /\ Message(w, l, None) \in MessageType
              /\ Message(w, l, None).what = w /\ Message(w, l, None).lobby = l
         /\ \A w \in {"came", "left", "invite", "kick"}, u \in Users :
              /\ Message(w, l, u) \in MessageType
              /\ Message(w, l, u).what = w /\ Message(w, l, u).lobby = l
         /\ \A w \in {"listed", "refused"}, k \in Lobby \cup {None} :
              /\ Message(w, k, None) \in MessageType
              /\ Message(w, k, None).what = w /\ Message(w, k, None).lobby = k
BY DEF Message, MessageType

\* A member is told of something, or nobody is.
LEMMA ToldOrQuiet ==
  ASSUME SteamIsFine, NEW l \in Lobby, NEW w, NEW u, UNCHANGED <<op, call>>,
         \/ w \in {"data", "joinme"} /\ u = None
         \/ w \in {"came", "left", "invite", "kick"} /\ u \in Users,
         \/ Born(l) /\ Tell(w, l, u)
         \/ TellMember(w, l, u)
         \/ steam[l].members # {} /\ Tell(w, l, u)
  PROVE  Quiet \/ \E m \in MessageType : Tells(m)
<1>1. Message(w, l, u) \in MessageType /\ Message(w, l, u).what = w /\ Message(w, l, u).lobby = l
  BY MessageMade
<1>2. w \notin Answers BY DEF Answers
<1>3. steam[l].members # {} => Born(l) BY DEF SteamIsFine, Fine, Born
<1>4. UNCHANGED inbox \/ (Born(l) /\ inbox' = Append(inbox, Message(w, l, u)))
  <2>1. Tell(w, l, u) => inbox' = Append(inbox, Message(w, l, u)) BY DEF Tell
  <2>2. TellMember(w, l, u) => UNCHANGED inbox \/ (steam[l].members # {} /\ Tell(w, l, u))
    <3>1. CASE Me \in steam[l].members
      <4>1. steam[l].members # {} BY <3>1
      <4> QED BY <3>1, <4>1, Zenon DEF TellMember
    <3>2. CASE Me \notin steam[l].members BY <3>2, Zenon DEF TellMember
    <3> QED BY <3>1, <3>2
  <2> QED BY <1>3, <2>1, <2>2
<1> QED BY <1>1, <1>2, <1>4 DEF Quiet, Tells

\* What the game does with what it is told.
LEMMA HeardMeans ==
  ASSUME TypeOK, NEW w, w \notin Answers, Answered(w), UNCHANGED <<op, call>>,
         w \in {"came", "left", "data"} /\ Known(Head(inbox).lobby) => ProcessLobbyNotification(Head(inbox).lobby),
         w \in {"came", "left"} => MembershipChanged
  PROVE  Hears
<1>1. Head(inbox) = inbox[1] BY Shorter DEF Answered, TypeOK
<1> QED BY <1>1 DEF Hears, Answered, HasAnswer

\* What every step does with the pipe and with the operation that waits.
LEMMA PipeStep ==
  ASSUME TypeOK, SteamIsFine, AnswersAreAwaited, [Next]_vars
  PROVE  \/ Quiet \/ Asks \/ Hears \/ IsAnswered \/ Expires
         \/ \E m \in MessageType : Tells(m) \/ Performs(m)
<1> DEFINE Goal == \/ Quiet \/ Asks \/ Hears \/ IsAnswered \/ Expires
                   \/ \E m \in MessageType : Tells(m) \/ Performs(m)
<1>1. ASSUME UNCHANGED <<inbox, op, call>> PROVE Goal BY <1>1 DEF Quiet
<1>2. ASSUME NEW do \in {"Create", "Join", "Find"}, Runs(do), Admitted(Head(queue)), Awaits, UNCHANGED <<inbox, login>>
      PROVE  Goal
  <2>1. login BY <1>2, AdmittedMeans DEF Runs, MayCreate, MayJoin
  <2>2. Head(queue) \in RequestType BY <1>2, HeadRequest DEF Runs, Idle
  <2> QED BY <1>2, <2>1, <2>2 DEF Asks, Awaits, Runs, Idle
<1>3. ASSUME NEW w \in Answers, Answered(w), Over PROVE Goal BY <1>3 DEF IsAnswered
<1>4. ASSUME NEW l \in Lobby, NEW w, NEW u, UNCHANGED <<op, call>>,
             \/ w \in {"data", "joinme"} /\ u = None
             \/ w \in {"came", "left", "invite", "kick"} /\ u \in Users,
             \/ Born(l) /\ Tell(w, l, u)
             \/ TellMember(w, l, u)
             \/ steam[l].members # {} /\ Tell(w, l, u)
      PROVE  Goal
  BY <1>4, ToldOrQuiet
<1>5. ASSUME Hears PROVE Goal BY <1>5
<1>6. ASSUME NEW m \in MessageType, Performs(m) PROVE Goal BY <1>6
<1>7. ASSUME Expires PROVE Goal BY <1>7
<1> SUFFICES Goal OBVIOUS
<1> HIDE DEF Goal
<1>8. CASE TurnedAway \/ LeaveLobby \/ KickLobbyMember \/ ModifyRefused \/ InviteLobbyMember
           \/ DeclineLobbyInvitation \/ ProcessNotification \/ Logout
  BY <1>1, <1>8 DEF TurnedAway, LeaveLobby, KickLobbyMember, ModifyRefused, InviteLobbyMember,
       DeclineLobbyInvitation, ProcessNotification, Logout, Pop
<1>9. CASE PromoteLobbyMember
  <2>1. Head(queue).lobby \in Lobby /\ MayPromote(Head(queue))
    BY <1>9, HeadLobby, AdmittedMeans DEF PromoteLobbyMember, Runs
  <2>2. steam[Head(queue).lobby].members # {} BY <2>1 DEF MayPromote, SetLobbyOwner
  <2>3. Tell("data", Head(queue).lobby, None) /\ UNCHANGED <<op, call>> BY <1>9 DEF PromoteLobbyMember, Pop
  <2> QED BY <1>4, <2>1, <2>2, <2>3
<1>10. CASE ModifyLobbyAttributes \/ ModifyLobbyJoinPolicy
  <2>1. Head(queue).lobby \in Lobby
    BY <1>10, HeadLobby DEF ModifyLobbyAttributes, ModifyLobbyJoinPolicy
  <2>2. Tell("data", Head(queue).lobby, None) /\ steam[Head(queue).lobby].owner = Me /\ UNCHANGED <<op, call>>
    BY <1>10 DEF ModifyLobbyAttributes, ModifyLobbyJoinPolicy, UpdateLobbyData, Pop
  <2>3. steam[Head(queue).lobby].members # {}
    BY <2>1, <2>2, ConstantsAssumption DEF SteamIsFine, Fine
  <2> QED BY <1>4, <2>1, <2>2, <2>3
<1>11. CASE ModifyLobbyMemberAttributes
  <2>1. Head(queue).lobby \in Lobby BY <1>11, HeadLobby DEF ModifyLobbyMemberAttributes
  <2>2. UNCHANGED <<op, call>> BY <1>11 DEF ModifyLobbyMemberAttributes, Pop
  <2>3. CASE Me \in steam[Head(queue).lobby].members
    <3>1. Tell("data", Head(queue).lobby, None) BY <1>11, <2>3, Zenon DEF ModifyLobbyMemberAttributes
    <3> QED BY <1>4, <2>1, <2>2, <2>3, <3>1
  <2>4. CASE Me \notin steam[Head(queue).lobby].members
    <3>1. UNCHANGED inbox BY <1>11, <2>4 DEF ModifyLobbyMemberAttributes
    <3> QED BY <1>1, <2>2, <3>1
  <2> QED BY <2>3, <2>4
<1>12. CASE AskCreate \/ AskJoin \/ FindLobbies
  BY <1>2, <1>12 DEF AskCreate, AskJoin, FindLobbies
<1>13. CASE CreateFails \/ CreateUnprepared \/ CreateSucceeds \/ CallRefused \/ JoinFails \/ JoinSucceeds \/ SearchAnswered
  <2>1. \E w \in {"created", "entered", "refused", "listed"} : Answered(w) /\ Over
    BY <1>13 DEF CreateFails, CreateUnprepared, CreateSucceeds, CallRefused, JoinFails, JoinSucceeds,
         SearchAnswered, LeaveLobbyDuringJoin
  <2> QED BY <1>3, <2>1 DEF Answers
<1>14. CASE TimesOut
  BY <1>7, <1>14 DEF TimesOut, LeaveLobbyDuringJoin, Expires
<1>15. CASE MembershipChanged
  <2>1. PICK w \in {"came", "left"} : Answered(w) BY <1>15 DEF MembershipChanged
  <2>2. w \notin Answers BY DEF Answers
  <2>3. UNCHANGED <<op, call>> /\ (Known(Head(inbox).lobby) => ProcessLobbyNotification(Head(inbox).lobby))
    BY <1>15 DEF MembershipChanged
  <2> QED BY <1>5, <1>15, <2>1, <2>2, <2>3, HeardMeans
<1>16. CASE DataChanged
  <2>1. Answered("data") /\ "data" \notin Answers BY <1>16 DEF DataChanged, Answers
  <2>3. UNCHANGED <<op, call>> /\ (Known(Head(inbox).lobby) => ProcessLobbyNotification(Head(inbox).lobby))
    BY <1>16 DEF DataChanged
  <2> QED BY <1>5, <2>1, <2>3, HeardMeans
<1>17. CASE LocalUserKicked \/ KickIgnored \/ InviteReceived \/ JoinRequested
  <2>1. PICK w \in {"kick", "invite", "joinme"} : Answered(w)
    BY <1>17 DEF LocalUserKicked, KickIgnored, InviteReceived, JoinRequested
  <2>2. w \notin Answers /\ w \notin {"came", "left", "data"} BY DEF Answers
  <2>3. UNCHANGED <<op, call>>
    BY <1>17 DEF LocalUserKicked, KickIgnored, InviteReceived, JoinRequested, work
  <2> QED BY <1>5, <2>1, <2>2, <2>3, HeardMeans
<1>18. ASSUME NEW l \in Lobby, SteamCreates(l) PROVE Goal
  <2> DEFINE m == Message("created", l, None)
  <2>1. m \in MessageType /\ m.what = "created" /\ m.lobby = l BY MessageMade
  <2>2. /\ inbox' = Append(inbox, m) /\ call = "asked" /\ call' = "answered" /\ op' = op
        /\ op # None /\ op.do = "Create"
    BY <1>18 DEF SteamCreates, Performed, Tell
  <2> HIDE DEF m
  <2> QED BY <1>6, <1>18, <2>1, <2>2 DEF Performs, Answers
<1>19. CASE SteamLetsIn
  <2>1. op.lobby \in Lobby BY <1>19, AwaitedOperation DEF SteamLetsIn
  <2> DEFINE m == Message("entered", op.lobby, None)
  <2>2. m \in MessageType /\ m.what = "entered" /\ m.lobby = op.lobby BY <2>1, MessageMade
  <2>3. /\ inbox' = Append(inbox, m) /\ call = "asked" /\ call' = "answered" /\ op' = op
        /\ op # None /\ op.do = "Join" /\ steam[op.lobby].members # {}
    BY <1>19 DEF SteamLetsIn, Performed, Tell
  <2>4. Born(op.lobby) BY <2>1, <2>3 DEF SteamIsFine, Fine, Born
  <2> HIDE DEF m
  <2> QED BY <1>6, <2>2, <2>3, <2>4 DEF Performs, Answers
<1>20. CASE SteamSearches
  <2> DEFINE m == Message("listed", None, None)
  <2>2. m \in MessageType /\ m.what = "listed" /\ m.lobby = None BY DEF Message, MessageType
  <2>3. /\ inbox' = Append(inbox, m) /\ call = "asked" /\ call' = "answered" /\ op' = op
        /\ op # None /\ op.do = "Find"
    BY <1>20 DEF SteamSearches, Performed, Tell
  <2> HIDE DEF m
  <2> QED BY <1>6, <2>2, <2>3 DEF Performs, Answers
<1>21. CASE SteamRefuses
  <2>1. op.lobby \in Lobby \cup {None} BY <1>21, AwaitedOperation, RequestShape DEF SteamRefuses
  <2> DEFINE m == Message("refused", op.lobby, None)
  <2>2. m \in MessageType /\ m.what = "refused" /\ m.lobby = op.lobby BY <2>1 DEF Message, MessageType
  <2>3. /\ inbox' = Append(inbox, m) /\ call = "asked" /\ call' = "answered" /\ op' = op /\ op # None
    BY <1>21 DEF SteamRefuses, Performed, Tell
  <2> HIDE DEF m
  <2> QED BY <1>6, <2>2, <2>3 DEF Performs, Answers
<1>22. ASSUME NEW r, SteamIsLate(r) \/ GameAsks(r) \/ OnListenAddressChanged PROVE Goal
  BY <1>1, <1>22 DEF SteamIsLate, GameAsks, OnListenAddressChanged, work
<1>23. ASSUME NEW l \in Lobby, SteamDropsMe(l) \/ UserJoins(l) PROVE Goal
  <2>1. Me \in Users BY DEF Users
  <2>2. UNCHANGED <<op, call>> BY <1>23 DEF SteamDropsMe, UserJoins, OutsideOnly, work
  <2>3. \/ steam[l].members # {} /\ Tell("left", l, Me)
        \/ Born(l) /\ Tell("joinme", l, None)
    BY <1>23 DEF SteamDropsMe, UserJoins
  <2> QED BY <1>4, <2>1, <2>2, <2>3
<1>24. ASSUME NEW l \in Lobby, NEW p \in Peer,
              PeerEnters(l, p) \/ PeerLeaves(l, p) \/ PeerInvites(l, p) \/ PeerKicks(l, p)
              \/ PeerPromotes(l, p) \/ PeerModifies(l, p)
       PROVE  Goal
  <2>1. p \in Users BY DEF Users
  <2>2. UNCHANGED <<op, call>>
    BY <1>24 DEF PeerEnters, PeerLeaves, PeerInvites, PeerKicks, PeerPromotes, PeerModifies, OutsideOnly, work
  <2>3. \/ TellMember("came", l, p) \/ TellMember("left", l, p) \/ TellMember("data", l, None)
        \/ steam[l].members # {} /\ (Tell("invite", l, p) \/ Tell("kick", l, p) \/ Tell("data", l, None))
    BY <1>24 DEF PeerEnters, PeerLeaves, PeerInvites, PeerKicks, PeerPromotes, PeerModifies
  <2> QED BY <1>4, <2>1, <2>2, <2>3
<1>25. Goal
  <2>1. CASE UNCHANGED vars BY <1>1, <2>1 DEF vars, work
  <2>2. CASE Runner BY <1>8, <1>9, <1>10, <1>11, <1>12, <2>2 DEF Runner
  <2>3. CASE Dispatcher BY <1>13, <1>15, <1>16, <1>17, <2>3 DEF Dispatcher
  <2>4. CASE SteamAnswers BY <1>18, <1>19, <1>20, <1>21, <1>22, <2>4 DEF SteamAnswers
  <2>5. CASE Outside BY <1>22, <1>23, <1>24, <2>5 DEF Outside
  <2> QED BY <1>14, <2>1, <2>2, <2>3, <2>4, <2>5 DEF Next
<1> QED BY <1>25

\* What is filed for the queue when Steam tells of a lobby.
LEMMA NotificationMade ==
  ASSUME NEW l \in Lobby
  PROVE  /\ Request("Notify", l, None, FALSE) \in RequestType
         /\ Request("Notify", l, None, FALSE).do = "Notify"
         /\ Request("Notify", l, None, FALSE).lobby = l
BY DEF Request, RequestType

\* The operation at the head is done with, and a notification is not passed over.
IsPopped ==
  /\ op = None /\ queue # <<>> /\ queue' = Tail(queue)
  /\ Head(queue).do = "Notify" => TurnedAway \/ ProcessNotification

\* What every step does with the queue.
LEMMA QueueStep ==
  ASSUME TypeOK, [Next]_vars
  PROVE  \/ UNCHANGED queue \/ IsPopped
         \/ \E r \in RequestType : queue' = Append(queue, r)
<1> DEFINE Goal == \/ UNCHANGED queue \/ IsPopped
                   \/ \E r \in RequestType : queue' = Append(queue, r)
<1>1. ASSUME UNCHANGED queue PROVE Goal BY <1>1
<1>2. ASSUME NEW r \in RequestType, queue' = Append(queue, r) PROVE Goal BY <1>2
<1>3. ASSUME Idle, queue' = Tail(queue), Head(queue).do # "Notify" PROVE Goal
  BY <1>3 DEF Idle, IsPopped
<1>4. ASSUME NEW l \in Lobby, ProcessLobbyNotification(l) PROVE Goal
  BY <1>4, NotificationMade DEF ProcessLobbyNotification
<1>5. ASSUME Idle, queue' = Tail(queue), TurnedAway \/ ProcessNotification PROVE Goal
  BY <1>5 DEF Idle, IsPopped
<1> SUFFICES Goal OBVIOUS
<1> HIDE DEF Goal
<1>6. CASE LeaveLobby \/ KickLobbyMember \/ PromoteLobbyMember \/ ModifyLobbyAttributes
           \/ ModifyLobbyJoinPolicy \/ ModifyLobbyMemberAttributes \/ ModifyRefused
           \/ InviteLobbyMember \/ DeclineLobbyInvitation \/ Logout \/ AskCreate \/ AskJoin \/ FindLobbies
  BY <1>3, <1>6 DEF LeaveLobby, KickLobbyMember, PromoteLobbyMember, ModifyLobbyAttributes,
       ModifyLobbyJoinPolicy, ModifyLobbyMemberAttributes, ModifyRefused, Modifies,
       InviteLobbyMember, DeclineLobbyInvitation, Logout, AskCreate, AskJoin, FindLobbies, Runs, Pop, Awaits
<1>7. CASE TurnedAway \/ ProcessNotification
  BY <1>5, <1>7 DEF TurnedAway, ProcessNotification, Runs, Pop
<1>8. CASE CreateFails \/ CreateUnprepared \/ CreateSucceeds \/ CallRefused \/ JoinFails \/ JoinSucceeds
           \/ SearchAnswered \/ TimesOut
  BY <1>1, <1>8 DEF CreateFails, CreateUnprepared, CreateSucceeds, CallRefused, JoinFails, JoinSucceeds,
       SearchAnswered, TimesOut, LeaveLobbyDuringJoin, Over
<1>9. CASE MembershipChanged \/ DataChanged
  <2>1. PICK w \in {"came", "left", "data"} : Answered(w) BY <1>9 DEF MembershipChanged, DataChanged
  <2>2. Head(inbox).lobby \in Lobby BY <2>1, HeadMessage, MessageShape
  <2>3. ProcessLobbyNotification(Head(inbox).lobby) \/ UNCHANGED queue
    BY <1>9 DEF MembershipChanged, DataChanged
  <2> QED BY <1>1, <1>4, <2>2, <2>3
<1>10. CASE LocalUserKicked \/ KickIgnored \/ InviteReceived \/ JoinRequested
  BY <1>1, <1>10 DEF LocalUserKicked, KickIgnored, InviteReceived, JoinRequested, work
<1>11. ASSUME NEW l, NEW r, SteamCreates(l) \/ SteamLetsIn \/ SteamSearches \/ SteamRefuses \/ SteamIsLate(r)
       PROVE  Goal
  BY <1>1, <1>11 DEF SteamCreates, SteamLetsIn, SteamSearches, SteamRefuses, SteamIsLate, Performed, work
<1>12. ASSUME NEW r \in Requests, GameAsks(r) PROVE Goal
  <2>1. r \in RequestType BY DEF RequestType
  <2> QED BY <1>2, <1>12, <2>1 DEF GameAsks
<1>13. ASSUME NEW l, NEW p, \/ OnListenAddressChanged \/ SteamDropsMe(l) \/ UserJoins(l)
                            \/ PeerEnters(l, p) \/ PeerLeaves(l, p) \/ PeerInvites(l, p) \/ PeerKicks(l, p)
                            \/ PeerPromotes(l, p) \/ PeerModifies(l, p)
       PROVE  Goal
  BY <1>1, <1>13 DEF OnListenAddressChanged, SteamDropsMe, UserJoins, PeerEnters, PeerLeaves, PeerInvites,
       PeerKicks, PeerPromotes, PeerModifies, OutsideOnly, work
<1>14. Goal
  <2>1. CASE UNCHANGED vars BY <1>1, <2>1 DEF vars, work
  <2>2. CASE Runner BY <1>6, <1>7, <2>2 DEF Runner
  <2>3. CASE Dispatcher BY <1>8, <1>9, <1>10, <2>3 DEF Dispatcher
  <2>4. CASE SteamAnswers BY <1>11, <2>4 DEF SteamAnswers
  <2>5. CASE Outside BY <1>12, <1>13, <2>5 DEF Outside
  <2> QED BY <1>8, <2>1, <2>2, <2>3, <2>4, <2>5 DEF Next
<1> QED BY <1>14

\* Nobody logs out while an operation waits.
LEMMA LoginStep ==
  ASSUME [Next]_vars
  PROVE  UNCHANGED login \/ (op = None /\ UNCHANGED <<op, call, steam>> /\ login' = FALSE)
BY DEF Next, Runner, Dispatcher, SteamAnswers, Outside, TurnedAway, LeaveLobby, KickLobbyMember, PromoteLobbyMember,
       ModifyLobbyAttributes, ModifyLobbyJoinPolicy, ModifyLobbyMemberAttributes, ModifyRefused,
       InviteLobbyMember, DeclineLobbyInvitation, ProcessNotification, Logout, AskCreate, AskJoin, FindLobbies,
       CreateFails, CreateUnprepared, CreateSucceeds, CallRefused, JoinFails, JoinSucceeds, SearchAnswered,
       MembershipChanged, DataChanged, LocalUserKicked, KickIgnored, InviteReceived, JoinRequested, TimesOut,
       SteamCreates, SteamLetsIn, SteamSearches, SteamRefuses, SteamIsLate, Performed, GameAsks, OnListenAddressChanged,
       SteamDropsMe, UserJoins, PeerEnters, PeerLeaves, PeerInvites, PeerKicks, PeerPromotes, PeerModifies,
       OutsideOnly, Runs, Idle, Pop, vars

\* What becomes of the messages.
LEMMA PipeTyped ==
  ASSUME TypeOK, SteamIsFine, AnswersAreAwaited, [Next]_vars
  PROVE  /\ inbox' \in Seq(MessageType) /\ op' \in RequestType \cup {None}
         /\ call' \in {"none", "asked", "answered"} /\ (op' = None <=> call' = "none")
<1>1. /\ inbox \in Seq(MessageType) /\ op \in RequestType \cup {None}
      /\ call \in {"none", "asked", "answered"} /\ (op = None <=> call = "none") /\ None \notin RequestType
  BY NothingAssumption DEF TypeOK
<1>2. CASE Quiet BY <1>1, <1>2 DEF Quiet
<1>3. CASE Asks BY <1>1, <1>3 DEF Asks
<1>4. CASE Hears BY <1>1, <1>4, Shorter DEF Hears
<1>5. CASE IsAnswered BY <1>1, <1>5, Shorter DEF IsAnswered, Answered, Over
<1>6. CASE Expires
  <2>1. op' = None /\ call' = "none" BY <1>6 DEF Expires, Over
  <2>2. UNCHANGED inbox \/ \E i \in 1..Len(inbox) : inbox' = RemoveAt(inbox, i)
    BY <1>6 DEF Expires, WithoutAnswer
  <2> QED BY <1>1, <2>1, <2>2, OneLess
<1>7. ASSUME NEW m \in MessageType, Tells(m) \/ Performs(m)
      PROVE  /\ inbox' \in Seq(MessageType) /\ op' \in RequestType \cup {None}
             /\ call' \in {"none", "asked", "answered"} /\ (op' = None <=> call' = "none")
  BY <1>1, <1>7, Longer DEF Tells, Performs
<1> QED BY <1>2, <1>3, <1>4, <1>5, <1>6, <1>7, PipeStep

Unanswered == \A i \in 1..Len(inbox) : ~HasAnswer(i)

\* An answer that is heard was the only one, and one that nobody waits for is gone.
LEMMA OneAnswer ==
  ASSUME TypeOK, SteamIsFine, AnswersAreAwaited
  PROVE  /\ call # "answered" => Unanswered
         /\ IsAnswered => Unanswered'
         /\ Expires => Unanswered'
<1>1. inbox \in Seq(MessageType) BY DEF TypeOK
<1>2. call # "answered" => Unanswered BY DEF AnswersAreAwaited, Unanswered
<1>3. ASSUME IsAnswered PROVE Unanswered'
  <2>1. PICK w \in Answers : Answered(w) BY <1>3 DEF IsAnswered
  <2>2. /\ inbox # <<>> /\ inbox' = Tail(inbox) /\ Head(inbox) = inbox[1] /\ 1 \in 1..Len(inbox)
        /\ \A i \in 1..Len(inbox') : i + 1 \in 1..Len(inbox) /\ i + 1 # 1 /\ inbox'[i] = inbox[i + 1]
    BY <1>1, <2>1, Shorter DEF Answered
  <2>3. HasAnswer(1) BY <2>1, <2>2 DEF Answered, HasAnswer
  <2>4. ASSUME NEW i \in 1..Len(inbox') PROVE inbox'[i].what \notin Answers
    <3>1. i + 1 \in 1..Len(inbox) /\ i + 1 # 1 /\ inbox'[i] = inbox[i + 1] BY <2>2
    <3>2. ~HasAnswer(i + 1) BY <2>2, <2>3, <3>1 DEF AnswersAreAwaited
    <3> QED BY <3>1, <3>2 DEF HasAnswer
  <2> QED BY <2>4 DEF Unanswered, HasAnswer
<1>4. ASSUME Expires PROVE Unanswered'
  <2>1. CASE Unanswered /\ UNCHANGED inbox BY <2>1 DEF Unanswered, HasAnswer
  <2>2. CASE \E k \in 1..Len(inbox) : HasAnswer(k) /\ inbox' = RemoveAt(inbox, k)
    <3>1. PICK k \in 1..Len(inbox) : HasAnswer(k) /\ inbox' = RemoveAt(inbox, k) BY <2>2
    <3>2. /\ Len(inbox') = Len(inbox) - 1
          /\ \A i \in 1..Len(inbox') : inbox'[i] = IF i < k THEN inbox[i] ELSE inbox[i + 1]
      BY <1>1, <3>1, OneLess
    <3>3. Len(inbox) \in Nat BY <1>1
    <3>4. ASSUME NEW i \in 1..Len(inbox') PROVE inbox'[i].what \notin Answers
      <4>1. CASE i < k
        <5>1. i \in 1..Len(inbox) /\ i # k /\ inbox'[i] = inbox[i] BY <3>2, <3>3, <4>1
        <5>2. ~HasAnswer(i) BY <3>1, <5>1 DEF AnswersAreAwaited
        <5> QED BY <5>1, <5>2 DEF HasAnswer
      <4>2. CASE ~(i < k)
        <5>1. i + 1 \in 1..Len(inbox) /\ i + 1 # k /\ inbox'[i] = inbox[i + 1] BY <3>2, <3>3, <4>2
        <5>2. ~HasAnswer(i + 1) BY <3>1, <5>1 DEF AnswersAreAwaited
        <5> QED BY <5>1, <5>2 DEF HasAnswer
      <4> QED BY <4>1, <4>2
    <3> QED BY <3>4 DEF Unanswered, HasAnswer
  <2> QED BY <1>4, <2>1, <2>2 DEF Expires, WithoutAnswer, Unanswered
<1> QED BY <1>2, <1>3, <1>4

\* Answers stay those of the operation that waits.
LEMMA AnswersStayAwaited ==
  ASSUME TypeOK, SteamIsFine, AnswersAreAwaited, [Next]_vars
  PROVE  AnswersAreAwaited'
<1> DEFINE Fits(m) == /\ call' = "answered"
                      /\ m.what = "created" => op'.do = "Create"
                      /\ m.what = "entered" => op'.do = "Join" /\ op'.lobby = m.lobby
                      /\ m.what = "listed" => op'.do = "Find"
<1>1. inbox \in Seq(MessageType) /\ (op = None <=> call = "none") /\ None \notin RequestType
  BY NothingAssumption DEF TypeOK
<1>2. op' # None => login' BY <1>1, PipeStep, LoginStep
  DEF AnswersAreAwaited, Quiet, Asks, Hears, IsAnswered, Expires, Tells, Performs, Over
<1>3. CASE Unanswered'
  BY <1>2, <1>3 DEF Unanswered, AnswersAreAwaited
<1>4. CASE Quiet
  BY <1>2, <1>4 DEF Quiet, AnswersAreAwaited, HasAnswer
<1>5. CASE Asks
  <2>1. Unanswered BY <1>1, <1>5, OneAnswer DEF Asks
  <2>2. Unanswered' BY <1>5, <2>1 DEF Asks, Unanswered, HasAnswer
  <2> QED BY <1>3, <2>2
<1>6. CASE Hears
  <2>1. /\ \A i \in 1..Len(inbox') : i + 1 \in 1..Len(inbox) /\ inbox'[i] = inbox[i + 1]
        /\ UNCHANGED <<op, call>>
    BY <1>1, <1>6, Shorter DEF Hears
  <2>2. ASSUME NEW i \in 1..Len(inbox'), inbox'[i].what \in Answers PROVE Fits(inbox'[i])
    <3>1. i + 1 \in 1..Len(inbox) /\ HasAnswer(i + 1) /\ inbox'[i] = inbox[i + 1] BY <2>1, <2>2 DEF HasAnswer
    <3> QED BY <2>1, <3>1 DEF AnswersAreAwaited
  <2>3. ASSUME NEW i \in 1..Len(inbox'), NEW j \in 1..Len(inbox'), inbox'[i].what \in Answers,
               inbox'[j].what \in Answers
        PROVE  i = j
    <3>1. /\ i + 1 \in 1..Len(inbox) /\ HasAnswer(i + 1) /\ j + 1 \in 1..Len(inbox) /\ HasAnswer(j + 1)
      BY <2>1, <2>3 DEF HasAnswer
    <3>2. i + 1 = j + 1 BY <3>1 DEF AnswersAreAwaited
    <3>3. Len(inbox') \in Nat BY PipeTyped
    <3> QED BY <3>2, <3>3
  <2> QED BY <1>2, <2>2, <2>3 DEF AnswersAreAwaited, HasAnswer
<1>7. ASSUME NEW m \in MessageType, Tells(m) PROVE AnswersAreAwaited'
  <2>1. /\ UNCHANGED <<op, call>>
        /\ \A i \in 1..Len(inbox') : \/ i \in 1..Len(inbox) /\ inbox'[i] = inbox[i]
                                     \/ inbox'[i].what \notin Answers
    BY <1>1, <1>7, Longer DEF Tells
  <2> QED BY <1>2, <2>1 DEF AnswersAreAwaited, HasAnswer
<1>8. ASSUME NEW m \in MessageType, Performs(m) PROVE AnswersAreAwaited'
  <2>1. Unanswered BY <1>8, OneAnswer DEF Performs
  <2>2. \A i \in 1..Len(inbox') : \/ i \in 1..Len(inbox) /\ inbox'[i] = inbox[i]
                                  \/ i = Len(inbox) + 1 /\ inbox'[i] = m
    BY <1>1, <1>8, Longer DEF Performs
  <2>3. \A i \in 1..Len(inbox') : inbox'[i].what \in Answers => i = Len(inbox) + 1 /\ inbox'[i] = m
    BY <2>1, <2>2 DEF Unanswered, HasAnswer
  <2>4. Fits(m) BY <1>8 DEF Performs
  <2> QED BY <1>2, <2>3, <2>4 DEF AnswersAreAwaited, HasAnswer
<1> QED BY <1>3, <1>4, <1>5, <1>6, <1>7, <1>8, PipeStep, OneAnswer

-----------------------------------------------------------------------------
(* News is not lost.                                                       *)

\* Word that is in the pipe stays until it is heard.
LEMMA MessageStays ==
  ASSUME TypeOK, SteamIsFine, AnswersAreAwaited, [Next]_vars, NEW i \in 1..Len(inbox), ~HasAnswer(i)
  PROVE  \/ \E j \in 1..Len(inbox') : inbox'[j] = inbox[i]
         \/ Hears /\ i = 1
<1> DEFINE Goal == \/ \E j \in 1..Len(inbox') : inbox'[j] = inbox[i]
                   \/ Hears /\ i = 1
<1>1. inbox \in Seq(MessageType) BY DEF TypeOK
<1>2. CASE UNCHANGED inbox BY <1>2
<1>3. CASE Hears
  <2>1. inbox # <<>> /\ inbox' = Tail(inbox) BY <1>3 DEF Hears
  <2>2. \A k \in 1..Len(inbox) : k # 1 => k - 1 \in 1..Len(inbox') /\ inbox'[k - 1] = inbox[k]
    BY <1>1, <2>1, Shorter
  <2> QED BY <1>3, <2>2
<1>4. CASE IsAnswered
  <2>1. PICK w \in Answers : Answered(w) BY <1>4 DEF IsAnswered
  <2>2. /\ Head(inbox) = inbox[1] /\ inbox' = Tail(inbox) /\ inbox # <<>>
        /\ \A k \in 1..Len(inbox) : k # 1 => k - 1 \in 1..Len(inbox') /\ inbox'[k - 1] = inbox[k]
    BY <1>1, <2>1, Shorter DEF Answered
  <2>3. i # 1 BY <2>1, <2>2 DEF Answered, HasAnswer
  <2> QED BY <2>2, <2>3
<1>5. ASSUME NEW k \in 1..Len(inbox), HasAnswer(k), inbox' = RemoveAt(inbox, k) PROVE Goal
  <2>1. /\ Len(inbox') = Len(inbox) - 1 /\ Len(inbox) \in Nat
        /\ \A j \in 1..Len(inbox') : inbox'[j] = IF j < k THEN inbox[j] ELSE inbox[j + 1]
    BY <1>1, <1>5, OneLess
  <2>2. i # k BY <1>5
  <2>3. CASE i < k
    <3>1. i \in 1..Len(inbox') BY <2>1, <2>3
    <3> QED BY <2>1, <2>3, <3>1
  <2>4. CASE k < i
    <3>1. i - 1 \in 1..Len(inbox') /\ ~(i - 1 < k) /\ (i - 1) + 1 = i BY <2>1, <2>4
    <3> QED BY <2>1, <3>1
  <2> QED BY <2>2, <2>3, <2>4
<1>6. ASSUME NEW m \in MessageType, inbox' = Append(inbox, m) PROVE Goal
  BY <1>1, <1>6, Longer
<1> QED BY <1>2, <1>3, <1>4, <1>5, <1>6, PipeStep
    DEF Quiet, Asks, Expires, WithoutAnswer, Tells, Performs

\* A notification waits until its turn comes.
LEMMA QueueStays ==
  ASSUME TypeOK, [Next]_vars, NEW l \in Lobby
  PROVE  /\ HeldByQueue(l) => \/ HeldByQueue(l)'
                              \/ IsPopped /\ Head(queue).do = "Notify" /\ Head(queue).lobby = l
         /\ ProcessLobbyNotification(l) => HeldByQueue(l)'
<1>1. queue \in Seq(RequestType) BY DEF TypeOK
<1>2. ASSUME ProcessLobbyNotification(l) PROVE HeldByQueue(l)'
  <2> DEFINE r == Request("Notify", l, None, FALSE)
  <2>1. r \in RequestType /\ r.do = "Notify" /\ r.lobby = l BY NotificationMade
  <2>2. queue' = Append(queue, r) BY <1>2 DEF ProcessLobbyNotification
  <2> HIDE DEF r
  <2>3. Len(queue) + 1 \in 1..Len(queue') /\ queue'[Len(queue) + 1] = r BY <1>1, <2>1, <2>2, Longer
  <2> QED BY <2>1, <2>3 DEF HeldByQueue
<1>3. ASSUME NEW i \in 1..Len(queue), queue[i].do = "Notify", queue[i].lobby = l
      PROVE  \/ \E j \in 1..Len(queue') : queue'[j] = queue[i]
             \/ IsPopped /\ i = 1 /\ Head(queue) = queue[1]
  <2>1. CASE UNCHANGED queue BY <2>1
  <2>2. CASE IsPopped
    <3>1. queue # <<>> /\ queue' = Tail(queue) BY <2>2 DEF IsPopped
    <3>2. /\ Head(queue) = queue[1]
          /\ \A k \in 1..Len(queue) : k # 1 => k - 1 \in 1..Len(queue') /\ queue'[k - 1] = queue[k]
      BY <1>1, <3>1, Shorter
    <3> QED BY <2>2, <3>2
  <2>3. ASSUME NEW r \in RequestType, queue' = Append(queue, r) PROVE \E j \in 1..Len(queue') : queue'[j] = queue[i]
    BY <1>1, <2>3, Longer
  <2> QED BY <2>1, <2>2, <2>3, QueueStep
<1> QED BY <1>2, <1>3 DEF HeldByQueue

\* Who is listed as joined hears of what happened, in the end from the queue.
LEMMA NewsStays ==
  ASSUME TypeOK, SteamIsFine, AnswersAreAwaited, [Next]_vars, NEW l \in Lobby, Known(l), data[l].active
  PROVE  /\ Moved(l) => Moved(l)' \/ (MembershipChanged /\ Head(inbox).lobby = l)
         /\ NewsOf(l) => NewsOf(l)' \/ (ProcessNotification /\ Head(queue).lobby = l)
         /\ Departing(l) => Departing(l)' \/ (ProcessNotification /\ Head(queue).lobby = l)
<1>1. inbox \in Seq(MessageType) BY DEF TypeOK
<1>2. ASSUME HeldByQueue(l) PROVE HeldByQueue(l)' \/ (ProcessNotification /\ Head(queue).lobby = l)
  <2>1. CASE IsPopped /\ Head(queue).do = "Notify" /\ Head(queue).lobby = l
    <3>1. Admitted(Head(queue)) BY <2>1 DEF Admitted, Modifies, MayNotify
    <3>2. ProcessNotification BY <2>1, <3>1 DEF IsPopped, TurnedAway
    <3> QED BY <2>1, <3>2
  <2> QED BY <1>2, <2>1, QueueStays
<1>3. ASSUME NEW i \in 1..Len(inbox), inbox[i].lobby = l, inbox[i].what \in {"came", "left", "data"}
      PROVE  \/ \E j \in 1..Len(inbox') : inbox'[j] = inbox[i]
             \/ HeldByQueue(l)' /\ (inbox[i].what \in {"came", "left"} => MembershipChanged /\ Head(inbox).lobby = l)
  <2>1. ~HasAnswer(i) BY <1>3 DEF HasAnswer, Answers
  <2>2. CASE Hears /\ i = 1
    <3>1. ProcessLobbyNotification(l) BY <1>3, <2>2 DEF Hears
    <3>2. Head(inbox) = inbox[1] BY <1>1, <2>2, Shorter DEF Hears
    <3> QED BY <1>3, <2>2, <3>1, <3>2, QueueStays DEF Hears
  <2> QED BY <2>1, <2>2, MessageStays
<1>4. Moved(l) => Moved(l)' \/ (MembershipChanged /\ Head(inbox).lobby = l)
  BY <1>3 DEF Moved
<1>5. NewsOf(l) => NewsOf(l)' \/ (ProcessNotification /\ Head(queue).lobby = l)
  BY <1>2, <1>3 DEF NewsOf
<1>6. Departing(l) => Departing(l)' \/ (ProcessNotification /\ Head(queue).lobby = l)
  <2>1. Message("left", l, Me).lobby = l /\ Message("left", l, Me).what = "left" BY DEF Message
  <2> QED BY <1>2, <1>3, <2>1 DEF Departing
<1> QED BY <1>4, <1>5, <1>6

-----------------------------------------------------------------------------
(* What is known here, action by action.                                   *)

\* A lobby is read that was not known: one that was asked for, or that Steam names.
Read(k) ==
  /\ IsAnswered \/ (Hears /\ inbox[1].lobby = k)
  /\ Born(k) \/ (inbox # <<>> /\ inbox[1].lobby = k /\ inbox[1].what \notin {"refused", "listed"})

DataKept(k) == data'[k] = data[k] \/ (data'[k] = Unknown /\ k \notin active')
GivenUp(k) == data[k] # Unknown /\ k \notin active'
Retold(k) ==
  /\ data[k] # Unknown /\ data'[k] # Unknown
  /\ data'[k].active = data[k].active /\ data'[k].seen.members = data[k].seen.members
  /\ NewsOf(k)' \/ Me \notin steam[k].members
Reread(k) ==
  /\ ProcessNotification /\ Head(queue).lobby = k
  /\ data[k] # Unknown /\ (k \in active' => data'[k] # Unknown)
  /\ data'[k] # Unknown => data'[k].active /\ data'[k].seen = GetLobbySnapshot(steam, k, TRUE)
Joined(k) ==
  /\ JoinSucceeds /\ op.lobby = k /\ Read(k)
  /\ data'[k] # Unknown /\ data'[k].active /\ data'[k].seen = GetLobbySnapshot(steam, k, TRUE)
Unjoined(k) ==
  /\ JoinFails /\ op.lobby = k /\ Read(k) /\ (k \in active' => data'[k] # Unknown)
  /\ data'[k] # Unknown => data'[k].active
Made(k) ==
  /\ CreateSucceeds /\ Head(inbox).lobby = k /\ Read(k)
  /\ data'[k] # Unknown /\ data'[k].active
  /\ data[k] = Unknown => data'[k].seen = GetLobbySnapshot(steam, k, FALSE)
Noticed(k) ==
  /\ data[k] = Unknown /\ Read(k) /\ active' = active
DataOf(k) ==
  \/ DataKept(k) \/ GivenUp(k) \/ Retold(k) \/ Reread(k)
  \/ Joined(k) \/ Unjoined(k) \/ Made(k) \/ Noticed(k)

\* Nothing is known of a lobby but what was known before.
LEMMA DataRegistered ==
  ASSUME TypeOK, Registered(data) \/ UNCHANGED data
  PROVE  DataTyped(data') /\ \A k \in Lobby : DataKept(k)
<1>1. DataTyped(data) BY DEF TypeOK, DataTyped
<1>2. CASE UNCHANGED data BY <1>1, <1>2 DEF DataKept
<1>3. CASE Registered(data)
  <2>1. /\ DataTyped(data') /\ \A k \in active' : k \in Lobby => data'[k] = data[k]
        /\ \A k \in Lobby : data'[k] = data[k] \/ data'[k] = Unknown
    BY <1>1, <1>3, RegisteredKeeps
  <2> QED BY <2>1 DEF DataKept
<1> QED BY <1>2, <1>3

\* What is known of one lobby is changed.
LEMMA DataChangedAt ==
  ASSUME TypeOK, NEW l \in Lobby, NEW e, DataTyped(e), OnlyAt(e, data, l), Registered(e)
  PROVE  /\ DataTyped(data') /\ \A k \in Lobby : k # l => DataKept(k)
         /\ data'[l] # Unknown => data'[l] = e[l]
         /\ l \in active' => data'[l] = e[l]
         /\ data'[l] = e[l] \/ (data'[l] = Unknown /\ l \notin active')
<1>1. /\ DataTyped(data') /\ \A k \in active' : k \in Lobby => data'[k] = e[k]
      /\ \A k \in Lobby : data'[k] = e[k] \/ data'[k] = Unknown
  BY RegisteredKeeps
<1>2. ASSUME NEW k \in Lobby, k # l PROVE DataKept(k)
  <2>1. e[k] = data[k] BY <1>2 DEF OnlyAt
  <2>2. data'[k] = e[k] \/ (data'[k] = Unknown /\ k \notin active') BY <1>1
  <2> QED BY <2>1, <2>2 DEF DataKept
<1> QED BY <1>1, <1>2

\* The departure is shown.
LEMMA DataOnDeparture ==
  ASSUME TypeOK, NEW l \in Lobby, Me \in ShownMembers(l), RemoveActiveLobby(l), Registered(ShownWithoutMe(data, l))
  PROVE  DataTyped(data') /\ \A k \in Lobby : DataOf(k)
<1>1. DataTyped(data) /\ data[l] # Unknown BY DEF TypeOK, DataTyped, ShownMembers, Known
<1>2. data[l] \in DataType BY <1>1 DEF DataTyped
<1> DEFINE w == [data[l].seen EXCEPT !.members = @ \ {Me}]
<1>3. w \in SeenType BY <1>2 DEF DataType, SeenType
<1>4. ShownWithoutMe(data, l) = ShownAs(data, l, w) BY DEF ShownWithoutMe, ShownAs
<1> HIDE DEF w
<1>5. PICK e : e = ShownAs(data, l, w) OBVIOUS
<1>6. DataTyped(e) /\ OnlyAt(e, data, l) BY <1>1, <1>3, <1>5, ShownKeeps
<1>7. Registered(e) BY <1>4, <1>5
<1>8. DataTyped(data') /\ \A k \in Lobby : k # l => DataKept(k) BY <1>6, <1>7, DataChangedAt
<1>9. GivenUp(l) BY <1>1 DEF GivenUp, RemoveActiveLobby
<1> QED BY <1>8, <1>9 DEF DataOf

\* The game is shown at once what it changed; word of it comes back from Steam.
LEMMA DataOnChange ==
  ASSUME TypeOK, NEW l \in Lobby, data[l] # Unknown, NEW w \in SeenType,
         w.members = data[l].seen.members, Registered(ShownAs(data, l, w)),
         NewsOf(l)' \/ Me \notin steam[l].members
  PROVE  DataTyped(data') /\ \A k \in Lobby : DataOf(k)
<1>1. DataTyped(data) BY DEF TypeOK, DataTyped
<1>2. PICK e : e = ShownAs(data, l, w) OBVIOUS
<1>3. /\ DataTyped(e) /\ OnlyAt(e, data, l)
      /\ e[l] \in DataType /\ e[l].active = data[l].active /\ e[l].seen = w
  BY <1>1, <1>2, ShownKeeps
<1>4. Registered(e) BY <1>2
<1>5. /\ DataTyped(data') /\ \A k \in Lobby : k # l => DataKept(k)
      /\ data'[l] = e[l] \/ (data'[l] = Unknown /\ l \notin active')
  BY <1>3, <1>4, DataChangedAt
<1>6. e[l] # Unknown BY <1>3, NothingAssumption DEF Unknown
<1>7. Retold(l) \/ GivenUp(l) BY <1>3, <1>5, <1>6 DEF Retold, GivenUp
<1> QED BY <1>5, <1>7 DEF DataOf

\* Details that are filed beside those that are there change nothing.
LEMMA FiledBeside ==
  ASSUME SteamIsFine, NEW d, DataTyped(d), NEW l \in Lobby, d[l] # Unknown
  PROVE  Filed(d, l)[l] = d[l]
<1>1. PICK e : IsFiled(e, d, l) BY DEF IsFiled
<1>2. e[l] \in DataType /\ e[l].active = d[l].active /\ e[l].seen = d[l].seen
  BY <1>1, FiledKeeps
<1>3. d[l] \in DataType BY DEF DataTyped
<1> QED BY <1>1, <1>2, <1>3 DEF DataType, IsFiled

\* Filing changes what is known of that lobby, if it was not known.
LEMMA FiledIsNew ==
  ASSUME TypeOK, SteamIsFine, NEW l \in Lobby, NEW e, IsFiled(e, data, l)
  PROVE  /\ DataTyped(e) /\ OnlyAt(e, data, l)
         /\ data[l] # Unknown => e[l] = data[l]
<1>1. DataTyped(data) BY DEF TypeOK, DataTyped
<1>2. DataTyped(e) /\ OnlyAt(e, data, l) BY <1>1, FiledKeeps
<1>3. data[l] # Unknown => e[l] = data[l] BY <1>1, FiledBeside DEF IsFiled
<1> QED BY <1>2, <1>3

\* What Steam names is filed.
LEMMA DataOnNotice ==
  ASSUME TypeOK, SteamIsFine, NEW l \in Lobby, Hears, inbox[1].lobby = l, inbox[1].what \notin {"refused", "listed"},
         active' = active, Registered(Filed(data, l))
  PROVE  DataTyped(data') /\ \A k \in Lobby : DataOf(k)
<1>2. PICK e : IsFiled(e, data, l) BY DEF IsFiled
<1>3. /\ DataTyped(e) /\ OnlyAt(e, data, l)
      /\ data[l] # Unknown => e[l] = data[l]
  BY <1>2, FiledIsNew
<1>5. Registered(e) BY <1>2 DEF IsFiled
<1>6. /\ DataTyped(data') /\ \A k \in Lobby : k # l => DataKept(k)
      /\ data'[l] = e[l] \/ (data'[l] = Unknown /\ l \notin active')
  BY <1>3, <1>5, DataChangedAt
<1>7. Read(l) BY DEF Read, Hears
<1>8. DataKept(l) \/ Noticed(l) BY <1>3, <1>6, <1>7 DEF DataKept, Noticed
<1> QED BY <1>6, <1>8 DEF DataOf

\* What the search has found is filed.
LEMMA DataOnSearch ==
  ASSUME TypeOK, SteamIsFine, SearchAnswered
  PROVE  DataTyped(data') /\ \A k \in Lobby : DataOf(k)
<1>1. DataTyped(data) BY DEF TypeOK, DataTyped
<1>2. /\ found' \subseteq Lobby /\ \A k \in found' : Born(k)
      /\ IsAnswered /\ active' = active
  BY DEF SearchAnswered, IsAnswered, Answers, held
<1>3. PICK e : e = [l \in Lobby |-> IF l \in found' THEN Filed(data, l)[l] ELSE data[l]]
  OBVIOUS
<1>4. Registered(e) BY <1>3 DEF SearchAnswered, Filed
<1>5. ASSUME NEW k \in Lobby
      PROVE  /\ e[k] \in DataType \cup {Unknown}
             /\ e[k] = data[k] \/ (data[k] = Unknown /\ Born(k))
  <2>1. CASE k \notin found' BY <1>1, <1>3, <2>1 DEF DataTyped
  <2>2. CASE k \in found' /\ data[k] # Unknown
    <3>1. e[k] = data[k] BY <1>1, <1>3, <2>2, FiledBeside
    <3> QED BY <1>1, <3>1 DEF DataTyped
  <2>3. CASE k \in found' /\ data[k] = Unknown
    <3>1. PICK f : IsFiled(f, data, k) BY DEF IsFiled
    <3>2. f[k] \in DataType BY <1>1, <3>1, FiledKeeps
    <3> QED BY <1>2, <1>3, <2>3, <3>1, <3>2 DEF IsFiled
  <2> QED BY <2>1, <2>2, <2>3
<1>6. DataTyped(e) BY <1>3, <1>5 DEF DataTyped
<1>7. /\ DataTyped(data') /\ \A k \in active' : k \in Lobby => data'[k] = e[k]
      /\ \A k \in Lobby : data'[k] = e[k] \/ data'[k] = Unknown
  BY <1>4, <1>6, RegisteredKeeps
<1>8. ASSUME NEW k \in Lobby PROVE DataKept(k) \/ Noticed(k)
  <2>1. e[k] = data[k] \/ (data[k] = Unknown /\ Read(k)) BY <1>2, <1>5 DEF Read
  <2>2. data'[k] = e[k] \/ (data'[k] = Unknown /\ k \notin active') BY <1>7
  <2> QED BY <1>2, <2>1, <2>2 DEF DataKept, Noticed
<1> QED BY <1>7, <1>8 DEF DataOf

\* A notification reads the lobby again.
LEMMA DataOnNotification ==
  ASSUME TypeOK, SteamIsFine, ProcessNotification
  PROVE  /\ DataTyped(data') /\ \A k \in Lobby : DataOf(k)
         /\ Reread(Head(queue).lobby)
<1> DEFINE l == Head(queue).lobby
<1>1. l \in Lobby BY HeadLobby DEF ProcessNotification
<1>2. data[l] # Unknown /\ data[l].active
  BY AdmittedMeans DEF ProcessNotification, Runs, MayNotify, Known
<1>3. DataTyped(data) BY DEF TypeOK, DataTyped
<1>4. Registered(Refreshed(data, steam, l)) BY DEF ProcessNotification
<1>5. PICK e : IsRefreshed(e, data, l) BY DEF IsRefreshed
<1> HIDE DEF l
<1>6. /\ DataTyped(e) /\ OnlyAt(e, data, l) /\ e[l] \in DataType
      /\ e[l].active = data[l].active /\ e[l].seen = GetLobbySnapshot(steam, l, TRUE)
  BY <1>1, <1>2, <1>3, <1>5, RefreshedKeeps
<1>7. Registered(e) BY <1>4, <1>5 DEF IsRefreshed
<1>8. /\ DataTyped(data') /\ \A k \in Lobby : k # l => DataKept(k)
      /\ data'[l] # Unknown => data'[l] = e[l]
      /\ l \in active' => data'[l] = e[l]
  BY <1>1, <1>6, <1>7, DataChangedAt
<1>9. e[l] # Unknown BY <1>6, NothingAssumption DEF Unknown
<1>10. Reread(l) BY <1>2, <1>6, <1>8, <1>9 DEF Reread, l
<1> QED BY <1>8, <1>10 DEF DataOf, l

\* The lobby that was entered or opened is read.
LEMMA ReadOnAnswer ==
  ASSUME TypeOK, NEW w \in {"created", "entered"}, Answered(w), Over
  PROVE  Read(Head(inbox).lobby) /\ Head(inbox) = inbox[1]
<1>1. Head(inbox) = inbox[1] BY Shorter DEF Answered, TypeOK
<1>2. IsAnswered BY DEF IsAnswered, Answers
<1> QED BY <1>1, <1>2 DEF Read, Answered

\* The lobby that was opened is filed.
LEMMA DataOnCreate ==
  ASSUME TypeOK, SteamIsFine, AnswersAreAwaited, CreateSucceeds
  PROVE  /\ DataTyped(data') /\ \A k \in Lobby : DataOf(k)
         /\ Made(Head(inbox).lobby)
<1> DEFINE l == Head(inbox).lobby
<1>1. /\ l \in Lobby /\ Read(l) /\ l \in active'
      /\ DataTyped(data) /\ Registered(FiledAs(data, steam, l, TRUE))
  BY AwaitedOperation, ReadOnAnswer DEF CreateSucceeds, TypeOK, DataTyped, AddActiveLobby
<1> HIDE DEF l
<1>2. PICK e : IsFiledActive(e, data, l) BY DEF IsFiledActive
<1>3. /\ DataTyped(e) /\ OnlyAt(e, data, l) /\ e[l] \in DataType /\ e[l].active = TRUE
      /\ data[l] = Unknown => e[l].seen = GetLobbySnapshot(steam, l, FALSE)
  BY <1>1, <1>2, FiledActiveKeeps
<1>4. Registered(e) BY <1>1, <1>2 DEF IsFiledActive
<1>5. /\ DataTyped(data') /\ \A k \in Lobby : k # l => DataKept(k)
      /\ data'[l] = e[l]
  BY <1>1, <1>3, <1>4, DataChangedAt
<1>6. e[l] # Unknown BY <1>3, NothingAssumption DEF Unknown
<1>7. Made(l) BY <1>1, <1>3, <1>5, <1>6 DEF Made, l
<1> QED BY <1>5, <1>7 DEF DataOf, l

\* What the details of a lobby are that is read as it is entered.
LEMMA EnteredIsRead ==
  ASSUME TypeOK, SteamIsFine, NEW l \in Lobby, NEW d, IsFiledActive(d, data, l), NEW e, IsRefreshed(e, d, l)
  PROVE  /\ DataTyped(d) /\ OnlyAt(d, data, l) /\ d[l] # Unknown /\ d[l].active
         /\ DataTyped(e) /\ OnlyAt(e, data, l) /\ e[l] # Unknown /\ e[l].active
         /\ e[l].seen = GetLobbySnapshot(steam, l, TRUE)
<1>1. DataTyped(data) BY DEF TypeOK, DataTyped
<1>2. DataTyped(d) /\ OnlyAt(d, data, l) /\ d[l] \in DataType /\ d[l].active = TRUE
  BY <1>1, FiledActiveKeeps
<1>3. d[l] # Unknown BY <1>2, NothingAssumption DEF Unknown
<1>4. /\ DataTyped(e) /\ OnlyAt(e, d, l) /\ e[l] \in DataType /\ e[l].active = d[l].active
      /\ e[l].seen = GetLobbySnapshot(steam, l, TRUE)
  BY <1>2, <1>3, RefreshedKeeps
<1>5. e[l] # Unknown BY <1>4, NothingAssumption DEF Unknown
<1>6. OnlyAt(e, data, l) BY <1>2, <1>4 DEF OnlyAt
<1> QED BY <1>2, <1>3, <1>4, <1>5, <1>6

\* The lobby that was entered is filed and read.
LEMMA DataOnJoin ==
  ASSUME TypeOK, SteamIsFine, AnswersAreAwaited, JoinSucceeds
  PROVE  /\ DataTyped(data') /\ \A k \in Lobby : DataOf(k)
         /\ Joined(op.lobby)
<1>1. /\ op.lobby \in Lobby /\ Read(op.lobby) /\ op.lobby \in active'
      /\ Registered(Refreshed(FiledAs(data, steam, op.lobby, TRUE), steam, op.lobby))
  BY AwaitedOperation, ReadOnAnswer DEF JoinSucceeds, AddActiveLobby
<1>2. PICK d : IsFiledActive(d, data, op.lobby) BY DEF IsFiledActive
<1>3. PICK e : IsRefreshed(e, d, op.lobby) BY DEF IsRefreshed
<1>4. Registered(e) BY <1>1, <1>2, <1>3 DEF IsFiledActive, IsRefreshed
<1>5. /\ DataTyped(e) /\ OnlyAt(e, data, op.lobby) /\ e[op.lobby] # Unknown /\ e[op.lobby].active
      /\ e[op.lobby].seen = GetLobbySnapshot(steam, op.lobby, TRUE)
  BY <1>1, <1>2, <1>3, EnteredIsRead
<1>6. /\ DataTyped(data') /\ \A k \in Lobby : k # op.lobby => DataKept(k)
      /\ data'[op.lobby] = e[op.lobby]
  BY <1>1, <1>4, <1>5, DataChangedAt
<1>7. Joined(op.lobby) BY <1>1, <1>5, <1>6 DEF Joined
<1> QED BY <1>6, <1>7 DEF DataOf

\* So may be the one that was entered in vain.
LEMMA DataOnUnjoined ==
  ASSUME TypeOK, SteamIsFine, AnswersAreAwaited, JoinFails
  PROVE  DataTyped(data') /\ \A k \in Lobby : DataOf(k)
<1>1. /\ op.lobby \in Lobby /\ Read(op.lobby)
      /\ \/ Registered(Refreshed(FiledAs(data, steam, op.lobby, TRUE), steam, op.lobby))
         \/ Registered(FiledAs(data, steam, op.lobby, TRUE))
  BY AwaitedOperation, ReadOnAnswer DEF JoinFails, LeaveLobbyDuringJoin
<1>2. PICK d : IsFiledActive(d, data, op.lobby) BY DEF IsFiledActive
<1>3. PICK e : IsRefreshed(e, d, op.lobby) BY DEF IsRefreshed
<1>4. Registered(e) \/ Registered(d) BY <1>1, <1>2, <1>3 DEF IsFiledActive, IsRefreshed
<1>5. /\ DataTyped(e) /\ OnlyAt(e, data, op.lobby) /\ e[op.lobby].active
      /\ DataTyped(d) /\ OnlyAt(d, data, op.lobby) /\ d[op.lobby].active
      /\ d[op.lobby] # Unknown /\ e[op.lobby] # Unknown
  BY <1>1, <1>2, <1>3, EnteredIsRead
<1>6. PICK f \in {d, e} : /\ Registered(f) /\ DataTyped(f) /\ OnlyAt(f, data, op.lobby)
                         /\ f[op.lobby].active /\ f[op.lobby] # Unknown
  BY <1>4, <1>5
<1>7. /\ DataTyped(data') /\ \A k \in Lobby : k # op.lobby => DataKept(k)
      /\ data'[op.lobby] # Unknown => data'[op.lobby] = f[op.lobby]
      /\ op.lobby \in active' => data'[op.lobby] = f[op.lobby]
  BY <1>1, <1>6, DataChangedAt
<1>8. Unjoined(op.lobby) BY <1>1, <1>6, <1>7 DEF Unjoined
<1> QED BY <1>7, <1>8 DEF DataOf

\* Who is told has the news.
LEMMA ToldHasNews ==
  ASSUME TypeOK, NEW l \in Lobby
  PROVE  /\ Tell("data", l, None) => NewsOf(l)'
         /\ \A w \in {"came", "left"}, u \in Users : Tell(w, l, u) => NewsOf(l)' /\ Moved(l)'
         /\ Tell("left", l, Me) => Departing(l)'
<1>1. inbox \in Seq(MessageType) BY DEF TypeOK
<1>2. ASSUME NEW m \in MessageType, inbox' = Append(inbox, m) PROVE \E i \in 1..Len(inbox') : inbox'[i] = m
  <2>1. Len(inbox) + 1 \in 1..Len(inbox') /\ inbox'[Len(inbox) + 1] = m BY <1>1, <1>2, Longer
  <2> QED BY <2>1
<1>3. ASSUME Tell("data", l, None) PROVE NewsOf(l)'
  <2> DEFINE m == Message("data", l, None)
  <2>1. m \in MessageType /\ m.what = "data" /\ m.lobby = l /\ inbox' = Append(inbox, m)
    BY <1>3, MessageMade DEF Tell
  <2> HIDE DEF m
  <2> QED BY <1>2, <2>1 DEF NewsOf
<1>4. ASSUME NEW w \in {"came", "left"}, NEW u \in Users, Tell(w, l, u) PROVE NewsOf(l)' /\ Moved(l)'
  <2> DEFINE m == Message(w, l, u)
  <2>1. m \in MessageType /\ m.what = w /\ m.lobby = l /\ inbox' = Append(inbox, m)
    BY <1>4, MessageMade DEF Tell
  <2> HIDE DEF m
  <2> QED BY <1>2, <2>1 DEF NewsOf, Moved
<1>5. ASSUME Tell("left", l, Me) PROVE Departing(l)'
  <2> DEFINE m == Message("left", l, Me)
  <2>1. m \in MessageType /\ inbox' = Append(inbox, m)
    BY <1>5, MessageMade DEF Tell, Users
  <2>2. \E i \in 1..Len(inbox') : inbox'[i] = m
    <3> HIDE DEF m
    <3> QED BY <1>2, <2>1
  <2> QED BY <2>2 DEF Departing
<1> QED BY <1>3, <1>4, <1>5

\* What becomes of what is known of a lobby.
LEMMA DataStep ==
  ASSUME TypeOK, SteamIsFine, AnswersAreAwaited, [Next]_vars
  PROVE  DataTyped(data') /\ \A k \in Lobby : DataOf(k)
<1> DEFINE Goal == DataTyped(data') /\ \A k \in Lobby : DataOf(k)
<1>1. ASSUME Registered(data) \/ UNCHANGED data PROVE Goal
  BY <1>1, DataRegistered DEF DataOf
<1>2. ASSUME NEW l \in Lobby, data[l] # Unknown, NEW w \in SeenType,
             w.members = data[l].seen.members, Registered(ShownAs(data, l, w)),
             NewsOf(l)' \/ Me \notin steam[l].members
      PROVE  Goal
  BY <1>2, DataOnChange
<1>8. ASSUME NEW l \in Lobby, Me \in ShownMembers(l), RemoveActiveLobby(l), Registered(ShownWithoutMe(data, l)) PROVE Goal
  BY <1>8, DataOnDeparture
<1>9. ASSUME NEW w \in {"invite", "joinme"}, Answered(w), UNCHANGED <<op, call>>, active' = active,
             Registered(FiledAs(data, steam, Head(inbox).lobby, FALSE))
      PROVE  Goal
  <2>1. Head(inbox) = inbox[1] /\ Head(inbox).lobby \in Lobby /\ Head(inbox).what = w
    BY <1>9, HeadMessage, MessageShape, Shorter DEF Answered, TypeOK
  <2>2. Hears BY <1>9, HeardMeans DEF Answers
  <2>3. Registered(Filed(data, inbox[1].lobby)) BY <1>9, <2>1 DEF Filed
  <2>4. inbox[1].what \notin {"refused", "listed"} BY <2>1
  <2> QED BY <1>9, <2>1, <2>2, <2>3, <2>4, DataOnNotice
<1> SUFFICES Goal OBVIOUS
<1>3. CASE CreateSucceeds BY <1>3, DataOnCreate
<1>4. CASE JoinSucceeds BY <1>4, DataOnJoin
<1>5. CASE JoinFails BY <1>5, DataOnUnjoined
<1>6. CASE SearchAnswered BY <1>6, DataOnSearch
<1>7. CASE ProcessNotification BY <1>7, DataOnNotification
<1> HIDE DEF Goal
<1>10. CASE TurnedAway \/ KickLobbyMember \/ ModifyRefused \/ InviteLobbyMember
           \/ DeclineLobbyInvitation \/ Logout \/ AskCreate \/ AskJoin \/ FindLobbies
           \/ CreateFails \/ CreateUnprepared \/ CallRefused \/ TimesOut
           \/ MembershipChanged \/ DataChanged \/ KickIgnored
  <2>1. Registered(data)
    BY <1>10 DEF TurnedAway, KickLobbyMember, ModifyRefused, InviteLobbyMember,
       DeclineLobbyInvitation, Logout, AskCreate, AskJoin, FindLobbies,
       CreateFails, CreateUnprepared, CallRefused, TimesOut, MembershipChanged, DataChanged, KickIgnored
  <2> QED BY <1>1, <2>1
<1>11. CASE LeaveLobby
  <2>1. /\ Head(queue).lobby \in Lobby /\ Me \in ShownMembers(Head(queue).lobby)
        /\ RemoveActiveLobby(Head(queue).lobby) /\ Registered(ShownWithoutMe(data, Head(queue).lobby))
    BY <1>11, HeadLobby, AdmittedMeans DEF LeaveLobby, Runs, MayLeave
  <2> QED BY <1>8, <2>1
<1>12. CASE LocalUserKicked
  <2>1. /\ Head(inbox).lobby \in Lobby /\ Me \in ShownMembers(Head(inbox).lobby)
        /\ RemoveActiveLobby(Head(inbox).lobby) /\ Registered(ShownWithoutMe(data, Head(inbox).lobby))
    BY <1>12, HeadMessage, MessageShape DEF LocalUserKicked, Obeyed
  <2> QED BY <1>8, <2>1
<1>a. ASSUME NEW l \in Lobby, ShownOwner(l) = Me \/ Me \in ShownMembers(l)
      PROVE  data[l] # Unknown /\ data[l].seen \in SeenType
  <2>1. data[l] # Unknown BY <1>a, ConstantsAssumption DEF ShownOwner, ShownMembers, Known
  <2> QED BY <2>1 DEF TypeOK, DataType
<1>13. CASE PromoteLobbyMember
  <2> DEFINE l == Head(queue).lobby
             p == Head(queue).who
             w == [data[l].seen EXCEPT !.owner = p]
  <2>1. /\ l \in Lobby /\ p \in Peer /\ ShownOwner(l) = Me
        /\ Tell("data", l, None) /\ Registered([data EXCEPT ![l].seen.owner = p])
    BY <1>13, HeadLobby, HeadRequest, RequestShape, AdmittedMeans
    DEF PromoteLobbyMember, Runs, Idle, MayPromote
  <2> HIDE DEF l, p
  <2>2. w \in SeenType /\ w.members = data[l].seen.members BY <1>a, <2>1 DEF SeenType, Users
  <2>3. Registered(ShownAs(data, l, w)) BY <2>1 DEF ShownAs
  <2> HIDE DEF w
  <2> QED BY <1>2, <1>a, <2>1, <2>2, <2>3, ToldHasNews
<1>14. CASE ModifyLobbyAttributes
  <2> DEFINE l == Head(queue).lobby
             n == steam'[l].title
             w == [data[l].seen EXCEPT !.title = n]
  <2>1. /\ l \in Lobby /\ ShownOwner(l) = Me /\ Tell("data", l, None)
        /\ Registered([data EXCEPT ![l].seen.title = n]) \/ Registered(data)
    BY <1>14, HeadLobby, AdmittedMeans DEF ModifyLobbyAttributes, Runs, MayModify, Modifies, UpdateLobbyData
  <2> HIDE DEF l
  <2>2. n \in 0..1 BY <2>1, SteamStaysFine DEF SteamIsFine, LobbyType
  <2> HIDE DEF n
  <2>3. w \in SeenType /\ w.members = data[l].seen.members BY <1>a, <2>1, <2>2 DEF SeenType
  <2>4. Registered(ShownAs(data, l, w)) \/ Registered(data) BY <2>1 DEF ShownAs
  <2> HIDE DEF w
  <2> QED BY <1>1, <1>2, <1>a, <2>1, <2>3, <2>4, ToldHasNews
<1>15. CASE ModifyLobbyJoinPolicy
  <2> DEFINE l == Head(queue).lobby
             n == steam'[l].policy
             w == [data[l].seen EXCEPT !.policy = n]
  <2>1. /\ l \in Lobby /\ ShownOwner(l) = Me /\ Tell("data", l, None)
        /\ Registered([data EXCEPT ![l].seen.policy = n])
    BY <1>15, HeadLobby, AdmittedMeans DEF ModifyLobbyJoinPolicy, Runs, MayModify, Modifies, UpdateLobbyData
  <2> HIDE DEF l
  <2>2. n \in 0..1 BY <2>1, SteamStaysFine DEF SteamIsFine, LobbyType
  <2> HIDE DEF n
  <2>3. w \in SeenType /\ w.members = data[l].seen.members BY <1>a, <2>1, <2>2 DEF SeenType
  <2>4. Registered(ShownAs(data, l, w)) BY <2>1 DEF ShownAs
  <2> HIDE DEF w
  <2> QED BY <1>2, <1>a, <2>1, <2>3, <2>4, ToldHasNews
<1>16. CASE ModifyLobbyMemberAttributes
  <2> DEFINE l == Head(queue).lobby
             n == 1 - data[l].seen.note
             w == [data[l].seen EXCEPT !.note = n]
  <2>1. /\ l \in Lobby /\ Me \in ShownMembers(l)
        /\ Registered([data EXCEPT ![l].seen.note = 1 - @])
        /\ Me \in steam[l].members => Tell("data", l, None)
    BY <1>16, HeadLobby, AdmittedMeans DEF ModifyLobbyMemberAttributes, Runs, MayModifyMember
  <2> HIDE DEF l
  <2>2. n \in 0..1 BY <1>a, <2>1 DEF SeenType
  <2>4. Registered(ShownAs(data, l, w)) BY <2>1 DEF ShownAs
  <2> HIDE DEF n
  <2>3. w \in SeenType /\ w.members = data[l].seen.members BY <1>a, <2>1, <2>2 DEF SeenType
  <2> HIDE DEF w
  <2> QED BY <1>2, <1>a, <2>1, <2>3, <2>4, ToldHasNews
<1>17. CASE InviteReceived \/ JoinRequested
  BY <1>9, <1>17 DEF InviteReceived, JoinRequested, work, held
<1>18. CASE SteamLetsIn \/ SteamSearches \/ SteamRefuses \/ OnListenAddressChanged
  BY <1>1, <1>18 DEF SteamLetsIn, SteamSearches, SteamRefuses, Performed, OnListenAddressChanged
<1>b. ASSUME NEW r, SteamIsLate(r) \/ GameAsks(r) PROVE Goal
  BY <1>1, <1>b DEF SteamIsLate, GameAsks
<1>c. ASSUME NEW l \in Lobby, SteamCreates(l) \/ SteamDropsMe(l) \/ UserJoins(l) PROVE Goal
  BY <1>1, <1>c DEF SteamCreates, Performed, SteamDropsMe, UserJoins, OutsideOnly
<1>d. ASSUME NEW l \in Lobby, NEW p \in Peer,
             \/ PeerEnters(l, p) \/ PeerLeaves(l, p) \/ PeerInvites(l, p) \/ PeerKicks(l, p)
             \/ PeerPromotes(l, p) \/ PeerModifies(l, p)
      PROVE  Goal
  BY <1>1, <1>d DEF PeerEnters, PeerLeaves, PeerInvites, PeerKicks, PeerPromotes, PeerModifies, OutsideOnly
<1>19. Goal
  <2>1. CASE UNCHANGED vars BY <1>1, <2>1 DEF vars
  <2>2. CASE Runner BY <1>7, <1>10, <1>11, <1>13, <1>14, <1>15, <1>16, <2>2 DEF Runner
  <2>3. CASE Dispatcher BY <1>3, <1>4, <1>5, <1>6, <1>10, <1>12, <1>17, <2>3 DEF Dispatcher
  <2>4. CASE SteamAnswers BY <1>18, <1>b, <1>c, <2>4 DEF SteamAnswers
  <2>5. CASE Outside BY <1>18, <1>b, <1>c, <1>d, <2>5 DEF Outside
  <2> QED BY <1>10, <2>1, <2>2, <2>3, <2>4, <2>5 DEF Next
<1> QED BY <1>19

-----------------------------------------------------------------------------
(* The lobbies listed as joined, step by step.                             *)

Leaves(l) ==
  \/ LeaveLobby /\ l = Head(queue).lobby
  \/ LocalUserKicked /\ l = Head(inbox).lobby
  \/ ProcessNotification /\ l = Head(queue).lobby /\ Me \notin GetLobbySnapshot(steam, l, TRUE).members
  \/ JoinFails /\ l = op.lobby /\ Me \notin steam[l].members
Enters(l) ==
  /\ Me \in steam[l].members
  /\ \/ CreateSucceeds /\ l = Head(inbox).lobby
     \/ JoinSucceeds /\ l = op.lobby

\* What every step does with the lobbies that are listed as joined.
LEMMA ActiveStep ==
  ASSUME TypeOK, SteamIsFine, AnswersAreAwaited, [Next]_vars
  PROVE  \/ UNCHANGED <<active, presence>> /\ (UNCHANGED kicks \/ KickLobbyMember \/ MembershipChanged)
         \/ \E l \in Lobby : RemoveActiveLobby(l) /\ Leaves(l)
         \/ \E l \in Lobby : (AddActiveLobby(l, TRUE) \/ AddActiveLobby(l, FALSE)) /\ Enters(l)
<1> DEFINE Goal ==
      \/ UNCHANGED <<active, presence>> /\ (UNCHANGED kicks \/ KickLobbyMember \/ MembershipChanged)
      \/ \E l \in Lobby : RemoveActiveLobby(l) /\ Leaves(l)
      \/ \E l \in Lobby : (AddActiveLobby(l, TRUE) \/ AddActiveLobby(l, FALSE)) /\ Enters(l)
<1>1. ASSUME UNCHANGED held PROVE Goal BY <1>1 DEF held
<1>2. ASSUME NEW l \in Lobby, RemoveActiveLobby(l), Leaves(l) PROVE Goal BY <1>2
<1>3. ASSUME NEW l \in Lobby, NEW b \in BOOLEAN, AddActiveLobby(l, b), Enters(l) PROVE Goal
  <2>1. CASE b = TRUE BY <1>3, <2>1
  <2>2. CASE b = FALSE BY <1>3, <2>2
  <2> QED BY <2>1, <2>2
<1> SUFFICES Goal OBVIOUS
<1>4. CASE KickLobbyMember \/ MembershipChanged
  BY <1>4 DEF KickLobbyMember, MembershipChanged
<1> HIDE DEF Goal
<1>5. CASE LeaveLobby
  <2>1. Head(queue).lobby \in Lobby /\ RemoveActiveLobby(Head(queue).lobby)
    BY <1>5, HeadLobby DEF LeaveLobby
  <2> QED BY <1>2, <1>5, <2>1 DEF Leaves
<1>6. CASE LocalUserKicked
  <2>1. Head(inbox).lobby \in Lobby /\ RemoveActiveLobby(Head(inbox).lobby)
    BY <1>6, HeadMessage, MessageShape DEF LocalUserKicked
  <2> QED BY <1>2, <1>6, <2>1 DEF Leaves
<1>7. CASE ProcessNotification
  <2> DEFINE l == Head(queue).lobby
  <2>1. l \in Lobby BY <1>7, HeadLobby DEF ProcessNotification
  <2>2. CASE Me \in ShownMembers(l) \ GetLobbySnapshot(steam, l, TRUE).members
    <3>1. RemoveActiveLobby(l) BY <1>7, <2>2 DEF ProcessNotification
    <3>2. Leaves(l) BY <1>7, <2>2 DEF Leaves
    <3> QED BY <1>2, <2>1, <3>1, <3>2
  <2>3. CASE ~(Me \in ShownMembers(l) \ GetLobbySnapshot(steam, l, TRUE).members)
    <3>1. UNCHANGED held BY <1>7, <2>3 DEF ProcessNotification
    <3> QED BY <1>1, <3>1
  <2> QED BY <2>2, <2>3
<1>8. CASE JoinFails
  <2>1. op.lobby \in Lobby BY <1>8, AwaitedOperation DEF JoinFails
  <2>2. CASE Me \in ShownMembers(op.lobby) \ steam[op.lobby].members
    <3>1. RemoveActiveLobby(op.lobby) BY <1>8, <2>2 DEF JoinFails
    <3>2. Leaves(op.lobby) BY <1>8, <2>2 DEF Leaves
    <3> QED BY <1>2, <2>1, <3>1, <3>2
  <2>3. CASE ~(Me \in ShownMembers(op.lobby) \ steam[op.lobby].members)
    <3>1. UNCHANGED held BY <1>8, <2>3 DEF JoinFails
    <3> QED BY <1>1, <3>1
  <2> QED BY <2>2, <2>3
<1>9. CASE CreateSucceeds
  <2>1. /\ op \in RequestType /\ Head(inbox).lobby \in Lobby
        /\ AddActiveLobby(Head(inbox).lobby, op.flag) /\ Me \in steam[Head(inbox).lobby].members
    BY <1>9, AwaitedOperation DEF CreateSucceeds
  <2>2. op.flag \in BOOLEAN BY <2>1, RequestShape
  <2> QED BY <1>3, <1>9, <2>1, <2>2 DEF Enters
<1>10. CASE JoinSucceeds
  <2>1. /\ op \in RequestType /\ op.lobby \in Lobby
        /\ AddActiveLobby(op.lobby, op.flag) /\ Me \in steam[op.lobby].members
    BY <1>10, AwaitedOperation DEF JoinSucceeds
  <2>2. op.flag \in BOOLEAN BY <2>1, RequestShape
  <2> QED BY <1>3, <1>10, <2>1, <2>2 DEF Enters
<1>11. CASE TurnedAway \/ PromoteLobbyMember \/ ModifyLobbyAttributes \/ ModifyLobbyJoinPolicy
           \/ ModifyLobbyMemberAttributes \/ ModifyRefused \/ InviteLobbyMember
           \/ DeclineLobbyInvitation \/ Logout \/ AskCreate \/ AskJoin \/ FindLobbies
           \/ CreateFails \/ CreateUnprepared \/ CallRefused \/ SearchAnswered \/ TimesOut
           \/ DataChanged \/ KickIgnored \/ InviteReceived \/ JoinRequested
  BY <1>1, <1>11 DEF TurnedAway, PromoteLobbyMember, ModifyLobbyAttributes, ModifyLobbyJoinPolicy,
       ModifyLobbyMemberAttributes, ModifyRefused, InviteLobbyMember, DeclineLobbyInvitation, Logout,
       AskCreate, AskJoin, FindLobbies, CreateFails, CreateUnprepared, CallRefused, SearchAnswered, TimesOut,
       DataChanged, KickIgnored, InviteReceived, JoinRequested
<1>12. CASE SteamLetsIn \/ SteamSearches \/ SteamRefuses \/ OnListenAddressChanged
  BY <1>1, <1>12 DEF SteamLetsIn, SteamSearches, SteamRefuses, Performed, OnListenAddressChanged
<1>13. ASSUME NEW r, SteamIsLate(r) \/ GameAsks(r) PROVE Goal
  BY <1>1, <1>13 DEF SteamIsLate, GameAsks
<1>14. ASSUME NEW l \in Lobby, SteamCreates(l) \/ SteamDropsMe(l) \/ UserJoins(l) PROVE Goal
  BY <1>1, <1>14 DEF SteamCreates, Performed, SteamDropsMe, UserJoins, OutsideOnly
<1>15. ASSUME NEW l \in Lobby, NEW p \in Peer,
              \/ PeerEnters(l, p) \/ PeerLeaves(l, p) \/ PeerInvites(l, p) \/ PeerKicks(l, p)
              \/ PeerPromotes(l, p) \/ PeerModifies(l, p)
       PROVE  Goal
  BY <1>1, <1>15 DEF PeerEnters, PeerLeaves, PeerInvites, PeerKicks, PeerPromotes, PeerModifies, OutsideOnly
<1>16. CASE UNCHANGED vars BY <1>1, <1>16 DEF vars
<1>17. CASE Runner BY <1>4, <1>5, <1>7, <1>11, <1>17 DEF Runner
<1>18. CASE Dispatcher BY <1>4, <1>6, <1>8, <1>9, <1>10, <1>11, <1>18 DEF Dispatcher
<1>19. CASE SteamAnswers BY <1>12, <1>13, <1>14, <1>19 DEF SteamAnswers
<1>20. CASE Outside BY <1>12, <1>13, <1>14, <1>15, <1>20 DEF Outside
<1> QED BY <1>11, <1>16, <1>17, <1>18, <1>19, <1>20 DEF Next

\* The kicks that are remembered are of peers.
LEMMA KicksTyped ==
  ASSUME TypeOK, SteamIsFine, AnswersAreAwaited, [Next]_vars
  PROVE  kicks' \in [Lobby -> SUBSET Peer]
<1>1. kicks \in [Lobby -> SUBSET Peer] BY DEF TypeOK
<1>2. CASE UNCHANGED kicks BY <1>1, <1>2
<1>3. CASE KickLobbyMember
  <2>1. Head(queue).who \in Peer /\ Head(queue).lobby \in Lobby
    BY <1>3, HeadRequest, RequestShape DEF KickLobbyMember, Runs, Idle
  <2>2. kicks' = [kicks EXCEPT ![Head(queue).lobby] = @ \cup {Head(queue).who}] BY <1>3 DEF KickLobbyMember
  <2> QED BY <1>1, <2>1, <2>2
<1>4. CASE MembershipChanged
  <2>1. kicks' = kicks \/ kicks' = [kicks EXCEPT ![Head(inbox).lobby] = @ \ {Head(inbox).who}]
    BY <1>4 DEF MembershipChanged
  <2> QED BY <1>1, <2>1
<1>5. ASSUME NEW l \in Lobby, RemoveActiveLobby(l) PROVE kicks' \in [Lobby -> SUBSET Peer]
  BY <1>1, <1>5 DEF RemoveActiveLobby
<1>6. ASSUME NEW l \in Lobby, NEW b, AddActiveLobby(l, b) PROVE kicks' \in [Lobby -> SUBSET Peer]
  BY <1>1, <1>6 DEF AddActiveLobby
<1> QED BY <1>2, <1>3, <1>4, <1>5, <1>6, ActiveStep

\* What failed once is not forgotten.
LEMMA AdriftStep ==
  ASSUME TypeOK, SteamIsFine, AnswersAreAwaited, [Next]_vars
  PROVE  adrift' \subseteq Lobby /\ adrift \subseteq adrift'
<1> DEFINE Goal == adrift' \subseteq Lobby /\ adrift \subseteq adrift'
<1>1. ASSUME UNCHANGED adrift PROVE Goal BY <1>1 DEF TypeOK
<1>2. ASSUME NEW l \in Lobby, adrift' = adrift \cup {l} PROVE Goal BY <1>2 DEF TypeOK
<1>3. ASSUME NEW l \in Lobby, LeaveLobbyDuringJoin(l) PROVE Goal
  <2>1. UNCHANGED adrift \/ adrift' = adrift \cup {l} BY <1>3 DEF LeaveLobbyDuringJoin
  <2> QED BY <1>1, <1>2, <2>1
<1> SUFFICES Goal OBVIOUS
<1> HIDE DEF Goal
<1>4. CASE CreateUnprepared
  <2>1. Head(inbox).lobby \in Lobby /\ adrift' = adrift \cup {Head(inbox).lobby}
    BY <1>4, AwaitedOperation DEF CreateUnprepared
  <2> QED BY <1>2, <2>1
<1>5. CASE JoinFails
  BY <1>3, <1>5, AwaitedOperation DEF JoinFails
<1>6. CASE CallRefused
  <2>1. CASE op.do = "Join"
    <3>1. op.lobby \in Lobby BY <1>6, <2>1, AwaitedOperation DEF CallRefused
    <3>2. LeaveLobbyDuringJoin(op.lobby) BY <1>6, <2>1 DEF CallRefused
    <3> QED BY <1>3, <3>1, <3>2
  <2>2. CASE op.do # "Join" BY <1>1, <1>6, <2>2 DEF CallRefused
  <2> QED BY <2>1, <2>2
<1>7. CASE TimesOut
  <2>1. CASE op.do = "Join"
    <3>1. op.lobby \in Lobby BY <1>7, <2>1, AwaitedOperation DEF TimesOut
    <3>2. LeaveLobbyDuringJoin(op.lobby) BY <1>7, <2>1 DEF TimesOut
    <3> QED BY <1>3, <3>1, <3>2
  <2>2. CASE op.do # "Join"
    <3>1. adrift' = adrift \cup {inbox[i].lobby : i \in {j \in 1..Len(inbox) : inbox[j].what = "created"}}
      BY <1>7, <2>2 DEF TimesOut
    <3>2. \A i \in 1..Len(inbox) : inbox[i].what = "created" => inbox[i].lobby \in Lobby
      <4>1. \A i \in 1..Len(inbox) : inbox[i] \in MessageType BY DEF TypeOK
      <4> QED BY <4>1, MessageShape
    <3>3. {inbox[i].lobby : i \in {j \in 1..Len(inbox) : inbox[j].what = "created"}} \subseteq Lobby
      BY <3>2
    <3> QED BY <3>1, <3>3 DEF Goal, TypeOK
  <2> QED BY <2>1, <2>2
<1>8. CASE LocalUserKicked
  <2>1. Head(inbox).lobby \in Lobby BY <1>8, HeadMessage, MessageShape DEF LocalUserKicked
  <2>2. UNCHANGED adrift \/ adrift' = adrift \cup {Head(inbox).lobby} BY <1>8 DEF LocalUserKicked
  <2> QED BY <1>1, <1>2, <2>1, <2>2
<1>9. ASSUME NEW r, SteamIsLate(r) PROVE Goal
  <2>1. \E l \in Lobby : UNCHANGED adrift \/ adrift' = adrift \cup {l} BY <1>9 DEF SteamIsLate
  <2> QED BY <1>1, <1>2, <2>1
<1>10. CASE TurnedAway \/ LeaveLobby \/ KickLobbyMember \/ PromoteLobbyMember \/ ModifyLobbyAttributes
           \/ ModifyLobbyJoinPolicy \/ ModifyLobbyMemberAttributes \/ ModifyRefused \/ InviteLobbyMember
           \/ DeclineLobbyInvitation \/ ProcessNotification \/ Logout \/ AskCreate \/ AskJoin \/ FindLobbies
           \/ CreateFails \/ CreateSucceeds \/ JoinSucceeds \/ SearchAnswered
           \/ MembershipChanged \/ DataChanged \/ KickIgnored \/ InviteReceived \/ JoinRequested
  BY <1>1, <1>10 DEF TurnedAway, LeaveLobby, KickLobbyMember, PromoteLobbyMember, ModifyLobbyAttributes,
       ModifyLobbyJoinPolicy, ModifyLobbyMemberAttributes, ModifyRefused, InviteLobbyMember,
       DeclineLobbyInvitation, ProcessNotification, Logout, AskCreate, AskJoin, FindLobbies,
       CreateFails, CreateSucceeds, JoinSucceeds, SearchAnswered,
       MembershipChanged, DataChanged, KickIgnored, InviteReceived, JoinRequested
<1>11. CASE SteamLetsIn \/ SteamSearches \/ SteamRefuses \/ OnListenAddressChanged
  BY <1>1, <1>11 DEF SteamLetsIn, SteamSearches, SteamRefuses, Performed, OnListenAddressChanged
<1>12. ASSUME NEW r, GameAsks(r) PROVE Goal
  BY <1>1, <1>12 DEF GameAsks
<1>13. ASSUME NEW l \in Lobby, SteamCreates(l) \/ SteamDropsMe(l) \/ UserJoins(l) PROVE Goal
  BY <1>1, <1>13 DEF SteamCreates, Performed, SteamDropsMe, UserJoins, OutsideOnly
<1>14. ASSUME NEW l \in Lobby, NEW p \in Peer,
              \/ PeerEnters(l, p) \/ PeerLeaves(l, p) \/ PeerInvites(l, p) \/ PeerKicks(l, p)
              \/ PeerPromotes(l, p) \/ PeerModifies(l, p)
       PROVE  Goal
  BY <1>1, <1>14 DEF PeerEnters, PeerLeaves, PeerInvites, PeerKicks, PeerPromotes, PeerModifies, OutsideOnly
<1>15. CASE UNCHANGED vars BY <1>1, <1>15 DEF vars
<1>16. CASE Runner BY <1>10, <1>16 DEF Runner
<1>17. CASE Dispatcher BY <1>4, <1>5, <1>6, <1>8, <1>10, <1>17 DEF Dispatcher
<1>18. CASE SteamAnswers BY <1>9, <1>11, <1>13, <1>18 DEF SteamAnswers
<1>19. CASE Outside BY <1>11, <1>12, <1>13, <1>14, <1>19 DEF Outside
<1> QED BY <1>7, <1>15, <1>16, <1>17, <1>18, <1>19 DEF Next

\* Invitations and results are of lobbies, what Steam is late with is a request, and the
\* rest is what it was or one step on.
LEMMA RestTyped ==
  ASSUME TypeOK, SteamIsFine, AnswersAreAwaited, [Next]_vars
  PROVE  /\ invites' \subseteq Lobby /\ found' \subseteq Lobby
         /\ login' \in BOOLEAN /\ listening' \in BOOLEAN
         /\ late' \subseteq RequestType /\ moves' \in 0..MaxMoves
<1> DEFINE Goal == /\ invites' \subseteq Lobby /\ found' \subseteq Lobby
                   /\ login' \in BOOLEAN /\ listening' \in BOOLEAN
                   /\ late' \subseteq RequestType /\ moves' \in 0..MaxMoves
<1>1. ASSUME invites' = invites \/ invites' \subseteq Lobby, found' = found \/ found' \subseteq Lobby,
             login' = login \/ login' = FALSE, listening' = listening \/ listening' = TRUE,
             late' = late \/ late' \subseteq RequestType, moves' = moves \/ Moves
      PROVE  Goal
  <2>1. moves' \in 0..MaxMoves BY <1>1, ConstantsAssumption DEF Moves, TypeOK
  <2> QED BY <1>1, <2>1 DEF TypeOK
<1> SUFFICES Goal OBVIOUS
<1> HIDE DEF Goal
<1>2. CASE TurnedAway \/ LeaveLobby \/ KickLobbyMember \/ PromoteLobbyMember \/ ModifyLobbyAttributes
           \/ ModifyLobbyJoinPolicy \/ ModifyLobbyMemberAttributes \/ ModifyRefused \/ InviteLobbyMember
           \/ ProcessNotification \/ AskCreate \/ AskJoin
           \/ CreateFails \/ CreateUnprepared \/ CreateSucceeds \/ CallRefused \/ JoinFails
           \/ MembershipChanged \/ DataChanged \/ LocalUserKicked \/ KickIgnored \/ JoinRequested
  BY <1>1, <1>2 DEF TurnedAway, LeaveLobby, KickLobbyMember, PromoteLobbyMember, ModifyLobbyAttributes,
       ModifyLobbyJoinPolicy, ModifyLobbyMemberAttributes, ModifyRefused, InviteLobbyMember,
       ProcessNotification, AskCreate, AskJoin, CreateFails, CreateUnprepared, CreateSucceeds, CallRefused,
       JoinFails, MembershipChanged, DataChanged, LocalUserKicked, KickIgnored, JoinRequested
<1>3. CASE Logout BY <1>1, <1>3 DEF Logout
<1>4. CASE DeclineLobbyInvitation
  <2>1. invites' \subseteq Lobby BY <1>4 DEF DeclineLobbyInvitation, RemoveActiveInvite, TypeOK
  <2> QED BY <1>1, <1>4, <2>1 DEF DeclineLobbyInvitation
<1>5. CASE JoinSucceeds
  <2>1. invites' \subseteq Lobby BY <1>5 DEF JoinSucceeds, RemoveActiveInvite, TypeOK
  <2> QED BY <1>1, <1>5, <2>1 DEF JoinSucceeds
<1>6. CASE InviteReceived
  <2>1. Head(inbox).lobby \in Lobby BY <1>6, HeadMessage, MessageShape DEF InviteReceived
  <2>2. invites' \subseteq Lobby BY <1>6, <2>1 DEF InviteReceived, AddActiveInvite, TypeOK
  <2> QED BY <1>1, <1>6, <2>2 DEF InviteReceived
<1>7. CASE SearchAnswered
  <2>1. found' \subseteq Lobby BY <1>7 DEF SearchAnswered
  <2> QED BY <1>1, <1>7, <2>1 DEF SearchAnswered
<1>8. CASE FindLobbies BY <1>1, <1>8 DEF FindLobbies
<1>9. CASE TimesOut
  <2>1. late' \subseteq RequestType BY <1>9, AwaitedOperation DEF TimesOut, TypeOK
  <2> QED BY <1>1, <1>9, <2>1 DEF TimesOut
<1>10. CASE SteamLetsIn \/ SteamSearches \/ SteamRefuses
  BY <1>1, <1>10 DEF SteamLetsIn, SteamSearches, SteamRefuses, Performed
<1>11. CASE OnListenAddressChanged BY <1>1, <1>11 DEF OnListenAddressChanged
<1>12. ASSUME NEW r, SteamIsLate(r) PROVE Goal
  <2>1. late' \subseteq RequestType BY <1>12 DEF SteamIsLate, TypeOK
  <2> QED BY <1>1, <1>12, <2>1 DEF SteamIsLate
<1>13. ASSUME NEW r, GameAsks(r) PROVE Goal BY <1>1, <1>13 DEF GameAsks
<1>14. ASSUME NEW l \in Lobby, SteamCreates(l) \/ SteamDropsMe(l) \/ UserJoins(l) PROVE Goal
  BY <1>1, <1>14 DEF SteamCreates, Performed, SteamDropsMe, UserJoins, OutsideOnly
<1>15. ASSUME NEW l \in Lobby, NEW p \in Peer,
              \/ PeerEnters(l, p) \/ PeerLeaves(l, p) \/ PeerInvites(l, p) \/ PeerKicks(l, p)
              \/ PeerPromotes(l, p) \/ PeerModifies(l, p)
       PROVE  Goal
  BY <1>1, <1>15 DEF PeerEnters, PeerLeaves, PeerInvites, PeerKicks, PeerPromotes, PeerModifies, OutsideOnly
<1>16. CASE UNCHANGED vars BY <1>1, <1>16 DEF vars
<1>17. CASE Runner BY <1>2, <1>3, <1>4, <1>8, <1>17 DEF Runner
<1>18. CASE Dispatcher BY <1>2, <1>5, <1>6, <1>7, <1>18 DEF Dispatcher
<1>19. CASE SteamAnswers BY <1>10, <1>12, <1>14, <1>19 DEF SteamAnswers
<1>20. CASE Outside BY <1>11, <1>13, <1>14, <1>15, <1>20 DEF Outside
<1> QED BY <1>9, <1>16, <1>17, <1>18, <1>19, <1>20 DEF Next

\* Every step keeps the types.
LEMMA TypesStay ==
  ASSUME TypeOK, SteamIsFine, AnswersAreAwaited, [Next]_vars
  PROVE  TypeOK'
<1>1. queue' \in Seq(RequestType) BY QueueStep, Longer, Shorter DEF TypeOK, IsPopped
<1>2. active' \subseteq Lobby /\ presence' \in Lobby \cup {None}
  BY ActiveStep DEF TypeOK, RemoveActiveLobby, AddActiveLobby
<1>3. steam' \in [Lobby -> LobbyType] BY SteamStaysFine DEF SteamIsFine
<1>4. data' \in [Lobby -> DataType \cup {Unknown}] BY DataStep DEF DataTyped
<1> QED BY <1>1, <1>2, <1>3, <1>4, KicksTyped, PipeTyped, AdriftStep, RestTyped DEF TypeOK

-----------------------------------------------------------------------------
(* The inductive invariant, part by part.                                  *)

\* What is in the pipe was there before, or is what was said last.
LEMMA OldOrNew ==
  ASSUME TypeOK, SteamIsFine, AnswersAreAwaited, [Next]_vars, NEW i \in 1..Len(inbox')
  PROVE  \/ \E j \in 1..Len(inbox) : inbox'[i] = inbox[j]
         \/ \E m \in MessageType : inbox'[i] = m /\ i = Len(inbox) + 1 /\ (Tells(m) \/ Performs(m))
<1> DEFINE Old == \E j \in 1..Len(inbox) : inbox'[i] = inbox[j]
<1>1. inbox \in Seq(MessageType) BY DEF TypeOK
<1>2. ASSUME UNCHANGED inbox PROVE Old BY <1>2
<1>3. ASSUME inbox # <<>>, inbox' = Tail(inbox) PROVE Old
  <2>1. i + 1 \in 1..Len(inbox) /\ inbox'[i] = inbox[i + 1] BY <1>1, <1>3, Shorter
  <2> QED BY <2>1
<1>4. ASSUME NEW k \in 1..Len(inbox), inbox' = RemoveAt(inbox, k) PROVE Old
  <2>1. /\ Len(inbox') = Len(inbox) - 1 /\ Len(inbox) \in Nat
        /\ inbox'[i] = IF i < k THEN inbox[i] ELSE inbox[i + 1]
    BY <1>1, <1>4, OneLess
  <2>2. i \in 1..Len(inbox) /\ i + 1 \in 1..Len(inbox) BY <2>1
  <2> QED BY <2>1, <2>2
<1>5. ASSUME NEW m \in MessageType, Tells(m) \/ Performs(m)
      PROVE  Old \/ (inbox'[i] = m /\ i = Len(inbox) + 1)
  <2>1. inbox' = Append(inbox, m) BY <1>5 DEF Tells, Performs
  <2>2. (i \in 1..Len(inbox) /\ inbox'[i] = inbox[i]) \/ (i = Len(inbox) + 1 /\ inbox'[i] = m)
    BY <1>1, <2>1, Longer
  <2> QED BY <2>2
<1> QED BY <1>2, <1>3, <1>4, <1>5, PipeStep
    DEF Quiet, Asks, Hears, IsAnswered, Answered, Expires, WithoutAnswer

\* Nothing is heard of a lobby before it is opened.
LEMMA BornStays ==
  ASSUME TypeOK, SteamIsFine, AnswersAreAwaited, BornFirst, [Next]_vars
  PROVE  BornFirst'
<1>1. StaysBorn BY SteamStaysFine
<1>2. inbox \in Seq(MessageType) /\ \A i \in 1..Len(inbox) : inbox[i] \in MessageType BY DEF TypeOK
<1>3. ASSUME NEW l \in Lobby, Read(l) PROVE Born(l)
  <2>1. inbox # <<>> => 1 \in 1..Len(inbox) BY <1>2, Shorter
  <2> QED BY <1>3, <2>1 DEF Read, BornFirst
<1>4. ASSUME NEW l \in Lobby, data'[l] # Unknown PROVE Born(l)'
  <2>1. data[l] # Unknown \/ Read(l)
    BY <1>4, DataStep DEF DataOf, DataKept, GivenUp, Retold, Reread, Joined, Unjoined, Made, Noticed
  <2> QED BY <1>1, <1>3, <2>1 DEF BornFirst, Known, StaysBorn
<1>5. ASSUME NEW l \in Lobby, l \in active' PROVE Born(l)'
  <2>1. l \in active \/ Me \in steam[l].members
    BY <1>5, ActiveStep DEF RemoveActiveLobby, AddActiveLobby, Enters
  <2>2. Me \in steam[l].members => Born(l)
    <3>1. Fine(steam[l]) BY DEF SteamIsFine
    <3> QED BY <3>1 DEF Fine, Born
  <2> QED BY <1>1, <2>1, <2>2 DEF BornFirst, StaysBorn
<1>6. ASSUME NEW i \in 1..Len(inbox'), inbox'[i].what \notin {"refused", "listed"} PROVE steam'[inbox'[i].lobby].born
  <2>1. CASE \E j \in 1..Len(inbox) : inbox'[i] = inbox[j]
    <3>1. PICK j \in 1..Len(inbox) : inbox'[i] = inbox[j] BY <2>1
    <3>2. Born(inbox'[i].lobby) /\ inbox'[i].lobby \in Lobby
      BY <1>2, <1>6, <3>1, MessageShape DEF BornFirst
    <3> QED BY <1>1, <3>2 DEF StaysBorn, Born
  <2>2. ASSUME NEW m \in MessageType, inbox'[i] = m, Tells(m) \/ Performs(m) PROVE steam'[inbox'[i].lobby].born
    <3>1. m.lobby \in Lobby BY <1>6, <2>2, MessageShape
    <3>2. m.what = "created" \/ Born(m.lobby)
      BY <1>6, <2>2 DEF Tells, Performs, Answers
    <3>3. ASSUME m.what = "created" PROVE Born(m.lobby)'
      <4>1. SteamCreates(m.lobby) BY <2>2, <3>3 DEF Tells, Performs, Answers
      <4>2. Opened(Me).born BY OpenedIsSound DEF Users
      <4> QED BY <3>1, <4>1, <4>2 DEF SteamCreates, Born, SteamIsFine
    <3> QED BY <1>1, <2>2, <3>1, <3>2, <3>3 DEF StaysBorn, Born
  <2> QED BY <2>1, <2>2, OldOrNew
<1> QED BY <1>4, <1>5, <1>6 DEF BornFirst, Known, Born

\* What becomes of one lobby at Steam.
Same(k) ==
  /\ \A f \in {"members", "owner", "title", "policy", "note"} : steam'[k][f] = steam[k][f]
  /\ steam'[k].owner = Me =>
       steam'[k].count = steam[k].count \/ steam'[k].count = Cardinality(steam'[k].members)
Told(k) ==
  /\ NewsOf(k)' /\ Me \in steam[k].members /\ Me \in steam'[k].members
  /\ steam[k].owner = Me => steam'[k].owner = Me \/ op = None
  /\ \/ Moved(k)' \/ steam'[k].owner # Me
     \/ /\ steam'[k].members = steam[k].members /\ steam'[k].count = steam[k].count
        /\ steam[k].owner \in Users
GivenBack(k) ==
  /\ Me \notin steam'[k].members
  /\ \/ k \notin active' \/ k \in adrift' \/ Departing(k)'
     \/ CreateFails /\ k = Head(inbox).lobby
Entered(k) ==
  /\ Me \notin steam[k].members
  /\ \/ SteamCreates(k) \/ Me \notin steam'[k].members \/ k \in adrift'
     \/ SteamLetsIn /\ op.lobby = k /\ steam'[k].owner = steam[k].owner
SteamOf(k) == Same(k) \/ Told(k) \/ GivenBack(k) \/ Entered(k)

\* The user gives a lobby back that was to be joined.
LEMMA GivenBackDuringJoin ==
  ASSUME TypeOK, SteamIsFine, AnswersAreAwaited, NEW l \in Lobby, op # None, LeaveLobbyDuringJoin(l), active' \subseteq active
  PROVE  /\ \A k \in Lobby : SteamOf(k)
         /\ Me \notin steam'[l].members
<1>1. login BY AwaitedOperation
<1>2. /\ \A k \in Lobby : k # l => steam'[k] = steam[k]
      /\ Me \notin steam'[l].members
  BY <1>1, LeavingIsFine DEF LeaveLobbyDuringJoin
<1>3. \A k \in Lobby : k # l => Same(k) BY <1>2 DEF Same
<1>4. GivenBack(l) \/ Entered(l) BY <1>2 DEF LeaveLobbyDuringJoin, GivenBack, Entered
<1> QED BY <1>2, <1>3, <1>4 DEF SteamOf

\* Somebody enters a lobby, or tries to once more.
LEMMA EnteredOrSame ==
  ASSUME SteamIsFine, NEW l \in Lobby, NEW u \in Users, steam' = [steam EXCEPT ![l] = With(steam[l], u)]
  PROVE  /\ \A k \in Lobby : k # l => Same(k)
         /\ steam'[l].members = steam[l].members \cup {u} /\ steam'[l].owner = steam[l].owner
         /\ u \in steam[l].members => Same(l)
<1>1. Sound(steam[l]) /\ Fine(steam[l]) BY DEF SteamIsFine, Fine
<1> DEFINE r == With(steam[l], u)
<1>2. /\ r.members = steam[l].members \cup {u}
      /\ \A f \in {"born", "owner", "title", "policy", "note", "server"} : r[f] = steam[l][f]
      /\ steam[l].owner \notin Peer => r.count = steam[l].count
  BY <1>1, WithKeeps
<1> HIDE DEF r
<1>3. \A k \in Lobby : steam'[k] = IF k = l THEN r ELSE steam[k] BY DEF SteamIsFine, r
<1>4. Me \notin Peer BY ConstantsAssumption
<1> QED BY <1>2, <1>3, <1>4 DEF Same

\* What every step does with each lobby at Steam.
LEMMA SteamStep ==
  ASSUME TypeOK, SteamIsFine, AnswersAreAwaited, [Next]_vars
  PROVE  \A k \in Lobby : SteamOf(k)
<1> DEFINE Goal == \A k \in Lobby : SteamOf(k)
<1> SUFFICES Goal OBVIOUS
<1>1. ASSUME UNCHANGED steam PROVE Goal BY <1>1 DEF SteamOf, Same
<1>2. ASSUME NEW l \in Lobby, SteamOf(l), \A k \in Lobby : k # l => steam'[k] = steam[k] PROVE Goal
  BY <1>2 DEF SteamOf, Same
<1>3. ASSUME NEW l \in Lobby, NEW r, steam' = [steam EXCEPT ![l] = r]
      PROVE  steam'[l] = r /\ \A k \in Lobby : k # l => steam'[k] = steam[k]
  BY <1>3 DEF SteamIsFine
<1>4. ASSUME NEW l \in Lobby, LeaveLobbyDuringJoin(l), op # None, active' \subseteq active PROVE Goal
  BY <1>4, GivenBackDuringJoin
<1>5. ASSUME NEW l \in Lobby, steam' = Published(steam, l) \/ steam' = Published(Bound(steam, l), l) PROVE Goal
  <2>1. /\ \A k \in Lobby : \A f \in {"members", "owner", "title", "policy", "note"} : steam'[k][f] = steam[k][f]
        /\ \A k \in Lobby : k # l => steam'[k] = steam[k]
        /\ steam[l].owner = Me => steam'[l].count = Cardinality(steam[l].members)
    BY <1>5, PublishedIsFine
  <2>2. Same(l) BY <2>1 DEF Same
  <2> QED BY <1>2, <2>1, <2>2 DEF SteamOf
<1>6. Me \in Users /\ Peer \subseteq Users /\ Me \notin Peer /\ None \notin Users BY ConstantsAssumption DEF Users
<1>7. ASSUME NEW l \in Lobby
      PROVE  /\ steam[l] \in LobbyType /\ (steam[l].members # {} => steam[l].owner \in steam[l].members)
             /\ (steam[l].owner = Me => Me \in steam[l].members) /\ steam[l].members \subseteq Users
             /\ (~Born(l) => Me \notin steam[l].members)
  BY <1>6 DEF SteamIsFine, Fine, Born, LobbyType
<1>8. ASSUME NEW l \in Lobby, NEW r, Me \in steam[l].members, Tell("data", l, None), steam' = [steam EXCEPT ![l] = r],
             r.members = steam[l].members, r.owner # Me \/ r.count = steam[l].count,
             steam[l].owner = Me => r.owner = Me \/ op = None
      PROVE  Goal
  <2>1. NewsOf(l)' /\ steam[l].owner \in Users BY <1>7, <1>8, ToldHasNews
  <2>2. Told(l) BY <1>3, <1>8, <2>1 DEF Told
  <2> QED BY <1>2, <1>3, <1>8, <2>2 DEF SteamOf
<1> HIDE DEF Goal
<1>9. CASE LeaveLobby
  <2> DEFINE l == Head(queue).lobby
  <2>1. l \in Lobby /\ login /\ LeaveLobbyImpl(l) /\ l \notin active'
    BY <1>9, HeadLobby, AdmittedMeans DEF LeaveLobby, Runs, MayLeave, RemoveActiveLobby
  <2> HIDE DEF l
  <2>2. /\ \A k \in Lobby : k # l => steam'[k] = steam[k]
        /\ Me \notin steam'[l].members
    BY <2>1, LeavingIsFine
  <2>3. GivenBack(l) BY <2>1, <2>2 DEF GivenBack
  <2> QED BY <1>2, <2>1, <2>2, <2>3 DEF SteamOf
<1>10. CASE PromoteLobbyMember
  <2> DEFINE l == Head(queue).lobby
             p == Head(queue).who
             r == Counted([steam[l] EXCEPT !.owner = p])
  <2>1. /\ l \in Lobby /\ p \in Peer /\ steam[l].owner = Me /\ Tell("data", l, None) /\ steam' = [steam EXCEPT ![l] = r]
        /\ op = None
    BY <1>10, HeadLobby, HeadRequest, RequestShape, AdmittedMeans
    DEF PromoteLobbyMember, Runs, Idle, MayPromote, SetLobbyOwner
  <2> HIDE DEF l, p
  <2>2. r.members = steam[l].members /\ r.owner # Me
    <3> DEFINE q == [steam[l] EXCEPT !.owner = p]
    <3>1. Sound(q) BY <1>6, <2>1, ChangedIsSound DEF SteamIsFine, Fine
    <3>2. q.members = steam[l].members /\ q.owner = p BY <1>7, <2>1 DEF LobbyType
    <3> HIDE DEF q
    <3>3. Counted(q).members = q.members /\ Counted(q).owner = q.owner BY <3>1, CountedKeeps
    <3> QED BY <1>6, <2>1, <3>2, <3>3 DEF q
  <2> HIDE DEF r
  <2> QED BY <1>7, <1>8, <2>1, <2>2
<1>11. CASE ModifyLobbyAttributes
  <2> DEFINE l == Head(queue).lobby
             r == [steam[l] EXCEPT !.title = 1 - @]
  <2>1. l \in Lobby /\ steam[l].owner = Me /\ Tell("data", l, None) /\ steam' = [steam EXCEPT ![l] = r]
    BY <1>11, HeadLobby DEF ModifyLobbyAttributes, UpdateLobbyData
  <2> HIDE DEF l
  <2>2. r.members = steam[l].members /\ r.count = steam[l].count /\ r.owner = steam[l].owner BY <1>7, <2>1 DEF LobbyType
  <2> HIDE DEF r
  <2> QED BY <1>7, <1>8, <2>1, <2>2
<1>12. CASE ModifyLobbyJoinPolicy
  <2> DEFINE l == Head(queue).lobby
             r == [steam[l] EXCEPT !.policy = 1 - @]
  <2>1. l \in Lobby /\ steam[l].owner = Me /\ Tell("data", l, None) /\ steam' = [steam EXCEPT ![l] = r]
    BY <1>12, HeadLobby DEF ModifyLobbyJoinPolicy, UpdateLobbyData
  <2> HIDE DEF l
  <2>2. r.members = steam[l].members /\ r.count = steam[l].count /\ r.owner = steam[l].owner BY <1>7, <2>1 DEF LobbyType
  <2> HIDE DEF r
  <2> QED BY <1>7, <1>8, <2>1, <2>2
<1>13. CASE ModifyLobbyMemberAttributes
  <2> DEFINE l == Head(queue).lobby
             r == [steam[l] EXCEPT !.note = 1 - @]
  <2>1. /\ l \in Lobby
        /\ Me \in steam[l].members => Tell("data", l, None) /\ steam' = [steam EXCEPT ![l] = r]
        /\ Me \notin steam[l].members => UNCHANGED steam
    BY <1>13, HeadLobby DEF ModifyLobbyMemberAttributes
  <2> HIDE DEF l
  <2>2. r.members = steam[l].members /\ r.count = steam[l].count /\ r.owner = steam[l].owner BY <1>7, <2>1 DEF LobbyType
  <2> HIDE DEF r
  <2> QED BY <1>1, <1>8, <2>1, <2>2
<1>14. CASE CreateFails
  <2> DEFINE l == Head(inbox).lobby
  <2>1. l \in Lobby BY <1>14, AwaitedOperation DEF CreateFails
  <2>2. PICK x \in Without(steam[l], Me) : steam' = [steam EXCEPT ![l] = [x EXCEPT !.policy = 1]]
    BY <1>14 DEF CreateFails, SteamDestroyLobby
  <2>3. Fine(x) /\ x.members = steam[l].members \ {Me} BY <1>6, <2>1, GoneFromLobby
  <2>4. [x EXCEPT !.policy = 1].members = x.members BY <2>3 DEF Fine, Sound, LobbyType
  <2>5. Me \notin steam'[l].members /\ \A k \in Lobby : k # l => steam'[k] = steam[k]
    BY <1>3, <2>1, <2>2, <2>3, <2>4
  <2>6. GivenBack(l) BY <1>14, <2>5 DEF GivenBack
  <2> HIDE DEF l
  <2> QED BY <1>2, <2>1, <2>5, <2>6 DEF SteamOf
<1>15. CASE CreateSucceeds
  BY <1>5, <1>15, AwaitedOperation DEF CreateSucceeds
<1>16. CASE JoinSucceeds
  BY <1>5, <1>16, AwaitedOperation DEF JoinSucceeds
<1>17. CASE MembershipChanged
  <2>1. Head(inbox).lobby \in Lobby BY <1>17, HeadMessage, MessageShape DEF MembershipChanged
  <2>2. steam' = Published(steam, Head(inbox).lobby) \/ UNCHANGED steam BY <1>17 DEF MembershipChanged
  <2> QED BY <1>1, <1>5, <2>1, <2>2
<1>18. CASE JoinFails
  <2>1. op.lobby \in Lobby /\ op # None /\ LeaveLobbyDuringJoin(op.lobby)
    BY <1>18, AwaitedOperation DEF JoinFails
  <2>2. active' \subseteq active BY <1>18 DEF JoinFails, RemoveActiveLobby, held
  <2> QED BY <1>4, <2>1, <2>2
<1>19. CASE CallRefused
  <2>1. op # None /\ active' \subseteq active BY <1>19, AwaitedOperation DEF CallRefused, held
  <2>2. CASE op.do = "Join"
    <3>1. op.lobby \in Lobby BY <2>1, <2>2, AwaitedOperation
    <3>2. LeaveLobbyDuringJoin(op.lobby) BY <1>19, <2>2 DEF CallRefused
    <3> QED BY <1>4, <2>1, <3>1, <3>2
  <2>3. CASE op.do # "Join" BY <1>1, <1>19, <2>3 DEF CallRefused
  <2> QED BY <2>2, <2>3
<1>20. CASE TimesOut
  <2>1. op # None /\ active' \subseteq active BY <1>20 DEF TimesOut, held
  <2>2. CASE op.do = "Join"
    <3>1. op.lobby \in Lobby BY <2>1, <2>2, AwaitedOperation
    <3>2. LeaveLobbyDuringJoin(op.lobby) BY <1>20, <2>2 DEF TimesOut
    <3> QED BY <1>4, <2>1, <3>1, <3>2
  <2>3. CASE op.do # "Join" BY <1>1, <1>20, <2>3 DEF TimesOut
  <2> QED BY <2>2, <2>3
<1>21. CASE LocalUserKicked
  <2> DEFINE l == Head(inbox).lobby
  <2>1. l \in Lobby /\ LeaveLobbyImpl(l) /\ l \notin active'
    BY <1>21, HeadMessage, MessageShape DEF LocalUserKicked, RemoveActiveLobby
  <2> HIDE DEF l
  <2>2. /\ \A k \in Lobby : k # l => steam'[k] = steam[k]
        /\ Me \notin steam'[l].members \/ UNCHANGED steam
    BY <2>1, LeavingIsFine
  <2>3. CASE Me \notin steam'[l].members
    <3>1. GivenBack(l) BY <2>1, <2>3 DEF GivenBack
    <3> QED BY <1>2, <2>1, <2>2, <3>1 DEF SteamOf
  <2> QED BY <1>1, <2>2, <2>3
<1>22. ASSUME NEW l \in Lobby, SteamCreates(l) PROVE Goal
  <2>1. Entered(l) BY <1>7, <1>22 DEF Entered, SteamCreates
  <2> QED BY <1>2, <1>3, <1>22, <2>1 DEF SteamCreates, SteamOf
<1>23. CASE SteamLetsIn
  <2>1. op.lobby \in Lobby BY <1>23, AwaitedOperation DEF SteamLetsIn
  <2>2. steam' = [steam EXCEPT ![op.lobby] = With(steam[op.lobby], Me)] BY <1>23 DEF SteamLetsIn
  <2>3. /\ \A k \in Lobby : k # op.lobby => Same(k)
        /\ steam'[op.lobby].owner = steam[op.lobby].owner
        /\ Me \in steam[op.lobby].members => Same(op.lobby)
    BY <1>6, <2>1, <2>2, EnteredOrSame
  <2>4. Me \notin steam[op.lobby].members => Entered(op.lobby) BY <1>23, <2>3 DEF Entered
  <2> QED BY <2>3, <2>4 DEF Goal, SteamOf
<1>24. ASSUME NEW r \in late, SteamIsLate(r) PROVE Goal
  <2>1. PICK l \in Lobby :
          \/ ~Born(l) /\ steam' = [steam EXCEPT ![l] = Opened(Me)] /\ l \in adrift'
          \/ steam' = [steam EXCEPT ![l] = With(steam[l], Me)] /\ (Me \in steam[l].members \/ l \in adrift')
    BY <1>24 DEF SteamIsLate
  <2>2. CASE ~Born(l) /\ steam' = [steam EXCEPT ![l] = Opened(Me)] /\ l \in adrift'
    <3>1. Entered(l) BY <1>7, <2>2 DEF Entered
    <3> QED BY <1>2, <1>3, <2>2, <3>1 DEF SteamOf
  <2>3. CASE steam' = [steam EXCEPT ![l] = With(steam[l], Me)] /\ (Me \in steam[l].members \/ l \in adrift')
    <3>1. /\ \A k \in Lobby : k # l => Same(k)
          /\ Me \in steam[l].members => Same(l)
      BY <1>6, <2>3, EnteredOrSame
    <3>2. Me \notin steam[l].members => Entered(l) BY <2>3 DEF Entered
    <3> QED BY <3>1, <3>2 DEF Goal, SteamOf
  <2> QED BY <2>1, <2>2, <2>3
<1>25. CASE OnListenAddressChanged
  <2>1. steam' = [l \in Lobby |-> IF l \in active /\ steam[l].owner = Me
                                  THEN [steam[l] EXCEPT !.server = TRUE] ELSE steam[l]]
    BY <1>25 DEF OnListenAddressChanged, SetLobbyGameServer
  <2>2. \A k \in Lobby : \A f \in {"members", "owner", "title", "policy", "note", "count"} : steam'[k][f] = steam[k][f]
    BY <1>7, <2>1 DEF LobbyType
  <2> QED BY <2>2 DEF Goal, SteamOf, Same
<1>26. ASSUME NEW l \in Lobby, NEW p \in Peer, PeerEnters(l, p) PROVE Goal
  <2>1. steam' = [steam EXCEPT ![l] = With(steam[l], p)] /\ TellMember("came", l, p) BY <1>26 DEF PeerEnters
  <2>2. p \in Users /\ p # Me BY <1>6
  <2>3. /\ \A k \in Lobby : k # l => Same(k)
        /\ steam'[l].members = steam[l].members \cup {p} /\ steam'[l].owner = steam[l].owner
    BY <2>1, <2>2, EnteredOrSame
  <2>4. CASE Me \in steam[l].members
    <3>1. NewsOf(l)' /\ Moved(l)' BY <2>1, <2>2, <2>4, ToldHasNews DEF TellMember
    <3>2. Told(l) BY <2>3, <2>4, <3>1 DEF Told
    <3> QED BY <2>3, <3>2 DEF Goal, SteamOf
  <2>5. CASE Me \notin steam[l].members
    <3>1. Entered(l) BY <2>2, <2>3, <2>5 DEF Entered
    <3> QED BY <2>3, <3>1 DEF Goal, SteamOf
  <2> QED BY <2>4, <2>5
<1>27. ASSUME NEW l \in Lobby, NEW p \in Peer, PeerLeaves(l, p) PROVE Goal
  <2>1. p \in Users /\ p # Me BY <1>6
  <2>2. PICK r \in Without(steam[l], p) : steam' = [steam EXCEPT ![l] = r] BY <1>27 DEF PeerLeaves
  <2>3. /\ r.members = steam[l].members \ {p}
        /\ steam[l].owner = Me => r.owner = Me
    BY <2>1, GoneFromLobby
  <2>4. /\ steam'[l].members = steam[l].members \ {p} /\ \A k \in Lobby : k # l => steam'[k] = steam[k]
        /\ steam[l].owner = Me => steam'[l].owner = Me
    BY <1>3, <2>2, <2>3
  <2>5. CASE Me \in steam[l].members
    <3>1. NewsOf(l)' /\ Moved(l)' BY <1>27, <2>1, <2>5, ToldHasNews DEF TellMember, PeerLeaves
    <3>2. Told(l) BY <2>1, <2>4, <2>5, <3>1 DEF Told
    <3> QED BY <1>2, <2>4, <3>2 DEF SteamOf
  <2>6. CASE Me \notin steam[l].members
    <3>1. Entered(l) BY <2>4, <2>6 DEF Entered
    <3> QED BY <1>2, <2>4, <3>1 DEF SteamOf
  <2> QED BY <2>5, <2>6
<1>28. ASSUME NEW l \in Lobby, NEW p \in Peer, PeerPromotes(l, p) PROVE Goal
  <2> DEFINE r == [steam[l] EXCEPT !.owner = Me]
  <2>1. Me \in steam[l].members /\ Tell("data", l, None) /\ steam' = [steam EXCEPT ![l] = r]
    BY <1>28 DEF PeerPromotes
  <2>2. r.members = steam[l].members /\ r.count = steam[l].count /\ r.owner = Me BY <1>7 DEF LobbyType
  <2> HIDE DEF r
  <2> QED BY <1>8, <2>1, <2>2
<1>29. ASSUME NEW l \in Lobby, NEW p \in Peer, PeerModifies(l, p) PROVE Goal
  <2> DEFINE r == [steam[l] EXCEPT !.title = 1 - @]
  <2>1. TellMember("data", l, None) /\ steam' = [steam EXCEPT ![l] = r]
    BY <1>29 DEF PeerModifies
  <2>2. r.members = steam[l].members /\ r.count = steam[l].count /\ r.owner = steam[l].owner BY <1>7 DEF LobbyType
  <2> HIDE DEF r
  <2>3. CASE Me \in steam[l].members
    <3>1. Tell("data", l, None) BY <2>1, <2>3 DEF TellMember
    <3> QED BY <1>8, <2>1, <2>2, <2>3, <3>1
  <2>4. CASE Me \notin steam[l].members
    <3>1. Entered(l) BY <1>3, <2>1, <2>2, <2>4 DEF Entered
    <3> QED BY <1>2, <1>3, <2>1, <3>1 DEF SteamOf
  <2> QED BY <2>3, <2>4
<1>30. ASSUME NEW l \in Lobby, SteamDropsMe(l) PROVE Goal
  <2>2. PICK r \in Without(steam[l], Me) : steam' = [steam EXCEPT ![l] = r] BY <1>30 DEF SteamDropsMe
  <2>3. r.members = steam[l].members \ {Me} BY <1>6, GoneFromLobby
  <2>4. Me \notin steam'[l].members /\ \A k \in Lobby : k # l => steam'[k] = steam[k]
    BY <1>3, <2>2, <2>3
  <2>5. Departing(l)' BY <1>30, ToldHasNews DEF SteamDropsMe
  <2>6. GivenBack(l) BY <2>4, <2>5 DEF GivenBack
  <2> QED BY <1>2, <2>4, <2>6 DEF SteamOf
<1>31. CASE UNCHANGED steam BY <1>1, <1>31
<1>32. CASE Runner
  BY <1>1, <1>9, <1>10, <1>11, <1>12, <1>13, <1>32
  DEF Runner, TurnedAway, KickLobbyMember, ModifyRefused, InviteLobbyMember, DeclineLobbyInvitation,
      ProcessNotification, Logout, AskCreate, AskJoin, FindLobbies
<1>33. CASE Dispatcher
  BY <1>1, <1>14, <1>15, <1>16, <1>17, <1>18, <1>19, <1>21, <1>33
  DEF Dispatcher, CreateUnprepared, SearchAnswered, DataChanged, KickIgnored, InviteReceived, JoinRequested
<1>34. CASE SteamAnswers
  BY <1>1, <1>22, <1>23, <1>24, <1>34 DEF SteamAnswers, SteamSearches, SteamRefuses
<1>35. CASE Outside
  BY <1>1, <1>25, <1>26, <1>27, <1>28, <1>29, <1>30, <1>35
  DEF Outside, GameAsks, UserJoins, PeerInvites, PeerKicks
<1> QED BY <1>20, <1>31, <1>32, <1>33, <1>34, <1>35 DEF Next, vars

-----------------------------------------------------------------------------
(* Where the user is a member.                                             *)

\* An operation that waits goes on waiting, or ends one of these ways.
Ends ==
  \/ CreateFails \/ CreateUnprepared \/ CreateSucceeds
  \/ CallRefused \/ JoinFails \/ JoinSucceeds \/ SearchAnswered \/ TimesOut

LEMMA OperationStep ==
  ASSUME [Next]_vars, op # None
  PROVE  op' = op \/ Ends
<1>1. CASE Runner
  BY <1>1 DEF Runner, TurnedAway, LeaveLobby, KickLobbyMember, PromoteLobbyMember, ModifyLobbyAttributes,
      ModifyLobbyJoinPolicy, ModifyLobbyMemberAttributes, ModifyRefused, InviteLobbyMember,
      DeclineLobbyInvitation, ProcessNotification, Logout, AskCreate, AskJoin, FindLobbies, Runs, Idle
<1>2. CASE Dispatcher
  BY <1>2 DEF Dispatcher, Ends, MembershipChanged, DataChanged, LocalUserKicked, KickIgnored,
      InviteReceived, JoinRequested, work
<1>3. CASE SteamAnswers
  BY <1>3 DEF SteamAnswers, SteamCreates, SteamLetsIn, SteamSearches, SteamRefuses, SteamIsLate, Performed, work
<1>4. CASE Outside
  BY <1>4 DEF Outside, GameAsks, OnListenAddressChanged, SteamDropsMe, UserJoins, PeerEnters, PeerLeaves,
      PeerInvites, PeerKicks, PeerPromotes, PeerModifies, OutsideOnly, work
<1>5. CASE UNCHANGED vars BY <1>5 DEF vars, work
<1> QED BY <1>1, <1>2, <1>3, <1>4, <1>5 DEF Next, Ends

\* The answer of an operation that goes on waiting stays in the pipe.
LEMMA AnswerStays ==
  ASSUME TypeOK, SteamIsFine, AnswersAreAwaited, [Next]_vars, NEW i \in 1..Len(inbox), HasAnswer(i), op' # None
  PROVE  /\ ~IsAnswered /\ ~Expires
         /\ \E j \in 1..Len(inbox') : inbox'[j] = inbox[i] /\ (Hears => j = i - 1) /\ (~Hears => j = i)
<1>1. inbox \in Seq(MessageType) /\ call = "answered" /\ op # None
  BY DEF TypeOK, AnswersAreAwaited
<1>2. ~IsAnswered /\ ~Expires BY DEF IsAnswered, Expires, Over
<1>3. CASE Quiet /\ ~Hears BY <1>2, <1>3 DEF Quiet
<1>4. CASE Hears
  <2>1. inbox # <<>> /\ inbox' = Tail(inbox) /\ i # 1 BY <1>4 DEF Hears
  <2>2. i - 1 \in 1..Len(inbox') /\ inbox'[i - 1] = inbox[i] BY <1>1, <2>1, Shorter
  <2> QED BY <1>2, <1>4, <2>2
<1>5. ASSUME NEW m \in MessageType, Tells(m) \/ Performs(m), ~Hears
      PROVE  i \in 1..Len(inbox') /\ inbox'[i] = inbox[i]
  <2>1. inbox' = Append(inbox, m) BY <1>5 DEF Tells, Performs
  <2> QED BY <1>1, <2>1, Longer
<1> QED BY <1>1, <1>2, <1>3, <1>4, <1>5, PipeStep DEF Asks

\* The answer that ends an operation is the one it waits for.
LEMMA TheAnswer ==
  ASSUME TypeOK, AnswersAreAwaited, NEW i \in 1..Len(inbox), HasAnswer(i), NEW w \in Answers, Answered(w)
  PROVE  i = 1 /\ Head(inbox) = inbox[i]
<1>1. inbox \in Seq(MessageType) BY DEF TypeOK
<1>2. inbox # <<>> /\ Head(inbox) = inbox[1] /\ 1 \in 1..Len(inbox) BY <1>1, Shorter DEF Answered
<1>3. HasAnswer(1) BY <1>2 DEF Answered, HasAnswer
<1> QED BY <1>2, <1>3 DEF AnswersAreAwaited

\* The user is known to be a member wherever Steam says so, or a failure has left it there.
LEMMA MembershipStays ==
  ASSUME TypeOK, SteamIsFine, AnswersAreAwaited, MembershipIsAccountedFor, [Next]_vars
  PROVE  MembershipIsAccountedFor'
<1> DEFINE Accounted(k) == k \in active' \cup adrift' \/ Joining(k)' \/ Creating(k)'
<1>1. inbox \in Seq(MessageType) /\ Me \in Users BY DEF TypeOK, Users
<1>2. ASSUME NEW k \in Lobby, Me \notin steam[k].members, Me \in steam'[k].members PROVE Accounted(k)
  <2>1. CASE SteamCreates(k)
    <3> DEFINE m == Message("created", k, None)
    <3>1. inbox' = Append(inbox, m) /\ m \in MessageType
      BY <2>1, MessageMade DEF SteamCreates, Performed, Tell
    <3> HIDE DEF m
    <3>2. Len(inbox) + 1 \in 1..Len(inbox') /\ inbox'[Len(inbox) + 1] = m BY <1>1, <3>1, Longer
    <3> QED BY <3>2 DEF Creating, m
  <2>2. CASE SteamLetsIn /\ op.lobby = k
    BY <2>2 DEF SteamLetsIn, Performed, Joining
  <2> QED BY <1>2, <2>1, <2>2, SteamStep DEF SteamOf, Same, Told, GivenBack, Entered
<1>3. ASSUME NEW k \in Lobby, Me \in steam[k].members, Me \in steam'[k].members, k \in active PROVE Accounted(k)
  <2>1. ASSUME Leaves(k) PROVE k \in adrift'
    <3>1. CASE LeaveLobby /\ k = Head(queue).lobby
      <4>1. login /\ LeaveLobbyImpl(k)
        BY <3>1, HeadLobby, AdmittedMeans DEF LeaveLobby, Runs, MayLeave
      <4> QED BY <1>3, <4>1, LeavingIsFine
    <3>2. CASE LocalUserKicked /\ k = Head(inbox).lobby
      BY <1>3, <3>2, LeavingIsFine DEF LocalUserKicked
    <3> QED BY <1>3, <2>1, <3>1, <3>2, SnapshotShows DEF Leaves
  <2> QED BY <1>3, <2>1, ActiveStep DEF RemoveActiveLobby, AddActiveLobby
<1>4. ASSUME NEW k \in Lobby, Me \in steam'[k].members, Joining(k) PROVE Accounted(k)
  <2>1. op # None /\ op.do = "Join" /\ op.lobby = k /\ "Join" # "Create" /\ "Join" # "Find" BY <1>4 DEF Joining
  <2>2. CASE op' = op BY <2>1, <2>2 DEF Joining
  <2>3. ASSUME LeaveLobbyDuringJoin(k), active' \subseteq active PROVE FALSE
    BY <1>4, <2>1, <2>3, GivenBackDuringJoin
  <2>4. CASE JoinSucceeds BY <2>1, <2>4 DEF JoinSucceeds, AddActiveLobby
  <2>5. CASE JoinFails BY <2>1, <2>3, <2>5 DEF JoinFails, RemoveActiveLobby, held
  <2>6. CASE CallRefused BY <2>1, <2>3, <2>6 DEF CallRefused, held
  <2>7. CASE TimesOut BY <2>1, <2>3, <2>7 DEF TimesOut, held
  <2> QED BY <2>1, <2>2, <2>4, <2>5, <2>6, <2>7, OperationStep, AwaitedOperation
      DEF Ends, CreateFails, CreateUnprepared, CreateSucceeds, SearchAnswered
<1>5. ASSUME NEW k \in Lobby, Me \in steam'[k].members, Creating(k) PROVE Accounted(k)
  <2>1. PICK i \in 1..Len(inbox) : inbox[i] = Message("created", k, None) BY <1>5 DEF Creating
  <2>2. /\ HasAnswer(i) /\ inbox[i].what = "created" /\ inbox[i].lobby = k
        /\ op # None /\ op.do = "Create"
    BY <2>1, MessageMade DEF HasAnswer, Answers, AnswersAreAwaited, TypeOK
  <2>3. CASE op' # None BY <2>1, <2>2, <2>3, AnswerStays DEF Creating
  <2>4. \A w \in Answers : Answered(w) => w = "created" /\ Head(inbox).lobby = k
    BY <2>2, TheAnswer DEF Answered
  <2>5. CASE CreateFails
    <3>1. SteamOf(k) /\ Head(inbox).lobby = k /\ Answered("created") BY <2>4, <2>5, SteamStep DEF CreateFails, Answers
    <3>2. PICK x \in Without(steam[k], Me) : steam' = [steam EXCEPT ![k] = [x EXCEPT !.policy = 1]]
      BY <2>5, <3>1 DEF CreateFails, SteamDestroyLobby
    <3>3. Fine(x) /\ x.members = steam[k].members \ {Me} BY <1>1, GoneFromLobby
    <3>4. [x EXCEPT !.policy = 1].members = x.members BY <3>3 DEF Fine, Sound, LobbyType
    <3> QED BY <1>5, <3>2, <3>3, <3>4 DEF SteamIsFine
  <2>6. CASE CreateUnprepared BY <2>4, <2>6 DEF CreateUnprepared, Answers
  <2>7. CASE CreateSucceeds BY <2>4, <2>7 DEF CreateSucceeds, AddActiveLobby, Answers
  <2>8. CASE TimesOut
    BY <2>2, <2>8 DEF TimesOut
  <2>9. ~CallRefused /\ ~JoinFails /\ ~JoinSucceeds /\ ~SearchAnswered
    BY <2>4 DEF CallRefused, JoinFails, JoinSucceeds, SearchAnswered, Answers
  <2> QED BY <2>2, <2>3, <2>5, <2>6, <2>7, <2>8, <2>9, OperationStep DEF Ends
<1> QED BY <1>2, <1>3, <1>4, <1>5, AdriftStep DEF MembershipIsAccountedFor

\* A kick is remembered of who was in the lobby, until the lobby is left.
LEMMA ForgottenStays ==
  ASSUME TypeOK, SteamIsFine, AnswersAreAwaited, MembershipIsAccountedFor, LeftLobbiesAreForgotten, [Next]_vars
  PROVE  LeftLobbiesAreForgotten'
<1> DEFINE Goal == LeftLobbiesAreForgotten'
<1> SUFFICES Goal OBVIOUS
<1>1. adrift \subseteq adrift' /\ kicks \in [Lobby -> SUBSET Peer] BY AdriftStep DEF TypeOK
<1>2. ASSUME UNCHANGED <<active, presence>>,
             \A k \in Lobby : kicks'[k] # {} => kicks[k] # {} \/ k \in active \cup adrift
      PROVE  Goal
  BY <1>1, <1>2 DEF LeftLobbiesAreForgotten
<1> HIDE DEF Goal
<1>3. CASE UNCHANGED <<active, presence, kicks>> BY <1>2, <1>3
<1>4. CASE UNCHANGED <<active, presence>> /\ KickLobbyMember
  <2> DEFINE l == Head(queue).lobby
  <2>1. l \in Lobby /\ op = None /\ Me \in steam[l].members
    BY <1>4, HeadLobby, AdmittedMeans DEF KickLobbyMember, Runs, Idle, MayKick, SendControlMessage
  <2>2. ~Creating(l)
    <3>1. Unanswered BY <2>1, OneAnswer DEF TypeOK
    <3> QED BY <2>1, <3>1, MessageMade DEF Unanswered, Creating, HasAnswer, Answers
  <2>3. l \in active \cup adrift BY <2>1, <2>2 DEF MembershipIsAccountedFor, Joining
  <2>4. \A k \in Lobby : k # l => kicks'[k] = kicks[k] BY <1>1, <1>4 DEF KickLobbyMember
  <2> HIDE DEF l
  <2> QED BY <1>2, <1>4, <2>3, <2>4
<1>5. CASE UNCHANGED <<active, presence>> /\ MembershipChanged
  <2>1. \A k \in Lobby : kicks'[k] \subseteq kicks[k] BY <1>1, <1>5 DEF MembershipChanged
  <2> QED BY <1>2, <1>5, <2>1
<1>6. ASSUME NEW l \in Lobby, RemoveActiveLobby(l) PROVE Goal
  <2>1. /\ active' = active \ {l} /\ presence' = IF presence = l THEN None ELSE presence
        /\ \A k \in Lobby : kicks'[k] = IF k = l THEN {} ELSE kicks[k]
    BY <1>1, <1>6 DEF RemoveActiveLobby
  <2> QED BY <1>1, <2>1 DEF Goal, LeftLobbiesAreForgotten
<1>7. ASSUME NEW l \in Lobby, AddActiveLobby(l, TRUE) \/ AddActiveLobby(l, FALSE) PROVE Goal
  BY <1>1, <1>7 DEF Goal, LeftLobbiesAreForgotten, AddActiveLobby
<1> QED BY <1>3, <1>4, <1>5, <1>6, <1>7, ActiveStep

-----------------------------------------------------------------------------
(* What the game is shown.                                                 *)

\* What precedes the answer of a create says nothing of the lobby it opens.
LEMMA CreatedIsNew ==
  ASSUME TypeOK, AnswersAreAwaited, NewsFollows, CreateSucceeds \/ CreateFails
  PROVE  LET l == Head(inbox).lobby IN
         /\ l \in Lobby /\ ~Known(l) /\ l \notin active
         /\ Me \in steam[l].members /\ l \notin adrift =>
              steam[l].owner = Me /\ (steam[l].members = {Me} \/ Moved(l))
<1>1. inbox \in Seq(MessageType) BY DEF TypeOK
<1>2. Answered("created") BY DEF CreateSucceeds, CreateFails
<1>3. inbox # <<>> /\ Head(inbox) = inbox[1] /\ 1 \in 1..Len(inbox) BY <1>1, <1>2, Shorter DEF Answered
<1>4. inbox[1].what = "created" /\ inbox[1].lobby \in Lobby
  BY <1>2, <1>3, AwaitedOperation DEF Answered
<1> QED BY <1>3, <1>4 DEF NewsFollows

\* What is in the pipe of a lobby stays there, but for what is heard.
LEMMA MovedStays ==
  ASSUME TypeOK, SteamIsFine, AnswersAreAwaited, [Next]_vars, NEW l \in Lobby, Moved(l)
  PROVE  Moved(l)' \/ (Hears /\ inbox[1].lobby = l)
<1>1. PICK i \in 1..Len(inbox) : inbox[i].lobby = l /\ inbox[i].what \in {"came", "left"} BY DEF Moved
<1>2. ~HasAnswer(i) BY <1>1 DEF HasAnswer, Answers
<1> QED BY <1>1, <1>2, MessageStays DEF Moved

\* Nothing is heard of a lobby between its opening and the answer that tells of it.
LEMMA NewsStillFollows ==
  ASSUME TypeOK, SteamIsFine, AnswersAreAwaited, BornFirst, NewsFollows, [Next]_vars
  PROVE  NewsFollows'
<1> DEFINE First(l, i) ==
      /\ data'[l] = Unknown /\ l \notin active'
      /\ \A j \in 1..(i - 1) : inbox'[j].lobby # l
      /\ Me \in steam'[l].members /\ l \notin adrift' =>
           /\ steam'[l].owner = Me
           /\ steam'[l].members = {Me} \/ Moved(l)'
<1>1. /\ inbox \in Seq(MessageType) /\ \A i \in 1..Len(inbox) : inbox[i] \in MessageType
      /\ inbox' \in Seq(MessageType) /\ AnswersAreAwaited' /\ TypeOK'
  BY AnswersStayAwaited, TypesStay DEF TypeOK
<1>2. ASSUME NEW m \in MessageType, Performs(m), m.what = "created" PROVE First(m.lobby, Len(inbox) + 1)
  <2> DEFINE l == m.lobby
  <2>1. l \in Lobby /\ SteamCreates(l) /\ Unanswered /\ inbox' = Append(inbox, m)
    BY <1>2, MessageShape, OneAnswer DEF Performs
  <2>2. ~Born(l) /\ data' = data /\ active' = active /\ steam'[l] = Opened(Me)
    BY <2>1 DEF SteamCreates, Performed, held, SteamIsFine
  <2>3. data[l] = Unknown /\ l \notin active BY <2>1, <2>2 DEF BornFirst, Known
  <2>4. ASSUME NEW j \in 1..Len(inbox) PROVE inbox[j].lobby # l
    <3>1. inbox[j].what \notin {"refused", "listed"} BY <2>1 DEF Unanswered, HasAnswer, Answers
    <3> QED BY <2>2, <3>1 DEF BornFirst
  <2>5. \A j \in 1..Len(inbox) : inbox'[j] = inbox[j] BY <1>1, <2>1, Longer
  <2>6. (Len(inbox) + 1) - 1 = Len(inbox) BY <1>1
  <2>7. Opened(Me).members = {Me} /\ Opened(Me).owner = Me BY OpenedIsSound DEF Users
  <2> QED BY <2>2, <2>3, <2>4, <2>5, <2>6, <2>7
<1>3. ASSUME NEW l, NEW j \in 1..Len(inbox), inbox[j].what = "created", inbox[j].lobby = l, op' # None,
             NEW i \in 1..Len(inbox'), Hears => i = j - 1, ~Hears => i = j
      PROVE  First(l, i)
  <2>1. HasAnswer(j) /\ l \in Lobby /\ call = "answered" /\ op # None
    BY <1>1, <1>3, MessageShape DEF HasAnswer, Answers, AnswersAreAwaited, TypeOK
  <2>2. ~IsAnswered /\ ~Expires /\ ~Asks /\ (\A m : ~Performs(m))
    BY <1>3, <2>1, AnswerStays DEF Asks, Performs
  <2>3. /\ data[l] = Unknown /\ l \notin active
        /\ \A k \in 1..(j - 1) : inbox[k].lobby # l
        /\ Me \in steam[l].members /\ l \notin adrift =>
             steam[l].owner = Me /\ (steam[l].members = {Me} \/ Moved(l))
    BY <1>3 DEF NewsFollows, Known
  <2>4. ASSUME Hears PROVE inbox[1].lobby # l
    <3>1. j # 1 BY <2>1, <2>4 DEF Hears
    <3>2. 1 \in 1..(j - 1) BY <1>1, <3>1
    <3> QED BY <2>3, <3>2
  <2>5. data'[l] = Unknown
    BY <2>1, <2>2, <2>3, <2>4, DataStep
    DEF DataOf, DataKept, GivenUp, Retold, Reread, Joined, Unjoined, Made, Noticed, Read
  <2>6. l \notin active'
    <3>1. ~CreateSucceeds /\ ~JoinSucceeds BY <1>3 DEF CreateSucceeds, JoinSucceeds, Over
    <3> QED BY <2>3, <3>1, ActiveStep DEF RemoveActiveLobby, AddActiveLobby, Enters
  <2>7. ASSUME NEW k \in 1..(i - 1) PROVE inbox'[k].lobby # l
    <3>1. CASE Hears
      <4>1. inbox # <<>> /\ inbox' = Tail(inbox) BY <3>1 DEF Hears
      <4>2. k \in 1..Len(inbox') /\ k + 1 \in 1..(j - 1) BY <1>1, <1>3, <3>1, <2>7
      <4>3. inbox'[k] = inbox[k + 1] BY <1>1, <4>1, <4>2, Shorter
      <4> QED BY <2>3, <4>2, <4>3
    <3>2. CASE ~Hears
      <4>1. k \in 1..(j - 1) /\ k \in 1..Len(inbox) BY <1>1, <1>3, <3>2, <2>7
      <4>2. UNCHANGED inbox \/ \E m \in MessageType : inbox' = Append(inbox, m)
        BY <2>2, <3>2, PipeStep DEF Quiet, Tells
      <4>3. inbox'[k] = inbox[k] BY <1>1, <4>1, <4>2, Longer
      <4> QED BY <2>3, <4>1, <4>3
    <3> QED BY <3>1, <3>2
  <2>8. Moved(l) => Moved(l)' BY <2>1, <2>4, MovedStays
  <2>9. ASSUME Me \in steam'[l].members, l \notin adrift'
        PROVE  steam'[l].owner = Me /\ (steam'[l].members = {Me} \/ Moved(l)')
    <3>1. l \notin adrift BY <2>9, AdriftStep
    <3>2. ~SteamCreates(l) /\ ~SteamLetsIn BY <2>1 DEF SteamCreates, SteamLetsIn, Performed
    <3>3. CASE Same(l) BY <2>3, <2>8, <2>9, <3>1, <3>3 DEF Same
    <3>4. CASE Told(l) BY <2>1, <2>3, <2>8, <2>9, <3>1, <3>4 DEF Told
    <3> QED BY <2>1, <2>9, <3>2, <3>3, <3>4, SteamStep DEF SteamOf, GivenBack, Entered
  <2> QED BY <2>5, <2>6, <2>7, <2>9
<1>4. ASSUME NEW l, NEW i \in 1..Len(inbox'), inbox'[i].what = "created", inbox'[i].lobby = l PROVE First(l, i)
  <2>1. CASE \E j \in 1..Len(inbox) : inbox'[i] = inbox[j]
    <3>1. PICK j \in 1..Len(inbox) : inbox'[i] = inbox[j] BY <2>1
    <3>2. HasAnswer(j) /\ HasAnswer(i)' BY <1>4, <3>1 DEF HasAnswer, Answers
    <3>3. op' # None BY <1>1, <3>2 DEF AnswersAreAwaited, TypeOK
    <3>4. PICK k \in 1..Len(inbox') : inbox'[k] = inbox[j] /\ (Hears => k = j - 1) /\ (~Hears => k = j)
      BY <3>2, <3>3, AnswerStays
    <3>5. HasAnswer(k)' BY <3>2, <3>4 DEF HasAnswer
    <3>6. i = k BY <1>1, <3>2, <3>5 DEF AnswersAreAwaited
    <3> HIDE DEF First
    <3> QED BY <1>3, <1>4, <3>1, <3>3, <3>4, <3>6
  <2>2. ASSUME NEW m \in MessageType, inbox'[i] = m, i = Len(inbox) + 1, Tells(m) \/ Performs(m)
        PROVE  First(l, i)
    <3>1. Performs(m) BY <1>4, <2>2 DEF Tells, Answers
    <3> HIDE DEF First
    <3> QED BY <1>2, <1>4, <2>2, <3>1
  <2> QED BY <2>1, <2>2, OldOrNew
<1> QED BY <1>4 DEF NewsFollows, Known

\* A lobby becomes listed as joined with what Steam shows of it as it does.
LEMMA EnteredIsShown ==
  ASSUME TypeOK, SteamIsFine, AnswersAreAwaited, NewsFollows, [Next]_vars,
         NEW l \in Lobby, l \notin active, l \in active'
  PROVE  /\ Me \in steam[l].members /\ ~Hears
         /\ \/ CreateSucceeds /\ Made(l) /\ data[l] = Unknown
            \/ JoinSucceeds /\ Joined(l)
         /\ \A f \in {"members", "owner", "title", "policy", "note"} : steam'[l][f] = steam[l][f]
         /\ steam[l].owner = Me => steam'[l].count = Cardinality(steam[l].members)
         /\ l \notin adrift =>
              \/ JoinSucceeds
              \/ steam[l].owner = Me /\ (steam[l].members = {Me} \/ Moved(l))
<1>1. Enters(l) BY ActiveStep DEF RemoveActiveLobby, AddActiveLobby
<1>2. \E w \in {"created", "entered"} : Answered(w) BY <1>1 DEF Enters, CreateSucceeds, JoinSucceeds
<1>3. ~Hears
  <2>1. inbox \in Seq(MessageType) BY DEF TypeOK
  <2>2. Head(inbox) = inbox[1] BY <1>2, <2>1, Shorter DEF Answered
  <2>3. HasAnswer(1) BY <1>2, <2>2 DEF Answered, HasAnswer, Answers
  <2> QED BY <2>3 DEF Hears
<1>4. steam' = Published(Bound(steam, l), l) BY <1>1 DEF Enters, CreateSucceeds, JoinSucceeds
<1>5. /\ \A f \in {"members", "owner", "title", "policy", "note"} : steam'[l][f] = steam[l][f]
      /\ steam[l].owner = Me => steam'[l].count = Cardinality(steam[l].members)
  BY <1>4, PublishedIsFine
<1>6. CASE CreateSucceeds /\ l = Head(inbox).lobby
  BY <1>1, <1>3, <1>5, <1>6, CreatedIsNew, DataOnCreate DEF Enters, Known
<1>7. CASE JoinSucceeds /\ l = op.lobby
  BY <1>1, <1>3, <1>5, <1>7, DataOnJoin DEF Enters
<1> QED BY <1>1, <1>6, <1>7 DEF Enters

\* What is read of a lobby listed as joined, as long as it is listed.
LEMMA ActiveIsReread ==
  ASSUME TypeOK, SteamIsFine, AnswersAreAwaited, NewsFollows, ActiveIsShown, [Next]_vars,
         NEW l \in Lobby, l \in active, l \in active'
  PROVE  /\ ~(CreateSucceeds /\ Head(inbox).lobby = l) /\ ~(CreateFails /\ Head(inbox).lobby = l)
         /\ data'[l] # Unknown /\ data'[l].active
         /\ \/ data'[l] = data[l] \/ Retold(l) \/ Joined(l)
            \/ Reread(l) /\ (Me \in steam[l].members \/ l \in adrift)
            \/ Unjoined(l) /\ l \in adrift'
<1>1. data[l] # Unknown /\ data[l].active /\ (Me \in data[l].seen.members \/ l \in adrift)
  BY DEF ActiveIsShown, Known
<1>2. ~(CreateSucceeds /\ Head(inbox).lobby = l) /\ ~(CreateFails /\ Head(inbox).lobby = l) BY CreatedIsNew
<1>3. Me \in ShownMembers(l) \/ l \in adrift BY <1>1 DEF ShownMembers, Known
<1>4. ASSUME Reread(l) PROVE Me \in steam[l].members \/ l \in adrift
  <2>1. ProcessNotification /\ Head(queue).lobby = l BY <1>4 DEF Reread
  <2>2. Me \in ShownMembers(l) /\ Me \notin steam[l].members => RemoveActiveLobby(l)
    <3>1. Me \notin steam[l].members => Me \notin GetLobbySnapshot(steam, l, TRUE).members BY SnapshotShows
    <3> QED BY <2>1, <3>1 DEF ProcessNotification
  <2> QED BY <1>3, <2>2 DEF RemoveActiveLobby
<1>5. ASSUME Unjoined(l) PROVE l \in adrift'
  <2>1. JoinFails /\ op.lobby = l BY <1>5 DEF Unjoined
  <2>2. Me \in ShownMembers(l) /\ Me \notin steam[l].members => RemoveActiveLobby(l)
    BY <2>1 DEF JoinFails
  <2>3. Me \in ShownMembers(l) => Me \in steam[l].members BY <2>2 DEF RemoveActiveLobby
  <2> QED BY <1>3, <2>1, <2>3, AdriftStep DEF JoinFails, LeaveLobbyDuringJoin
<1>6. DataOf(l) BY DataStep
<1>7. CASE data'[l] = data[l] BY <1>1, <1>2, <1>7
<1>8. CASE Retold(l) BY <1>1, <1>2, <1>8 DEF Retold
<1>9. CASE Joined(l) BY <1>2, <1>9 DEF Joined
<1>10. CASE Reread(l) BY <1>2, <1>4, <1>10 DEF Reread
<1>11. CASE Unjoined(l) BY <1>2, <1>5, <1>11 DEF Unjoined
<1> QED BY <1>1, <1>2, <1>6, <1>7, <1>8, <1>9, <1>10, <1>11 DEF DataOf, DataKept, GivenUp, Made, Noticed

\* Every lobby listed as joined is shown with the user in it.
LEMMA ShownStays ==
  ASSUME TypeOK, SteamIsFine, AnswersAreAwaited, NewsFollows, ActiveIsShown, [Next]_vars
  PROVE  ActiveIsShown'
<1>1. active' \subseteq Lobby /\ adrift \subseteq adrift' BY TypesStay, AdriftStep DEF TypeOK
<1>2. ASSUME NEW l \in Lobby, l \notin active, l \in active'
      PROVE  data'[l] # Unknown /\ data'[l].active /\ (Me \in data'[l].seen.members \/ l \in adrift')
  <2>1. CASE JoinSucceeds /\ Joined(l) BY <1>2, <2>1, EnteredIsShown, SnapshotShows DEF Joined
  <2>2. CASE CreateSucceeds /\ Made(l) /\ data[l] = Unknown
    <3>1. ~JoinSucceeds BY <2>2, AwaitedOperation DEF CreateSucceeds, JoinSucceeds
    <3>2. l \in adrift \/ steam[l].owner = Me BY <1>2, <3>1, EnteredIsShown
    <3> QED BY <1>1, <2>2, <3>2, SnapshotShows DEF Made
  <2> QED BY <1>2, <2>1, <2>2, EnteredIsShown
<1>3. ASSUME NEW l \in Lobby, l \in active, l \in active'
      PROVE  data'[l] # Unknown /\ data'[l].active /\ (Me \in data'[l].seen.members \/ l \in adrift')
  <2>1. data'[l] # Unknown /\ data'[l].active BY <1>3, ActiveIsReread
  <2>2. Me \in data[l].seen.members \/ l \in adrift BY <1>3 DEF ActiveIsShown
  <2>3. CASE data'[l] = data[l] BY <1>1, <2>1, <2>2, <2>3
  <2>4. CASE Retold(l) BY <1>1, <2>1, <2>2, <2>4 DEF Retold
  <2>5. CASE Joined(l) BY <2>1, <2>5, SnapshotShows DEF Joined, JoinSucceeds
  <2>6. CASE Reread(l) /\ (Me \in steam[l].members \/ l \in adrift)
    BY <1>1, <2>1, <2>6, SnapshotShows DEF Reread
  <2> QED BY <1>3, <2>1, <2>3, <2>4, <2>5, <2>6, ActiveIsReread
<1> QED BY <1>1, <1>2, <1>3 DEF ActiveIsShown, Known

\* Word of a departure reaches the lobby it is about.
LEMMA DepartureIsHeard ==
  ASSUME TypeOK, SteamIsFine, AnswersAreAwaited, NewsFollows, ActiveIsShown, [Next]_vars,
         NEW l \in Lobby, l \in active, l \in active', l \notin adrift
  PROVE  /\ Moved(l) => Moved(l)' \/ (MembershipChanged /\ Head(inbox).lobby = l)
         /\ NewsOf(l) => NewsOf(l)' \/ Reread(l)
         /\ Departing(l) /\ Me \notin steam[l].members => Departing(l)'
<1>1. Known(l) /\ data[l].active BY DEF ActiveIsShown
<1>2. ASSUME ProcessNotification, Head(queue).lobby = l PROVE Reread(l)
  BY <1>2, DataOnNotification
<1>3. ASSUME Reread(l), Me \notin steam[l].members PROVE FALSE
  <2>1. ProcessNotification /\ Head(queue).lobby = l BY <1>3 DEF Reread
  <2>2. Me \in ShownMembers(l) BY DEF ActiveIsShown, ShownMembers
  <2>3. Me \notin GetLobbySnapshot(steam, l, TRUE).members BY <1>3, SnapshotShows
  <2> QED BY <2>1, <2>2, <2>3 DEF ProcessNotification, RemoveActiveLobby
<1> QED BY <1>1, <1>2, <1>3, NewsStays

\* A lobby listed as joined is one Steam has the user in, until word of the departure comes.
LEMMA JoinedStays ==
  ASSUME TypeOK, SteamIsFine, AnswersAreAwaited, NewsFollows, ActiveIsShown, ActiveIsJoined, [Next]_vars
  PROVE  ActiveIsJoined'
<1>1. active' \subseteq Lobby /\ adrift \subseteq adrift' BY TypesStay, AdriftStep DEF TypeOK
<1>2. ASSUME NEW l \in Lobby, l \notin active, l \in active' PROVE Me \in steam'[l].members
  BY <1>2, EnteredIsShown
<1>3. ASSUME NEW l \in Lobby, l \in active, l \in active', Me \notin steam'[l].members, l \notin adrift'
      PROVE  Departing(l)'
  <2>1. l \notin adrift BY <1>1, <1>3
  <2>2. Me \notin steam[l].members => Departing(l)' BY <1>3, <2>1, DepartureIsHeard DEF ActiveIsJoined
  <2>3. GivenBack(l) => Departing(l)' BY <1>3, ActiveIsReread DEF GivenBack
  <2> QED BY <1>3, <2>2, <2>3, SteamStep DEF SteamOf, Same, Told, Entered
<1> QED BY <1>1, <1>2, <1>3 DEF ActiveIsJoined

\* What Steam shows is what it has.
LEMMA SameIsShown ==
  ASSUME NEW l \in Lobby,
         \A f \in {"members", "owner", "title", "policy", "note"} : steam'[l][f] = steam[l][f]
  PROVE  GetLobbySnapshot(steam', l, TRUE) = GetLobbySnapshot(steam, l, TRUE)
BY DEF GetLobbySnapshot, SteamShows

\* The lobby as the game is shown it is the lobby as it is, or there is news of it.
LEMMA ViewStays ==
  ASSUME TypeOK, SteamIsFine, AnswersAreAwaited, NewsFollows, ActiveIsShown, ActiveIsJoined, ViewIsCurrent, [Next]_vars
  PROVE  ViewIsCurrent'
<1> DEFINE Shown(l) == GetLobbySnapshot(steam, l, TRUE)
           ShownNext(l) == GetLobbySnapshot(steam', l, TRUE)
<1>1. active' \subseteq Lobby /\ adrift \subseteq adrift' BY TypesStay, AdriftStep DEF TypeOK
<1>2. ASSUME NEW l \in Lobby, Same(l) PROVE ShownNext(l) = Shown(l) BY <1>2, SameIsShown DEF Same
<1>3. ASSUME NEW l \in Lobby, l \notin active, l \in active', l \notin adrift
      PROVE  data'[l].seen = ShownNext(l) \/ NewsOf(l)'
  <2>1. ShownNext(l) = Shown(l) BY <1>3, EnteredIsShown, SameIsShown
  <2> HIDE DEF Shown, ShownNext
  <2>2. CASE JoinSucceeds /\ Joined(l) BY <2>1, <2>2 DEF Joined, Shown
  <2>3. CASE CreateSucceeds /\ Made(l) /\ data[l] = Unknown
    <3>1. ~JoinSucceeds BY <2>3, AwaitedOperation DEF CreateSucceeds, JoinSucceeds
    <3>2. steam[l].owner = Me /\ (steam[l].members = {Me} \/ Moved(l)) /\ ~Hears
      BY <1>3, <3>1, EnteredIsShown
    <3>3. Moved(l) => NewsOf(l)' BY <3>2, MovedStays DEF Moved, NewsOf
    <3>4. steam[l].members = {Me} => data'[l].seen = Shown(l)
      BY <2>3, <3>2, SnapshotShows DEF Made, Shown
    <3> QED BY <2>1, <3>2, <3>3, <3>4
  <2> QED BY <1>3, <2>2, <2>3, EnteredIsShown
<1>4. ASSUME NEW l \in Lobby, l \in active, l \in active', l \notin adrift', ~NewsOf(l)'
      PROVE  data'[l].seen = ShownNext(l)
  <2>1. l \notin adrift BY <1>1, <1>4
  <2>2. CASE Reread(l)
    <3>1. UNCHANGED steam BY <2>2 DEF Reread, ProcessNotification
    <3>2. data'[l] # Unknown BY <1>4, ActiveIsReread
    <3> QED BY <2>2, <3>1, <3>2 DEF Reread
  <2>3. CASE ~Reread(l)
    <3>1. ~NewsOf(l) BY <1>4, <2>1, <2>3, DepartureIsHeard
    <3>2. ~Departing(l) BY <3>1, MessageMade DEF Departing, NewsOf, Users
    <3>3. data[l].seen = Shown(l) /\ Me \in steam[l].members
      BY <1>4, <2>1, <3>1, <3>2 DEF ViewIsCurrent, ActiveIsJoined
    <3>4. ~Departing(l)' BY <1>4, MessageMade DEF Departing, NewsOf, Users
    <3>5. Same(l)
      BY <1>4, <3>3, <3>4, SteamStep, ActiveIsReread DEF SteamOf, Told, GivenBack, Entered
    <3> HIDE DEF Shown, ShownNext
    <3>6. ~Retold(l) BY <1>4, <3>3 DEF Retold
    <3>7. data'[l] = data[l] \/ Joined(l) BY <1>4, <2>3, <3>6, ActiveIsReread
    <3>8. data'[l].seen = Shown(l) BY <3>3, <3>7 DEF Joined, Shown
    <3> QED BY <1>2, <3>5, <3>8
  <2> QED BY <2>2, <2>3
<1>5. ASSUME NEW l \in Lobby PROVE GetLobbySnapshot(steam, l, TRUE)' = ShownNext(l)
  BY DEF GetLobbySnapshot, SteamShows
<1> QED BY <1>1, <1>3, <1>4, <1>5 DEF ViewIsCurrent

\* The count is published with every change that the user is told of.
LEMMA CountStays ==
  ASSUME TypeOK, SteamIsFine, AnswersAreAwaited, BornFirst, NewsFollows, ActiveIsShown, CountIsCurrent, [Next]_vars
  PROVE  CountIsCurrent'
<1>1. active' \subseteq Lobby /\ adrift \subseteq adrift' /\ SteamIsFine'
  BY TypesStay, AdriftStep, SteamStaysFine DEF TypeOK
<1>2. ASSUME NEW l \in Lobby, steam[l].owner = Me PROVE Me \in steam[l].members
  <2>1. Fine(steam[l]) /\ Me # None BY ConstantsAssumption DEF SteamIsFine
  <2> QED BY <1>2, <2>1 DEF Fine
<1>3. ASSUME NEW l \in Lobby, steam'[l].owner = Me PROVE Me \in steam'[l].members
  <2>1. Fine(steam'[l]) /\ Me # None BY <1>1, ConstantsAssumption DEF SteamIsFine
  <2> QED BY <1>3, <2>1 DEF Fine
<1>4. ASSUME NEW l \in Lobby, l \notin active, l \in active', steam'[l].owner = Me
      PROVE  steam'[l].count = Cardinality(steam'[l].members)
  BY <1>4, EnteredIsShown
<1>5. ASSUME NEW l \in Lobby, l \in active, l \in active', l \notin adrift', steam'[l].owner = Me, ~Moved(l)'
      PROVE  steam'[l].count = Cardinality(steam'[l].members)
  <2>1. l \notin adrift /\ Born(l) BY <1>1, <1>5 DEF BornFirst
  <2>2. CASE MembershipChanged /\ Head(inbox).lobby = l
    <3>1. steam' = Published(steam, l) BY <1>5, <2>2 DEF MembershipChanged, ActiveIsShown
    <3>2. /\ steam'[l].owner = steam[l].owner /\ steam'[l].members = steam[l].members
          /\ steam[l].owner = Me => steam'[l].count = Cardinality(steam[l].members)
      BY <3>1, PublishedIsFine
    <3> QED BY <1>5, <3>2
  <2>3. CASE ~(MembershipChanged /\ Head(inbox).lobby = l)
    <3>1. ~Moved(l) BY <1>5, <2>1, <2>3, DepartureIsHeard
    <3>2. steam[l].owner = Me => steam[l].count = Cardinality(steam[l].members)
      BY <1>5, <2>1, <3>1 DEF CountIsCurrent
    <3>3. steam[l].owner \in Peer => steam[l].count = Cardinality(steam[l].members)
      BY DEF SteamIsFine, Fine
    <3>4. ~SteamCreates(l) BY <2>1 DEF SteamCreates
    <3>5. CASE Same(l) BY <1>5, <3>2, <3>5 DEF Same
    <3>6. CASE Told(l) BY <1>5, <3>2, <3>3, <3>6 DEF Told, Users
    <3>7. CASE Entered(l) BY <1>2, <1>3, <1>5, <3>4, <3>7 DEF Entered
    <3> QED BY <1>3, <1>5, <3>5, <3>6, <3>7, SteamStep DEF SteamOf, GivenBack
  <2> QED BY <2>2, <2>3
<1> QED BY <1>1, <1>4, <1>5 DEF CountIsCurrent

-----------------------------------------------------------------------------
(* The theorems.                                                           *)

LobbiesInv ==
  /\ TypeOK /\ SteamIsFine /\ AnswersAreAwaited /\ BornFirst /\ NewsFollows
  /\ ActiveIsShown /\ ActiveIsJoined /\ ViewIsCurrent /\ CountIsCurrent
  /\ MembershipIsAccountedFor /\ LeftLobbiesAreForgotten

LEMMA LobbiesInit == Init => LobbiesInv
<1> SUFFICES ASSUME Init PROVE LobbiesInv OBVIOUS
<1> USE DEF Init
<1>1. ASSUME NEW l \in Lobby
      PROVE  Fine(steam[l]) /\ steam[l] \in LobbyType /\ Me \notin steam[l].members
  <2>1. steam[l] = Unopened \/ \E p \in Peer : steam[l] = Opened(p) OBVIOUS
  <2>2. CASE steam[l] = Unopened
    <3>1. Fine(Unopened) /\ Unopened.members = {} BY OpenedIsFine, OpenedIsSound DEF Users
    <3> QED BY <2>2, <3>1 DEF Fine, Sound
  <2>3. ASSUME NEW p \in Peer, steam[l] = Opened(p)
        PROVE  Fine(steam[l]) /\ steam[l] \in LobbyType /\ Me \notin steam[l].members
    <3>1. p \in Users /\ p # Me BY ConstantsAssumption DEF Users
    <3>2. Fine(Opened(p)) /\ Opened(p).members = {p} BY <3>1, OpenedIsFine, OpenedIsSound
    <3> QED BY <2>3, <3>1, <3>2 DEF Fine, Sound
  <2> QED BY <2>1, <2>2, <2>3
<1>2. SteamIsFine
  <2>1. \E S : steam \in [Lobby -> S] OBVIOUS
  <2> QED BY <1>1, <2>1 DEF SteamIsFine
<1>3. /\ inbox = <<>> /\ queue = <<>> /\ 1..Len(inbox) = {}
      /\ inbox \in Seq(MessageType) /\ queue \in Seq(RequestType)
  BY EmptySeq
<1>4. TypeOK
  <2>1. data \in [Lobby -> DataType \cup {Unknown}] /\ kicks \in [Lobby -> SUBSET Peer] OBVIOUS
  <2>2. moves \in 0..MaxMoves BY ConstantsAssumption
  <2>3. login \in BOOLEAN /\ listening \in BOOLEAN OBVIOUS
  <2>4. active \subseteq Lobby /\ invites \subseteq Lobby /\ found \subseteq Lobby
        /\ late \subseteq RequestType /\ adrift \subseteq Lobby /\ presence \in Lobby \cup {None}
    OBVIOUS
  <2>5. op \in RequestType \cup {None} /\ call \in {"none", "asked", "answered"} /\ (op = None <=> call = "none")
    OBVIOUS
  <2> QED BY <1>2, <1>3, <2>1, <2>2, <2>3, <2>4, <2>5 DEF TypeOK, SteamIsFine
<1>5. AnswersAreAwaited BY <1>3 DEF AnswersAreAwaited
<1>6. BornFirst BY <1>3 DEF BornFirst, Known
<1>7. NewsFollows BY <1>3 DEF NewsFollows
<1>8. ActiveIsShown /\ ActiveIsJoined /\ ViewIsCurrent /\ CountIsCurrent
  BY DEF ActiveIsShown, ActiveIsJoined, ViewIsCurrent, CountIsCurrent
<1>9. MembershipIsAccountedFor BY <1>1 DEF MembershipIsAccountedFor
<1>10. LeftLobbiesAreForgotten BY DEF LeftLobbiesAreForgotten
<1> QED BY <1>2, <1>4, <1>5, <1>6, <1>7, <1>8, <1>9, <1>10 DEF LobbiesInv

LEMMA LobbiesStep == LobbiesInv /\ [Next]_vars => LobbiesInv'
<1> SUFFICES ASSUME LobbiesInv, [Next]_vars PROVE LobbiesInv' OBVIOUS
<1>1. /\ TypeOK /\ SteamIsFine /\ AnswersAreAwaited /\ BornFirst /\ NewsFollows
      /\ ActiveIsShown /\ ActiveIsJoined /\ ViewIsCurrent /\ CountIsCurrent
      /\ MembershipIsAccountedFor /\ LeftLobbiesAreForgotten
  BY DEF LobbiesInv
<1> QED BY <1>1, TypesStay, SteamStaysFine, AnswersStayAwaited, BornStays, NewsStillFollows, ShownStays,
           JoinedStays, ViewStays, CountStays, MembershipStays, ForgottenStays DEF LobbiesInv

\* What is known of a lobby, of its news and of the operation that waits for it agrees in
\* every state: the invariant that the theorems below follow from.
THEOREM LobbiesInvHolds == Spec => []LobbiesInv
BY LobbiesInit, LobbiesStep, PTL DEF Spec

\* Every variable keeps its type, and a call is under way exactly while an operation waits.
THEOREM LobbyTypes == Spec => []TypeOK
<1>1. LobbiesInv => TypeOK BY DEF LobbiesInv
<1> QED BY <1>1, LobbiesInvHolds, PTL

\* Whichever step of a create, a join or a leave fails, Steam has the user in no lobby that
\* this side knows nothing of, but for the failures that the code lets go.
THEOREM MembershipAccountedHolds == Spec => []MembershipIsAccountedFor
<1>1. LobbiesInv => MembershipIsAccountedFor BY DEF LobbiesInv
<1> QED BY <1>1, LobbiesInvHolds, PTL

\* A lobby listed as joined is one Steam has the user in, or word of the departure waits.
THEOREM ActiveIsJoinedHolds == Spec => []ActiveIsJoined
<1>1. LobbiesInv => ActiveIsJoined BY DEF LobbiesInv
<1> QED BY <1>1, LobbiesInvHolds, PTL

\* Neither presence nor a kick nobody acted on points at a lobby that was left.
THEOREM LeftLobbiesForgottenHolds == Spec => []LeftLobbiesAreForgotten
<1>1. LobbiesInv => LeftLobbiesAreForgotten BY DEF LobbiesInv
<1> QED BY <1>1, LobbiesInvHolds, PTL

\* Once nothing is on its way there is no news, so that every lobby is shown as Steam has it.
THEOREM SettledViewHolds == Spec => []SettledViewIsTrue
<1>1. LobbiesInv => SettledViewIsTrue
  <2> SUFFICES ASSUME LobbiesInv, Settled, NEW l \in active \ adrift
               PROVE  data[l].seen = GetLobbySnapshot(steam, l, TRUE)
    BY DEF SettledViewIsTrue
  <2>1. ~NewsOf(l) BY DEF Settled, NewsOf, HeldByQueue
  <2> QED BY <2>1 DEF LobbiesInv, ViewIsCurrent
<1> QED BY <1>1, LobbiesInvHolds, PTL

\* Once nothing is on its way, a browser reads the right number of members of every lobby
\* that the user owns.
THEOREM BrowsedCountHolds == Spec => []BrowsedCountIsRight
<1>1. LobbiesInv => BrowsedCountIsRight
  <2> SUFFICES ASSUME LobbiesInv, Settled, NEW l \in active \ adrift, steam[l].owner = Me
               PROVE  steam[l].count = Cardinality(steam[l].members)
    BY DEF BrowsedCountIsRight
  <2>1. ~Moved(l) BY DEF Settled, Moved
  <2> QED BY <2>1 DEF LobbiesInv, CountIsCurrent
<1> QED BY <1>1, LobbiesInvHolds, PTL

\* Only the server coming up makes the process listen.
LEMMA ListeningStep ==
  ASSUME [Next]_vars
  PROVE  UNCHANGED listening \/ OnListenAddressChanged
<1>1. CASE Runner
  BY <1>1 DEF Runner, TurnedAway, LeaveLobby, KickLobbyMember, PromoteLobbyMember, ModifyLobbyAttributes,
      ModifyLobbyJoinPolicy, ModifyLobbyMemberAttributes, ModifyRefused, InviteLobbyMember,
      DeclineLobbyInvitation, ProcessNotification, Logout, AskCreate, AskJoin, FindLobbies
<1>2. CASE Dispatcher \/ TimesOut
  BY <1>2 DEF Dispatcher, CreateFails, CreateUnprepared, CreateSucceeds, CallRefused, JoinFails, JoinSucceeds,
      SearchAnswered, MembershipChanged, DataChanged, LocalUserKicked, KickIgnored, InviteReceived,
      JoinRequested, TimesOut
<1>3. CASE SteamAnswers
  BY <1>3 DEF SteamAnswers, SteamCreates, SteamLetsIn, SteamSearches, SteamRefuses, SteamIsLate, Performed
<1>4. CASE Outside
  BY <1>4 DEF Outside, GameAsks, SteamDropsMe, UserJoins, PeerEnters, PeerLeaves, PeerInvites, PeerKicks,
      PeerPromotes, PeerModifies, OutsideOnly
<1>5. CASE UNCHANGED vars BY <1>5 DEF vars
<1> QED BY <1>1, <1>2, <1>3, <1>4, <1>5 DEF Next

\* With the later of the two, the server and the lobby, the server is bound to every lobby
\* that the user owns.
THEOREM ServerIsBoundHolds == Spec => ServerIsBound
<1> DEFINE Binds(l) == listening' /\ l \in active' /\ ~(listening /\ l \in active) /\ steam[l].owner = Me
                       => steam'[l].server
<1>1. ASSUME LobbiesInv, [Next]_vars PROVE [\A l \in Lobby : Binds(l)]_vars
  <2>1. TypeOK /\ SteamIsFine /\ AnswersAreAwaited /\ NewsFollows BY <1>1 DEF LobbiesInv
  <2>2. ASSUME NEW l \in Lobby, listening', l \in active', l \notin active, steam[l].owner = Me
        PROVE  steam'[l].server
    <3>1. Enters(l) BY <1>1, <2>1, <2>2, ActiveStep DEF RemoveActiveLobby, AddActiveLobby
    <3>2. listening /\ steam' = Published(Bound(steam, l), l)
      BY <2>2, <3>1 DEF Enters, CreateSucceeds, JoinSucceeds
    <3>3. \A k \in Lobby : Sound(steam[k]) BY <2>1 DEF SteamIsFine, Fine
    <3>4. PICK t : t = Bound(steam, l) OBVIOUS
    <3>5. t \in [Lobby -> LobbyType] /\ (\A k \in Lobby : Sound(t[k])) /\ t[l].server
      BY <2>1, <2>2, <3>2, <3>3, <3>4, BoundKeeps DEF SteamIsFine
    <3>6. steam'[l].server = t[l].server BY <3>2, <3>4, <3>5, PublishedKeeps
    <3> QED BY <3>5, <3>6
  <2>3. ASSUME NEW l \in Lobby, listening', ~listening, l \in active', l \in active, steam[l].owner = Me
        PROVE  steam'[l].server
    <3>1. OnListenAddressChanged BY <1>1, <2>3, ListeningStep
    <3>2. steam'[l] = SetLobbyGameServer(steam[l]) BY <2>3, <3>1 DEF OnListenAddressChanged
    <3>3. steam[l] \in LobbyType BY <2>1 DEF SteamIsFine
    <3> QED BY <3>2, <3>3 DEF SetLobbyGameServer, LobbyType
  <2> QED BY <2>2, <2>3
<1> QED BY <1>1, LobbiesInvHolds, PTL DEF Spec, ServerIsBound
=============================================================================
