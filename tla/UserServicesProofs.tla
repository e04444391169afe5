-------------------------- MODULE UserServicesProofs --------------------------
(***************************************************************************)
(* Other people are shown and announced as they are, for any number of     *)
(* friends, contacts and fields, whatever the other components of the      *)
(* instance do.                                                            *)
(***************************************************************************)
EXTENDS UserServices, TLAPS

SocialInv == SocialTypeOK /\ RelationsAreTrue

\* A game that has asked nothing was told nothing.
LEMMA SocialInvInit == SocialInit => SocialInv
BY DEF SocialInit, SocialInv, SocialTypeOK, RelationsAreTrue, KnownFriends, Nobody,
       SteamRelation, Relationship

\* What Steam may report is something the interface has a name for.
LEMMA TranslateRelationshipType ==
  \A r \in SteamRelation : TranslateRelationship(r) \in Relationship
BY DEF SteamRelation, Relationship, TranslateRelationship

\* A walk of the list leaves what the game was told, and would be shown, as Steam has it.
LEMMA ReadFriendsKeeps ==
  ASSUME SocialInv, ReadFriends, changes' \in Nat
  PROVE  SocialInv'
<1> DEFINE new == [u \in Contact |-> TranslateRelationship(relation[u])]
<1>1. new \in [Contact -> Relationship]
  BY TranslateRelationshipType DEF SocialInv, SocialTypeOK
<1>2. /\ heard' = [u \in Contact |-> IF IsNews(KnownFriends[u], new[u]) THEN new[u] ELSE heard[u]]
      /\ friends' = new /\ blocked' = {u \in Contact : new[u] = "Blocked"}
      /\ UNCHANGED <<relation, overlay>>
  BY DEF ReadFriends
<1>3. heard' = new
  <2>1. heard = KnownFriends BY DEF SocialInv, RelationsAreTrue
  <2>2. \A u \in Contact : heard'[u] = new[u] BY <1>2, <2>1 DEF IsNews
  <2> QED BY <1>1, <1>2, <2>2
<1>4. friends' # None BY <1>1, <1>2, SocialAssumption
<1>5. SocialTypeOK' BY <1>1, <1>2, <1>3 DEF SocialInv, SocialTypeOK
<1>6. KnownFriends' = new BY <1>2, <1>4 DEF KnownFriends
<1>7. RelationsAreTrue'
  BY <1>2, <1>3, <1>6 DEF RelationsAreTrue
<1> QED BY <1>5, <1>7 DEF SocialInv

\* A change of Steam's is announced, and until the announcement comes nothing is claimed.
LEMMA BecomesKeeps ==
  ASSUME SocialInv, NEW u \in Contact, NEW r \in SteamRelation, Becomes(u, r),
         overlay' \in {None} \cup [page : DOMAIN Offer, of : Contact]
  PROVE  SocialInv'
<1>1. SocialTypeOK' BY DEF Becomes, SocialInv, SocialTypeOK
<1>2. changes' # 0 BY DEF Becomes, SocialInv, SocialTypeOK
<1>3. RelationsAreTrue' BY <1>2 DEF Becomes, SocialInv, RelationsAreTrue, KnownFriends, Nobody
<1> QED BY <1>1, <1>3 DEF SocialInv

\* Every step of the component keeps what the game was told and is shown in step.
LEMMA SocialStep ==
  ASSUME SocialInv, SocialNext PROVE SocialInv'
<1>1. CASE QueryFriends \/ QueryBlockedUsers
  BY <1>1, ReadFriendsKeeps DEF QueryFriends, QueryBlockedUsers, SocialInv, SocialTypeOK
<1>2. CASE OnPersonaStateChange
  <2>1. changes' \in Nat /\ changes > 0 BY <1>2 DEF OnPersonaStateChange, SocialInv, SocialTypeOK
  <2>2. CASE ReadFriends BY <2>1, <2>2, ReadFriendsKeeps
  <2>3. CASE friends = None /\ UNCHANGED <<relation, overlay, friends, blocked, heard>>
    BY <2>1, <2>3 DEF SocialInv, SocialTypeOK, RelationsAreTrue, KnownFriends, Nobody
  <2> QED BY <1>2, <2>2, <2>3 DEF OnPersonaStateChange
<1>3. ASSUME NEW u \in Contact, NEW p \in DOMAIN Offer, AskUserToChangeRelationship(u, p)
      PROVE  SocialInv'
  BY <1>3 DEF AskUserToChangeRelationship, SocialInv, SocialTypeOK, RelationsAreTrue, KnownFriends, Nobody
<1>4. ASSUME NEW u \in Contact, SendFriendInvite(u) \/ AcceptFriendInvite(u) \/ RejectFriendInvite(u)
      PROVE  SocialInv'
  <2>1. {"friendadd", "friendrequestaccept", "friendrequestignore"} \subseteq DOMAIN Offer BY DEF Offer
  <2> QED BY <1>3, <1>4, <2>1 DEF SendFriendInvite, AcceptFriendInvite, RejectFriendInvite
<1>5. CASE UserAnswers
  <2>1. overlay' = None /\ overlay \in [page : DOMAIN Offer, of : Contact]
    BY <1>5 DEF UserAnswers, SocialInv, SocialTypeOK
  <2>2. \A p \in DOMAIN Offer : Offer[p].is \in SteamRelation BY DEF Offer, SteamRelation
  <2>3. CASE Becomes(overlay.of, Offer[overlay.page].is) BY <2>1, <2>2, <2>3, BecomesKeeps
  <2>4. CASE UNCHANGED <<relation, changes, friends, blocked, heard>>
    BY <2>1, <2>4 DEF SocialInv, SocialTypeOK, RelationsAreTrue, KnownFriends, Nobody
  <2> QED BY <1>5, <2>3, <2>4 DEF UserAnswers
<1>6. ASSUME NEW u \in Contact, RelationshipChanges(u) PROVE SocialInv'
  <2>1. overlay' \in {None} \cup [page : DOMAIN Offer, of : Contact]
    BY <1>6 DEF RelationshipChanges, SocialInv, SocialTypeOK
  <2> QED BY <1>6, <2>1, BecomesKeeps DEF RelationshipChanges
<1> QED BY <1>1, <1>2, <1>4, <1>5, <1>6 DEF SocialNext

\* A new instance has told nobody anything.
LEMMA SocialForgottenKeeps == SocialInv /\ SocialForgotten => SocialInv'
BY DEF SocialForgotten, SocialInv, SocialTypeOK, RelationsAreTrue, KnownFriends, Nobody, Relationship

\* A step of another component changes none of this.
LEMMA SocialStutters == SocialInv /\ UNCHANGED socialVars => SocialInv'
BY DEF socialVars, SocialInv, SocialTypeOK, RelationsAreTrue, KnownFriends, Nobody

-----------------------------------------------------------------------------
(* Presence.                                                               *)

PresenceInv == PresenceTypeOK /\ PresenceIsTrue

\* What an operation in the queue is, as far as presence asks: a query names friends.
IsAnothers(o) == "do" \in DOMAIN o /\ o.do # "QueryPresence"
OpShape == op = None \/ op \in PresenceOp \/ IsAnothers(op)

Said == [state : State, text : [Field -> Value]]
Account == [state : State, text : [Field -> Text]]

\* What Steam made of a text it takes again as it is.
LEMMA ToRichPresenceSettles ==
  /\ \A v \in Value : ToRichPresence(v) \in Text
  /\ \A v \in Text : ToRichPresence(v) = v
  /\ Text \subseteq Value
BY DEF Text, Value, ToRichPresence

\* What Steam says of a user may be kept and told.
LEMMA AccountIsSaid ==
  ASSUME PresenceInv, NEW u \in Person
  PROVE  account[u] \in Account /\ account[u] \in Said
BY ToRichPresenceSettles DEF PresenceInv, PresenceTypeOK, Account, Said

\* The copy an update starts from reads, once written, as what Steam publishes.
LEMMA LocalPresenceIsSaid ==
  ASSUME PresenceInv
  PROVE  GetLocalPresence \in Said
<1>1. Me \in Person /\ account[Me] \in Said BY AccountIsSaid DEF Person
<1>2. kept[Me] \in {None} \cup Said BY <1>1 DEF PresenceInv, PresenceTypeOK, Said
<1> QED BY <1>1, <1>2 DEF GetLocalPresence, ReadUserPresence, Said

\* Nothing was asked, and Steam publishes what an earlier instance had it publish.
LEMMA PresenceInvInit == PresenceInit => PresenceInv
<1> SUFFICES ASSUME PresenceInit PROVE PresenceInv
  OBVIOUS
<1>1. wanted \in [Field -> {"", "other"}] BY DEF PresenceInit
<1>2. account \in [Person -> Account] /\ account[Me].text = wanted
  BY <1>1 DEF PresenceInit, Account, State, Text, Person
<1>3. PresenceTypeOK
  <2>1. kept \in [Person -> {None} \cup Said] /\ told \in [Friend -> {None} \cup Said]
    BY DEF PresenceInit
  <2>2. watched \subseteq Friend BY DEF PresenceInit
  <2>3. announced \in Seq(Person)
    <3>1. announced = <<>> BY DEF PresenceInit
    <3>2. <<>> \in Seq(Person) OBVIOUS
    <3> QED BY <3>1, <3>2
  <2>4. wanted \in [Field -> Value] BY <1>1 DEF Value, Text
  <2> QED BY <1>2, <2>1, <2>2, <2>3, <2>4 DEF PresenceTypeOK, Account, Said
<1>4. GetCachedPresence(Me) = account[Me]
  BY DEF PresenceInit, GetCachedPresence, GetLocalPresence, ReadUserPresence, Person
<1>5. \A f \in Field : account[Me].text[f] = ToRichPresence(wanted[f])
  BY <1>1, <1>2 DEF ToRichPresence
<1>6. \A u \in Friend : GetCachedPresence(u) = None
  BY PresenceAssumption DEF PresenceInit, GetCachedPresence, Person
<1>7. \A f \in Field : account[Me].text[f] \in Text
  BY <1>1, <1>2 DEF Text
<1> QED BY <1>3, <1>4, <1>5, <1>6, <1>7, ToRichPresenceSettles DEF PresenceInv, PresenceIsTrue, PresenceInit

\* A presence that is published is what the game wants, if it folds to it field by field.
LEMMA PublishKeeps ==
  ASSUME PresenceInv, NEW text \in [Field -> Value], PublishLocalPresence(text),
         wanted' \in [Field -> Value],
         \A f \in Field : ToRichPresence(text[f]) = ToRichPresence(wanted'[f])
  PROVE  PresenceInv'
<1>1. Me \in Person /\ account[Me] \in Account /\ account \in [Person -> Account]
      /\ kept \in [Person -> {None} \cup Said]
  BY AccountIsSaid DEF Person, PresenceInv, PresenceTypeOK, Account, Said
<1> DEFINE written == [f \in Field |-> ToRichPresence(text[f])]
           copy == [state |-> account[Me].state, text |-> text]
<1>2. written \in [Field -> Text] BY ToRichPresenceSettles
<1>3. /\ account' = [account EXCEPT ![Me].text = written]
      /\ kept' = [kept EXCEPT ![Me] = copy]
      /\ watched' = watched /\ told' = told
      /\ announced' = announced \/ announced' = Append(announced, Me)
  BY DEF PublishLocalPresence, WriteLocalPresence, Announces
<1>4. copy \in Said BY <1>1 DEF Account, Said
<1>5. /\ account' \in [Person -> Account] /\ kept' \in [Person -> {None} \cup Said]
      /\ account'[Me] = [state |-> account[Me].state, text |-> written]
      /\ kept'[Me] = copy
      /\ \A u \in Friend : account'[u] = account[u] /\ kept'[u] = kept[u]
  BY <1>1, <1>2, <1>3, <1>4, PresenceAssumption DEF Account, Person
<1>6. announced' \in Seq(Person)
  <2>1. announced \in Seq(Person) BY DEF PresenceInv, PresenceTypeOK
  <2>2. Append(announced, Me) \in Seq(Person) BY <1>1, <2>1
  <2> QED BY <1>3, <2>1, <2>2
<1>7. PresenceTypeOK'
  BY <1>3, <1>5, <1>6 DEF PresenceInv, PresenceTypeOK, Account, Said
<1>8. GetCachedPresence(Me)'.state = account'[Me].state
  BY <1>4, <1>5 DEF GetCachedPresence, GetLocalPresence, ReadUserPresence, Said
<1>9. \A f \in Field : ToRichPresence(GetCachedPresence(Me)'.text[f]) = account'[Me].text[f]
  <2>1. CASE kept'[Me] = None
    BY <1>2, <1>5, <2>1, ToRichPresenceSettles DEF GetCachedPresence, GetLocalPresence, ReadUserPresence
  <2>2. CASE kept'[Me] # None
    BY <1>4, <1>5, <2>2 DEF GetCachedPresence, GetLocalPresence, ReadUserPresence, Said
  <2> QED BY <2>1, <2>2
<1>10. \A f \in Field : account'[Me].text[f] = ToRichPresence(wanted'[f])
  BY <1>5
<1>11. \A u \in Friend : GetCachedPresence(u)' \in {None, account'[u]}
         \/ \E i \in 1..Len(announced') : announced'[i] = u
  <2> SUFFICES ASSUME NEW u \in Friend
               PROVE  GetCachedPresence(u)' \in {None, account'[u]}
                      \/ \E i \in 1..Len(announced') : announced'[i] = u
    OBVIOUS
  <2>1. GetCachedPresence(u)' = GetCachedPresence(u) /\ account'[u] = account[u]
    BY <1>5, PresenceAssumption DEF GetCachedPresence
  <2>2. \A i \in 1..Len(announced) : i \in 1..Len(announced') /\ announced'[i] = announced[i]
    BY <1>1, <1>3 DEF PresenceInv, PresenceTypeOK
  <2> QED BY <2>1, <2>2 DEF PresenceInv, PresenceIsTrue
<1>12. \A u \in watched' : told'[u] = kept'[u]
  BY <1>3, <1>5 DEF PresenceInv, PresenceIsTrue, PresenceTypeOK
<1> QED BY <1>7, <1>8, <1>9, <1>10, <1>11, <1>12 DEF PresenceInv, PresenceIsTrue

\* Both updates publish what the game wants.
LEMMA UpdatesKeep ==
  ASSUME PresenceInv,
         \/ \E text \in [Field -> Value] : UpdatePresence(text)
         \/ \E fields \in SUBSET Field \ {{}} : \E mutations \in [fields -> Value] :
              PartialUpdatePresence(mutations)
  PROVE  PresenceInv'
<1>1. ASSUME NEW text \in [Field -> Value], UpdatePresence(text) PROVE PresenceInv'
  BY <1>1, PublishKeeps DEF UpdatePresence
<1>2. ASSUME NEW fields \in SUBSET Field, NEW mutations \in [fields -> Value],
             PartialUpdatePresence(mutations)
      PROVE  PresenceInv'
  <2> DEFINE text == Mutated(GetLocalPresence.text, mutations)
  <2>1. GetLocalPresence.text \in [Field -> Value] /\ wanted \in [Field -> Value]
    BY LocalPresenceIsSaid DEF Said, PresenceInv, PresenceTypeOK
  <2>2. text \in [Field -> Value] /\ Mutated(wanted, mutations) \in [Field -> Value]
    BY <2>1 DEF Mutated
  <2>3. GetCachedPresence(Me) = GetLocalPresence BY DEF GetCachedPresence
  <2>4. \A f \in Field : ToRichPresence(GetLocalPresence.text[f]) = ToRichPresence(wanted[f])
    BY <2>3 DEF PresenceInv, PresenceIsTrue
  <2>5. \A f \in Field : ToRichPresence(text[f]) = ToRichPresence(Mutated(wanted, mutations)[f])
    BY <2>4 DEF Mutated
  <2>6. PublishLocalPresence(text) /\ wanted' = Mutated(wanted, mutations)
    BY <1>2 DEF PartialUpdatePresence
  <2> HIDE DEF text
  <2> QED BY <2>2, <2>5, <2>6, PublishKeeps
<1> QED BY <1>1, <1>2

\* What is read of friends is what Steam holds, and is what the game was told.
LEMMA PresenceReadKeeps ==
  ASSUME PresenceInv, OpShape, PresenceRead
  PROVE  PresenceInv'
<1>1. op.of \subseteq Friend
  BY DEF PresenceRead, Runs, OpShape, IsAnothers, PresenceOp
<1>2. /\ kept \in [Person -> {None} \cup Said] /\ told \in [Friend -> {None} \cup Said]
      /\ watched \subseteq Friend
  BY DEF PresenceInv, PresenceTypeOK, Said
<1>3. /\ kept' = [u \in Person |-> IF u \in op.of THEN account[u] ELSE kept[u]]
      /\ told' = [u \in Friend |-> IF u \in op.of THEN account[u] ELSE told[u]]
      /\ watched' \subseteq watched \cup op.of
      /\ UNCHANGED <<account, announced, wanted>>
  BY <1>2 DEF PresenceRead, ReadAnew, ReadUserPresence
<1>4. \A u \in Friend : u \in Person /\ u # Me BY PresenceAssumption DEF Person
<1>5. /\ kept' \in [Person -> {None} \cup Said] /\ told' \in [Friend -> {None} \cup Said]
      /\ watched' \subseteq Friend
  BY <1>1, <1>2, <1>3, <1>4, AccountIsSaid
<1>6. PresenceTypeOK' BY <1>3, <1>5 DEF PresenceInv, PresenceTypeOK, Said
<1>7. Me \in Person /\ kept'[Me] = kept[Me] BY <1>1, <1>2, <1>3, PresenceAssumption DEF Person
<1>8. GetCachedPresence(Me)' = GetCachedPresence(Me)
  BY <1>3, <1>7 DEF GetCachedPresence, GetLocalPresence, ReadUserPresence
<1>9. \A u \in Friend : GetCachedPresence(u)' \in {account[u], GetCachedPresence(u)}
  BY <1>3, <1>4 DEF GetCachedPresence
<1>10. \A u \in watched' : told'[u] = kept'[u]
  BY <1>1, <1>2, <1>3, <1>4 DEF PresenceInv, PresenceIsTrue
<1> QED BY <1>3, <1>6, <1>8, <1>9, <1>10 DEF PresenceInv, PresenceIsTrue

\* An announcement brings the copy to what Steam holds, and whoever listens is told.
LEMMA RefreshKeeps ==
  ASSUME PresenceInv, RefreshPresence
  PROVE  PresenceInv'
<1> DEFINE who == Head(announced)
<1>1. announced \in Seq(Person) /\ announced # <<>> BY DEF RefreshPresence, PresenceInv, PresenceTypeOK
<1>2. who \in Person /\ announced' = Tail(announced) /\ announced' \in Seq(Person)
  BY <1>1 DEF RefreshPresence
<1>3. /\ kept \in [Person -> {None} \cup Said] /\ told \in [Friend -> {None} \cup Said]
      /\ watched \subseteq Friend
  BY DEF PresenceInv, PresenceTypeOK, Said
<1>4. /\ kept' = IF kept[who] # None THEN [kept EXCEPT ![who] = account[who]] ELSE kept
      /\ told' = IF kept[who] # None /\ who \in watched THEN [told EXCEPT ![who] = account[who]] ELSE told
      /\ UNCHANGED <<account, watched, wanted>>
  BY DEF RefreshPresence, IsKept, ReadUserPresence
<1> HIDE DEF who
<1>5. account[who] \in Account /\ account[who] \in Said BY <1>2, AccountIsSaid
<1>6. kept' \in [Person -> {None} \cup Said] /\ told' \in [Friend -> {None} \cup Said]
  BY <1>2, <1>3, <1>4, <1>5
<1>7. PresenceTypeOK' BY <1>2, <1>4, <1>6 DEF PresenceInv, PresenceTypeOK, Said
<1>8. \A u \in Friend : u \in Person /\ u # Me BY PresenceAssumption DEF Person
<1>9. /\ GetCachedPresence(Me)'.state = account[Me].state
      /\ \A f \in Field : ToRichPresence(GetCachedPresence(Me)'.text[f]) = account[Me].text[f]
  <2>1. CASE kept' = kept
    <3>1. GetCachedPresence(Me)' = GetCachedPresence(Me)
      BY <1>4, <2>1 DEF GetCachedPresence, GetLocalPresence, ReadUserPresence
    <3> QED BY <3>1 DEF PresenceInv, PresenceIsTrue
  <2>2. CASE kept' = [kept EXCEPT ![who] = account[who]] /\ who # Me
    <3>1. Me \in Person /\ kept'[Me] = kept[Me] BY <1>3, <2>2 DEF Person
    <3>2. GetCachedPresence(Me)' = GetCachedPresence(Me)
      BY <1>4, <3>1 DEF GetCachedPresence, GetLocalPresence, ReadUserPresence
    <3> QED BY <3>2 DEF PresenceInv, PresenceIsTrue
  <2>3. CASE kept' = [kept EXCEPT ![who] = account[who]] /\ who = Me
    <3>1. kept'[Me] = account[Me] BY <1>2, <1>3, <2>3
    <3>2. account[Me] \in Account /\ account' = account BY <1>4, <1>5, <2>3
    <3>3. GetLocalPresence' = IF kept'[Me] = None THEN account[Me] ELSE [kept'[Me] EXCEPT !.state = account[Me].state]
      BY <3>2 DEF GetLocalPresence, ReadUserPresence
    <3>4. [account[Me] EXCEPT !.state = account[Me].state] = account[Me] BY <3>2 DEF Account
    <3>5. GetCachedPresence(Me)' = account[Me]
      BY <3>1, <3>3, <3>4 DEF GetCachedPresence
    <3> QED BY <3>2, <3>5, ToRichPresenceSettles DEF Account
  <2> QED BY <1>4, <2>1, <2>2, <2>3
<1>10. \A u \in Friend : GetCachedPresence(u)' \in {None, account'[u]}
         \/ \E i \in 1..Len(announced') : announced'[i] = u
  <2> SUFFICES ASSUME NEW u \in Friend,
                      GetCachedPresence(u)' \notin {None, account'[u]}
               PROVE  \E i \in 1..Len(announced') : announced'[i] = u
    OBVIOUS
  <2>1. kept[u] \notin {None, account[u]} /\ u # who
    BY <1>2, <1>3, <1>4, <1>8 DEF GetCachedPresence
  <2>2. PICK i \in 1..Len(announced) : announced[i] = u
    BY <1>8, <2>1 DEF PresenceInv, PresenceIsTrue, GetCachedPresence
  <2>3. i # 1 BY <1>1, <2>1, <2>2 DEF who
  <2>4. i - 1 \in 1..Len(announced') /\ announced'[i - 1] = u BY <1>1, <1>2, <2>2, <2>3
  <2> QED BY <2>4
<1>11. \A u \in watched' : told'[u] = kept'[u]
  BY <1>2, <1>3, <1>4, <1>8 DEF PresenceInv, PresenceIsTrue
<1> QED BY <1>4, <1>7, <1>9, <1>10, <1>11 DEF PresenceInv, PresenceIsTrue

\* A change of an account is announced, and of the local user's the state alone is shown.
LEMMA AccountChangesKeeps ==
  ASSUME PresenceInv, NEW who \in Person, AccountChanges(who)
  PROVE  PresenceInv'
<1>1. /\ account \in [Person -> Account] /\ kept \in [Person -> {None} \cup Said]
      /\ watched \subseteq Friend /\ announced \in Seq(Person) /\ Me \in Person
  BY DEF PresenceInv, PresenceTypeOK, Account, Said, Person
<1>2. announced' = Append(announced, who) /\ UNCHANGED <<kept, watched, told, wanted>>
  BY DEF AccountChanges, Announces
<1>3. PICK new \in Account : /\ account' = [account EXCEPT ![who] = new]
                             /\ who = Me => new.text = account[Me].text
  <2>1. CASE account' = [account EXCEPT ![who].state = CHOOSE s \in State : s # account[who].state]
    <3> DEFINE other == CHOOSE s \in State : s # account[who].state
    <3>1. \E s \in State : s # account[who].state BY DEF State
    <3>2. other \in State BY <3>1
    <3> HIDE DEF other
    <3>3. [account[who] EXCEPT !.state = other] \in Account BY <1>1, <3>2 DEF Account
    <3>4. [account[who] EXCEPT !.state = other].text = account[who].text BY <1>1 DEF Account
    <3>5. account' = [account EXCEPT ![who] = [account[who] EXCEPT !.state = other]]
      BY <2>1 DEF other
    <3> QED BY <3>3, <3>4, <3>5
  <2>2. CASE who \in Friend /\ \E f \in Field : \E v \in Text \ {account[who].text[f]} :
               account' = [account EXCEPT ![who].text[f] = v]
    <3>1. PICK f \in Field, v \in Text : account' = [account EXCEPT ![who].text[f] = v]
      BY <2>2
    <3> DEFINE new == [account[who] EXCEPT !.text[f] = v]
    <3>2. new \in Account BY <1>1 DEF Account
    <3>3. who # Me BY <2>2, PresenceAssumption
    <3> QED BY <3>1, <3>2, <3>3
  <2> QED BY <2>1, <2>2 DEF AccountChanges
<1>4. account' \in [Person -> Account] /\ announced' \in Seq(Person)
  BY <1>1, <1>2, <1>3
<1>5. PresenceTypeOK' BY <1>2, <1>4 DEF PresenceInv, PresenceTypeOK, Account
<1>6. account'[Me] \in Account /\ account'[Me].text = account[Me].text
  BY <1>1, <1>3, <1>4
<1>7. kept[Me] # None => kept[Me] \in Said BY <1>1
<1>8. /\ GetCachedPresence(Me)'.state = account'[Me].state
      /\ GetCachedPresence(Me)'.text = GetCachedPresence(Me).text
  <2>1. CASE kept[Me] = None
    BY <1>2, <1>6, <2>1 DEF GetCachedPresence, GetLocalPresence, ReadUserPresence
  <2>2. CASE kept[Me] # None
    BY <1>2, <1>7, <2>2 DEF GetCachedPresence, GetLocalPresence, ReadUserPresence, Said
  <2> QED BY <2>1, <2>2
<1>9. \A u \in Friend : GetCachedPresence(u)' \in {None, account'[u]}
        \/ \E i \in 1..Len(announced') : announced'[i] = u
  <2> SUFFICES ASSUME NEW u \in Friend
               PROVE  GetCachedPresence(u)' \in {None, account'[u]}
                      \/ \E i \in 1..Len(announced') : announced'[i] = u
    OBVIOUS
  <2>1. CASE u = who
    <3>1. Len(announced') \in 1..Len(announced') /\ announced'[Len(announced')] = u
      BY <1>1, <1>2, <2>1
    <3> QED BY <3>1
  <2>2. CASE u # who
    <3>1. GetCachedPresence(u)' = GetCachedPresence(u) /\ account'[u] = account[u]
      BY <1>1, <1>2, <1>3, <2>2, PresenceAssumption DEF GetCachedPresence, Person
    <3>2. \A i \in 1..Len(announced) : i \in 1..Len(announced') /\ announced'[i] = announced[i]
      BY <1>1, <1>2
    <3> QED BY <3>1, <3>2 DEF PresenceInv, PresenceIsTrue
  <2> QED BY <2>1, <2>2
<1> QED BY <1>2, <1>5, <1>6, <1>8, <1>9 DEF PresenceInv, PresenceIsTrue

\* Every step of the component keeps what it shows true.
LEMMA PresenceStep ==
  ASSUME PresenceInv, OpShape, PresenceNext PROVE PresenceInv'
<1>1. CASE \E targets \in SUBSET Friend \ {{}}, listen \in BOOLEAN : QueryPresence(targets, listen)
  BY <1>1 DEF QueryPresence, presenceVars, PresenceInv, PresenceTypeOK, PresenceIsTrue,
              GetCachedPresence, GetLocalPresence, ReadUserPresence
<1> QED BY <1>1, UpdatesKeep, PresenceReadKeeps, RefreshKeeps, AccountChangesKeeps DEF PresenceNext

\* A new instance shows the local user as Steam still publishes them, and nobody else.
LEMMA PresenceForgottenKeeps ==
  ASSUME PresenceInv, PresenceForgotten PROVE PresenceInv'
<1>1. /\ kept' = [u \in Person |-> None] /\ told' = [u \in Friend |-> None] /\ watched' = {}
      /\ UNCHANGED <<account, announced, wanted>>
  BY DEF PresenceForgotten
<1>2. PresenceTypeOK' BY <1>1 DEF PresenceInv, PresenceTypeOK
<1>3. Me \in Person /\ account[Me] \in Account BY AccountIsSaid DEF Person
<1>4. GetCachedPresence(Me)' = account[Me]
  BY <1>1, <1>3 DEF GetCachedPresence, GetLocalPresence, ReadUserPresence
<1>5. \A u \in Friend : GetCachedPresence(u)' = None
  BY <1>1, PresenceAssumption DEF GetCachedPresence, Person
<1> QED BY <1>1, <1>2, <1>3, <1>4, <1>5, ToRichPresenceSettles DEF PresenceInv, PresenceIsTrue, Account

\* A step of another component changes none of this.
LEMMA PresenceStutters == PresenceInv /\ UNCHANGED presenceVars => PresenceInv'
BY DEF presenceVars, PresenceInv, PresenceTypeOK, PresenceIsTrue,
       GetCachedPresence, GetLocalPresence, ReadUserPresence

-----------------------------------------------------------------------------
(* The components beside each other.                                       *)

\* Another component's operation stays what it is when it comes to another step.
LEMMA AnothersIsKept ==
  ASSUME IsAnothers(op), NEW s
  PROVE  IsAnothers([op EXCEPT !.step = s])
BY DEF IsAnothers

\* Whatever operation comes, goes on or ends, a query of presence names friends.
LEMMA OpIsShaped == OpShape /\ [Next]_vars => OpShape'
<1> SUFFICES ASSUME OpShape, [Next]_vars PROVE OpShape'
  OBVIOUS
<1> USE DEF OpShape
<1>1. ASSUME UNCHANGED op PROVE OpShape'
  BY <1>1
<1>2. CASE StatsNext
  <2>1. CASE \/ \E amounts \in Amounts : UpdateStats(amounts)
             \/ \E targets \in Targets, names \in SUBSET Stat \ {{}} : QueryStats(targets, names)
             \/ QueryAchievementDefinitions \/ QueryAchievementStates
    BY <2>1 DEF UpdateStats, QueryStats, QueryAchievementDefinitions, QueryAchievementStates,
                AsksForStats, Begins, IsAnothers
  <2>2. CASE ResetStats \/ \E ids \in SUBSET Achievement \ {{}} : UnlockAchievements(ids)
    BY <2>2, <1>1 DEF ResetStats, UnlockAchievements, Begins, AtOnce, Outside, IsAnothers
  <2>3. CASE StatsWritten
    <3>1. IsAnothers(op) BY <2>3 DEF StatsWritten, Answered, Runs, PresenceOp
    <3> QED BY <2>3, <3>1 DEF StatsWritten, IsAnothers
  <2>4. CASE StatsRead
    <3>1. IsAnothers(op) BY <2>4 DEF StatsRead, Answered, Runs, PresenceOp
    <3> QED BY <2>4, <3>1 DEF StatsRead, IsAnothers
  <2>5. CASE \/ StatsWrittenInPart \/ StoreRefused \/ StatsCommitted \/ StatsRejected
             \/ StatsReset \/ DefinitionsRead \/ StatesRead
             \/ AchievementsCommitted \/ StatsCallFails \/ StatsTimeOut
    BY <2>5 DEF StatsWrittenInPart, StoreRefused, StatsCommitted, StatsRejected, StatsReset,
                DefinitionsRead, StatesRead, AchievementsCommitted, StatsCallFails,
                StatsTimeOut, Ends
  <2>6. ASSUME NEW ok \in BOOLEAN, SteamSendsStats(ok) PROVE OpShape'
    <3>1. IsAnothers(op)
      BY <2>6 DEF SteamSendsStats, At, Unwrapped, PresenceOp
    <3> QED BY <2>6, <3>1, AnothersIsKept DEF SteamSendsStats, Goes
  <2>7. CASE \/ OnUserAchievementStored \/ StoredUnheard \/ SteamCommits \/ SteamRejects
             \/ \E s \in Stat : OtherPlays(s)
             \/ \E a \in Achievement : GameIndicatesProgress(a)
    BY <2>7, <1>1 DEF OnUserAchievementStored, StoredUnheard, SteamCommits, SteamRejects,
                      OtherPlays, GameIndicatesProgress, Beside, Outside, queue
  <2> QED BY <1>2, <2>1, <2>2, <2>3, <2>4, <2>5, <2>6, <2>7 DEF StatsNext
<1>3. CASE PresenceNext
  <2>1. ASSUME NEW targets \in SUBSET Friend, NEW listen \in BOOLEAN, QueryPresence(targets, listen)
        PROVE  OpShape'
    BY <2>1 DEF QueryPresence, Begins, PresenceOp
  <2> QED BY <1>1, <1>3, <2>1
          DEF PresenceNext, UpdatePresence, PartialUpdatePresence, PresenceRead, RefreshPresence,
              AccountChanges, AtOnce, Outside, Ends, Beside, queue
<1>4. CASE FilesNext
  <2>1. CASE \/ EnumerateFiles \/ CloudIsSwitched \/ \E f \in File : DeleteFile(f)
    BY <1>1, <2>1 DEF EnumerateFiles, CloudIsSwitched, DeleteFile, AtOnce, Outside
  <2>2. CASE \/ \E f \in File : ReadFile(f)
             \/ \E f \in File, c \in Content : WriteFile(f, c)
             \/ \E source, target \in File : CopyFile(source, target)
    <3>1. ASSUME NEW f, ReadFile(f) PROVE OpShape'
      BY <3>1 DEF ReadFile, Begins, IsAnothers
    <3>2. ASSUME NEW f, NEW c, WriteFile(f, c) PROVE OpShape'
      BY <3>2 DEF WriteFile, Begins, IsAnothers
    <3>3. ASSUME NEW source, NEW target, CopyFile(source, target) PROVE OpShape'
      BY <3>3 DEF CopyFile, Begins, IsAnothers
    <3> QED BY <2>2, <3>1, <3>2, <3>3
  <2>3. CASE FileWritten \/ FileCallEnds \/ WriteTimesOut
    BY <2>3 DEF FileWritten, FileCallEnds, WriteTimesOut, Ends
  <2>4. CASE SourceRead
    <3>1. IsAnothers(op) BY <2>4 DEF SourceRead, Runs, PresenceOp
    <3>2. op' = [op EXCEPT !.step = "writing"] BY <2>4 DEF SourceRead, Goes
    <3> QED BY <3>1, <3>2, AnothersIsKept
  <2>5. CASE SteamWrites \/ SteamRefuses
    <3>1. CASE IsAwaited
      <4>1. IsAnothers(op) BY <3>1 DEF IsAwaited, At, PresenceOp
      <4> QED BY <2>5, <3>1, <4>1, AnothersIsKept DEF SteamWrites, SteamRefuses, SteamAnswers, Goes
    <3>2. CASE ~IsAwaited
      BY <1>1, <2>5, <3>2 DEF SteamWrites, SteamRefuses, SteamAnswers, Beside, queue
    <3> QED BY <3>1, <3>2
  <2> QED BY <1>4, <2>1, <2>2, <2>3, <2>4, <2>5 DEF FilesNext
<1>5. CASE SocialNext
  BY <1>1, <1>5 DEF SocialNext, QueryFriends, QueryBlockedUsers, OnPersonaStateChange,
     SendFriendInvite, AcceptFriendInvite, RejectFriendInvite, AskUserToChangeRelationship,
     UserAnswers, RelationshipChanges, AtOnce, Outside, Beside, queue
<1>6. CASE LogInOrOut \/ Restart \/ UNCHANGED vars
  BY <1>1, <1>6 DEF LogInOrOut, LogsInOrOut, Restart, vars, queue
<1> QED BY <1>2, <1>3, <1>4, <1>5, <1>6 DEF Next

\* What the game knows of people is true at the start and after every step.
IInv == OpShape /\ PresenceInv /\ SocialInv

LEMMA IInvInit == Init => IInv
<1>1. Init => op = None /\ PresenceInit /\ SocialInit BY DEF Init
<1> QED BY <1>1, PresenceInvInit, SocialInvInit DEF IInv, OpShape

LEMMA IInvStep == IInv /\ [Next]_vars => IInv'
<1> SUFFICES ASSUME IInv, [Next]_vars PROVE PresenceInv' /\ SocialInv'
  BY OpIsShaped DEF IInv
<1>1. CASE PresenceNext /\ UNCHANGED <<statVars, fileVars, socialVars, used>>
  BY <1>1, PresenceStep, SocialStutters DEF IInv
<1>2. CASE SocialNext /\ UNCHANGED <<statVars, presenceVars, fileVars, used>>
  BY <1>2, SocialStep, PresenceStutters DEF IInv
<1>3. CASE Restart
  BY <1>3, PresenceForgottenKeeps, SocialForgottenKeeps DEF Restart, IInv
<1>4. CASE UNCHANGED <<presenceVars, socialVars>>
  BY <1>4, PresenceStutters, SocialStutters DEF IInv
<1> QED BY <1>1, <1>2, <1>3, <1>4 DEF Next, LogInOrOut, vars

\* Of other people the game is shown, and was told, what Steam says of them, for any number
\* of them, of fields and of moves, whatever the other components do: the copies
\* FPresenceSteam and FSocialSteam keep follow Steam's announcements.
THEOREM PeopleAreShown == Spec => []PeopleAreShownTrue
<1>1. IInv => PeopleAreShownTrue
  BY DEF IInv, PresenceInv, SocialInv, PeopleAreShownTrue
<1> QED BY IInvInit, IInvStep, <1>1, PTL DEF Spec
=============================================================================
