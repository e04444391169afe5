------------------------------ MODULE UserStats ------------------------------
(***************************************************************************)
(* Statistics and achievements: FStatsSteam and FAchievementsSteam.        *)
(*                                                                         *)
(* Both set values in the Steam client and commit them with the same call, *)
(* StoreStats, which sends all that is set, whoever set it.  Steam answers *)
(* a commit on a callback that names the game and not the commit, so the   *)
(* operation that waits takes the first answer that comes.  A rejected     *)
(* commit puts back what the backend holds.  What the game is shown is a   *)
(* copy on this side, brought up to date by answers and announcements.     *)
(***************************************************************************)
EXTENDS ServiceQueue, SequencesExt

CONSTANTS
  Stat, Achievement,
  Other,       \* another user
  Unread,      \* a statistic that was not read
  Top,         \* bound: the largest number Steam stores, which is that of an int32
  Method       \* the rule the configuration names for each statistic

ASSUME StatsAssumption ==
  /\ Other # Me /\ Top \in Nat \ {0} /\ Unread \notin Nat
  /\ Stat \cap Achievement = {} /\ IsFiniteSet(Achievement)
  /\ Method \in [Stat -> {"Set", "Sum", "Largest", "Smallest"}]

VARIABLES
  held,        \* the Steam client: the local user's statistics, committed or not
  got,         \* the Steam client: the local user's achievements, committed or not
  stored,      \* Steam's backend: the statistics
  won,         \* Steam's backend: the achievements
  theirs,      \* Steam: the other user's statistics
  commits,     \* commits Steam has still to perform
  pipe,        \* Steam's callbacks, in order
  cached,      \* CachedUsersStats
  definitions, \* whether AchievementDefinitions is set
  progress,    \* AchievementStates: 0, 1 for part of the way, 2 for unlocked
  astray       \* history: what failures left shown otherwise than Steam holds it

steamStats == <<held, got, stored, won, theirs, commits>>
shown      == <<cached, definitions, progress>>
statVars   == <<steamStats, pipe, shown, astray>>

Unlocked == 2
StatUsers == {Me, Other}

\* Mutant of ToSteam: a number that does not fit is handed to Steam as it is.
Unclamped(v) == v

\* ToSteamInt, ToSteamFloat: a number is clamped into what Steam stores.
ToSteam(v) == IF v > Top THEN Top ELSE v

ApplyModifyMethod(m, current, update) ==
  CASE m = "Set"      -> update
    [] m = "Sum"      -> current + update
    [] m = "Largest"  -> IF update > current THEN update ELSE current
    [] m = "Smallest" -> IF update < current THEN update ELSE current

\* ReadUserStats.
ReadUserStats(h, u, names) ==
  [s \in names |-> IF u = Me THEN h[s] ELSE theirs[s]]

\* CacheUserStats: statistic by statistic.
CacheUserStats(u, stats) ==
  cached' = [cached EXCEPT ![u] = [s \in Stat |-> IF s \in DOMAIN stats THEN stats[s] ELSE cached[u][s]]]

\* What the game was shown of the local user that is not what Steam holds.
Differs(c, p, h, g) ==
  {s \in Stat : c[Me][s] # Unread /\ ToSteam(c[Me][s]) # h[s]}
  \cup {a \in Achievement : p # None /\ (p[a] = Unlocked) # g[a]}
GoesAstray == astray' = astray \cup Differs(cached', progress', held', got')

-----------------------------------------------------------------------------
(* The calls.                                                              *)

\* FSteamUserStats, answered through a call result.
AsksForStats(r) == Begins(r)

\* FSteamStoreStats: Steam takes the request, or refuses it before anything is sent.
StoreStats == commits' = commits + 1

Callback(what, a, ok) == [what |-> what, about |-> a, ok |-> ok]
IsNext(what) == pipe # <<>> /\ Head(pipe).what = what /\ pipe' = Tail(pipe)
Answered(do, step) == Runs(do) /\ At(step) /\ IsNext("received") /\ Head(pipe).ok
\* IsMatch looks at the game alone: any answer to a commit is taken for one's own.
Committed(do, ok) == Runs(do) /\ At("storing") /\ IsNext("stored") /\ Head(pipe).ok = ok

\* History: the answer was to a commit given up on; one's own may still be rejected.
AnothersAnswer == commits > 0 \/ \E i \in 2..Len(pipe) : pipe[i].what = "stored"
Believes(shownOf) == astray' = IF AnothersAnswer THEN astray \cup shownOf ELSE astray

-----------------------------------------------------------------------------
(* FStatsSteam.                                                            *)

\* UpdateStats: the numbers are folded into those Steam holds, so they are fetched first.
UpdateStats(amounts) ==
  /\ AsksForStats([do |-> "UpdateStats", step |-> "asked", with |-> amounts])
  /\ UNCHANGED statVars

\* WriteUserStats: what is written to Steam is clamped, what is kept for the game is not.
Folded(names) ==
  [s \in names |-> ApplyModifyMethod(Method[s], held[s], op.with[s])]
WriteUserStats(names) == held' = [s \in Stat |-> IF s \in names THEN ToSteam(Folded(names)[s]) ELSE held[s]]

StatsWritten ==
  /\ Answered("UpdateStats", "told")
  /\ WriteUserStats(DOMAIN op.with) /\ StoreStats
  /\ op' = [op EXCEPT !.with = Folded(DOMAIN op.with), !.step = "storing"]
  /\ UNCHANGED <<login, moves, got, stored, won, theirs, shown, astray>>

\* One of the statistics cannot be written; those before it have been.
StatsWrittenInPart ==
  /\ Answered("UpdateStats", "told") /\ Ends
  /\ \E names \in SUBSET DOMAIN op.with : names # DOMAIN op.with /\ WriteUserStats(names)
  /\ UNCHANGED <<got, stored, won, theirs, commits, shown>>
  /\ GoesAstray

\* Mutant of ReadAgain: the values Steam refused stay in the cache, if they were there.
LeftAlone(names) == UNCHANGED cached

\* A failed commit: what Steam now holds is read again.
ReadAgain(names) == CacheUserStats(Me, ReadUserStats(held', Me, names))

StoreRefused ==
  /\ Answered("UpdateStats", "told") /\ Ends
  /\ WriteUserStats(DOMAIN op.with) /\ ReadAgain(DOMAIN op.with)
  /\ UNCHANGED <<got, stored, won, theirs, commits, definitions, progress, astray>>

StatsCommitted ==
  /\ Committed("UpdateStats", TRUE) /\ Ends
  /\ CacheUserStats(Me, op.with) /\ Believes(DOMAIN op.with)
  /\ UNCHANGED <<steamStats, definitions, progress>>

StatsRejected ==
  /\ Committed("UpdateStats", FALSE) /\ Ends
  /\ UNCHANGED <<steamStats, definitions, progress, astray>>
  /\ ReadAgain(DOMAIN op.with)

\* QueryStats of one user; BatchQueryStats asks for one after the other.
QueryStats(targets, names) ==
  /\ AsksForStats([do |-> "QueryStats", step |-> "asked", with |-> names, of |-> targets])
  /\ UNCHANGED statVars

StatsRead ==
  /\ Answered("QueryStats", "told")
  /\ CacheUserStats(Head(op.of), ReadUserStats(held, Head(op.of), op.with))
  /\ op' = IF Len(op.of) = 1 THEN None ELSE [op EXCEPT !.of = Tail(@), !.step = "asked"]
  /\ UNCHANGED <<login, moves, steamStats, definitions, progress, astray>>

\* ResetStats; the achievements are left alone.
ResetStats ==
  /\ held' = [s \in Stat |-> 0]
  /\ UNCHANGED <<got, stored, won, theirs, pipe, shown>>
  /\ \/ Begins([do |-> "ResetStats", step |-> "storing"]) /\ StoreStats /\ UNCHANGED astray
     \/ AtOnce /\ UNCHANGED commits /\ GoesAstray   \* StoreStats was refused

StatsReset ==
  /\ Committed("ResetStats", TRUE) /\ Ends
  /\ cached' = [cached EXCEPT ![Me] = [s \in Stat |-> Unread]]
  /\ UNCHANGED <<steamStats, definitions, progress, astray>>

-----------------------------------------------------------------------------
(* FAchievementsSteam.                                                     *)

QueryAchievementDefinitions ==
  /\ AsksForStats([do |-> "QueryDefinitions", step |-> "asked"]) /\ UNCHANGED statVars

DefinitionsRead ==
  /\ Answered("QueryDefinitions", "told") /\ Ends
  /\ definitions' = TRUE
  /\ UNCHANGED <<steamStats, cached, progress, astray>>

QueryAchievementStates ==
  /\ definitions /\ AsksForStats([do |-> "QueryStates", step |-> "asked"]) /\ UNCHANGED statVars

StatesRead ==
  /\ Answered("QueryStates", "told") /\ Ends
  /\ progress' = [a \in Achievement |-> IF got[a] THEN Unlocked ELSE 0]
  /\ UNCHANGED <<steamStats, cached, definitions, astray>>

\* UnlockAchievements: all are looked at before one is set; Steam may refuse any of them,
\* or the commit, and those set before stay set.
UnlockAchievements(ids) ==
  /\ progress # None /\ \A a \in ids : progress[a] # Unlocked
  /\ UNCHANGED <<held, stored, won, theirs, pipe, shown>>
  /\ \/ /\ Begins([do |-> "Unlock", with |-> ids, step |-> "storing"])
        /\ got' = [a \in Achievement |-> a \in ids \/ got[a]]
        /\ StoreStats /\ UNCHANGED astray
     \/ /\ AtOnce
        /\ \E some \in SUBSET ids : got' = [a \in Achievement |-> a \in some \/ got[a]]
        /\ UNCHANGED commits /\ GoesAstray

\* MarkAchievementUnlocked: the first of the answer and the announcement is told.
MarkAchievementUnlocked(ids) ==
  progress' = IF progress = None THEN None
              ELSE [a \in Achievement |-> IF a \in ids THEN Unlocked ELSE progress[a]]

AchievementsCommitted ==
  /\ Committed("Unlock", TRUE) /\ Ends
  /\ MarkAchievementUnlocked(op.with) /\ Believes(op.with)
  /\ UNCHANGED <<steamStats, cached, definitions>>

\* OnUserAchievementStored: an unlock, or how far along the user is.
OnUserAchievementStored ==
  /\ Beside
  /\ \/ IsNext("unlocked") /\ MarkAchievementUnlocked({Head(pipe).about})
     \/ /\ IsNext("progress")
        /\ progress' = IF progress = None THEN None ELSE [progress EXCEPT ![Head(pipe).about] = 1]
  /\ UNCHANGED <<steamStats, cached, definitions, astray>>

-----------------------------------------------------------------------------
(* A call that comes to nothing.                                           *)

Unwrapped == {"QueryStats", "QueryDefinitions", "QueryStates", "UpdateStats"}

\* Steam has no statistics to give, or rejects a commit whose values nobody kept.
StatsCallFails ==
  /\ \/ IsNext("received") /\ ~Head(pipe).ok /\ At("told") /\ op.do \in Unwrapped
     \/ Committed("ResetStats", FALSE) \/ Committed("Unlock", FALSE)
  /\ Ends
  /\ UNCHANGED <<steamStats, shown>>
  /\ Believes(IF Runs("ResetStats") THEN Stat ELSE {})

\* An answer to a commit that was given up on, with nothing that waits for one.
StoredUnheard ==
  /\ IsNext("stored") /\ ~At("storing") /\ Beside
  /\ UNCHANGED <<steamStats, shown, astray>>

\* One call is under way, and one answer at most is in the pipe; nobody is left to hear it.
HasAnswer(i) == pipe[i].what = "received"
GivenUp ==
  \/ (\A i \in 1..Len(pipe) : ~HasAnswer(i)) /\ UNCHANGED pipe
  \/ \E i \in 1..Len(pipe) : HasAnswer(i) /\ pipe' = RemoveAt(pipe, i)

\* The deadline of the call.  Steam performs the commit all the same.
StatsTimeOut ==
  /\ op # None /\ op.do \in Unwrapped \cup {"ResetStats", "Unlock"} /\ Ends
  /\ GivenUp
  /\ UNCHANGED <<steamStats, definitions, progress>>
  /\ IF Runs("UpdateStats") /\ At("storing") THEN ReadAgain(DOMAIN op.with) ELSE UNCHANGED cached
  /\ IF Runs("ResetStats") THEN GoesAstray ELSE UNCHANGED astray

-----------------------------------------------------------------------------
(* Steam, the other user and the game beside its operations.               *)

SteamSendsStats(ok) ==
  /\ At("asked") /\ op.do \in Unwrapped /\ Goes("told")
  /\ pipe' = Append(pipe, Callback("received", None, ok))
  /\ UNCHANGED <<steamStats, shown, astray>>

\* A commit carries all the client holds; each new unlock is announced after the answer.
SteamCommits ==
  /\ commits > 0 /\ commits' = commits - 1 /\ Beside
  /\ stored' = held /\ won' = got
  /\ \E new \in SetToSeqs({a \in Achievement : got[a] /\ ~won[a]}) :
       pipe' = pipe \o <<Callback("stored", None, TRUE)>>
                    \o [i \in 1..Len(new) |-> Callback("unlocked", new[i], TRUE)]
  /\ UNCHANGED <<held, got, theirs, shown, astray>>

\* A rejected commit puts back what the backend holds.  The update that waits reads
\* its statistics again; whatever else the game was shown of it, nobody does.
AwaitsTheAnswer == Runs("UpdateStats") /\ At("storing") /\ \A i \in 1..Len(pipe) : pipe[i].what # "stored"
SteamRejects ==
  /\ commits > 0 /\ commits' = commits - 1 /\ Beside
  /\ held' = stored /\ got' = won
  /\ pipe' = Append(pipe, Callback("stored", None, FALSE))
  /\ UNCHANGED <<stored, won, theirs, shown>>
  /\ astray' = astray \cup (Differs(cached, progress, held', got')
                             \ (IF AwaitsTheAnswer THEN DOMAIN op.with ELSE {}))

OtherPlays(s) ==
  /\ Outside /\ theirs' = [theirs EXCEPT ![s] = 1 - @]
  /\ UNCHANGED <<held, got, stored, won, commits, pipe, shown, astray>>

\* IndicateAchievementProgress, which Steam takes for what is not unlocked.
GameIndicatesProgress(a) ==
  /\ Outside /\ ~got[a]
  /\ pipe' = Append(pipe, Callback("progress", a, TRUE))
  /\ UNCHANGED <<steamStats, shown, astray>>

-----------------------------------------------------------------------------

Amounts == UNION {[names -> 1..Top] : names \in SUBSET Stat \ {{}}}
Targets == {<<Me>>, <<Other>>, <<Me, Other>>, <<Other, Me>>}

\* The definitions and the states may have been read before.
StatsInit ==
  /\ held = [s \in Stat |-> 0] /\ stored = held
  /\ got = [a \in Achievement |-> FALSE] /\ won = got
  /\ theirs = [s \in Stat |-> 0]
  /\ commits = 0 /\ pipe = <<>>
  /\ cached = [u \in StatUsers |-> [s \in Stat |-> Unread]]
  /\ definitions \in BOOLEAN
  /\ progress \in {None} \cup {p \in {[a \in Achievement |-> 0]} : definitions}
  /\ astray = {}

\* A new instance of the services knows nothing of what the last one was told.
StatsForgotten ==
  /\ cached' = [u \in StatUsers |-> [s \in Stat |-> Unread]]
  /\ definitions' = FALSE /\ progress' = None
  /\ GivenUp
  /\ UNCHANGED <<steamStats, astray>>

StatsNext ==
  \/ \E amounts \in Amounts : UpdateStats(amounts)
  \/ StatsWritten \/ StatsWrittenInPart \/ StoreRefused \/ StatsCommitted \/ StatsRejected
  \/ \E targets \in Targets, names \in SUBSET Stat \ {{}} : QueryStats(targets, names)
  \/ StatsRead \/ ResetStats \/ StatsReset
  \/ QueryAchievementDefinitions \/ DefinitionsRead \/ QueryAchievementStates \/ StatesRead
  \/ \E ids \in SUBSET Achievement \ {{}} : UnlockAchievements(ids)
  \/ AchievementsCommitted \/ OnUserAchievementStored
  \/ StatsCallFails \/ StoredUnheard \/ StatsTimeOut
  \/ \E ok \in BOOLEAN : SteamSendsStats(ok)
  \/ SteamCommits \/ SteamRejects
  \/ \E s \in Stat : OtherPlays(s)
  \/ \E a \in Achievement : GameIndicatesProgress(a)

-----------------------------------------------------------------------------
(* Properties.                                                             *)

Numbers == [Stat -> 0..Top]
StatsOp ==
  [do : {"UpdateStats"}, step : {"asked", "told", "storing"}, with : UNION {[n -> 0..2 * Top] : n \in SUBSET Stat}]
  \cup [do : {"QueryStats"}, step : {"asked", "told"}, with : SUBSET Stat, of : Targets]
  \cup [do : {"QueryDefinitions", "QueryStates"}, step : {"asked", "told"}]
  \cup [do : {"ResetStats"}, step : {"storing"}]
  \cup [do : {"Unlock"}, step : {"storing"}, with : SUBSET Achievement]

StatsTypeOK ==
  /\ held \in Numbers /\ stored \in Numbers /\ theirs \in Numbers
  /\ got \in [Achievement -> BOOLEAN] /\ won \in [Achievement -> BOOLEAN]
  /\ commits \in 0..MaxMoves
  /\ pipe \in Seq([what : {"received", "stored", "unlocked", "progress"},
                   about : Achievement \cup {None}, ok : BOOLEAN])
  /\ cached \in [StatUsers -> [Stat -> 0..2 * Top \cup {Unread}]]
  /\ definitions \in BOOLEAN /\ progress \in {None} \cup [Achievement -> 0..Unlocked]
  /\ astray \subseteq Stat \cup Achievement

\* With no operation under way and nothing on its way from Steam, the game is shown the
\* local user's statistics and achievements as Steam holds them, up to the clamp, but for
\* what a named failure left apart: a write that failed in the middle, a commit Steam
\* refused to take, a reset that was given up on, an answer taken for another commit's,
\* and values taken back for which no update was waiting any more.
StatsAreSteams ==
  op = None /\ pipe = <<>> /\ commits = 0 => Differs(cached, progress, held, got) \subseteq astray
=============================================================================
