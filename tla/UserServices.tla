----------------------------- MODULE UserServices -----------------------------
(***************************************************************************)
(* Statistics and achievements, presence, user files and friends beside     *)
(* each other in one instance: their operations take turns in its queue, and *)
(* Steam's callbacks for any of them are dispatched while one waits.  The  *)
(* instance may be torn down, with an operation under way, and another     *)
(* begun; Steam keeps what it holds and finishes what it was given.        *)
(***************************************************************************)
EXTENDS UserStats, Presence, UserFiles, Social

VARIABLE
  used       \* bound: the components the game calls in a behaviour

vars == <<queue, statVars, presenceVars, fileVars, socialVars, used>>

\* A behaviour with two components begins with one move spent; None is no operation.
ASSUME ServicesAssumption ==
  /\ MaxMoves \in Nat \ {0}
  /\ None \notin StatsOp \cup PresenceOp \cup FilesOp

Components == {"stats", "presence", "files", "social"}

\* Where two are called there is one move less.
Init ==
  /\ used \in {s \in SUBSET Components : Cardinality(s) \in {1, 2}}
  /\ login = TRUE /\ op = None /\ moves = Cardinality(used) - 1
  /\ StatsInit /\ PresenceInit /\ FilesInit /\ SocialInit
  /\ "stats" \notin used => ~definitions
  /\ "presence" \notin used => \A f \in Field : wanted[f] = ""
  /\ "files" \notin used => bCompressBeforeUpload /\ \A f \in File : cloud[f] = Absent
  /\ "social" \notin used => \A u \in Contact : relation[u] = "none"

LogInOrOut == LogsInOrOut /\ UNCHANGED <<statVars, presenceVars, fileVars, socialVars, used>>

\* PreShutdown of every component, and a new instance that nobody is logged in to.
Restart ==
  /\ Moves /\ login' = FALSE /\ op' = None
  /\ StatsForgotten /\ PresenceForgotten /\ FilesForgotten /\ SocialForgotten
  /\ UNCHANGED used

Next ==
  \/ "stats" \in used /\ StatsNext /\ UNCHANGED <<presenceVars, fileVars, socialVars, used>>
  \/ "presence" \in used /\ PresenceNext /\ UNCHANGED <<statVars, fileVars, socialVars, used>>
  \/ "files" \in used /\ FilesNext /\ UNCHANGED <<statVars, presenceVars, socialVars, used>>
  \/ "social" \in used /\ SocialNext /\ UNCHANGED <<statVars, presenceVars, fileVars, used>>
  \/ LogInOrOut
  \/ Restart

Spec == Init /\ [][Next]_vars

-----------------------------------------------------------------------------
(* Properties.                                                             *)

\* The types of the queue and of each component's state.
TypeOK ==
  /\ login \in BOOLEAN /\ moves \in 0..MaxMoves
  /\ op \in {None} \cup StatsOp \cup PresenceOp \cup FilesOp
  /\ StatsTypeOK /\ PresenceTypeOK /\ FilesTypeOK /\ SocialTypeOK

\* Of other people the game is shown, and was told, what Steam says of them: what they are
\* doing (PresenceIsTrue) and what they are to the local user (RelationsAreTrue), whatever
\* order announcements, queries, logouts and new instances come in.
PeopleAreShownTrue == PresenceIsTrue /\ RelationsAreTrue
=============================================================================
