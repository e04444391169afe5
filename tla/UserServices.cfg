SPECIFICATION Spec
CONSTANTS
  Me = Me
  None = None
  Other = Other
  Unread = Unread
  Absent = Absent
  Unreadable = Unreadable
  summed = summed
  largest = largest
  Stat = {summed, largest}
  Achievement = {a1, a2}
  Top = 2
  Method <- Rules
  Friend = {f1}
  Contact = {c1, c2}
  Field = {d1, d2}
  File = {u1, u2}
  MaxMoves = 3
SYMMETRY Alike
INVARIANTS TypeOK StatsAreSteams PeopleAreShownTrue FilesAreTheGames
CHECK_DEADLOCK FALSE
