SPECIFICATION AppSpec
CONSTANTS
  Token = {a, b}
  NoToken = NoToken
  Request = {t1, t2}
  IdleWindow = 2
  ActivityInterval = 1
  Lifetime <- MCLifetime
  MaxClock = 2
  Path = {a, b}
  NoPath = NoPath
  Absent = Absent
  Task = {t1, t2}
  NoTask = NoTask
  MaxText = 2
  MaxChains = 3
  Query = {"q", "r"}
  Item = {i1, i2}
  MaxInputs = 4
  Place = {pa, pb}
  NoPlace = NoPlace
  Entry = {e1}
  Doc = {d1, d2}
  NoDoc = NoDoc
  Picture = {g1, g2}
  MaxTasks = 2
  MaxFaults = 2
CHECK_DEADLOCK FALSE
SYMMETRY Symmetry
INVARIANTS
  TypeOK FixedAtBirth
  DraftTypeOK SaveIsComing
  ResultsAreOfTheQuery ListIsTrue
  NothingIsLost NotesComeBackWhole
PROPERTIES
  DeadStaysDead EndsOnlyByRevocation
  TypedTextIsKept OnlyReloadedIsOverwritten TypedMarkdownStays
