SPECIFICATION DraftSpec
CONSTANTS
  Path = {a, b}
  NoPath = NoPath
  Absent = Absent
  Task = {t1, t2}
  NoTask = NoTask
  MaxText = 2
  MaxChains = 4
CHECK_DEADLOCK FALSE
SYMMETRY Symmetry
PROPERTY NoBlindOverwrite
