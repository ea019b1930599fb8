SPECIFICATION FilesSpec
CONSTANTS
  v1 = v1
  Vault = {v1, v2}
  Path = {p1, p2}
  Absent = Absent
  Blank = Blank
  Heading = Heading
  Content = {Blank, Heading}
  Request = {r1, r2}
  Nobody = Nobody
  MaxObjects = 2
  sa = sa
  sb = sb
  tx = tx
  ty = ty
  Shelf = {sa, sb}
  Title = {tx, ty}
  Nothing = Nothing
  MaxMoves = 1
  MaxEdits = 1
  MaxFailures = 2
CHECK_DEADLOCK FALSE
CONSTRAINT OneObjectPerVault
INVARIANTS
  TypeOK
  MoveIsWholeOrUndone
PROPERTIES
  OperationsAreAtomic
  SaveReplacesWhatItNames
  EveryRequestEnds
