SPECIFICATION BothSpec
CONSTANTS
  v1 = v1
  v2 = v2
  Vault = {v1, v2}
  Path = {p1, p2}
  Absent = Absent
  Blank = Blank
  Heading = Heading
  Content = {Blank, Heading}
  Request = {r1, r2}
  Nobody = Nobody
  MaxObjects = 2
  n1 = n1
  n2 = n2
  Note = {n1, n2, n3}
  NoNote = NoNote
  Notebook = {v1, v2}
  FirstNotebook = v1
  InitiallyStored <- InitialNotes
  Flow = {f1, f2}
  MaxGestures = 2
  MaxUnits = 2
  Image = {i1}
  Uploaded = Uploaded
  MaxNote = 2
  MaxSaves = 2
  Site = {s1, s2}
  Folder = {"d", "#e"}
  NoteName = {"x.md", "#y.md"}
  Special = {"#y.md", "#e"}
  MaxDepth = 3
  MaxBlocks = 2
  Alias <- Highlighters
  Language = {"", "bash", "sh", "other"}
  MaxCopies = 2
CHECK_DEADLOCK FALSE
SYMMETRY Symmetry
CONSTRAINT SizesMatter
INVARIANTS
  UndisturbedStillApplies
  OneNoteOpen NotesArePlaced LockedTextIsSaved LockIsComing
  MenusFitTheText
  PickedIsInTheNote SizesAgree ExternalImagesWait
  LinksFindTheirNote OutlineCatchesUp CopyIsReported CodeModeIsShown
