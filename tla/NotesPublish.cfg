\* Two notes with the same public path, two lists of them, three taps, an edit in
\* Obsidian; another publisher at the path of the notes; one failure.
SPECIFICATION NotesSpec
CONSTANTS
  n1 = n1  n2 = n2  x = x  index = index  s1 = s1  s2 = s2
  Nothing = Nothing  Foreign = Foreign  Default = Default  Broken = Broken
  NoRows = NoRows  Disturbed = Disturbed
  Sessions = {s1, s2}
  NoteOrder <- TwoNotes
  PathOf <- Aliased
  Paths = {x, index}
  Index = index
  ForeignPaths = {x}
  MaxToggles = 3
  MaxFailures = 1
  MaxEdits = 1
INVARIANTS NoteAsLeft ManifestIsInventory
PROPERTIES PublishedArrive UnpublishedLeaveUncut
SYMMETRY SameSessions
CHECK_DEADLOCK FALSE
