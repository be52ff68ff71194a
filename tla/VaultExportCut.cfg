\* One note, one export cut short.
SPECIFICATION Spec
CONSTANTS
  n1 = n1  x = x  index = index
  Nothing = Nothing  Foreign = Foreign  Default = Default  Broken = Broken
  NoteOrder <- OneNote
  PathOf <- AtX
  Paths = {x, index}
  Index = index
  ForeignPaths = {}
  MaxToggles = 2
  MaxFailures = 1
PROPERTIES UnpublishedLeave
CHECK_DEADLOCK FALSE
