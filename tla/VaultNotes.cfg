\* Two saves under one title, each a digest or a tool thread, while two
\* reindexings run; one fault of any kind.
SPECIFICATION Spec
CONSTANTS
  s1 = s1  s2 = s2  x1 = x1  x2 = x2  a = a
  Saves = {s1, s2}
  Titles = {a}
  TitleOf <- SameTitle
  Tagged = {s1, s2}
  DigestSets <- ToolsOrDigests
  Reindexes = {x1, x2}
  MaxFaults = 1
INVARIANTS OlderNotesKept BlankExplained IndexCurrent HiddenExplained MissingExplained
SYMMETRY Alike
CHECK_DEADLOCK FALSE
