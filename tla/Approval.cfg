\* Two /run commands, two taps each, one failure or crash.
SPECIFICATION FairSpec
CONSTANTS
  p1 = p1  p2 = p2
  Pipelines = {p1, p2}
  MaxTaps = 2
  MaxFaults = 1
INVARIANTS
  TypeOK ReportOnlyIfApproved ShownMatchesVerdict PendingExplained FlagFallsWithLast
PROPERTIES EveryRunEnds
CHECK_DEADLOCK FALSE
