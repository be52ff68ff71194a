\* Two /run commands, nothing fails.
SPECIFICATION Spec
CONSTANTS
  p1 = p1  p2 = p2
  Pipelines = {p1, p2}
  MaxTaps = 0
  MaxFaults = 0
INVARIANTS OnePipeline
CHECK_DEADLOCK FALSE
