\* Two confirmations, no fault: the first build and its one fix are already
\* two executions.
SPECIFICATION Spec
CONSTANTS
  a1 = a1  a2 = a2  s1 = s1
  NoCaller = NoCaller
  Callers = {a1, a2}
  Slugs = {s1}
  SlugOf <- SameSlug
  Requested = 1
  MaxFaults = 0
INVARIANTS AtMostMaxIterations
CHECK_DEADLOCK FALSE
