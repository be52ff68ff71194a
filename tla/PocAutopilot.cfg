\* Two confirmations of one slug, whose autopilots share the sandbox and the
\* directory; one fault of any kind.
SPECIFICATION FairSpec
CONSTANTS
  a1 = a1  a2 = a2  s1 = s1
  NoCaller = NoCaller
  Callers = {a1, a2}
  Slugs = {s1}
  SlugOf <- SameSlug
  Requested = 1
  MaxFaults = 1
INVARIANTS
  TypeOK ExecutionsBounded WithinRecursionLimit ReportMatchesBuild LeftoversCounted
PROPERTIES AutopilotEnds
CHECK_DEADLOCK FALSE
