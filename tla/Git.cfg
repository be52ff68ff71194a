\* One request of each kind, one fault of every kind, two branches.
SPECIFICATION FairSpec
CONSTANTS
  q1 = q1  q2 = q2  q3 = q3  main = main  topic = topic  None = None
  Requests = {q1, q2, q3}
  KindOf <- Mixed
  Branches = {main, topic}
  MaxEdits = 2
  MaxStages = 1
  MaxCheckouts = 1
  MaxFailures = 1
  MaxTimeouts = 1
INVARIANTS OneTapOneCommit PublishCommitsOnlySite
PROPERTIES CalmPublishOkMeansPushed ConfirmedEnds
CHECK_DEADLOCK FALSE
