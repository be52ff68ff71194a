\* Two publications; one git command fails.
SPECIFICATION Spec
CONSTANTS
  q1 = q1  q2 = q2  q3 = q3  main = main  topic = topic  None = None
  Requests = {q1, q2}
  KindOf <- PublishOnly
  Branches = {main}
  MaxEdits = 1
  MaxStages = 0
  MaxCheckouts = 0
  MaxFailures = 1
  MaxTimeouts = 0
PROPERTIES PublishOkMeansPushed
CHECK_DEADLOCK FALSE
