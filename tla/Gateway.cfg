\* A plan and a single task at a time, in every setting; one fault.
SPECIFICATION FairSpec
CONSTANTS
  j1 = j1  j2 = j2
  Jobs = {j1, j2}
  Configurations <- AllSettings
  TTL = 2
  ProbeTimeout = 1
  MaxFaults = 1
  Requests <- APlanAndATask
  Subtasks = {"free"}
  Classes = {"infra", "other"}
  Replies = {0, 3}
  PlanLimit = 2
  MaxIterations = 2
INVARIANTS TypeOK
PROPERTIES ChoiceIsRecent CalmTasksServed ImplementsPlanRun
CHECK_DEADLOCK FALSE
