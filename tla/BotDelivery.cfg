\* A /poc and a /task; one slot and one place in the queue; one fault in
\* all, of the worker or of the bot.
SPECIFICATION DeliverySpec
CONSTANTS
  r1 = r1  r2 = r2  t1 = t1  t2 = t2
  Requests = {r1, r2}
  Tasks = {t1, t2}
  TaskOf <- OwnTasks
  PocCommands = {r1}
  MaxConcurrent = 1
  QueueSize = 1
  MaxFaults = 1
  MaxAllFaults = 1
INVARIANTS
  TypeOK SlotConservation RecordedBeforeQueued ReportedIsStored StrandedRowsExplained
  SentIsDelivered FailureMeansNothing
PROPERTIES RowsOwned ImplementsAdmission PromiseKept
CHECK_DEADLOCK FALSE
