\* Two requests and one slow reply of the bot.
SPECIFICATION Spec
CONSTANTS
  r1 = r1  r2 = r2
  t1 = t1  t2 = t2
  Requests = {r1, r2}
  Tasks = {t1, t2}
  TaskOf <- TwoIds
  MaxConcurrent = 1
  QueueSize = 1
  MaxFaults = 1
PROPERTIES NotifyNeverStopsJob
CHECK_DEADLOCK FALSE
