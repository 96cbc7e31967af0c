SPECIFICATION Spec
CONSTANTS
  NoSchedule = NoSchedule
  Dates <- MCDates
  Delay <- MCDelay
  Schedules <- OnceOnly
  InitSchedule <- Once
  Handlers = {1, 2}
  MaxTime = 3
  MaxRuns = 2
  MaxFailures = 0
  MaxIgnored = 0
  MaxEdits = 0
INVARIANT OnceExecutesOnce
CHECK_DEADLOCK FALSE
