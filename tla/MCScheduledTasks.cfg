SPECIFICATION ScheduledTasksFairSpec
CONSTANTS
  None = None
  Unborn = Unborn
  Gone = Gone
  Tasks = {"t1"}
  MaxCrashes = 1
  Workers = {"w1", "w2"}
INVARIANTS
  StatusTellsWork
  RestsAsAsked
PROPERTIES
  DueTasksStart
CHECK_DEADLOCK FALSE
