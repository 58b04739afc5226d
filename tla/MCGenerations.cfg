SPECIFICATION GenerationsFairSpec
CONSTANTS
  None = None
  Users = {"u1", "u2"}
  Channels = {"videos", "others"}
  Jobs = {"j1"}
  Protocol <- MCProtocol
  Endpoints = {"image_edit", "video_task", "video"}
  Costs = {0, 1}
  Words = {"running", "completed", "error"}
  Calls = {"r1"}
  Polls = {"p1", "p2"}
INVARIANTS
  GenerationsArePaid
  EndingsAreTrue
PROPERTIES
  SettledRowsChangeLate
  EndingsReachTheRow
CHECK_DEADLOCK FALSE
