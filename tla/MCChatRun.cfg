SPECIFICATION ChatFairSpec
CONSTANTS
  r1 = r1
  r2 = r2
  h1 = h1
  h2 = h2
  NoRun = NoRun
  Runs = {r1}
  Handlers = {h1}
  MaxRounds = 1
  MaxAgents = 2
  MaxChurn = 2
CONSTRAINT FewThings
INVARIANTS
  HandedOutOnce
  ApprovedFirst
  LeftoverTasks
  NoCallLeftOpen
PROPERTIES
  ClosedStaysClosed
  RunsEnd
CHECK_DEADLOCK FALSE
