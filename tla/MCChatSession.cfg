SPECIFICATION ChatSpec
CONSTANTS
  r1 = r1
  r2 = r2
  h1 = h1
  h2 = h2
  NoRun = NoRun
  Runs = {r1, r2}
  Handlers = {h1, h2}
  MaxRounds = 1
  MaxAgents = 0
  MaxChurn = 1
SYMMETRY TwoOfEach
CONSTRAINT QuietCalls
INVARIANTS
  OneActiveRun
PROPERTIES
  ImplementsRunLife
CHECK_DEADLOCK FALSE
