SPECIFICATION ChannelsFairSpec
CONSTANTS
  None = None
  Channels = {1, 2}
  Priority <- MCPriority
  Algorithm = "weighted_round_robin"
  Weights = {1, 2}
  OpeningWeight <- MCOpeningWeight
  Thresholds = {1, 2}
  Requests = {"r1"}
  MaxFailures = 2
  MaxCounter = 3
  MaxChurn = 2
INVARIANTS
  ChannelsTypeOK
  EnabledIsSound
  RoundsFollowWeights
PROPERTIES
  SwitchedOffComesBack
CHECK_DEADLOCK FALSE
