SPECIFICATION PricingSpec
CONSTANTS
  Inputs <- MCInputs
  Multipliers = {0, 2}
  GroupSettings <- MCGroupSettings
  Answers <- MCAnswers
  NoBill = NoBill
  MaxChanges = 1
INVARIANTS
  CachedTokensPricedOnce
CHECK_DEADLOCK FALSE
