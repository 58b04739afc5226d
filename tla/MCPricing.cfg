SPECIFICATION PricingSpec
CONSTANTS
  Inputs <- MCInputs
  Multipliers <- MCMultipliers
  GroupSettings <- MCGroupSettings
  Answers <- MCAnswers
  NoBill = NoBill
  MaxChanges = 1
INVARIANTS
  PricedAsMeant
  EveryTokenPricedOnce
  CatalogIsCharged
CHECK_DEADLOCK FALSE
