SPECIFICATION BillingSpec
CONSTANTS
  alice = alice
  bob = bob
  k1 = k1
  r1 = r1
  r2 = r2
  Users = {alice, bob}
  Keys = {k1}
  Requests = {r1, r2}
  NoUser = NoUser
  NoKey = NoKey
  Owner <- MCOwner
  Referrer <- MCReferrer
  OpeningBalances <- MCOpeningBalances
  AdminBalances <- MCAdminBalances
  Costs <- MCCosts
  Limits = {0, 3}
  RateSettings = {15000}
  MaxRounds = 2
  MaxRetries = 1
  MaxChurn = 1
SYMMETRY RequestSymmetry
INVARIANTS
  LedgerReconciles
  QuotaHonoured
  NeverBilledTwice
  DeliveredIsBilled
  CommissionsBacked
PROPERTIES
  OnlyAdminOverdraws
CHECK_DEADLOCK FALSE
