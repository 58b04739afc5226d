SPECIFICATION PaymentsFairSpec
CONSTANTS
  alice = alice
  o1 = o1
  c1 = c1
  c2 = c2
  Users = {alice}
  Orders = {o1}
  Callbacks = {c1, c2}
  OpeningBalances <- MCOpeningBalances
  AdminBalances <- MCAdminBalances
  Amounts = {2}
  Rates = {1, 3}
  Cent = 4
  MaxChurn = 4
INVARIANTS
  OrderCreditedOnce
  CreditsAreEarned
  AcknowledgedIsSettled
  RechargesReconcile
PROPERTIES
  PaymentsSettle
CHECK_DEADLOCK FALSE
