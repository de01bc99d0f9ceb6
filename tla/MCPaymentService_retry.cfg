SPECIFICATION FairSpec
CONSTANTS
  Orders = {o1}
  Users = {customer, operator}
  Admins = {operator}
  Nobody = Nobody
  Consoles = {u1}
  Payments = {p1}
  Refunds = {r1}
  Amounts = {1, 2}
  MaxAttempts = 2
  Updates <- MCUpdates
  Total <- MCTotal
INVARIANTS
  PayInv
  OrderInv
  JournalIsTruthful
  NotifiesWhatIsJournaled
  NoStageSkipped
PROPERTIES
  NeverBackToPending
  ImplementsLifecycle
  PayersAreAnswered
CHECK_DEADLOCK TRUE
