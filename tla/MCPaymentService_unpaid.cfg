SPECIFICATION CalmSpec
CONSTANTS
  Orders = {o1}
  Users = {customer}
  Admins = {}
  Nobody = Nobody
  Consoles = {u1}
  Payments = {p1}
  Refunds = {}
  Amounts = {1}
  MaxAttempts = 2
  Updates <- MCUpdates
  Total <- MCTotal
INVARIANTS
  SuccessMarksPaid
CHECK_DEADLOCK TRUE
