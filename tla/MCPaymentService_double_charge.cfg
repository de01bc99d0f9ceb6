SPECIFICATION CalmSequentialSpec
CONSTANTS
  Orders = {o1}
  Users = {customer}
  Admins = {}
  Nobody = Nobody
  Consoles = {u1}
  Payments = {p1, p2}
  Refunds = {}
  Amounts = {1}
  MaxAttempts = 2
  Updates <- MCUpdates
  Total <- MCTotal
INVARIANTS
  ChargedOnce
CHECK_DEADLOCK TRUE
