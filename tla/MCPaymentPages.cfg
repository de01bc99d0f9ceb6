SPECIFICATION MCSpec
CONSTANTS
  Orders = {o1}
  Users = {customer}
  Admins = {}
  Nobody = Nobody
  Payments = {p1, p2}
  Refunds = {}
  Amounts = {1}
  MaxAttempts = 1
  Updates <- MCUpdates
  Total <- MCTotal
  Shopper = customer
  NoOrder = NoOrder
  NoPayment = NoPayment
  Keys <- MCKeys
SYMMETRY Interchangeable
INVARIANTS
  PagesInv
  ToldAreListed
CHECK_DEADLOCK TRUE
