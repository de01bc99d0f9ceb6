SPECIFICATION FairCheckoutSpec
CONSTANTS
  tab = tab
  first = p1
  Users = {u1}
  Products = {p1, p2}
  Stock <- MCStock
  CartIds = {b1}
  ItemIds = {i1, i2}
  Calls <- MCCalls
  NoCart = NoCart
  Checkouts = {k1}
  MaxAttempts = 2
INVARIANTS
  CheckoutInv
  ClearsFollowOrders
PROPERTIES
  NothingVanishes
  CheckoutsAnswered
CHECK_DEADLOCK TRUE
