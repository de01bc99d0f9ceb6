SPECIFICATION Spec
CONSTANTS
  first = first
  second = second
  Users = {u1, u2}
  Products = {first, second}
  Stock <- MCStock
  CartIds = {k1, k2, k3}
  ItemIds = {i1, i2, i3}
  Calls = {c1, c2}
  NoCart = NoCart
SYMMETRY Interchangeable
INVARIANTS
  CartInv
  QuantityWithinStock
PROPERTIES
  OwnCartOnly
CHECK_DEADLOCK TRUE
