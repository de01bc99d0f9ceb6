SPECIFICATION Spec
CONSTANTS
  first = first
  second = second
  Users = {u1, u2}
  Products = {first, second}
  Stock <- MCStock
  CartIds = {k1, k2}
  ItemIds = {i1, i2, i3}
  Calls = {c1}
  NoCart = NoCart
PROPERTIES
  ActsAtOnce
CHECK_DEADLOCK TRUE
