SPECIFICATION Spec
CONSTANTS
  first = first
  second = second
  Users = {u1}
  Products = {first, second}
  Stock <- MCStock
  CartIds = {k1, k2, k3}
  ItemIds = {i1, i2, i3, i4}
  Calls = {c1, c2}
  NoCart = NoCart
PROPERTIES
  OnlyAdditionsAdd
CHECK_DEADLOCK TRUE
