SPECIFICATION MCSpec
CONSTANTS
  Users = {u1, u2}
  Products = {p1}
  MaxStock = 2
  MaxShown = 2
  Stock <- MCStock
  Slots = {s1, s2}
  Nobody = Nobody
  Nothing = Nothing
SYMMETRY Interchangeable
INVARIANTS
  TabInv
  SettledCartIsRight
  EditsStayVisible
PROPERTIES
  OnlyLateAnswersShowAnothers
CHECK_DEADLOCK TRUE
