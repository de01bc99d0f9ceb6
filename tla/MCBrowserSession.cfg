SPECIFICATION MCSpec
CONSTANTS
  Emails = {e1,e2}
  Tokens = {t1, t2, t3}
  Calls = {c1, c2}
  Tabs = {b1, b2}
  NoToken = NoToken
  Nobody = Nobody
  NoCall = NoCall
SYMMETRY Interchangeable
INVARIANTS
  BrowserInv
  StoredTokenIsGood
  OnlyTwinsAreBothLive
PROPERTIES
  LoadsSignIn
  EndedStaysEnded
  InactiveGetNoToken
CHECK_DEADLOCK TRUE
