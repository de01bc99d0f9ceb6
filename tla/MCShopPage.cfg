SPECIFICATION MCSpec
CONSTANTS
  None = None
  Names <- MCNames
  Seeds <- MCSeeds
  NewBodies <- MCNewBodies
  Changes <- MCChanges
  Calls = {c1, c2}
  MaxIds = 3
  PerPage = 1
  Terms = {"laptop"}
  Prices = {1}
  Entries <- MCEntries
SYMMETRY Interchangeable
INVARIANTS
  ShopInv
  ListingIsRight
PROPERTIES
  GoneStaysGone
  DeletesWhatItNames
  PagesTurnOneByOne
CHECK_DEADLOCK TRUE
