CONSTANTS
  search = search
  status = status
  v1 = v1
  v2 = v2
  a = a
  b = b
  ab = ab
  None = None
  Filters = {search, status}
  Search = search
  Words = {a, b, ab}
  Parts <- WordsRead
  Short = {b}
  Options = {a}
  InToolbar = {search}
  Default <- DefaultFilters
  DefaultSorted = FALSE
  Views = {v1, v2}
  FirstView = v1
  ViewFilters <- FiltersOfViews
  ViewSorted <- SortedViews
  ViewPinned <- PinnedInViews
  FieldDiffers = FALSE
  Rows = {1}
  Addresses <- Opening
  MaxPage = 2
SPECIFICATION Spec
CHECK_DEADLOCK FALSE
INVARIANTS
  TypeOK
  AddressRestoresTheGrid
  FiltersStayReachable
PROPERTIES
  FirstPageOfNewFilters
