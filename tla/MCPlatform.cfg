\* One product, two writes at a time, one reader, two search workers; two
\* requests on one line and the whole order, up to two disputes; one order of
\* up to two sellers, two days and three commits.
CONSTANTS
  p1 = p1
  n1 = n1
  n2 = n2
  w1 = w1
  w2 = w2
  Products = {p1}
  Slug <- OneSlug
  Slots = {n1, n2}
  Counts = {1}
  MaxRev = 3
  MaxMoves = 2
  Viewers = {v1}
  Workers = {w1, w2}
  NoCopy = NoCopy
  r1 = r1
  r2 = r2
  Buyer = Buyer
  Seller = Seller
  Others = {Rival}
  Admins = {a1}
  Items = {i1}
  WholeOrder = WholeOrder
  Nobody = Nobody
  Requests = {r1, r2}
  MaxDisputes = 2
  MaxComments = 1
  Shops = {1, 2}
  Baskets = {o1}
  Units <- Quantities
  Gross <- Prices
  Fee <- Fees
  DayLength = 2
  LastInstant = 3
  MaxCommits = 3
  DefaultDays = 1
  MaxDays = 2
  TopN = 2
  Missing = Missing
SPECIFICATION MCSpec
INVARIANTS ListingIsFresh SearchSettles ReviewsAreEarned ReportAddsUp 
PROPERTIES TakedownStands ClosedPeriodsStay
SYMMETRY Symmetry
CHECK_DEADLOCK FALSE
