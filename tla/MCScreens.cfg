\* One tab: an auction's page, an order's page, or the notification list;
\* a seed script with one seller of one product and one lot, run twice;
\* four accounts, two sellers, two orders, four rows.
CONSTANTS
  bid = bid
  end = end
  ship = ship
  done = done
  sold = sold
  sale = sale
  u1 = u1
  u2 = u2
  lot = lot
  note = note
  ord = ord
  stk = stk
  Facts = {bid, end, ship, done, sold, sale}
  Fact <- FactTable
  Users = {u1, u2}
  Nobody = Nobody
  MaxRetries = 1
  Hooks = {lot, note, ord, stk}
  RoomOf <- HookTable
  Party <- Members
  Nothing = Nothing
  MaxDrops = 2
  MaxWire = 2
  s1 = s1
  g1 = g1
  g2 = g2
  r1 = r1
  Sellers = {s1}
  Reviewers = {r1}
  Admin = Admin
  Categories = {k1}
  k1 = k1
  Elsewhere = Elsewhere
  Applicant = Applicant
  Products <- OneProduct
  Lot <- OneLot
  Reviews <- OneReview
  Complaint <- OneComplaint
  Absent = Absent
  FirstStock = 1
  MaxRuns = 2
  ann = ann
  bob = bob
  cat = cat
  dan = dan
  o1 = o1
  o2 = o2
  Accounts = {ann, bob, cat, dan}
  Staff = {dan}
  Founders = {cat}
  Guest = Guest
  Wares = {g1, g2}
  OwnerOf <- Owners
  Purchases = {o1, o2}
  BuyerOf <- Buyers
  ItemsOf <- Baskets
  MaxRows = 4
SPECIFICATION MCSpec
INVARIANTS NobodyIsToldTwice AuctionViewsSettle AccountsSeeTheirs ScreensWork
PROPERTIES SafeToRepeat
CHECK_DEADLOCK FALSE
