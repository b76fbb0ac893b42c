\* Two products of two sellers, two orders of one buyer, one caller at a time
\* on a SellerOrder; two scenes.
CONSTANTS
  p1 = p1
  p2 = p2
  s1 = s1
  s2 = s2
  b1 = b1
  o1 = o1
  o2 = o2
  Products = {p1, p2}
  Seller <- TwoSellers
  Buyers = {b1}
  Orders = {o1, o2}
  Admin = Admin
  MaxQuantity = 2
  InitialStock = 3
SPECIFICATION MCFairSpec
INVARIANTS UnitsAccounted ReversedOnce ParentNeverAhead SingleSellerParentIsExact
PROPERTIES MovesAreLegal NewOrdersAdvance
