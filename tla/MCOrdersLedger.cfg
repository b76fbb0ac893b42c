\* Two callers change one SellerOrder at the same time.
CONSTANTS
  p1 = p1
  p2 = p2
  s1 = s1
  s2 = s2
  b1 = b1
  o1 = o1
  o2 = o2
  Products = {p1, p2}
  Seller <- TwoSellers
  Buyers = {b1}
  Orders = {o1, o2}
  Admin = Admin
  MaxQuantity = 1
  InitialStock = 1
SPECIFICATION MCSpec
INVARIANTS LedgerNetsToZero
