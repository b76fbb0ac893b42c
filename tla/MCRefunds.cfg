\* Two instances refund one SellerOrder that was cancelled twice at once.
CONSTANTS
  e1 = e1
  e2 = e2
  s1 = s1
  i1 = i1
  i2 = i2
  Events = {e1, e2}
  SellerOrders = {s1}
  OrderOf <- CancelledTwice
  Instances = {i1, i2}
  Nobody = Nobody
  Repeated = {e1}
  JobAttempts = 2
  MaxStalls = 1
  MaxRestarts = 1
SPECIFICATION Spec
SYMMETRY Symmetry
INVARIANTS ProcessedMeansPaid OneTransferPerProcess DoneMeansAnswered
PROPERTIES VerdictIsFinal
CHECK_DEADLOCK FALSE
