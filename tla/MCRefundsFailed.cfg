\* One instance, restarted once, refunds one cancelled SellerOrder.
CONSTANTS
  e1 = e1
  e2 = e2
  s1 = s1
  i1 = i1
  i2 = i2
  Events = {e1}
  SellerOrders = {s1}
  OrderOf <- CancelledOnce
  Instances = {i1}
  Nobody = Nobody
  Repeated = {e1}
  JobAttempts = 2
  MaxStalls = 1
  MaxRestarts = 1
SPECIFICATION Spec
INVARIANTS FailedMeansOwed
CHECK_DEADLOCK FALSE
