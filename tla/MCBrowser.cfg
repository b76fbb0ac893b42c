\* Two tabs of one browser and two calls;
\* two edits of one line at once, or two checkouts under up to two keys.
CONSTANTS
  b1 = b1
  t1 = t1
  t2 = t2
  c1 = c1
  c2 = c2
  Browsers = {b1}
  Tabs = {t1, t2}
  BrowserOf <- OneBrowser
  Calls = {c1, c2}
  TabOf <- OneTab
  MaxPairs = 3
  MaxRefreshes = 2
  e1 = e1
  e2 = e2
  a1 = a1
  a2 = a2
  k2 = k2
  p1 = p1
  k1 = k1
  Goods = {p1}
  MaxQuantity = 2
  Edits = {e1, e2}
  Attempts = {a1, a2}
  Keys = {k1, k2}
  MaxOrders = 2
  Nothing = Nothing
SPECIFICATION MCSpec
INVARIANTS NoTabReusesItsToken OneOrderPerKey CartViewSettles
PROPERTIES EveryCallAnswered
CHECK_DEADLOCK FALSE
