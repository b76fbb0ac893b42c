\* Two slow, crashing instances relay an event that fans out to two queues,
\* of which one is served, next to an event that no queue is mapped to.
CONSTANTS
  e1 = e1
  e2 = e2
  q1 = q1
  q2 = q2
  i1 = i1
  i2 = i2
  Events = {e1, e2}
  Queues = {q1, q2}
  Route <- WithUnmapped
  Instances = {i1, i2}
  Workers <- OneWorker
  Nobody = Nobody
  MaxAttempts = 2
  JobAttempts = 1
  MaxStalls = 0
SPECIFICATION Spec
INVARIANTS NothingLost
CHECK_DEADLOCK FALSE
