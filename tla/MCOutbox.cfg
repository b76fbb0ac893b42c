\* Two instances relay one event to one queue, and each has a worker on it.
CONSTANTS
  e1 = e1
  e2 = e2
  q1 = q1
  q2 = q2
  i1 = i1
  i2 = i2
  Events = {e1}
  Queues = {q1}
  Route <- OneQueue
  Instances = {i1, i2}
  Workers <- TwoWorkers
  Nobody = Nobody
  MaxAttempts = 2
  JobAttempts = 1
  MaxStalls = 1
SPECIFICATION FairSpec
INVARIANTS CompletedMeansApplied
PROPERTIES EffectsHappenOnce EventuallyApplied
CHECK_DEADLOCK FALSE
