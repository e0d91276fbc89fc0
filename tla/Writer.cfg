SPECIFICATION FairSpec
CONSTANTS
  p1 = p1  p2 = p2  p3 = p3  m1 = m1  m2 = m2
  Nobody = Nobody
  Submitters = {p1, p2, p3}
  Managers = {m1, m2}
  QueueSize = 1
  MaxWriters = 2
INVARIANTS TypeOK OneWriter
PROPERTIES KeepsWritePromise SubmitReturns StopReturns
