SPECIFICATION FairSpec
CONSTANTS
  c1 = c1  c2 = c2  b1 = b1
  Clients = {c1, c2}
  Publishers = {b1}
  OpsQueue = 2
  CastQueue = 1
  SendQueue = 2
  Attempts = 2
INVARIANTS TypeOK ServedOrHungUp StragglersTimedOut
PROPERTIES EndedIsHungUp
