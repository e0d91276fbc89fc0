SPECIFICATION Spec
CONSTANTS
  c1 = c1  c2 = c2  r1 = r1  r2 = r2
  Inbounds = {1, 2}
  Clients = {c1, c2}
  Requests = {r1, r2}
  Ops = {"create", "delete"}
  Renewing = {}
  Places = {{}, {1, 2}}
  Nothing = Nothing
  Quota = 1
  Period = 1
  Expiries = {1}
  MaxTime = 0
  MaxOps = 2
  MaxFaults = 1
SYMMETRY Symmetry

INVARIANTS LinksFollowList OrphansWereRaced
PROPERTIES OthersAreKept
