SPECIFICATION FairSpec
CONSTANTS
  c1 = c1  c2 = c2  r1 = r1  r2 = r2
  Inbounds = {1, 2}
  Clients = {c1}
  Requests = {r1}
  Ops = {"create", "attach", "detach", "delete", "bulkDelete", "update", "setEnable", "reset", "resetAll"}
  Renewing = {c1}
  Places = {{1, 2}}
  Nothing = Nothing
  Quota = 1
  Period = 2
  Expiries = {2}
  MaxTime = 1
  MaxOps = 2
  MaxFaults = 1

INVARIANTS TypeOK
PROPERTIES UsageIsKept DepletedGoesOff
