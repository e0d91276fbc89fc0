SPECIFICATION Spec
CONSTANTS
  c1 = c1  c2 = c2  r1 = r1  r2 = r2
  Inbounds = {1, 2}
  Clients = {c1}
  Requests = {r1}
  Ops = {"update"}
  Renewing = {c1}
  Places = {{1, 2}}
  Nothing = Nothing
  Quota = 1
  Period = 2
  Expiries = {1}
  MaxTime = 3
  MaxOps = 0
  MaxFaults = 0
PROPERTIES RenewedEverywhere
CHECK_DEADLOCK FALSE
