SPECIFICATION Spec
CONSTANTS
  l1 = l1  l2 = l2  r1 = r1  r2 = r2  j1 = j1  j2 = j2  on = on  off = off
  Nothing = Nothing
  Lines = {l1}
  Requests = {r1, r2}
  Jobs = {}
  Legacy = {l1}
  Types = {"cloudflare", "reality"}
  Settings = {on}
  NginxSettings = {on}
  Operations = {"update", "get", "stage", "apply", "delete"}
  MaxTime = 2
  MaxFaults = 1
SYMMETRY RequestSymmetry
INVARIANTS TypeOK PendingCheckIsDeployed
PROPERTIES ApplyKeepsEdits
