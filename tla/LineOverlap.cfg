SPECIFICATION FairSpec
CONSTANTS
  l1 = l1  l2 = l2  r1 = r1  r2 = r2  j1 = j1  j2 = j2  on = on  off = off
  Nothing = Nothing
  Lines = {l1}
  Requests = {r1}
  Jobs = {j1, j2}
  Legacy = {}
  Types = {"cloudflare"}
  Settings = {on}
  NginxSettings = {on}
  Operations = {"create", "extend", "apply", "check", "renew", "delete"}
  MaxTime = 2
  MaxFaults = 1
INVARIANTS RuntimeFollowsLine
PROPERTIES KeepsPromise EnabledOnlyWhileServable EndedLineIsCleaned DueLineIsTaken
