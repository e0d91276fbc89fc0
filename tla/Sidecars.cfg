SPECIFICATION FairSpec
CONSTANTS
  i1 = i1  c1 = c1  c2 = c2  s1 = s1  s2 = s2  r1 = r1
  p1 = p1  p2 = p2  p3 = p3
  Inbounds = {i1}
  Clients = {c1, c2}
  Structures = {s1, s2}
  Requests = {r1}
  Kinds = {"client", "reset", "form", "toggle", "add", "drop"}
  Forms <- MCForms
  Pids = {p1, p2, p3}
  Absent = Absent
  MaxUse <- MCMaxUse
  MaxEdits = 2
  MaxFaults = 1
INVARIANTS TypeOK NoOrphans FingerprintIsTrue ClaimedOnce
PROPERTIES ConnectionsSurvive Converges
