SPECIFICATION FairSpec
CONSTANTS
  i1 = i1  i2 = i2  c1 = c1  e1 = e1
  Inbounds = {i1, i2}
  Clients = {c1}
  Editors = {e1}
  Kinds = {"add", "delete", "disable", "toggle", "create", "drop"}
  Creates = {TRUE}
  Selections = {{i1}}
  NoInbound = NoInbound
  MaxStamp = 2
  MaxRemotes = 1
  MaxFaults = 1
INVARIANTS TypeOK EditsStayOwed
PROPERTIES NodeKeepsItsOwn DeletedStaysOut Settles
