SPECIFICATION Spec
CONSTANTS
  h1 = h1  h2 = h2  static = static  e1 = e1  e2 = e2  d1 = d1
  Pending = Pending  Watch = Watch  User = User  Nobody = Nobody  Down = Down
  Handlers = {h1, h2, static}
  StaticParts = {static}
  ApiHandlers = {h1}
  FlagEditors = {e2}
  ApiEditors = {e1}
  DirectEditors = {d1}
  MaxFaults = 1
INVARIANTS TypeOK SnapshotIsCore StaleIsOwed
PROPERTIES StoppedStaysDown
