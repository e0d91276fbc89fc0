SPECIFICATION FairSpec
CONSTANTS
  h1 = h1  h2 = h2  static = static  e1 = e1  e2 = e2  d1 = d1
  Pending = Pending  Watch = Watch  User = User  Nobody = Nobody  Down = Down
  Handlers = {h1, h2}
  StaticParts = {}
  ApiHandlers = {h2}
  FlagEditors = {e1}
  ApiEditors = {e2}
  DirectEditors = {}
  MaxFaults = 1
PROPERTIES RemovedHandlerIsCut AddedHandlerRuns
