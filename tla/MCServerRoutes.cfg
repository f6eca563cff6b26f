SPECIFICATION FairSpec
CONSTANTS
  w1 = w1 w2 = w2 r1 = r1 r2 = r2 r3 = r3 s1 = s1 s2 = s2 v1 = v1
  Workers <- MCWorkers
  Requests = {r1, r2}
  Inputs <- RouteInputs
  Styles <- MCStyles
  EngineVersions <- MCVersions
  DefaultVersion = v1
  Loadable <- MCLoadable
  MaxInFlight = 2
  MaxPages = 2
  LoadFaults = TRUE
  DiskFaults = FALSE
  NoRequest = NoRequest
  NoVersion = NoVersion
  NoStyle = NoStyle
  NoResponse = NoResponse
  NoFile = NoFile
  Hole = Hole
  Leftover = Leftover
INVARIANTS ModelReady DeathHasCause
PROPERTIES EveryRequestAnswered
