SPECIFICATION Spec
CONSTANTS
  h1 = h1
  h2 = h2
  NoHost = NoHost
  W16 = 8
  Configs <- MCConfigs
  MaxVersion = 3
  MaxFetch = 2
INVARIANTS LastConfigServed HostIsOwn
PROPERTY FetchTakesEffect
CHECK_DEADLOCK FALSE
