SPECIFICATION FairSpec
CONSTANTS
  c1 = c1
  c2 = c2
  a = a
  b = b
  None = None
  Clients <- MCClients
  Contents <- MCContents
  MaxPid = 1
INVARIANT KeyedByPid ExecutedBeforeCached
PROPERTY AgreesOnceWritesEnd
