SPECIFICATION Spec
CONSTANTS
  op = op
  mallory = mallory
  m1 = m1
  m2 = m2
  broken = broken
  v1 = v1
  v2 = v2
  Nothing = Nothing
  Operator = op
  Keys <- MCKeys
  Bodies <- MCBodies
  ValidBodies <- MCValidBodies
  Versions <- MCVersions
  VersionOf <- MCVersionOf
  HasKey = TRUE
  Records <- AllRecords
  Checks = {c1, c2}
  MaxPublished = 3
  MaxFaults = 1
INVARIANT
  IInv
PROPERTIES
  AnnouncedAnew
  NoOlderThanAtBegin
  Converges
