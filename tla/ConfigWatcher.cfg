SPECIFICATION Spec
CONSTANTS
  op = op
  mallory = mallory
  a = a
  b = b
  bad = bad
  Nothing = Nothing
  Operator = op
  Keys <- MCKeys
  Bodies <- MCBodies
  ValidBodies <- MCValidBodies
  Records <- AllRecords
  Polls = {p1, p2}
  MaxPublished = 3
  MaxFaults = 2
INVARIANTS
  DeliveredWasSigned
  IInv
PROPERTIES
  NeverBackwards
  Converges
  FollowsConfig
