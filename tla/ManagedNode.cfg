SPECIFICATION Spec
CONSTANTS
  op = op
  mallory = mallory
  a = a
  b = b
  Nothing = Nothing
  Operator = op
  Keys <- MCKeys
  Bodies <- MCBodies
  ValidBodies <- MCBodies
  Records <- MCRecords
  Polls = {p1, p2}
  HasKey = TRUE
  MaxPublished = 3
  MaxFaults = 1
  MaxInFlight = 1
  MaxLost = 1
  MaxCrashes = 1
INVARIANTS
  IInv
  StatusShowsPublished
PROPERTIES
  ForwardWhileUp
  FollowsOperator
  OperatorSeesItsConfig
