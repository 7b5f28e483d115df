SPECIFICATION Spec
CONSTANTS
  op = op
  mallory = mallory
  a = a
  b = b
  Nothing = Nothing
  Operator = op
  Keys <- MCKeys
  Bodies <- MCBodies
  ValidBodies <- MCBodies
  Records <- SealedRecords
  Polls = {p1, p2}
  HasKey = TRUE
  MaxPublished = 2
  MaxFaults = 0
  MaxInFlight = 1
  MaxLost = 0
  MaxCrashes = 0
PROPERTIES
  RetrySucceeds
