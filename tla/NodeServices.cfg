SPECIFICATION Spec
CONSTANTS
  Txs = {t1, t2}
  Queries = {q1}
  Statements = 2
  MaxErrors = 1
  Writers = {w1, w2}
  NoFile = NoFile
  NodeCount = 4
  HasKey = {1, 2, 4}
  StopCalls = {s1, s2}
  NodeNames <- MCNodeNames
  SanitizeServiceName <- MCSanitizeServiceName
  MaxNodes = 3
INVARIANTS
  PgIInv
  FsInv
  LnInv
  CsInv
PROPERTIES
  SerialRefines
  NetworkStops
CHECK_DEADLOCK FALSE
