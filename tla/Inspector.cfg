SPECIFICATION Spec
CONSTANTS
  TestRuns = {r1, r2, r3}
  CancelCalls = {c1}
  NoRun = NoRun
  Ids <- MCIds
  Urls <- MCUrls
  Entries <- MCEntries
  AtFirst <- MCAtFirst
  Forced = {f1}
  MaxTimeouts = 1
  StartCalls = {s1, s2}
  TsEvents = {e1, e2}
  OtherEvent = OtherEvent
  NoEvent = NoEvent
  NoWatcher = NoWatcher
  Sources = {src1, src2}
  Rebuilds = {b1, b2}
  Writers = {w1, w2}
  HasB3nd = TRUE
  ReportFiles <- MCFiles
  Tests <- MCTests
  NoHeader = NoHeader
  MaxResults = 3
INVARIANTS
  TrIInv
  HmIInv
  FwInv
  AwInv
  ArInv
  RpInv
PROPERTIES
  RebuildsEnd
  ShowsTheAnswer
