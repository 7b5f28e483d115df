SPECIFICATION Spec
CONSTANTS
  o1 = o1
  o2 = o2
  o3 = o3
  r1 = r1
  r2 = r2
  Ops <- SomeOps
  Reports <- Two
  MaxFaults = 1
INVARIANTS
  CountedTwiceOnlyInOverlap
  LostOnlyWhenExposed
  IInv
PROPERTIES
  WindowMovesOn
