SPECIFICATION Spec
CONSTANTS
  one = one
  two = two
  Views <- MCViews
  NoView = NoView
  MaxInFlight = 3
  MaxLost = 2
INVARIANTS
  IInv
PROPERTY
  Converges
