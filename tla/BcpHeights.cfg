SPECIFICATION Spec
CONSTANTS
  N = 3
  TPop = 1
  TPropose = 2
  TVote = 3
  BlockTime = 5
  MaxSkew = 0
  MaxClock = 19
  StartClocks = {5}
  StartSteps = {"waiting"}
  HashOrders <- MCHashOrders
  None = None
INVARIANTS
  NoGaps
  Lockstep
