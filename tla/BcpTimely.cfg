SPECIFICATION TimelySpec
CONSTANTS
  N = 3
  TPop = 2
  TPropose = 4
  TVote = 6
  BlockTime = 8
  MaxSkew = 1
  MaxClock = 39
  StartClocks = {8, 9, 10, 11, 12, 13, 14, 15}
  StartSteps = {"waiting"}
  HashOrders <- MCHashOrders
  None = None
INVARIANTS
  Agreement
PROPERTIES
  ImplementsLedger
  Progress
