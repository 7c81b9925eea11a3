SPECIFICATION Spec
CONSTANTS
  N = 4
  TPop = 1
  TPropose = 2
  TVote = 3
  BlockTime = 5
  MaxSkew = 0
  MaxClock = 14
  StartClocks = {5}
  StartSteps = {"null", "waiting"}
  HashOrders <- MCHashOrders
  None = None
INVARIANTS
  TypeOK
  TalliesAgree
  AtMostOneElected
  VerifiedIsElected
  UnsyncedBlocksAll
PROPERTIES
  CommitNeedsMajorities
  ConflictIsPermanent
