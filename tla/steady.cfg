CONSTANTS
  NULL = NULL
  g = g
  a1 = a1
  a2 = a2
  b2 = b2
  b3 = b3
  p = p
  q = q
  Genesis = g
  Blocks <- MCBlocks
  pprev <- MCpprev
  Ancestors <- MCAncestors
  nHeight <- MCnHeight
  nChainWork <- MCnHeight
  Outpoints = {p, q}
  stakePointer <- MCstakePointer
  pointerBlock <- MCpointerBlock
  nTime <- MCnTime
  StakePointerForkHeight = 2
  ValidStakePointerDuration = 3
  MaxReorganizationDepth = 1
  KernelModifierOffset = 1
  AddressOrders <- MCAddressOrders
  BadContext = {}
  BadConnect = {a2}
  Disputed = {b2}
  ForceStart = {FALSE}
  ReprocessDepth = 0
  VerifyDepths = {}
  MaxRestarts = 0
  MaxCommands = 2

SPECIFICATION FairSpecSteady
INVARIANTS
  MapComplete
  NoPointerReuse
PROPERTIES
  ActivationEnds
CHECK_DEADLOCK FALSE
