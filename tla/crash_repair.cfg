CONSTANTS
  NULL = NULL
  g = g
  a1 = a1
  a2 = a2
  a3 = a3
  a4 = a4
  b2 = b2
  p = p
  q = q
  Genesis = g
  Blocks <- MCBlocks
  pprev <- MCpprev
  Ancestors <- MCAncestors
  nHeight <- MCnHeight
  nChainWork <- MCnHeight
  Outpoints = {p, q}
  stakePointer <- MCstakePointer
  pointerBlock <- MCpointerBlock
  nTime <- MCnTime
  StakePointerForkHeight = 2
  ValidStakePointerDuration = 3
  MaxReorganizationDepth = 1
  KernelModifierOffset = 1
  AddressOrders <- MCAddressOrders
  BadContext = {}
  BadConnect = {}
  Disputed = {}
  ForceStart = {FALSE}
  ReprocessDepth = 0
  VerifyDepths = {}
  MaxRestarts = 1
  MaxCommands = 0

SPECIFICATION Spec
INVARIANTS
  NoPointerReuse
CHECK_DEADLOCK FALSE
