CONSTANTS
  NULL = NULL
  g = g
  a1 = a1
  a2 = a2
  a3 = a3
  b2 = b2
  b3 = b3
  b4 = b4
  p = p
  q = q
  Genesis = g
  Blocks <- MCBlocks
  pprev <- MCpprev
  Ancestors <- MCAncestors
  nHeight <- MCnHeight
  nChainWork <- MCnHeight
  Outpoints = {p, q}
  stakePointer <- MCstakePointer
  pointerBlock <- MCpointerBlock
  nTime <- MCnTime
  StakePointerForkHeight = 2
  ValidStakePointerDuration = 3
  MaxReorganizationDepth = 1
  KernelModifierOffset = 1
  AddressOrders <- MCAddressOrders
  BadContext = {}
  BadConnect = {a3}
  Disputed = {b2}
  ForceStart = {FALSE}
  ReprocessDepth = 0
  VerifyDepths = {}
  MaxRestarts = 0
  MaxCommands = 1

SPECIFICATION SpecDisputed
INVARIANTS
  BestChainWhenIdle
CHECK_DEADLOCK FALSE
