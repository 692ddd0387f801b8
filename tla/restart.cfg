CONSTANTS
  NULL = NULL
  g = g
  a1 = a1
  a2 = a2
  b2 = b2
  b3 = b3
  p = p
  q = q
  Genesis = g
  Blocks <- MCBlocks
  pprev <- MCpprev
  Ancestors <- MCAncestors
  nHeight <- MCnHeight
  nChainWork <- MCnHeight
  Outpoints = {p, q}
  stakePointer <- MCstakePointer
  pointerBlock <- MCpointerBlock
  nTime <- MCnTime
  StakePointerForkHeight = 2
  ValidStakePointerDuration = 3
  MaxReorganizationDepth = 1
  KernelModifierOffset = 1
  AddressOrders <- OneAddressOrder
  BadContext = {}
  BadConnect = {b3}
  Disputed = {}
  ForceStart = {FALSE, TRUE}
  ReprocessDepth = 0
  VerifyDepths = {1}
  MaxRestarts = 2
  MaxCommands = 1

SPECIFICATION FairSpec
INVARIANTS
  CoinsFollowChain
  ActiveChainHasData
  MapSound
  DiskLoadable
  ActiveChainValid
  CandidateAtStart
  
PROPERTIES
  ComesBack
CHECK_DEADLOCK FALSE
