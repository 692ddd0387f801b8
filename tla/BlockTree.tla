------------------------------ MODULE BlockTree ------------------------------
(***************************************************************************)
(* The blocks that exist anywhere on the network, and the rules of the     *)
(* StakePointer fork, as constants.  A block is what its hash stands for:  *)
(* header, body and stake pointer together.  pprev, nHeight, nChainWork    *)
(* and the ancestors are those of CBlockIndex (src/src/chain.h).           *)
(***************************************************************************)
EXTENDS Integers, FiniteSets

CONSTANTS
    Blocks,          \* every block that exists anywhere on the network
    Genesis,         \* Params().GenesisBlock()
    NULL,            \* no block, no outpoint
    pprev,           \* parent of each block; NULL for Genesis
    Ancestors,       \* the blocks from Genesis up to a block, itself included
    nHeight,         \* CBlockIndex::nHeight
    nChainWork,      \* CBlockIndex::nChainWork
    Outpoints,       \* outputs a stake pointer may name
    stakePointer,    \* outpoint (txid, nPos) of each v5 block, NULL before the fork
    pointerBlock,    \* stakePointer.hashBlock, the block that paid that output
    nTime,           \* block time; with the pointer it is the proof-of-stake id
    StakePointerForkHeight, ValidStakePointerDuration, MaxReorganizationDepth,
    KernelModifierOffset

\* pprev, nHeight and Ancestors describe one tree rooted at Genesis.
ASSUME TreeAssumption ==
    /\ IsFiniteSet(Blocks) /\ Genesis \in Blocks /\ NULL \notin Blocks
    /\ pprev \in [Blocks -> Blocks \cup {NULL}]
    /\ \A b \in Blocks : pprev[b] = NULL <=> b = Genesis
    /\ nHeight \in [Blocks -> Nat] /\ nHeight[Genesis] = 0
    /\ \A b \in Blocks \ {Genesis} : nHeight[b] = nHeight[pprev[b]] + 1
    /\ Ancestors \in [Blocks -> SUBSET Blocks]
    /\ Ancestors[Genesis] = {Genesis}
    /\ \A b \in Blocks \ {Genesis} : Ancestors[b] = Ancestors[pprev[b]] \cup {b}
    /\ \A b \in Blocks : \A a \in Ancestors[b] :
          /\ Genesis \in Ancestors[a] /\ Ancestors[a] \subseteq Ancestors[b]
          /\ a = b \/ nHeight[a] < nHeight[b]
          /\ \A c \in Ancestors[b] : a \in Ancestors[c] \/ c \in Ancestors[a]

\* Every block adds work to its ancestors': GetBlockProof is positive.
ASSUME WorkAssumption ==
    /\ nChainWork \in [Blocks -> Nat]
    /\ \A b \in Blocks : \A a \in Ancestors[b] : a = b \/ nChainWork[a] < nChainWork[b]

\* From the fork height on every block carries a pointer, before it none does.
ASSUME PointerAssumption ==
    /\ NULL \notin Outpoints
    /\ stakePointer \in [Blocks -> Outpoints \cup {NULL}]
    /\ pointerBlock \in [Blocks -> Blocks \cup {NULL}]
    /\ \A b \in Blocks :
          /\ stakePointer[b] # NULL <=> nHeight[b] >= StakePointerForkHeight
          /\ stakePointer[b] # NULL => pointerBlock[b] \in Blocks
    /\ nTime \in [Blocks -> Nat]
    /\ StakePointerForkHeight \in Nat \ {0}
    /\ ValidStakePointerDuration \in Nat
    /\ MaxReorganizationDepth \in Nat /\ KernelModifierOffset \in Nat

=============================================================================
