----------------------------- MODULE MCBlockCoins -----------------------------
(***************************************************************************)
(* BlockCoins on a chain of three blocks.                                  *)
(*                                                                         *)
(*   block 1   s, a coinstake with the outputs 1 and 2                     *)
(*   block 2   x, a coinbase, and y, which spends output 1 of s            *)
(*   block 3   z spends the output of x and the last one of s, and w       *)
(*             spends the output of z and has no spendable output          *)
(*                                                                         *)
(* The coinbases of the blocks 1 and 3, which nobody spends, are left out. *)
(***************************************************************************)
EXTENDS BlockCoins

CONSTANTS s, w, x, y, z

MCPruned == Coin({}, FALSE, FALSE, 0)
MCVout == [t \in Txids |-> CASE t = s -> {1, 2} [] t = w -> {} [] OTHER -> {1}]
MCWork == << << [tx |-> s, n |-> NULL] >>,
             << [tx |-> x, n |-> NULL], [tx |-> s, n |-> 1], [tx |-> y, n |-> NULL] >>,
             << [tx |-> x, n |-> 1], [tx |-> s, n |-> 2], [tx |-> z, n |-> NULL],
                [tx |-> z, n |-> 1], [tx |-> w, n |-> NULL] >> >>
MCCoins == {c \in [vout : SUBSET {1, 2}, fCoinBase : BOOLEAN, fCoinStake : BOOLEAN, nHeight : 0..3] :
               c.vout = {} => c = MCPruned}
=============================================================================
