------------------------------- MODULE CoinStore -------------------------------
(***************************************************************************)
(* What the hierarchy of coin views promises: three versions of the set of *)
(* unspent coins, each with the block it belongs to.  The durable one is   *)
(* on disk, the current one is what pcoinsTip shows, and the scratch one   *)
(* is what a view on top of it shows while a block is applied to it.       *)
(* No cache appears here.                                                  *)
(***************************************************************************)
CONSTANTS Txids, Coins, Blocks

VARIABLES durable, current, scratch   \* [coins |-> ..., best |-> ...]

vars == <<durable, current, scratch>>

Init == durable = current /\ scratch = current

\* A view is changed, coin by coin, and told its block.
ModifyCoins == \E t \in Txids, c \in Coins :
                  /\ scratch' = [scratch EXCEPT !.coins[t] = c]
                  /\ UNCHANGED <<durable, current>>

SetBestBlock == \E b \in Blocks :
                   /\ scratch' = [scratch EXCEPT !.best = b]
                   /\ UNCHANGED <<durable, current>>

\* The view is flushed into pcoinsTip, or thrown away.
Commit == /\ current' = scratch
          /\ UNCHANGED <<durable, scratch>>

Discard == /\ scratch' = current
           /\ UNCHANGED <<durable, current>>

\* pcoinsTip is flushed to disk.
Persist == /\ durable' = current
           /\ UNCHANGED <<current, scratch>>

\* What was not flushed is lost.
Crash == /\ current' = durable
         /\ scratch' = durable
         /\ UNCHANGED durable

Next == ModifyCoins \/ SetBestBlock \/ Commit \/ Discard \/ Persist \/ Crash

Spec == Init /\ [][Next]_vars
=============================================================================
