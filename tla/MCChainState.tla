----------------------------- MODULE MCChainState -----------------------------
(***************************************************************************)
(* ChainState on small block trees.                                        *)
(*                                                                         *)
(*     g - a1 - a2 - a3            heights follow the names                *)
(*           \- b2 - b3 - b4                                               *)
(*                                                                         *)
(* a2 and b3 spend the payment p of a1, a3 and b2 the payment q of g, and  *)
(* b4 spends p again: it must never be connected on top of b3.             *)
(***************************************************************************)
EXTENDS ChainRestart, TLC

CONSTANTS g, a1, a2, a3, b2, b3, b4, p, q

T == [Blocks  |-> {g, a1, a2, a3, b2, b3, b4},
      pprev   |-> (g :> NULL) @@ (a1 :> g) @@ (a2 :> a1) @@ (a3 :> a2)
                  @@ (b2 :> a1) @@ (b3 :> b2) @@ (b4 :> b3),
      anc     |-> (g :> {g}) @@ (a1 :> {g, a1}) @@ (a2 :> {g, a1, a2})
                  @@ (a3 :> {g, a1, a2, a3}) @@ (b2 :> {g, a1, b2})
                  @@ (b3 :> {g, a1, b2, b3}) @@ (b4 :> {g, a1, b2, b3, b4}),
      pointer |-> (g :> NULL) @@ (a1 :> NULL) @@ (a2 :> p) @@ (a3 :> q)
                  @@ (b2 :> q) @@ (b3 :> p) @@ (b4 :> p)]

MCBlocks == T.Blocks
MCpprev == T.pprev
MCAncestors == T.anc
MCnHeight == [b \in MCBlocks |-> Cardinality(T.anc[b]) - 1]
MCstakePointer == T.pointer
MCpointerBlock == [b \in MCBlocks |-> CASE T.pointer[b] = p -> a1
                                        [] T.pointer[b] = q -> g
                                        [] OTHER -> NULL]
MCnTime == MCnHeight
AddressUp == (g :> 0) @@ (a1 :> 1) @@ (a2 :> 2) @@ (a3 :> 3) @@ (b2 :> 4) @@ (b3 :> 5) @@ (b4 :> 6)
MCAddressOrders == {AddressUp, [b \in MCBlocks |-> 0 - AddressUp[b]]}

\* A node whose transaction locks and payment votes change.
SpecDisputed == Init /\ [][Receive \/ Activate \/ Dispute]_vars
=============================================================================
