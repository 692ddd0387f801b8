---------------------------- MODULE MCChainRestart ----------------------------
(***************************************************************************)
(* ChainRestart on a smaller tree, for the runs in which the operator, the *)
(* disk and the power supply take part too.                                *)
(*                                                                         *)
(*     g - a1 - a2                                                         *)
(*           \- b2 - b3                                                    *)
(*                                                                         *)
(* a2 spends the payment p of a1, b2 and b3 both spend the payment q of g. *)
(* With AddressUp, a1 lies above its children in memory, so that a flush   *)
(* writes their records first, and b3 above its parent.                    *)
(***************************************************************************)
EXTENDS ChainRestart, TLC

CONSTANTS g, a1, a2, b2, b3, p, q

T == [Blocks  |-> {g, a1, a2, b2, b3},
      pprev   |-> (g :> NULL) @@ (a1 :> g) @@ (a2 :> a1) @@ (b2 :> a1) @@ (b3 :> b2),
      anc     |-> (g :> {g}) @@ (a1 :> {g, a1}) @@ (a2 :> {g, a1, a2})
                  @@ (b2 :> {g, a1, b2}) @@ (b3 :> {g, a1, b2, b3}),
      pointer |-> (g :> NULL) @@ (a1 :> NULL) @@ (a2 :> p) @@ (b2 :> q) @@ (b3 :> q)]

MCBlocks == T.Blocks
MCpprev == T.pprev
MCAncestors == T.anc
MCnHeight == [b \in MCBlocks |-> Cardinality(T.anc[b]) - 1]
MCstakePointer == T.pointer
MCpointerBlock == [b \in MCBlocks |-> CASE T.pointer[b] = p -> a1
                                        [] T.pointer[b] = q -> g
                                        [] OTHER -> NULL]
MCnTime == MCnHeight
AddressUp == (g :> 0) @@ (b2 :> 1) @@ (a2 :> 2) @@ (a1 :> 3) @@ (b3 :> 4)
MCAddressOrders == {AddressUp, [b \in MCBlocks |-> 0 - AddressUp[b]]}
OneAddressOrder == {AddressUp}
=============================================================================
