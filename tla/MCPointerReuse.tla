---------------------------- MODULE MCPointerReuse ----------------------------
(***************************************************************************)
(* ChainRestart on a chain that spends one stake pointer twice.            *)
(*                                                                         *)
(*     g - a1 - a2 - a3 - a4                                               *)
(*           \- b2                                                         *)
(*                                                                         *)
(* a2 and a4 spend the payment p of a1, a3 and b2 the payment q of g.  The *)
(* branch-relative scan finds the reuse when the body of a2 came before    *)
(* that of a4; mapUsedStakePointers has to find it when it came after.     *)
(***************************************************************************)
EXTENDS ChainRestart, TLC

CONSTANTS g, a1, a2, a3, a4, b2, p, q

T == [Blocks  |-> {g, a1, a2, a3, a4, b2},
      pprev   |-> (g :> NULL) @@ (a1 :> g) @@ (a2 :> a1) @@ (a3 :> a2) @@ (a4 :> a3)
                  @@ (b2 :> a1),
      anc     |-> (g :> {g}) @@ (a1 :> {g, a1}) @@ (a2 :> {g, a1, a2})
                  @@ (a3 :> {g, a1, a2, a3}) @@ (a4 :> {g, a1, a2, a3, a4})
                  @@ (b2 :> {g, a1, b2}),
      pointer |-> (g :> NULL) @@ (a1 :> NULL) @@ (a2 :> p) @@ (a3 :> q) @@ (a4 :> p)
                  @@ (b2 :> q)]

MCBlocks == T.Blocks
MCpprev == T.pprev
MCAncestors == T.anc
MCnHeight == [b \in MCBlocks |-> Cardinality(T.anc[b]) - 1]
MCstakePointer == T.pointer
MCpointerBlock == [b \in MCBlocks |-> CASE T.pointer[b] = p -> a1
                                        [] T.pointer[b] = q -> g
                                        [] OTHER -> NULL]
MCnTime == MCnHeight
AddressUp == (g :> 0) @@ (a1 :> 1) @@ (a2 :> 2) @@ (a3 :> 3) @@ (a4 :> 4) @@ (b2 :> 5)
MCAddressOrders == {AddressUp}

\* A node whose operator runs verifychain while a dispute is open.
SpecVerify == Init /\ [][Receive \/ Activate \/ Dispute \/ Verify]_vars
=============================================================================
