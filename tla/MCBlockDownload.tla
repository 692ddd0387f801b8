---------------------------- MODULE MCBlockDownload ----------------------------
(***************************************************************************)
(* BlockDownload with a good peer and one that may do anything.            *)
(*                                                                         *)
(*   g - a1 - a2             the chain of p1                               *)
(*         \                                                               *)
(*           b2 - b3 - b4    the chain of p2: b3 is refused, and b4 has    *)
(*                           the stake of b2                               *)
(***************************************************************************)
EXTENDS BlockDownload, TLC

CONSTANTS g, a1, a2, b2, b3, b4, p1, p2

MCPprev == g :> NULL @@ a1 :> g @@ a2 :> a1 @@ b2 :> a1 @@ b3 :> b2 @@ b4 :> b3
MCAncestors == g :> {g} @@ a1 :> {g, a1} @@ a2 :> {g, a1, a2}
               @@ b2 :> {g, a1, b2} @@ b3 :> {g, a1, b2, b3} @@ b4 :> {g, a1, b2, b3, b4}
MCnHeight == [b \in Blocks |-> Cardinality(MCAncestors[b]) - 1]
MCstake == [b \in Blocks |-> IF b = b4 THEN b2 ELSE b]
MCHolds == p1 :> a2 @@ p2 :> b4
=============================================================================
