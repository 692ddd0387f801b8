------------------------------ MODULE MCSwiftTX ------------------------------
(***************************************************************************)
(* SwiftTX with two masternodes: m1 runs the code, m2 is known by its      *)
(* votes only, and votes as it likes.  w is a node that is no masternode.  *)
(* t1 and t2 spend the same outpoint p; t2 spends q as well.               *)
(***************************************************************************)
EXTENDS SwiftTX, TLC

CONSTANTS m1, m2, w, t1, t2, p, q

MCInputs == (t1 :> {p}) @@ (t2 :> {p, q})
MCHeightOf == [t \in Tx |-> 5]
MCQuorum == [n \in Nodes |-> [h \in Heights |-> Masternodes]]

\* The voter m1 lives through blocks and expiry; w, which only counts votes,
\* receives requests and votes, some of them in m1's name and not its own.
SpecVoting ==
    Init /\ [][\/ \E n \in Nodes : \/ \E t \in Tx : Request(n, t, HeightOf[t])
                                   \/ \E v \in Votes : /\ v.nBlockHeight # 0
                                                       /\ SignatureValid(v) \/ n \notin Steady
                                                       /\ Vote(n, v)
               \/ \E n \in Steady : \/ \E t \in Tx : ConnectBlock(n, t) \/ Expire(n, t)
                                    \/ CleanTransactionLocksList(n)]_vars

=============================================================================
