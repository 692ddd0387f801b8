------------------------------ MODULE CheckBatch ------------------------------
(***************************************************************************)
(* What a CCheckQueueControl promises to ConnectBlock: checks are handed   *)
(* over while the control is open, and Wait answers whether every one of   *)
(* them succeeded, whoever ran them and in whatever order.                 *)
(***************************************************************************)
VARIABLES stage,    \* "none", "open", "asked" (Wait), "dropped" (destructor), "terminated"
          failed,   \* one of the checks handed over does not succeed
          verdict   \* what the last control answered: "none", "good" or "bad"

vars == <<stage, failed, verdict>>

Init == /\ stage = "none"
        /\ failed = FALSE
        /\ verdict = "none"

Open == /\ stage = "none"
        /\ stage' = "open"
        /\ failed' = FALSE
        /\ verdict' = "none"

HandOver == /\ stage = "open"
            /\ failed' \in {failed, TRUE}
            /\ UNCHANGED <<stage, verdict>>

Ask == /\ stage = "open"
       /\ stage' = "asked"
       /\ UNCHANGED <<failed, verdict>>

\* The block is refused for another reason, or the thread is interrupted.
Drop == /\ stage \in {"open", "asked"}
        /\ stage' = "dropped"
        /\ UNCHANGED <<failed, verdict>>

Answer == /\ stage = "asked"
          /\ stage' = "none"
          /\ verdict' = (IF failed THEN "bad" ELSE "good")
          /\ UNCHANGED failed

Close == /\ stage = "dropped"
         /\ stage' = "none"
         /\ UNCHANGED <<failed, verdict>>

Terminate == /\ stage = "dropped"
             /\ stage' = "terminated"
             /\ UNCHANGED <<failed, verdict>>

Next == Open \/ HandOver \/ Ask \/ Drop \/ Answer \/ Close \/ Terminate

Spec == Init /\ [][Next]_vars
=============================================================================
