----------------------------- MODULE MCCheckQueue -----------------------------
(***************************************************************************)
(* CheckQueue with two workers and four checks.  While few threads have    *)
(* entered Loop a batch holds two checks, later one.                       *)
(***************************************************************************)
EXTENDS CheckQueue

CONSTANTS w1, w2, m, c1, c2, c3, c4

MCFailSets == {{}, {c1}}
=============================================================================
