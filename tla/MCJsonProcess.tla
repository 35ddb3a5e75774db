----------------------------- MODULE MCJsonProcess -----------------------------
(***************************************************************************)
(* JsonProcess on small instances.                                         *)
(***************************************************************************)
EXTENDS JsonProcess

CONSTANTS g1, g2, g3

(* AWS retries the call g1 as g2 with the same request id.                 *)
Retried == [g \in Calls |-> IF g = g2 THEN g1 ELSE g]
================================================================================
