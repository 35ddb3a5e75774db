------------------------------- MODULE MCMlessd -------------------------------
(***************************************************************************)
(* Mlessd on a small instance: each version of the template gives the      *)
(* function another definition, without a debugger.                        *)
(***************************************************************************)
EXTENDS Mlessd, TLC

Versions == 1 .. MaxVersion
Keys == [v \in Versions |-> [def |-> v, debugger |-> NoDebugger]]
AllFiles == [v \in Versions |-> Files]
NoKeys == [d \in {} |-> d]

Symmetry == Permutations(Requests)
================================================================================
