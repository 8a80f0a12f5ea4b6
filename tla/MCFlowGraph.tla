---------------------------- MODULE MCFlowGraph ----------------------------
(* Six nodes: a function with three if statements nested or in sequence,   *)
(* each with an else branch, and two functions one after the other.        *)
EXTENDS FlowGraph
=============================================================================
