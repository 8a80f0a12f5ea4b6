------------------------------ MODULE MCScopes ------------------------------
(* Two variable names and one function name, so that every name is bound   *)
(* again and again: as a global, a parameter, a local, in an inner scope.  *)
(* The types are a small and a large scalar, a struct that is larger than  *)
(* its alignment, and an enum, which sizes frames with a sentinel.         *)
EXTENDS Scopes, TLC

CONSTANTS left, right   (* Model values.  *)

Pair  == [kind |-> "STRUCT", name |-> "Pair"]
State == [kind |-> "ENUM", name |-> "State"]

MCNames       == {left, right}
MCFuncNames   == {"f"}
MCTypes       == {Builtin("INT8"), Builtin("INT64"), Pair, State}
MCLiterals    == {Builtin("INT32")}
MCStructInfo  == [s \in {"Pair"} |-> [size |-> 12, alignment |-> 4]]
MCEnumBacking == [e \in {"State"} |-> "UINT8"]

(* The names are only ever compared with each other.                       *)
NameSymmetry == Permutations(MCNames)

=============================================================================
