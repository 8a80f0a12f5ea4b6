--------------------------- MODULE MCExpressions ---------------------------
(* A variable wider than a literal, an address, a struct and a parameter   *)
(* of an enum type; a function with an argument and one that returns       *)
(* nothing.                                                                *)
EXTENDS Expressions

S     == [kind |-> "STRUCT", name |-> "S"]
State == [kind |-> "ENUM", name |-> "State"]

MCVariables   == [v \in {"wide", "address", "object", "state"} |->
                    CASE v = "wide"    -> Builtin("INT64")
                      [] v = "address" -> Builtin("VADDR")
                      [] v = "object"  -> S
                      [] v = "state"   -> State]

(* Numbers alone.                                                          *)
MCNumbers     == [v \in {"wide"} |-> Builtin("INT64")]

MCFields      == [s \in {"S"} |-> [f \in {"member"} |-> Builtin("INT32")]]
MCFunctions   == [f \in {"f", "nothing"} |->
                    IF f = "f" THEN [paramType |-> <<Builtin("INT64")>>,
                                     retType   |-> Builtin("INT32")]
                    ELSE [paramType |-> <<>>, retType |-> Builtin("VOID")]]
MCEnumBacking == [e \in {"State"} |-> "UINT8"]
MCArithmetic  == {"+"}
MCCompares    == {"=="}
MCUnaries     == {"!", "-"}

=============================================================================
