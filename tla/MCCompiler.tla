----------------------------- MODULE MCCompiler -----------------------------
(* Programs of a few parts: a type or two, a variable and two functions,   *)
(* one of which shares its name with a type.                               *)
EXTENDS Compiler

CONSTANTS a, b, x, m

MCNames == {a, b, x}

MCNamesFor ==
  [d \in {"enum", "struct", "variable", "function", "parameter"} |->
     CASE d \in {"enum", "struct"}        -> {a}
       [] d = "function"                  -> {a, b}
       [] d \in {"variable", "parameter"} -> {x}]

MCWordsFor ==
  [d \in {"field", "variable", "function", "parameter"} |->
     CASE d = "field"                -> {a, ";"}
       [] d = "variable"             -> {a, "int8", ";"}
       [] d = "function"             -> {a, "void"}
       [] d = "parameter"            -> {a}]

MCSentences ==
  {Statement("return", Access(x)), Statement("return", EnumAccess(a, m)),
   Statement("call", Call(b, <<>>)), Statement("call", Call(b, <<EnumAccess(a, m)>>))}

MCInitials == {EnumAccess(a, m)}

MCNumbers == {256}

=============================================================================
