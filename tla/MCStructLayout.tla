--------------------------- MODULE MCStructLayout ---------------------------
(* Two struct names, three members, the smallest and the largest scalar, an *)
(* enum and a word of 64 values: nested structs reach the wrap-around.     *)
EXTENDS StructLayout

MCStructNames == {"Inner", "Outer"}
MCFieldKinds  == {"INT8", "INT64", "ENUM"}

=============================================================================
