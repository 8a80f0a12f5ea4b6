------------------------- MODULE MCExpressionParser -------------------------
(* One operator that is only infix and loose, one that is only infix and   *)
(* tight, one that is prefix and infix, and "!", which the precedence      *)
(* table also lets stand between two operands.                             *)
EXTENDS ExpressionParser

MCOperators == {"||", "*", "-", "!"}

=============================================================================
