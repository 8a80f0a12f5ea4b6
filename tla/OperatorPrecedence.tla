------------------------- MODULE OperatorPrecedence -------------------------
(***************************************************************************)
(* get_token_precedence and the enum Precedence.                           *)
(***************************************************************************)
EXTENDS Naturals

LOWEST == 0
PREFIX == 12

(* The operators from the loosest to the tightest.                         *)
Level == <<{"||"}, {"&&"}, {"^^"}, {"|"}, {"^"}, {"&"}, {"==", "!="},
           {"<", "<=", ">", ">="}, {"<<", ">>"}, {"+", "-"}, {"*", "/", "%"},
           {"!", "~"}>>

AllOperators == UNION {Level[i] : i \in DOMAIN Level}

Precedence(t) ==
  IF t \in AllOperators THEN CHOOSE i \in DOMAIN Level : t \in Level[i] ELSE LOWEST

=============================================================================
