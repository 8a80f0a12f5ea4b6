------------------------------ MODULE MCLexer ------------------------------
(***************************************************************************)
(* Lexer for TLC: every file of at most MaxLength characters.  Nothing     *)
(* needs to be defined for the model checker.                              *)
(***************************************************************************)
EXTENDS Lexer
=============================================================================
