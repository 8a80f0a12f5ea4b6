-------------------------- MODULE ExpressionParser --------------------------
(***************************************************************************)
(* Parser::parse_expression and what it calls: a precedence climber.       *)
(*                                                                         *)
(* The recursion is a stack of activations.  Only the token at the cursor  *)
(* is ever looked at, so the tokens are chosen as the cursor gets to them. *)
(* A node of the tree is known by the position of the token it was made    *)
(* for.                                                                    *)
(*                                                                         *)
(* "x" is a literal or a name, with the members that are read of it; "f("  *)
(* is a name and the parenthesis after it, "read(" and "write(" are those  *)
(* of readWriteNameTable.                                                  *)
(***************************************************************************)
EXTENDS OperatorPrecedence, Integers, Sequences, FiniteSets

CONSTANTS
  Operators,  (* The operators of a program.                               *)
  MaxTokens   (* Bound: tokens of an expression.                           *)

ASSUME ParserAssumption == Operators \subseteq AllOperators /\ MaxTokens \in Nat \ {0}

Prefixes   == {"!", "~", "-"}
Openings   == {"f(", "read(", "write("}
TokenTypes == Operators \cup Openings \cup {"x", ")", ",", "end"}

VARIABLES
  tokens,  (* those seen; the last is the one at the cursor                *)
  nodes,   (* position of a node -> positions of its operands              *)
  stack,   (* the activations, outermost first                             *)
  result   (* position of the root, 0: running, Rejected: print_error      *)

vars == <<tokens, nodes, stack, result>>

Rejected == MaxTokens + 1

cursor == Len(tokens)
peek   == tokens[cursor]

(***************************************************************************)
(* phase: where the activation is; "left" when the loop is reached, with   *)
(* left in parts.  at: the token the node in progress is made for, parts:  *)
(* its operands so far.                                                    *)
(***************************************************************************)
Activation(precedence) ==
  [precedence |-> precedence, phase |-> "start", at |-> 0, parts |-> <<>>]

Top   == stack[Len(stack)]
Outer == SubSeq(stack, 1, Len(stack) - 1)

With(phase, at, parts) == [Top EXCEPT !.phase = phase, !.at = at, !.parts = parts]
Go(frame)              == stack' = Append(Outer, frame)
Call(frame, precedence) == stack' = Append(Append(Outer, frame), Activation(precedence))

(* left is the node of token at.                                           *)
Left(frame, at, parts) ==
  /\ nodes' = [p \in DOMAIN nodes \cup {at} |-> IF p = at THEN parts ELSE nodes[p]]
  /\ stack' = Append(Outer, [frame EXCEPT !.phase = "left", !.at = 0, !.parts = <<at>>])

consume ==
  \E t \in IF cursor < MaxTokens THEN TokenTypes ELSE {"end"} : tokens' = Append(tokens, t)

Running(phase) == result = 0 /\ Top.phase = phase

print_error == result' = Rejected /\ UNCHANGED <<tokens, nodes, stack>>

-----------------------------------------------------------------------------
Init ==
  /\ tokens \in {<<t>> : t \in TokenTypes}
  /\ nodes = <<>>
  /\ stack = <<Activation(LOWEST)>>
  /\ result = 0

(* An activation begins: a prefix operator or a primary.                   *)
Prefix ==
  /\ Running("start") /\ peek \in Prefixes
  /\ consume
  /\ Call(With("prefix", cursor, <<>>), PREFIX)
  /\ UNCHANGED <<nodes, result>>

Operand ==
  /\ Running("start") /\ peek = "x"
  /\ consume
  /\ Left(Top, cursor, <<>>)
  /\ UNCHANGED result

FunctionCall ==
  /\ Running("start") /\ peek = "f("
  /\ consume
  /\ Go(With("args", cursor, <<>>))
  /\ UNCHANGED <<nodes, result>>

ReadOrWrite ==
  /\ Running("start") /\ peek \in {"read(", "write("}
  /\ consume
  /\ Call(With(IF peek = "read(" THEN "read" ELSE "write", cursor, <<>>), LOWEST)
  /\ UNCHANGED <<nodes, result>>

NoPrimary ==
  /\ Running("start") /\ peek \notin Prefixes \cup Openings \cup {"x"}
  /\ print_error

(* The loop of parse_function_call: another argument, or the end.          *)
Argument ==
  /\ Running("args") /\ peek # ")"
  /\ Call(Top, LOWEST)
  /\ UNCHANGED <<tokens, nodes, result>>

EndCall ==
  /\ Running("args") /\ peek = ")"
  /\ consume
  /\ Left(Top, Top.at, Top.parts)
  /\ UNCHANGED result

(* Mutant: an operator of the same precedence goes to the right.           *)
InfixRight ==
  /\ Running("left") /\ Top.precedence <= Precedence(peek) /\ peek \in Operators
  /\ consume
  /\ Call(With("infix", cursor, Top.parts), Precedence(peek))
  /\ UNCHANGED <<nodes, result>>

(* Mutant: the right operand is read one level higher.                     *)
InfixHigher ==
  /\ Running("left") /\ Top.precedence < Precedence(peek)
  /\ consume
  /\ Call(With("infix", cursor, Top.parts), Precedence(peek) + 1)
  /\ UNCHANGED <<nodes, result>>

(* The loop of parse_expression: the operator binds tighter than the one   *)
(* this activation reads an operand for.                                   *)
Infix ==
  /\ Running("left") /\ Top.precedence < Precedence(peek)
  /\ consume
  /\ Call(With("infix", cursor, Top.parts), Precedence(peek))
  /\ UNCHANGED <<nodes, result>>

(* The activation returns left, to the one below or to its caller.         *)
Returns(phase) ==
  /\ Running("left") /\ Top.precedence >= Precedence(peek)
  /\ Len(stack) > 1 /\ Outer[Len(Outer)].phase = phase

Below == Outer[Len(Outer)]
Value == Top.parts[1]

(* The node of the activation below has all its operands.                  *)
Complete ==
  /\ nodes' = [p \in DOMAIN nodes \cup {Below.at} |->
                 IF p = Below.at THEN Append(Below.parts, Value) ELSE nodes[p]]
  /\ stack' = [Outer EXCEPT ![Len(Outer)] =
                 [@ EXCEPT !.phase = "left", !.at = 0, !.parts = <<Below.at>>]]

ReturnOperand ==
  /\ Returns("prefix") \/ Returns("infix")
  /\ Complete
  /\ UNCHANGED <<tokens, result>>

(* Mutant: a comma is expected after the last argument too.                *)
ReturnArgumentComma ==
  /\ Returns("args")
  /\ IF peek = ","
     THEN /\ consume
          /\ stack' = [Outer EXCEPT ![Len(Outer)].parts = Append(@, Value)]
          /\ UNCHANGED <<nodes, result>>
     ELSE print_error

ReturnArgument ==
  /\ Returns("args")
  /\ IF peek \in {")", ","}
     THEN /\ IF peek = "," THEN consume ELSE UNCHANGED tokens
          /\ stack' = [Outer EXCEPT ![Len(Outer)].parts = Append(@, Value)]
          /\ UNCHANGED <<nodes, result>>
     ELSE print_error

ReturnAddress ==
  /\ Returns("read")
  /\ IF peek = ")" THEN consume /\ Complete /\ UNCHANGED result ELSE print_error

(* "Write can't be used as an expression".                                 *)
ReturnToWrite == Returns("write") /\ print_error

Finish ==
  /\ Running("left") /\ Top.precedence >= Precedence(peek) /\ Len(stack) = 1
  /\ result' = Value
  /\ stack' = <<>>
  /\ UNCHANGED <<tokens, nodes>>

(* The expression has been read, or the compiler has exited.               *)
Done == result # 0 /\ UNCHANGED vars

Next ==
  \/ Prefix
  \/ Operand
  \/ FunctionCall
  \/ ReadOrWrite
  \/ NoPrimary
  \/ Argument
  \/ EndCall
  \/ Infix
  \/ ReturnOperand
  \/ ReturnArgument
  \/ ReturnAddress
  \/ ReturnToWrite
  \/ Finish
  \/ Done

Spec == Init /\ [][Next]_vars

-----------------------------------------------------------------------------
(***************************************************************************)
(* What an expression means, without the algorithm: a token is an infix    *)
(* operator if an operand ends before it; of the infix operators of an     *)
(* expression that are in no parenthesis, the loosest is the root, the     *)
(* last one of several, for all associate to the left.                     *)
(***************************************************************************)
Infixes(a, b) ==
  {p \in a+1..b : tokens[p] \in Operators /\ tokens[p-1] \in {"x", ")"}}

(* How many parentheses are opened and not closed in a..p-1.               *)
depth(a, p) ==
  Cardinality({i \in a..p-1 : tokens[i] \in Openings})
    - Cardinality({i \in a..p-1 : tokens[i] = ")"})

Outside(a, S) == {p \in S : depth(a, p) = 0}

Loosest(S) ==
  CHOOSE p \in S : \A q \in S : \/ Precedence(tokens[p]) < Precedence(tokens[q])
                                \/ Precedence(tokens[p]) = Precedence(tokens[q]) /\ q <= p

(* Where the arguments between the parentheses at a and b begin and end.   *)
Arguments(a, b) ==
  LET commas == Outside(a + 1, {p \in a+1..b-1 : tokens[p] = ","})
      Ends   == commas \cup (IF b = a + 1 \/ b - 1 \in commas THEN {} ELSE {b})
      First(e) == 1 + CHOOSE p \in commas \cup {a} :
                        p < e /\ \A q \in commas : q < e => q <= p
  IN  {<<First(e), e - 1>> : e \in Ends}

(* The node p and what is below it are the expression in a..b.             *)
Means(root, from, to) ==
  LET means[s \in Nat \X Nat \X Nat] ==
        LET p == s[1]
            a == s[2]
            b == s[3]
            outside == Outside(a, Infixes(a, b))
            parts   == nodes[p]
        IN  /\ p \in DOMAIN nodes
            /\ CASE outside # {} ->
                      /\ p = Loosest(outside)
                      /\ Len(parts) = 2
                      /\ means[<<parts[1], a, p - 1>>]
                      /\ means[<<parts[2], p + 1, b>>]
                 [] outside = {} /\ tokens[a] \in Prefixes ->
                      p = a /\ Len(parts) = 1 /\ means[<<parts[1], a + 1, b>>]
                 [] outside = {} /\ tokens[a] = "x" ->
                      p = a /\ b = a /\ parts = <<>>
                 [] OTHER ->
                      /\ p = a /\ a < b /\ tokens[b] = ")"
                      /\ Len(parts) = Cardinality(Arguments(a, b))
                      /\ \A r \in Arguments(a, b) :
                           LET i == Cardinality({q \in Arguments(a, b) : q[1] <= r[1]})
                           IN  means[<<parts[i], r[1], r[2]>>]
  IN  means[<<root, from, to>>]

-----------------------------------------------------------------------------
(***************************************************************************)
(* Properties.                                                             *)
(***************************************************************************)
Positions == 1..MaxTokens

TypeOK ==
  /\ tokens \in Seq(TokenTypes) /\ Len(tokens) \in 1..MaxTokens+1
  /\ DOMAIN nodes \subseteq Positions
  /\ \A p \in DOMAIN nodes : nodes[p] \in Seq(DOMAIN nodes)
  /\ stack \in Seq([precedence : LOWEST..PREFIX,
                    phase : {"start", "prefix", "args", "read", "write", "left", "infix"},
                    at : 0..MaxTokens, parts : Seq(DOMAIN nodes)])
  /\ result \in 0..MaxTokens+1

(* The tree parse_expression returns is the one the expression means,      *)
(* whatever operators and calls are nested in it, and it is made of all    *)
(* tokens before the one the parser stops at.                              *)
TreeIsMeaning ==
  result \notin {0, Rejected} => Means(result, 1, cursor - 1)

(* A token that is refused could not have gone on: after an operand every  *)
(* operator and, in an argument list, "," and ")" are accepted, and where  *)
(* an operand is expected everything that starts one.  Only a write in an  *)
(* expression is refused later than it could be.                           *)
RefusedTokensCannotFollow ==
  result = Rejected /\ "write(" \notin {tokens[i] : i \in 1..cursor} =>
    IF cursor > 1 /\ tokens[cursor - 1] \in {"x", ")"}
    THEN /\ peek \notin Operators
         /\ LET openings == {i \in 1..cursor-1 : tokens[i] \in Openings
                                /\ depth(i + 1, cursor) = 0}
            IN  \E i \in openings : /\ \A j \in openings : j <= i
                                    /\ peek \notin (IF tokens[i] = "f(" THEN {",", ")"} ELSE {")"})
    ELSE /\ peek \notin {"x"} \cup Prefixes \cup Openings
         /\ peek = ")" => cursor = 1 \/ tokens[cursor - 1] \notin {"f(", ","}

=============================================================================
