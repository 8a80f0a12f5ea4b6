----------------------------- MODULE SourceWalk -----------------------------
(***************************************************************************)
(* The order in which the semantic analyser and the IR translator visit a  *)
(* program.  Both walk the tree the parser built, every statement before   *)
(* its parts, so a walk is described here by the trees the grammar of      *)
(* parser.cpp allows and by the stack of statements that are open.         *)
(*                                                                         *)
(* The modules of the passes conjoin their own handlers to these actions.  *)
(***************************************************************************)
EXTENDS Naturals, Sequences

CONSTANT MaxNodes   (* Bound: declarations and statements of a program.    *)

ASSUME WalkAssumption == MaxNodes \in Nat

VARIABLES
  open,   (* the open statements, outermost first                          *)
  nodes   (* how many nodes have been visited, up to MaxNodes              *)

walkVars == <<open, nodes>>

(***************************************************************************)
(* node: the statement.  "else" is an if statement whose else branch is    *)
(* being visited.                                                          *)
(* full: the slot for its body has been filled; a block is never full.     *)
(* tight: an else that follows belongs to a statement further out, so an   *)
(* if put straight into the slot must have taken an else of its own.       *)
(* has: hasReturn of the part visited so far, of the branch being visited  *)
(* if it is an if statement; ifHas: hasReturn of the first branch, once    *)
(* the second is visited.                                                  *)
(***************************************************************************)
Frame(node, tight, ifHas) ==
  [node |-> node, full |-> FALSE, tight |-> tight, has |-> FALSE, ifHas |-> ifHas]

Frames == [node : {"func", "if", "else", "block"}, full : BOOLEAN, tight : BOOLEAN,
           has : BOOLEAN, ifHas : BOOLEAN]

Top   == open[Len(open)]
Below == open[Len(open) - 1]
Outer == SubSeq(open, 1, Len(open) - 1)

(* The stack once the statement on top has been given another part.        *)
Filled == Append(Outer, [Top EXCEPT !.full = (Top.node # "block")])

(* hasReturn of the last part of the statement on top of a stack.          *)
Give(stack, has) == [stack EXCEPT ![Len(stack)].has = @ \/ has]

(* parse_block asks for statements until the closing bracket; every other  *)
(* construct takes one.                                                    *)
Accepts == open # <<>> /\ ~Top.full

(* A node is counted; a slot that must be filled is not refused one.       *)
MayVisit == Top.node = "block" => nodes < MaxNodes
Count    == nodes' = IF nodes < MaxNodes THEN nodes + 1 ELSE nodes

-----------------------------------------------------------------------------
WalkInit == open = <<>> /\ nodes = 0

(* A declaration at file level (Parser::parse).                            *)
VisitTopLevel ==
  /\ open = <<>>
  /\ nodes < MaxNodes
  /\ Count
  /\ UNCHANGED open

(* A function with a body (Parser::parse_function).                        *)
OpenFunction ==
  /\ open = <<>>
  /\ nodes < MaxNodes
  /\ Count
  /\ open' = <<Frame("func", FALSE, FALSE)>>

(* A statement without parts (Parser::parse_sentence); hasReturn holds of  *)
(* a return and of no other.                                               *)
VisitStatement(isReturn) ==
  /\ Accepts
  /\ MayVisit
  /\ Count
  /\ open' = Give(Filled, isReturn)

(* A block: the body of a function or the first branch of an if.  Nothing  *)
(* else calls parse_block.                                                 *)
OpenBlock ==
  /\ Accepts
  /\ Top.node \in {"func", "if"}
  /\ open' = Append(Filled, Frame("block", FALSE, FALSE))
  /\ UNCHANGED nodes

(* An if statement, hasElse telling whether it has an else branch          *)
(* (Parser::parse_if_sentence).                                            *)
OpenIf(hasElse) ==
  /\ Accepts
  /\ nodes < MaxNodes
  /\ Top.tight => hasElse
  /\ Count
  /\ open' = Append(Filled, Frame("if", hasElse, FALSE))

(* The else branch follows the first one.  What closes the if statement    *)
(* closes this branch, so its slot is as tight as the one the if is in.    *)
OpenElse ==
  /\ open # <<>>
  /\ Top.node = "if" /\ Top.full /\ Top.tight
  /\ open' = Append(Outer, Frame("else", Below.tight, Top.has))
  /\ UNCHANGED nodes

AtEndOfIf == open # <<>> /\ Top.full /\ (Top.node = "else" \/ (Top.node = "if" /\ ~Top.tight))

(* Mutant: one branch that returns is enough.                              *)
ifHasReturnEither == Top.has \/ Top.ifHas

(* hasReturn of an if statement: both branches return.                     *)
ifHasReturn == Top.node = "else" /\ Top.ifHas /\ Top.has

CloseIf ==
  /\ AtEndOfIf
  /\ open' = Give(Outer, ifHasReturn)
  /\ UNCHANGED nodes

CloseBlock ==
  /\ open # <<>>
  /\ Top.node = "block"
  /\ open' = Give(Outer, Top.has)
  /\ UNCHANGED nodes

CloseFunction ==
  /\ open # <<>>
  /\ Top.node = "func" /\ Top.full
  /\ open' = <<>>
  /\ UNCHANGED nodes

(* The whole file has been visited.                                        *)
WalkDone == open = <<>> /\ nodes = MaxNodes

=============================================================================
