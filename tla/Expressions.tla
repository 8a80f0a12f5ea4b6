---------------------------- MODULE Expressions ----------------------------
(***************************************************************************)
(* An expression on its way from the parser to the intermediate            *)
(* representation: the node the parser makes for each part, what           *)
(* Semantic::codeSemanticAnalyses writes into the nodes and the            *)
(* promotions it puts between them, and the instructions                   *)
(* IRTranslator::TranslateExpr emits for the result.  The expression is    *)
(* the right side of an assignment to a variable.                          *)
(*                                                                         *)
(* The nodes are numbered in the order the parser allocates them, operands *)
(* before what they are operands of; the analyser's promotions come after. *)
(***************************************************************************)
EXTENDS NebulaTypes, OperatorPrecedence, FiniteSets

CONSTANTS
  Variables,    (* name -> type                                            *)
  Fields,       (* struct name -> field name -> type                       *)
  Functions,    (* name -> [paramType, retType]                            *)
  EnumBacking,  (* enum name -> kind of its backing type                   *)
  Arithmetic,   (* binary operators of an expression that are not compOp   *)
  Compares,     (* those that are                                          *)
  Unaries,      (* prefix operators                                        *)
  MaxNodes      (* Bound: nodes of an expression, without promotions.      *)

compOp == {"==", ">", ">=", "<", "<=", "!="}

(* The types of the program: what is declared, and what has a kind alone.  *)
Types ==
  UNION ({{Builtin(k) : k \in Kinds \ {"STRUCT"}},
          {Variables[v] : v \in DOMAIN Variables},
          {Functions[f].retType : f \in DOMAIN Functions}}
         \cup {{Fields[s][f] : f \in DOMAIN Fields[s]} : s \in DOMAIN Fields}
         \cup {{Functions[f].paramType[i] : i \in DOMAIN Functions[f].paramType} :
                 f \in DOMAIN Functions})

ASSUME ExpressionsAssumption ==
  /\ Compares \subseteq compOp /\ Arithmetic \cap compOp = {}
  /\ Unaries \subseteq {"!", "~", "-"}
  /\ MaxNodes \in Nat
  /\ \A t \in Types : t.kind \in Kinds /\ (t.kind = "STRUCT" => t.name \in DOMAIN Fields)
  /\ \A f \in DOMAIN Functions : Functions[f].paramType \in Seq(Types)
  /\ \A e \in DOMAIN EnumBacking : EnumBacking[e] \in Kinds \ {"STRUCT", "ENUM"}
  /\ "zero" \notin DOMAIN Functions     (* a slot that was never written    *)

VARIABLES
  nodes,        (* the arena                                               *)
  operands,     (* the parsed expressions that have no parent yet          *)
  target,       (* the variable assigned to                                *)
  root,         (* n.info of the assignment                                *)
  phase,        (* "parse", "analyse", "translate", "refused", "done",     *)
                (* "threw"                                                 *)
  next,         (* the node the analyser comes to next                     *)
  errorNumber,
  pending,      (* the TranslateExpr calls, with the values they have      *)
  tempCounter,
  code          (* the instructions emitted                                *)

vars == <<nodes, operands, target, root, phase, next, errorNumber, pending,
          tempCounter, code>>

-----------------------------------------------------------------------------
(***************************************************************************)
(* Nodes as the parser leaves them.  slot is what info refers to: the      *)
(* variable, the field or the function that was looked up.  A node whose   *)
(* info was never written refers to "zero": offset 0 of the frame.         *)
(***************************************************************************)
Node(kind, op, precision, parts) ==
  [kind |-> kind, op |-> op, precision |-> precision, parts |-> parts, slot |-> "zero"]

(* Type{}: the first of the kinds.                                         *)
ZeroType == Builtin("FLOAT32")

Int32Literal      == Node("int", "", Builtin("INT32"), <<>>)
Float32Literal    == Node("float", "", Builtin("FLOAT32"), <<>>)
VariableAccess(v) == Node("var", v, ZeroType, <<>>)
EnumAccess(e)     == Node("enum", e, Builtin(EnumBacking[e]), <<>>)
UnaryOp(op, n)    == Node("unary", op, Builtin("INT32"), <<n>>)
BinaryOp(op, l, r) == Node("binary", op, Builtin("INT32"), <<l, r>>)
FuncCall(f, args) == Node("call", f, Builtin("VOID"), args)
readAddr(op, n)   == Node("read", op, Builtin("UINT32"), <<n>>)
StructAccess(f, n) == Node("field", f, Builtin("INT32"), <<n>>)
Promotion(to, n)  == Node("promotion", "", to, <<n>>)

-----------------------------------------------------------------------------
(***************************************************************************)
(* Semantic::type_precision.  A read is tested for quantities of 64, 32    *)
(* and 16; what it holds is a number of bytes.                             *)
(***************************************************************************)
type_precision(table, expression) ==
  LET tp[n \in DOMAIN table] ==
        LET this    == table[n]
            part(i) == tp[this.parts[i]]
        IN  CASE this.kind = "var"    -> Variables[this.op]
              [] this.kind = "binary" -> resolve_type(part(1), part(2))
              [] this.kind = "unary"  -> part(1)
              [] this.kind = "call"   -> Functions[this.op].retType
              [] this.kind = "read"   -> Builtin("UINT32")
              [] this.kind = "field"  -> Fields[part(1).name][this.op]
              [] OTHER                -> this.precision
  IN  tp[expression]

TypeOf(n) == type_precision(nodes, n)

-----------------------------------------------------------------------------
Init ==
  /\ nodes = <<>>
  /\ operands = <<>>
  /\ target \in DOMAIN Variables
  /\ root = 0
  /\ phase = "parse"
  /\ next = 1
  /\ errorNumber = 0
  /\ pending = <<>>
  /\ tempCounter = 0
  /\ code = <<>>

(***************************************************************************)
(* Parsing.  An operator, a call or a member access takes the expressions  *)
(* parsed last.                                                            *)
(***************************************************************************)
Last(k)  == SubSeq(operands, Len(operands) - k + 1, Len(operands))
First(k) == SubSeq(operands, 1, Len(operands) - k)

Parsed(node, taken) ==
  /\ phase = "parse"
  /\ Len(nodes) < MaxNodes
  /\ nodes' = Append(nodes, node)
  /\ operands' = Append(First(taken), Len(nodes) + 1)
  /\ UNCHANGED <<target, root, phase, next, errorNumber, pending, tempCounter, code>>

ParseLeaf ==
  \/ Parsed(Int32Literal, 0)
  \/ Parsed(Float32Literal, 0)
  \/ \E v \in DOMAIN Variables : Parsed(VariableAccess(v), 0)
  \/ \E e \in DOMAIN EnumBacking : Parsed(EnumAccess(e), 0)

(* How tight a node is: there are no parentheses, so an operator takes     *)
(* what binds tighter (ExpressionParser).                                  *)
Tightness(n) ==
  IF nodes[n].kind = "binary" THEN Precedence(nodes[n].op) ELSE PREFIX + 1

ParseUnary ==
  /\ Len(operands) >= 1
  /\ Tightness(Last(1)[1]) > PREFIX
  /\ \E op \in Unaries : Parsed(UnaryOp(op, Last(1)[1]), 1)

ParseBinary ==
  /\ Len(operands) >= 2
  /\ \E op \in Arithmetic \cup Compares :
       /\ Tightness(Last(2)[1]) >= Precedence(op)
       /\ Tightness(Last(2)[2]) > Precedence(op)
       /\ Parsed(BinaryOp(op, Last(2)[1], Last(2)[2]), 2)

ParseRead ==
  /\ Len(operands) >= 1
  /\ \E bytes \in {"4", "8"} : Parsed(readAddr(bytes, Last(1)[1]), 1)

(* Any number of arguments; the analyser compares it with the parameters.  *)
ParseCall ==
  \E f \in DOMAIN Functions, k \in 0..1 :
    Len(operands) >= k /\ Parsed(FuncCall(f, Last(k)), k)

(* Only of a struct that has the field: for another the analyser follows   *)
(* an iterator past the end.                                               *)
ParseField ==
  /\ Len(operands) >= 1
  /\ nodes[Last(1)[1]].kind \in {"var", "call", "field"}
  /\ LET base == TypeOf(Last(1)[1])
     IN  /\ base.kind = "STRUCT"
         /\ \E f \in DOMAIN Fields[base.name] : Parsed(StructAccess(f, Last(1)[1]), 1)

EndParse ==
  /\ phase = "parse" /\ Len(operands) = 1
  /\ root' = operands[1]
  /\ phase' = "analyse"
  /\ UNCHANGED <<nodes, operands, target, next, errorNumber, pending, tempCounter, code>>

-----------------------------------------------------------------------------
(***************************************************************************)
(* codeSemanticAnalyses.  The nodes are analysed in their order, operands  *)
(* first; nothing below a call is.                                         *)
(***************************************************************************)
Original == operands[1]

InArguments ==
  LET below[n \in DOMAIN nodes] ==
        \E m \in DOMAIN nodes :
          /\ \E i \in DOMAIN nodes[m].parts : nodes[m].parts[i] = n
          /\ nodes[m].kind = "call" \/ below[m]
  IN  {n \in DOMAIN nodes : below[n]}

(* What becomes of the type of n where the type to is wanted.              *)
Differs(n, to)   == TypeOf(n).kind # to.kind
Refused(n, to)   == TypeError(TypeOf(n), to, EnumBacking)
Promote(n, to)   == tryPromote(TypeOf(n), to, EnumBacking)
Errors(n, to)    == IF Differs(n, to) /\ Refused(n, to) THEN 1 ELSE 0

Analyse(kind) == phase = "analyse" /\ next <= Original /\ nodes[next].kind = kind

Analysed(newNodes, errors) ==
  /\ nodes' = newNodes
  /\ next' = next + 1
  /\ errorNumber' = errorNumber + errors
  /\ UNCHANGED <<operands, target, root, phase, pending, tempCounter, code>>

node == nodes[next]

WithPrecision(p) == [nodes EXCEPT ![next].precision = p]

(* Mutant: the arena hands out the node it handed out last.                *)
NewNodeLast == Len(nodes)

(* arena.allocate.                                                         *)
NewNode == Len(nodes) + 1

(* FuncCallStmtNode does not analyse its arguments.                        *)
SkipArgument ==
  /\ phase = "analyse" /\ next <= Original /\ next \in InArguments
  /\ Analysed(nodes, 0)

AnalyseLeaf ==
  /\ next \notin InArguments
  /\ \/ Analyse("int") \/ Analyse("float") \/ Analyse("enum")
  /\ Analysed(nodes, 0)

AnalyseVariable ==
  /\ Analyse("var") /\ next \notin InArguments
  /\ Analysed([nodes EXCEPT ![next].precision = Variables[node.op],
                            ![next].slot = node.op], 0)

(* "!" converts its operand to int32 and keeps the precision the parser    *)
(* gave it.                                                                *)
AnalyseUnary ==
  /\ Analyse("unary") /\ next \notin InArguments
  /\ LET operand == node.parts[1]
         int32   == Builtin("INT32")
     IN  IF node.op # "!" THEN Analysed(WithPrecision(TypeOf(operand)), 0)
         ELSE IF Differs(operand, int32)
         THEN Analysed(Append([nodes EXCEPT ![next].parts = <<NewNode>>],
                              Promotion(Promote(operand, int32), operand)),
                       Errors(operand, int32))
         ELSE Analysed(nodes, 0)

(* The operands are not converted.                                         *)
AnalyseArithmetic ==
  /\ Analyse("binary") /\ next \notin InArguments /\ node.op \notin compOp
  /\ Analysed(WithPrecision(TypeOf(next)), 0)

(* A comparison converts its left operand to the type of the right one or, *)
(* if that is refused, means to convert the right one to that of the left: *)
(* the promotion it makes for it has the two types exchanged, and the left *)
(* operand gets one to its own type.                                       *)
AnalyseComparison ==
  /\ Analyse("binary") /\ next \notin InArguments /\ node.op \in compOp
  /\ LET l     == node.parts[1]
         r     == node.parts[2]
         left  == TypeOf(l)
         right == TypeOf(r)
         same  == Promote(l, right).kind = right.kind
         back  == Promote(r, left)
     IN  IF left.kind = right.kind THEN Analysed(nodes, 0)
         ELSE IF same
         THEN Analysed(Append([nodes EXCEPT ![next].parts = <<NewNode, r>>],
                              Promotion(Promote(l, right), l)), 0)
         ELSE Analysed([nodes EXCEPT ![next].parts = <<NewNode + 1, NewNode>>]
                         \o <<Promotion(right, r), Promotion(back, l)>>,
                       IF back.kind # left.kind THEN 1 ELSE 0)

(* FuncCallStmtNode.                                                       *)
AnalyseCall ==
  /\ Analyse("call") /\ next \notin InArguments
  /\ LET f       == Functions[node.op]
         args    == node.parts
         checked == IF Len(args) < Len(f.paramType) THEN DOMAIN args ELSE DOMAIN f.paramType
         wrapped == {i \in checked : Differs(args[i], f.paramType[i])}
         rank(i) == Cardinality({j \in wrapped : j <= i})
         at(k)   == CHOOSE i \in wrapped : rank(i) = k
     IN  Analysed([nodes EXCEPT
                     ![next].precision = f.retType,
                     ![next].slot = node.op,
                     ![next].parts = [i \in DOMAIN args |->
                        IF i \in wrapped THEN Len(nodes) + rank(i) ELSE args[i]]]
                   \o [k \in 1..Cardinality(wrapped) |->
                         Promotion(Promote(args[at(k)], f.paramType[at(k)]), args[at(k)])],
                  (IF Len(args) # Len(f.paramType) THEN 1 ELSE 0)
                    + Cardinality({i \in wrapped : Refused(args[i], f.paramType[i])}))

(* readAddrNode: an address is wanted.                                     *)
AnalyseRead ==
  /\ Analyse("read") /\ next \notin InArguments
  /\ Analysed(nodes, IF TypeOf(node.parts[1]).kind \in {"VADDR", "PADDR"} THEN 0 ELSE 1)

AnalyseField ==
  /\ Analyse("field") /\ next \notin InArguments
  /\ Analysed([nodes EXCEPT ![next].precision = TypeOf(next), ![next].slot = node.op], 0)

(* toIRType does not support an enum.                                      *)
Throws(t) == t.kind = "ENUM"

(* Mutant: the value is stored as it is.                                   *)
ConvertNothing ==
  /\ phase = "analyse" /\ next > Original
  /\ errorNumber' = errorNumber + Errors(root, Variables[target])
  /\ phase' = IF errorNumber' # 0 THEN "refused"
              ELSE IF Throws(Variables[target]) THEN "threw" ELSE "translate"
  /\ pending' = IF errorNumber' = 0 THEN <<[node |-> root, vals |-> <<>>]>> ELSE <<>>
  /\ UNCHANGED <<nodes, operands, target, root, next, tempCounter, code>>

(* VariableModNode: the value is converted to the type of the variable.    *)
(* The program is translated if no error was found, the variable first.    *)
Convert ==
  /\ phase = "analyse" /\ next > Original
  /\ LET to == Variables[target]
     IN  /\ IF Differs(root, to)
            THEN /\ nodes' = Append(nodes, Promotion(Promote(root, to), root))
                 /\ root' = NewNode
            ELSE UNCHANGED <<nodes, root>>
         /\ errorNumber' = errorNumber + Errors(root, to)
  /\ phase' = IF errorNumber' # 0 THEN "refused"
              ELSE IF Throws(Variables[target]) THEN "threw" ELSE "translate"
  /\ pending' = IF errorNumber' = 0 THEN <<[node |-> root', vals |-> <<>>]>> ELSE <<>>
  /\ UNCHANGED <<operands, target, next, tempCounter, code>>

-----------------------------------------------------------------------------
(***************************************************************************)
(* TranslateExpr.  A call in progress is on pending with the values of the *)
(* operands translated so far.                                             *)
(***************************************************************************)

toIRType(t) ==
  CASE t.kind = "INT8"    -> "I8"
    [] t.kind = "INT16"   -> "I16"
    [] t.kind = "INT32"   -> "I32"
    [] t.kind = "INT64"   -> "I64"
    [] t.kind = "UINT8"   -> "U8"
    [] t.kind = "UINT16"  -> "U16"
    [] t.kind = "UINT32"  -> "U32"
    [] t.kind \in {"UINT64", "VADDR", "PADDR", "STRUCT"} -> "U64"
    [] t.kind = "FLOAT32" -> "F32"
    [] t.kind = "FLOAT64" -> "F64"
    [] t.kind = "VOID"    -> "V"

(* The switches of emitBinary and emitUnary.                               *)
binaryOp(op) ==
  CASE op = "-"         -> "SUB"
    [] op \in {"%", "/"} -> "DIV"
    [] op = "*"         -> "MUL"
    [] op = "&"         -> "AND"
    [] op = "|"         -> "OR"
    [] op = "^"         -> "XOR"
    [] op = "~"         -> "NOT"
    [] op = "=="        -> "CMP"
    [] OTHER            -> "ADD"

unaryOp(op) == IF op = "-" THEN "SUB" ELSE "NOT"

Val(class, type, id)     == [class |-> class, type |-> type, id |-> id, temp |-> 0]
IRInst(n, op, dst, args) == [node |-> n, op |-> op, dst |-> dst, args |-> args]

makeTemp(t) == [Val("TEMP", t, "") EXCEPT !.temp = tempCounter]

Call    == pending[Len(pending)]
Callers == SubSeq(pending, 1, Len(pending) - 1)
here    == nodes[Call.node]

Translate(kind) ==
  /\ phase = "translate" /\ pending # <<>>
  /\ here.kind = kind
  /\ Len(Call.vals) = Len(here.parts)

(* The call returns v to the one that made it; the outermost returns it to *)
(* the assignment, which stores it.                                        *)
Returns(v, instructions) ==
  /\ IF Callers # <<>>
     THEN /\ pending' = [Callers EXCEPT ![Len(Callers)].vals = Append(@, v)]
          /\ code' = code \o instructions
          /\ UNCHANGED phase
     ELSE /\ pending' = <<>>
          /\ code' = code \o instructions
                       \o <<IRInst(0, "STORE", Val("VAR", toIRType(Variables[target]), target), <<v>>)>>
          /\ phase' = "done"
  /\ UNCHANGED <<nodes, operands, target, root, next, errorNumber>>

Throw ==
  /\ phase' = "threw"
  /\ UNCHANGED <<nodes, operands, target, root, next, errorNumber, pending, tempCounter, code>>

(* Mutant: the counter is not advanced.                                    *)
ComputeSameTemp(t, op, args) ==
  IF Throws(t) THEN Throw
  ELSE LET tmp == makeTemp(toIRType(t))
       IN  /\ Returns(tmp, <<IRInst(Call.node, op, tmp, args)>>)
           /\ UNCHANGED tempCounter

(* A temporary of type t gets the result of an instruction on the operands *)
Compute(t, op, args) ==
  IF Throws(t) THEN Throw
  ELSE LET tmp == makeTemp(toIRType(t))
       IN  /\ Returns(tmp, <<IRInst(Call.node, op, tmp, args)>>)
           /\ tempCounter' = tempCounter + 1

(* Mutant: the operand on the right is translated first.                   *)
TranslateOperandReversed ==
  /\ phase = "translate" /\ pending # <<>>
  /\ Len(Call.vals) < Len(here.parts)
  /\ pending' = Append(pending, [node |-> here.parts[Len(here.parts) - Len(Call.vals)],
                                 vals |-> <<>>])
  /\ UNCHANGED <<nodes, operands, target, root, phase, next, errorNumber, tempCounter, code>>

(* The operands are translated one after the other.                        *)
TranslateOperand ==
  /\ phase = "translate" /\ pending # <<>>
  /\ Len(Call.vals) < Len(here.parts)
  /\ pending' = Append(pending, [node |-> here.parts[Len(Call.vals) + 1], vals |-> <<>>])
  /\ UNCHANGED <<nodes, operands, target, root, phase, next, errorNumber, tempCounter, code>>

TranslateLiteral ==
  /\ Translate("int") \/ Translate("float") \/ Translate("enum")
  /\ Returns(Val("CONST", toIRType(here.precision), here.op), <<>>)
  /\ UNCHANGED tempCounter

TranslateVariable ==
  /\ Translate("var")
  /\ IF Throws(here.precision) THEN Throw
     ELSE /\ Returns(Val("VAR", toIRType(here.precision), here.slot), <<>>)
          /\ UNCHANGED tempCounter

TranslateBinary ==
  Translate("binary") /\ Compute(here.precision, binaryOp(here.op), Call.vals)

TranslateUnary ==
  Translate("unary") /\ Compute(here.precision, unaryOp(here.op), Call.vals)

(* A call that was not analysed has the id and the type that were in the   *)
(* memory of the node.                                                     *)
TranslateCall ==
  /\ Translate("call")
  /\ \E t \in IF here.slot = "zero" THEN {Builtin("INT32"), Builtin("ENUM")}
             ELSE {here.precision} :
       Compute(t, "CALL", Call.vals)

TranslatePromotion == Translate("promotion") /\ Compute(here.precision, "CAST", Call.vals)

TranslateRead ==
  /\ Translate("read")
  /\ Compute(Builtin(IF here.op = "8" THEN "UINT64" ELSE "UINT32"), "LOAD", Call.vals)

(* The address of the member.                                              *)
TranslateField ==
  /\ Translate("field")
  /\ Compute(Builtin("UINT64"), "ADD", Append(Call.vals, Val("CONST", "I32", here.slot)))

Done == phase \in {"refused", "done", "threw"} /\ UNCHANGED vars

(* The bound on nodes leaves expressions that cannot be finished.          *)
Stop == phase = "parse" /\ Len(nodes) = MaxNodes /\ Len(operands) # 1 /\ UNCHANGED vars

Next ==
  \/ ParseLeaf
  \/ ParseUnary
  \/ ParseBinary
  \/ ParseRead
  \/ ParseCall
  \/ ParseField
  \/ EndParse
  \/ SkipArgument
  \/ AnalyseLeaf
  \/ AnalyseVariable
  \/ AnalyseUnary
  \/ AnalyseArithmetic
  \/ AnalyseComparison
  \/ AnalyseCall
  \/ AnalyseRead
  \/ AnalyseField
  \/ Convert
  \/ TranslateOperand
  \/ TranslateLiteral
  \/ TranslateVariable
  \/ TranslateBinary
  \/ TranslateUnary
  \/ TranslateCall
  \/ TranslatePromotion
  \/ TranslateRead
  \/ TranslateField
  \/ Done
  \/ Stop

Spec == Init /\ [][Next]_vars

-----------------------------------------------------------------------------
(***************************************************************************)
(* Properties.                                                             *)
(***************************************************************************)
NodeKinds == {"int", "float", "var", "enum", "unary", "binary", "call", "read", "field",
              "promotion"}

IRTypes == {"I8", "I16", "I32", "I64", "U8", "U16", "U32", "U64", "F32", "F64", "V"}

TypeOK ==
  /\ \A n \in DOMAIN nodes :
       /\ nodes[n].kind \in NodeKinds
       /\ nodes[n].precision.kind \in Kinds
       /\ \A i \in DOMAIN nodes[n].parts : nodes[n].parts[i] \in DOMAIN nodes \ {n}
  /\ operands \in Seq(1..MaxNodes)
  /\ target \in DOMAIN Variables
  /\ root \in {0} \cup DOMAIN nodes
  /\ phase \in {"parse", "analyse", "translate", "refused", "done", "threw"}
  /\ next \in 1..MaxNodes+1
  /\ errorNumber \in Nat
  /\ \A k \in DOMAIN pending :
       /\ pending[k].node \in DOMAIN nodes
       /\ Len(pending[k].vals) <= Len(nodes[pending[k].node].parts)
  /\ tempCounter \in Nat
  /\ \A i \in DOMAIN code : code[i].dst.type \in IRTypes

(* Every temporary an instruction reads was written by exactly one         *)
(* instruction, an earlier one, and in a finished expression every result  *)
(* is read by exactly one: promotions and calls nest without two parts of  *)
(* an expression sharing a temporary (makeTemp, TranslateExpr).            *)
Writes(v)      == {i \in DOMAIN code : code[i].dst = v}
Reads(v)       == {i \in DOMAIN code : \E k \in DOMAIN code[i].args : code[i].args[k] = v}

TempsWellDefined ==
  /\ \A i \in DOMAIN code : \A k \in DOMAIN code[i].args :
       code[i].args[k].class = "TEMP" =>
         \E j \in 1..i-1 : Writes(code[i].args[k]) = {j}
  /\ phase = "done" =>
       \A i \in DOMAIN code :
         code[i].dst.class = "TEMP" => Cardinality(Reads(code[i].dst)) = 1

(* The calls and reads of an expression are emitted once each, in the      *)
(* order they have in the source, also those in the arguments of a call    *)
(* and under promotions.                                                   *)
EffectsInOrder ==
  LET effects == {i \in DOMAIN code : code[i].op \in {"CALL", "LOAD"}}
  IN  /\ \A i, j \in effects : i < j => code[i].node < code[j].node
      /\ phase = "done" =>
           {code[i].node : i \in effects} =
             {n \in DOMAIN nodes : nodes[n].kind \in {"call", "read"}}

(* The values whose type in the IR is the one they were checked with: all  *)
(* but comparisons, reads and members, and but what is below a call and    *)
(* was not analysed.  A converted value is one again.                      *)
Checked(n) ==
  \/ nodes[n].kind \in {"int", "float", "enum", "promotion"}
  \/ /\ n \notin InArguments
     /\ \/ nodes[n].kind \in {"var", "unary", "call"}
        \/ nodes[n].kind = "binary" /\ nodes[n].op \notin compOp

(* In an accepted expression such a value has the IR type of the type the  *)
(* analyser decided the conversions with, and what is stored in the        *)
(* variable has the variable's.                                            *)
ValuesHaveCheckedType ==
  /\ phase = "translate" =>
       \A k \in DOMAIN pending : \A i \in DOMAIN pending[k].vals :
         LET n == nodes[pending[k].node].parts[i]
         IN  Checked(n) => pending[k].vals[i].type = toIRType(TypeOf(n))
  /\ phase = "done" /\ Checked(root) =>
       code[Len(code)].args[1].type = toIRType(Variables[target])

(* "Type promotion" (README): the operands of a comparison have one type   *)
(* once they have been converted.                                          *)
ComparedAlike ==
  phase = "translate" =>
    \A n \in DOMAIN nodes \ InArguments :
      nodes[n].kind = "binary" /\ nodes[n].op \in compOp =>
        TypeOf(nodes[n].parts[1]).kind = TypeOf(nodes[n].parts[2]).kind

(* What is said of the operand of a promotion where it is translated: it   *)
(* "will always have a type".                                              *)
PromotedHaveType ==
  \A i \in DOMAIN code : code[i].op = "CAST" => code[i].args[1].type # "V"

(* An access to a variable reads the variable.                             *)
AccessesReadTheirVariable ==
  phase = "translate" =>
    \A k \in DOMAIN pending : \A i \in DOMAIN pending[k].vals :
      LET n == nodes[pending[k].node].parts[i]
      IN  nodes[n].kind = "var" => pending[k].vals[i].id = nodes[n].op

=============================================================================
